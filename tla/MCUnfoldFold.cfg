SPECIFICATION Spec
CONSTANTS
    p1 = p1
    p2 = p2
    c1 = c1
    c2 = c2
    c3 = c3
    None = None
    Capacity = 2
    SizeModulus = 256
    ParentItems <- TwoParents
    ChildItems <- ThreeChildren
    TapWorkers = {t1, t2}
    MaxChildren = 3
INVARIANTS
    TypeOK
    RefCountExact
    
    NeverThrows
    
PROPERTIES
    HierarchySpec

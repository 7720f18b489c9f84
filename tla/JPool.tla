------------------------------- MODULE JPool -------------------------------
(***************************************************************************)
(* The event pool: per location, a stack of available events, and the      *)
(* events allocated on the heap when the pool may outgrow its size.  pop() *)
(* holds one location's mutex throughout, and put() touches one stack      *)
(* under one mutex, so each is one operator on the struct.  Every user     *)
(* asks for one event at a time.                                           *)
(***************************************************************************)
EXTENDS Integers, Sequences

CONSTANTS
    Locations,       \* 0 .. m_location_count - 1
    Items,           \* location -> the sequence of events in its items vector
    HeapEvents,      \* bound on the events alive outside the pool
    LimitInFlight    \* m_limit_total_events_in_flight

ItemsAt(l) == {Items[l][i] : i \in 1 .. Len(Items[l])}

PoolEvents == UNION {ItemsAt(l) : l \in Locations}

Events == PoolEvents \cup HeapEvents

\* The items vectors are distinct memory, and the heap is elsewhere.
ASSUME PoolAssumption ==
    /\ Items \in [Locations -> Seq(PoolEvents)]
    /\ \A k, l \in Locations : k # l => ItemsAt(k) \cap ItemsAt(l) = {}
    /\ \A l \in Locations : \A i, j \in 1 .. Len(Items[l]) : Items[l][i] = Items[l][j] => i = j
    /\ PoolEvents \cap HeapEvents = {}
    /\ LimitInFlight \in BOOLEAN

Pool == [available : [Locations -> Seq(PoolEvents)], heap : SUBSET HeapEvents]

\* init(): every item of a location starts on its stack.
InitialPool == [available |-> Items, heap |-> {}]

\* The events pop(dest, 1, 1, l) may return: the top of the stack, or a new
\* event when the stack is empty and the pool may grow.
poppable(p, l) ==
    IF p.available[l] # <<>>
    THEN {p.available[l][Len(p.available[l])]}
    ELSE IF LimitInFlight THEN {} ELSE HeapEvents \ p.heap

\* pop() comes back with nothing.
pop_fails(p, l) == p.available[l] = <<>> /\ LimitInFlight

PopLeavingItem(p, l, e) == IF e \in PoolEvents THEN p ELSE [p EXCEPT !.heap = @ \cup {e}]

pool_pop(p, l, e) ==
    IF e \in PoolEvents
    THEN [p EXCEPT !.available[l] = SubSeq(@, 1, Len(@) - 1)]
    ELSE [p EXCEPT !.heap = @ \cup {e}]

PutAtOwnLocation(p, l, e) == [p EXCEPT !.available[l] = Append(@, e)]

\* put(e, l): the location whose items vector holds e takes it back, whatever l
\* is; an event of no location is deleted.
put(p, l, e) ==
    IF e \in PoolEvents
    THEN [p EXCEPT !.available = [k \in Locations |->
                                     IF e \in ItemsAt(k) THEN Append(@[k], e) ELSE @[k]]]
    ELSE [p EXCEPT !.heap = @ \ {e}]

=============================================================================

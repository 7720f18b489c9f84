-------------------------- MODULE UnfoldFoldSteps ---------------------------
(***************************************************************************)
(* The inductive invariant of UnfoldFold, and the steps of the source, the *)
(* taps and the unfold arrow, which keep it.                               *)
(*                                                                         *)
(* None of the properties is inductive.  Control says what each arrow      *)
(* holds at each of its steps; ParentsAt and ChildrenAt list the places an *)
(* event may be in, and Family says that no event is in two of them and    *)
(* which children have a parent.  All this holds always.  That no child    *)
(* and no slot is ever lost is not proved here: it takes queues that have  *)
(* room for all parents, since JFoldArrow::execute() forgets the child it  *)
(* has pulled when parent_out has no room for the parent.                  *)
(***************************************************************************)
EXTENDS UnfoldFold, Functions, TLAPS

Has(e) == e # None

\* What the unfold arrow holds at each step of execute().
UnfoldControl ==
    LET u == unfold
        pulled == /\ u.ready <=> Has(u.parent_in)
                  /\ u.parent_slot = IF u.ready THEN 1 ELSE 0
    IN  /\ u.ready <=> u.parent_event = None
        /\ u.last => u.step = "release"
        /\ u.step # "threw"
        /\ u.step \in {"child_in", "child_out", "return_parent", "unfold"} => pulled
        /\ u.step \notin {"child_in", "child_out", "return_parent", "unfold"} => u.parent_in = None
        /\ u.step \in {"parent_in", "return_child", "push_out"} => u.parent_slot = 0
        /\ u.step \in {"parent_in", "child_in"} => u.child = None
        /\ u.step \notin {"parent_in", "child_in", "return_parent"} => Has(u.child)
        /\ u.out_slot = IF u.step \in {"unfold", "release", "push_parent", "push_out"} THEN 1 ELSE 0
        /\ u.step = "release" => Has(u.parent_event) /\ parent_of[u.child] = u.parent_event

\* And the fold arrow.
FoldControl ==
    LET f == fold
    IN  /\ f.step # "threw"
        /\ Has(f.child) <=> f.step \notin {"child_in", "push_parent"}
        /\ f.child_slot = IF f.step \in {"parent_out", "release", "push_in"} THEN 1 ELSE 0
        /\ f.step \in {"child_in", "parent_out", "release"} => f.parent = None
        /\ f.parent_slot = IF f.is_queue /\ f.step \notin {"child_in", "parent_out"} THEN 1 ELSE 0

\* The steps at which the unfold arrow has given its child a parent, and those at
\* which the fold arrow has not yet taken it away.
LateUnfold == {"release", "push_parent", "push_out"}

EarlyFold == {"parent_out", "release"}

\* The children that the workers of the tap have in hand.
Tapped == [w \in {w \in TapWorkers : tap_data[w] # None} |-> tap_data[w]]

ParentsAt ==
    [pool        |-> parent_pool.available[Here],
     source      |-> ItemsOf(source_data),
     parent_in   |-> mailbox["parent_in"].queue,
     unfold_data |-> ItemsOf(unfold.parent_in),
     unfold      |-> ItemsOf(unfold.parent_event),
     fold        |-> ItemsOf(fold.parent),
     parent_out  |-> mailbox["parent_out"].queue,
     parent_tap  |-> ItemsOf(parent_tap_data)]

Upstream == {"pool", "source", "parent_in", "unfold_data", "unfold"}

Downstream == {"fold", "parent_out", "parent_tap"}

ChildrenAt ==
    [pool       |-> child_pool.available[Here],
     unfold_in  |-> ItemsOf(IF unfold.step \in LateUnfold THEN None ELSE unfold.child),
     unfold_out |-> ItemsOf(IF unfold.step \in LateUnfold THEN unfold.child ELSE None),
     child_out  |-> mailbox["child_out"].queue,
     tap        |-> Tapped,
     child_in   |-> mailbox["child_in"].queue,
     fold_in    |-> ItemsOf(IF fold.step \in EarlyFold THEN fold.child ELSE None),
     fold_out   |-> ItemsOf(IF fold.step \in EarlyFold THEN None ELSE fold.child)]

\* The places of children with a parent, and of those without.
Attached == {"unfold_out", "child_out", "tap", "child_in", "fold_in"}

Detached == {"pool", "unfold_in", "fold_out"}

\* The events in the places X of S.
Within(S, X) == UNION {Range(S[x]) : x \in X}

\* No event is in two places, or twice in one.
Apart(S) ==
    \A x \in DOMAIN S :
       /\ IsInjective(S[x])
       /\ \A y \in DOMAIN S : x # y => Range(S[x]) \cap Range(S[y]) = {}

ParentFamily ==
    /\ Apart(ParentsAt)
    /\ Within(ParentsAt, Upstream \cup Downstream) \subseteq Parents
    /\ \A p \in Within(ParentsAt, Downstream) : Kids(p) = {}
    /\ \A p \in Parents : p \in Within(ParentsAt, Upstream \cup Downstream) \/ Kids(p) # {}

ChildFamily ==
    /\ Apart(ChildrenAt)
    /\ Within(ChildrenAt, Attached \cup Detached) \subseteq Children
    /\ \A c \in Within(ChildrenAt, Attached) : parent_of[c] # None
    /\ \A c \in Within(ChildrenAt, Detached) : parent_of[c] = None

Counted ==
    \A p \in Parents :
       refs[p] = Cardinality(Kids(p)) + IF p \in Within(ParentsAt, Upstream) THEN 1 ELSE 0

\* How sets of children are counted.  This holds of all finite sets; it is proved
\* at the end, and the invariant carries it to the steps that count.
Counting ==
    /\ Cardinality({}) = 0
    /\ \A S \in SUBSET Children :
          /\ Cardinality(S) \in Nat /\ (Cardinality(S) = 0 <=> S = {})
          /\ \A c \in Children \ S : Cardinality(S \cup {c}) = Cardinality(S) + 1
          /\ \A c \in S : Cardinality(S \ {c}) = Cardinality(S) - 1

IInv == Counting /\ TypeOK /\ UnfoldControl /\ FoldControl /\ ParentFamily /\ ChildFamily /\ Counted

-----------------------------------------------------------------------------
(* Sequences.                                                              *)

\* The elements of a sequence.
LEMMA SeqElements ==
    ASSUME NEW E, NEW s \in Seq(E)
    PROVE  Len(s) \in Nat /\ DOMAIN s = 1 .. Len(s) /\ \A i \in 1 .. Len(s) : s[i] \in E
OBVIOUS

\* The empty sequence.
LEMMA SeqEmpty ==
    ASSUME NEW E
    PROVE  <<>> \in Seq(E) /\ Len(<<>>) = 0 /\ \A s \in Seq(E) : Len(s) = 0 <=> s = <<>>
OBVIOUS

\* The head of a queue.
LEMMA SeqHead ==
    ASSUME NEW E, NEW s \in Seq(E), s # <<>>
    PROVE  Head(s) = s[1] /\ Head(s) \in E /\ Len(s) >= 1
OBVIOUS

\* What push_back() does.
LEMMA SeqAppend ==
    ASSUME NEW E, NEW s \in Seq(E), NEW e \in E
    PROVE  /\ Append(s, e) \in Seq(E) /\ Len(Append(s, e)) = Len(s) + 1
           /\ \A i \in 1 .. Len(s) : Append(s, e)[i] = s[i]
           /\ Append(s, e)[Len(s) + 1] = e
           /\ s \o <<e>> = Append(s, e)
OBVIOUS

\* One queue after another.
LEMMA SeqConcat ==
    ASSUME NEW E, NEW s \in Seq(E), NEW t \in Seq(E)
    PROVE  s \o t \in Seq(E) /\ Len(s \o t) = Len(s) + Len(t) /\ s \o <<>> = s
OBVIOUS

\* A part of a queue.
LEMMA SeqPart ==
    ASSUME NEW E, NEW s \in Seq(E), NEW m \in Int, NEW n \in Int, 1 <= m, n <= Len(s)
    PROVE  /\ SubSeq(s, m, n) \in Seq(E)
           /\ Len(SubSeq(s, m, n)) = IF m <= n THEN n - m + 1 ELSE 0
           /\ \A i \in 1 .. n - m + 1 : SubSeq(s, m, n)[i] = s[m + i - 1]
           /\ SubSeq(s, 1, Len(s)) = s
OBVIOUS

-----------------------------------------------------------------------------
(* Sequences that no event is twice in.                                    *)

\* An item pushed onto a stack or queue that does not have it.
LEMMA PushSeq ==
    ASSUME NEW E, NEW s \in Seq(E), IsInjective(s), NEW e \in E, e \notin Range(s)
    PROVE  /\ Append(s, e) \in Seq(E) /\ IsInjective(Append(s, e))
           /\ Range(Append(s, e)) = Range(s) \cup {e}
           /\ s \o <<e>> = Append(s, e)
<1> DEFINE t == Append(s, e)
<1>1. /\ t \in Seq(E) /\ Len(t) = Len(s) + 1 /\ t[Len(s) + 1] = e
      /\ \A i \in 1 .. Len(s) : t[i] = s[i]
  BY SeqAppend
<1>2. DOMAIN s = 1 .. Len(s) /\ DOMAIN t = 1 .. Len(s) + 1 /\ Len(s) \in Nat
  BY <1>1, SeqElements
<1>3. s \o <<e>> = t
  BY SeqAppend
<1>4. Range(t) = Range(s) \cup {e}
  <2> HIDE DEF t
  <2> QED
    BY <1>1, <1>2 DEF Range
<1>5. IsInjective(t)
  <2> HIDE DEF t
  <2>1. \A i \in 1 .. Len(s) : s[i] # e
    BY <1>2 DEF Range
  <2> QED
    BY <1>1, <1>2, <2>1 DEF IsInjective
<1> QED
  BY <1>1, <1>3, <1>4, <1>5

\* The item at the head of a queue is taken.
LEMMA PopHead ==
    ASSUME NEW E, NEW s \in Seq(E), IsInjective(s), Len(s) >= 1
    PROVE  LET t == SubSeq(s, 2, Len(s))
           IN  /\ t \in Seq(E) /\ Len(t) = Len(s) - 1
               /\ IsInjective(t)
               /\ Range(t) = Range(s) \ {s[1]}
               /\ s[1] \in Range(s) /\ s[1] \in E
<1> DEFINE t == SubSeq(s, 2, Len(s))
<1>1. Len(s) \in Nat /\ DOMAIN s = 1 .. Len(s) /\ \A i \in 1 .. Len(s) : s[i] \in E
  BY SeqElements
<1>n. Len(s) \in Nat
  BY <1>1
<1>2. /\ t \in Seq(E) /\ Len(t) = Len(s) - 1
      /\ \A i \in 1 .. Len(s) - 1 : t[i] = s[i + 1]
  <2>1. \A i \in 2 .. Len(s) : s[i] \in E
    BY <1>1
  <2>2. /\ t \in Seq(E) /\ Len(t) = (IF 2 <= Len(s) THEN Len(s) - 2 + 1 ELSE 0)
        /\ \A i \in 1 .. Len(s) - 2 + 1 : t[i] = s[2 + i - 1]
    BY <1>1, <2>1, SeqPart
  <2> HIDE DEF t
  <2>3. ASSUME NEW i \in 1 .. Len(s) - 1 PROVE t[i] = s[i + 1]
    <3>1. i \in 1 .. Len(s) - 2 + 1 /\ 2 + i - 1 = i + 1
      BY <1>1
    <3>2. t[i] = s[2 + i - 1]
      BY <2>2, <3>1
    <3> QED
      BY <3>1, <3>2
  <2>4. CASE 2 <= Len(s)
    <3>1. Len(t) = Len(s) - 2 + 1
      BY <2>2, <2>4
    <3> QED
      BY <1>n, <2>2, <2>3, <3>1
  <2>5. CASE ~(2 <= Len(s))
    <3>1. Len(t) = 0
      BY <2>2, <2>5
    <3>2. \A n \in Nat : n >= 1 /\ ~(2 <= n) => n = 1
      OBVIOUS
    <3>3. Len(s) = 1
      BY <1>n, <2>5, <3>2, ZenonT(30)
    <3> QED
      BY <2>2, <2>3, <3>1, <3>3
  <2> QED
    BY <2>4, <2>5
<1>3. DOMAIN t = 1 .. Len(s) - 1
  BY <1>2, SeqElements
<1> HIDE DEF t
<1>4. IsInjective(t)
  <2> SUFFICES ASSUME NEW i \in 1 .. Len(s) - 1, NEW j \in 1 .. Len(s) - 1, t[i] = t[j]
               PROVE  i = j
    BY <1>3 DEF IsInjective
  <2>1. i + 1 \in 1 .. Len(s) /\ j + 1 \in 1 .. Len(s) /\ s[i + 1] = s[j + 1]
    BY <1>1, <1>2
  <2>2. i + 1 = j + 1
    BY <1>1, <2>1 DEF IsInjective
  <2> QED
    BY <2>2
<1>5. ASSUME NEW x \in Range(t) PROVE x \in Range(s) \ {s[1]}
  <2>1. PICK i \in 1 .. Len(s) - 1 : x = s[i + 1]
    BY <1>2, <1>3 DEF Range
  <2> QED
    BY <1>1, <2>1 DEF Range, IsInjective
<1>6. ASSUME NEW x \in Range(s) \ {s[1]} PROVE x \in Range(t)
  <2>1. PICK i \in 1 .. Len(s) : x = s[i] /\ i # 1
    BY <1>1 DEF Range
  <2>2. i - 1 \in 1 .. Len(s) - 1 /\ (i - 1) + 1 = i
    BY <1>1, <2>1
  <2>3. t[i - 1] = x
    BY <1>2, <2>1, <2>2
  <2> QED
    BY <1>3, <2>2, <2>3 DEF Range
<1>7. s[1] \in Range(s) /\ s[1] \in E
  BY <1>1 DEF Range
<1> QED
  BY <1>2, <1>4, <1>5, <1>6, <1>7 DEF t

\* The item on top of a stack is taken.
LEMMA PopTop ==
    ASSUME NEW E, NEW s \in Seq(E), IsInjective(s), s # <<>>
    PROVE  LET t == SubSeq(s, 1, Len(s) - 1)
           IN  /\ t \in Seq(E)
               /\ IsInjective(t)
               /\ Range(t) = Range(s) \ {s[Len(s)]}
               /\ s[Len(s)] \in Range(s) /\ s[Len(s)] \in E
<1> DEFINE t == SubSeq(s, 1, Len(s) - 1)
<1>1. /\ Len(s) \in Nat \ {0} /\ DOMAIN s = 1 .. Len(s)
      /\ \A i \in 1 .. Len(s) : s[i] \in E
  BY SeqElements, SeqEmpty
<1>n. Len(s) \in Nat \ {0}
  BY <1>1
<1>2. /\ t \in Seq(E) /\ Len(t) = Len(s) - 1
      /\ \A i \in 1 .. Len(s) - 1 : t[i] = s[i]
  <2>1. \A i \in 1 .. Len(s) - 1 : s[i] \in E
    BY <1>1
  <2>2. /\ t \in Seq(E)
        /\ Len(t) = (IF 1 <= Len(s) - 1 THEN Len(s) - 1 - 1 + 1 ELSE 0)
        /\ \A i \in 1 .. Len(s) - 1 - 1 + 1 : t[i] = s[1 + i - 1]
    BY <1>1, <2>1, SeqPart
  <2> HIDE DEF t
  <2>3. ASSUME NEW i \in 1 .. Len(s) - 1 PROVE t[i] = s[i]
    <3>1. i \in 1 .. Len(s) - 1 - 1 + 1 /\ 1 + i - 1 = i
      BY <1>1
    <3>2. t[i] = s[1 + i - 1]
      BY <2>2, <3>1
    <3> QED
      BY <3>1, <3>2
  <2>4. CASE 1 <= Len(s) - 1
    <3>1. Len(t) = Len(s) - 1 - 1 + 1
      BY <2>2, <2>4
    <3> QED
      BY <1>n, <2>2, <2>3, <3>1
  <2>5. CASE ~(1 <= Len(s) - 1)
    <3>1. Len(t) = 0
      BY <2>2, <2>5
    <3>2. \A n \in Nat \ {0} : ~(1 <= n - 1) => n = 1
      OBVIOUS
    <3>3. Len(s) = 1
      BY <1>n, <2>5, <3>2, ZenonT(30)
    <3> QED
      BY <2>2, <2>3, <3>1, <3>3
  <2> QED
    BY <2>4, <2>5
<1>3. DOMAIN t = 1 .. Len(s) - 1
  BY <1>2, SeqElements
<1> HIDE DEF t
<1>4. IsInjective(t)
  BY <1>1, <1>2, <1>3 DEF IsInjective
<1>5. ASSUME NEW x \in Range(t) PROVE x \in Range(s) \ {s[Len(s)]}
  <2>1. PICK i \in 1 .. Len(s) - 1 : x = s[i]
    BY <1>2, <1>3 DEF Range
  <2> QED
    BY <1>1, <2>1 DEF Range, IsInjective
<1>6. ASSUME NEW x \in Range(s) \ {s[Len(s)]} PROVE x \in Range(t)
  <2>1. PICK i \in 1 .. Len(s) : x = s[i] /\ i # Len(s)
    BY <1>1, ZenonT(30) DEF Range
  <2>2. i \in 1 .. Len(s) - 1
    BY <1>n, <2>1
  <2>3. t[i] = x
    BY <1>2, <2>1, <2>2
  <2> QED
    BY <1>3, <2>2, <2>3 DEF Range
<1>7. s[Len(s)] \in Range(s) /\ s[Len(s)] \in E
  BY <1>1 DEF Range
<1> QED
  BY <1>2, <1>4, <1>5, <1>6, <1>7 DEF t

\* From s to t, the event e is taken out.
Loses(s, t, e) ==
    IsInjective(s) => e \in Range(s) /\ IsInjective(t) /\ Range(t) = Range(s) \ {e}

\* And here it is put in.
Gains(s, t, e) ==
    IsInjective(s) /\ e \notin Range(s) => IsInjective(t) /\ Range(t) = Range(s) \cup {e}

\* pop_and_reserve(), pop() and push() on the items of a queue or a pool.
LEMMA ItemMoves ==
    ASSUME NEW E, NEW s \in Seq(E), NEW e \in E
    PROVE  /\ Append(s, e) \in Seq(E) /\ Gains(s, Append(s, e), e)
           /\ s \o <<e>> \in Seq(E) /\ Gains(s, s \o <<e>>, e)
           /\ s \o <<>> = s
           /\ s # <<>> => /\ Head(s) \in E /\ SubSeq(s, 2, Len(s)) \in Seq(E)
                          /\ Loses(s, SubSeq(s, 2, Len(s)), Head(s))
                          /\ s[Len(s)] \in E /\ SubSeq(s, 1, Len(s) - 1) \in Seq(E)
                          /\ Loses(s, SubSeq(s, 1, Len(s) - 1), s[Len(s)])
<1>1. Append(s, e) \in Seq(E) /\ s \o <<e>> = Append(s, e) /\ s \o <<>> = s
  BY SeqAppend, SeqConcat
<1>2. Gains(s, Append(s, e), e)
  BY PushSeq DEF Gains
<1>3. ASSUME s # <<>>
      PROVE  /\ Head(s) \in E /\ SubSeq(s, 2, Len(s)) \in Seq(E)
             /\ Loses(s, SubSeq(s, 2, Len(s)), Head(s))
             /\ s[Len(s)] \in E /\ SubSeq(s, 1, Len(s) - 1) \in Seq(E)
             /\ Loses(s, SubSeq(s, 1, Len(s) - 1), s[Len(s)])
  <2>1. Len(s) \in Nat \ {0} /\ Head(s) = s[1]
    BY <1>3, SeqEmpty, SeqHead
  <2>2. Head(s) \in E /\ s[Len(s)] \in E /\ Len(s) >= 1
    BY <2>1, SeqElements
  <2>3. SubSeq(s, 2, Len(s)) \in Seq(E) /\ SubSeq(s, 1, Len(s) - 1) \in Seq(E)
    <3>1. Len(s) \in Int /\ Len(s) - 1 \in Int
      BY <2>1
    <3>2. \A i \in 2 .. Len(s) : s[i] \in E
      BY <2>1, SeqElements
    <3>3. \A i \in 1 .. Len(s) - 1 : s[i] \in E
      BY <2>1, SeqElements
    <3> QED
      BY <3>1, <3>2, <3>3, SeqPart
  <2>4. Loses(s, SubSeq(s, 2, Len(s)), Head(s))
    BY <2>1, <2>2, PopHead DEF Loses
  <2>5. Loses(s, SubSeq(s, 1, Len(s) - 1), s[Len(s)])
    BY <1>3, PopTop DEF Loses
  <2> QED
    BY <2>2, <2>3, <2>4, <2>5
<1> QED
  BY <1>1, <1>2, <1>3, ZenonT(30)

\* The same of the items[0] of a Data, or a member that may be nullptr.
LEMMA ItemsOfMoves ==
    /\ ItemsOf(None) = <<>> /\ Range(<<>>) = {} /\ IsInjective(<<>>)
    /\ \A e : e # None => /\ ItemsOf(e) = <<e>> /\ Range(ItemsOf(e)) = {e}
                          /\ IsInjective(ItemsOf(e))
                          /\ Loses(ItemsOf(e), ItemsOf(None), e)
                          /\ Gains(ItemsOf(None), ItemsOf(e), e)
<1>1. ItemsOf(None) = <<>> /\ Range(<<>>) = {} /\ IsInjective(<<>>)
  BY DEF ItemsOf, Range, IsInjective
<1>2. ASSUME NEW e, e # None
      PROVE  ItemsOf(e) = <<e>> /\ Range(<<e>>) = {e} /\ IsInjective(<<e>>)
  BY <1>2 DEF ItemsOf, Range, IsInjective
<1> QED
  BY <1>1, <1>2, ZenonT(30) DEF Loses, Gains

-----------------------------------------------------------------------------
(* Moves between places.                                                   *)

\* e goes from place x to place y.
Moved(S, T, x, y, e) ==
    /\ DOMAIN T = DOMAIN S /\ x \in DOMAIN S /\ y \in DOMAIN S /\ x # y
    /\ Loses(S[x], T[x], e)
    /\ Gains(S[y], T[y], e)
    /\ \A z \in DOMAIN S \ {x, y} : T[z] = S[z]

\* e is taken from place x and is in none.
Left(S, T, x, e) ==
    /\ DOMAIN T = DOMAIN S /\ x \in DOMAIN S
    /\ Loses(S[x], T[x], e)
    /\ \A z \in DOMAIN S \ {x} : T[z] = S[z]

\* e comes to place y from none.
Entered(S, T, y, e) ==
    /\ DOMAIN T = DOMAIN S /\ y \in DOMAIN S
    /\ Gains(S[y], T[y], e)
    /\ \A z \in DOMAIN S \ {y} : T[z] = S[z]

\* A move keeps events apart.
LEMMA MovedApart ==
    ASSUME NEW S, NEW T, NEW x, NEW y, NEW e, Apart(S), Moved(S, T, x, y, e)
    PROVE  /\ Apart(T)
           /\ \A X \in SUBSET DOMAIN S : Within(T, X) = (Within(S, X) \ {e}) \cup {d \in {e} : y \in X}
           /\ e \in Range(S[x])
<1>1. /\ DOMAIN T = DOMAIN S /\ x \in DOMAIN S /\ y \in DOMAIN S /\ x # y
      /\ \A z \in DOMAIN S \ {x, y} : T[z] = S[z]
      /\ \A z \in DOMAIN S : IsInjective(S[z])
      /\ \A z1, z2 \in DOMAIN S : z1 # z2 => Range(S[z1]) \cap Range(S[z2]) = {}
  BY DEF Moved, Apart
<1>2. e \in Range(S[x]) /\ IsInjective(T[x]) /\ Range(T[x]) = Range(S[x]) \ {e}
  BY <1>1 DEF Moved, Loses
<1>3. \A z \in DOMAIN S \ {x} : e \notin Range(S[z])
  BY <1>1, <1>2
<1>4. IsInjective(T[y]) /\ Range(T[y]) = Range(S[y]) \cup {e}
  BY <1>1, <1>3 DEF Moved, Gains
<1>5. \A z \in DOMAIN S : Range(T[z]) = (Range(S[z]) \ {e}) \cup {d \in {e} : y = z}
  BY <1>1, <1>2, <1>3, <1>4
<1>6. \A z \in DOMAIN S : IsInjective(T[z])
  BY <1>1, <1>2, <1>4
<1>7. Apart(T)
  BY <1>1, <1>5, <1>6 DEF Apart
<1>8. ASSUME NEW X \in SUBSET DOMAIN S
      PROVE  Within(T, X) = (Within(S, X) \ {e}) \cup {d \in {e} : y \in X}
  BY <1>5 DEF Within
<1> QED
  BY <1>2, <1>7, <1>8

\* So does a departure.
LEMMA LeftApart ==
    ASSUME NEW S, NEW T, NEW x, NEW e, Apart(S), Left(S, T, x, e)
    PROVE  /\ Apart(T)
           /\ \A X \in SUBSET DOMAIN S : Within(T, X) = Within(S, X) \ {e}
           /\ e \in Range(S[x])
<1>1. /\ DOMAIN T = DOMAIN S /\ x \in DOMAIN S
      /\ \A z \in DOMAIN S \ {x} : T[z] = S[z]
      /\ \A z \in DOMAIN S : IsInjective(S[z])
      /\ \A z1, z2 \in DOMAIN S : z1 # z2 => Range(S[z1]) \cap Range(S[z2]) = {}
  BY DEF Left, Apart
<1>2. e \in Range(S[x]) /\ IsInjective(T[x]) /\ Range(T[x]) = Range(S[x]) \ {e}
  BY <1>1 DEF Left, Loses
<1>3. \A z \in DOMAIN S \ {x} : e \notin Range(S[z])
  BY <1>1, <1>2
<1>5. \A z \in DOMAIN S : Range(T[z]) = Range(S[z]) \ {e}
  BY <1>1, <1>2, <1>3
<1>6. \A z \in DOMAIN S : IsInjective(T[z])
  BY <1>1, <1>2
<1>7. Apart(T)
  BY <1>1, <1>5, <1>6 DEF Apart
<1>8. ASSUME NEW X \in SUBSET DOMAIN S
      PROVE  Within(T, X) = Within(S, X) \ {e}
  BY <1>5 DEF Within
<1> QED
  BY <1>2, <1>7, <1>8

\* And an arrival of an event that was in no place.
LEMMA EnteredApart ==
    ASSUME NEW S, NEW T, NEW y, NEW e, Apart(S), Entered(S, T, y, e), e \notin Within(S, DOMAIN S)
    PROVE  /\ Apart(T)
           /\ \A X \in SUBSET DOMAIN S : Within(T, X) = Within(S, X) \cup {d \in {e} : y \in X}
<1>1. /\ DOMAIN T = DOMAIN S /\ y \in DOMAIN S
      /\ \A z \in DOMAIN S \ {y} : T[z] = S[z]
      /\ \A z \in DOMAIN S : IsInjective(S[z])
      /\ \A z1, z2 \in DOMAIN S : z1 # z2 => Range(S[z1]) \cap Range(S[z2]) = {}
  BY DEF Entered, Apart
<1>3. \A z \in DOMAIN S : e \notin Range(S[z])
  BY DEF Within
<1>4. IsInjective(T[y]) /\ Range(T[y]) = Range(S[y]) \cup {e}
  BY <1>1, <1>3 DEF Entered, Gains
<1>5. \A z \in DOMAIN S : Range(T[z]) = Range(S[z]) \cup {d \in {e} : y = z}
  BY <1>1, <1>4
<1>6. \A z \in DOMAIN S : IsInjective(T[z])
  BY <1>1, <1>4
<1>7. Apart(T)
  BY <1>1, <1>3, <1>5, <1>6 DEF Apart
<1>8. ASSUME NEW X \in SUBSET DOMAIN S
      PROVE  Within(T, X) = Within(S, X) \cup {d \in {e} : y \in X}
  BY <1>5 DEF Within
<1> QED
  BY <1>7, <1>8

-----------------------------------------------------------------------------
(* The pools and the mailboxes.                                            *)

\* The Parents' pool: its items are distinct, and Parents is the set of them.
LEMMA ParentItemsDistinct ==
    /\ ParentItems \in Seq(Parents) /\ IsInjective(ParentItems) /\ Range(ParentItems) = Parents
    /\ PP!Pool = [available : [{Here} -> Seq(Parents)], heap : SUBSET {}]
    /\ PP!ItemsAt(Here) = Parents
<1>1. PP!ItemsAt(Here) = {ParentItems[i] : i \in 1 .. Len(ParentItems)}
  BY DEF PP!ItemsAt
<1>2. Parents = PP!ItemsAt(Here)
  BY DEF Parents, PP!PoolEvents
<1>3. [l \in {Here} |-> ParentItems] \in [{Here} -> Seq(Parents)]
  BY HierarchyAssumption DEF PP!PoolAssumption, Parents
<1>4. ParentItems \in Seq(Parents)
  BY <1>3
<1>5. Len(ParentItems) \in Nat /\ DOMAIN ParentItems = 1 .. Len(ParentItems)
  BY <1>4, SeqElements
<1>6. \A i, j \in 1 .. Len(ParentItems) : ParentItems[i] = ParentItems[j] => i = j
  BY HierarchyAssumption DEF PP!PoolAssumption
<1>7. IsInjective(ParentItems) /\ Range(ParentItems) = Parents
  BY <1>1, <1>2, <1>5, <1>6 DEF IsInjective, Range
<1> QED
  BY <1>2, <1>4, <1>7 DEF PP!Pool, Parents

\* pop() takes the top of its stack, put() puts an event on it.
LEMMA ParentPoolOps ==
    ASSUME NEW q \in PP!Pool, NEW e
    PROVE  /\ q.available[Here] \in Seq(Parents)
           /\ e \in PP!poppable(q, Here) =>
                 /\ e \in Parents /\ PP!pool_pop(q, Here, e) \in PP!Pool
                 /\ Loses(q.available[Here], PP!pool_pop(q, Here, e).available[Here], e)
           /\ e \in Parents =>
                 /\ PP!put(q, Here, e) \in PP!Pool
                 /\ Gains(q.available[Here], PP!put(q, Here, e).available[Here], e)
<1> DEFINE s == q.available[Here]
<1>1. /\ q.available \in [{Here} -> Seq(Parents)] /\ s \in Seq(Parents)
      /\ q \in [available : [{Here} -> Seq(Parents)], heap : SUBSET {}]
  BY ParentItemsDistinct
<1>2. ASSUME e \in PP!poppable(q, Here)
      PROVE  /\ e \in Parents /\ PP!pool_pop(q, Here, e) \in PP!Pool
             /\ Loses(s, PP!pool_pop(q, Here, e).available[Here], e)
  <2> DEFINE t == SubSeq(s, 1, Len(s) - 1)
  <2>1. s # <<>> /\ e = s[Len(s)]
    BY <1>2 DEF PP!poppable
  <2>2. e \in Parents /\ t \in Seq(Parents) /\ Loses(s, t, e)
    <3>1. Len(s) \in 1 .. Len(s)
      BY <1>1, <2>1, SeqElements, SeqEmpty
    <3>2. e \in Parents
      BY <1>1, <2>1, <3>1, SeqElements
    <3>3. t \in Seq(Parents) /\ Loses(s, t, s[Len(s)])
      <4> HIDE DEF s
      <4> QED
        BY <1>1, <2>1, <3>2, ItemMoves, ZenonT(30)
    <3> QED
      BY <2>1, <3>2, <3>3
  <2>3. PP!pool_pop(q, Here, e) = [q EXCEPT !.available[Here] = t]
    BY <2>2 DEF PP!pool_pop, Parents
  <2> HIDE DEF t
  <2>4. /\ PP!pool_pop(q, Here, e) \in [available : [{Here} -> Seq(Parents)], heap : SUBSET {}]
        /\ PP!pool_pop(q, Here, e).available[Here] = t
    BY <1>1, <2>2, <2>3
  <2> QED
    BY <2>2, <2>4, ParentItemsDistinct
<1>3. ASSUME e \in Parents
      PROVE  /\ PP!put(q, Here, e) \in PP!Pool
             /\ Gains(s, PP!put(q, Here, e).available[Here], e)
  <2> DEFINE t == Append(s, e)
             av == [k \in {Here} |-> t]
  <2>1. t \in Seq(Parents) /\ Gains(s, t, e)
    BY <1>1, <1>3, ItemMoves, ZenonT(30)
  <2>2. e \in PP!ItemsAt(Here) /\ e \in PP!PoolEvents
    BY <1>3, ParentItemsDistinct DEF Parents
  <2>3. PP!put(q, Here, e) =
           [q EXCEPT !.available = [k \in {Here} |-> IF e \in PP!ItemsAt(k) THEN Append(q.available[k], e)
                                                     ELSE q.available[k]]]
    BY <2>2 DEF PP!put
  <2>4. [k \in {Here} |-> IF e \in PP!ItemsAt(k) THEN Append(q.available[k], e) ELSE q.available[k]] = av
    BY <2>2
  <2>5. PP!put(q, Here, e) = [q EXCEPT !.available = av]
    BY <2>3, <2>4, ZenonT(30)
  <2> HIDE DEF t
  <2>6. av \in [{Here} -> Seq(Parents)] /\ av[Here] = t
    BY <2>1
  <2> HIDE DEF av
  <2>7. /\ PP!put(q, Here, e) \in [available : [{Here} -> Seq(Parents)], heap : SUBSET {}]
        /\ PP!put(q, Here, e).available = av
    BY <1>1, <2>5, <2>6
  <2> QED
    BY <2>1, <2>6, <2>7, ParentItemsDistinct
<1> QED
  BY <1>1, <1>2, <1>3

\* The children's pool: its items are distinct, and Children is the set of them.
LEMMA ChildItemsDistinct ==
    /\ ChildItems \in Seq(Children) /\ IsInjective(ChildItems) /\ Range(ChildItems) = Children
    /\ CP!Pool = [available : [{Here} -> Seq(Children)], heap : SUBSET {}]
    /\ CP!ItemsAt(Here) = Children
<1>1. CP!ItemsAt(Here) = {ChildItems[i] : i \in 1 .. Len(ChildItems)}
  BY DEF CP!ItemsAt
<1>2. Children = CP!ItemsAt(Here)
  BY DEF Children, CP!PoolEvents
<1>3. [l \in {Here} |-> ChildItems] \in [{Here} -> Seq(Children)]
  BY HierarchyAssumption DEF CP!PoolAssumption, Children
<1>4. ChildItems \in Seq(Children)
  BY <1>3
<1>5. Len(ChildItems) \in Nat /\ DOMAIN ChildItems = 1 .. Len(ChildItems)
  BY <1>4, SeqElements
<1>6. \A i, j \in 1 .. Len(ChildItems) : ChildItems[i] = ChildItems[j] => i = j
  BY HierarchyAssumption, ZenonT(30) DEF CP!PoolAssumption
<1>7. IsInjective(ChildItems) /\ Range(ChildItems) = Children
  BY <1>1, <1>2, <1>5, <1>6 DEF IsInjective, Range
<1> QED
  BY <1>2, <1>4, <1>7 DEF CP!Pool, Children

\* pop() takes the top of its stack, put() puts an event on it.
LEMMA ChildPoolOps ==
    ASSUME NEW q \in CP!Pool, NEW e
    PROVE  /\ q.available[Here] \in Seq(Children)
           /\ e \in CP!poppable(q, Here) =>
                 /\ e \in Children /\ CP!pool_pop(q, Here, e) \in CP!Pool
                 /\ Loses(q.available[Here], CP!pool_pop(q, Here, e).available[Here], e)
           /\ e \in Children =>
                 /\ CP!put(q, Here, e) \in CP!Pool
                 /\ Gains(q.available[Here], CP!put(q, Here, e).available[Here], e)
<1> DEFINE s == q.available[Here]
<1>1. /\ q.available \in [{Here} -> Seq(Children)] /\ s \in Seq(Children)
      /\ q \in [available : [{Here} -> Seq(Children)], heap : SUBSET {}]
  BY ChildItemsDistinct
<1>2. ASSUME e \in CP!poppable(q, Here)
      PROVE  /\ e \in Children /\ CP!pool_pop(q, Here, e) \in CP!Pool
             /\ Loses(s, CP!pool_pop(q, Here, e).available[Here], e)
  <2> DEFINE t == SubSeq(s, 1, Len(s) - 1)
  <2>1. s # <<>> /\ e = s[Len(s)]
    BY <1>2 DEF CP!poppable
  <2>2. e \in Children /\ t \in Seq(Children) /\ Loses(s, t, e)
    <3>1. Len(s) \in 1 .. Len(s)
      BY <1>1, <2>1, SeqElements, SeqEmpty
    <3>2. e \in Children
      BY <1>1, <2>1, <3>1, SeqElements
    <3>3. t \in Seq(Children) /\ Loses(s, t, s[Len(s)])
      <4> HIDE DEF s
      <4> QED
        BY <1>1, <2>1, <3>2, ItemMoves, ZenonT(30)
    <3> QED
      BY <2>1, <3>2, <3>3
  <2>3. CP!pool_pop(q, Here, e) = [q EXCEPT !.available[Here] = t]
    BY <2>2 DEF CP!pool_pop, Children
  <2> HIDE DEF t
  <2>4. /\ CP!pool_pop(q, Here, e) \in [available : [{Here} -> Seq(Children)], heap : SUBSET {}]
        /\ CP!pool_pop(q, Here, e).available[Here] = t
    BY <1>1, <2>2, <2>3
  <2> QED
    BY <2>2, <2>4, ChildItemsDistinct
<1>3. ASSUME e \in Children
      PROVE  /\ CP!put(q, Here, e) \in CP!Pool
             /\ Gains(s, CP!put(q, Here, e).available[Here], e)
  <2> DEFINE t == Append(s, e)
             av == [k \in {Here} |-> t]
  <2>1. t \in Seq(Children) /\ Gains(s, t, e)
    BY <1>1, <1>3, ItemMoves, ZenonT(30)
  <2>2. e \in CP!ItemsAt(Here) /\ e \in CP!PoolEvents
    BY <1>3, ChildItemsDistinct DEF Children
  <2>3. CP!put(q, Here, e) =
           [q EXCEPT !.available = [k \in {Here} |-> IF e \in CP!ItemsAt(k) THEN Append(q.available[k], e)
                                                     ELSE q.available[k]]]
    BY <2>2 DEF CP!put
  <2>4. [k \in {Here} |-> IF e \in CP!ItemsAt(k) THEN Append(q.available[k], e) ELSE q.available[k]] = av
    BY <2>2
  <2>5. CP!put(q, Here, e) = [q EXCEPT !.available = av]
    BY <2>3, <2>4, ZenonT(30)
  <2> HIDE DEF t
  <2>6. av \in [{Here} -> Seq(Children)] /\ av[Here] = t
    BY <2>1
  <2> HIDE DEF av
  <2>7. /\ CP!put(q, Here, e) \in [available : [{Here} -> Seq(Children)], heap : SUBSET {}]
        /\ CP!put(q, Here, e).available = av
    BY <1>1, <2>5, <2>6
  <2> QED
    BY <2>1, <2>6, <2>7, ChildItemsDistinct
<1> QED
  BY <1>1, <1>2, <1>3

\* The operations of a LocalQueue for one item.
LEMMA QueueOps ==
    ASSUME NEW E, NEW m \in LocalQueue(E)
    PROVE  /\ m.queue \in Seq(E) /\ m.reserved_count \in Nat
           /\ pop_count(m, 0, 0) = 0 /\ pop_and_reserve(m, 0) = m
           /\ pop_count(m, 1, 1) \in 0 .. 1
           /\ pop_count(m, 1, 1) = 1 => m.queue # <<>>
           /\ m.queue # <<>> =>
                 /\ pop_and_reserve(m, 1) \in LocalQueue(E)
                 /\ pop_and_reserve(m, 1).queue = SubSeq(m.queue, 2, Len(m.queue))
                 /\ pop_and_reserve(m, 1).reserved_count = m.reserved_count + 1
           /\ reserve_count(m, 1, 1) \in 0 .. 1
           /\ \A n \in 0 .. 1 : /\ reserve(m, n) \in LocalQueue(E)
                                /\ reserve(m, n).queue = m.queue
                                /\ reserve(m, n).reserved_count = m.reserved_count + n
<1>1. m.queue \in Seq(E) /\ m.reserved_count \in Nat
      /\ m = [queue |-> m.queue, reserved_count |-> m.reserved_count]
  BY DEF LocalQueue
<1>2. Len(m.queue) \in Nat /\ (m.queue # <<>> <=> Len(m.queue) # 0)
  BY <1>1, SeqElements, SeqEmpty
<1>3. pop_count(m, 0, 0) = 0 /\ pop_and_reserve(m, 0) = m
  <2>1. SubSeq(m.queue, 0 + 1, Len(m.queue)) = m.queue
    BY <1>1, SeqPart
  <2>2. m.reserved_count + 0 = m.reserved_count
    BY <1>1
  <2> QED
    BY <1>1, <1>2, <2>1, <2>2 DEF pop_count, pop_and_reserve
<1>4. pop_count(m, 1, 1) \in 0 .. 1 /\ (pop_count(m, 1, 1) = 1 => m.queue # <<>>)
  BY <1>2 DEF pop_count
<1>5. ASSUME NEW s \in Seq(E), NEW r \in Nat
      PROVE  /\ [queue |-> s, reserved_count |-> r] \in LocalQueue(E)
             /\ [queue |-> s, reserved_count |-> r].queue = s
             /\ [queue |-> s, reserved_count |-> r].reserved_count = r
  BY DEF LocalQueue
<1>6. ASSUME m.queue # <<>>
      PROVE  /\ pop_and_reserve(m, 1) \in LocalQueue(E)
             /\ pop_and_reserve(m, 1).queue = SubSeq(m.queue, 2, Len(m.queue))
             /\ pop_and_reserve(m, 1).reserved_count = m.reserved_count + 1
  <2> DEFINE t == SubSeq(m.queue, 2, Len(m.queue))
             r == m.reserved_count + 1
  <2>1. t \in Seq(E) /\ r \in Nat
    <3>1. Len(m.queue) \in Int /\ \A i \in 2 .. Len(m.queue) : m.queue[i] \in E
      BY <1>1, <1>2, SeqElements
    <3> QED
      BY <1>1, <3>1, SeqPart
  <2>2. pop_and_reserve(m, 1) = [queue |-> t, reserved_count |-> r]
    BY DEF pop_and_reserve
  <2> HIDE DEF t, r
  <2>3. /\ pop_and_reserve(m, 1) \in LocalQueue(E)
        /\ pop_and_reserve(m, 1).queue = t /\ pop_and_reserve(m, 1).reserved_count = r
    BY <1>5, <2>1, <2>2
  <2> QED
    BY <2>3 DEF t, r
<1>7. reserve_count(m, 1, 1) \in 0 .. 1
  <2> DEFINE v == available_count(m)
  <2>1. v \in Int
    BY <1>1, <1>2, CapacityAssumption DEF available_count, SizeSub
  <2>2. reserve_count(m, 1, 1) = IF (IF v < 1 THEN v ELSE 1) < 1 THEN 0 ELSE (IF v < 1 THEN v ELSE 1)
    BY DEF reserve_count
  <2> HIDE DEF v
  <2> QED
    BY <2>1, <2>2
<1>8. ASSUME NEW n \in 0 .. 1
      PROVE  /\ reserve(m, n) \in LocalQueue(E)
             /\ reserve(m, n).queue = m.queue
             /\ reserve(m, n).reserved_count = m.reserved_count + n
  <2> DEFINE r == m.reserved_count + n
  <2>1. r \in Nat
    BY <1>1
  <2>2. reserve(m, n) = [m EXCEPT !.reserved_count = r]
    BY DEF reserve
  <2> HIDE DEF r
  <2>3. reserve(m, n) \in LocalQueue(E) /\ reserve(m, n).queue = m.queue /\ reserve(m, n).reserved_count = r
    BY <2>1, <2>2 DEF LocalQueue
  <2> QED
    BY <2>3 DEF r
<1> QED
  BY <1>1, <1>3, <1>4, <1>6, <1>7, <1>8

\* A push of any number of items that returns one slot or none.
LEMMA QueuePush ==
    ASSUME NEW E, NEW m \in LocalQueue(E), NEW n \in 0 .. 1, NEW items \in Seq(E)
    PROVE  /\ push_and_unreserve(m, items, n) \in LocalQueue(E)
           /\ push_and_unreserve(m, items, n).queue = m.queue \o items
           /\ n <= m.reserved_count =>
                 push_and_unreserve(m, items, n).reserved_count = m.reserved_count - n
<1> DEFINE t == m.queue \o items
           r == SizeSub(m.reserved_count, n)
<1>1. m.queue \in Seq(E) /\ m.reserved_count \in Nat
  BY DEF LocalQueue
<1>2. t \in Seq(E)
  BY <1>1, SeqConcat
<1>3. r \in Nat /\ (n <= m.reserved_count => r = m.reserved_count - n)
  BY <1>1, CapacityAssumption DEF SizeSub
<1>4. push_and_unreserve(m, items, n) = [queue |-> t, reserved_count |-> r]
  BY DEF push_and_unreserve
<1> HIDE DEF t, r
<1>5. /\ push_and_unreserve(m, items, n) \in LocalQueue(E)
      /\ push_and_unreserve(m, items, n).queue = t /\ push_and_unreserve(m, items, n).reserved_count = r
  BY <1>2, <1>3, <1>4 DEF LocalQueue
<1> QED
  BY <1>3, <1>5 DEF t

\* The slots and items of one queue: a pull takes the head and its slot, ...
LEMMA TakesOne ==
    ASSUME TypeOK, NEW q \in Queues, Takes(q, 1), pop_count(mailbox[q], 1, 1) = 1
    PROVE  /\ mailbox' \in [Queues -> LocalQueue(Parents \cup Children)]
           /\ \A r \in Queues \ {q} : mailbox'[r] = mailbox[r]
           /\ Loses(mailbox[q].queue, mailbox'[q].queue, Head(mailbox[q].queue))
           /\ mailbox'[q].reserved_count = mailbox[q].reserved_count + 1
<1> DEFINE E == Parents \cup Children
           m == mailbox[q]
           n == pop_and_reserve(m, 1)
<1>1. mailbox \in [Queues -> LocalQueue(E)] /\ m \in LocalQueue(E)
  BY DEF TypeOK
<1>2. mailbox' = [mailbox EXCEPT ![q] = n]
  BY DEF Takes
<1> HIDE DEF E, m
<1>3. m.queue \in Seq(E) /\ m.queue # <<>>
  BY <1>1, QueueOps DEF m
<1>4. n \in LocalQueue(E) /\ n.queue = SubSeq(m.queue, 2, Len(m.queue)) /\ n.reserved_count = m.reserved_count + 1
  BY <1>1, <1>3, QueueOps
<1> HIDE DEF n
<1>5. mailbox' \in [Queues -> LocalQueue(E)] /\ mailbox'[q] = n /\ \A r \in Queues \ {q} : mailbox'[r] = mailbox[r]
  BY <1>1, <1>2, <1>4
<1>6. Head(m.queue) \in E
  BY <1>3, SeqHead
<1>7. Loses(m.queue, SubSeq(m.queue, 2, Len(m.queue)), Head(m.queue))
  BY <1>3, <1>6, ItemMoves, ZenonT(30)
<1> QED
  BY <1>4, <1>5, <1>7, ZenonT(30) DEF E, m

\* ... a reservation leaves the items alone, ...
LEMMA ReservesOne ==
    ASSUME TypeOK, NEW q \in Queues, NEW n \in 0 .. 1, Reserves(q, n)
    PROVE  /\ mailbox' \in [Queues -> LocalQueue(Parents \cup Children)]
           /\ \A r \in Queues \ {q} : mailbox'[r] = mailbox[r]
           /\ mailbox'[q].queue = mailbox[q].queue
           /\ mailbox'[q].reserved_count = mailbox[q].reserved_count + n
<1> DEFINE E == Parents \cup Children
           m == reserve(mailbox[q], n)
<1>1. mailbox \in [Queues -> LocalQueue(E)] /\ mailbox[q] \in LocalQueue(E)
  BY ZenonT(30) DEF TypeOK
<1>2. mailbox' = [mailbox EXCEPT ![q] = m]
  BY DEF Reserves
<1> HIDE DEF E
<1>3. m \in LocalQueue(E) /\ m.queue = mailbox[q].queue /\ m.reserved_count = mailbox[q].reserved_count + n
  BY <1>1, QueueOps
<1> HIDE DEF m
<1>4. mailbox' \in [Queues -> LocalQueue(E)] /\ mailbox'[q] = m /\ \A r \in Queues \ {q} : mailbox'[r] = mailbox[r]
  BY <1>1, <1>2, <1>3
<1> QED
  BY <1>3, <1>4, ZenonT(30) DEF E

\* ... and a push appends what the Data has, if anything, and returns its slots.
LEMMA PushesOne ==
    ASSUME TypeOK, NEW q \in Queues, NEW n \in 0 .. 1, NEW e \in Opt(Parents \cup Children),
           Pushes(q, ItemsOf(e), n)
    PROVE  /\ mailbox' \in [Queues -> LocalQueue(Parents \cup Children)]
           /\ \A r \in Queues \ {q} : mailbox'[r] = mailbox[r]
           /\ e # None => Gains(mailbox[q].queue, mailbox'[q].queue, e)
           /\ e = None => mailbox'[q].queue = mailbox[q].queue
           /\ n <= mailbox[q].reserved_count =>
                 mailbox'[q].reserved_count = mailbox[q].reserved_count - n
<1> DEFINE E == Parents \cup Children
           s == mailbox[q].queue
           m == push_and_unreserve(mailbox[q], ItemsOf(e), n)
<1>1. mailbox \in [Queues -> LocalQueue(E)] /\ mailbox[q] \in LocalQueue(E) /\ e \in Opt(E)
  BY ZenonT(30) DEF TypeOK
<1>2. mailbox' = [mailbox EXCEPT ![q] = m]
  BY DEF Pushes
<1> HIDE DEF E
<1>3. s \in Seq(E)
  BY <1>1, QueueOps
<1>4. ItemsOf(e) \in Seq(E)
  <2>1. CASE e = None
    BY <2>1, SeqEmpty DEF ItemsOf
  <2>2. CASE e # None
    BY <1>1, <2>2 DEF ItemsOf, Opt
  <2> QED
    BY <2>1, <2>2
<1>5. /\ m \in LocalQueue(E) /\ m.queue = s \o ItemsOf(e)
      /\ n <= mailbox[q].reserved_count => m.reserved_count = mailbox[q].reserved_count - n
  <2>1. \A k \in LocalQueue(E), y \in Seq(E) :
           /\ push_and_unreserve(k, y, n) \in LocalQueue(E)
           /\ push_and_unreserve(k, y, n).queue = k.queue \o y
           /\ n <= k.reserved_count =>
                 push_and_unreserve(k, y, n).reserved_count = k.reserved_count - n
    BY QueuePush, ZenonT(30)
  <2> QED
    BY <1>1, <1>4, <2>1, ZenonT(30)
<1>6. e = None => s \o ItemsOf(e) = s
  <2> HIDE DEF s
  <2> QED
    BY <1>3, SeqConcat DEF ItemsOf
<1>7. ASSUME e # None
      PROVE  Gains(s, s \o ItemsOf(e), e)
  <2>1. e \in E /\ ItemsOf(e) = <<e>>
    BY <1>1, <1>7 DEF Opt, ItemsOf
  <2> HIDE DEF s
  <2> QED
    BY <1>3, <2>1, ItemMoves
<1> HIDE DEF m
<1>8. mailbox' \in [Queues -> LocalQueue(E)] /\ mailbox'[q] = m /\ \A r \in Queues \ {q} : mailbox'[r] = mailbox[r]
  BY <1>1, <1>2, <1>5
<1> QED
  BY <1>5, <1>6, <1>7, <1>8, ZenonT(30) DEF E

-----------------------------------------------------------------------------
(* Moves keep the families.                                                *)

\* The places upstream of the unfolder differ from those downstream, and the
\* places of detached children from those of attached ones.
LEMMA PlaceNames ==
    /\ DOMAIN ParentsAt = Upstream \cup Downstream /\ DOMAIN ChildrenAt = Attached \cup Detached
    /\ Upstream \cap Downstream = {} /\ Attached \cap Detached = {}
    /\ \A S, X, Y : Within(S, X \cup Y) = Within(S, X) \cup Within(S, Y)
<1>1. DOMAIN ParentsAt = Upstream \cup Downstream /\ Upstream \cap Downstream = {}
  BY DEF ParentsAt, Upstream, Downstream
<1>2. DOMAIN ChildrenAt = Attached \cup Detached /\ Attached \cap Detached = {}
  BY DEF ChildrenAt, Attached, Detached
<1>3. ASSUME NEW S, NEW X, NEW Y
      PROVE  Within(S, X \cup Y) = Within(S, X) \cup Within(S, Y)
  BY DEF Within
<1> QED
  BY <1>1, <1>2, <1>3

\* No event is both here and there.
LEMMA WithinApart ==
    ASSUME NEW S, Apart(S), NEW X \in SUBSET DOMAIN S, NEW Y \in SUBSET DOMAIN S, X \cap Y = {}
    PROVE  Within(S, X) \cap Within(S, Y) = {}
<1>1. \A x \in X, y \in Y : Range(S[x]) \cap Range(S[y]) = {}
  BY DEF Apart
<1> QED
  BY <1>1 DEF Within

\* A parent that moves upstream of the release, or downstream of the fold.
LEMMA ParentPlacesKept ==
    ASSUME ParentFamily, NEW x, NEW y, NEW e, Moved(ParentsAt, ParentsAt', x, y, e),
           {x, y} \subseteq Upstream \/ {x, y} \subseteq Downstream
    PROVE  /\ Apart(ParentsAt')
           /\ Within(ParentsAt', Upstream) = Within(ParentsAt, Upstream)
           /\ Within(ParentsAt', Downstream) = Within(ParentsAt, Downstream)
<1> DEFINE S == ParentsAt
           T == ParentsAt'
<1>1. /\ Apart(T) /\ e \in Range(S[x])
      /\ \A X \in SUBSET DOMAIN S : Within(T, X) = (Within(S, X) \ {e}) \cup {d \in {e} : y \in X}
  BY MovedApart DEF ParentFamily
<1>2. /\ \A z1, z2 \in DOMAIN S : z1 # z2 => Range(S[z1]) \cap Range(S[z2]) = {}
      /\ x \in DOMAIN S /\ y \in DOMAIN S
  BY DEF ParentFamily, Apart, Moved
<1>3. ASSUME NEW X \in SUBSET DOMAIN S, x \in X <=> y \in X
      PROVE  Within(T, X) = Within(S, X)
  <2>1. e \in Within(S, X) <=> x \in X
    BY <1>1, <1>2 DEF Within
  <2> QED
    BY <1>1, <1>3, <2>1
<1>4. Within(T, Upstream) = Within(S, Upstream) /\ Within(T, Downstream) = Within(S, Downstream)
  <2> HIDE DEF S, T
  <2> QED
    BY <1>3, PlaceNames DEF S
<1> QED
  BY <1>1, <1>4

\* Such a move, and no change to the families.
LEMMA ParentMoves ==
    ASSUME ParentFamily, Counted, UNCHANGED <<parent_of, refs>>, NEW x, NEW y, NEW e,
           Moved(ParentsAt, ParentsAt', x, y, e),
           {x, y} \subseteq Upstream \/ {x, y} \subseteq Downstream
    PROVE  ParentFamily' /\ Counted'
<1>1. /\ Apart(ParentsAt')
      /\ Within(ParentsAt', Upstream) = Within(ParentsAt, Upstream)
      /\ Within(ParentsAt', Downstream) = Within(ParentsAt, Downstream)
  BY ParentPlacesKept
<1>2. \A p : Kids(p)' = Kids(p)
  BY DEF Kids
<1>3. ParentFamily'
  BY <1>1, <1>2, PlaceNames DEF ParentFamily
<1>4. Counted'
  BY <1>1, <1>2 DEF Counted
<1> QED
  BY <1>3, <1>4

\* No parent moves.
LEMMA ParentsStay ==
    ASSUME ParentFamily, Counted, UNCHANGED <<parent_of, refs>>, ParentsAt' = ParentsAt
    PROVE  ParentFamily' /\ Counted'
<1>1. \A p : Kids(p)' = Kids(p)
  BY DEF Kids
<1>2. ParentFamily'
  BY <1>1, ZenonT(30) DEF ParentFamily
<1>3. Counted'
  BY <1>1 DEF Counted
<1> QED
  BY <1>2, <1>3

\* A parent without children goes back to its pool, with a new count.
LEMMA ParentRecycled ==
    ASSUME Counting, TypeOK, ParentFamily, Counted, UNCHANGED parent_of, NEW x \in Downstream, NEW e \in Parents,
           Moved(ParentsAt, ParentsAt', x, "pool", e), refs' = [refs EXCEPT ![e] = 1]
    PROVE  ParentFamily' /\ Counted'
<1> DEFINE S == ParentsAt
           T == ParentsAt'
<1>1. /\ Apart(T) /\ e \in Range(S[x])
      /\ \A X \in SUBSET DOMAIN S : Within(T, X) = (Within(S, X) \ {e}) \cup {d \in {e} : "pool" \in X}
  BY MovedApart DEF ParentFamily
<1>2. Within(T, Upstream) = Within(S, Upstream) \cup {e} /\ Within(T, Downstream) = Within(S, Downstream) \ {e}
  <2>1. "pool" \in Upstream /\ "pool" \notin Downstream
    BY DEF Upstream, Downstream
  <2>2. Upstream \in SUBSET DOMAIN S /\ Downstream \in SUBSET DOMAIN S
    BY PlaceNames
  <2> HIDE DEF S, T
  <2> QED
    BY <1>1, <2>1, <2>2
<1>3. \A p : Kids(p)' = Kids(p)
  BY DEF Kids
<1>4. e \in Within(S, Downstream) /\ Kids(e) = {}
  BY <1>1 DEF Within, ParentFamily
<1>5. ParentFamily'
  BY <1>1, <1>2, <1>3, PlaceNames DEF ParentFamily
<1>6. Counted'
  <2> SUFFICES ASSUME NEW p \in Parents
               PROVE  refs'[p] = Cardinality(Kids(p)) + IF p \in Within(T, Upstream) THEN 1 ELSE 0
    BY <1>3 DEF Counted
  <2>1. CASE p = e
    <3>1. refs'[e] = 1 /\ Cardinality(Kids(e)) = 0
      BY <1>4 DEF TypeOK, Counting
    <3> QED
      BY <1>2, <2>1, <3>1
  <2>2. CASE p # e
    <3>1. refs'[p] = refs[p]
      BY <2>2 DEF TypeOK
    <3> QED
      BY <1>2, <2>2, <3>1 DEF Counted
  <2> QED
    BY <2>1, <2>2
<1> QED
  BY <1>5, <1>6

\* A child moves between places for children with a parent, or without.
LEMMA ChildMoves ==
    ASSUME ChildFamily, UNCHANGED parent_of, NEW x, NEW y, NEW e,
           Moved(ChildrenAt, ChildrenAt', x, y, e),
           {x, y} \subseteq Attached \/ {x, y} \subseteq Detached
    PROVE  ChildFamily'
<1> DEFINE S == ChildrenAt
           T == ChildrenAt'
<1>1. /\ Apart(T) /\ e \in Range(S[x])
      /\ \A X \in SUBSET DOMAIN S : Within(T, X) = (Within(S, X) \ {e}) \cup {d \in {e} : y \in X}
  BY MovedApart DEF ChildFamily
<1>2. /\ \A z1, z2 \in DOMAIN S : z1 # z2 => Range(S[z1]) \cap Range(S[z2]) = {}
      /\ x \in DOMAIN S /\ y \in DOMAIN S
  BY DEF ChildFamily, Apart, Moved
<1>3. ASSUME NEW X \in SUBSET DOMAIN S, x \in X <=> y \in X
      PROVE  Within(T, X) = Within(S, X)
  <2>1. e \in Within(S, X) <=> x \in X
    BY <1>1, <1>2 DEF Within
  <2> QED
    BY <1>1, <1>3, <2>1
<1>4. Within(T, Attached) = Within(S, Attached) /\ Within(T, Detached) = Within(S, Detached)
  <2> HIDE DEF S, T
  <2> QED
    BY <1>3, PlaceNames DEF S
<1> QED
  BY <1>1, <1>4, PlaceNames DEF ChildFamily

\* No child moves.
LEMMA ChildrenStay ==
    ASSUME ChildFamily, UNCHANGED parent_of, ChildrenAt' = ChildrenAt
    PROVE  ChildFamily'
BY ZenonT(30) DEF ChildFamily

-----------------------------------------------------------------------------
(* The steps of the pipeline arrows.                                       *)

\* A step that does not touch an arrow keeps what is known of it.
LEMMA ControlKept ==
    /\ UnfoldControl /\ UNCHANGED <<unfold, parent_of>> => UnfoldControl'
    /\ FoldControl /\ UNCHANGED fold => FoldControl'
BY DEF UnfoldControl, FoldControl, Has

\* The variables of a type.
LEMMA Types ==
    ASSUME TypeOK
    PROVE  /\ mailbox \in [Queues -> LocalQueue(Parents \cup Children)]
           /\ parent_pool \in PP!Pool /\ child_pool \in CP!Pool
           /\ source_data \in Opt(Parents) /\ tap_data \in [TapWorkers -> Opt(Children)]
           /\ parent_tap_data \in Opt(Parents) /\ unfold \in UnfoldArrow /\ fold \in FoldArrow
           /\ parent_of \in [Children -> Opt(Parents)] /\ refs \in [Parents -> Int]
           /\ None \notin Parents /\ None \notin Children
BY HierarchyAssumption, ZenonT(30) DEF TypeOK

\* What the places of parents hold, before and after a step.
LEMMA ParentPlaces ==
    /\ DOMAIN ParentsAt = {"pool", "source", "parent_in", "unfold_data", "unfold", "fold", "parent_out", "parent_tap"}
    /\ DOMAIN ParentsAt' = DOMAIN ParentsAt
    /\ ParentsAt["pool"] = parent_pool.available[Here] /\ ParentsAt'["pool"] = parent_pool'.available[Here]
    /\ ParentsAt["source"] = ItemsOf(source_data) /\ ParentsAt'["source"] = ItemsOf(source_data')
    /\ ParentsAt["parent_in"] = mailbox["parent_in"].queue /\ ParentsAt'["parent_in"] = mailbox'["parent_in"].queue
    /\ ParentsAt["unfold_data"] = ItemsOf(unfold.parent_in) /\ ParentsAt'["unfold_data"] = ItemsOf(unfold'.parent_in)
    /\ ParentsAt["unfold"] = ItemsOf(unfold.parent_event) /\ ParentsAt'["unfold"] = ItemsOf(unfold'.parent_event)
    /\ ParentsAt["fold"] = ItemsOf(fold.parent) /\ ParentsAt'["fold"] = ItemsOf(fold'.parent)
    /\ ParentsAt["parent_out"] = mailbox["parent_out"].queue /\ ParentsAt'["parent_out"] = mailbox'["parent_out"].queue
    /\ ParentsAt["parent_tap"] = ItemsOf(parent_tap_data) /\ ParentsAt'["parent_tap"] = ItemsOf(parent_tap_data')
BY DEF ParentsAt

\* The places of parents that a step does not touch.
LEMMA ParentsElsewhere ==
    ASSUME NEW X,
           "pool" \in X \/ parent_pool'.available[Here] = parent_pool.available[Here],
           "source" \in X \/ source_data' = source_data,
           "parent_in" \in X \/ mailbox'["parent_in"].queue = mailbox["parent_in"].queue,
           "unfold_data" \in X \/ unfold'.parent_in = unfold.parent_in,
           "unfold" \in X \/ unfold'.parent_event = unfold.parent_event,
           "fold" \in X \/ fold'.parent = fold.parent,
           "parent_out" \in X \/ mailbox'["parent_out"].queue = mailbox["parent_out"].queue,
           "parent_tap" \in X \/ parent_tap_data' = parent_tap_data
    PROVE  \A z \in DOMAIN ParentsAt \ X : ParentsAt'[z] = ParentsAt[z]
BY ParentPlaces, ZenonT(30)

\* A parent moves when one place loses it and another gains it.
LEMMA ParentsMoved ==
    ASSUME NEW x \in DOMAIN ParentsAt, NEW y \in DOMAIN ParentsAt, x # y, NEW e,
           Loses(ParentsAt[x], ParentsAt'[x], e), Gains(ParentsAt[y], ParentsAt'[y], e),
           x = "pool" \/ y = "pool" \/ parent_pool'.available[Here] = parent_pool.available[Here],
           x = "source" \/ y = "source" \/ source_data' = source_data,
           x = "parent_in" \/ y = "parent_in" \/ mailbox'["parent_in"].queue = mailbox["parent_in"].queue,
           x = "unfold_data" \/ y = "unfold_data" \/ unfold'.parent_in = unfold.parent_in,
           x = "unfold" \/ y = "unfold" \/ unfold'.parent_event = unfold.parent_event,
           x = "fold" \/ y = "fold" \/ fold'.parent = fold.parent,
           x = "parent_out" \/ y = "parent_out" \/ mailbox'["parent_out"].queue = mailbox["parent_out"].queue,
           x = "parent_tap" \/ y = "parent_tap" \/ parent_tap_data' = parent_tap_data
    PROVE  Moved(ParentsAt, ParentsAt', x, y, e)
<1>1. \A z \in DOMAIN ParentsAt \ {x, y} : ParentsAt'[z] = ParentsAt[z]
  BY ParentsElsewhere, ZenonT(30)
<1> QED
  BY <1>1, ParentPlaces, ZenonT(30) DEF Moved

\* What the places of children hold, before and after a step.
LEMMA ChildrenByPlace ==
    /\ DOMAIN ChildrenAt = {"pool", "unfold_in", "unfold_out", "child_out", "tap", "child_in", "fold_in", "fold_out"}
    /\ DOMAIN ChildrenAt' = DOMAIN ChildrenAt
    /\ ChildrenAt["pool"] = child_pool.available[Here] /\ ChildrenAt'["pool"] = child_pool'.available[Here]
    /\ ChildrenAt["child_out"] = mailbox["child_out"].queue /\ ChildrenAt'["child_out"] = mailbox'["child_out"].queue
    /\ ChildrenAt["child_in"] = mailbox["child_in"].queue /\ ChildrenAt'["child_in"] = mailbox'["child_in"].queue
    /\ ChildrenAt["tap"] = Tapped /\ ChildrenAt'["tap"] = Tapped'
<1>1. /\ DOMAIN ChildrenAt = {"pool", "unfold_in", "unfold_out", "child_out", "tap", "child_in", "fold_in", "fold_out"}
      /\ DOMAIN ChildrenAt' = DOMAIN ChildrenAt
  BY ZenonT(30) DEF ChildrenAt
<1> QED
  BY <1>1, ZenonT(30) DEF ChildrenAt

\* The two places of the unfold arrow's child, ...
LEMMA UnfoldPlaces ==
    /\ unfold.step \in LateUnfold =>
          ChildrenAt["unfold_in"] = ItemsOf(None) /\ ChildrenAt["unfold_out"] = ItemsOf(unfold.child)
    /\ unfold.step \notin LateUnfold =>
          ChildrenAt["unfold_in"] = ItemsOf(unfold.child) /\ ChildrenAt["unfold_out"] = ItemsOf(None)
    /\ unfold'.step \in LateUnfold =>
          ChildrenAt'["unfold_in"] = ItemsOf(None) /\ ChildrenAt'["unfold_out"] = ItemsOf(unfold'.child)
    /\ unfold'.step \notin LateUnfold =>
          ChildrenAt'["unfold_in"] = ItemsOf(unfold'.child) /\ ChildrenAt'["unfold_out"] = ItemsOf(None)
BY ZenonT(30) DEF ChildrenAt

\* ... and of the fold arrow's.
LEMMA FoldPlaces ==
    /\ fold.step \in EarlyFold =>
          ChildrenAt["fold_in"] = ItemsOf(fold.child) /\ ChildrenAt["fold_out"] = ItemsOf(None)
    /\ fold.step \notin EarlyFold =>
          ChildrenAt["fold_in"] = ItemsOf(None) /\ ChildrenAt["fold_out"] = ItemsOf(fold.child)
    /\ fold'.step \in EarlyFold =>
          ChildrenAt'["fold_in"] = ItemsOf(fold'.child) /\ ChildrenAt'["fold_out"] = ItemsOf(None)
    /\ fold'.step \notin EarlyFold =>
          ChildrenAt'["fold_in"] = ItemsOf(None) /\ ChildrenAt'["fold_out"] = ItemsOf(fold'.child)
BY DEF ChildrenAt

\* The places of children that a step does not touch.
LEMMA ChildrenElsewhere ==
    ASSUME NEW X,
           "pool" \in X \/ child_pool'.available[Here] = child_pool.available[Here],
           "unfold_in" \in X \/ unfold' = unfold \/ ChildrenAt'["unfold_in"] = ChildrenAt["unfold_in"],
           "unfold_out" \in X \/ unfold' = unfold \/ ChildrenAt'["unfold_out"] = ChildrenAt["unfold_out"],
           "child_out" \in X \/ mailbox'["child_out"].queue = mailbox["child_out"].queue,
           "tap" \in X \/ tap_data' = tap_data,
           "child_in" \in X \/ mailbox'["child_in"].queue = mailbox["child_in"].queue,
           "fold_in" \in X \/ fold' = fold \/ ChildrenAt'["fold_in"] = ChildrenAt["fold_in"],
           "fold_out" \in X \/ fold' = fold \/ ChildrenAt'["fold_out"] = ChildrenAt["fold_out"]
    PROVE  \A z \in DOMAIN ChildrenAt \ X : ChildrenAt'[z] = ChildrenAt[z]
<1>1. tap_data' = tap_data => Tapped' = Tapped
  BY ZenonT(30) DEF Tapped
<1>2. /\ unfold' = unfold => /\ ChildrenAt'["unfold_in"] = ChildrenAt["unfold_in"]
                            /\ ChildrenAt'["unfold_out"] = ChildrenAt["unfold_out"]
      /\ fold' = fold => /\ ChildrenAt'["fold_in"] = ChildrenAt["fold_in"]
                        /\ ChildrenAt'["fold_out"] = ChildrenAt["fold_out"]
  BY UnfoldPlaces, FoldPlaces
<1> QED
  BY <1>1, <1>2, ChildrenByPlace

\* A child moves when one place loses it and another gains it.
LEMMA ChildrenMoved ==
    ASSUME NEW x \in DOMAIN ChildrenAt, NEW y \in DOMAIN ChildrenAt, x # y, NEW e,
           Loses(ChildrenAt[x], ChildrenAt'[x], e), Gains(ChildrenAt[y], ChildrenAt'[y], e),
           x = "pool" \/ y = "pool" \/ child_pool'.available[Here] = child_pool.available[Here],
           x = "unfold_in" \/ y = "unfold_in" \/ unfold' = unfold \/ ChildrenAt'["unfold_in"] = ChildrenAt["unfold_in"],
           x = "unfold_out" \/ y = "unfold_out" \/ unfold' = unfold \/ ChildrenAt'["unfold_out"] = ChildrenAt["unfold_out"],
           x = "child_out" \/ y = "child_out" \/ mailbox'["child_out"].queue = mailbox["child_out"].queue,
           x = "tap" \/ y = "tap" \/ tap_data' = tap_data,
           x = "child_in" \/ y = "child_in" \/ mailbox'["child_in"].queue = mailbox["child_in"].queue,
           x = "fold_in" \/ y = "fold_in" \/ fold' = fold \/ ChildrenAt'["fold_in"] = ChildrenAt["fold_in"],
           x = "fold_out" \/ y = "fold_out" \/ fold' = fold \/ ChildrenAt'["fold_out"] = ChildrenAt["fold_out"]
    PROVE  Moved(ChildrenAt, ChildrenAt', x, y, e)
<1>1. \A z \in DOMAIN ChildrenAt \ {x, y} : ChildrenAt'[z] = ChildrenAt[z]
  BY ChildrenElsewhere, ZenonT(30)
<1> QED
  BY <1>1, ChildrenByPlace, ZenonT(30) DEF Moved

\* The queues of parents hold parents, and the queues of children children.
LEMMA QueueKinds ==
    ASSUME IInv
    PROVE  /\ \A q \in {"parent_in", "parent_out"} :
                 q \in Queues /\ IsInjective(mailbox[q].queue) /\ Range(mailbox[q].queue) \subseteq Parents
           /\ \A q \in {"child_in", "child_out"} :
                 q \in Queues /\ IsInjective(mailbox[q].queue) /\ Range(mailbox[q].queue) \subseteq Children
<1>1. \A x \in DOMAIN ParentsAt : IsInjective(ParentsAt[x]) /\ Range(ParentsAt[x]) \subseteq Parents
  BY PlaceNames DEF IInv, ParentFamily, Apart, Within
<1>2. \A x \in DOMAIN ChildrenAt : IsInjective(ChildrenAt[x]) /\ Range(ChildrenAt[x]) \subseteq Children
  BY PlaceNames DEF IInv, ChildFamily, Apart, Within
<1>3. {"parent_in", "parent_out", "child_in", "child_out"} \subseteq Queues
  BY DEF Queues
<1> QED
  BY <1>1, <1>2, <1>3, ParentPlaces, ChildrenByPlace, ZenonT(30)

\* The source arrow takes a parent from the pool.
LEMMA SourcePullStep == ASSUME IInv, SourcePull PROVE IInv'
<1>1. PICK p \in PP!poppable(parent_pool, Here) :
         source_data' = p /\ parent_pool' = PP!pool_pop(parent_pool, Here, p)
  BY DEF SourcePull
<1>2. /\ p \in Parents /\ p # None /\ parent_pool' \in PP!Pool
      /\ Loses(parent_pool.available[Here], parent_pool'.available[Here], p)
  BY <1>1, ParentPoolOps, Types DEF IInv
<1>3. /\ mailbox' \in [Queues -> LocalQueue(Parents \cup Children)]
      /\ \A q \in Queues : mailbox'[q].queue = mailbox[q].queue
  <2>1. "parent_in" \in Queues /\ Reserves("parent_in", 1) /\ 1 \in 0 .. 1
    BY DEF SourcePull, Queues
  <2> QED
    BY <2>1, ReservesOne, ZenonT(30) DEF IInv
<1>4. Moved(ParentsAt, ParentsAt', "pool", "source", p)
  <2>1. Gains(ItemsOf(source_data), ItemsOf(source_data'), p)
    BY <1>1, <1>2, ItemsOfMoves, ZenonT(30) DEF SourcePull
  <2> QED
    BY <1>2, <1>3, <2>1, ParentPlaces, ParentsMoved, ZenonT(30) DEF SourcePull, Queues
<1>5. ChildrenAt' = ChildrenAt
  BY <1>3 DEF SourcePull, ChildrenAt, Tapped, Queues
<1>6. TypeOK'
  BY <1>1, <1>2, <1>3, ZenonT(30) DEF IInv, TypeOK, SourcePull, Opt
<1>7. UnfoldControl' /\ FoldControl'
  BY ControlKept DEF IInv, SourcePull
<1>8. ParentFamily' /\ Counted'
  <2>1. {"pool", "source"} \subseteq Upstream
    BY DEF Upstream
  <2> QED
    BY <1>4, <2>1, ParentMoves DEF IInv, SourcePull
<1>9. ChildFamily'
  BY <1>5, ChildrenStay DEF IInv, SourcePull
<1> QED
  BY <1>6, <1>7, <1>8, <1>9, ZenonT(30) DEF IInv

\* And pushes it on to the unfold arrow.
LEMMA SourcePushStep == ASSUME IInv, SourcePush PROVE IInv'
<1> DEFINE p == source_data
<1>1. p \in Parents /\ p # None /\ p \in Opt(Parents \cup Children) /\ ItemsOf(p) = <<p>>
  BY Types DEF SourcePush, IInv, Opt, ItemsOf
<1>2. /\ mailbox' \in [Queues -> LocalQueue(Parents \cup Children)]
      /\ \A q \in Queues \ {"parent_in"} : mailbox'[q].queue = mailbox[q].queue
      /\ Gains(mailbox["parent_in"].queue, mailbox'["parent_in"].queue, p)
  <2>1. "parent_in" \in Queues /\ Pushes("parent_in", ItemsOf(p), 1) /\ 1 \in 0 .. 1
    BY <1>1 DEF SourcePush, Queues
  <2> QED
    BY <1>1, <2>1, PushesOne, ZenonT(30) DEF IInv
<1>4. Moved(ParentsAt, ParentsAt', "source", "parent_in", p)
  <2>1. Loses(ItemsOf(source_data), ItemsOf(source_data'), p)
    BY <1>1, ItemsOfMoves DEF SourcePush
  <2> QED
    BY <1>2, <2>1, ParentPlaces, ParentsMoved, ZenonT(30) DEF SourcePush, Queues
<1>5. ChildrenAt' = ChildrenAt
  BY <1>2, ZenonT(30) DEF SourcePush, ChildrenAt, Tapped, Queues
<1>6. TypeOK'
  BY <1>2, ZenonT(30) DEF IInv, TypeOK, SourcePush, Opt
<1>7. UnfoldControl' /\ FoldControl'
  BY ControlKept DEF IInv, SourcePush
<1>8. ParentFamily' /\ Counted'
  <2>1. {"source", "parent_in"} \subseteq Upstream
    BY DEF Upstream
  <2> QED
    BY <1>4, <2>1, ParentMoves DEF IInv, SourcePush
<1>9. ChildFamily'
  BY <1>5, ChildrenStay DEF IInv, SourcePush
<1> QED
  BY <1>6, <1>7, <1>8, <1>9, ZenonT(30) DEF IInv

\* The children that the workers of the tap have in hand.
LEMMA TappedMoves ==
    ASSUME TypeOK, NEW w \in TapWorkers, NEW c \in Children
    PROVE  /\ tap_data[w] = None /\ tap_data' = [tap_data EXCEPT ![w] = c] => Gains(Tapped, Tapped', c)
           /\ tap_data[w] = c /\ tap_data' = [tap_data EXCEPT ![w] = None] => Loses(Tapped, Tapped', c)
<1>1. c # None /\ tap_data \in [TapWorkers -> Opt(Children)]
  BY Types
<1>2. /\ DOMAIN Tapped = {v \in TapWorkers : tap_data[v] # None}
      /\ \A v \in DOMAIN Tapped : Tapped[v] = tap_data[v]
  BY DEF Tapped
<1>3. /\ DOMAIN Tapped' = {v \in TapWorkers : tap_data'[v] # None}
      /\ \A v \in DOMAIN Tapped' : Tapped'[v] = tap_data'[v]
  BY DEF Tapped
<1>4. ASSUME tap_data[w] = None, tap_data' = [tap_data EXCEPT ![w] = c]
      PROVE  Gains(Tapped, Tapped', c)
  <2>1. tap_data'[w] = c /\ \A v \in TapWorkers \ {w} : tap_data'[v] = tap_data[v]
    BY <1>1, <1>4
  <2>2. /\ DOMAIN Tapped' = DOMAIN Tapped \cup {w} /\ w \notin DOMAIN Tapped /\ Tapped'[w] = c
        /\ \A v \in DOMAIN Tapped : Tapped'[v] = Tapped[v]
    BY <1>1, <1>2, <1>3, <1>4, <2>1, ZenonT(30)
  <2> QED
    BY <2>2 DEF Gains, IsInjective, Range
<1>5. ASSUME tap_data[w] = c, tap_data' = [tap_data EXCEPT ![w] = None]
      PROVE  Loses(Tapped, Tapped', c)
  <2>1. tap_data'[w] = None /\ \A v \in TapWorkers \ {w} : tap_data'[v] = tap_data[v]
    BY <1>1, <1>5
  <2>2. /\ DOMAIN Tapped' = DOMAIN Tapped \ {w} /\ w \in DOMAIN Tapped /\ Tapped[w] = c
        /\ \A v \in DOMAIN Tapped' : Tapped'[v] = Tapped[v]
    BY <1>1, <1>2, <1>3, <1>5, <2>1, ZenonT(30)
  <2> QED
    BY <2>2 DEF Loses, IsInjective, Range
<1> QED
  BY <1>4, <1>5

\* A worker of the tap takes a child off its queue.
LEMMA TapPullStep == ASSUME IInv, NEW w \in TapWorkers, TapPull(w) PROVE IInv'
<1> DEFINE E == Parents \cup Children
           m == mailbox["child_out"]
           k == mailbox["child_in"]
           c == Head(m.queue)
<1>1. /\ mailbox \in [Queues -> LocalQueue(E)] /\ m \in LocalQueue(E) /\ k \in LocalQueue(E)
      /\ "child_out" \in Queues /\ "child_in" \in Queues
  BY Types, ZenonT(30) DEF IInv, Queues
<1> HIDE DEF E
<1>2. /\ m.queue \in Seq(E) /\ m.queue # <<>> /\ pop_and_reserve(m, 1) \in LocalQueue(E)
      /\ pop_and_reserve(m, 1).queue = SubSeq(m.queue, 2, Len(m.queue))
  <2>1. pop_count(m, 1, 1) = 1
    BY ZenonT(30) DEF TapPull
  <2> HIDE DEF m
  <2> QED
    BY <1>1, <2>1, QueueOps
<1>3. reserve(k, 1) \in LocalQueue(E) /\ reserve(k, 1).queue = k.queue
  BY <1>1, QueueOps
<1>4. c \in E /\ Loses(m.queue, SubSeq(m.queue, 2, Len(m.queue)), c)
  <2>1. c \in E
    BY <1>2, SeqHead, ZenonT(30)
  <2> QED
    BY <1>2, <2>1, ItemMoves, ZenonT(30)
<1>5. /\ mailbox' \in [Queues -> LocalQueue(E)]
      /\ \A q \in Queues \ {"child_out"} : mailbox'[q].queue = mailbox[q].queue
      /\ mailbox'["child_out"].queue = SubSeq(m.queue, 2, Len(m.queue))
  <2> DEFINE a == pop_and_reserve(m, 1)
             b == reserve(k, 1)
  <2>1. mailbox' = [mailbox EXCEPT !["child_out"] = a, !["child_in"] = b]
    BY ZenonT(30) DEF TapPull
  <2>2. a \in LocalQueue(E) /\ b \in LocalQueue(E) /\ b.queue = k.queue
    BY <1>2, <1>3
  <2> HIDE DEF a, b
  <2>3. /\ mailbox' \in [Queues -> LocalQueue(E)]
        /\ mailbox'["child_out"] = a /\ mailbox'["child_in"] = b
        /\ \A q \in Queues \ {"child_out", "child_in"} : mailbox'[q] = mailbox[q]
    BY <1>1, <2>1, <2>2
  <2> QED
    BY <1>2, <2>2, <2>3 DEF a
<1>6. c \in Children
  <2>1. IsInjective(m.queue) /\ Range(m.queue) \subseteq Children
    BY QueueKinds
  <2> QED
    BY <1>4, <2>1 DEF Loses
<1>7. Moved(ChildrenAt, ChildrenAt', "child_out", "tap", c)
  <2>1. Gains(Tapped, Tapped', c)
    BY <1>6, TappedMoves, ZenonT(30) DEF IInv, TapPull
  <2>2. Loses(mailbox["child_out"].queue, mailbox'["child_out"].queue, c)
    BY <1>4, <1>5
  <2> HIDE DEF c
  <2> QED
    BY <1>5, <2>1, <2>2, ChildrenByPlace, ChildrenMoved, ZenonT(30) DEF TapPull, Queues
<1>8. ParentsAt' = ParentsAt
  BY <1>5, ZenonT(30) DEF TapPull, ParentsAt, Queues
<1>9. TypeOK'
  <2>1. tap_data' \in [TapWorkers -> Opt(Children)]
    BY <1>6, Types DEF IInv, TapPull, Opt
  <2> QED
    BY <1>5, <2>1, ZenonT(30) DEF IInv, TypeOK, TapPull, E
<1>10. UnfoldControl' /\ FoldControl'
  BY ControlKept DEF IInv, TapPull
<1>11. ChildFamily'
  <2>1. {"child_out", "tap"} \subseteq Attached
    BY DEF Attached
  <2> QED
    BY <1>7, <2>1, ChildMoves DEF IInv, TapPull
<1>12. ParentFamily' /\ Counted'
  BY <1>8, ParentsStay, ZenonT(30) DEF IInv, TapPull
<1> QED
  BY <1>9, <1>10, <1>11, <1>12 DEF IInv

\* And pushes it on.
LEMMA TapPushStep == ASSUME IInv, NEW w \in TapWorkers, TapPush(w) PROVE IInv'
<1> DEFINE E == Parents \cup Children
           m == mailbox["child_out"]
           k == mailbox["child_in"]
           c == tap_data[w]
<1>1. /\ mailbox \in [Queues -> LocalQueue(E)] /\ m \in LocalQueue(E) /\ k \in LocalQueue(E)
      /\ "child_out" \in Queues /\ "child_in" \in Queues /\ c \in E /\ c \in Children
  BY Types, ZenonT(30) DEF IInv, Queues, TapPush, Opt
<1> HIDE DEF E
<1> DEFINE a == push_and_unreserve(m, <<>>, 1)
           b == push_and_unreserve(k, <<c>>, 1)
<1>2. /\ a \in LocalQueue(E) /\ a.queue = m.queue
      /\ b \in LocalQueue(E) /\ b.queue = k.queue \o <<c>>
  <2>1. <<>> \in Seq(E) /\ <<c>> \in Seq(E) /\ 1 \in 0 .. 1 /\ m.queue \in Seq(E)
    BY <1>1, SeqEmpty, QueueOps
  <2>2. m.queue \o <<>> = m.queue
    BY <2>1, SeqConcat
  <2> HIDE DEF m, k, c
  <2>3. a \in LocalQueue(E) /\ a.queue = m.queue \o <<>>
    BY <1>1, <2>1, QueuePush, ZenonT(30)
  <2>4. b \in LocalQueue(E) /\ b.queue = k.queue \o <<c>>
    BY <1>1, <2>1, QueuePush, ZenonT(30)
  <2> QED
    BY <2>2, <2>3, <2>4, ZenonT(30)
<1>3. Gains(k.queue, k.queue \o <<c>>, c)
  <2>1. k.queue \in Seq(E)
    BY <1>1, QueueOps
  <2> QED
    BY <1>1, <2>1, ItemMoves, ZenonT(30)
<1>4. mailbox' = [mailbox EXCEPT !["child_out"] = a, !["child_in"] = b]
  BY DEF TapPush
<1> HIDE DEF a, b
<1>5. /\ mailbox' \in [Queues -> LocalQueue(E)]
      /\ \A q \in Queues \ {"child_in"} : mailbox'[q].queue = mailbox[q].queue
      /\ Gains(k.queue, mailbox'["child_in"].queue, c)
  <2>1. /\ mailbox' \in [Queues -> LocalQueue(E)]
        /\ mailbox'["child_out"] = a /\ mailbox'["child_in"] = b
        /\ \A q \in Queues \ {"child_out", "child_in"} : mailbox'[q] = mailbox[q]
    BY <1>1, <1>2, <1>4, ZenonT(30)
  <2> QED
    BY <1>2, <1>3, <2>1, ZenonT(30)
<1>6. Moved(ChildrenAt, ChildrenAt', "tap", "child_in", c)
  <2>1. Loses(Tapped, Tapped', c)
    BY <1>1, TappedMoves, ZenonT(30) DEF IInv, TapPush
  <2> QED
    BY <1>5, <2>1, ChildrenByPlace, ChildrenMoved, ZenonT(30) DEF TapPush, Queues
<1>7. ParentsAt' = ParentsAt
  BY <1>5, ZenonT(30) DEF TapPush, ParentsAt, Queues
<1>8. TypeOK'
  <2>1. tap_data' \in [TapWorkers -> Opt(Children)]
    BY Types, ZenonT(30) DEF IInv, TapPush, Opt
  <2> QED
    BY <1>5, <2>1, ZenonT(30) DEF IInv, TypeOK, TapPush, E
<1>9. UnfoldControl' /\ FoldControl'
  BY ControlKept DEF IInv, TapPush
<1>10. ChildFamily'
  <2>1. {"tap", "child_in"} \subseteq Attached
    BY DEF Attached
  <2> QED
    BY <1>6, <2>1, ChildMoves DEF IInv, TapPush
<1>11. ParentFamily' /\ Counted'
  BY <1>7, ParentsStay DEF IInv, TapPush
<1> QED
  BY <1>8, <1>9, <1>10, <1>11 DEF IInv

\* The parents' tap takes a parent that the fold arrow has pushed.
LEMMA ParentTapPullStep == ASSUME IInv, ParentTapPull PROVE IInv'
<1> DEFINE p == Head(mailbox["parent_out"].queue)
<1>1. /\ mailbox' \in [Queues -> LocalQueue(Parents \cup Children)]
      /\ \A q \in Queues \ {"parent_out"} : mailbox'[q].queue = mailbox[q].queue
      /\ Loses(mailbox["parent_out"].queue, mailbox'["parent_out"].queue, p)
  <2>1. "parent_out" \in Queues
    BY DEF Queues
  <2> QED
    BY <2>1, TakesOne, ZenonT(30) DEF IInv, ParentTapPull
<1>2. p \in Parents /\ p # None
  BY <1>1, QueueKinds, Types DEF Loses, IInv
<1> HIDE DEF p
<1>3. parent_tap_data' = p /\ parent_tap_data = None
  BY DEF ParentTapPull, p
<1>4. Moved(ParentsAt, ParentsAt', "parent_out", "parent_tap", p)
  <2>1. Gains(ItemsOf(parent_tap_data), ItemsOf(parent_tap_data'), p)
    BY <1>2, <1>3, ItemsOfMoves
  <2> QED
    BY <1>1, <2>1, ParentPlaces, ParentsMoved, ZenonT(30) DEF ParentTapPull, Queues
<1>5. ChildrenAt' = ChildrenAt
  BY <1>1, ZenonT(30) DEF ParentTapPull, ChildrenAt, Tapped, Queues
<1>6. TypeOK'
  BY <1>1, <1>2, <1>3, ZenonT(30) DEF IInv, TypeOK, ParentTapPull, Opt
<1>7. UnfoldControl' /\ FoldControl'
  BY ControlKept DEF IInv, ParentTapPull
<1>8. ParentFamily' /\ Counted'
  <2>1. {"parent_out", "parent_tap"} \subseteq Downstream
    BY DEF Downstream
  <2> QED
    BY <1>4, <2>1, ParentMoves DEF IInv, ParentTapPull
<1>9. ChildFamily'
  BY <1>5, ChildrenStay DEF IInv, ParentTapPull
<1> QED
  BY <1>6, <1>7, <1>8, <1>9 DEF IInv

\* put() on the parents' pool.
LEMMA RecycleEffect ==
    ASSUME TypeOK, NEW p \in Parents, Recycle(p)
    PROVE  /\ parent_pool' \in PP!Pool /\ refs' \in [Parents -> Int]
           /\ Gains(parent_pool.available[Here], parent_pool'.available[Here], p)
           /\ refs' = [refs EXCEPT ![p] = 1]
<1>1. parent_pool' \in PP!Pool /\ Gains(parent_pool.available[Here], parent_pool'.available[Here], p)
  BY ParentPoolOps, Types, ZenonT(30) DEF Recycle
<1> QED
  BY <1>1, Types DEF Recycle

\* And hands it back to the pool.
LEMMA ParentTapPushStep == ASSUME IInv, ParentTapPush PROVE IInv'
<1> DEFINE p == parent_tap_data
<1>1. p \in Parents /\ p # None
  BY Types DEF ParentTapPush, IInv, Opt
<1>2. /\ mailbox' \in [Queues -> LocalQueue(Parents \cup Children)]
      /\ \A q \in Queues : mailbox'[q].queue = mailbox[q].queue
  <2>1. "parent_out" \in Queues /\ Pushes("parent_out", ItemsOf(None), 1) /\ 1 \in 0 .. 1
        /\ None \in Opt(Parents \cup Children)
    BY DEF ParentTapPush, Queues, ItemsOf, Opt
  <2> QED
    BY <2>1, PushesOne, ZenonT(30) DEF IInv
<1>3. /\ parent_pool' \in PP!Pool /\ refs' \in [Parents -> Int]
      /\ Gains(parent_pool.available[Here], parent_pool'.available[Here], p)
      /\ refs' = [refs EXCEPT ![p] = 1]
  BY <1>1, RecycleEffect, ZenonT(30) DEF IInv, ParentTapPush
<1>4. Moved(ParentsAt, ParentsAt', "parent_tap", "pool", p)
  <2>1. Loses(ItemsOf(parent_tap_data), ItemsOf(parent_tap_data'), p)
    BY <1>1, ItemsOfMoves DEF ParentTapPush
  <2> QED
    BY <1>2, <1>3, <2>1, ParentPlaces, ParentsMoved, ZenonT(30) DEF ParentTapPush, Queues
<1>5. ChildrenAt' = ChildrenAt
  BY <1>2, ZenonT(30) DEF ParentTapPush, ChildrenAt, Tapped, Queues
<1>6. TypeOK'
  BY <1>2, <1>3, ZenonT(30) DEF IInv, TypeOK, ParentTapPush, Opt
<1>7. UnfoldControl' /\ FoldControl'
  BY ControlKept DEF IInv, ParentTapPush
<1>8. ParentFamily' /\ Counted'
  <2>1. "parent_tap" \in Downstream
    BY DEF Downstream
  <2> QED
    BY <1>1, <1>3, <1>4, <2>1, ParentRecycled, ZenonT(30) DEF IInv, ParentTapPush
<1>9. ChildFamily'
  BY <1>5, ChildrenStay DEF IInv, ParentTapPush
<1> QED
  BY <1>6, <1>7, <1>8, <1>9 DEF IInv

-----------------------------------------------------------------------------
(* The steps of the unfold arrow.                                          *)

\* It pulls a parent, or, with one in hand, only goes on.
LEMMA UnfoldPullParentStep == ASSUME IInv, UnfoldPullParent PROVE IInv'
<1> DEFINE p == Head(mailbox["parent_in"].queue)
<1>1. /\ unfold \in UnfoldArrow /\ unfold.step = "parent_in" /\ unfold.parent_in = None
      /\ unfold.child = None /\ unfold.last = FALSE /\ unfold.out_slot = 0
      /\ unfold.ready <=> unfold.parent_event = None
      /\ "parent_in" \in Queues /\ mailbox["parent_in"] \in LocalQueue(Parents \cup Children)
  BY Types DEF IInv, UnfoldPullParent, UnfoldControl, Queues, UnfoldArrow
<1>2. /\ UNCHANGED <<parent_pool, child_pool, parent_of, refs>>
      /\ UNCHANGED <<source_data, tap_data, parent_tap_data, fold>>
  BY DEF UnfoldPullParent, aroundUnfold
<1>3. FoldControl'
  BY <1>2, ControlKept DEF IInv
<1>4. CASE unfold.ready
  <2>1. /\ pop_count(mailbox["parent_in"], 1, 1) >= 1 /\ Takes("parent_in", 1)
        /\ unfold' = [unfold EXCEPT !.step = "child_in", !.parent_in = p, !.parent_slot = 1]
    BY <1>4 DEF UnfoldPullParent
  <2>2. pop_count(mailbox["parent_in"], 1, 1) = 1
    <3>1. pop_count(mailbox["parent_in"], 1, 1) \in 0 .. 1
      BY <1>1, QueueOps, ZenonT(30)
    <3> QED
      BY <2>1, <3>1
  <2>3. /\ mailbox' \in [Queues -> LocalQueue(Parents \cup Children)]
        /\ \A q \in Queues \ {"parent_in"} : mailbox'[q].queue = mailbox[q].queue
        /\ Loses(mailbox["parent_in"].queue, mailbox'["parent_in"].queue, p)
    BY <1>1, <2>1, <2>2, TakesOne, ZenonT(30) DEF IInv
  <2>4. p \in Parents /\ p # None
    BY <2>3, QueueKinds, Types DEF Loses, IInv
  <2> HIDE DEF p
  <2>5. Moved(ParentsAt, ParentsAt', "parent_in", "unfold_data", p)
    <3>1. Gains(ItemsOf(unfold.parent_in), ItemsOf(unfold'.parent_in), p)
      BY <1>1, <2>1, <2>4, ItemsOfMoves DEF UnfoldArrow
    <3>2. unfold'.parent_event = unfold.parent_event
      BY <1>1, <2>1 DEF UnfoldArrow
    <3> QED
      BY <1>2, <2>3, <3>1, <3>2, ParentPlaces, ParentsMoved, ZenonT(30) DEF Queues
  <2>6. ChildrenAt' = ChildrenAt
    <3>1. unfold'.child = unfold.child /\ unfold.step \notin LateUnfold /\ unfold'.step \notin LateUnfold
      BY <1>1, <2>1 DEF UnfoldArrow, LateUnfold
    <3> QED
      BY <1>2, <2>3, <3>1, ZenonT(30) DEF ChildrenAt, Tapped, Queues
  <2>7. unfold' \in UnfoldArrow
    <3>1. p \in Opt(Parents) /\ 1 \in 0 .. 1
      BY <2>4 DEF Opt
    <3> QED
      BY <1>1, <2>1, <3>1, ZenonT(30) DEF UnfoldArrow
  <2>8. TypeOK'
    BY <1>2, <2>3, <2>7, ZenonT(30) DEF IInv, TypeOK
  <2>9. UnfoldControl'
    BY <1>1, <1>4, <2>1, <2>4, ZenonT(30) DEF UnfoldControl, UnfoldArrow, Has
  <2>10. ParentFamily' /\ Counted'
    <3>1. {"parent_in", "unfold_data"} \subseteq Upstream
      BY DEF Upstream
    <3> QED
      BY <1>2, <2>5, <3>1, ParentMoves DEF IInv
  <2>11. ChildFamily'
    BY <1>2, <2>6, ChildrenStay DEF IInv
  <2> QED
    BY <1>3, <2>8, <2>9, <2>10, <2>11, ZenonT(30) DEF IInv
<1>5. CASE ~unfold.ready
  <2>1. Takes("parent_in", 0) /\ unfold' = [unfold EXCEPT !.step = "child_in", !.parent_in = None, !.parent_slot = 0]
    BY <1>5 DEF UnfoldPullParent
  <2>2. mailbox' = mailbox
    <3>1. pop_and_reserve(mailbox["parent_in"], 0) = mailbox["parent_in"]
      BY <1>1, QueueOps, ZenonT(30)
    <3> QED
      BY <1>1, <2>1, <3>1, Types DEF Takes, IInv
  <2>3. ParentsAt' = ParentsAt
    BY <1>1, <1>2, <2>1, <2>2 DEF ParentsAt, UnfoldArrow
  <2>4. ChildrenAt' = ChildrenAt
    <3>1. unfold'.child = unfold.child /\ unfold.step \notin LateUnfold /\ unfold'.step \notin LateUnfold
      BY <1>1, <2>1 DEF UnfoldArrow, LateUnfold
    <3> QED
      BY <1>2, <2>2, <3>1, ZenonT(30) DEF ChildrenAt, Tapped
  <2>5. unfold' \in UnfoldArrow
    BY <1>1, <2>1, ZenonT(30) DEF UnfoldArrow, Opt
  <2>6. TypeOK'
    BY <1>2, <2>2, <2>5 DEF IInv, TypeOK
  <2>7. UnfoldControl'
    BY <1>1, <1>5, <2>1 DEF UnfoldControl, UnfoldArrow, Has
  <2>8. ParentFamily' /\ Counted' /\ ChildFamily'
    BY <1>2, <2>3, <2>4, ParentsStay, ChildrenStay DEF IInv
  <2> QED
    BY <1>3, <2>6, <2>7, <2>8 DEF IInv
<1> QED
  BY <1>4, <1>5

\* It pulls a child, if the pool has one.
LEMMA UnfoldPullChildStep == ASSUME IInv, UnfoldPullChild PROVE IInv'
<1>1. /\ unfold \in UnfoldArrow /\ unfold.step = "child_in" /\ unfold.child = None
      /\ None \notin Children /\ child_pool \in CP!Pool
  BY Types, ZenonT(30) DEF IInv, UnfoldPullChild, UnfoldControl
<1>2. UNCHANGED <<mailbox, parent_pool, parent_of, refs, source_data, tap_data, parent_tap_data, fold>>
  BY ZenonT(30) DEF UnfoldPullChild, aroundUnfold
<1>3. FoldControl'
  BY <1>2, ControlKept DEF IInv
<1>4. ASSUME NEW c \in CP!poppable(child_pool, Here), child_pool' = CP!pool_pop(child_pool, Here, c),
             unfold' = [unfold EXCEPT !.step = "child_out", !.child = c]
      PROVE  IInv'
  <2>1. /\ c \in Children /\ c # None /\ child_pool' \in CP!Pool
        /\ Loses(child_pool.available[Here], child_pool'.available[Here], c)
    BY <1>1, <1>4, ChildPoolOps
  <2>2. /\ unfold'.parent_in = unfold.parent_in /\ unfold'.parent_event = unfold.parent_event
        /\ unfold'.child = c /\ unfold'.step = "child_out"
    BY <1>1, <1>4 DEF UnfoldArrow
  <2>3. Moved(ChildrenAt, ChildrenAt', "pool", "unfold_in", c)
    <3>1. unfold.step \notin LateUnfold /\ unfold'.step \notin LateUnfold
      BY <1>1, <2>2 DEF LateUnfold
    <3>2. Gains(ItemsOf(unfold.child), ItemsOf(unfold'.child), c)
      BY <1>1, <2>1, <2>2, ItemsOfMoves, ZenonT(30)
    <3> QED
      BY <1>2, <2>1, <3>1, <3>2, ChildrenByPlace, UnfoldPlaces, ChildrenMoved, ZenonT(30)
  <2>4. ParentsAt' = ParentsAt
    BY <1>2, <2>2 DEF ParentsAt
  <2>5. TypeOK'
    <3>1. c \in Opt(Children)
      BY <2>1 DEF Opt
    <3>2. unfold' \in UnfoldArrow
      BY <1>1, <1>4, <3>1, ZenonT(30) DEF UnfoldArrow
    <3> QED
      BY <1>2, <2>1, <3>2, ZenonT(30) DEF IInv, TypeOK
  <2>6. UnfoldControl'
    BY <1>1, <1>4, <2>1 DEF IInv, UnfoldControl, UnfoldArrow, Has
  <2>7. ChildFamily'
    <3>1. {"pool", "unfold_in"} \subseteq Detached
      BY DEF Detached
    <3> QED
      BY <1>2, <2>3, <3>1, ChildMoves DEF IInv
  <2>8. ParentFamily' /\ Counted'
    BY <1>2, <2>4, ParentsStay, ZenonT(30) DEF IInv
  <2> QED
    BY <1>3, <2>5, <2>6, <2>7, <2>8, ZenonT(30) DEF IInv
<1>5. ASSUME unfold' = [unfold EXCEPT !.step = "return_parent"], UNCHANGED child_pool
      PROVE  IInv'
  <2>1. /\ unfold'.parent_in = unfold.parent_in /\ unfold'.parent_event = unfold.parent_event
        /\ unfold'.child = unfold.child /\ unfold'.step = "return_parent" /\ unfold' \in UnfoldArrow
    BY <1>1, <1>5, ZenonT(30) DEF UnfoldArrow
  <2>2. ParentsAt' = ParentsAt
    BY <1>2, <2>1 DEF ParentsAt
  <2>3. ChildrenAt' = ChildrenAt
    <3>1. unfold.step \notin LateUnfold /\ unfold'.step \notin LateUnfold
      BY <1>1, <2>1 DEF LateUnfold
    <3> QED
      BY <1>2, <1>5, <2>1, <3>1, ZenonT(30) DEF ChildrenAt, Tapped
  <2>4. TypeOK'
    BY <1>2, <1>5, <2>1, ZenonT(30) DEF IInv, TypeOK
  <2>5. UnfoldControl'
    BY <1>1, <1>5 DEF IInv, UnfoldControl, UnfoldArrow, Has
  <2>6. ParentFamily' /\ Counted' /\ ChildFamily'
    BY <1>2, <2>2, <2>3, ParentsStay, ChildrenStay, ZenonT(30) DEF IInv
  <2> QED
    BY <1>3, <2>4, <2>5, <2>6 DEF IInv
<1> QED
  BY <1>4, <1>5, ZenonT(30) DEF UnfoldPullChild

\* It reserves a slot for the child, or gives up.
LEMMA UnfoldPullOutStep == ASSUME IInv, UnfoldPullOut PROVE IInv'
<1> DEFINE n == reserve_count(mailbox["child_out"], 1, 1)
<1>1. /\ unfold \in UnfoldArrow /\ unfold.step = "child_out"
      /\ "child_out" \in Queues /\ mailbox["child_out"] \in LocalQueue(Parents \cup Children)
  BY Types DEF IInv, UnfoldPullOut, Queues
<1>2. UNCHANGED <<parent_pool, child_pool, parent_of, refs, source_data, tap_data, parent_tap_data, fold>>
  BY DEF UnfoldPullOut, aroundUnfold
<1>3. FoldControl'
  BY <1>2, ControlKept DEF IInv
<1>4. n \in 0 .. 1
  BY <1>1, QueueOps, ZenonT(30)
<1>5. /\ Reserves("child_out", n)
      /\ unfold' = [unfold EXCEPT !.step = IF n = 1 THEN "unfold" ELSE "return_parent", !.out_slot = n]
  BY DEF UnfoldPullOut
<1> HIDE DEF n
<1>6. /\ mailbox' \in [Queues -> LocalQueue(Parents \cup Children)]
      /\ \A q \in Queues : mailbox'[q].queue = mailbox[q].queue
  BY <1>1, <1>4, <1>5, ReservesOne, ZenonT(30) DEF IInv
<1>7. /\ unfold'.parent_in = unfold.parent_in /\ unfold'.parent_event = unfold.parent_event
      /\ unfold'.child = unfold.child /\ unfold'.step \in {"unfold", "return_parent"}
      /\ unfold' \in UnfoldArrow
  BY <1>1, <1>4, <1>5, ZenonT(30) DEF UnfoldArrow
<1>8. ParentsAt' = ParentsAt
  BY <1>2, <1>6, <1>7, ZenonT(30) DEF ParentsAt, Queues
<1>9. ChildrenAt' = ChildrenAt
  <2>1. unfold.step \notin LateUnfold /\ unfold'.step \notin LateUnfold
    BY <1>1, <1>7 DEF LateUnfold
  <2> QED
    BY <1>2, <1>6, <1>7, <2>1, ZenonT(30) DEF ChildrenAt, Tapped, Queues
<1>10. TypeOK'
  BY <1>2, <1>6, <1>7, ZenonT(30) DEF IInv, TypeOK
<1>11. UnfoldControl'
  <2>1. CASE n = 1
    BY <1>1, <1>5, <2>1 DEF IInv, UnfoldControl, UnfoldArrow, Has
  <2>2. CASE n = 0
    BY <1>1, <1>5, <2>2, ZenonT(30) DEF IInv, UnfoldControl, UnfoldArrow, Has
  <2> QED
    BY <1>4, <2>1, <2>2
<1>12. ParentFamily' /\ Counted' /\ ChildFamily'
  BY <1>2, <1>8, <1>9, ParentsStay, ChildrenStay DEF IInv
<1> QED
  BY <1>3, <1>10, <1>11, <1>12 DEF IInv

\* Giving up, it returns the parent to its queue, ...
LEMMA UnfoldReturnParentStep == ASSUME IInv, UnfoldReturnParent PROVE IInv'
<1> DEFINE p == unfold.parent_in
           next == IF unfold.child = None THEN "parent_in" ELSE "return_child"
<1>1. /\ unfold \in UnfoldArrow /\ unfold.step = "return_parent"
      /\ p \in Opt(Parents) /\ p \in Opt(Parents \cup Children) /\ unfold.parent_slot \in 0 .. 1
      /\ "parent_in" \in Queues
  BY Types DEF IInv, UnfoldReturnParent, Queues, UnfoldArrow, Opt
<1>2. UNCHANGED <<parent_pool, child_pool, parent_of, refs, source_data, tap_data, parent_tap_data, fold>>
  BY DEF UnfoldReturnParent, aroundUnfold
<1>3. FoldControl'
  BY <1>2, ControlKept DEF IInv
<1>4. /\ unfold' = [unfold EXCEPT !.step = next, !.parent_in = None, !.parent_slot = 0]
      /\ next \in {"parent_in", "return_child"}
  BY DEF UnfoldReturnParent
<1>5. /\ mailbox' \in [Queues -> LocalQueue(Parents \cup Children)]
      /\ \A q \in Queues \ {"parent_in"} : mailbox'[q].queue = mailbox[q].queue
      /\ p # None => Gains(mailbox["parent_in"].queue, mailbox'["parent_in"].queue, p)
      /\ p = None => mailbox'["parent_in"].queue = mailbox["parent_in"].queue
  BY <1>1, PushesOne, ZenonT(30) DEF IInv, UnfoldReturnParent
<1>6. UnfoldControl'
  BY <1>1, <1>4 DEF IInv, UnfoldControl, UnfoldArrow, Has
<1> HIDE DEF next
<1>7. /\ unfold'.parent_in = None /\ unfold'.parent_event = unfold.parent_event
      /\ unfold'.child = unfold.child /\ unfold'.step = next /\ unfold' \in UnfoldArrow
  <2>1. None \in Opt(Parents) /\ 0 \in 0 .. 1
    BY DEF Opt
  <2>2. unfold' \in UnfoldArrow
    BY <1>1, <1>4, <2>1, ZenonT(30) DEF UnfoldArrow
  <2> QED
    BY <1>1, <1>4, <2>2 DEF UnfoldArrow
<1>8. ChildrenAt' = ChildrenAt
  <2>1. unfold.step \notin LateUnfold /\ unfold'.step \notin LateUnfold
    BY <1>1, <1>4, <1>7 DEF LateUnfold
  <2> QED
    BY <1>2, <1>5, <1>7, <2>1, ZenonT(30) DEF ChildrenAt, Tapped, Queues
<1>9. TypeOK'
  BY <1>2, <1>5, <1>7, ZenonT(30) DEF IInv, TypeOK
<1>10. ParentFamily' /\ Counted'
  <2>1. CASE p = None
    <3>1. ParentsAt' = ParentsAt
      BY <1>2, <1>5, <1>7, <2>1, ZenonT(30) DEF ParentsAt, Queues
    <3> QED
      BY <1>2, <3>1, ParentsStay DEF IInv
  <2>2. CASE p # None
    <3>1. Loses(ItemsOf(unfold.parent_in), ItemsOf(unfold'.parent_in), p)
      BY <1>7, <2>2, ItemsOfMoves
    <3>2. Moved(ParentsAt, ParentsAt', "unfold_data", "parent_in", p)
      BY <1>2, <1>5, <1>7, <2>2, <3>1, ParentPlaces, ParentsMoved, ZenonT(30) DEF Queues
    <3>3. {"unfold_data", "parent_in"} \subseteq Upstream
      BY DEF Upstream
    <3> QED
      BY <1>2, <3>2, <3>3, ParentMoves, ZenonT(30) DEF IInv
  <2> QED
    BY <2>1, <2>2, ZenonT(30)
<1>11. ChildFamily'
  BY <1>2, <1>8, ChildrenStay, ZenonT(30) DEF IInv
<1> QED
  BY <1>3, <1>6, <1>9, <1>10, <1>11, ZenonT(30) DEF IInv

\* ... and the child to its pool.
LEMMA UnfoldReturnChildStep == ASSUME IInv, UnfoldReturnChild PROVE IInv'
<1> DEFINE c == unfold.child
<1>1. /\ unfold \in UnfoldArrow /\ unfold.step = "return_child" /\ child_pool \in CP!Pool
      /\ c \in Children /\ c # None
  BY Types DEF IInv, UnfoldReturnChild, UnfoldArrow, UnfoldControl, Has, Opt
<1>2. UNCHANGED <<mailbox, parent_pool, parent_of, refs, source_data, tap_data, parent_tap_data, fold>>
  BY DEF UnfoldReturnChild, aroundUnfold
<1>3. FoldControl'
  BY <1>2, ControlKept DEF IInv
<1>4. unfold' = [unfold EXCEPT !.step = "parent_in", !.child = None]
  BY DEF UnfoldReturnChild
<1>5. child_pool' \in CP!Pool /\ Gains(child_pool.available[Here], child_pool'.available[Here], c)
  BY <1>1, ChildPoolOps DEF UnfoldReturnChild
<1>6. /\ unfold'.parent_in = unfold.parent_in /\ unfold'.parent_event = unfold.parent_event
      /\ unfold'.child = None /\ unfold'.step = "parent_in" /\ unfold' \in UnfoldArrow
  BY <1>1, <1>4, ZenonT(30) DEF UnfoldArrow, Opt
<1>7. Moved(ChildrenAt, ChildrenAt', "unfold_in", "pool", c)
  <2>1. unfold.step \notin LateUnfold /\ unfold'.step \notin LateUnfold
    BY <1>1, <1>6 DEF LateUnfold
  <2>2. Loses(ItemsOf(unfold.child), ItemsOf(unfold'.child), c)
    BY <1>1, <1>6, ItemsOfMoves
  <2> QED
    BY <1>2, <1>5, <2>1, <2>2, ChildrenByPlace, UnfoldPlaces, ChildrenMoved, ZenonT(30)
<1>8. ParentsAt' = ParentsAt
  BY <1>2, <1>6, ZenonT(30) DEF ParentsAt
<1>9. TypeOK'
  BY <1>2, <1>5, <1>6, ZenonT(30) DEF IInv, TypeOK
<1>10. UnfoldControl'
  BY <1>1, <1>4 DEF IInv, UnfoldControl, UnfoldArrow, Has
<1>11. ChildFamily'
  <2>1. {"unfold_in", "pool"} \subseteq Detached
    BY ZenonT(30) DEF Detached
  <2> QED
    BY <1>2, <1>7, <2>1, ChildMoves, ZenonT(30) DEF IInv
<1>12. ParentFamily' /\ Counted'
  BY <1>2, <1>8, ParentsStay DEF IInv
<1> QED
  BY <1>3, <1>9, <1>10, <1>11, <1>12, ZenonT(30) DEF IInv

\* push_all() returns the parent's slot ...
LEMMA UnfoldPushParentStep == ASSUME IInv, UnfoldPushParent PROVE IInv'
<1>1. /\ unfold \in UnfoldArrow /\ unfold.step = "push_parent" /\ unfold.parent_in = None
      /\ unfold.parent_slot \in 0 .. 1 /\ "parent_in" \in Queues /\ None \in Opt(Parents \cup Children)
  BY Types DEF IInv, UnfoldPushParent, UnfoldControl, Queues, UnfoldArrow, Opt
<1>2. UNCHANGED <<parent_pool, child_pool, parent_of, refs, source_data, tap_data, parent_tap_data, fold>>
  BY DEF UnfoldPushParent, aroundUnfold
<1>3. FoldControl'
  BY <1>2, ControlKept DEF IInv
<1>4. unfold' = [unfold EXCEPT !.step = "push_out", !.parent_in = None, !.parent_slot = 0]
  BY DEF UnfoldPushParent, After
<1>5. /\ mailbox' \in [Queues -> LocalQueue(Parents \cup Children)]
      /\ \A q \in Queues : mailbox'[q].queue = mailbox[q].queue
  <2>1. Pushes("parent_in", ItemsOf(None), unfold.parent_slot)
    BY <1>1 DEF UnfoldPushParent
  <2> QED
    BY <1>1, <2>1, PushesOne, ZenonT(30) DEF IInv
<1>6. /\ unfold'.parent_in = unfold.parent_in /\ unfold'.parent_event = unfold.parent_event
      /\ unfold'.child = unfold.child /\ unfold'.step = "push_out" /\ unfold' \in UnfoldArrow
  <2>1. None \in Opt(Parents) /\ 0 \in 0 .. 1
    BY DEF Opt
  <2>2. unfold' \in UnfoldArrow
    BY <1>1, <1>4, <2>1, ZenonT(30) DEF UnfoldArrow
  <2> QED
    BY <1>1, <1>4, <2>2, ZenonT(30) DEF UnfoldArrow
<1>7. ParentsAt' = ParentsAt
  BY <1>2, <1>5, <1>6, ZenonT(30) DEF ParentsAt, Queues
<1>8. ChildrenAt' = ChildrenAt
  <2>1. unfold.step \in LateUnfold /\ unfold'.step \in LateUnfold
    BY <1>1, <1>6, ZenonT(30) DEF LateUnfold
  <2> QED
    BY <1>2, <1>5, <1>6, <2>1, ZenonT(30) DEF ChildrenAt, Tapped, Queues
<1>9. TypeOK'
  BY <1>2, <1>5, <1>6, ZenonT(30) DEF IInv, TypeOK
<1>10. UnfoldControl'
  BY <1>1, <1>4, ZenonT(30) DEF IInv, UnfoldControl, UnfoldArrow, Has
<1>11. ParentFamily' /\ Counted' /\ ChildFamily'
  BY <1>2, <1>7, <1>8, ParentsStay, ChildrenStay DEF IInv
<1> QED
  BY <1>3, <1>9, <1>10, <1>11 DEF IInv

\* ... and emits the child.
LEMMA UnfoldPushOutStep == ASSUME IInv, UnfoldPushOut PROVE IInv'
<1> DEFINE c == unfold.child
<1>1. /\ unfold \in UnfoldArrow /\ unfold.step = "push_out" /\ unfold.out_slot \in 0 .. 1
      /\ c \in Children /\ c # None /\ c \in Opt(Parents \cup Children) /\ "child_out" \in Queues
  BY Types DEF IInv, UnfoldPushOut, UnfoldArrow, UnfoldControl, Has, Opt, Queues
<1>2. UNCHANGED <<parent_pool, child_pool, parent_of, refs, source_data, tap_data, parent_tap_data, fold>>
  BY DEF UnfoldPushOut, aroundUnfold
<1>3. FoldControl'
  BY <1>2, ControlKept DEF IInv
<1>4. unfold' = [unfold EXCEPT !.step = "parent_in", !.child = None, !.out_slot = 0]
  BY DEF UnfoldPushOut, After
<1>5. /\ mailbox' \in [Queues -> LocalQueue(Parents \cup Children)]
      /\ \A q \in Queues \ {"child_out"} : mailbox'[q].queue = mailbox[q].queue
      /\ Gains(mailbox["child_out"].queue, mailbox'["child_out"].queue, c)
  <2>1. Pushes("child_out", ItemsOf(c), unfold.out_slot)
    BY <1>1 DEF UnfoldPushOut, ItemsOf
  <2> QED
    BY <1>1, <2>1, PushesOne, ZenonT(30) DEF IInv
<1>6. /\ unfold'.parent_in = unfold.parent_in /\ unfold'.parent_event = unfold.parent_event
      /\ unfold'.child = None /\ unfold'.step = "parent_in" /\ unfold' \in UnfoldArrow
  <2>1. None \in Opt(Children) /\ 0 \in 0 .. 1
    BY DEF Opt
  <2>2. unfold' \in UnfoldArrow
    BY <1>1, <1>4, <2>1, ZenonT(30) DEF UnfoldArrow
  <2> QED
    BY <1>1, <1>4, <2>2 DEF UnfoldArrow
<1>7. Moved(ChildrenAt, ChildrenAt', "unfold_out", "child_out", c)
  <2>1. unfold.step \in LateUnfold /\ unfold'.step \notin LateUnfold
    BY <1>1, <1>6, ZenonT(30) DEF LateUnfold
  <2>2. Loses(ItemsOf(unfold.child), ItemsOf(unfold'.child), c)
    BY <1>1, <1>6, ItemsOfMoves
  <2> QED
    BY <1>2, <1>5, <1>6, <2>1, <2>2, ChildrenByPlace, UnfoldPlaces, ChildrenMoved, ZenonT(30) DEF Queues
<1>8. ParentsAt' = ParentsAt
  BY <1>2, <1>5, <1>6, ZenonT(30) DEF ParentsAt, Queues
<1>9. TypeOK'
  BY <1>2, <1>5, <1>6, ZenonT(30) DEF IInv, TypeOK
<1>10. UnfoldControl'
  BY <1>1, <1>4, ZenonT(30) DEF IInv, UnfoldControl, UnfoldArrow, Has
<1>11. ChildFamily'
  <2>1. {"unfold_out", "child_out"} \subseteq Attached
    BY ZenonT(30) DEF Attached
  <2> QED
    BY <1>2, <1>7, <2>1, ChildMoves, ZenonT(30) DEF IInv
<1>12. ParentFamily' /\ Counted'
  BY <1>2, <1>8, ParentsStay DEF IInv
<1> QED
  BY <1>3, <1>9, <1>10, <1>11, <1>12 DEF IInv

\* A child that is given a parent, or loses it, and the others.
LEMMA KidsOf ==
    ASSUME Counting, NEW c \in Children, NEW p \in Parents
    PROVE  /\ Cardinality(Kids(p)) \in Nat
           /\ Cardinality(Kids(p)) = 0 <=> Kids(p) = {}
           /\ c \notin Kids(p) => Cardinality(Kids(p) \cup {c}) = Cardinality(Kids(p)) + 1
           /\ c \in Kids(p) => Cardinality(Kids(p) \ {c}) = Cardinality(Kids(p)) - 1
<1>1. Kids(p) \in SUBSET Children
  BY DEF Kids
<1> QED
  BY <1>1 DEF Counting

\* DoUnfold() has made a child, which has no parent yet, of a parent in hand.
LEMMA UnfoldEffect ==
    ASSUME IInv, NEW last \in BOOLEAN, Unfold(last), NEW c, NEW p, c = unfold.child,
           p = IF unfold.ready THEN unfold.parent_in ELSE unfold.parent_event
    PROVE  /\ unfold \in UnfoldArrow /\ unfold.step = "unfold" /\ c \in Children /\ p \in Parents
           /\ c # None /\ p # None
           /\ unfold.ready => unfold.parent_in = p /\ unfold.parent_event = None
           /\ ~unfold.ready => unfold.parent_in = None /\ unfold.parent_event = p
           /\ parent_of \in [Children -> Opt(Parents)] /\ refs \in [Parents -> Int]
           /\ parent_of[c] = None
           /\ UNCHANGED <<mailbox, parent_pool, child_pool, source_data, tap_data, parent_tap_data, fold>>
           /\ parent_of' = [parent_of EXCEPT ![c] = p] /\ refs' = [refs EXCEPT ![p] = @ + 1]
           /\ unfold' = [unfold EXCEPT !.step = "release", !.parent_in = None, !.parent_event = p,
                                       !.ready = FALSE, !.last = last,
                                       !.child_number = NextChildNumber(last)]
           /\ p \in Within(ParentsAt, Upstream) /\ p \notin Within(ParentsAt, Downstream)
<1>1. /\ unfold \in UnfoldArrow /\ unfold.step = "unfold" /\ c \in Children /\ p \in Parents
      /\ c # None /\ p # None
      /\ unfold.ready => unfold.parent_in = p /\ unfold.parent_event = None
      /\ ~unfold.ready => unfold.parent_in = None /\ unfold.parent_event = p
      /\ parent_of \in [Children -> Opt(Parents)] /\ refs \in [Parents -> Int]
  BY Types, ZenonT(30) DEF IInv, Unfold, UnfoldControl, UnfoldArrow, Has, Opt
<1>2. parent_of[c] = None
  <2>1. c \in Range(ChildrenAt["unfold_in"]) /\ "unfold_in" \in Detached
    <3>1. ChildrenAt["unfold_in"] = ItemsOf(c)
      BY <1>1, UnfoldPlaces, ZenonT(30) DEF LateUnfold
    <3> QED
      BY <1>1, <3>1, ItemsOfMoves, ZenonT(30) DEF Detached
  <2> QED
    BY <2>1, ZenonT(30) DEF IInv, ChildFamily, Within
<1>3. /\ UNCHANGED <<mailbox, parent_pool, child_pool, source_data, tap_data, parent_tap_data, fold>>
      /\ parent_of' = [parent_of EXCEPT ![c] = p] /\ refs' = [refs EXCEPT ![p] = @ + 1]
      /\ unfold' = [unfold EXCEPT !.step = "release", !.parent_in = None, !.parent_event = p,
                                  !.ready = FALSE, !.last = last,
                                  !.child_number = NextChildNumber(last)]
  BY <1>1, <1>2 DEF Unfold, SetParent, After, aroundUnfold
<1>4. p \in Within(ParentsAt, Upstream) /\ p \notin Within(ParentsAt, Downstream)
  <2>1. p \in Range(ParentsAt["unfold_data"]) \cup Range(ParentsAt["unfold"])
    <3>1. ParentsAt["unfold_data"] = ItemsOf(unfold.parent_in) /\ ParentsAt["unfold"] = ItemsOf(unfold.parent_event)
      BY DEF ParentsAt
    <3> QED
      BY <1>1, <3>1, ItemsOfMoves, ZenonT(30)
  <2>2. p \in Within(ParentsAt, Upstream)
    BY <2>1 DEF Within, Upstream
  <2> QED
    BY <2>2, WithinApart, PlaceNames, ZenonT(30) DEF IInv, ParentFamily
<1> QED
  BY <1>1, <1>2, <1>3, <1>4, ZenonT(30)

\* The child refers to the parent from now on.
LEMMA UnfoldStep == ASSUME IInv, NEW last \in BOOLEAN, Unfold(last) PROVE IInv'
<1> DEFINE S == ParentsAt
           T == ParentsAt'
<1>0. PICK c, p : /\ c = unfold.child
                  /\ p = IF unfold.ready THEN unfold.parent_in ELSE unfold.parent_event
  OBVIOUS
<1>1. /\ unfold \in UnfoldArrow /\ unfold.step = "unfold" /\ c \in Children /\ p \in Parents
      /\ c # None /\ p # None
      /\ unfold.ready => unfold.parent_in = p /\ unfold.parent_event = None
      /\ ~unfold.ready => unfold.parent_in = None /\ unfold.parent_event = p
      /\ parent_of \in [Children -> Opt(Parents)] /\ refs \in [Parents -> Int]
  BY <1>0, UnfoldEffect, ZenonT(30)
<1>2. parent_of[c] = None
  BY <1>0, UnfoldEffect, ZenonT(30)
<1>3. /\ UNCHANGED <<mailbox, parent_pool, child_pool, source_data, tap_data, parent_tap_data, fold>>
      /\ parent_of' = [parent_of EXCEPT ![c] = p] /\ refs' = [refs EXCEPT ![p] = @ + 1]
      /\ unfold' = [unfold EXCEPT !.step = "release", !.parent_in = None, !.parent_event = p,
                                  !.ready = FALSE, !.last = last,
                                  !.child_number = NextChildNumber(last)]
  BY <1>0, UnfoldEffect, ZenonT(60)
<1>4. NextChildNumber(last) \in 0 .. MaxChildren
  <2>1. unfold.child_number \in 0 .. MaxChildren
    BY <1>1 DEF UnfoldArrow
  <2> QED
    BY <2>1, HierarchyAssumption DEF Unfold, NextChildNumber
<1>5. /\ unfold' \in UnfoldArrow /\ unfold'.step = "release" /\ unfold'.parent_in = None
      /\ unfold'.parent_event = p /\ unfold'.child = c
  <2>1. p \in Opt(Parents) /\ None \in Opt(Parents) /\ FALSE \in BOOLEAN
    BY <1>1 DEF Opt
  <2>2. unfold' \in UnfoldArrow
    BY <1>1, <1>3, <1>4, <2>1, ZenonT(30) DEF UnfoldArrow
  <2> QED
    BY <1>0, <1>1, <1>3, <2>2 DEF UnfoldArrow
<1>6. /\ parent_of' \in [Children -> Opt(Parents)] /\ refs' \in [Parents -> Int]
      /\ parent_of'[c] = p /\ \A d \in Children \ {c} : parent_of'[d] = parent_of[d]
      /\ refs'[p] = refs[p] + 1 /\ \A r \in Parents \ {p} : refs'[r] = refs[r]
  <2>1. p \in Opt(Parents) /\ refs[p] + 1 \in Int
    BY <1>1 DEF Opt
  <2> QED
    BY <1>1, <1>3, <2>1, ZenonT(30)
<1>7. TypeOK'
  BY <1>3, <1>5, <1>6, ZenonT(30) DEF IInv, TypeOK
<1>8. UnfoldControl'
  BY <1>0, <1>1, <1>3, <1>6, ZenonT(30) DEF IInv, UnfoldControl, UnfoldArrow, Has
<1>9. FoldControl'
  BY <1>3, ControlKept, ZenonT(30) DEF IInv
<1>10. ChildFamily'
  <2>1. Moved(ChildrenAt, ChildrenAt', "unfold_in", "unfold_out", c)
    <3>1. unfold.step \notin LateUnfold /\ unfold'.step \in LateUnfold
      BY <1>1, <1>5, ZenonT(30) DEF LateUnfold
    <3>2. Loses(ItemsOf(c), ItemsOf(None), c) /\ Gains(ItemsOf(None), ItemsOf(c), c)
      BY <1>1, ItemsOfMoves, ZenonT(30)
    <3> QED
      BY <1>0, <1>3, <1>5, <3>1, <3>2, ChildrenByPlace, UnfoldPlaces, ChildrenMoved, ZenonT(30)
  <2>2. /\ Apart(ChildrenAt')
        /\ \A X \in SUBSET DOMAIN ChildrenAt :
              Within(ChildrenAt', X) = (Within(ChildrenAt, X) \ {c}) \cup {d \in {c} : "unfold_out" \in X}
    BY <2>1, MovedApart DEF IInv, ChildFamily
  <2>3. /\ Within(ChildrenAt', Attached) = Within(ChildrenAt, Attached) \cup {c}
        /\ Within(ChildrenAt', Detached) = Within(ChildrenAt, Detached) \ {c}
    <3>1. "unfold_out" \in Attached /\ "unfold_out" \notin Detached
      BY ZenonT(30) DEF Attached, Detached
    <3> QED
      BY <2>2, <3>1, PlaceNames
  <2>4. /\ Within(ChildrenAt, Attached) \subseteq Children /\ Within(ChildrenAt, Detached) \subseteq Children
        /\ Within(ChildrenAt', Attached \cup Detached) \subseteq Children
    <3>1. Within(ChildrenAt, Attached \cup Detached) \subseteq Children
      BY ZenonT(30) DEF IInv, ChildFamily
    <3> QED
      BY <1>1, <2>3, <3>1, PlaceNames
  <2> QED
    BY <1>1, <1>6, <2>2, <2>3, <2>4, ZenonT(30) DEF IInv, ChildFamily
<1>11. Apart(T) /\ Within(T, Upstream) = Within(S, Upstream) /\ Within(T, Downstream) = Within(S, Downstream)
  <2>1. CASE unfold.ready
    <3>1. Moved(S, T, "unfold_data", "unfold", p)
      <4>1. Loses(ItemsOf(p), ItemsOf(None), p) /\ Gains(ItemsOf(None), ItemsOf(p), p)
        BY <1>1, ItemsOfMoves, ZenonT(30)
      <4>2. unfold.parent_in = p /\ unfold.parent_event = None
        BY <1>1, <2>1, ZenonT(30)
      <4>3. Loses(S["unfold_data"], T["unfold_data"], p) /\ Gains(S["unfold"], T["unfold"], p)
        BY <1>5, <4>1, <4>2, ParentPlaces, ZenonT(60)
      <4> QED
        BY <1>3, <4>3, ParentPlaces, ParentsMoved, ZenonT(30)
    <3>2. {"unfold_data", "unfold"} \subseteq Upstream
      BY DEF Upstream
    <3> QED
      BY <3>1, <3>2, ParentPlacesKept DEF IInv
  <2>2. CASE ~unfold.ready
    <3>1. T = S
      BY <1>1, <1>3, <1>5, <2>2 DEF ParentsAt
    <3> QED
      BY <3>1 DEF IInv, ParentFamily
  <2> QED
    BY <2>1, <2>2, ZenonT(30)
<1>12. p \in Within(S, Upstream) /\ p \notin Within(S, Downstream)
  BY <1>0, UnfoldEffect, ZenonT(30)
<1>13. Kids(p)' = Kids(p) \cup {c} /\ c \notin Kids(p) /\ \A r \in Parents \ {p} : Kids(r)' = Kids(r)
  <2>1. None \notin Parents
    BY Types, ZenonT(30) DEF IInv
  <2>2. Kids(p)' = Kids(p) \cup {c}
    BY <1>1, <1>6, ZenonT(30) DEF Kids
  <2>3. c \notin Kids(p)
    BY <1>1, <1>2, ZenonT(30) DEF Kids
  <2>4. ASSUME NEW r \in Parents \ {p}
        PROVE  Kids(r)' = Kids(r)
    BY <1>1, <1>2, <1>6, <2>1, ZenonT(30) DEF Kids
  <2> QED
    BY <2>2, <2>3, <2>4
<1> HIDE DEF S, T
<1>14. ParentFamily'
  <2>1. \A q \in Within(T, Downstream) : Kids(q)' = {}
    <3>1. \A q \in Within(S, Downstream) : Kids(q) = {} /\ q \in Parents
      BY PlaceNames DEF IInv, ParentFamily, S
    <3> QED
      BY <1>11, <1>12, <1>13, <3>1, ZenonT(30)
  <2>2. \A q \in Parents : q \in Within(T, Upstream \cup Downstream) \/ Kids(q)' # {}
    <3> SUFFICES ASSUME NEW q \in Parents, Kids(q)' = {}
                 PROVE  q \in Within(T, Upstream \cup Downstream)
      OBVIOUS
    <3>1. Kids(q) = {}
      BY <1>13
    <3>2. q \in Within(S, Upstream \cup Downstream)
      BY <3>1, ZenonT(30) DEF IInv, ParentFamily, S
    <3> QED
      BY <1>11, <3>2, PlaceNames
  <2>3. Within(T, Upstream \cup Downstream) \subseteq Parents
    BY <1>11, PlaceNames DEF IInv, ParentFamily, S
  <2> QED
    BY <1>11, <2>1, <2>2, <2>3, ZenonT(30) DEF ParentFamily, T
<1>15. Counted'
  <2> SUFFICES ASSUME NEW r \in Parents
               PROVE  refs'[r] = Cardinality(Kids(r)') + IF r \in Within(T, Upstream) THEN 1 ELSE 0
    BY DEF Counted, T
  <2>1. /\ refs[r] = Cardinality(Kids(r)) + IF r \in Within(T, Upstream) THEN 1 ELSE 0
        /\ Cardinality(Kids(r)) \in Nat
    BY <1>1, <1>11, KidsOf, ZenonT(30) DEF IInv, Counted, S
  <2>2. CASE r = p
    <3>1. Cardinality(Kids(p)') = Cardinality(Kids(p)) + 1
      BY <1>1, <1>13, KidsOf, ZenonT(30) DEF IInv
    <3>2. refs'[r] = refs[r] + 1 /\ Cardinality(Kids(r)') = Cardinality(Kids(r)) + 1
      BY <1>6, <2>2, <3>1, ZenonT(30)
    <3> QED
      BY <2>1, <3>2
  <2>3. CASE r # p
    BY <1>6, <1>13, <2>1, <2>3, ZenonT(30)
  <2> QED
    BY <2>2, <2>3
<1> QED
  BY <1>7, <1>8, <1>9, <1>10, <1>14, <1>15, ZenonT(30) DEF IInv

\* The unfold arrow goes on to the next child, or is done with the parent, whose
\* last child of the moment keeps it alive.
LEMMA UnfoldReleaseStep == ASSUME IInv, UnfoldRelease PROVE IInv'
<1> DEFINE S == ParentsAt
           T == ParentsAt'
<1>0. PICK c, p : c = unfold.child /\ p = unfold.parent_event
  OBVIOUS
<1>1. /\ unfold \in UnfoldArrow /\ unfold.step = "release" /\ c \in Children /\ p \in Parents
      /\ p # None /\ parent_of[c] = p /\ refs \in [Parents -> Int]
  BY <1>0, Types, ZenonT(30) DEF IInv, UnfoldRelease, UnfoldControl, UnfoldArrow, Has, Opt
<1>2. UNCHANGED <<mailbox, parent_pool, child_pool, parent_of, source_data, tap_data, parent_tap_data, fold>>
  BY DEF UnfoldRelease, aroundUnfold
<1>3. FoldControl'
  BY <1>2, ControlKept, ZenonT(30) DEF IInv
<1>4. ASSUME unfold'.child = unfold.child, unfold'.step = "push_parent"
      PROVE  ChildFamily'
  <2>1. unfold.step \in LateUnfold /\ unfold'.step \in LateUnfold
    BY <1>1, <1>4 DEF LateUnfold
  <2>2. ChildrenAt' = ChildrenAt
    BY <1>2, <1>4, <2>1, ZenonT(30) DEF ChildrenAt, Tapped
  <2> QED
    BY <1>2, <2>2, ChildrenStay, ZenonT(30) DEF IInv
<1>5. CASE ~unfold.last
  <2>1. unfold' = [unfold EXCEPT !.step = "push_parent"] /\ UNCHANGED refs
    BY <1>5 DEF UnfoldRelease, After
  <2>2. /\ unfold' \in UnfoldArrow /\ unfold'.step = "push_parent" /\ unfold'.child = unfold.child
        /\ unfold'.parent_in = unfold.parent_in /\ unfold'.parent_event = unfold.parent_event
    BY <1>1, <2>1, ZenonT(30) DEF UnfoldArrow
  <2>3. TypeOK'
    BY <1>2, <2>1, <2>2, ZenonT(30) DEF IInv, TypeOK
  <2>4. UnfoldControl'
    BY <1>1, <1>5, <2>1, ZenonT(30) DEF IInv, UnfoldControl, UnfoldArrow, Has
  <2>5. ParentsAt' = ParentsAt
    BY <1>2, <2>2, ZenonT(30) DEF ParentsAt
  <2>6. ParentFamily' /\ Counted'
    BY <1>2, <2>1, <2>5, ParentsStay, ZenonT(30) DEF IInv
  <2> QED
    BY <1>3, <1>4, <2>2, <2>3, <2>4, <2>6, ZenonT(30) DEF IInv
<1>6. CASE unfold.last
  <2>1. /\ unfold' = [unfold EXCEPT !.step = "push_parent", !.parent_event = None,
                                    !.ready = TRUE, !.last = FALSE]
        /\ refs' = [refs EXCEPT ![p] = @ - 1]
    BY <1>0, <1>6 DEF UnfoldRelease, After
  <2>2. /\ unfold' \in UnfoldArrow /\ unfold'.step = "push_parent" /\ unfold'.child = unfold.child
        /\ unfold'.parent_in = unfold.parent_in /\ unfold'.parent_event = None
    <3>1. None \in Opt(Parents)
      BY DEF Opt
    <3>2. unfold' \in UnfoldArrow
      BY <1>1, <2>1, <3>1, ZenonT(30) DEF UnfoldArrow
    <3> QED
      BY <1>1, <2>1, <3>2 DEF UnfoldArrow
  <2>3. refs' \in [Parents -> Int] /\ refs'[p] = refs[p] - 1 /\ \A r \in Parents \ {p} : refs'[r] = refs[r]
    <3>1. refs[p] - 1 \in Int
      BY <1>1
    <3> QED
      BY <1>1, <2>1, <3>1, ZenonT(30)
  <2>4. TypeOK'
    BY <1>2, <2>2, <2>3, ZenonT(30) DEF IInv, TypeOK
  <2>5. UnfoldControl'
    BY <1>1, <2>1, ZenonT(30) DEF IInv, UnfoldControl, UnfoldArrow, Has
  <2>6. /\ Apart(T) /\ p \in Range(S["unfold"])
        /\ Within(T, Upstream) = Within(S, Upstream) \ {p}
        /\ Within(T, Downstream) = Within(S, Downstream) \ {p}
    <3>1. Left(S, T, "unfold", p)
      <4>1. Loses(ItemsOf(unfold.parent_event), ItemsOf(unfold'.parent_event), p)
        BY <1>0, <1>1, <2>2, ItemsOfMoves, ZenonT(30)
      <4> QED
        BY <1>2, <2>2, <4>1, ParentPlaces, ParentsElsewhere, ZenonT(30) DEF Left
    <3> HIDE DEF S, T
    <3>2. /\ Apart(T) /\ p \in Range(S["unfold"])
          /\ \A X \in SUBSET DOMAIN S : Within(T, X) = Within(S, X) \ {p}
      BY <3>1, LeftApart DEF IInv, ParentFamily, S
    <3>3. Upstream \in SUBSET DOMAIN S /\ Downstream \in SUBSET DOMAIN S
      BY PlaceNames DEF S
    <3> QED
      BY <3>2, <3>3
  <2>7. \A r : Kids(r)' = Kids(r)
    BY <1>2 DEF Kids
  <2>8. p \in Within(S, Upstream) /\ c \in Kids(p)
    BY <1>1, <2>6 DEF Within, Upstream, Kids
  <2> HIDE DEF S, T
  <2>9. ParentFamily'
    <3>1. Within(T, Upstream \cup Downstream) = Within(S, Upstream \cup Downstream) \ {p}
      BY <2>6, PlaceNames
    <3>2. \A q \in Parents : q \in Within(T, Upstream \cup Downstream) \/ Kids(q)' # {}
      BY <2>7, <2>8, <3>1, ZenonT(30) DEF IInv, ParentFamily, S
    <3>3. /\ Within(T, Upstream \cup Downstream) \subseteq Parents
          /\ \A q \in Within(T, Downstream) : Kids(q)' = {}
      BY <2>6, <2>7, <3>1, ZenonT(30) DEF IInv, ParentFamily, S
    <3> QED
      BY <2>6, <3>2, <3>3, ZenonT(30) DEF ParentFamily, T
  <2>10. Counted'
    <3> SUFFICES ASSUME NEW r \in Parents
                 PROVE  refs'[r] = Cardinality(Kids(r)) + IF r \in Within(T, Upstream) THEN 1 ELSE 0
      BY <2>7 DEF Counted, T
    <3>1. /\ refs[r] = Cardinality(Kids(r)) + IF r \in Within(S, Upstream) THEN 1 ELSE 0
          /\ Cardinality(Kids(r)) \in Nat
      BY <1>1, KidsOf, ZenonT(30) DEF IInv, Counted, S
    <3>2. CASE r = p
      <4>1. refs'[r] = refs[r] - 1 /\ r \in Within(S, Upstream) /\ r \notin Within(T, Upstream)
        BY <2>3, <2>6, <2>8, <3>2, ZenonT(30)
      <4> QED
        BY <3>1, <4>1
    <3>3. CASE r # p
      <4>1. refs'[r] = refs[r] /\ (r \in Within(S, Upstream) <=> r \in Within(T, Upstream))
        BY <2>3, <2>6, <3>3
      <4> QED
        BY <3>1, <4>1, ZenonT(30)
    <3> QED
      BY <3>2, <3>3, ZenonT(30)
  <2> QED
    BY <1>3, <1>4, <2>2, <2>4, <2>5, <2>9, <2>10, ZenonT(30) DEF IInv
<1> QED
  BY <1>5, <1>6

=============================================================================

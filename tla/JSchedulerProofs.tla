-------------------------- MODULE JSchedulerProofs --------------------------
(***************************************************************************)
(* Proofs about JScheduler for every topology and every set of workers.    *)
(*                                                                         *)
(* SequentialExclusive is not inductive: checkout tests thread_count, not  *)
(* who holds the arrow.  The inductive invariant IInv adds that            *)
(* thread_count is exact, that it is at most one on a sequential arrow,    *)
(* and that the activity counters are sound.                               *)
(***************************************************************************)
EXTENDS FiniteSetTheorems, JScheduler, TLAPS

\* CountersSound of any topology state, to speak of the state between the two
\* halves of next_assignment().
Sound(t) ==
    /\ Cardinality(ActiveOrDraining(t)) <= t.active_count
    /\ \A d \in Arrows :
          Cardinality(Upstream(d) \cap ActiveOrDraining(t)) <= t.upstream_count[d]

SequentialCount(t) == \A a \in Arrows \ ParallelArrows : t.thread_count[a] <= 1

IInv ==
    /\ TypeOK
    /\ ThreadCountExact
    /\ SequentialCount(ts)
    /\ Sound(ts)

-----------------------------------------------------------------------------

\* Every set of arrows is finite, and so has a cardinality.
LEMMA ArrowSetsFinite ==
    ASSUME NEW S \in SUBSET Arrows
    PROVE  IsFiniteSet(S) /\ Cardinality(S) \in Nat
<1>1. IsFiniteSet(Arrows)
  BY FS_Interval, TopologyAssumption DEF Arrows
<1>2. IsFiniteSet(S)
  BY <1>1, FS_Subset
<1> QED
  BY <1>2, FS_CardinalityType

\* Replacing the fields that count activity keeps the type.
LEMMA CountersType ==
    ASSUME NEW t \in TopologyState, NEW ns \in [Arrows -> ArrowStatus],
           NEW n \in Int, NEW nu \in [Arrows -> Int]
    PROVE  [t EXCEPT !.status = ns, !.active_count = n, !.upstream_count = nu]
              \in TopologyState
BY DEF TopologyState

\* deactivate() takes one arrow out of the active set and out of the counters.
LEMMA DeactivateSound ==
    ASSUME NEW t \in TopologyState, NEW a \in ActiveOrDraining(t), Sound(t),
           NEW st \in {"Inactive", "Finalized"}
    PROVE  /\ deactivate(t, a, st) \in TopologyState
           /\ Sound(deactivate(t, a, st))
           /\ ActiveOrDraining(deactivate(t, a, st)) = ActiveOrDraining(t) \ {a}
           /\ deactivate(t, a, st).thread_count = t.thread_count
           /\ deactivate(t, a, st).status = [t.status EXCEPT ![a] = st]
<1> DEFINE u == deactivate(t, a, st)
<1>0. a \in Arrows
  BY DEF ActiveOrDraining
<1>1. u \in TopologyState
  <2> DEFINE ns == [t.status EXCEPT ![a] = st]
             n  == t.active_count - 1
             nu == [d \in Arrows |-> IF d \in Listeners[a] THEN t.upstream_count[d] - 1
                                                        ELSE t.upstream_count[d]]
  <2>1. ns \in [Arrows -> ArrowStatus]
    BY <1>0 DEF TopologyState, ArrowStatus
  <2>2. n \in Int /\ nu \in [Arrows -> Int]
    BY DEF TopologyState
  <2>3. u = [t EXCEPT !.status = ns, !.active_count = n, !.upstream_count = nu]
    BY DEF deactivate, TopologyState
  <2> HIDE DEF ns, n, nu, u
  <2> QED
    BY <2>1, <2>2, <2>3, CountersType
<1>2. /\ u.status = [t.status EXCEPT ![a] = st]
      /\ u.thread_count = t.thread_count
      /\ u.active_count = t.active_count - 1
      /\ \A d \in Arrows : u.upstream_count[d] =
            IF a \in Upstream(d) THEN t.upstream_count[d] - 1 ELSE t.upstream_count[d]
  BY <1>0 DEF deactivate, TopologyState, Upstream
<1>3. ActiveOrDraining(u) = ActiveOrDraining(t) \ {a}
  BY <1>0, <1>2 DEF ActiveOrDraining, TopologyState
<1>4. Cardinality(ActiveOrDraining(u)) = Cardinality(ActiveOrDraining(t)) - 1
  <2>1. ActiveOrDraining(t) \in SUBSET Arrows
    BY DEF ActiveOrDraining
  <2> QED
    BY <1>3, <2>1, ArrowSetsFinite, FS_RemoveElement
<1>5. ASSUME NEW d \in Arrows
      PROVE  Cardinality(Upstream(d) \cap ActiveOrDraining(u)) <= u.upstream_count[d]
  <2> DEFINE T == Upstream(d) \cap ActiveOrDraining(t)
  <2>1. T \in SUBSET Arrows
    BY DEF ActiveOrDraining
  <2>2. Upstream(d) \cap ActiveOrDraining(u) = T \ {a}
    BY <1>3
  <2>3. Cardinality(T \ {a}) = IF a \in Upstream(d) THEN Cardinality(T) - 1 ELSE Cardinality(T)
    BY <2>1, ArrowSetsFinite, FS_RemoveElement
  <2>4. Cardinality(T) <= t.upstream_count[d]
    BY DEF Sound
  <2>5. Cardinality(T) \in Nat /\ t.upstream_count[d] \in Int
    BY <2>1, ArrowSetsFinite DEF TopologyState
  <2> HIDE DEF T
  <2> QED
    BY <1>2, <2>2, <2>3, <2>4, <2>5
<1>6. Cardinality(ActiveOrDraining(u)) <= u.active_count
  <2>1. Cardinality(ActiveOrDraining(t)) \in Nat
    BY ArrowSetsFinite DEF ActiveOrDraining
  <2>2. t.active_count \in Int /\ Cardinality(ActiveOrDraining(t)) <= t.active_count
    BY DEF TopologyState, Sound
  <2> QED
    BY <1>2, <1>4, <2>1, <2>2
<1> QED
  BY <1>1, <1>2, <1>3, <1>5, <1>6 DEF Sound

\* deactivate_all() takes a set of active arrows out of the counters at once.
LEMMA DeactivateAllSound ==
    ASSUME NEW t \in TopologyState, NEW S \in SUBSET ActiveOrDraining(t), Sound(t)
    PROVE  /\ deactivate_all(t, S) \in TopologyState
           /\ Sound(deactivate_all(t, S))
           /\ deactivate_all(t, S).thread_count = t.thread_count
           /\ \A a \in Arrows : deactivate_all(t, S).status[a] =
                 IF a \in S THEN "Inactive" ELSE t.status[a]
<1> DEFINE u  == deactivate_all(t, S)
           AD == ActiveOrDraining(t)
<1>0. S \in SUBSET Arrows /\ AD \in SUBSET Arrows
  BY DEF ActiveOrDraining
<1>a. /\ Cardinality(S) \in Nat
      /\ \A d \in Arrows : Cardinality(Upstream(d) \cap S) \in Nat
  BY <1>0, ArrowSetsFinite
<1>1. u \in TopologyState
  <2> DEFINE ns == [a \in Arrows |-> IF a \in S THEN "Inactive" ELSE t.status[a]]
             n  == t.active_count - Cardinality(S)
             nu == [d \in Arrows |-> t.upstream_count[d] - Cardinality(Upstream(d) \cap S)]
  <2>1. ns \in [Arrows -> ArrowStatus]
    BY DEF TopologyState, ArrowStatus
  <2>2. n \in Int /\ nu \in [Arrows -> Int]
    BY <1>a DEF TopologyState
  <2>3. u = [t EXCEPT !.status = ns, !.active_count = n, !.upstream_count = nu]
    BY DEF deactivate_all, TopologyState
  <2> HIDE DEF ns, n, nu, u
  <2> QED
    BY <2>1, <2>2, <2>3, CountersType
<1>2. /\ \A a \in Arrows : u.status[a] = IF a \in S THEN "Inactive" ELSE t.status[a]
      /\ u.thread_count = t.thread_count
      /\ u.active_count = t.active_count - Cardinality(S)
      /\ \A d \in Arrows : u.upstream_count[d] =
            t.upstream_count[d] - Cardinality(Upstream(d) \cap S)
  BY DEF deactivate_all, TopologyState
<1>3. ActiveOrDraining(u) = AD \ S
  BY <1>2 DEF ActiveOrDraining
<1>4. ASSUME NEW T \in SUBSET Arrows
      PROVE  Cardinality(T \cap (AD \ S)) = Cardinality(T \cap AD) - Cardinality(T \cap S)
  <2>1. IsFiniteSet(T \cap AD)
    BY <1>0, ArrowSetsFinite
  <2>2. T \cap (AD \ S) = (T \cap AD) \ S /\ (T \cap AD) \cap S = T \cap S
    OBVIOUS
  <2>3. Cardinality((T \cap AD) \ S) = Cardinality(T \cap AD) - Cardinality((T \cap AD) \cap S)
    BY <2>1, FS_Difference
  <2> HIDE DEF AD
  <2> QED
    BY <2>2, <2>3
<1>5. Cardinality(ActiveOrDraining(u)) <= u.active_count
  <2>1. /\ Arrows \cap (AD \ S) = ActiveOrDraining(u)
        /\ Arrows \cap AD = AD
        /\ Arrows \cap S = S
    BY <1>0, <1>3
  <2>2. Cardinality(ActiveOrDraining(u)) = Cardinality(AD) - Cardinality(S)
    BY <1>4, <2>1
  <2>3. Cardinality(AD) \in Nat /\ Cardinality(AD) <= t.active_count /\ t.active_count \in Int
    BY <1>0, ArrowSetsFinite DEF Sound, TopologyState
  <2> HIDE DEF u, AD
  <2> QED
    BY <1>a, <1>2, <2>2, <2>3
<1>6. ASSUME NEW d \in Arrows
      PROVE  Cardinality(Upstream(d) \cap ActiveOrDraining(u)) <= u.upstream_count[d]
  <2>1. Upstream(d) \in SUBSET Arrows
    BY DEF Upstream
  <2>2. Cardinality(Upstream(d) \cap ActiveOrDraining(u)) =
           Cardinality(Upstream(d) \cap AD) - Cardinality(Upstream(d) \cap S)
    BY <1>3, <1>4, <2>1
  <2>3. /\ Cardinality(Upstream(d) \cap AD) \in Nat
        /\ Cardinality(Upstream(d) \cap AD) <= t.upstream_count[d]
        /\ t.upstream_count[d] \in Int
    BY <1>0, ArrowSetsFinite DEF Sound, TopologyState
  <2> HIDE DEF u, AD
  <2> QED
    BY <1>a, <1>2, <2>2, <2>3
<1> QED
  BY <1>1, <1>2, <1>5, <1>6 DEF Sound

\* Counters above zero are needed for anything to be active: a zero counter
\* says that the set it stands for is empty.
LEMMA ZeroCounters ==
    ASSUME NEW t \in TopologyState, Sound(t)
    PROVE  /\ t.active_count = 0 => ActiveOrDraining(t) = {}
           /\ \A d \in Arrows :
                 t.upstream_count[d] = 0 => Upstream(d) \cap ActiveOrDraining(t) = {}
<1>1. ASSUME NEW T \in SUBSET Arrows, Cardinality(T) <= 0
      PROVE  T = {}
  <2>1. Cardinality(T) = 0
    BY <1>1, ArrowSetsFinite
  <2> QED
    BY <2>1, ArrowSetsFinite, FS_EmptySet
<1>2. ActiveOrDraining(t) \in SUBSET Arrows
  BY DEF ActiveOrDraining
<1>3. t.active_count = 0 => ActiveOrDraining(t) = {}
  BY <1>1, <1>2 DEF Sound
<1>4. ASSUME NEW d \in Arrows, t.upstream_count[d] = 0
      PROVE  Upstream(d) \cap ActiveOrDraining(t) = {}
  <2>1. Upstream(d) \cap ActiveOrDraining(t) \in SUBSET Arrows
    BY <1>2
  <2> QED
    BY <1>1, <1>4, <2>1 DEF Sound
<1> QED
  BY <1>3, <1>4

\* What handing in arrow a changes between t and u, apart from the pause: one
\* thread is returned, and a, and no other arrow, may go out of service.
HandsIn(t, u, a) ==
    /\ u \in TopologyState
    /\ Sound(u)
    /\ u.thread_count = [t.thread_count EXCEPT ![a] = @ - 1]
    /\ \A b \in Arrows \ {a} : u.status[b] = t.status[b]
    /\ u.status[a] # t.status[a] =>
          /\ u.status[a] \in {"Draining", "Finalized"}
          /\ a \notin SourceArrows => Upstream(a) \cap ActiveOrDraining(u) = {}
          /\ u.status[a] = "Finalized" /\ a \notin SourceArrows => u.thread_count[a] = 0

\* checkin() hands in one arrow and pauses only a topology at rest.
LEMMA CheckinEffect ==
    ASSUME NEW t \in TopologyState, Sound(t), NEW a \in Arrows, NEW r, NEW p
    PROVE  /\ HandsIn(t, checkin(t, a, r, p), a)
           /\ t.topology # "Paused" /\ checkin(t, a, r, p).topology = "Paused"
                 => ActiveOrDraining(checkin(t, a, r, p)) = {}
<1> DEFINE ret == [t EXCEPT !.thread_count[a] = @ - 1]
           fin == [deactivate(ret, a, "Finalized") EXCEPT !.finalized = @ \cup {a}]
           dra == [ret EXCEPT !.status[a] = "Draining"]
           foundInactive == \/ FoundInactiveSource(ret, a, r)
                            \/ FoundInactiveStageOrSink(ret, a, p)
           nxt == IF foundInactive THEN fin
                  ELSE IF FoundDrainingStageOrSink(ret, a, p) THEN dra ELSE ret
<1>1. /\ ret \in TopologyState
      /\ ret.thread_count = [t.thread_count EXCEPT ![a] = @ - 1]
      /\ ret.status = t.status
      /\ ret.active_count = t.active_count
      /\ ret.upstream_count = t.upstream_count
      /\ ret.topology = t.topology
  BY DEF TopologyState
<1>2. ActiveOrDraining(ret) = ActiveOrDraining(t) /\ Sound(ret)
  BY <1>1 DEF ActiveOrDraining, Sound
<1>3. ASSUME foundInactive
      PROVE  HandsIn(t, nxt, a) /\ nxt.topology = t.topology
  <2>1. a \in ActiveOrDraining(ret)
    BY <1>3 DEF ActiveOrDraining, FoundInactiveSource, FoundInactiveStageOrSink
  <2> DEFINE d == deactivate(ret, a, "Finalized")
  <2>2. /\ d \in TopologyState
        /\ Sound(d)
        /\ ActiveOrDraining(d) = ActiveOrDraining(ret) \ {a}
        /\ d.thread_count = ret.thread_count
        /\ d.status = [ret.status EXCEPT ![a] = "Finalized"]
    BY <1>1, <1>2, <2>1, DeactivateSound
  <2>3. a \notin SourceArrows =>
           ret.upstream_count[a] = 0 /\ ret.thread_count[a] = 0
    BY <1>3 DEF FoundInactiveSource, FoundInactiveStageOrSink, Dry
  <2>4. /\ fin \in TopologyState
        /\ fin.thread_count = d.thread_count
        /\ fin.status = d.status
        /\ fin.active_count = d.active_count
        /\ fin.upstream_count = d.upstream_count
        /\ fin.topology = d.topology
    <3> DEFINE f == d.finalized \cup {a}
    <3>1. f \in SUBSET Arrows
      BY <2>2 DEF TopologyState
    <3> HIDE DEF d, f
    <3>2. fin = [d EXCEPT !.finalized = f]
      BY DEF f, d
    <3> HIDE DEF fin
    <3> QED
      BY <2>2, <3>1, <3>2 DEF TopologyState
  <2>5. ActiveOrDraining(fin) = ActiveOrDraining(d) /\ Sound(fin)
    BY <2>2, <2>4 DEF ActiveOrDraining, Sound
  <2>6. a \notin SourceArrows => Upstream(a) \cap ActiveOrDraining(fin) = {}
    BY <1>1, <1>2, <2>2, <2>3, <2>5, ZeroCounters
  <2>7. /\ \A b \in Arrows \ {a} : fin.status[b] = t.status[b]
        /\ fin.status[a] = "Finalized"
    BY <1>1, <2>2, <2>4 DEF TopologyState
  <2>8. fin.topology = t.topology
    BY <1>1, <2>4 DEF deactivate, TopologyState
  <2> HIDE DEF fin, d, ret
  <2>9. HandsIn(t, fin, a)
    BY <1>1, <2>2, <2>3, <2>4, <2>5, <2>6, <2>7 DEF HandsIn
  <2> HIDE DEF foundInactive
  <2> QED
    BY <1>3, <2>8, <2>9
<1>4. ASSUME ~foundInactive, FoundDrainingStageOrSink(ret, a, p)
      PROVE  HandsIn(t, nxt, a) /\ nxt.topology = t.topology
  <2>1. /\ a \notin SourceArrows
        /\ ret.upstream_count[a] = 0
        /\ ret.status[a] = "Active"
    BY <1>4 DEF FoundDrainingStageOrSink, Dry
  <2>2. /\ dra \in TopologyState
        /\ dra.status = [ret.status EXCEPT ![a] = "Draining"]
        /\ dra.thread_count = ret.thread_count
        /\ dra.active_count = ret.active_count
        /\ dra.upstream_count = ret.upstream_count
        /\ dra.topology = ret.topology
    <3> HIDE DEF ret
    <3> QED
      BY <1>1 DEF TopologyState, ArrowStatus
  <2> HIDE DEF dra, ret
  <2>3. ActiveOrDraining(dra) = ActiveOrDraining(ret)
    BY <1>1, <2>1, <2>2 DEF ActiveOrDraining, TopologyState
  <2>4. Sound(dra)
    BY <1>2, <2>2, <2>3 DEF Sound
  <2>5. Upstream(a) \cap ActiveOrDraining(dra) = {}
    BY <1>1, <1>2, <2>1, <2>3, ZeroCounters
  <2>6. /\ \A b \in Arrows \ {a} : dra.status[b] = t.status[b]
        /\ dra.status[a] = "Draining"
    BY <1>1, <2>2 DEF TopologyState
  <2>7. HandsIn(t, dra, a)
    BY <1>1, <2>2, <2>4, <2>5, <2>6 DEF HandsIn
  <2> HIDE DEF foundInactive
  <2> QED
    BY <1>1, <1>4, <2>2, <2>7
<1>5. ASSUME ~foundInactive, ~FoundDrainingStageOrSink(ret, a, p)
      PROVE  HandsIn(t, nxt, a) /\ nxt.topology = t.topology
  <2> HIDE DEF ret, foundInactive
  <2>1. HandsIn(t, ret, a)
    BY <1>1, <1>2 DEF HandsIn
  <2> QED
    BY <1>1, <1>5, <2>1
<1>6. HandsIn(t, nxt, a) /\ nxt.topology = t.topology
  <2> HIDE DEF fin, dra, ret, foundInactive
  <2> QED
    BY <1>3, <1>4, <1>5
<1>7. CASE ~NoneActive(nxt)
  <2>1. checkin(t, a, r, p) = nxt
    BY <1>7 DEF checkin
  <2> HIDE DEF nxt
  <2> QED
    BY <1>6, <2>1
<1>8. CASE NoneActive(nxt)
  <2> DEFINE u == achieve_topology_pause(nxt)
  <2>1. checkin(t, a, r, p) = u
    BY <1>8 DEF checkin
  <2> HIDE DEF nxt
  <2>2. nxt \in TopologyState /\ Sound(nxt)
    BY <1>6 DEF HandsIn
  <2>3. /\ u \in TopologyState
        /\ u.status = nxt.status
        /\ u.thread_count = nxt.thread_count
        /\ u.active_count = nxt.active_count
        /\ u.upstream_count = nxt.upstream_count
    BY <2>2 DEF achieve_topology_pause, TopologyState, TopologyStatus
  <2> HIDE DEF u
  <2>4. ActiveOrDraining(u) = ActiveOrDraining(nxt) /\ Sound(u)
    BY <2>2, <2>3 DEF ActiveOrDraining, Sound
  <2>5. ActiveOrDraining(u) = {}
    BY <1>8, <2>2, <2>4, ZeroCounters DEF NoneActive
  <2>6. HandsIn(t, u, a)
    BY <1>6, <2>3, <2>4 DEF HandsIn
  <2> QED
    BY <2>1, <2>5, <2>6
<1> QED
  BY <1>7, <1>8

-----------------------------------------------------------------------------
(* The two halves of next_assignment(), and the other operations.          *)

\* After w has handed in, the counts are those of everybody else.
LEMMA HandedInEffect ==
    ASSUME IInv, NEW w \in Workers, NEW r, NEW p
    PROVE  /\ HandedIn(w, r, p) \in TopologyState
           /\ Sound(HandedIn(w, r, p))
           /\ SequentialCount(HandedIn(w, r, p))
           /\ \A b \in Arrows :
                 HandedIn(w, r, p).thread_count[b] = Cardinality(Holders(b) \ {w})
           /\ assigned[w] = None => HandedIn(w, r, p) = ts
           /\ assigned[w] # None => HandsIn(ts, HandedIn(w, r, p), assigned[w])
           /\ ts.topology # "Paused" /\ HandedIn(w, r, p).topology = "Paused"
                 => ActiveOrDraining(HandedIn(w, r, p)) = {}
<1> DEFINE t == HandedIn(w, r, p)
           a == assigned[w]
<1>1. ts \in TopologyState /\ Sound(ts) /\ a \in Arrows \cup {None}
  BY DEF IInv, TypeOK
<1>2. \A b \in Arrows : /\ IsFiniteSet(Holders(b))
                        /\ Cardinality(Holders(b)) \in Nat
                        /\ ts.thread_count[b] = Cardinality(Holders(b))
  <2>1. \A b \in Arrows : IsFiniteSet(Holders(b))
    BY WorkersAssumption, FS_Subset DEF Holders
  <2> QED
    BY <2>1, FS_CardinalityType DEF IInv, ThreadCountExact
<1>3. CASE a = None
  <2>1. t = ts
    BY <1>3 DEF HandedIn
  <2>2. \A b \in Arrows : Holders(b) \ {w} = Holders(b)
    BY <1>3, WorkersAssumption DEF Holders
  <2> QED
    BY <1>1, <1>2, <1>3, <2>1, <2>2 DEF IInv
<1>4. CASE a # None
  <2>1. a \in Arrows
    BY <1>1, <1>4
  <2>2. t = checkin(ts, a, r, p)
    BY <1>4 DEF HandedIn
  <2>3. /\ HandsIn(ts, t, a)
        /\ ts.topology # "Paused" /\ t.topology = "Paused" => ActiveOrDraining(t) = {}
    BY <1>1, <2>1, <2>2, CheckinEffect
  <2>4. /\ t \in TopologyState
        /\ Sound(t)
        /\ t.thread_count = [ts.thread_count EXCEPT ![a] = @ - 1]
    BY <2>3 DEF HandsIn
  <2>5. ASSUME NEW b \in Arrows
        PROVE  t.thread_count[b] = Cardinality(Holders(b) \ {w})
    <3>1. Cardinality(Holders(b) \ {w}) =
             IF w \in Holders(b) THEN Cardinality(Holders(b)) - 1 ELSE Cardinality(Holders(b))
      BY <1>2, FS_RemoveElement
    <3>2. w \in Holders(b) <=> b = a
      BY DEF Holders
    <3> QED
      BY <1>1, <1>2, <2>4, <3>1, <3>2 DEF TopologyState
  <2>6. SequentialCount(t)
    <3> HIDE DEF t, a
    <3> QED
      BY <1>1, <2>1, <2>4 DEF IInv, SequentialCount, TopologyState
  <2> QED
    BY <1>4, <2>3, <2>4, <2>5, <2>6
<1> QED
  BY <1>3, <1>4

\* The scan returns an arrow that is Active and has room, or nothing.
LEMMA ChoiceSchedulable ==
    ASSUME NEW t, checkout_choice(t) # None
    PROVE  checkout_choice(t) \in Arrows /\ Schedulable(t, checkout_choice(t))
BY DEF checkout_choice, FirstSchedulable

\* Arrow a is lent and the next scan starts at n.
Lend(t, a, n) == [t EXCEPT !.thread_count[a] = @ + 1, !.next_arrow = n]

\* Lending an arrow counts one thread and changes no status.
LEMMA LendEffect ==
    ASSUME NEW t \in TopologyState, NEW a \in Arrows, NEW n \in Arrows,
           NEW u, u = Lend(t, a, n)
    PROVE  /\ u \in TopologyState
           /\ u.thread_count = [t.thread_count EXCEPT ![a] = @ + 1]
           /\ u.status = t.status
           /\ u.active_count = t.active_count
           /\ u.upstream_count = t.upstream_count
           /\ u.topology = t.topology
<1> DEFINE c == [t.thread_count EXCEPT ![a] = @ + 1]
<1>1. c \in [Arrows -> Int]
  BY DEF TopologyState
<1>2. u = [t EXCEPT !.thread_count = c, !.next_arrow = n]
  BY DEF Lend, TopologyState
<1> HIDE DEF c
<1>3. /\ u \in TopologyState
      /\ u.thread_count = c
      /\ u.status = t.status
      /\ u.active_count = t.active_count
      /\ u.upstream_count = t.upstream_count
      /\ u.topology = t.topology
  BY <1>1, <1>2 DEF TopologyState
<1> QED
  BY <1>3 DEF c

\* run_topology() activates what it reaches, and counts it at least once.
LEMMA RunEffect ==
    ASSUME NEW t \in TopologyState, Sound(t)
    PROVE  /\ run_topology(t) \in TopologyState
           /\ Sound(run_topology(t))
           /\ run_topology(t).thread_count = t.thread_count
           /\ \A a \in Arrows : run_topology(t).status[a] \in {t.status[a], "Active"}
           /\ run_topology(t).topology = "Paused" => t.topology = "Paused"
<1> DEFINE u  == run_topology(t)
           AD == ActiveOrDraining(t)
<1>1. CASE t.topology \in {"Running", "Finalized"}
  BY <1>1 DEF run_topology
<1>2. CASE t.topology \notin {"Running", "Finalized"}
  <2> DEFINE ns == [a \in Arrows |-> IF a \in Reached THEN "Active" ELSE t.status[a]]
             n  == t.active_count + TotalVisits
             nu == [d \in Arrows |-> t.upstream_count[d] + UpstreamVisits[d]]
             v  == [t EXCEPT !.status = ns, !.active_count = n, !.upstream_count = nu]
  <2>1. ns \in [Arrows -> ArrowStatus]
    BY DEF TopologyState, ArrowStatus
  <2>2. n \in Int /\ nu \in [Arrows -> Int]
    BY VisitsAssumption DEF TopologyState
  <2>3. u = [v EXCEPT !.topology = "Running"]
    BY <1>2 DEF run_topology, TopologyState
  <2> HIDE DEF ns, n, nu, u
  <2>4. v \in TopologyState
    BY <2>1, <2>2, CountersType
  <2>5. /\ v.status = ns
        /\ v.active_count = n
        /\ v.upstream_count = nu
        /\ v.thread_count = t.thread_count
    BY DEF TopologyState
  <2> HIDE DEF v
  <2>6. /\ u \in TopologyState
        /\ u.status = ns
        /\ u.active_count = n
        /\ u.upstream_count = nu
        /\ u.thread_count = t.thread_count
        /\ u.topology = "Running"
    BY <2>3, <2>4, <2>5 DEF TopologyState, TopologyStatus
  <2>7. ActiveOrDraining(u) = AD \cup Reached
    BY <2>6 DEF ActiveOrDraining, ns, Reached
  <2>8. ASSUME NEW T \in SUBSET Arrows
        PROVE  /\ Cardinality(T \cap (AD \cup Reached))
                     <= Cardinality(T \cap AD) + Cardinality(T \cap Reached)
               /\ Cardinality(T \cap AD) \in Nat
               /\ Cardinality(T \cap Reached) \in Nat
    <3> DEFINE X == T \cap AD
               Y == T \cap Reached
    <3>1. /\ IsFiniteSet(X) /\ Cardinality(X) \in Nat
          /\ IsFiniteSet(Y) /\ Cardinality(Y) \in Nat
          /\ Cardinality(X \cap Y) \in Nat
      BY ArrowSetsFinite
    <3>2. T \cap (AD \cup Reached) = X \cup Y
      OBVIOUS
    <3> HIDE DEF X, Y
    <3>3. Cardinality(X \cup Y) = Cardinality(X) + Cardinality(Y) - Cardinality(X \cap Y)
      BY <3>1, FS_Union
    <3>4. Cardinality(X \cup Y) <= Cardinality(X) + Cardinality(Y)
      BY <3>1, <3>3
    <3> QED
      BY <3>1, <3>2, <3>4 DEF X, Y
  <2>9. Cardinality(ActiveOrDraining(u)) <= u.active_count
    <3>1. /\ Arrows \cap (AD \cup Reached) = ActiveOrDraining(u)
          /\ Arrows \cap AD = AD
          /\ Arrows \cap Reached = Reached
      BY <2>7 DEF ActiveOrDraining, Reached
    <3>2. /\ Cardinality(ActiveOrDraining(u)) <= Cardinality(AD) + Cardinality(Reached)
          /\ Cardinality(AD) \in Nat /\ Cardinality(Reached) \in Nat
      BY <2>8, <3>1
    <3>3. Cardinality(AD) <= t.active_count /\ t.active_count \in Int
      BY DEF Sound, TopologyState
    <3>4. Cardinality(ActiveOrDraining(u)) \in Nat
      BY ArrowSetsFinite DEF ActiveOrDraining
    <3> HIDE DEF AD
    <3> QED
      BY <2>6, <3>2, <3>3, <3>4, VisitsAssumption DEF n
  <2>10. ASSUME NEW d \in Arrows
         PROVE  Cardinality(Upstream(d) \cap ActiveOrDraining(u)) <= u.upstream_count[d]
    <3>1. Upstream(d) \in SUBSET Arrows
      BY DEF Upstream
    <3>2. /\ Cardinality(Upstream(d) \cap ActiveOrDraining(u))
               <= Cardinality(Upstream(d) \cap AD) + Cardinality(Upstream(d) \cap Reached)
          /\ Cardinality(Upstream(d) \cap AD) \in Nat
          /\ Cardinality(Upstream(d) \cap Reached) \in Nat
      BY <2>7, <2>8, <3>1
    <3>3. Cardinality(Upstream(d) \cap AD) <= t.upstream_count[d] /\ t.upstream_count[d] \in Int
      BY DEF Sound, TopologyState
    <3>4. Cardinality(Upstream(d) \cap ActiveOrDraining(u)) \in Nat
      BY <3>1, ArrowSetsFinite
    <3> HIDE DEF AD
    <3> QED
      BY <2>6, <3>2, <3>3, <3>4, VisitsAssumption DEF nu
  <2>11. Sound(u)
    BY <2>9, <2>10 DEF Sound
  <2> QED
    BY <2>6, <2>11 DEF ns, u
<1> QED
  BY <1>1, <1>2

\* next_arrow_index wraps around and stays an index.
LEMMA SuccessorType ==
    ASSUME NEW a \in Arrows
    PROVE  Successor(a) \in Arrows
BY TopologyAssumption DEF Successor, Arrows

-----------------------------------------------------------------------------
(* The inductive invariant.                                                *)

\* No arrow is active or assigned in the state the constructor builds.
LEMMA InitIInv == Init => IInv
<1> SUFFICES ASSUME Init PROVE IInv
  OBVIOUS
<1>1. 0 \in Arrows
  BY TopologyAssumption DEF Arrows
<1>2. ts \in TopologyState
  BY <1>1 DEF Init, InitialTopologyState, TopologyState, ArrowStatus, TopologyStatus
<1>3. TypeOK
  BY <1>2 DEF Init, TypeOK
<1>4. ActiveOrDraining(ts) = {}
  BY DEF Init, InitialTopologyState, ActiveOrDraining
<1>5. \A a \in Arrows : ts.thread_count[a] = 0 /\ ts.upstream_count[a] = 0
  BY DEF Init, InitialTopologyState
<1>6. ts.active_count = 0
  BY DEF Init, InitialTopologyState
<1>7. Cardinality({}) = 0
  BY FS_EmptySet
<1>8. \A a \in Arrows : Holders(a) = {}
  BY WorkersAssumption DEF Init, Holders
<1>9. ThreadCountExact
  BY <1>5, <1>7, <1>8 DEF ThreadCountExact
<1>10. SequentialCount(ts)
  BY <1>5 DEF SequentialCount
<1>11. Sound(ts)
  BY <1>4, <1>5, <1>6, <1>7 DEF Sound
<1> QED
  BY <1>3, <1>9, <1>10, <1>11 DEF IInv

\* A step that hands w's assignment in and gives it nothing keeps the invariant.
LEMMA ReturnStep ==
    ASSUME IInv, NEW w \in Workers, NEW r, NEW p,
           ts' = HandedIn(w, r, p),
           assigned' = [assigned EXCEPT ![w] = None],
           lost' = lost
    PROVE  IInv'
<1>1. /\ ts' \in TopologyState
      /\ Sound(ts')
      /\ SequentialCount(ts')
      /\ \A b \in Arrows : ts'.thread_count[b] = Cardinality(Holders(b) \ {w})
  BY HandedInEffect
<1>2. TypeOK'
  BY <1>1 DEF IInv, TypeOK
<1>3. \A b \in Arrows : Holders(b)' = Holders(b) \ {w}
  BY WorkersAssumption DEF IInv, TypeOK, Holders
<1>4. ThreadCountExact'
  BY <1>1, <1>3 DEF ThreadCountExact
<1> QED
  BY <1>1, <1>2, <1>4 DEF IInv, Sound, SequentialCount, ActiveOrDraining

\* A step that, from a state t where w counts for nothing, lends w an arrow with
\* room keeps the invariant.
LEMMA LendStep ==
    ASSUME IInv, NEW w \in Workers,
           NEW t \in TopologyState, Sound(t), SequentialCount(t),
           \A b \in Arrows : t.thread_count[b] = Cardinality(Holders(b) \ {w}),
           NEW a \in Arrows, HasRoom(t, a), NEW n \in Arrows,
           ts' = Lend(t, a, n),
           assigned' = [assigned EXCEPT ![w] = a],
           lost' = lost
    PROVE  IInv'
<1>1. /\ ts' \in TopologyState
      /\ ts'.thread_count = [t.thread_count EXCEPT ![a] = @ + 1]
      /\ ts'.status = t.status
      /\ ts'.active_count = t.active_count
      /\ ts'.upstream_count = t.upstream_count
  BY LendEffect
<1>2. TypeOK'
  BY <1>1 DEF IInv, TypeOK
<1>3. Sound(ts')
  BY <1>1 DEF Sound, ActiveOrDraining
<1>4. SequentialCount(ts')
  BY <1>1 DEF SequentialCount, HasRoom, TopologyState
<1>5. ASSUME NEW b \in Arrows
      PROVE  ts'.thread_count[b] = Cardinality(Holders(b)')
  <2> DEFINE H == Holders(b) \ {w}
  <2>1. IsFiniteSet(H) /\ Cardinality(H) \in Nat
    BY WorkersAssumption, FS_Subset, FS_CardinalityType DEF Holders
  <2>2. Holders(b)' = IF b = a THEN H \cup {w} ELSE H
    BY DEF IInv, TypeOK, Holders
  <2>3. Cardinality(H \cup {w}) = Cardinality(H) + 1
    BY <2>1, FS_AddElement
  <2>4. t.thread_count[b] = Cardinality(H)
    OBVIOUS
  <2> HIDE DEF H
  <2> QED
    BY <1>1, <2>1, <2>2, <2>3, <2>4 DEF TopologyState
<1> QED
  BY <1>2, <1>3, <1>4, <1>5 DEF IInv, ThreadCountExact, Sound, SequentialCount, ActiveOrDraining

\* A step of the controller, which touches nobody's assignment.
LEMMA ControllerKeeps ==
    ASSUME IInv, ts' \in TopologyState, Sound(ts'),
           ts'.thread_count = ts.thread_count,
           assigned' = assigned, lost' = lost
    PROVE  IInv'
<1>1. TypeOK'
  BY DEF IInv, TypeOK
<1>2. \A b \in Arrows : Holders(b)' = Holders(b)
  BY DEF Holders
<1>3. ThreadCountExact'
  BY <1>2 DEF IInv, ThreadCountExact
<1> QED
  BY <1>1, <1>3 DEF IInv, Sound, SequentialCount, ActiveOrDraining

\* Each of the scheduler's operations keeps the invariant.
LEMMA NextIInv == IInv /\ [Next]_vars => IInv'
<1> SUFFICES ASSUME IInv, [Next]_vars PROVE IInv'
  OBVIOUS
<1>0. ts \in TopologyState /\ Sound(ts)
  BY DEF IInv, TypeOK
<1>1. ASSUME NEW w \in Workers, NEW r \in Result, NEW p \in {0, 1}, NextAssignment(w, r, p)
      PROVE  IInv'
  <2> DEFINE t == HandedIn(w, r, p)
             a == checkout_choice(t)
  <2>1. /\ ts' = checkout_unprotected(t, a)
        /\ assigned' = [assigned EXCEPT ![w] = a]
        /\ lost' = lost
    BY <1>1 DEF NextAssignment
  <2>2. CASE a = None
    <3>1. ts' = t
      BY <2>1, <2>2 DEF checkout_unprotected
    <3> QED
      BY <2>1, <2>2, <3>1, ReturnStep
  <2>3. CASE a # None
    <3>1. a \in Arrows /\ HasRoom(t, a) /\ Successor(a) \in Arrows
      BY <2>3, ChoiceSchedulable, SuccessorType DEF Schedulable
    <3>2. /\ t \in TopologyState
          /\ Sound(t)
          /\ SequentialCount(t)
          /\ \A b \in Arrows : t.thread_count[b] = Cardinality(Holders(b) \ {w})
      BY HandedInEffect
    <3>3. ts' = Lend(t, a, Successor(a))
      BY <2>1, <2>3 DEF checkout_unprotected, Lend
    <3> HIDE DEF t, a
    <3> QED
      BY <2>1, <3>1, <3>2, <3>3, LendStep
  <2> QED
    BY <2>2, <2>3
<1>2. ASSUME NEW w \in Workers, NEW r \in Result, NEW p \in {0, 1}, LastAssignment(w, r, p)
      PROVE  IInv'
  BY <1>2, ReturnStep DEF LastAssignment
<1>3. ASSUME NEW w \in Workers, NEW a \in Arrows, Checkout(w, a)
      PROVE  IInv'
  <2>1. /\ assigned[w] = None
        /\ HasRoom(ts, a)
        /\ ts' = [ts EXCEPT !.thread_count[a] = @ + 1]
        /\ assigned' = [assigned EXCEPT ![w] = a]
        /\ lost' = lost
    BY <1>3 DEF Checkout, CanCheckout, checkout
  <2>2. \A b \in Arrows : Holders(b) \ {w} = Holders(b)
    BY <2>1, WorkersAssumption DEF Holders
  <2>3. \A b \in Arrows : ts.thread_count[b] = Cardinality(Holders(b) \ {w})
    BY <2>2 DEF IInv, ThreadCountExact
  <2>4. ts.next_arrow \in Arrows
    BY <1>0 DEF TopologyState
  <2>5. ts' = Lend(ts, a, ts.next_arrow)
    BY <1>0, <2>1 DEF TopologyState, Lend
  <2>6. SequentialCount(ts)
    BY DEF IInv
  <2> QED
    BY <1>0, <2>1, <2>3, <2>4, <2>5, <2>6, LendStep
<1>4. ASSUME NEW w \in Workers, Throw(w)
      PROVE  IInv'
  BY <1>4 DEF Throw, IInv, TypeOK, ThreadCountExact, Holders, SequentialCount, Sound, ActiveOrDraining
<1>5. CASE InitializeTopology
  <2>1. ts' = [ts EXCEPT !.topology = "Paused"]
    BY <1>5 DEF InitializeTopology, initialize_topology
  <2>2. ts' \in TopologyState /\ Sound(ts') /\ ts'.thread_count = ts.thread_count
    BY <1>0, <2>1 DEF TopologyState, TopologyStatus, Sound, ActiveOrDraining
  <2> QED
    BY <1>5, <2>2, ControllerKeeps DEF InitializeTopology
<1>6. CASE RunTopology
  <2>1. ts' \in TopologyState /\ Sound(ts') /\ ts'.thread_count = ts.thread_count
    BY <1>0, <1>6, RunEffect DEF RunTopology
  <2> QED
    BY <1>6, <2>1, ControllerKeeps DEF RunTopology
<1>7. CASE DrainTopology
  <2>1. CASE ts.topology = "Finalized"
    BY <1>0, <1>7, <2>1, ControllerKeeps DEF DrainTopology, drain_topology
  <2>2. CASE ts.topology # "Finalized"
    <3> DEFINE d == deactivate_all(ts, Pausable(ts, SourceArrows))
    <3>1. Pausable(ts, SourceArrows) \in SUBSET ActiveOrDraining(ts)
      BY TopologyAssumption DEF Pausable, ActiveOrDraining
    <3>2. d \in TopologyState /\ Sound(d) /\ d.thread_count = ts.thread_count
      BY <1>0, <3>1, DeactivateAllSound
    <3>3. ts' = [d EXCEPT !.topology = "Draining"]
      BY <1>7, <2>2 DEF DrainTopology, drain_topology
    <3> HIDE DEF d
    <3>4. ts' \in TopologyState /\ Sound(ts') /\ ts'.thread_count = ts.thread_count
      BY <3>2, <3>3 DEF TopologyState, TopologyStatus, Sound, ActiveOrDraining
    <3> QED
      BY <1>7, <3>4, ControllerKeeps DEF DrainTopology
  <2> QED
    BY <2>1, <2>2
<1>8. CASE RequestTopologyPause
  <2>1. CASE ts.topology # "Running"
    BY <1>0, <1>8, <2>1, ControllerKeeps DEF RequestTopologyPause, request_topology_pause
  <2>2. CASE ts.topology = "Running"
    <3> DEFINE d == deactivate_all(ts, Pausable(ts, Arrows))
    <3>1. Pausable(ts, Arrows) \in SUBSET ActiveOrDraining(ts)
      BY DEF Pausable, ActiveOrDraining
    <3>2. d \in TopologyState /\ Sound(d) /\ d.thread_count = ts.thread_count
      BY <1>0, <3>1, DeactivateAllSound
    <3>3. ts' = [d EXCEPT !.topology = "Pausing"]
      BY <1>8, <2>2 DEF RequestTopologyPause, request_topology_pause
    <3> HIDE DEF d
    <3>4. ts' \in TopologyState /\ Sound(ts') /\ ts'.thread_count = ts.thread_count
      BY <3>2, <3>3 DEF TopologyState, TopologyStatus, Sound, ActiveOrDraining
    <3> QED
      BY <1>8, <3>4, ControllerKeeps DEF RequestTopologyPause
  <2> QED
    BY <2>1, <2>2
<1>9. CASE AchieveTopologyPause
  <2>1. ts' = achieve_topology_pause(ts)
    BY <1>9 DEF AchieveTopologyPause
  <2>2. ts' \in TopologyState /\ Sound(ts') /\ ts'.thread_count = ts.thread_count
    BY <1>0, <2>1 DEF achieve_topology_pause, TopologyState, TopologyStatus, Sound, ActiveOrDraining
  <2> QED
    BY <1>9, <2>2, ControllerKeeps DEF AchieveTopologyPause
<1>10. CASE FinishTopology
  <2>1. ts' = [ts EXCEPT !.topology = "Finalized", !.finalized = Arrows]
    BY <1>10 DEF FinishTopology, finish_topology
  <2>2. ts' \in TopologyState /\ Sound(ts') /\ ts'.thread_count = ts.thread_count
    BY <1>0, <2>1 DEF TopologyState, TopologyStatus, Sound, ActiveOrDraining
  <2> QED
    BY <1>10, <2>2, ControllerKeeps DEF FinishTopology
<1>11. CASE UNCHANGED vars
  BY <1>11 DEF vars, IInv, TypeOK, ThreadCountExact, Holders, SequentialCount, Sound, ActiveOrDraining
<1> QED
  BY <1>1, <1>2, <1>3, <1>4, <1>5, <1>6, <1>7, <1>8, <1>9, <1>10, <1>11
     DEF Next, WorkerStep, ControllerStep

\* Whatever the callers of the scheduler do, its state keeps its type.
THEOREM TypeCorrect == Spec => []TypeOK
<1>1. IInv => TypeOK
  BY DEF IInv
<1> QED
  BY <1>1, InitIInv, NextIInv, PTL DEF Spec

\* thread_count is always the number of threads on the arrow.
THEOREM ThreadCountCorrect == Spec => []ThreadCountExact
<1>1. IInv => ThreadCountExact
  BY DEF IInv
<1> QED
  BY <1>1, InitIInv, NextIInv, PTL DEF Spec

\* The activity counters never understate what is still active or draining.
THEOREM CountersCorrect == Spec => []CountersSound
<1>1. IInv => CountersSound
  BY DEF IInv, Sound, CountersSound
<1> QED
  BY <1>1, InitIInv, NextIInv, PTL DEF Spec

\* No two threads ever execute the same sequential arrow, whatever the topology,
\* the number of workers and the order of calls.
THEOREM MutualExclusion == Spec => []SequentialExclusive
<1>1. IInv => SequentialExclusive
  <2> SUFFICES ASSUME IInv, NEW a \in Arrows \ ParallelArrows,
                      NEW v \in Holders(a), NEW w \in Holders(a), v # w
               PROVE  FALSE
    BY DEF SequentialExclusive
  <2>1. Cardinality(Holders(a)) <= 1
    BY DEF IInv, SequentialCount, ThreadCountExact
  <2>2. IsFiniteSet(Holders(a))
    BY WorkersAssumption, FS_Subset DEF Holders
  <2>3. Cardinality(Holders(a) \ {v}) = Cardinality(Holders(a)) - 1
    BY <2>2, FS_RemoveElement
  <2>4. Cardinality((Holders(a) \ {v}) \ {w}) = Cardinality(Holders(a)) - 2
    <3>1. IsFiniteSet(Holders(a) \ {v}) /\ w \in Holders(a) \ {v}
      BY <2>2, FS_RemoveElement
    <3>2. Cardinality((Holders(a) \ {v}) \ {w}) = Cardinality(Holders(a) \ {v}) - 1
      BY <3>1, FS_RemoveElement
    <3> QED
      BY <2>2, <2>3, <3>2, FS_CardinalityType
  <2>5. Cardinality((Holders(a) \ {v}) \ {w}) \in Nat
    BY <2>2, FS_RemoveElement, FS_CardinalityType
  <2>6. Cardinality(Holders(a)) \in Nat
    BY <2>2, FS_CardinalityType
  <2> QED
    BY <2>1, <2>4, <2>5, <2>6
<1> QED
  BY <1>1, InitIInv, NextIInv, PTL DEF Spec

-----------------------------------------------------------------------------
(* What a step may never do.                                               *)

\* A worker's call hands in, then perhaps lends: statuses and activity are those
\* of the state t in between, and a lent arrow is Active in it.
WorkerCall(w, t, b) ==
    /\ assigned' = [assigned EXCEPT ![w] = b]
    /\ ts' \in TopologyState
    /\ ts'.status = t.status
    /\ ts'.topology = t.topology
    /\ b \in Arrows \cup {None}
    /\ b # None => t.status[b] = "Active"

\* checkout_unprotected() only counts the thread and advances the round robin: no
\* arrow changes status, and the topology stays as active as it was.
LEMMA LendKeepsStatus ==
    ASSUME NEW t \in TopologyState, NEW a \in Arrows, NEW n \in Arrows,
           NEW u, u = Lend(t, a, n)
    PROVE  u \in TopologyState /\ u.status = t.status /\ u.topology = t.topology
<1> DEFINE c == [t.thread_count EXCEPT ![a] = @ + 1]
<1>1. c \in [Arrows -> Int]
  BY DEF TopologyState
<1>2. u = [t EXCEPT !.thread_count = c, !.next_arrow = n]
  BY DEF Lend, TopologyState
<1> HIDE DEF c
<1> QED
  BY <1>1, <1>2 DEF TopologyState

\* Lending an arrow that is Active is a worker's call.
LEMMA LendIsCall ==
    ASSUME NEW w, NEW t \in TopologyState, NEW a \in Arrows, t.status[a] = "Active",
           NEW n \in Arrows, ts' = Lend(t, a, n),
           assigned' = [assigned EXCEPT ![w] = a]
    PROVE  WorkerCall(w, t, a)
<1>1. ts' \in TopologyState /\ ts'.status = t.status /\ ts'.topology = t.topology
  BY LendKeepsStatus
<1> QED
  BY <1>1 DEF WorkerCall

\* next_assignment(): checkin_unprotected(), then checkout_unprotected(), is a
\* worker's call, whether an arrow is found or not.
LEMMA NextAssignmentIsCall ==
    ASSUME IInv, NEW w \in Workers, NEW r, NEW p, NextAssignment(w, r, p)
    PROVE  \E b : WorkerCall(w, HandedIn(w, r, p), b)
<1> DEFINE t == HandedIn(w, r, p)
           a == checkout_choice(t)
<1>1. /\ ts' = checkout_unprotected(t, a)
      /\ assigned' = [assigned EXCEPT ![w] = a]
  BY DEF NextAssignment
<1>2. t \in TopologyState
  BY HandedInEffect
<1>3. CASE a = None
  <2>1. ts' = t
    BY <1>1, <1>3 DEF checkout_unprotected
  <2> HIDE DEF t, a
  <2>2. WorkerCall(w, t, a)
    BY <1>1, <1>2, <1>3, <2>1 DEF WorkerCall
  <2> QED
    BY <2>2 DEF t
<1>4. CASE a # None
  <2>1. a \in Arrows /\ t.status[a] = "Active" /\ Successor(a) \in Arrows
    BY <1>4, ChoiceSchedulable, SuccessorType DEF Schedulable
  <2>2. ts' = Lend(t, a, Successor(a))
    BY <1>1, <1>4 DEF checkout_unprotected, Lend
  <2> HIDE DEF t, a
  <2>3. WorkerCall(w, t, a)
    BY <1>1, <1>2, <2>1, <2>2, LendIsCall
  <2> QED
    BY <2>3 DEF t
<1> QED
  BY <1>3, <1>4

\* last_assignment() only hands in: a worker's call that lends nothing.
LEMMA LastAssignmentIsCall ==
    ASSUME IInv, NEW w \in Workers, NEW r, NEW p, LastAssignment(w, r, p)
    PROVE  \E b : WorkerCall(w, HandedIn(w, r, p), b)
<1>1. ts' = HandedIn(w, r, p) /\ assigned' = [assigned EXCEPT ![w] = None]
  BY DEF LastAssignment
<1>2. HandedIn(w, r, p) \in TopologyState
  BY HandedInEffect
<1>3. WorkerCall(w, HandedIn(w, r, p), None)
  BY <1>1, <1>2 DEF WorkerCall
<1> QED
  BY <1>3

\* What handing in arrow a may do to a.
LEMMA HandsInAt ==
    ASSUME NEW t, NEW u, NEW a, HandsIn(t, u, a), u.status[a] # t.status[a]
    PROVE  /\ a \notin SourceArrows => Upstream(a) \cap ActiveOrDraining(u) = {}
           /\ u.status[a] = "Finalized" /\ a \notin SourceArrows => u.thread_count[a] = 0
BY DEF HandsIn

\* And what it leaves to the other arrows.
LEMMA HandsInElsewhere ==
    ASSUME NEW t, NEW u, NEW a, HandsIn(t, u, a), NEW b \in Arrows, b # a
    PROVE  u.status[b] = t.status[b]
BY DEF HandsIn

\* What a worker's call takes out of service, and what it pauses.
LEMMA CallEffect ==
    ASSUME IInv, NEW w \in Workers, NEW r, NEW p, NEW b,
           WorkerCall(w, HandedIn(w, r, p), b)
    PROVE  /\ \A a \in Arrows :
                 ts'.status[a] # ts.status[a] =>
                    /\ a \notin SourceArrows => Upstream(a) \cap ActiveOrDraining(ts') = {}
                    /\ ts'.status[a] = "Finalized" => Holders(a)' = {}
           /\ ts.topology # "Paused" /\ ts'.topology = "Paused"
                 => ActiveOrDraining(ts') = {}
<1> DEFINE t == HandedIn(w, r, p)
<1>1. /\ t \in TopologyState
      /\ \A c \in Arrows : t.thread_count[c] = Cardinality(Holders(c) \ {w})
      /\ assigned[w] = None => t = ts
      /\ assigned[w] # None => HandsIn(ts, t, assigned[w])
      /\ ts.topology # "Paused" /\ t.topology = "Paused" => ActiveOrDraining(t) = {}
  BY HandedInEffect
<1>2. ts'.status = t.status /\ ts'.topology = t.topology
  BY DEF WorkerCall
<1> HIDE DEF t
<1>3. ActiveOrDraining(ts') = ActiveOrDraining(t)
  BY <1>2 DEF ActiveOrDraining
<1>4. ASSUME NEW a \in Arrows, ts'.status[a] # ts.status[a]
      PROVE  /\ a \notin SourceArrows => Upstream(a) \cap ActiveOrDraining(ts') = {}
             /\ ts'.status[a] = "Finalized" => Holders(a)' = {}
  <2>1. assigned[w] # None
    BY <1>1, <1>2, <1>4
  <2>2. assigned[w] \in Arrows /\ HandsIn(ts, t, assigned[w])
    BY <1>1, <2>1 DEF IInv, TypeOK
  <2>3. t.status[a] # ts.status[a]
    BY <1>2, <1>4
  <2>4. a = assigned[w]
    BY <2>2, <2>3, HandsInElsewhere
  <2>5. HandsIn(ts, t, a)
    BY <2>2, <2>4
  <2>6. /\ a \notin SourceArrows => Upstream(a) \cap ActiveOrDraining(t) = {}
        /\ t.status[a] = "Finalized" /\ a \notin SourceArrows => t.thread_count[a] = 0
    BY <2>3, <2>5, HandsInAt
  <2>7. a \notin SourceArrows => Upstream(a) \cap ActiveOrDraining(ts') = {}
    BY <1>3, <2>6
  <2>8. ASSUME ts'.status[a] = "Finalized"
        PROVE  Holders(a)' = {}
    <3>1. t.thread_count[a] <= 0
      <4>1. CASE a \notin SourceArrows
        BY <1>2, <2>6, <2>8, <4>1
      <4>2. CASE a \in SourceArrows
        <5>1. a \in Arrows \ ParallelArrows
          BY <4>2, TopologyAssumption
        <5>2. ts.thread_count[a] <= 1 /\ ts.thread_count \in [Arrows -> Int]
          BY <5>1 DEF IInv, SequentialCount, TypeOK, TopologyState
        <5>3. t.thread_count[a] = ts.thread_count[a] - 1
          <6>1. t.thread_count = [ts.thread_count EXCEPT ![a] = @ - 1]
            BY <2>5 DEF HandsIn
          <6> QED
            BY <5>2, <6>1
        <5> QED
          BY <5>2, <5>3
      <4> QED
        BY <4>1, <4>2
    <3>2. IsFiniteSet(Holders(a) \ {w})
      BY WorkersAssumption, FS_Subset DEF Holders
    <3>3. Cardinality(Holders(a) \ {w}) \in Nat
      BY <3>2, FS_CardinalityType
    <3>4. Cardinality(Holders(a) \ {w}) = 0
      BY <1>1, <3>1, <3>3
    <3>5. Holders(a) \ {w} = {}
      BY <3>2, <3>4, FS_EmptySet
    <3>6. b # a
      BY <1>2, <2>8, WorkersAssumption DEF WorkerCall, t
    <3> QED
      BY <3>5, <3>6 DEF Holders, WorkerCall, IInv, TypeOK
  <2> QED
    BY <2>7, <2>8
<1> QED
  BY <1>1, <1>2, <1>3, <1>4

\* No other step takes an arrow out of service.
LEMMA OtherStepsKeepInService ==
    ASSUME IInv, [Next]_vars, NEW a \in Arrows,
           \A w \in Workers, r \in Result, p \in {0, 1} :
               ~NextAssignment(w, r, p) /\ ~LastAssignment(w, r, p)
    PROVE  ts'.status[a] \in {ts.status[a], "Active", "Inactive"}
<1>0. ts \in TopologyState /\ Sound(ts)
  BY DEF IInv, TypeOK
<1>1. ASSUME NEW w \in Workers, NEW b \in Arrows, Checkout(w, b)
      PROVE  ts'.status = ts.status
  BY <1>0, <1>1 DEF Checkout, checkout, TopologyState
<1>2. ASSUME NEW w \in Workers, Throw(w)
      PROVE  ts'.status = ts.status
  BY <1>2 DEF Throw
<1>3. ASSUME InitializeTopology \/ AchieveTopologyPause \/ FinishTopology
      PROVE  ts'.status = ts.status
  <2>1. CASE InitializeTopology
    BY <1>0, <2>1 DEF InitializeTopology, initialize_topology, TopologyState
  <2>2. CASE AchieveTopologyPause
    BY <1>0, <2>2 DEF AchieveTopologyPause, achieve_topology_pause, TopologyState
  <2>3. CASE FinishTopology
    BY <1>0, <2>3 DEF FinishTopology, finish_topology, TopologyState
  <2> QED
    BY <1>3, <2>1, <2>2, <2>3
<1>4. CASE RunTopology
  BY <1>0, <1>4, RunEffect DEF RunTopology
<1>5. ASSUME NEW S, S \in {SourceArrows, Arrows}, NEW st,
             ts' = [deactivate_all(ts, Pausable(ts, S)) EXCEPT !.topology = st]
      PROVE  ts'.status[a] \in {ts.status[a], "Inactive"}
  <2> DEFINE d == deactivate_all(ts, Pausable(ts, S))
  <2>1. Pausable(ts, S) \in SUBSET ActiveOrDraining(ts)
    BY <1>5, TopologyAssumption DEF Pausable, ActiveOrDraining
  <2>2. d \in TopologyState /\ d.status[a] \in {ts.status[a], "Inactive"}
    BY <1>0, <2>1, DeactivateAllSound
  <2>3. ts' = [d EXCEPT !.topology = st]
    BY <1>5
  <2> HIDE DEF d
  <2> QED
    BY <2>2, <2>3 DEF TopologyState
<1>6. CASE DrainTopology
  BY <1>5, <1>6 DEF DrainTopology, drain_topology
<1>7. CASE RequestTopologyPause
  BY <1>5, <1>7 DEF RequestTopologyPause, request_topology_pause
<1>8. CASE UNCHANGED vars
  BY <1>8 DEF vars
<1> QED
  BY <1>1, <1>2, <1>3, <1>4, <1>6, <1>7, <1>8 DEF Next, WorkerStep, ControllerStep

\* finalize() never runs on an arrow that some thread is still executing.
THEOREM FinalizeCorrect == Spec => FinalizesAlone
<1> DEFINE A == \A a \in Arrows :
                   ts.status[a] # "Finalized" /\ ts'.status[a] = "Finalized"
                      => Holders(a)' = {}
<1>1. IInv /\ [Next]_vars => A
  <2> SUFFICES ASSUME IInv, [Next]_vars, NEW a \in Arrows,
                      ts.status[a] # "Finalized", ts'.status[a] = "Finalized"
               PROVE  Holders(a)' = {}
    OBVIOUS
  <2>1. PICK w \in Workers, r \in Result, p \in {0, 1} :
           NextAssignment(w, r, p) \/ LastAssignment(w, r, p)
    BY OtherStepsKeepInService
  <2>2. PICK b : WorkerCall(w, HandedIn(w, r, p), b)
    BY <2>1, NextAssignmentIsCall, LastAssignmentIsCall
  <2> QED
    BY <2>2, CallEffect
<1> HIDE DEF A
<1>2. IInv /\ [Next]_vars => [A]_vars
  BY <1>1
<1>3. [][A]_vars => FinalizesAlone
  BY PTL DEF A, FinalizesAlone
<1> QED
  BY <1>2, <1>3, InitIInv, NextIInv, PTL DEF Spec

\* No stage or sink is taken out of service before everything upstream of it.
THEOREM DrainOrderCorrect == Spec => UpstreamDoneFirst
<1> DEFINE A == \A a \in Arrows \ SourceArrows :
                   ts.status[a] = "Active" /\ ts'.status[a] \in {"Draining", "Finalized"}
                      => Upstream(a) \cap ActiveOrDraining(ts') = {}
<1>1. IInv /\ [Next]_vars => A
  <2> SUFFICES ASSUME IInv, [Next]_vars, NEW a \in Arrows \ SourceArrows,
                      ts.status[a] = "Active", ts'.status[a] \in {"Draining", "Finalized"}
               PROVE  Upstream(a) \cap ActiveOrDraining(ts') = {}
    OBVIOUS
  <2>1. PICK w \in Workers, r \in Result, p \in {0, 1} :
           NextAssignment(w, r, p) \/ LastAssignment(w, r, p)
    BY OtherStepsKeepInService
  <2>2. PICK b : WorkerCall(w, HandedIn(w, r, p), b)
    BY <2>1, NextAssignmentIsCall, LastAssignmentIsCall
  <2> QED
    BY <2>2, CallEffect
<1> HIDE DEF A
<1>2. IInv /\ [Next]_vars => [A]_vars
  BY <1>1
<1>3. [][A]_vars => UpstreamDoneFirst
  BY PTL DEF A, UpstreamDoneFirst
<1> QED
  BY <1>2, <1>3, InitIInv, NextIInv, PTL DEF Spec

\* A worker never declares the topology Paused while an arrow may still be run.
THEOREM PauseCorrect == Spec => PauseIsComplete
<1> DEFINE A == ts.topology # "Paused" /\ ts'.topology = "Paused" /\ assigned' # assigned
                   => ActiveOrDraining(ts') = {}
<1>1. IInv /\ [Next]_vars => A
  <2> SUFFICES ASSUME IInv, [Next]_vars, ts.topology # "Paused",
                      ts'.topology = "Paused", assigned' # assigned
               PROVE  ActiveOrDraining(ts') = {}
    OBVIOUS
  <2>1. ASSUME NEW w \in Workers, NEW b \in Arrows, Checkout(w, b)
        PROVE  ts'.topology = ts.topology
    BY <2>1 DEF Checkout, checkout, IInv, TypeOK, TopologyState
  <2>2. PICK w \in Workers, r \in Result, p \in {0, 1} :
           NextAssignment(w, r, p) \/ LastAssignment(w, r, p)
    BY <2>1 DEF Next, vars, WorkerStep, ControllerStep, Throw, InitializeTopology,
          RunTopology, DrainTopology, RequestTopologyPause, AchieveTopologyPause,
          FinishTopology
  <2>3. PICK b : WorkerCall(w, HandedIn(w, r, p), b)
    BY <2>2, NextAssignmentIsCall, LastAssignmentIsCall
  <2> QED
    BY <2>3, CallEffect
<1> HIDE DEF A
<1>2. IInv /\ [Next]_vars => [A]_vars
  BY <1>1
<1>3. [][A]_vars => PauseIsComplete
  BY PTL DEF A, PauseIsComplete
<1> QED
  BY <1>2, <1>3, InitIInv, NextIInv, PTL DEF Spec

=============================================================================

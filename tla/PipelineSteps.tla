--------------------------- MODULE PipelineSteps ----------------------------
(***************************************************************************)
(* Every move of an event or a slot keeps the data path in order: types,   *)
(* reservations, bounds, and every event in one place.  Every step of      *)
(* execute() is such a move.                                               *)
(***************************************************************************)
EXTENDS PipelineInvariant, TLAPS

-----------------------------------------------------------------------------
(* The moves.                                                              *)

\* A worker that has an arrow other than the source has an input queue, and one
\* that has an arrow other than the last has an output queue, which is another.
LEMMA QueuesOf ==
    ASSUME TypeOK, NEW w \in Workers, assigned[w] # None
    PROVE  /\ assigned[w] \in Arrows /\ Location[w] \in Locations
           /\ ~IsSource(w) => InputQueue(w) \in QL
           /\ ~IsLast(w) => OutputQueue(w) \in QL
           /\ InputQueue(w) # OutputQueue(w)
           /\ ~(IsSource(w) /\ IsLast(w))
<1>1. assigned[w] \in 0 .. NArrows - 1 /\ Location[w] \in Locations /\ NArrows \in Nat
  BY ChainAssumption, TopologyAssumption DEF TypeOK, Arrows
<1>2. SourceArrows = {0} /\ NArrows >= 2
  BY ChainAssumption
<1>3. assigned[w] - 1 # assigned[w]
  BY <1>1
<1>4. ~IsSource(w) => assigned[w] - 1 \in 0 .. NArrows - 2
  BY <1>1, <1>2 DEF IsSource
<1>5. ~IsLast(w) => assigned[w] \in 0 .. NArrows - 2
  BY <1>1, <1>2 DEF IsLast
<1> QED
  BY <1>1, <1>2, <1>3, <1>4, <1>5
     DEF QL, Queues, InputQueue, OutputQueue, Arrows, IsSource, IsLast

-----------------------------------------------------------------------------
(* Moving events around.                                                   *)

\* The four kinds of place.
LEMMA PlaceKinds ==
    /\ \A l \in Locations : <<"pool", l>> \in Places /\ SeqAt(<<"pool", l>>) = pool.available[l]
    /\ \A q \in QL : <<"mailbox", q>> \in Places /\ SeqAt(<<"mailbox", q>>) = mailbox[q].queue
    /\ \A w \in Workers :
          /\ <<"in", w>> \in Places /\ SeqAt(<<"in", w>>) = in_data[w].items
          /\ <<"out", w>> \in Places /\ SeqAt(<<"out", w>>) = out_data[w].items
    /\ \A x \in Places :
          \/ \E l \in Locations : x = <<"pool", l>>
          \/ \E q \in QL : x = <<"mailbox", q>>
          \/ \E w \in Workers : x = <<"in", w>> \/ x = <<"out", w>>
BY DEF Places, SeqAt, QL

\* And what they hold after a step.
LEMMA PlaceKindsNext ==
    /\ \A l \in Locations : SeqAt(<<"pool", l>>)' = pool'.available[l]
    /\ \A q \in QL : SeqAt(<<"mailbox", q>>)' = mailbox'[q].queue
    /\ \A w \in Workers : /\ SeqAt(<<"in", w>>)' = in_data'[w].items
                          /\ SeqAt(<<"out", w>>)' = out_data'[w].items
BY DEF SeqAt, QL

\* A place keeps its contents if what holds them does not change.
LEMMA PlaceKept ==
    ASSUME NEW z \in Places,
           \A l \in Locations : z = <<"pool", l>> => pool'.available[l] = pool.available[l],
           \A q \in QL : z = <<"mailbox", q>> => mailbox'[q].queue = mailbox[q].queue,
           \A w \in Workers : z = <<"in", w>> => in_data'[w].items = in_data[w].items,
           \A w \in Workers : z = <<"out", w>> => out_data'[w].items = out_data[w].items
    PROVE  SeqAt(z)' = SeqAt(z)
<1>1. ASSUME NEW l \in Locations, z = <<"pool", l>> PROVE SeqAt(z)' = SeqAt(z)
  BY <1>1, PlaceKinds, PlaceKindsNext
<1>2. ASSUME NEW q \in QL, z = <<"mailbox", q>> PROVE SeqAt(z)' = SeqAt(z)
  BY <1>2, PlaceKinds, PlaceKindsNext
<1>3. ASSUME NEW w \in Workers, z = <<"in", w>> PROVE SeqAt(z)' = SeqAt(z)
  <2>1. in_data'[w].items = in_data[w].items
    BY <1>3
  <2>2. SeqAt(z) = in_data[w].items /\ SeqAt(z)' = in_data'[w].items
    BY <1>3, PlaceKinds, PlaceKindsNext, Zenon
  <2> QED
    BY <2>1, <2>2
<1>4. ASSUME NEW w \in Workers, z = <<"out", w>> PROVE SeqAt(z)' = SeqAt(z)
  <2>1. out_data'[w].items = out_data[w].items
    BY <1>4
  <2>2. SeqAt(z) = out_data[w].items /\ SeqAt(z)' = out_data'[w].items
    BY <1>4, PlaceKinds, PlaceKindsNext, Zenon
  <2> QED
    BY <2>1, <2>2
<1> QED
  BY <1>1, <1>2, <1>3, <1>4, PlaceKinds

\* An event that moves from one place to another is still in one place.
LEMMA ConservedMove ==
    ASSUME Conserved, NEW x \in Places, NEW y \in Places, x # y, NEW e \in Events,
           e \in Range(SeqAt(x)),
           IsInjective(SeqAt(x)'), Range(SeqAt(x)') = Range(SeqAt(x)) \ {e},
           IsInjective(SeqAt(y)'), Range(SeqAt(y)') = Range(SeqAt(y)) \cup {e},
           \A z \in Places \ {x, y} : SeqAt(z)' = SeqAt(z),
           pool'.heap = pool.heap,
           \A l \in Locations : y = <<"pool", l>> => e \in ItemsAt(l)
    PROVE  Conserved'
<1>1. \A z \in Places : IsInjective(SeqAt(z)')
  BY DEF Conserved
<1>2. \A z \in Places : Contents[z] = Range(SeqAt(z)) /\ Contents'[z] = Range(SeqAt(z)')
  BY DEF Contents
<1>3. /\ e \in Contents[x]
      /\ Contents'[x] = Contents[x] \ {e} /\ Contents'[y] = Contents[y] \cup {e}
      /\ \A z \in Places \ {x, y} : Contents'[z] = Contents[z]
  BY <1>2
<1>4. Exclusive(Contents')
  BY <1>3 DEF Exclusive, Conserved
<1>5. \A f \in Events : (\E z \in Places : f \in Contents'[z]) <=> (\E z \in Places : f \in Contents[z])
  BY <1>3
<1>6. Live' = Live
  BY DEF Live
<1>7. \A f \in Events : f \in Live' <=> \E z \in Places : f \in Contents'[z]
  BY <1>5, <1>6 DEF Conserved
<1>8. \A l \in Locations : Contents'[<<"pool", l>>] \subseteq ItemsAt(l)
  <2> SUFFICES ASSUME NEW l \in Locations PROVE Contents'[<<"pool", l>>] \subseteq ItemsAt(l)
    OBVIOUS
  <2>1. <<"pool", l>> \in Places /\ Contents[<<"pool", l>>] \subseteq ItemsAt(l)
    BY DEF Conserved, Places
  <2> QED
    BY <1>3, <2>1
<1> QED
  BY <1>1, <1>4, <1>7, <1>8 DEF Conserved

\* An event of the heap that nobody had is made.
LEMMA ConservedEnter ==
    ASSUME Conserved, NEW y \in Places, NEW e \in HeapEvents, e \notin Live,
           IsInjective(SeqAt(y)'), Range(SeqAt(y)') = Range(SeqAt(y)) \cup {e},
           \A z \in Places \ {y} : SeqAt(z)' = SeqAt(z),
           pool'.heap = pool.heap \cup {e},
           \A l \in Locations : y # <<"pool", l>>
    PROVE  Conserved'
<1>1. \A z \in Places : IsInjective(SeqAt(z)')
  BY DEF Conserved
<1>2. \A z \in Places : Contents[z] = Range(SeqAt(z)) /\ Contents'[z] = Range(SeqAt(z)')
  BY DEF Contents
<1>3. /\ Contents'[y] = Contents[y] \cup {e}
      /\ \A z \in Places \ {y} : Contents'[z] = Contents[z]
      /\ \A z \in Places : e \notin Contents[z]
  BY <1>2 DEF Conserved, Events
<1>4. Exclusive(Contents')
  BY <1>3 DEF Exclusive, Conserved
<1>5. Live' = Live \cup {e}
  BY DEF Live
<1>6. \A f \in Events : f \in Live' <=> \E z \in Places : f \in Contents'[z]
  BY <1>3, <1>5 DEF Conserved
<1>7. \A l \in Locations : Contents'[<<"pool", l>>] \subseteq ItemsAt(l)
  BY <1>3 DEF Conserved, Places
<1> QED
  BY <1>1, <1>4, <1>6, <1>7 DEF Conserved

\* An event of the heap is deleted where it is.
LEMMA ConservedLeave ==
    ASSUME Conserved, NEW x \in Places, NEW e \in Events, e \notin PoolEvents,
           e \in Range(SeqAt(x)),
           IsInjective(SeqAt(x)'), Range(SeqAt(x)') = Range(SeqAt(x)) \ {e},
           \A z \in Places \ {x} : SeqAt(z)' = SeqAt(z),
           pool'.heap = pool.heap \ {e}
    PROVE  Conserved'
<1>1. \A z \in Places : IsInjective(SeqAt(z)')
  BY DEF Conserved
<1>2. \A z \in Places : Contents[z] = Range(SeqAt(z)) /\ Contents'[z] = Range(SeqAt(z)')
  BY DEF Contents
<1>3. /\ e \in Contents[x] /\ Contents'[x] = Contents[x] \ {e}
      /\ \A z \in Places \ {x} : Contents'[z] = Contents[z]
  BY <1>2
<1>4. Exclusive(Contents')
  BY <1>3 DEF Exclusive, Conserved
<1>5. Live' = Live \ {e}
  BY DEF Live
<1>6. \A f \in Events : f \in Live' <=> \E z \in Places : f \in Contents'[z]
  <2>1. \A z \in Places : e \notin Contents'[z]
    BY <1>3 DEF Conserved, Exclusive
  <2>2. \A f \in Events \ {e} : (\E z \in Places : f \in Contents'[z]) <=> (\E z \in Places : f \in Contents[z])
    BY <1>3
  <2> QED
    BY <1>5, <2>1, <2>2 DEF Conserved
<1>7. \A l \in Locations : Contents'[<<"pool", l>>] \subseteq ItemsAt(l)
  BY <1>3 DEF Conserved, Places
<1> QED
  BY <1>1, <1>4, <1>6, <1>7 DEF Conserved

\* Nothing moves.
LEMMA ConservedSame ==
    ASSUME Conserved, \A z \in Places : SeqAt(z)' = SeqAt(z), pool'.heap = pool.heap
    PROVE  Conserved'
<1>1. \A z \in Places : IsInjective(SeqAt(z)')
  BY DEF Conserved
<1>2. \A z \in Places : Contents'[z] = Contents[z]
  BY DEF Contents
<1>3. Live' = Live
  BY DEF Live
<1>4. Exclusive(Contents')
  BY <1>2 DEF Exclusive, Conserved
<1>5. \A l \in Locations : Contents'[<<"pool", l>>] \subseteq ItemsAt(l)
  BY <1>2 DEF Conserved, Places
<1> QED
  BY <1>1, <1>2, <1>3, <1>4, <1>5 DEF Conserved

\* A Data with one event, or none.
LEMMA OneData ==
    /\ EmptyData \in Data /\ EmptyData.items = <<>> /\ EmptyData.reserve_count = 0
    /\ \A e \in Events : \A n \in Nat :
          LET d == [items |-> <<e>>, reserve_count |-> n]
          IN  d \in Data /\ d.items = <<e>> /\ d.reserve_count = n
    /\ Range(<<>>) = {} /\ IsInjective(<<>>)
    /\ \A e \in Events : Range(<<e>>) = {e} /\ IsInjective(<<e>>)
<1>1. \A e \in Events : Range(<<e>>) = {e} /\ IsInjective(<<e>>)
  BY DEF Range, IsInjective
<1>2. Range(<<>>) = {} /\ IsInjective(<<>>)
  BY DEF Range, IsInjective
<1> QED
  BY <1>1, <1>2 DEF EmptyData, Data

\* The slots are where they were if no Data changes its reservation.
LEMMA SlotsKept ==
    ASSUME ReservationsExact, assigned' = assigned,
           \A q \in QL : mailbox'[q].reserved_count = mailbox[q].reserved_count,
           \A v \in Workers : /\ in_data'[v].reserve_count = in_data[v].reserve_count
                              /\ out_data'[v].reserve_count = out_data[v].reserve_count
    PROVE  ReservationsExact'
<1>1. \A q \in QL : SlotHolders(q)' = SlotHolders(q)
  BY DEF SlotHolders, InputQueue, OutputQueue
<1> QED
  BY <1>1 DEF ReservationsExact, QL

\* w takes a slot of mailbox q.
LEMMA SlotTaken ==
    ASSUME Facts, ReservationsExact, NEW w \in Workers, NEW q \in QL, w \notin SlotHolders(q),
           mailbox'[q].reserved_count = mailbox[q].reserved_count + 1,
           \A p \in QL \ {q} : mailbox'[p].reserved_count = mailbox[p].reserved_count,
           SlotHolders(q)' = SlotHolders(q) \cup {w},
           \A p \in QL \ {q} : SlotHolders(p)' = SlotHolders(p)
    PROVE  ReservationsExact'
<1>1. SlotHolders(q) \in SUBSET Workers
  BY DEF SlotHolders
<1>2. Cardinality(SlotHolders(q) \cup {w}) = Cardinality(SlotHolders(q)) + 1
  BY <1>1 DEF Facts, SetFacts
<1>3. mailbox'[q].reserved_count = Cardinality(SlotHolders(q)')
  BY <1>2 DEF ReservationsExact, QL
<1>4. \A p \in QL : mailbox'[p].reserved_count = Cardinality(SlotHolders(p)')
  BY <1>3 DEF ReservationsExact, QL
<1> QED
  BY <1>4 DEF ReservationsExact, QL

\* w gives a slot of mailbox q back.
LEMMA SlotGiven ==
    ASSUME Facts, ReservationsExact, NEW w \in Workers, NEW q \in QL, w \in SlotHolders(q),
           mailbox'[q].reserved_count = mailbox[q].reserved_count - 1,
           \A p \in QL \ {q} : mailbox'[p].reserved_count = mailbox[p].reserved_count,
           SlotHolders(q)' = SlotHolders(q) \ {w},
           \A p \in QL \ {q} : SlotHolders(p)' = SlotHolders(p)
    PROVE  ReservationsExact'
<1>1. SlotHolders(q) \in SUBSET Workers
  BY DEF SlotHolders
<1>2. Cardinality(SlotHolders(q) \ {w}) = Cardinality(SlotHolders(q)) - 1
  BY <1>1 DEF Facts, SetFacts
<1>3. mailbox'[q].reserved_count = Cardinality(SlotHolders(q)')
  BY <1>2 DEF ReservationsExact, QL
<1>4. \A p \in QL : mailbox'[p].reserved_count = Cardinality(SlotHolders(p)')
  BY <1>3 DEF ReservationsExact, QL
<1> QED
  BY <1>4 DEF ReservationsExact, QL

\* A worker that holds a slot finds it in reserved_count.
LEMMA SlotCounted ==
    ASSUME Facts, ReservationsExact, NEW w \in Workers, NEW q \in QL, w \in SlotHolders(q),
           mailbox[q].reserved_count \in Nat
    PROVE  mailbox[q].reserved_count >= 1
<1>1. SlotHolders(q) \in SUBSET Workers
  BY DEF SlotHolders
<1>2. Cardinality(SlotHolders(q)) # 0
  BY <1>1 DEF Facts, SetFacts
<1> QED
  BY <1>2 DEF ReservationsExact, QL

\* The source arrow pops an event.
LEMMA PoolToInOK ==
    ASSUME Facts, DataOK, NEW w \in Workers, NEW e, PoolToIn(w, e)
    PROVE  DataOK'
<1> DEFINE l == Location[w]
           x == <<"pool", l>>
           y == <<"in", w>>
<1>1. l \in Locations /\ x \in Places /\ y \in Places /\ x # y
  BY ChainAssumption, PlaceKinds, Zenon
<1>2. IsInjective(pool.available[l])
  BY <1>1, PlaceKinds DEF DataOK, Conserved
<1>3. /\ pool' \in Pool /\ e \in Events
      /\ \A k \in Locations \ {l} : pool'.available[k] = pool.available[k]
      /\ \/ /\ e \in Range(pool.available[l]) /\ pool'.heap = pool.heap
            /\ IsInjective(pool'.available[l])
            /\ Range(pool'.available[l]) = Range(pool.available[l]) \ {e}
         \/ /\ e \in HeapEvents \ pool.heap /\ pool'.heap = pool.heap \cup {e}
            /\ pool'.available[l] = pool.available[l]
  <2>1. pool \in Pool /\ e \in poppable(pool, l) /\ pool' = pool_pop(pool, l, e)
    BY DEF DataOK, PoolToIn
  <2> HIDE DEF l
  <2> QED
    BY <1>1, <1>2, <2>1 DEF Facts, PoolFacts, Pops
<1>4. in_data' \in [Workers -> Data]
  BY <1>3, OneData DEF DataOK, PoolToIn
<1>5. /\ in_data'[w].items = <<e>> /\ in_data'[w].reserve_count = 0
      /\ in_data[w].items = <<>> /\ in_data[w].reserve_count = 0
      /\ \A v \in Workers \ {w} : in_data'[v] = in_data[v]
      /\ mailbox' = mailbox /\ out_data' = out_data /\ assigned' = assigned
  BY <1>3, OneData DEF DataOK, PoolToIn
<1>6. ReservationsExact'
  BY <1>5, SlotsKept DEF DataOK
<1>7. QueueBound'
  BY <1>5 DEF DataOK, QueueBound
<1>8. ASSUME NEW z \in Places \ {x, y} PROVE SeqAt(z)' = SeqAt(z)
  <2>1. \A k \in Locations : z = <<"pool", k>> => pool'.available[k] = pool.available[k]
    BY <1>3
  <2>2. \A v \in Workers : z = <<"in", v>> => in_data'[v].items = in_data[v].items
    BY <1>5
  <2> QED
    BY <1>5, <2>1, <2>2, PlaceKept
<1>9. IsInjective(SeqAt(y)') /\ Range(SeqAt(y)') = Range(SeqAt(y)) \cup {e}
  <2>1. SeqAt(y) = <<>> /\ SeqAt(y)' = <<e>>
    BY <1>5, PlaceKinds, PlaceKindsNext, Zenon
  <2> QED
    BY <1>3, <2>1, OneData
<1>10. /\ SeqAt(x) = pool.available[l] /\ SeqAt(x)' = pool'.available[l]
       /\ \A k \in Locations : y # <<"pool", k>>
  BY <1>1, PlaceKinds, PlaceKindsNext
<1> HIDE DEF x, y, l
<1>11. Conserved'
  <2>1. CASE e \in Range(pool.available[l]) /\ pool'.heap = pool.heap
             /\ IsInjective(pool'.available[l])
             /\ Range(pool'.available[l]) = Range(pool.available[l]) \ {e}
    BY <1>1, <1>3, <1>8, <1>9, <1>10, <2>1, ConservedMove, SMTT(30) DEF DataOK
  <2>2. CASE e \in HeapEvents \ pool.heap /\ pool'.heap = pool.heap \cup {e}
             /\ pool'.available[l] = pool.available[l]
    <3>1. e \notin Live
      BY <2>2, PoolAssumption DEF Live
    <3>2. \A z \in Places \ {y} : SeqAt(z)' = SeqAt(z)
      BY <1>8, <1>10, <2>2
    <3> QED
      BY <1>1, <1>9, <1>10, <2>2, <3>1, <3>2, ConservedEnter DEF DataOK
  <2> QED
    BY <1>3, <2>1, <2>2
<1> QED
  BY <1>3, <1>4, <1>5, <1>6, <1>7, <1>11 DEF DataOK

\* An event that a worker has is not in the pool, nor in a mailbox.
LEMMA Apart ==
    ASSUME Conserved, NEW x \in Places, NEW e, e \in Range(SeqAt(x))
    PROVE  \A z \in Places \ {x} : e \notin Range(SeqAt(z))
BY DEF Conserved, Exclusive, Contents

\* put() of an event that is in the Data x of a worker conserves the events.
LEMMA PutConserves ==
    ASSUME Facts, Conserved, pool \in Pool, NEW l \in Locations, NEW e \in Events, NEW x \in Places,
           \A k \in Locations : x # <<"pool", k>>,
           SeqAt(x) = <<e>>, SeqAt(x)' = <<>>,
           pool' = put(pool, l, e),
           \A z \in Places \ {x} :
              (\A k \in Locations : z # <<"pool", k>>) => SeqAt(z)' = SeqAt(z)
    PROVE  Conserved' /\ pool' \in Pool
<1>1. e \in Range(SeqAt(x)) /\ IsInjective(SeqAt(x)') /\ Range(SeqAt(x)') = Range(SeqAt(x)) \ {e}
  BY OneData
<1>2. \A k \in Locations : <<"pool", k>> \in Places /\ SeqAt(<<"pool", k>>) = pool.available[k]
                           /\ SeqAt(<<"pool", k>>)' = pool'.available[k]
  BY PlaceKinds, PlaceKindsNext, ZenonT(30)
<1>3. \A k \in Locations : IsInjective(pool.available[k]) /\ e \notin Range(pool.available[k])
  <2> SUFFICES ASSUME NEW k \in Locations
               PROVE  IsInjective(pool.available[k]) /\ e \notin Range(pool.available[k])
    OBVIOUS
  <2>1. <<"pool", k>> \in Places \ {x} /\ SeqAt(<<"pool", k>>) = pool.available[k]
    BY <1>2
  <2>2. e \notin Range(SeqAt(<<"pool", k>>))
    BY <1>1, <2>1, Apart
  <2>3. IsInjective(SeqAt(<<"pool", k>>))
    BY <2>1 DEF Conserved
  <2> QED
    BY <2>1, <2>2, <2>3
<1>4. /\ pool' \in Pool
      /\ \/ \E k \in Locations :
               /\ e \in ItemsAt(k) /\ e \in PoolEvents /\ pool'.heap = pool.heap
               /\ \A j \in Locations \ {k} : pool'.available[j] = pool.available[j]
               /\ IsInjective(pool'.available[k])
               /\ Range(pool'.available[k]) = Range(pool.available[k]) \cup {e}
         \/ /\ e \notin PoolEvents
            /\ pool'.heap = pool.heap \ {e} /\ pool'.available = pool.available
  <2> DEFINE r == put(pool, l, e)
  <2>1. /\ r \in Pool
        /\ \/ \E k \in Locations :
                 /\ e \in ItemsAt(k) /\ e \in PoolEvents /\ r.heap = pool.heap
                 /\ \A j \in Locations \ {k} : r.available[j] = pool.available[j]
                 /\ IsInjective(r.available[k])
                 /\ Range(r.available[k]) = Range(pool.available[k]) \cup {e}
           \/ /\ e \notin PoolEvents
              /\ r.heap = pool.heap \ {e} /\ r.available = pool.available
    BY <1>3, ZenonT(30) DEF Facts, PoolFacts, Puts
  <2> HIDE DEF r
  <2>2. pool' = r
    BY DEF r
  <2> QED
    BY <2>1, <2>2, Zenon
<1>5. ASSUME NEW k \in Locations, e \in ItemsAt(k), pool'.heap = pool.heap,
             \A j \in Locations \ {k} : pool'.available[j] = pool.available[j],
             IsInjective(pool'.available[k]),
             Range(pool'.available[k]) = Range(pool.available[k]) \cup {e}
      PROVE  Conserved'
  <2> DEFINE y == <<"pool", k>>
  <2>1. y \in Places /\ x # y /\ IsInjective(SeqAt(y)') /\ Range(SeqAt(y)') = Range(SeqAt(y)) \cup {e}
    BY <1>2, <1>5
  <2>2. \A j \in Locations : y = <<"pool", j>> => e \in ItemsAt(j)
    BY <1>5
  <2>3. \A z \in Places \ {x, y} : SeqAt(z)' = SeqAt(z)
    BY <1>2, <1>5
  <2> HIDE DEF y
  <2> QED
    BY <1>1, <1>5, <2>1, <2>2, <2>3, ConservedMove
<1>6. ASSUME e \notin PoolEvents, pool'.heap = pool.heap \ {e}, pool'.available = pool.available
      PROVE  Conserved'
  <2>1. \A z \in Places \ {x} : SeqAt(z)' = SeqAt(z)
    BY <1>2, <1>6
  <2> QED
    BY <1>1, <1>6, <2>1, ConservedLeave
<1> QED
  BY <1>4, <1>5, <1>6

\* The source arrow gives its event back.
LEMMA InToPoolOK ==
    ASSUME Facts, DataOK, NEW w \in Workers, NEW e \in Events, InToPool(w, e)
    PROVE  DataOK'
<1> DEFINE x == <<"in", w>>
<1>1. Location[w] \in Locations /\ x \in Places /\ \A k \in Locations : x # <<"pool", k>>
  BY ChainAssumption, PlaceKinds, Zenon
<1>2. /\ in_data[w].items = <<e>> /\ in_data[w].reserve_count = 0
      /\ in_data' \in [Workers -> Data] /\ in_data'[w] = EmptyData
      /\ \A v \in Workers \ {w} : in_data'[v] = in_data[v]
      /\ mailbox' = mailbox /\ out_data' = out_data /\ assigned' = assigned
      /\ pool' = put(pool, Location[w], e)
  BY OneData DEF DataOK, InToPool
<1>3. ReservationsExact'
  BY <1>2, OneData, SlotsKept DEF DataOK
<1>4. QueueBound'
  BY <1>2 DEF DataOK, QueueBound
<1>5. SeqAt(x) = <<e>> /\ SeqAt(x)' = <<>>
  BY <1>2, OneData, PlaceKinds, PlaceKindsNext, Zenon
<1>6. \A z \in Places \ {x} : (\A k \in Locations : z # <<"pool", k>>) => SeqAt(z)' = SeqAt(z)
  <2> SUFFICES ASSUME NEW z \in Places \ {x}, \A k \in Locations : z # <<"pool", k>>
               PROVE  SeqAt(z)' = SeqAt(z)
    OBVIOUS
  <2>1. \A v \in Workers : z = <<"in", v>> => in_data'[v].items = in_data[v].items
    BY <1>2
  <2>2. \A v \in Workers : z = <<"out", v>> => out_data'[v].items = out_data[v].items
    BY <1>2
  <2> QED
    BY <1>2, <2>1, <2>2, PlaceKept
<1> HIDE DEF x
<1>7. Conserved' /\ pool' \in Pool
  BY <1>1, <1>2, <1>5, <1>6, PutConserves DEF DataOK
<1> QED
  BY <1>2, <1>3, <1>4, <1>7 DEF DataOK

\* The last arrow gives its event back.
LEMMA OutToPoolOK ==
    ASSUME Facts, DataOK, NEW w \in Workers, NEW e \in Events, OutToPool(w, e)
    PROVE  DataOK'
<1> DEFINE x == <<"out", w>>
<1>1. Location[w] \in Locations /\ x \in Places /\ \A k \in Locations : x # <<"pool", k>>
  BY ChainAssumption, PlaceKinds, Zenon
<1>2. /\ out_data[w].items = <<e>> /\ out_data[w].reserve_count = 0
      /\ out_data' \in [Workers -> Data] /\ out_data'[w] = EmptyData
      /\ \A v \in Workers \ {w} : out_data'[v] = out_data[v]
      /\ mailbox' = mailbox /\ in_data' = in_data /\ assigned' = assigned
      /\ pool' = put(pool, Location[w], e)
  BY OneData DEF DataOK, OutToPool
<1>3. ReservationsExact'
  BY <1>2, OneData, SlotsKept, ZenonT(30) DEF DataOK
<1>4. QueueBound'
  BY <1>2 DEF DataOK, QueueBound
<1>5. SeqAt(x) = <<e>> /\ SeqAt(x)' = <<>>
  BY <1>2, OneData, PlaceKinds, PlaceKindsNext, Zenon
<1>6. \A z \in Places \ {x} : (\A k \in Locations : z # <<"pool", k>>) => SeqAt(z)' = SeqAt(z)
  <2> SUFFICES ASSUME NEW z \in Places \ {x}, \A k \in Locations : z # <<"pool", k>>
               PROVE  SeqAt(z)' = SeqAt(z)
    OBVIOUS
  <2>1. \A v \in Workers : z = <<"in", v>> => in_data'[v].items = in_data[v].items
    BY <1>2
  <2>2. \A v \in Workers : z = <<"out", v>> => out_data'[v].items = out_data[v].items
    BY <1>2
  <2> QED
    BY <1>2, <2>1, <2>2, PlaceKept
<1> HIDE DEF x
<1>7. Conserved' /\ pool' \in Pool
  BY <1>1, <1>2, <1>5, <1>6, PutConserves DEF DataOK
<1> QED
  BY <1>2, <1>3, <1>4, <1>7 DEF DataOK

\* An event moves within execute(), from the input Data to the output Data.
LEMMA InToOutOK ==
    ASSUME DataOK, NEW w \in Workers, NEW e, InToOut(w, e)
    PROVE  DataOK'
<1> DEFINE x == <<"in", w>>
           y == <<"out", w>>
<1>1. x \in Places /\ y \in Places /\ x # y /\ \A k \in Locations : y # <<"pool", k>>
  BY PlaceKinds
<1>2. /\ e \in Events /\ in_data[w].items = <<e>> /\ out_data[w].items = <<>>
      /\ mailbox' = mailbox /\ pool' = pool /\ assigned' = assigned
  BY DEF InToOut
<1>3. /\ in_data' \in [Workers -> Data] /\ out_data' \in [Workers -> Data]
      /\ in_data'[w].items = <<>> /\ out_data'[w].items = <<e>>
      /\ in_data'[w].reserve_count = in_data[w].reserve_count
      /\ out_data'[w].reserve_count = out_data[w].reserve_count
      /\ \A v \in Workers \ {w} : in_data'[v] = in_data[v] /\ out_data'[v] = out_data[v]
  BY <1>2, Zenon DEF DataOK, InToOut, Succeed, Data
<1>4. ReservationsExact'
  BY <1>2, <1>3, SlotsKept DEF DataOK
<1>5. QueueBound'
  BY <1>2 DEF DataOK, QueueBound
<1>6. /\ SeqAt(x) = <<e>> /\ SeqAt(x)' = <<>> /\ SeqAt(y) = <<>> /\ SeqAt(y)' = <<e>>
  BY <1>2, <1>3, PlaceKinds, PlaceKindsNext, Zenon
<1>7. ASSUME NEW z \in Places \ {x, y} PROVE SeqAt(z)' = SeqAt(z)
  <2>1. \A v \in Workers : z = <<"in", v>> => in_data'[v].items = in_data[v].items
    BY <1>3
  <2>2. \A v \in Workers : z = <<"out", v>> => out_data'[v].items = out_data[v].items
    BY <1>3
  <2> QED
    BY <1>2, <2>1, <2>2, PlaceKept
<1> HIDE DEF x, y
<1>8. /\ e \in Range(SeqAt(x)) /\ IsInjective(SeqAt(x)') /\ Range(SeqAt(x)') = Range(SeqAt(x)) \ {e}
      /\ IsInjective(SeqAt(y)') /\ Range(SeqAt(y)') = Range(SeqAt(y)) \cup {e}
  BY <1>2, <1>6, OneData, ZenonT(30)
<1>9. Conserved'
  BY <1>1, <1>2, <1>7, <1>8, ConservedMove DEF DataOK
<1> QED
  BY <1>2, <1>3, <1>4, <1>5, <1>9 DEF DataOK

\* What happens to mailbox q and to the Data of w happens to no other.
LEMMA OthersHold ==
    ASSUME NEW w \in Workers, assigned' = assigned,
           \A v \in Workers \ {w} : in_data'[v] = in_data[v] /\ out_data'[v] = out_data[v]
    PROVE  \A p \in QL : \A v \in Workers \ {w} : v \in SlotHolders(p)' <=> v \in SlotHolders(p)
BY ZenonT(30) DEF SlotHolders, InputQueue, OutputQueue

\* An arrow takes the event at the head of its input queue.
LEMMA MailToInOK ==
    ASSUME Facts, DataOK, TypeOK, NEW w \in Workers, assigned[w] # None, ~IsSource(w),
           NEW e, MailToIn(w, e)
    PROVE  /\ DataOK'
           /\ \A q \in QL \ {InputQueue(w)} : mailbox'[q] = mailbox[q]
           /\ \A q \in QL : q = InputQueue(w) =>
                 /\ Range(mailbox'[q].queue) = Range(mailbox[q].queue) \ {e}
                 /\ e \in Range(mailbox[q].queue)
<1>1. PICK q \in QL : q = InputQueue(w) /\ q # OutputQueue(w)
  BY QueuesOf
<1> DEFINE m == mailbox[q]
           x == <<"mailbox", q>>
           y == <<"in", w>>
<1>2. x \in Places /\ y \in Places /\ x # y /\ \A k \in Locations : y # <<"pool", k>>
  BY <1>1, PlaceKinds, Zenon
<1>3. m \in LocalQueue(Events) /\ IsInjective(m.queue) /\ m.queue # <<>> /\ e = m.queue[1]
  <2>1. IsInjective(SeqAt(x)) /\ SeqAt(x) = m.queue
    BY <1>1, <1>2, PlaceKinds DEF DataOK, Conserved
  <2> QED
    BY <1>1, <2>1 DEF DataOK, MailToIn
<1>4. LET r == pop_and_reserve(m, 1)
      IN  /\ r \in LocalQueue(Events)
          /\ Len(r.queue) = Len(m.queue) - 1
          /\ r.reserved_count = m.reserved_count + 1
          /\ IsInjective(r.queue)
          /\ Range(r.queue) = Range(m.queue) \ {e}
          /\ e \in Range(m.queue) /\ e \in Events
  <2> HIDE DEF m
  <2> QED
    BY <1>3, Zenon DEF Facts, MailboxFacts, TakesHead
<1>5. /\ mailbox' = [mailbox EXCEPT ![q] = pop_and_reserve(m, 1)]
      /\ in_data' = [in_data EXCEPT ![w] = [items |-> <<e>>, reserve_count |-> 1]]
      /\ in_data[w] = EmptyData
      /\ pool' = pool /\ out_data' = out_data /\ assigned' = assigned
      /\ mailbox \in [QL -> LocalQueue(Events)] /\ in_data \in [Workers -> Data]
  BY <1>1, ZenonT(30) DEF DataOK, MailToIn
<1>6. /\ mailbox' \in [QL -> LocalQueue(Events)]
      /\ Len(mailbox'[q].queue) = Len(m.queue) - 1
      /\ mailbox'[q].reserved_count = m.reserved_count + 1
      /\ IsInjective(mailbox'[q].queue)
      /\ Range(mailbox'[q].queue) = Range(m.queue) \ {e}
      /\ \A p \in QL \ {q} : mailbox'[p] = mailbox[p]
  <2> DEFINE r == pop_and_reserve(m, 1)
  <2> HIDE DEF r, m
  <2>1. mailbox' = [mailbox EXCEPT ![q] = r]
    BY <1>5 DEF r
  <2>2. mailbox'[q] = r /\ mailbox' \in [QL -> LocalQueue(Events)]
        /\ \A p \in QL \ {q} : mailbox'[p] = mailbox[p]
    BY <1>1, <1>4, <1>5, <2>1, ZenonT(30) DEF r
  <2> QED
    BY <1>4, <2>2 DEF r
<1>7. /\ in_data' \in [Workers -> Data]
      /\ in_data'[w].items = <<e>> /\ in_data'[w].reserve_count = 1
      /\ in_data[w].items = <<>> /\ in_data[w].reserve_count = 0
      /\ \A v \in Workers \ {w} : in_data'[v] = in_data[v]
  BY <1>4, <1>5, OneData
<1>8. ReservationsExact'
  <2>1. \A p \in QL : \A v \in Workers \ {w} : v \in SlotHolders(p)' <=> v \in SlotHolders(p)
    BY <1>5, <1>7, OthersHold, ZenonT(30)
  <2>2. w \notin SlotHolders(q) /\ w \in SlotHolders(q)'
    BY <1>1, <1>5, <1>7, SMTT(30) DEF SlotHolders, InputQueue, OutputQueue
  <2>3. \A p \in QL \ {q} : w \in SlotHolders(p)' <=> w \in SlotHolders(p)
    BY <1>1, <1>5, <1>7, ZenonT(30) DEF SlotHolders, InputQueue, OutputQueue
  <2>4. \A p \in QL : SlotHolders(p) \subseteq Workers /\ SlotHolders(p)' \subseteq Workers
    BY DEF SlotHolders
  <2>5. SlotHolders(q)' = SlotHolders(q) \cup {w}
    BY <1>1, <2>1, <2>2, <2>4
  <2>6. \A p \in QL \ {q} : SlotHolders(p)' = SlotHolders(p)
    BY <2>1, <2>3, <2>4
  <2> QED
    BY <1>1, <1>6, <2>2, <2>5, <2>6, SlotTaken DEF DataOK
<1>9. QueueBound'
  <2>1. \A k, r \in Nat : k + r <= Capacity => (k - 1) + (r + 1) <= Capacity
    BY CapacityAssumption
  <2>2. Len(m.queue) \in Nat /\ m.reserved_count \in Nat
    BY <1>3 DEF LocalQueue
  <2>3. Len(mailbox'[q].queue) + mailbox'[q].reserved_count <= Capacity
    <3>1. Len(m.queue) + m.reserved_count <= Capacity
      BY <1>1 DEF DataOK, QueueBound, QL
    <3> HIDE DEF m
    <3> QED
      BY <1>6, <2>1, <2>2, <3>1, Zenon
  <2> QED
    BY <1>6, <2>3 DEF DataOK, QueueBound, QL
<1>10. ASSUME NEW z \in Places \ {x, y} PROVE SeqAt(z)' = SeqAt(z)
  <2>1. \A v \in Workers : z = <<"in", v>> => in_data'[v].items = in_data[v].items
    BY <1>7
  <2>2. \A p \in QL : z = <<"mailbox", p>> => mailbox'[p].queue = mailbox[p].queue
    BY <1>6, ZenonT(30)
  <2> QED
    BY <1>5, <2>1, <2>2, PlaceKept
<1>11. /\ e \in Range(SeqAt(x)) /\ IsInjective(SeqAt(x)') /\ Range(SeqAt(x)') = Range(SeqAt(x)) \ {e}
       /\ IsInjective(SeqAt(y)') /\ Range(SeqAt(y)') = Range(SeqAt(y)) \cup {e}
  <2>1. /\ SeqAt(x) = m.queue /\ SeqAt(x)' = mailbox'[q].queue
        /\ SeqAt(y) = <<>> /\ SeqAt(y)' = <<e>>
    <3>1. SeqAt(x) = m.queue /\ SeqAt(x)' = mailbox'[q].queue
      BY PlaceKinds, PlaceKindsNext
    <3>2. SeqAt(y) = in_data[w].items /\ SeqAt(y)' = in_data'[w].items
      BY PlaceKinds, PlaceKindsNext, Zenon
    <3> QED
      BY <1>7, <3>1, <3>2
  <2> HIDE DEF x, y, m
  <2> QED
    BY <1>4, <1>6, <2>1, OneData, ZenonT(30)
<1>12. Conserved'
  <2> HIDE DEF x, y
  <2> QED
    BY <1>2, <1>4, <1>5, <1>10, <1>11, ConservedMove, ZenonT(30) DEF DataOK
<1> QED
  BY <1>1, <1>4, <1>5, <1>6, <1>7, <1>8, <1>9, <1>12, ZenonT(30) DEF DataOK

\* push_and_unreserve() of an event or nothing.
LEMMA PushOK ==
    ASSUME Facts, DataOK, NEW w \in Workers, NEW q \in QL, NEW x \in Places, NEW items,
           Pushes(w, q, x, items)
    PROVE  /\ mailbox' \in [QL -> LocalQueue(Events)]
           /\ ReservationsExact' /\ QueueBound' /\ Conserved'
           /\ Range(mailbox'[q].queue) = Range(mailbox[q].queue) \cup Range(items)
           /\ \A p \in QL \ {q} : mailbox'[p] = mailbox[p]
<1> DEFINE m == mailbox[q]
           y == <<"mailbox", q>>
           r == push_and_unreserve(m, items, 1)
<1>0. /\ \A p \in QL : x # <<"mailbox", p>>
      /\ SeqAt(x) = items /\ SeqAt(x)' = <<>>
      /\ items = <<>> \/ One(items)
      /\ mailbox' = [mailbox EXCEPT ![q] = r]
      /\ pool' = pool
      /\ \A z \in Places \ {x} : (\A p \in QL : z # <<"mailbox", p>>) => SeqAt(z)' = SeqAt(z)
      /\ w \in SlotHolders(q) /\ SlotHolders(q)' = SlotHolders(q) \ {w}
      /\ \A p \in QL \ {q} : SlotHolders(p)' = SlotHolders(p)
  BY DEF Pushes
<1>1. y \in Places /\ x # y /\ \A k \in Locations : y # <<"pool", k>>
  BY <1>0, PlaceKinds
<1>2. SeqAt(y) = m.queue /\ SeqAt(y)' = mailbox'[q].queue
  BY PlaceKinds, PlaceKindsNext
<1>3. m \in LocalQueue(Events) /\ m.reserved_count \in Nat /\ Len(m.queue) \in Nat
  BY DEF DataOK, LocalQueue
<1>4. IsInjective(m.queue)
  BY <1>1, <1>2 DEF DataOK, Conserved
<1>5. m.reserved_count >= 1
  BY <1>0, <1>3, SlotCounted DEF DataOK
<1>6. ASSUME NEW e \in Events, items = <<e>> PROVE e \notin Range(m.queue)
  <2>1. e \in Range(SeqAt(x))
    BY <1>0, <1>6, OneData
  <2>2. e \notin Range(SeqAt(y))
    BY <1>1, <2>1, Apart DEF DataOK
  <2> QED
    BY <1>2, <2>2
<1>7. /\ r \in LocalQueue(Events) /\ IsInjective(r.queue)
      /\ Range(r.queue) = Range(m.queue) \cup Range(items)
      /\ r.reserved_count = m.reserved_count - 1
      /\ Len(r.queue) + r.reserved_count <= Len(m.queue) + m.reserved_count
  <2>1. items = <<>> \/ \E e \in Events : items = <<e>> /\ e \notin Range(m.queue)
    BY <1>0, <1>6 DEF One
  <2> HIDE DEF m
  <2> QED
    BY <1>3, <1>4, <1>5, <2>1, Zenon DEF Facts, MailboxFacts, TakesBack
<1> HIDE DEF r
<1>8. /\ mailbox' \in [QL -> LocalQueue(Events)] /\ mailbox'[q] = r
      /\ \A p \in QL \ {q} : mailbox'[p] = mailbox[p]
  <2>1. mailbox' = [mailbox EXCEPT ![q] = r] /\ mailbox \in [QL -> LocalQueue(Events)]
    BY <1>0 DEF DataOK
  <2> QED
    BY <1>7, <2>1
<1>9. ReservationsExact'
  BY <1>0, <1>7, <1>8, SlotGiven, ZenonT(30) DEF DataOK
<1>10. QueueBound'
  <2>1. Len(m.queue) + m.reserved_count <= Capacity
    BY DEF DataOK, QueueBound, QL
  <2>2. Len(r.queue) \in Nat /\ r.reserved_count \in Nat
    BY <1>7 DEF LocalQueue
  <2>3. Len(r.queue) + r.reserved_count <= Capacity
    <3>1. \A a, b, c, d \in Nat : a + b <= c + d /\ c + d <= Capacity => a + b <= Capacity
      BY CapacityAssumption
    <3> HIDE DEF m
    <3> QED
      BY <1>3, <1>7, <2>1, <2>2, <3>1, Zenon
  <2> QED
    BY <1>8, <2>3 DEF DataOK, QueueBound, QL
<1>11. ASSUME NEW z \in Places \ {x, y} PROVE SeqAt(z)' = SeqAt(z)
  <2>1. CASE \A p \in QL : z # <<"mailbox", p>>
    BY <1>0, <2>1
  <2>2. ASSUME NEW p \in QL, z = <<"mailbox", p>> PROVE SeqAt(z)' = SeqAt(z)
    <3>1. mailbox'[p] = mailbox[p]
      BY <1>8, <2>2
    <3>2. SeqAt(z) = mailbox[p].queue /\ SeqAt(z)' = mailbox'[p].queue
      BY <2>2, PlaceKinds, PlaceKindsNext
    <3> QED
      BY <3>1, <3>2
  <2> QED
    BY <2>1, <2>2
<1>12. Conserved'
  <2>1. ASSUME NEW e \in Events, items = <<e>> PROVE Conserved'
    <3>1. /\ e \in Range(SeqAt(x)) /\ IsInjective(SeqAt(x)')
          /\ Range(SeqAt(x)') = Range(SeqAt(x)) \ {e}
      BY <1>0, <2>1, OneData
    <3>2. IsInjective(SeqAt(y)') /\ Range(SeqAt(y)') = Range(SeqAt(y)) \cup {e}
      BY <1>2, <1>7, <1>8, <2>1, OneData, ZenonT(30)
    <3> HIDE DEF y
    <3> QED
      BY <1>0, <1>1, <1>11, <3>1, <3>2, ConservedMove DEF DataOK
  <2>2. CASE items = <<>>
    <3>1. Range(SeqAt(y)') = Range(SeqAt(y)) /\ IsInjective(SeqAt(y)')
      BY <1>2, <1>7, <1>8, <2>2, OneData, Zenon
    <3>2. \A z \in Places : Contents'[z] = Contents[z]
      <4>1. \A z \in Places : Contents[z] = Range(SeqAt(z)) /\ Contents'[z] = Range(SeqAt(z)')
        BY DEF Contents
      <4> HIDE DEF y
      <4> QED
        BY <1>0, <1>11, <2>2, <3>1, <4>1, ZenonT(30)
    <3>3. \A z \in Places : IsInjective(SeqAt(z)')
      <4> HIDE DEF y
      <4> QED
        BY <1>0, <1>11, <3>1, OneData, ZenonT(30) DEF DataOK, Conserved
    <3>4. Exclusive(Contents')
      BY <3>2, ZenonT(30) DEF Exclusive, DataOK, Conserved
    <3>5. \A l \in Locations : Contents'[<<"pool", l>>] \subseteq ItemsAt(l)
      BY <3>2 DEF DataOK, Conserved, Places
    <3>6. Live' = Live
      BY <1>0 DEF Live
    <3> QED
      BY <3>2, <3>3, <3>4, <3>5, <3>6, ZenonT(30) DEF DataOK, Conserved
  <2> QED
    BY <1>0, <2>1, <2>2 DEF One
<1> QED
  BY <1>7, <1>8, <1>9, <1>10, <1>12

\* An arrow gives its slot of the input queue back, with the event or without.
LEMMA InToMailOK ==
    ASSUME Facts, DataOK, TypeOK, NEW w \in Workers, assigned[w] # None, ~IsSource(w), InToMail(w)
    PROVE  /\ DataOK'
           /\ \A q \in QL \ {InputQueue(w)} : mailbox'[q] = mailbox[q]
           /\ \A q \in QL : q = InputQueue(w) =>
                 Range(mailbox'[q].queue) = Range(mailbox[q].queue) \cup Range(in_data[w].items)
<1>1. PICK q \in QL : q = InputQueue(w) /\ q # OutputQueue(w)
  BY QueuesOf
<1>0. PICK items : items = in_data[w].items
  OBVIOUS
<1> DEFINE x == <<"in", w>>
<1>2. x \in Places /\ \A p \in QL : x # <<"mailbox", p>>
  BY PlaceKinds, Zenon
<1>3. /\ items = <<>> \/ One(items)
      /\ in_data[w].reserve_count = 1
      /\ mailbox' = [mailbox EXCEPT ![q] = push_and_unreserve(mailbox[q], items, 1)]
      /\ in_data' \in [Workers -> Data] /\ in_data'[w] = EmptyData
      /\ \A v \in Workers \ {w} : in_data'[v] = in_data[v]
      /\ pool' = pool /\ out_data' = out_data /\ assigned' = assigned
  BY <1>0, <1>1, OneData, ZenonT(30) DEF DataOK, InToMail
<1>4. /\ SeqAt(x) = items /\ SeqAt(x)' = <<>>
  <2>1. SeqAt(x) = in_data[w].items /\ SeqAt(x)' = in_data'[w].items
    BY PlaceKinds, PlaceKindsNext, Zenon
  <2> QED
    BY <1>0, <1>3, <2>1, OneData, ZenonT(30)
<1>5. \A z \in Places \ {x} : (\A p \in QL : z # <<"mailbox", p>>) => SeqAt(z)' = SeqAt(z)
  <2> SUFFICES ASSUME NEW z \in Places \ {x}, \A p \in QL : z # <<"mailbox", p>>
               PROVE  SeqAt(z)' = SeqAt(z)
    OBVIOUS
  <2>1. \A v \in Workers : z = <<"in", v>> => in_data'[v].items = in_data[v].items
    BY <1>3
  <2> QED
    BY <1>3, <2>1, PlaceKept
<1>6. \A p \in QL : \A v \in Workers \ {w} : v \in SlotHolders(p)' <=> v \in SlotHolders(p)
  BY <1>3, OthersHold, ZenonT(30)
<1>7. w \in SlotHolders(q) /\ w \notin SlotHolders(q)'
  BY <1>1, <1>3, OneData, SMTT(30) DEF SlotHolders, InputQueue, OutputQueue
<1>8. \A p \in QL \ {q} : w \in SlotHolders(p)' <=> w \in SlotHolders(p)
  BY <1>1, <1>3, OneData DEF SlotHolders, InputQueue, OutputQueue
<1>9. \A p \in QL : SlotHolders(p) \subseteq Workers /\ SlotHolders(p)' \subseteq Workers
  BY DEF SlotHolders
<1>10. SlotHolders(q)' = SlotHolders(q) \ {w} /\ \A p \in QL \ {q} : SlotHolders(p)' = SlotHolders(p)
  BY <1>6, <1>7, <1>8, <1>9
<1> HIDE DEF x
<1>11. /\ mailbox' \in [QL -> LocalQueue(Events)]
       /\ ReservationsExact' /\ QueueBound' /\ Conserved'
       /\ Range(mailbox'[q].queue) = Range(mailbox[q].queue) \cup Range(items)
       /\ \A p \in QL \ {q} : mailbox'[p] = mailbox[p]
  <2>1. /\ items = <<>> \/ One(items)
        /\ mailbox' = [mailbox EXCEPT ![q] = push_and_unreserve(mailbox[q], items, 1)]
        /\ pool' = pool
    BY <1>3
  <2>2. Pushes(w, q, x, items)
    BY <1>2, <1>4, <1>5, <1>7, <1>10, <2>1 DEF Pushes
  <2> QED
    BY <1>2, <2>2, PushOK, ZenonT(30)
<1> QED
  BY <1>0, <1>1, <1>3, <1>11, ZenonT(30) DEF DataOK

\* An arrow fills the slot it reserved in the output queue, or gives it back.
LEMMA OutToMailOK ==
    ASSUME Facts, DataOK, TypeOK, NEW w \in Workers, assigned[w] # None, ~IsLast(w), OutToMail(w)
    PROVE  /\ DataOK'
           /\ \A q \in QL \ {OutputQueue(w)} : mailbox'[q] = mailbox[q]
           /\ \A q \in QL : q = OutputQueue(w) =>
                 Range(mailbox'[q].queue) = Range(mailbox[q].queue) \cup Range(out_data[w].items)
<1>1. PICK q \in QL : q = OutputQueue(w) /\ q # InputQueue(w)
  BY QueuesOf
<1>0. PICK items : items = out_data[w].items
  OBVIOUS
<1> DEFINE x == <<"out", w>>
<1>2. x \in Places /\ \A p \in QL : x # <<"mailbox", p>>
  BY PlaceKinds, Zenon
<1>3. /\ items = <<>> \/ One(items)
      /\ out_data[w].reserve_count = 1
      /\ mailbox' = [mailbox EXCEPT ![q] = push_and_unreserve(mailbox[q], items, 1)]
      /\ out_data' \in [Workers -> Data] /\ out_data'[w] = EmptyData
      /\ \A v \in Workers \ {w} : out_data'[v] = out_data[v]
      /\ pool' = pool /\ in_data' = in_data /\ assigned' = assigned
  BY <1>0, <1>1, OneData DEF DataOK, OutToMail
<1>4. /\ SeqAt(x) = items /\ SeqAt(x)' = <<>>
  <2>1. SeqAt(x) = out_data[w].items /\ SeqAt(x)' = out_data'[w].items
    BY PlaceKinds, PlaceKindsNext, Zenon
  <2> QED
    BY <1>0, <1>3, <2>1, OneData, ZenonT(30)
<1>5. \A z \in Places \ {x} : (\A p \in QL : z # <<"mailbox", p>>) => SeqAt(z)' = SeqAt(z)
  <2> SUFFICES ASSUME NEW z \in Places \ {x}, \A p \in QL : z # <<"mailbox", p>>
               PROVE  SeqAt(z)' = SeqAt(z)
    OBVIOUS
  <2>1. \A v \in Workers : z = <<"out", v>> => out_data'[v].items = out_data[v].items
    BY <1>3
  <2> QED
    BY <1>3, <2>1, PlaceKept, ZenonT(30)
<1>6. \A p \in QL : \A v \in Workers \ {w} : v \in SlotHolders(p)' <=> v \in SlotHolders(p)
  BY <1>3, OthersHold, ZenonT(30)
<1>7. w \in SlotHolders(q) /\ w \notin SlotHolders(q)'
  <2>1. InputQueue(w)' # q /\ out_data'[w].reserve_count = 0
    BY <1>1, <1>3, OneData, ZenonT(30) DEF InputQueue
  <2>2. w \in SlotHolders(q)
    BY <1>1, <1>3, ZenonT(30) DEF SlotHolders
  <2>3. w \notin SlotHolders(q)'
    BY <2>1 DEF SlotHolders
  <2> QED
    BY <2>2, <2>3, ZenonT(30)
<1>8. \A p \in QL \ {q} : w \in SlotHolders(p)' <=> w \in SlotHolders(p)
  BY <1>1, <1>3, OneData, ZenonT(30) DEF SlotHolders, InputQueue, OutputQueue
<1>9. \A p \in QL : SlotHolders(p) \subseteq Workers /\ SlotHolders(p)' \subseteq Workers
  BY DEF SlotHolders
<1>10. SlotHolders(q)' = SlotHolders(q) \ {w} /\ \A p \in QL \ {q} : SlotHolders(p)' = SlotHolders(p)
  BY <1>6, <1>7, <1>8, <1>9
<1> HIDE DEF x
<1>11. /\ mailbox' \in [QL -> LocalQueue(Events)]
       /\ ReservationsExact' /\ QueueBound' /\ Conserved'
       /\ Range(mailbox'[q].queue) = Range(mailbox[q].queue) \cup Range(items)
       /\ \A p \in QL \ {q} : mailbox'[p] = mailbox[p]
  <2>1. /\ items = <<>> \/ One(items)
        /\ mailbox' = [mailbox EXCEPT ![q] = push_and_unreserve(mailbox[q], items, 1)]
        /\ pool' = pool
    BY <1>3
  <2>2. Pushes(w, q, x, items)
    BY <1>2, <1>4, <1>5, <1>7, <1>10, <2>1 DEF Pushes
  <2> QED
    BY <1>2, <2>2, PushOK
<1> QED
  BY <1>0, <1>1, <1>3, <1>11, ZenonT(30) DEF DataOK

\* An arrow reserves a slot of its output queue.
LEMMA ReserveOutOK ==
    ASSUME Facts, DataOK, TypeOK, NEW w \in Workers, assigned[w] # None, ~IsLast(w), ReserveOut(w)
    PROVE  DataOK' /\ \A q \in QL : mailbox'[q].queue = mailbox[q].queue
<1>1. PICK q \in QL : q = OutputQueue(w) /\ q # InputQueue(w)
  BY QueuesOf
<1> DEFINE m == mailbox[q]
           r == reserve(m, 1)
<1>2. m \in LocalQueue(Events) /\ m.reserved_count \in Nat /\ Len(m.queue) \in Nat
  <2>1. m \in LocalQueue(Events)
    BY Zenon DEF DataOK
  <2> HIDE DEF m
  <2> QED
    BY <2>1 DEF LocalQueue
<1>3. /\ r \in LocalQueue(Events) /\ r.queue = m.queue /\ r.reserved_count = m.reserved_count + 1
  BY <1>2 DEF reserve, LocalQueue
<1>4. /\ mailbox' = [mailbox EXCEPT ![q] = r] /\ mailbox \in [QL -> LocalQueue(Events)]
      /\ Len(m.queue) + m.reserved_count + 1 <= Capacity
      /\ out_data[w].reserve_count = 0
      /\ pool' = pool /\ in_data' = in_data /\ assigned' = assigned
  BY <1>1, OneData DEF DataOK, ReserveOut
<1>5. /\ out_data' \in [Workers -> Data] /\ out_data'[w].reserve_count = 1
      /\ \A v \in Workers : out_data'[v].items = out_data[v].items
      /\ \A v \in Workers \ {w} : out_data'[v] = out_data[v]
  BY Zenon DEF DataOK, ReserveOut, Data
<1> HIDE DEF r
<1>6. /\ mailbox' \in [QL -> LocalQueue(Events)] /\ mailbox'[q] = r
      /\ \A p \in QL \ {q} : mailbox'[p] = mailbox[p]
      /\ \A p \in QL : mailbox'[p].queue = mailbox[p].queue
  BY <1>3, <1>4, ZenonT(30)
<1>7. ReservationsExact'
  <2>1. \A p \in QL : \A v \in Workers \ {w} : v \in SlotHolders(p)' <=> v \in SlotHolders(p)
    BY <1>4, <1>5, OthersHold
  <2>2. w \notin SlotHolders(q) /\ w \in SlotHolders(q)'
    <3>1. OutputQueue(w)' = q /\ assigned'[w] # None
      BY <1>1, <1>4 DEF OutputQueue
    <3>2. w \in SlotHolders(q)'
      BY <1>5, <3>1 DEF SlotHolders
    <3>3. w \notin SlotHolders(q)
      BY <1>1, <1>4, SMTT(30) DEF SlotHolders
    <3> QED
      BY <3>2, <3>3
  <2>3. \A p \in QL \ {q} : w \in SlotHolders(p)' <=> w \in SlotHolders(p)
    BY <1>1, <1>4, <1>5 DEF SlotHolders, InputQueue, OutputQueue
  <2>4. \A p \in QL : SlotHolders(p) \subseteq Workers /\ SlotHolders(p)' \subseteq Workers
    BY DEF SlotHolders
  <2>5. SlotHolders(q)' = SlotHolders(q) \cup {w}
    BY <2>1, <2>2, <2>4
  <2>6. \A p \in QL \ {q} : SlotHolders(p)' = SlotHolders(p)
    BY <2>1, <2>3, <2>4
  <2> QED
    BY <1>3, <1>6, <2>2, <2>5, <2>6, SlotTaken, ZenonT(30) DEF DataOK
<1>8. QueueBound'
  <2>1. \A a, b \in Nat : a + b + 1 <= Capacity => a + (b + 1) <= Capacity
    BY CapacityAssumption
  <2>2. Len(mailbox'[q].queue) + mailbox'[q].reserved_count <= Capacity
    <3> HIDE DEF m
    <3> QED
      BY <1>2, <1>3, <1>4, <1>6, <2>1, ZenonT(30)
  <2> QED
    BY <1>6, <2>2 DEF DataOK, QueueBound, QL
<1>9. \A z \in Places : SeqAt(z)' = SeqAt(z)
  BY <1>4, <1>5, <1>6, PlaceKept
<1>10. Conserved'
  BY <1>4, <1>9, ConservedSame DEF DataOK
<1> QED
  BY <1>4, <1>5, <1>6, <1>7, <1>8, <1>10, ZenonT(30) DEF DataOK

\* Nothing happens to the data path, whoever has which arrow, as long as the
\* workers that change arrows have no slot.
LEMMA RestOK ==
    ASSUME DataOK, Rest,
           \A v \in Workers : assigned'[v] # assigned[v] =>
              in_data[v] = EmptyData /\ out_data[v] = EmptyData
    PROVE  DataOK'
<1>1. \A q \in QL : SlotHolders(q)' = SlotHolders(q)
  BY OneData, SMTT(30) DEF Rest, SlotHolders, InputQueue, OutputQueue
<1>2. ReservationsExact'
  BY <1>1 DEF DataOK, Rest, ReservationsExact, QL
<1>3. \A z \in Places : SeqAt(z)' = SeqAt(z)
  BY PlaceKept DEF Rest
<1>4. Conserved'
  BY <1>3, ConservedSame DEF DataOK, Rest
<1> QED
  BY <1>2, <1>4, ZenonT(30) DEF DataOK, Rest, QueueBound

\* Every move preserves what the invariant says of the data path.
LEMMA TransfersOK ==
    ASSUME Facts, DataOK, TypeOK, NEW w \in Workers, Transfers(w)
    PROVE  DataOK'
BY RestOK, PoolToInOK, InToPoolOK, OutToPoolOK, MailToInOK, InToMailOK, ReserveOutOK, ZenonT(30),
   OutToMailOK DEF Transfers

-----------------------------------------------------------------------------
(* The steps of execute().                                                 *)

\* What the Data of a worker is, from the parts of the invariant about it.
LEMMA DataFacts ==
    ASSUME IInv
    PROVE  /\ DataOK /\ TypeOK
           /\ mailbox \in [QL -> LocalQueue(Events)] /\ pool \in Pool
           /\ step \in [Workers -> Steps] /\ result \in [Workers -> Status]
           /\ in_data \in [Workers -> Data] /\ out_data \in [Workers -> Data]
           /\ \A w \in Workers : Carrying(w)
BY ZenonT(30) DEF IInv, DataOK, TypeOK, PipeTypeOK, QL

\* A worker whose state does not change carries what it carried.
LEMMA CarryingKept ==
    ASSUME NEW v \in Workers, Carrying(v), step'[v] = step[v], assigned'[v] = assigned[v],
           in_data'[v] = in_data[v], out_data'[v] = out_data[v]
    PROVE  Carrying(v)'
BY ZenonT(30) DEF Carrying, InSlot, OutSlot, IsSource, IsLast

\* m_input.pull()
LEMMA PullInputMoves ==
    ASSUME Facts, IInv, NEW w \in Workers, PullInput(w), UNCHANGED assigned
    PROVE  Transfers(w) /\ MovesInOrder(w)
<1>1. /\ assigned[w] # None /\ in_data[w] = EmptyData /\ out_data[w] = EmptyData
      /\ step[w] = "pull_input"
  BY DataFacts, ZenonT(30) DEF PullInput, Carrying
<1>2. /\ in_data \in [Workers -> Data] /\ out_data' = out_data /\ assigned' = assigned
      /\ step \in [Workers -> Steps] /\ result \in [Workers -> Status]
      /\ \A v \in Workers : Carrying(v)
  BY DataFacts, ZenonT(30) DEF PullInput
<1>3. CASE /\ IsSource(w)
           /\ \E e \in poppable(pool, Location[w]) :
                 /\ pool' = pool_pop(pool, Location[w], e)
                 /\ in_data' = [in_data EXCEPT ![w] = [items |-> <<e>>, reserve_count |-> 0]]
                 /\ Goto(w, "pull_output")
           /\ UNCHANGED mailbox
  <2>1. PICK e \in poppable(pool, Location[w]) :
                 /\ pool' = pool_pop(pool, Location[w], e)
                 /\ in_data' = [in_data EXCEPT ![w] = [items |-> <<e>>, reserve_count |-> 0]]
                 /\ Goto(w, "pull_output")
    BY <1>3, Zenon
  <2>2. PoolToIn(w, e)
    BY <1>1, <1>2, <1>3, <2>1, Zenon DEF PoolToIn
  <2>3. e \in Events
    <3>1. Location[w] \in Locations /\ <<"pool", Location[w]>> \in Places
          /\ SeqAt(<<"pool", Location[w]>>) = pool.available[Location[w]]
      BY ChainAssumption, PlaceKinds, ZenonT(30)
    <3>2. IsInjective(pool.available[Location[w]]) /\ pool \in Pool
      BY <3>1, DataFacts, ZenonT(30) DEF IInv, Conserved
    <3> QED
      BY <3>1, <3>2, ZenonT(30) DEF Facts, PoolFacts, Pops
  <2>4. Transfers(w)
    BY <1>1, <1>3, <2>2, <2>3, ZenonT(30) DEF Transfers
  <2>5. step' \in [Workers -> Steps] /\ result' \in [Workers -> Status] /\ step'[w] = "pull_output"
        /\ \A v \in Workers \ {w} : step'[v] = step[v]
    BY <1>2, <2>1 DEF Goto, Steps
  <2>6. /\ in_data'[w].items = <<e>> /\ in_data'[w].reserve_count = 0
        /\ \A v \in Workers \ {w} : in_data'[v] = in_data[v]
    BY <1>2, <2>1, <2>3, OneData, ZenonT(30)
  <2>7. Carrying(w)'
    BY <1>1, <1>2, <1>3, <2>3, <2>5, <2>6, ZenonT(30) DEF Carrying, InSlot, OutSlot, IsSource, IsLast, One
  <2>8. \A v \in Workers \ {w} : Carrying(v)'
    BY <1>2, <2>5, <2>6, CarryingKept, ZenonT(30)
  <2> QED
    BY <2>4, <2>5, <2>7, <2>8, ZenonT(30) DEF MovesInOrder
<1>4. ASSUME Rest, Return(w, "ComeBackLater") PROVE Transfers(w) /\ MovesInOrder(w)
  <2>1. step' \in [Workers -> Steps] /\ result' \in [Workers -> Status] /\ step'[w] = "done"
        /\ \A v \in Workers \ {w} : step'[v] = step[v]
    BY <1>2, <1>4 DEF Return, Steps, Status
  <2>2. in_data' = in_data
    BY <1>4, ZenonT(30) DEF Rest
  <2>3. Carrying(w)'
    BY <1>1, <1>2, <2>1, <2>2, ZenonT(30) DEF Carrying
  <2>4. \A v \in Workers \ {w} : Carrying(v)'
    BY <1>2, <2>1, <2>2, CarryingKept, ZenonT(30)
  <2> QED
    BY <1>1, <1>2, <1>4, <2>1, <2>3, <2>4, ZenonT(30) DEF MovesInOrder, Transfers
<1>5. CASE /\ IsSource(w)
           /\ pop_fails(pool, Location[w]) /\ Return(w, "ComeBackLater")
           /\ UNCHANGED <<pool, in_data, mailbox>>
  BY <1>2, <1>4, <1>5 DEF Rest
<1>6. ASSUME ~IsSource(w), NEW m, NEW n, m = mailbox[InputQueue(w)], n = pop_count(m, 1, 1),
             mailbox' = [mailbox EXCEPT ![InputQueue(w)] = pop_and_reserve(m, n)],
             in_data' = [in_data EXCEPT ![w] = [items |-> popped(m, n), reserve_count |-> n]],
             IF n >= 1 THEN Goto(w, "pull_output") ELSE Return(w, "ComeBackLater"),
             UNCHANGED pool
      PROVE  Transfers(w) /\ MovesInOrder(w)
  <2>1. PICK q \in QL : q = InputQueue(w)
    BY <1>1, <1>6, QueuesOf, DataFacts, ZenonT(30)
  <2>2. m \in LocalQueue(Events) /\ m = mailbox[q] /\ IsInjective(m.queue)
    <3>1. <<"mailbox", q>> \in Places /\ SeqAt(<<"mailbox", q>>) = mailbox[q].queue
      BY PlaceKinds, ZenonT(30)
    <3> QED
      BY <1>6, <2>1, <3>1, DataFacts, ZenonT(30) DEF IInv, Conserved
  <2>3. CASE m.queue # <<>>
    <3>1. PICK e : e = m.queue[1]
      BY ZenonT(30)
    <3>2. n = 1 /\ popped(m, 1) = <<e>> /\ e \in Events
      BY <1>6, <2>2, <2>3, <3>1, ZenonT(30) DEF Facts, MailboxFacts, TakesHead
    <3>3. /\ mailbox' = [mailbox EXCEPT ![InputQueue(w)] = pop_and_reserve(mailbox[InputQueue(w)], 1)]
          /\ in_data' = [in_data EXCEPT ![w] = [items |-> <<e>>, reserve_count |-> 1]]
          /\ Goto(w, "pull_output")
      <4>1. n >= 1
        BY <3>2
      <4>2. Goto(w, "pull_output")
        BY <1>6, <4>1
      <4> QED
        BY <1>6, <3>2, <4>2, Zenon
    <3>4. MailToIn(w, e)
      BY <1>1, <1>2, <1>6, <2>3, <3>1, <3>3, Zenon DEF MailToIn
    <3>5. Transfers(w)
      BY <1>1, <1>6, <3>2, <3>4, ZenonT(30) DEF Transfers
    <3>6. step' \in [Workers -> Steps] /\ result' \in [Workers -> Status] /\ step'[w] = "pull_output"
          /\ \A v \in Workers \ {w} : step'[v] = step[v]
      BY <1>2, <3>3 DEF Goto, Steps
    <3>7. /\ in_data'[w].items = <<e>> /\ in_data'[w].reserve_count = 1
          /\ \A v \in Workers \ {w} : in_data'[v] = in_data[v]
      BY <1>2, <3>2, <3>3, OneData, ZenonT(30)
    <3>8. Carrying(w)'
      BY <1>1, <1>2, <1>6, <3>2, <3>6, <3>7, ZenonT(30) DEF Carrying, InSlot, OutSlot, IsSource, IsLast, One
    <3>9. \A v \in Workers \ {w} : Carrying(v)'
      BY <1>2, <3>6, <3>7, CarryingKept, ZenonT(30)
    <3> QED
      BY <3>5, <3>6, <3>8, <3>9 DEF MovesInOrder
  <2>4. CASE m.queue = <<>>
    <3>1. n = 0 /\ popped(m, n) = <<>> /\ pop_and_reserve(m, n) = m
      BY <1>6, <2>2, <2>4, ZenonT(30) DEF Facts, MailboxFacts, TakesNothing
    <3>2. mailbox' = mailbox
      BY <1>6, <2>1, <2>2, <3>1, DataFacts, ZenonT(30)
    <3>3. in_data' = in_data
      BY <1>1, <1>2, <1>6, <3>1, ZenonT(30) DEF EmptyData
    <3>4. Return(w, "ComeBackLater")
      BY <1>6, <3>1
    <3> QED
      BY <1>2, <1>4, <1>6, <3>2, <3>3, <3>4, ZenonT(30) DEF Rest
  <2> QED
    BY <2>3, <2>4, ZenonT(30)
<1> QED
  BY <1>3, <1>5, <1>6, ZenonT(30) DEF PullInput

\* m_output.pull()
LEMMA PullOutputMoves ==
    ASSUME Facts, IInv, NEW w \in Workers, PullOutput(w), UNCHANGED assigned
    PROVE  Transfers(w) /\ MovesInOrder(w)
<1>1. /\ assigned[w] # None /\ step[w] = "pull_output"
      /\ One(in_data[w].items) /\ in_data[w].reserve_count = InSlot(w)
      /\ out_data[w] = EmptyData
  BY DataFacts DEF PullOutput, Carrying
<1>2. /\ in_data' = in_data /\ assigned' = assigned /\ pool' = pool
      /\ out_data \in [Workers -> Data]
      /\ step \in [Workers -> Steps] /\ result \in [Workers -> Status]
      /\ \A v \in Workers : Carrying(v)
  BY DataFacts DEF PullOutput
<1>3. ASSUME NEW s \in {"process", "revert"}, Goto(w, s), NEW n,
             \A v \in Workers \ {w} : out_data'[v] = out_data[v],
             out_data'[w].items = <<>>, out_data'[w].reserve_count = n,
             s = "process" => n = OutSlot(w),
             s = "revert" => out_data' = out_data
      PROVE  MovesInOrder(w)
  <2>1. step' \in [Workers -> Steps] /\ result' \in [Workers -> Status] /\ step'[w] = s
        /\ \A v \in Workers \ {w} : step'[v] = step[v]
    BY <1>2, <1>3, ZenonT(30) DEF Goto, Steps
  <2>2. Carrying(w)'
    BY <1>1, <1>2, <1>3, <2>1, ZenonT(30) DEF Carrying, InSlot, OutSlot, IsSource, IsLast
  <2>3. \A v \in Workers \ {w} : Carrying(v)'
    BY <1>2, <1>3, <2>1, CarryingKept, ZenonT(30)
  <2> QED
    BY <2>1, <2>2, <2>3, ZenonT(30) DEF MovesInOrder
<1>4. CASE IsLast(w) /\ Goto(w, "process") /\ UNCHANGED <<mailbox, out_data>>
  <2>1. out_data' = out_data /\ out_data'[w].items = <<>> /\ out_data'[w].reserve_count = 0
    BY <1>1, <1>4, OneData
  <2>2. OutSlot(w) = 0
    BY <1>4, ZenonT(30) DEF OutSlot
  <2>3. MovesInOrder(w)
    BY <1>3, <1>4, <2>1, <2>2
  <2> QED
    BY <1>1, <1>2, <1>4, <2>3, ZenonT(30) DEF Transfers, Rest
<1>5. ASSUME ~IsLast(w), NEW m, NEW n, m = mailbox[OutputQueue(w)], n = reserve_count(m, 1, 1),
             mailbox' = [mailbox EXCEPT ![OutputQueue(w)] = reserve(m, n)],
             out_data' = [out_data EXCEPT ![w].reserve_count = n],
             Goto(w, IF n >= 1 THEN "process" ELSE "revert")
      PROVE  Transfers(w) /\ MovesInOrder(w)
  <2>1. PICK q \in QL : q = OutputQueue(w)
    BY <1>1, <1>5, QueuesOf, DataFacts
  <2>2. m \in LocalQueue(Events) /\ m = mailbox[q] /\ Len(m.queue) + m.reserved_count <= Capacity
    BY <1>5, <2>1, DataFacts DEF IInv, QueueBound, QL
  <2>3. /\ n \in {0, 1}
        /\ n = 1 => Len(m.queue) + m.reserved_count + 1 <= Capacity
        /\ n = 0 => reserve(m, n) = m
    BY <1>5, <2>2 DEF Facts, MailboxFacts, ReservesIfRoom
  <2>4. /\ \A v \in Workers \ {w} : out_data'[v] = out_data[v]
        /\ out_data'[w].items = <<>> /\ out_data'[w].reserve_count = n
    BY <1>1, <1>2, <1>5, <2>3, OneData DEF Data
  <2>5. CASE n = 1
    <3>1. Goto(w, "process")
      BY <1>5, <2>5
    <3>2. OutSlot(w) = 1
      BY <1>5 DEF OutSlot
    <3>3. MovesInOrder(w)
      BY <1>3, <2>4, <2>5, <3>1, <3>2
    <3>4. ReserveOut(w)
      BY <1>1, <1>2, <1>5, <2>3, <2>5, Zenon DEF ReserveOut
    <3> QED
      BY <1>1, <1>5, <3>3, <3>4 DEF Transfers
  <2>6. CASE n = 0
    <3>1. Goto(w, "revert")
      BY <1>5, <2>6
    <3>2. mailbox' = mailbox
      BY <1>5, <2>1, <2>2, <2>3, <2>6, DataFacts
    <3>3. out_data' = out_data
      BY <1>1, <1>2, <1>5, <2>6 DEF EmptyData, Data
    <3>4. MovesInOrder(w)
      BY <1>3, <2>4, <3>1, <3>3
    <3> QED
      BY <1>1, <1>2, <3>2, <3>3, <3>4, ZenonT(30) DEF Transfers, Rest
  <2> QED
    BY <2>3, <2>5, <2>6
<1> QED
  BY <1>4, <1>5 DEF PullOutput

\* The input Data goes back, with the event or without.
LEMMA GiveBackInputMoves ==
    ASSUME IInv, NEW w \in Workers, GiveBackInput(w), UNCHANGED <<out_data, assigned>>,
           assigned[w] # None, in_data[w].reserve_count = InSlot(w),
           in_data[w].items = <<>> \/ One(in_data[w].items)
    PROVE  Transfers(w) /\ in_data'[w] = EmptyData /\ \A v \in Workers \ {w} : in_data'[v] = in_data[v]
<1>1. in_data \in [Workers -> Data] /\ in_data' = [in_data EXCEPT ![w] = EmptyData]
      /\ out_data' = out_data /\ assigned' = assigned
  BY DataFacts, ZenonT(30) DEF GiveBackInput
<1>2. in_data'[w] = EmptyData /\ \A v \in Workers \ {w} : in_data'[v] = in_data[v]
  BY <1>1
<1>3. in_data[w] = [items |-> in_data[w].items, reserve_count |-> in_data[w].reserve_count]
  BY <1>1 DEF Data
<1>4. CASE IsSource(w)
  <2>1. /\ pool' = IF in_data[w].items = <<>> THEN pool
                   ELSE put(pool, Location[w], in_data[w].items[1])
        /\ mailbox' = mailbox
    BY <1>4, ZenonT(30) DEF GiveBackInput
  <2>2. in_data[w].reserve_count = 0
    BY <1>4, ZenonT(30) DEF InSlot
  <2>3. CASE in_data[w].items = <<>>
    <3>1. in_data' = in_data
      BY <1>1, <1>3, <2>2, <2>3, ZenonT(30) DEF EmptyData
    <3> QED
      BY <1>1, <1>2, <2>1, <2>3, <3>1, ZenonT(30) DEF Transfers, Rest
  <2>4. ASSUME NEW e \in Events, in_data[w].items = <<e>> PROVE Transfers(w)
    <3>1. in_data[w].items # <<>> /\ in_data[w].items[1] = e
      BY <2>4
    <3>2. InToPool(w, e)
      BY <1>1, <1>3, <2>1, <2>2, <2>4, <3>1, ZenonT(30) DEF InToPool
    <3> QED
      BY <1>4, <2>4, <3>2, ZenonT(30) DEF Transfers
  <2> QED
    BY <1>2, <2>3, <2>4, ZenonT(30) DEF One
<1>5. CASE ~IsSource(w)
  <2>1. in_data[w].reserve_count = 1
    BY <1>5, ZenonT(30) DEF InSlot
  <2>2. PICK q \in QL : q = InputQueue(w)
    BY <1>5, QueuesOf, DataFacts, ZenonT(30)
  <2>3. /\ mailbox' = [mailbox EXCEPT ![q] = push_and_unreserve(mailbox[q], in_data[w].items, 1)]
        /\ pool' = pool
    BY <1>5, <2>1, <2>2, DataFacts, ZenonT(30) DEF GiveBackInput
  <2>4. InToMail(w)
    BY <1>1, <2>1, <2>2, <2>3, ZenonT(30) DEF InToMail
  <2> QED
    BY <1>2, <1>5, <2>4, ZenonT(30) DEF Transfers
<1> QED
  BY <1>4, <1>5, ZenonT(30)

\* m_input.revert()
LEMMA RevertMoves ==
    ASSUME IInv, NEW w \in Workers, Revert(w), UNCHANGED assigned
    PROVE  Transfers(w) /\ MovesInOrder(w)
<1>1. /\ assigned[w] # None /\ step[w] = "revert"
      /\ One(in_data[w].items) /\ in_data[w].reserve_count = InSlot(w)
      /\ out_data[w] = EmptyData
  BY DataFacts, ZenonT(30) DEF Revert, Carrying
<1>2. /\ out_data' = out_data /\ assigned' = assigned
      /\ step \in [Workers -> Steps] /\ result \in [Workers -> Status]
      /\ \A v \in Workers : Carrying(v)
  BY DataFacts, ZenonT(30) DEF Revert
<1>3. Transfers(w) /\ in_data'[w] = EmptyData /\ \A v \in Workers \ {w} : in_data'[v] = in_data[v]
  BY <1>1, <1>2, GiveBackInputMoves DEF Revert
<1>4. step' \in [Workers -> Steps] /\ result' \in [Workers -> Status] /\ step'[w] = "done"
      /\ \A v \in Workers \ {w} : step'[v] = step[v]
  BY <1>2, ZenonT(30) DEF Revert, Return, Steps, Status
<1>5. Carrying(w)'
  BY <1>1, <1>2, <1>3, <1>4, ZenonT(30) DEF Carrying
<1>6. \A v \in Workers \ {w} : Carrying(v)'
  BY <1>2, <1>3, <1>4, CarryingKept, ZenonT(30)
<1> QED
  BY <1>3, <1>4, <1>5, <1>6, ZenonT(30) DEF MovesInOrder

\* m_input.push()
LEMMA PushInputMoves ==
    ASSUME IInv, NEW w \in Workers, PushInput(w), UNCHANGED assigned
    PROVE  Transfers(w) /\ MovesInOrder(w)
<1>1. /\ assigned[w] # None /\ step[w] = "push_input"
      /\ in_data[w].items = <<>> \/ One(in_data[w].items)
      /\ in_data[w].reserve_count = InSlot(w)
      /\ out_data[w].reserve_count = OutSlot(w)
      /\ out_data[w].items = <<>> \/ One(out_data[w].items)
  BY DataFacts, ZenonT(30) DEF PushInput, Carrying
<1>2. /\ out_data' = out_data /\ assigned' = assigned
      /\ step \in [Workers -> Steps] /\ result \in [Workers -> Status]
      /\ \A v \in Workers : Carrying(v)
  BY DataFacts, ZenonT(30) DEF PushInput
<1>3. Transfers(w) /\ in_data'[w] = EmptyData /\ \A v \in Workers \ {w} : in_data'[v] = in_data[v]
  BY <1>1, <1>2, GiveBackInputMoves DEF PushInput
<1>4. step' \in [Workers -> Steps] /\ result' \in [Workers -> Status] /\ step'[w] = "push_output"
      /\ \A v \in Workers \ {w} : step'[v] = step[v]
  BY <1>2, ZenonT(30) DEF PushInput, Goto, Steps
<1>5. Carrying(w)'
  BY <1>1, <1>2, <1>3, <1>4, ZenonT(30) DEF Carrying, OutSlot, IsLast
<1>6. \A v \in Workers \ {w} : Carrying(v)'
  BY <1>2, <1>3, <1>4, CarryingKept, ZenonT(30)
<1> QED
  BY <1>3, <1>4, <1>5, <1>6, ZenonT(30) DEF MovesInOrder

\* m_output.push()
LEMMA PushOutputMoves ==
    ASSUME IInv, NEW w \in Workers, PushOutput(w), UNCHANGED assigned
    PROVE  Transfers(w) /\ MovesInOrder(w)
<1>1. /\ assigned[w] # None /\ step[w] = "push_output"
      /\ in_data[w] = EmptyData
      /\ out_data[w].reserve_count = OutSlot(w)
      /\ out_data[w].items = <<>> \/ One(out_data[w].items)
  BY DataFacts, ZenonT(30) DEF PushOutput, Carrying
<1>2. /\ in_data' = in_data /\ assigned' = assigned
      /\ out_data \in [Workers -> Data] /\ out_data' = [out_data EXCEPT ![w] = EmptyData]
      /\ step \in [Workers -> Steps] /\ result \in [Workers -> Status]
      /\ \A v \in Workers : Carrying(v)
  BY DataFacts, ZenonT(30) DEF PushOutput
<1>3. out_data'[w] = EmptyData /\ \A v \in Workers \ {w} : out_data'[v] = out_data[v]
  BY <1>2, ZenonT(30)
<1>4. step' \in [Workers -> Steps] /\ result' \in [Workers -> Status] /\ step'[w] = "done"
      /\ \A v \in Workers \ {w} : step'[v] = step[v]
  BY <1>2, ZenonT(30) DEF PushOutput, Goto, Steps
<1>5. Carrying(w)'
  BY <1>1, <1>2, <1>3, <1>4, ZenonT(30) DEF Carrying
<1>6. \A v \in Workers \ {w} : Carrying(v)'
  BY <1>2, <1>3, <1>4, CarryingKept, ZenonT(30)
<1>7. out_data[w] = [items |-> out_data[w].items, reserve_count |-> out_data[w].reserve_count]
  BY <1>2, ZenonT(30) DEF Data
<1>8. CASE IsLast(w)
  <2>1. /\ pool' = IF out_data[w].items = <<>> THEN pool
                   ELSE put(pool, Location[w], out_data[w].items[1])
        /\ mailbox' = mailbox
    BY <1>8, ZenonT(30) DEF PushOutput
  <2>2. out_data[w].reserve_count = 0
    BY <1>1, <1>8 DEF OutSlot
  <2>3. CASE out_data[w].items = <<>>
    <3>1. out_data' = out_data
      BY <1>2, <1>7, <2>2, <2>3, ZenonT(30) DEF EmptyData
    <3> QED
      BY <1>1, <1>2, <1>4, <1>5, <1>6, <2>1, <2>3, <3>1, Zenon DEF Transfers, Rest, MovesInOrder
  <2>4. ASSUME NEW e \in Events, out_data[w].items = <<e>> PROVE Transfers(w)
    <3>1. out_data[w].items # <<>> /\ out_data[w].items[1] = e
      BY <2>4
    <3>2. OutToPool(w, e)
      BY <1>2, <1>7, <2>1, <2>2, <2>4, <3>1, ZenonT(30) DEF OutToPool
    <3> QED
      BY <1>1, <1>8, <2>4, <3>2, ZenonT(30) DEF Transfers
  <2> QED
    BY <1>1, <1>4, <1>5, <1>6, <2>3, <2>4, ZenonT(30) DEF One, MovesInOrder
<1>9. CASE ~IsLast(w)
  <2>1. out_data[w].reserve_count = 1
    BY <1>1, <1>9, ZenonT(30) DEF OutSlot
  <2>2. PICK q \in QL : q = OutputQueue(w)
    BY <1>1, <1>9, QueuesOf, DataFacts, ZenonT(30)
  <2>3. /\ mailbox' = [mailbox EXCEPT ![q] = push_and_unreserve(mailbox[q], out_data[w].items, 1)]
        /\ pool' = pool
    BY <1>9, <2>1, <2>2, DataFacts, ZenonT(30) DEF PushOutput
  <2>4. OutToMail(w)
    BY <1>1, <1>2, <2>1, <2>2, <2>3, ZenonT(30) DEF OutToMail
  <2> QED
    BY <1>1, <1>4, <1>5, <1>6, <1>9, <2>4, ZenonT(30) DEF Transfers, MovesInOrder
<1> QED
  BY <1>8, <1>9

\* DoNext() comes back without an event, or process() throws: nothing moves.
LEMMA ProcessFailsMoves ==
    ASSUME IInv, NEW w \in Workers, EmitFails(w) \/ ProcessThrows(w), UNCHANGED assigned
    PROVE  Transfers(w) /\ MovesInOrder(w)
<1>1. /\ assigned[w] # None /\ step[w] = "process"
      /\ One(in_data[w].items) /\ in_data[w].reserve_count = InSlot(w)
      /\ out_data[w].items = <<>> /\ out_data[w].reserve_count = OutSlot(w)
  BY DataFacts, ZenonT(30) DEF EmitFails, ProcessThrows, Carrying
<1>2. /\ Rest /\ assigned' = assigned /\ in_data' = in_data /\ out_data' = out_data
      /\ \A v \in Workers : Carrying(v)
  BY DataFacts DEF EmitFails, ProcessThrows, Rest
<1>3. step' \in [Workers -> Steps] /\ result' \in [Workers -> Status]
      /\ step'[w] \in {"push_input", "threw"}
      /\ \A v \in Workers \ {w} : step'[v] = step[v]
  BY DataFacts DEF EmitFails, ProcessThrows, Steps, Status
<1>4. Carrying(w)'
  BY <1>1, <1>2, <1>3, ZenonT(30) DEF Carrying, InSlot, OutSlot, IsSource, IsLast
<1>5. \A v \in Workers \ {w} : Carrying(v)'
  BY <1>2, <1>3, CarryingKept, ZenonT(30)
<1> QED
  BY <1>1, <1>2, <1>3, <1>4, <1>5, ZenonT(30) DEF Transfers, MovesInOrder

\* DoNext() or process() succeeds: the event moves on.
LEMMA ProcessMoves ==
    ASSUME IInv, NEW w \in Workers, Emit(w) \/ ProcessEvent(w), UNCHANGED assigned
    PROVE  /\ assigned[w] # None /\ MovesInOrder(w)
           /\ \E e \in Events : InToOut(w, e)
<1>1. /\ assigned[w] # None /\ step[w] = "process"
      /\ One(in_data[w].items) /\ in_data[w].reserve_count = InSlot(w)
      /\ out_data[w].items = <<>> /\ out_data[w].reserve_count = OutSlot(w)
  BY DataFacts, ZenonT(30) DEF Emit, ProcessEvent, Carrying
<1>2. PICK e \in Events : in_data[w].items = <<e>>
  BY <1>1 DEF One
<1>3. InToOut(w, e)
  BY <1>1, <1>2, ZenonT(30) DEF Emit, ProcessEvent, InToOut
<1>4. /\ in_data'[w].items = <<>> /\ out_data'[w].items = <<e>>
      /\ in_data'[w].reserve_count = in_data[w].reserve_count
      /\ out_data'[w].reserve_count = out_data[w].reserve_count
      /\ \A v \in Workers \ {w} : in_data'[v] = in_data[v] /\ out_data'[v] = out_data[v]
  BY <1>2, <1>3, DataFacts, ZenonT(30) DEF InToOut, Succeed, Data
<1>5. step' \in [Workers -> Steps] /\ result' \in [Workers -> Status] /\ step'[w] = "push_input"
      /\ \A v \in Workers \ {w} : step'[v] = step[v]
  <2>1. step' = [step EXCEPT ![w] = "push_input"] /\ result' = [result EXCEPT ![w] = "KeepGoing"]
    BY ZenonT(30) DEF Emit, ProcessEvent
  <2>2. step \in [Workers -> Steps] /\ result \in [Workers -> Status]
    BY DataFacts, ZenonT(30)
  <2>3. "push_input" \in Steps /\ "KeepGoing" \in Status
    BY ZenonT(30) DEF Steps, Status
  <2> QED
    BY <2>1, <2>2, <2>3, ZenonT(30)
<1>6. Carrying(w)'
  BY <1>1, <1>4, <1>5, ZenonT(30) DEF Carrying, InSlot, OutSlot, IsSource, IsLast, One
<1>7. \A v \in Workers \ {w} : Carrying(v)'
  BY <1>4, <1>5, CarryingKept, DataFacts, ZenonT(30)
<1> QED
  BY <1>1, <1>3, <1>5, <1>6, <1>7, ZenonT(30) DEF MovesInOrder

\* Between two execute() calls a worker changes arrows, and has nothing.
LEMMA ChangeArrowMoves ==
    ASSUME IInv, NEW w \in Workers, End(w) \/ \E a \in Arrows : Begin(w, a)
    PROVE  /\ Rest /\ MovesInOrder(w)
           /\ \A v \in Workers : assigned'[v] # assigned[v] =>
                 in_data[v] = EmptyData /\ out_data[v] = EmptyData
           /\ assigned' \in [Workers -> Arrows \cup {None}]
<1>1. in_data[w] = EmptyData /\ out_data[w] = EmptyData
  BY DataFacts, ZenonT(30) DEF End, Begin, BetweenCalls, Carrying
<1>2. /\ Rest /\ in_data' = in_data /\ out_data' = out_data
      /\ \A v \in Workers : Carrying(v)
  BY DataFacts DEF End, Begin, Rest
<1>3. /\ assigned' \in [Workers -> Arrows \cup {None}]
      /\ \A v \in Workers \ {w} : assigned'[v] = assigned[v]
      /\ step' \in [Workers -> Steps] /\ result' \in [Workers -> Status]
      /\ \A v \in Workers \ {w} : step'[v] = step[v]
      /\ \/ step'[w] = "idle" /\ assigned'[w] = None
         \/ step'[w] = "pull_input" /\ assigned'[w] # None
  BY DataFacts, WorkersAssumption DEF TypeOK, End, Begin, Steps, Status
<1>4. Carrying(w)'
  BY <1>1, <1>2, <1>3, ZenonT(30) DEF Carrying
<1>5. \A v \in Workers \ {w} : Carrying(v)'
  BY <1>2, <1>3, CarryingKept, ZenonT(30)
<1> QED
  BY <1>1, <1>2, <1>3, <1>4, <1>5, ZenonT(30) DEF MovesInOrder

=============================================================================

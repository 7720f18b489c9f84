--------------------------- MODULE PipelineProofs ---------------------------
(***************************************************************************)
(* The data path of a chain of arrows, proved in order for any number of   *)
(* arrows, workers, locations and events, and any capacity.                *)
(***************************************************************************)
EXTENDS PipelineSteps

-----------------------------------------------------------------------------
(* Events in flight.                                                       *)

\* An event is in flight when a mailbox holds it, or a worker holds it between
\* the source's output and the last arrow's input.
LEMMA InFlightMeans ==
    ASSUME NEW f \in Events
    PROVE  f \in InFlight <=>
              \/ \E q \in QL : f \in Range(mailbox[q].queue)
              \/ \E v \in Workers : in_data[v].items = <<f>> /\ ~IsSource(v)
              \/ \E v \in Workers : out_data[v].items = <<f>> /\ ~IsLast(v)
BY DEF InFlight, QL, Range

\* The same after a step that lends no arrow.
LEMMA InFlightMeansNext ==
    ASSUME NEW f \in Events, assigned' = assigned
    PROVE  f \in InFlight' <=>
              \/ \E q \in QL : f \in Range(mailbox'[q].queue)
              \/ \E v \in Workers : in_data'[v].items = <<f>> /\ ~IsSource(v)
              \/ \E v \in Workers : out_data'[v].items = <<f>> /\ ~IsLast(v)
BY DEF InFlight, QL, Range, IsSource, IsLast

\* Moves other than from input to output leave the events in flight in flight.
LEMMA TransfersKeepFlight ==
    ASSUME Facts, DataOK, TypeOK, NEW w \in Workers, Transfers(w)
    PROVE  InFlight' = InFlight
<1> SUFFICES ASSUME NEW f \in Events PROVE f \in InFlight' <=> f \in InFlight
  BY Zenon DEF InFlight
<1>1. assigned' = assigned /\ in_data \in [Workers -> Data] /\ out_data \in [Workers -> Data]
  BY DEF Transfers, Rest, PoolToIn, InToPool, OutToPool, MailToIn, InToMail, ReserveOut, OutToMail,
         DataOK
<1>2. CASE Rest
  BY <1>1, <1>2, InFlightMeans, InFlightMeansNext, Zenon DEF Rest
<1>3. ASSUME IsSource(w), NEW e \in Events, PoolToIn(w, e) PROVE f \in InFlight' <=> f \in InFlight
  <2>1. mailbox' = mailbox /\ out_data' = out_data /\ \A v \in Workers \ {w} : in_data'[v] = in_data[v]
    BY <1>1, <1>3 DEF PoolToIn
  <2> QED
    BY <1>1, <1>3, <2>1, InFlightMeans, InFlightMeansNext, Zenon
<1>4. ASSUME IsSource(w), NEW e \in Events, InToPool(w, e) PROVE f \in InFlight' <=> f \in InFlight
  <2>1. mailbox' = mailbox /\ out_data' = out_data /\ \A v \in Workers \ {w} : in_data'[v] = in_data[v]
    BY <1>1, <1>4 DEF InToPool
  <2> QED
    BY <1>1, <1>4, <2>1, InFlightMeans, InFlightMeansNext, Zenon
<1>5. ASSUME IsLast(w), NEW e \in Events, OutToPool(w, e) PROVE f \in InFlight' <=> f \in InFlight
  <2>1. mailbox' = mailbox /\ in_data' = in_data /\ \A v \in Workers \ {w} : out_data'[v] = out_data[v]
    BY <1>1, <1>5 DEF OutToPool
  <2> QED
    BY <1>1, <1>5, <2>1, InFlightMeans, InFlightMeansNext, Zenon
<1>6. ASSUME assigned[w] # None, ~IsSource(w), NEW e \in Events, MailToIn(w, e)
      PROVE  f \in InFlight' <=> f \in InFlight
  <2>1. PICK q \in QL : q = InputQueue(w)
    BY <1>6, QueuesOf
  <2>2. /\ \A p \in QL \ {q} : mailbox'[p] = mailbox[p]
        /\ Range(mailbox'[q].queue) = Range(mailbox[q].queue) \ {e} /\ e \in Range(mailbox[q].queue)
    BY <1>6, <2>1, MailToInOK, Zenon
  <2>3. /\ in_data[w].items = <<>> /\ in_data'[w].items = <<e>> /\ out_data' = out_data
        /\ \A v \in Workers \ {w} : in_data'[v] = in_data[v]
    BY <1>1, <1>6, OneData DEF MailToIn
  <2>4. CASE f = e
    BY <1>1, <1>6, <2>2, <2>3, <2>4, InFlightMeans, InFlightMeansNext
  <2>5. CASE f # e
    <3>1. \A p \in QL : f \in Range(mailbox'[p].queue) <=> f \in Range(mailbox[p].queue)
      BY <2>2, <2>5
    <3>2. \A v \in Workers : in_data'[v].items = <<f>> <=> in_data[v].items = <<f>>
      BY <2>3, <2>5
    <3> QED
      BY <1>1, <2>3, <3>1, <3>2, InFlightMeans, InFlightMeansNext, Zenon
  <2> QED
    BY <2>4, <2>5
<1>7. ASSUME assigned[w] # None, ~IsSource(w), InToMail(w) PROVE f \in InFlight' <=> f \in InFlight
  <2>1. PICK q \in QL : q = InputQueue(w)
    BY <1>7, QueuesOf
  <2>2. /\ \A p \in QL \ {q} : mailbox'[p] = mailbox[p]
        /\ Range(mailbox'[q].queue) = Range(mailbox[q].queue) \cup Range(in_data[w].items)
    BY <1>7, <2>1, InToMailOK
  <2>3. /\ in_data'[w].items = <<>> /\ out_data' = out_data
        /\ \A v \in Workers \ {w} : in_data'[v] = in_data[v]
        /\ in_data[w].items = <<>> \/ One(in_data[w].items)
    BY <1>1, <1>7, OneData DEF InToMail
  <2>4. f \in Range(in_data[w].items) <=> in_data[w].items = <<f>>
    <3>1. CASE in_data[w].items = <<>>
      BY <3>1, OneData
    <3>2. ASSUME NEW e \in Events, in_data[w].items = <<e>>
          PROVE  f \in Range(in_data[w].items) <=> in_data[w].items = <<f>>
      <4>1. f \in Range(in_data[w].items) <=> f = e
        BY <3>2, OneData
      <4>2. <<e>> = <<f>> <=> e = f
        OBVIOUS
      <4> QED
        BY <3>2, <4>1, <4>2
    <3> QED
      BY <2>3, <3>1, <3>2 DEF One
  <2>5. (\E p \in QL : f \in Range(mailbox'[p].queue)) <=>
           (\E p \in QL : f \in Range(mailbox[p].queue)) \/ in_data[w].items = <<f>>
    BY <2>2, <2>4
  <2>6. (\E v \in Workers : in_data[v].items = <<f>> /\ ~IsSource(v)) <=>
           (\E v \in Workers : in_data'[v].items = <<f>> /\ ~IsSource(v)) \/ in_data[w].items = <<f>>
    BY <1>7, <2>3
  <2> QED
    BY <1>1, <2>3, <2>5, <2>6, InFlightMeans, InFlightMeansNext, Zenon
<1>8. ASSUME assigned[w] # None, ~IsLast(w), ReserveOut(w) PROVE f \in InFlight' <=> f \in InFlight
  <2>1. \A p \in QL : mailbox'[p].queue = mailbox[p].queue
    BY <1>8, ReserveOutOK
  <2>2. in_data' = in_data /\ \A v \in Workers : out_data'[v].items = out_data[v].items
    BY <1>1, <1>8 DEF ReserveOut, Data
  <2> QED
    BY <1>1, <2>1, <2>2, InFlightMeans, InFlightMeansNext, Zenon
<1>9. ASSUME assigned[w] # None, ~IsLast(w), OutToMail(w) PROVE f \in InFlight' <=> f \in InFlight
  <2>1. PICK q \in QL : q = OutputQueue(w)
    BY <1>9, QueuesOf
  <2>2. /\ \A p \in QL \ {q} : mailbox'[p] = mailbox[p]
        /\ Range(mailbox'[q].queue) = Range(mailbox[q].queue) \cup Range(out_data[w].items)
    BY <1>9, <2>1, OutToMailOK
  <2>3. /\ out_data'[w].items = <<>> /\ in_data' = in_data
        /\ \A v \in Workers \ {w} : out_data'[v] = out_data[v]
        /\ out_data[w].items = <<>> \/ One(out_data[w].items)
    BY <1>1, <1>9, OneData DEF OutToMail
  <2>4. f \in Range(out_data[w].items) <=> out_data[w].items = <<f>>
    <3>1. CASE out_data[w].items = <<>>
      BY <3>1, OneData
    <3>2. ASSUME NEW e \in Events, out_data[w].items = <<e>>
          PROVE  f \in Range(out_data[w].items) <=> out_data[w].items = <<f>>
      <4>1. f \in Range(out_data[w].items) <=> f = e
        BY <3>2, OneData
      <4>2. <<e>> = <<f>> <=> e = f
        OBVIOUS
      <4> QED
        BY <3>2, <4>1, <4>2
    <3> QED
      BY <2>3, <3>1, <3>2 DEF One
  <2>5. (\E p \in QL : f \in Range(mailbox'[p].queue)) <=>
           (\E p \in QL : f \in Range(mailbox[p].queue)) \/ out_data[w].items = <<f>>
    BY <2>2, <2>4
  <2>6. (\E v \in Workers : out_data[v].items = <<f>> /\ ~IsLast(v)) <=>
           (\E v \in Workers : out_data'[v].items = <<f>> /\ ~IsLast(v)) \/ out_data[w].items = <<f>>
    BY <1>9, <2>3
  <2> QED
    BY <1>1, <2>3, <2>5, <2>6, InFlightMeans, InFlightMeansNext, Zenon
<1> QED
  BY <1>2, <1>3, <1>4, <1>5, <1>6, <1>7, <1>8, <1>9 DEF Transfers

\* The move from input to output puts an event in flight at the source, and
\* ends its flight at the last arrow.
LEMMA InToOutFlight ==
    ASSUME DataOK, NEW w \in Workers, NEW e \in Events, InToOut(w, e), ~(IsSource(w) /\ IsLast(w))
    PROVE  /\ IsSource(w) => InFlight' = InFlight \cup {e} /\ e \notin InFlight
           /\ IsLast(w) => InFlight' = InFlight \ {e} /\ e \in InFlight
           /\ ~IsSource(w) /\ ~IsLast(w) => InFlight' = InFlight
<1>1. /\ in_data[w].items = <<e>> /\ out_data[w].items = <<>>
      /\ mailbox' = mailbox /\ assigned' = assigned
      /\ in_data'[w].items = <<>> /\ out_data'[w].items = <<e>>
      /\ \A v \in Workers \ {w} : in_data'[v] = in_data[v] /\ out_data'[v] = out_data[v]
  BY DEF DataOK, InToOut, Succeed, Data
<1>2. ASSUME NEW f \in Events \ {e} PROVE f \in InFlight' <=> f \in InFlight
  <2>1. <<e>> # <<f>> /\ <<>> # <<f>>
    OBVIOUS
  <2>2. \A v \in Workers : /\ in_data'[v].items = <<f>> <=> in_data[v].items = <<f>>
                           /\ out_data'[v].items = <<f>> <=> out_data[v].items = <<f>>
    BY <1>1, <2>1
  <2> QED
    BY <1>1, <2>2, InFlightMeans, InFlightMeansNext, Zenon
<1>3. /\ \A q \in QL : e \notin Range(mailbox[q].queue)
      /\ \A v \in Workers \ {w} : in_data[v].items # <<e>> /\ out_data[v].items # <<e>>
  <2>1. <<"in", w>> \in Places /\ e \in Range(SeqAt(<<"in", w>>))
    BY <1>1, PlaceKinds, OneData, ZenonT(30)
  <2>2. \A z \in Places \ {<<"in", w>>} : e \notin Range(SeqAt(z))
    BY <2>1, Apart DEF DataOK
  <2>3. ASSUME NEW q \in QL PROVE e \notin Range(mailbox[q].queue)
    BY <2>2, PlaceKinds, Zenon
  <2>4. ASSUME NEW v \in Workers \ {w} PROVE in_data[v].items # <<e>> /\ out_data[v].items # <<e>>
    <3>1. /\ <<"in", v>> \in Places \ {<<"in", w>>} /\ <<"out", v>> \in Places \ {<<"in", w>>}
          /\ SeqAt(<<"in", v>>) = in_data[v].items /\ SeqAt(<<"out", v>>) = out_data[v].items
      BY PlaceKinds
    <3>2. e \notin Range(in_data[v].items) /\ e \notin Range(out_data[v].items)
      BY <2>2, <3>1
    <3> QED
      BY <3>2, OneData, Zenon
  <2> QED
    BY <2>3, <2>4
<1>n. <<>> # <<e>>
  OBVIOUS
<1>4. e \in InFlight <=> ~IsSource(w)
  BY <1>1, <1>3, <1>n, InFlightMeans, Zenon
<1>5. e \in InFlight' <=> ~IsLast(w)
  BY <1>1, <1>3, <1>n, InFlightMeansNext, Zenon
<1>6. InFlight \subseteq Events /\ InFlight' \subseteq Events
  BY DEF InFlight
<1> QED
  BY <1>2, <1>4, <1>5, <1>6

\* As long as the source emits nothing and the last arrow processes nothing, the
\* numbers stay where they are.
LEMMA NumberedKept ==
    ASSUME Numbered, InFlight' = InFlight, UNCHANGED <<emitted, number, processed>>
    PROVE  Numbered'
BY DEF Numbered

\* The source gives the next number to an event that was not in flight.
LEMMA NumberedEmit ==
    ASSUME IInv, NEW w \in Workers, Emit(w), UNCHANGED assigned
    PROVE  Numbered' /\ number' \in [Events -> 0 .. NumEvents] /\ emitted' \in 0 .. NumEvents
<1>1. PICK e \in Events : InToOut(w, e)
  BY ProcessMoves
<1>2. assigned[w] # None /\ IsSource(w) /\ ~IsLast(w)
  BY ProcessMoves, QueuesOf, DataFacts, Zenon DEF Emit
<1>3. InFlight' = InFlight \cup {e} /\ e \notin InFlight
  BY <1>1, <1>2, InToOutFlight, DataFacts
<1>4. in_data[w].items[1] = e
  <2>1. in_data[w].items = <<e>>
    BY <1>1 DEF InToOut
  <2> QED
    BY <2>1
<1>5. /\ emitted \in Nat /\ emitted < NumEvents /\ emitted' = emitted + 1 /\ NumEvents \in Nat
      /\ number' = [number EXCEPT ![e] = emitted + 1] /\ processed' = processed
      /\ number \in [Events -> 0 .. NumEvents]
  <2>1. /\ emitted < NumEvents /\ emitted' = emitted + 1 /\ processed' = processed
        /\ number' = [number EXCEPT ![e] = emitted + 1]
    BY <1>4, Zenon DEF Emit
  <2>2. emitted \in 0 .. NumEvents /\ number \in [Events -> 0 .. NumEvents]
    BY DataFacts, Zenon DEF TypeOK, PipeTypeOK
  <2> QED
    BY <2>1, <2>2, ChainAssumption
<1>6. /\ number'[e] = emitted + 1 /\ \A f \in Events \ {e} : number'[f] = number[f]
      /\ InFlight \subseteq Events
  BY <1>5 DEF InFlight
<1>7. number' \in [Events -> 0 .. NumEvents] /\ emitted' \in 0 .. NumEvents
  BY <1>5
<1>8. /\ \A f \in InFlight : number[f] \in 1 .. emitted
      /\ \A f, g \in InFlight : number[f] = number[g] => f = g
      /\ \A n \in 1 .. emitted : processed[n] = IF \E f \in InFlight : number[f] = n THEN 0 ELSE 1
      /\ \A n \in Numbers : n > emitted => processed[n] = 0
  BY DEF IInv, Numbered
<1>9. \A f \in InFlight' : number'[f] \in 1 .. emitted'
  BY <1>3, <1>5, <1>6, <1>8
<1>10. \A f, g \in InFlight' : number'[f] = number'[g] => f = g
  BY <1>3, <1>5, <1>6, <1>8
<1>11. \A n \in 1 .. emitted' : processed'[n] = IF \E f \in InFlight' : number'[f] = n THEN 0 ELSE 1
  <2> SUFFICES ASSUME NEW n \in 1 .. emitted'
               PROVE  processed'[n] = IF \E f \in InFlight' : number'[f] = n THEN 0 ELSE 1
    OBVIOUS
  <2>1. CASE n = emitted + 1
    <3>1. n \in Numbers /\ n > emitted
      BY <1>5, <2>1 DEF Numbers
    <3> QED
      BY <1>3, <1>5, <1>6, <1>8, <2>1, <3>1
  <2>2. CASE n # emitted + 1
    <3>1. n \in 1 .. emitted
      BY <1>5, <2>2
    <3>2. (\E f \in InFlight' : number'[f] = n) <=> (\E f \in InFlight : number[f] = n)
      BY <1>3, <1>6, <2>2
    <3> QED
      BY <1>5, <1>8, <3>1, <3>2
  <2> QED
    BY <2>1, <2>2
<1>12. \A n \in Numbers : n > emitted' => processed'[n] = 0
  BY <1>5, <1>8 DEF Numbers
<1> QED
  BY <1>7, <1>9, <1>10, <1>11, <1>12 DEF Numbered

\* The last arrow processes an event whose number nobody else has.
LEMMA NumberedProcess ==
    ASSUME IInv, NEW w \in Workers, ProcessEvent(w), UNCHANGED assigned
    PROVE  Numbered' /\ processed' \in [Numbers -> Nat]
<1>1. PICK e \in Events : InToOut(w, e)
  BY ProcessMoves
<1>2. assigned[w] # None /\ ~IsSource(w)
  BY ProcessMoves, Zenon DEF ProcessEvent
<1>3. in_data[w].items[1] = e
  BY <1>1 DEF InToOut
<1>4. /\ emitted \in 0 .. NumEvents /\ NumEvents \in Nat /\ processed \in [Numbers -> Nat]
      /\ emitted' = emitted /\ number' = number
  BY DataFacts, ChainAssumption, ZenonT(30) DEF ProcessEvent, TypeOK, PipeTypeOK
<1>5. CASE ~IsLast(w)
  <2>1. InFlight' = InFlight
    BY <1>1, <1>2, <1>5, InToOutFlight, DataFacts
  <2>2. processed' = processed
    BY <1>5 DEF ProcessEvent
  <2> QED
    BY <1>4, <2>1, <2>2, NumberedKept DEF IInv
<1>6. CASE IsLast(w)
  <2> DEFINE k == number[e]
  <2>1. InFlight' = InFlight \ {e} /\ e \in InFlight
    BY <1>1, <1>2, <1>6, InToOutFlight, DataFacts
  <2>2. /\ \A f \in InFlight : number[f] \in 1 .. emitted
        /\ \A f, g \in InFlight : number[f] = number[g] => f = g
        /\ \A n \in 1 .. emitted : processed[n] = IF \E f \in InFlight : number[f] = n THEN 0 ELSE 1
        /\ \A n \in Numbers : n > emitted => processed[n] = 0
    BY DEF IInv, Numbered
  <2>3. k \in 1 .. emitted /\ k \in Numbers /\ processed[k] = 0
    BY <1>4, <2>1, <2>2 DEF Numbers
  <2>4. processed' = [processed EXCEPT ![k] = @ + 1]
    BY <1>3, <1>6 DEF ProcessEvent
  <2>5. processed' \in [Numbers -> Nat] /\ processed'[k] = 1
        /\ \A n \in Numbers \ {k} : processed'[n] = processed[n]
    BY <1>4, <2>3, <2>4
  <2> HIDE DEF k
  <2>6. \A n \in 1 .. emitted : processed'[n] = IF \E f \in InFlight' : number[f] = n THEN 0 ELSE 1
    <3> SUFFICES ASSUME NEW n \in 1 .. emitted
                 PROVE  processed'[n] = IF \E f \in InFlight' : number[f] = n THEN 0 ELSE 1
      OBVIOUS
    <3>1. CASE n = k
      <4>1. ~ \E f \in InFlight' : number[f] = n
        BY <2>1, <2>2, <3>1 DEF k
      <4> QED
        BY <2>5, <3>1, <4>1
    <3>2. CASE n # k
      <4>1. (\E f \in InFlight' : number[f] = n) <=> (\E f \in InFlight : number[f] = n)
        BY <2>1, <3>2 DEF k
      <4>2. n \in Numbers
        BY <1>4 DEF Numbers
      <4> QED
        BY <2>2, <2>5, <3>2, <4>1, <4>2
    <3> QED
      BY <3>1, <3>2
  <2>7. \A n \in Numbers : n > emitted => processed'[n] = 0
    BY <1>4, <2>2, <2>3, <2>5, SMTT(30)
  <2> QED
    BY <1>4, <2>1, <2>2, <2>5, <2>6, <2>7 DEF Numbered
<1> QED
  BY <1>5, <1>6

-----------------------------------------------------------------------------
(* The invariant.                                                          *)

LEMMA InitIInv == Facts /\ Init => IInv
<1> SUFFICES ASSUME Facts, Init PROVE IInv
  OBVIOUS
<1>1. /\ mailbox = [q \in QL |-> EmptyQueue] /\ pool = InitialPool
      /\ step = [w \in Workers |-> "idle"]
      /\ in_data = [w \in Workers |-> EmptyData] /\ out_data = [w \in Workers |-> EmptyData]
      /\ result = [w \in Workers |-> "NotRunYet"] /\ emitted = 0
      /\ number = [e \in Events |-> 0] /\ processed = [n \in Numbers |-> 0]
      /\ assigned = [w \in Workers |-> None]
  BY DEF Init, PipeInit, QL
<1>2. EmptyQueue \in LocalQueue(Events) /\ EmptyQueue.queue = <<>> /\ EmptyQueue.reserved_count = 0
  BY DEF EmptyQueue, LocalQueue
<1>3. /\ pool \in Pool /\ pool.heap = {} /\ pool.available = Items
      /\ \A l \in Locations : Items[l] \in Seq(PoolEvents)
  BY <1>1, PoolAssumption DEF InitialPool, Pool
<1>4. TypeOK
  <2>1. /\ mailbox \in [Queues \X Locations -> LocalQueue(Events)]
        /\ in_data \in [Workers -> Data] /\ out_data \in [Workers -> Data]
    BY <1>1, <1>2, OneData DEF QL
  <2>2. step \in [Workers -> Steps] /\ result \in [Workers -> Status]
    BY <1>1 DEF Steps, Status
  <2>3. /\ emitted \in 0 .. NumEvents /\ number \in [Events -> 0 .. NumEvents]
        /\ processed \in [Numbers -> Nat]
    BY <1>1, ChainAssumption
  <2>4. assigned \in [Workers -> Arrows \cup {None}]
    BY <1>1
  <2> QED
    BY <1>3, <2>1, <2>2, <2>3, <2>4, ZenonT(30) DEF TypeOK, PipeTypeOK
<1>5. \A w \in Workers : Carrying(w)
  BY <1>1, ZenonT(30) DEF Carrying
<1>6. ReservationsExact
  <2>1. \A q \in QL : SlotHolders(q) = {}
    BY <1>1, OneData DEF SlotHolders
  <2> QED
    BY <1>1, <1>2, <2>1, Zenon DEF Facts, SetFacts, ReservationsExact, QL
<1>7. QueueBound
  <2>1. 0 + 0 <= Capacity
    BY CapacityAssumption
  <2>2. \A q \in QL : Len(mailbox[q].queue) = 0 /\ mailbox[q].reserved_count = 0
    BY <1>1, <1>2
  <2> QED
    BY <2>1, <2>2 DEF QueueBound, QL
<1>8. Conserved
  <2>1. ASSUME NEW l \in Locations
        PROVE  IsInjective(Items[l]) /\ Range(Items[l]) = ItemsAt(l)
    <3>1. DOMAIN Items[l] = 1 .. Len(Items[l])
      BY <1>3
    <3>2. \A i, j \in 1 .. Len(Items[l]) : Items[l][i] = Items[l][j] => i = j
      BY PoolAssumption
    <3> QED
      BY <3>1, <3>2 DEF IsInjective, Range, ItemsAt
  <2>2. /\ \A l \in Locations : SeqAt(<<"pool", l>>) = Items[l]
        /\ \A q \in QL : SeqAt(<<"mailbox", q>>) = <<>>
        /\ \A w \in Workers : SeqAt(<<"in", w>>) = <<>> /\ SeqAt(<<"out", w>>) = <<>>
    BY <1>1, <1>2, <1>3, OneData, PlaceKinds, ZenonT(30)
  <2>3. \A x \in Places : Contents[x] = Range(SeqAt(x))
    BY DEF Contents
  <2>4. ASSUME NEW x \in Places
        PROVE  /\ IsInjective(SeqAt(x))
               /\ \/ \E l \in Locations : x = <<"pool", l>> /\ Contents[x] = ItemsAt(l)
                  \/ Contents[x] = {}
    <3>1. ASSUME NEW l \in Locations, x = <<"pool", l>>
          PROVE  IsInjective(SeqAt(x)) /\ Contents[x] = ItemsAt(l)
      BY <2>1, <2>2, <2>3, <3>1
    <3>2. ASSUME SeqAt(x) = <<>> PROVE IsInjective(SeqAt(x)) /\ Contents[x] = {}
      BY <2>3, <3>2, OneData
    <3>3. ASSUME NEW w \in Workers, x = <<"in", w>> \/ x = <<"out", w>> PROVE SeqAt(x) = <<>>
      BY <2>2, <3>3, Zenon
    <3>4. ASSUME NEW q \in QL, x = <<"mailbox", q>> PROVE SeqAt(x) = <<>>
      BY <2>2, <3>4
    <3> QED
      BY <3>1, <3>2, <3>3, <3>4, PlaceKinds
  <2>5. \A l \in Locations : Contents[<<"pool", l>>] = ItemsAt(l)
    BY <2>1, <2>2, <2>3, PlaceKinds, ZenonT(30)
  <2>6. Exclusive(Contents)
    BY <2>4, PoolAssumption DEF Exclusive
  <2>7. ASSUME NEW e \in Events PROVE e \in Live <=> \E x \in Places : e \in Contents[x]
    <3>1. Live = PoolEvents
      BY <1>3 DEF Live
    <3>2. ASSUME NEW l \in Locations, e \in ItemsAt(l) PROVE \E x \in Places : e \in Contents[x]
      BY <2>5, <3>2, PlaceKinds, Zenon
    <3> QED
      BY <2>4, <3>1, <3>2 DEF PoolEvents
  <2> QED
    BY <2>4, <2>5, <2>6, <2>7 DEF Conserved
<1>9. Numbered
  <2>1. ASSUME NEW f \in Events PROVE f \notin InFlight
    <3>1. <<>> # <<f>>
      OBVIOUS
    <3> QED
      BY <1>1, <1>2, <3>1, InFlightMeans, OneData, Zenon
  <2>2. InFlight = {}
    BY <2>1 DEF InFlight
  <2> QED
    BY <1>1, <2>2 DEF Numbered
<1> QED
  BY <1>4, <1>5, <1>6, <1>7, <1>8, <1>9 DEF IInv

\* The parts of the invariant that the moves establish, and the others.
LEMMA IInvParts ==
    ASSUME DataOK', \A w \in Workers : Carrying(w)', Numbered',
           step' \in [Workers -> Steps], result' \in [Workers -> Status],
           assigned' \in [Workers -> Arrows \cup {None}],
           emitted' \in 0 .. NumEvents, number' \in [Events -> 0 .. NumEvents],
           processed' \in [Numbers -> Nat]
    PROVE  IInv'
BY DEF IInv, DataOK, TypeOK, PipeTypeOK, QL

\* Every step of the workers keeps the inductive invariant.
LEMMA NextIInv == Facts /\ IInv /\ [Next]_vars => IInv'
<1> SUFFICES ASSUME Facts, IInv, [Next]_vars PROVE IInv'
  OBVIOUS
<1>1. /\ DataOK /\ TypeOK /\ Numbered
      /\ assigned \in [Workers -> Arrows \cup {None}]
      /\ emitted \in 0 .. NumEvents /\ number \in [Events -> 0 .. NumEvents]
      /\ processed \in [Numbers -> Nat]
  BY DataFacts DEF IInv, TypeOK, PipeTypeOK
<1>2. ASSUME NEW w \in Workers, Transfers(w), MovesInOrder(w),
             UNCHANGED <<emitted, number, processed, assigned>>
      PROVE  IInv'
  <2>1. DataOK' /\ InFlight' = InFlight
    BY <1>1, <1>2, TransfersOK, TransfersKeepFlight
  <2>2. Numbered'
    BY <1>1, <1>2, <2>1, NumberedKept
  <2> QED
    BY <1>1, <1>2, <2>1, <2>2, IInvParts DEF MovesInOrder
<1>3. ASSUME NEW w \in Workers, PullInput(w), UNCHANGED assigned PROVE IInv'
  BY <1>2, <1>3, PullInputMoves, ZenonT(30) DEF PullInput
<1>4. ASSUME NEW w \in Workers, PullOutput(w), UNCHANGED assigned PROVE IInv'
  BY <1>2, <1>4, PullOutputMoves DEF PullOutput
<1>5. ASSUME NEW w \in Workers, Revert(w), UNCHANGED assigned PROVE IInv'
  BY <1>2, <1>5, RevertMoves DEF Revert
<1>6. ASSUME NEW w \in Workers, Emit(w), UNCHANGED assigned PROVE IInv'
  <2>1. DataOK'
    BY <1>1, <1>6, ProcessMoves, InToOutOK
  <2>2. Numbered' /\ number' \in [Events -> 0 .. NumEvents] /\ emitted' \in 0 .. NumEvents
    BY <1>6, NumberedEmit
  <2>3. processed' = processed /\ assigned' = assigned
    BY <1>6 DEF Emit
  <2>4. MovesInOrder(w)
    BY <1>6, ProcessMoves
  <2> QED
    BY <1>1, <2>1, <2>2, <2>3, <2>4, IInvParts DEF MovesInOrder
<1>7. ASSUME NEW w \in Workers, EmitFails(w) \/ ProcessThrows(w), UNCHANGED assigned PROVE IInv'
  BY <1>2, <1>7, ProcessFailsMoves DEF EmitFails, ProcessThrows
<1>8. ASSUME NEW w \in Workers, ProcessEvent(w), UNCHANGED assigned PROVE IInv'
  <2>1. DataOK'
    BY <1>1, <1>8, ProcessMoves, InToOutOK
  <2>2. Numbered' /\ processed' \in [Numbers -> Nat]
    BY <1>8, NumberedProcess, ZenonT(30)
  <2>3. number' = number /\ emitted' = emitted /\ assigned' = assigned
    BY <1>8 DEF ProcessEvent
  <2>4. MovesInOrder(w)
    BY <1>8, ProcessMoves
  <2> QED
    BY <1>1, <2>1, <2>2, <2>3, <2>4, IInvParts DEF MovesInOrder
<1>9. ASSUME NEW w \in Workers, PushInput(w), UNCHANGED assigned PROVE IInv'
  BY <1>2, <1>9, PushInputMoves DEF PushInput
<1>10. ASSUME NEW w \in Workers, PushOutput(w), UNCHANGED assigned PROVE IInv'
  BY <1>2, <1>10, PushOutputMoves, Zenon DEF PushOutput
<1>11. ASSUME NEW w \in Workers, End(w) \/ \E a \in Arrows : Begin(w, a) PROVE IInv'
  <2>1. /\ Rest /\ MovesInOrder(w)
        /\ \A v \in Workers : assigned'[v] # assigned[v] =>
              in_data[v] = EmptyData /\ out_data[v] = EmptyData
        /\ assigned' \in [Workers -> Arrows \cup {None}]
    BY <1>11, ChangeArrowMoves
  <2>2. DataOK'
    BY <1>1, <2>1, RestOK
  <2>3. InFlight' = InFlight
    <3>1. \A v \in Workers : assigned'[v] # assigned[v] =>
             in_data[v].items = <<>> /\ out_data[v].items = <<>>
      BY <2>1, OneData
    <3>2. \A f \in Events : <<>> # <<f>>
      OBVIOUS
    <3> QED
      BY <2>1, <3>1, <3>2, Zenon DEF Rest, InFlight, IsSource, IsLast
  <2>4. UNCHANGED <<emitted, number, processed>>
    BY <1>11 DEF End, Begin
  <2>5. Numbered'
    BY <1>1, <2>3, <2>4, NumberedKept
  <2> QED
    BY <1>1, <2>1, <2>2, <2>4, <2>5, IInvParts DEF MovesInOrder
<1>12. ASSUME UNCHANGED vars PROVE IInv'
  <2>1. Rest /\ assigned' = assigned /\ step' = step /\ result' = result
        /\ UNCHANGED <<emitted, number, processed>>
    BY <1>12 DEF vars, pipeVars, Rest
  <2>2. DataOK'
    BY <1>1, <2>1, RestOK
  <2>3. InFlight' = InFlight
    BY <2>1 DEF Rest, InFlight, IsSource, IsLast
  <2>4. Numbered'
    BY <1>1, <2>1, <2>3, NumberedKept
  <2>5. \A v \in Workers : Carrying(v)'
    BY <2>1, CarryingKept, DataFacts DEF Rest
  <2> QED
    BY <1>1, <2>1, <2>2, <2>4, <2>5, DataFacts, IInvParts
<1> QED
  BY <1>3, <1>4, <1>5, <1>6, <1>7, <1>8, <1>9, <1>10, <1>11, <1>12 DEF Next, Execute

-----------------------------------------------------------------------------
(* Sequences and mailboxes.                                                *)

\* The elements of a sequence.
LEMMA SeqElements ==
    ASSUME NEW E, NEW s \in Seq(E)
    PROVE  Len(s) \in Nat /\ DOMAIN s = 1 .. Len(s) /\ \A i \in 1 .. Len(s) : s[i] \in E
OBVIOUS

\* The empty sequence.
LEMMA SeqEmpty ==
    ASSUME NEW E
    PROVE  <<>> \in Seq(E) /\ Len(<<>>) = 0 /\ \A s \in Seq(E) : Len(s) = 0 <=> s = <<>>
OBVIOUS

\* The first item alone, which is what a worker that asks for one event gets.
LEMMA SeqFirst ==
    ASSUME NEW E, NEW s \in Seq(E), Len(s) \in Nat \ {0}
    PROVE  SubSeq(s, 1, 1) = <<s[1]>>
<1> DEFINE u == SubSeq(s, 1, 1)
<1>1. u \in Seq(E) /\ Len(u) = 1 /\ u[1] = s[1]
  OBVIOUS
<1> HIDE DEF u
<1>2. u = <<u[1]>>
  BY <1>1
<1> QED
  BY <1>1, <1>2 DEF u

\* What push_back() does.
LEMMA SeqAppend ==
    ASSUME NEW E, NEW s \in Seq(E), NEW e \in E
    PROVE  /\ Append(s, e) \in Seq(E) /\ Len(Append(s, e)) = Len(s) + 1
           /\ \A i \in 1 .. Len(s) : Append(s, e)[i] = s[i]
           /\ Append(s, e)[Len(s) + 1] = e
           /\ s \o <<e>> = Append(s, e)
OBVIOUS

\* One queue after another.
LEMMA SeqConcat ==
    ASSUME NEW E, NEW s \in Seq(E), NEW t \in Seq(E)
    PROVE  s \o t \in Seq(E) /\ Len(s \o t) = Len(s) + Len(t) /\ s \o <<>> = s
OBVIOUS

\* A part of a queue.
LEMMA SeqPart ==
    ASSUME NEW E, NEW s \in Seq(E), NEW m \in Int, NEW n \in Int, 1 <= m, n <= Len(s)
    PROVE  /\ SubSeq(s, m, n) \in Seq(E)
           /\ Len(SubSeq(s, m, n)) = IF m <= n THEN n - m + 1 ELSE 0
           /\ \A i \in 1 .. n - m + 1 : SubSeq(s, m, n)[i] = s[m + i - 1]
           /\ SubSeq(s, 1, Len(s)) = s
OBVIOUS

\* An item pushed onto a stack or queue that does not have it.
LEMMA PushSeq ==
    ASSUME NEW E, NEW s \in Seq(E), IsInjective(s), NEW e \in E, e \notin Range(s)
    PROVE  /\ Append(s, e) \in Seq(E) /\ IsInjective(Append(s, e))
           /\ Range(Append(s, e)) = Range(s) \cup {e}
           /\ s \o <<e>> = Append(s, e)
<1> DEFINE t == Append(s, e)
<1>1. /\ t \in Seq(E) /\ Len(t) = Len(s) + 1 /\ t[Len(s) + 1] = e
      /\ \A i \in 1 .. Len(s) : t[i] = s[i]
  BY SeqAppend
<1>2. DOMAIN s = 1 .. Len(s) /\ DOMAIN t = 1 .. Len(s) + 1 /\ Len(s) \in Nat
  BY <1>1, SeqElements
<1>3. s \o <<e>> = t
  BY SeqAppend
<1>4. Range(t) = Range(s) \cup {e}
  <2> HIDE DEF t
  <2> QED
    BY <1>1, <1>2 DEF Range
<1>5. IsInjective(t)
  <2> HIDE DEF t
  <2>1. \A i \in 1 .. Len(s) : s[i] # e
    BY <1>2 DEF Range
  <2> QED
    BY <1>1, <1>2, <2>1 DEF IsInjective
<1> QED
  BY <1>1, <1>3, <1>4, <1>5

\* The item at the head of a queue is taken.
LEMMA PopHead ==
    ASSUME NEW E, NEW s \in Seq(E), IsInjective(s), Len(s) >= 1
    PROVE  LET t == SubSeq(s, 2, Len(s))
           IN  /\ t \in Seq(E) /\ Len(t) = Len(s) - 1
               /\ IsInjective(t)
               /\ Range(t) = Range(s) \ {s[1]}
               /\ s[1] \in Range(s) /\ s[1] \in E
<1> DEFINE t == SubSeq(s, 2, Len(s))
<1>1. Len(s) \in Nat /\ DOMAIN s = 1 .. Len(s) /\ \A i \in 1 .. Len(s) : s[i] \in E
  BY SeqElements
<1>n. Len(s) \in Nat
  BY <1>1
<1>2. /\ t \in Seq(E) /\ Len(t) = Len(s) - 1
      /\ \A i \in 1 .. Len(s) - 1 : t[i] = s[i + 1]
  <2>1. \A i \in 2 .. Len(s) : s[i] \in E
    BY <1>1
  <2>2. /\ t \in Seq(E) /\ Len(t) = (IF 2 <= Len(s) THEN Len(s) - 2 + 1 ELSE 0)
        /\ \A i \in 1 .. Len(s) - 2 + 1 : t[i] = s[2 + i - 1]
    BY <1>1, <2>1, SeqPart
  <2> HIDE DEF t
  <2>3. ASSUME NEW i \in 1 .. Len(s) - 1 PROVE t[i] = s[i + 1]
    <3>1. i \in 1 .. Len(s) - 2 + 1 /\ 2 + i - 1 = i + 1
      BY <1>1
    <3>2. t[i] = s[2 + i - 1]
      BY <2>2, <3>1
    <3> QED
      BY <3>1, <3>2
  <2>4. CASE 2 <= Len(s)
    <3>1. Len(t) = Len(s) - 2 + 1
      BY <2>2, <2>4
    <3> QED
      BY <1>n, <2>2, <2>3, <3>1
  <2>5. CASE ~(2 <= Len(s))
    <3>1. Len(t) = 0
      BY <2>2, <2>5
    <3>2. \A n \in Nat : n >= 1 /\ ~(2 <= n) => n = 1
      OBVIOUS
    <3>3. Len(s) = 1
      BY <1>n, <2>5, <3>2, ZenonT(30)
    <3> QED
      BY <2>2, <2>3, <3>1, <3>3
  <2> QED
    BY <2>4, <2>5
<1>3. DOMAIN t = 1 .. Len(s) - 1
  BY <1>2, SeqElements
<1> HIDE DEF t
<1>4. IsInjective(t)
  <2> SUFFICES ASSUME NEW i \in 1 .. Len(s) - 1, NEW j \in 1 .. Len(s) - 1, t[i] = t[j]
               PROVE  i = j
    BY <1>3 DEF IsInjective
  <2>1. i + 1 \in 1 .. Len(s) /\ j + 1 \in 1 .. Len(s) /\ s[i + 1] = s[j + 1]
    BY <1>1, <1>2
  <2>2. i + 1 = j + 1
    BY <1>1, <2>1 DEF IsInjective
  <2> QED
    BY <2>2
<1>5. ASSUME NEW x \in Range(t) PROVE x \in Range(s) \ {s[1]}
  <2>1. PICK i \in 1 .. Len(s) - 1 : x = s[i + 1]
    BY <1>2, <1>3 DEF Range
  <2> QED
    BY <1>1, <2>1 DEF Range, IsInjective
<1>6. ASSUME NEW x \in Range(s) \ {s[1]} PROVE x \in Range(t)
  <2>1. PICK i \in 1 .. Len(s) : x = s[i] /\ i # 1
    BY <1>1 DEF Range
  <2>2. i - 1 \in 1 .. Len(s) - 1 /\ (i - 1) + 1 = i
    BY <1>1, <2>1
  <2>3. t[i - 1] = x
    BY <1>2, <2>1, <2>2
  <2> QED
    BY <1>3, <2>2, <2>3 DEF Range
<1>7. s[1] \in Range(s) /\ s[1] \in E
  BY <1>1 DEF Range
<1> QED
  BY <1>2, <1>4, <1>5, <1>6, <1>7 DEF t

\* The item on top of a stack is taken.
LEMMA PopTop ==
    ASSUME NEW E, NEW s \in Seq(E), IsInjective(s), s # <<>>
    PROVE  LET t == SubSeq(s, 1, Len(s) - 1)
           IN  /\ t \in Seq(E)
               /\ IsInjective(t)
               /\ Range(t) = Range(s) \ {s[Len(s)]}
               /\ s[Len(s)] \in Range(s) /\ s[Len(s)] \in E
<1> DEFINE t == SubSeq(s, 1, Len(s) - 1)
<1>1. /\ Len(s) \in Nat \ {0} /\ DOMAIN s = 1 .. Len(s)
      /\ \A i \in 1 .. Len(s) : s[i] \in E
  BY SeqElements, SeqEmpty
<1>n. Len(s) \in Nat \ {0}
  BY <1>1
<1>2. /\ t \in Seq(E) /\ Len(t) = Len(s) - 1
      /\ \A i \in 1 .. Len(s) - 1 : t[i] = s[i]
  <2>1. \A i \in 1 .. Len(s) - 1 : s[i] \in E
    BY <1>1
  <2>2. /\ t \in Seq(E)
        /\ Len(t) = (IF 1 <= Len(s) - 1 THEN Len(s) - 1 - 1 + 1 ELSE 0)
        /\ \A i \in 1 .. Len(s) - 1 - 1 + 1 : t[i] = s[1 + i - 1]
    BY <1>1, <2>1, SeqPart
  <2> HIDE DEF t
  <2>3. ASSUME NEW i \in 1 .. Len(s) - 1 PROVE t[i] = s[i]
    <3>1. i \in 1 .. Len(s) - 1 - 1 + 1 /\ 1 + i - 1 = i
      BY <1>1
    <3>2. t[i] = s[1 + i - 1]
      BY <2>2, <3>1
    <3> QED
      BY <3>1, <3>2
  <2>4. CASE 1 <= Len(s) - 1
    <3>1. Len(t) = Len(s) - 1 - 1 + 1
      BY <2>2, <2>4
    <3> QED
      BY <1>n, <2>2, <2>3, <3>1
  <2>5. CASE ~(1 <= Len(s) - 1)
    <3>1. Len(t) = 0
      BY <2>2, <2>5
    <3>2. \A n \in Nat \ {0} : ~(1 <= n - 1) => n = 1
      OBVIOUS
    <3>3. Len(s) = 1
      BY <1>n, <2>5, <3>2, ZenonT(30)
    <3> QED
      BY <2>2, <2>3, <3>1, <3>3
  <2> QED
    BY <2>4, <2>5
<1>3. DOMAIN t = 1 .. Len(s) - 1
  BY <1>2, SeqElements
<1> HIDE DEF t
<1>4. IsInjective(t)
  BY <1>1, <1>2, <1>3 DEF IsInjective
<1>5. ASSUME NEW x \in Range(t) PROVE x \in Range(s) \ {s[Len(s)]}
  <2>1. PICK i \in 1 .. Len(s) - 1 : x = s[i]
    BY <1>2, <1>3 DEF Range
  <2> QED
    BY <1>1, <2>1 DEF Range, IsInjective
<1>6. ASSUME NEW x \in Range(s) \ {s[Len(s)]} PROVE x \in Range(t)
  <2>1. PICK i \in 1 .. Len(s) : x = s[i] /\ i # Len(s)
    BY <1>1, ZenonT(30) DEF Range
  <2>2. i \in 1 .. Len(s) - 1
    BY <1>n, <2>1
  <2>3. t[i] = x
    BY <1>2, <2>1, <2>2
  <2> QED
    BY <1>3, <2>2, <2>3, ZenonT(30) DEF Range
<1>7. s[Len(s)] \in Range(s) /\ s[Len(s)] \in E
  BY <1>1 DEF Range
<1> QED
  BY <1>2, <1>4, <1>5, <1>6, <1>7 DEF t

\* A LocalQueue is made of its two fields.
LEMMA QueueRecord ==
    ASSUME NEW s \in Seq(Events), NEW r \in Nat
    PROVE  /\ [queue |-> s, reserved_count |-> r] \in LocalQueue(Events)
           /\ [queue |-> s, reserved_count |-> r].queue = s
           /\ [queue |-> s, reserved_count |-> r].reserved_count = r
BY DEF LocalQueue

\* pop_and_reserve(1, 1) on a queue with an item: it comes out, and its slot stays.
LEMMA TakeOne ==
    ASSUME NEW m \in LocalQueue(Events), IsInjective(m.queue), m.queue # <<>>
    PROVE  TakesHead(m)
<1> USE DEF TakesHead
<1> DEFINE s == m.queue
<1>1. s \in Seq(Events) /\ m.reserved_count \in Nat
  BY DEF LocalQueue
<1>2. Len(s) \in Nat \ {0}
  BY <1>1, SeqEmpty
<1>3. Len(s) >= 1 /\ ~(Len(s) < 1)
  BY <1>2
<1>4. pop_count(m, 1, 1) = 1
  BY <1>3 DEF pop_count
<1>5. /\ SubSeq(s, 2, Len(s)) \in Seq(Events) /\ Len(SubSeq(s, 2, Len(s))) = Len(s) - 1
      /\ IsInjective(SubSeq(s, 2, Len(s)))
      /\ Range(SubSeq(s, 2, Len(s))) = Range(s) \ {s[1]}
      /\ s[1] \in Range(s) /\ s[1] \in Events
  BY <1>1, <1>3, PopHead
<1>6. popped(m, 1) = <<s[1]>>
  <2>1. SubSeq(s, 1, 1) = <<s[1]>>
    <3> HIDE DEF s
    <3> QED
      BY <1>1, <1>2, SeqFirst, ZenonT(30)
  <2> QED
    BY <2>1 DEF popped
<1>7. pop_and_reserve(m, 1) = [queue |-> SubSeq(s, 2, Len(s)), reserved_count |-> m.reserved_count + 1]
  BY DEF pop_and_reserve
<1>8. m.reserved_count + 1 \in Nat
  BY <1>1
<1>9. /\ pop_and_reserve(m, 1) \in LocalQueue(Events)
      /\ pop_and_reserve(m, 1).queue = SubSeq(s, 2, Len(s))
      /\ pop_and_reserve(m, 1).reserved_count = m.reserved_count + 1
  <2> DEFINE t == SubSeq(s, 2, Len(s))
             r == m.reserved_count + 1
  <2>1. t \in Seq(Events) /\ r \in Nat
    BY <1>5, <1>8
  <2>2. pop_and_reserve(m, 1) = [queue |-> t, reserved_count |-> r]
    BY <1>7
  <2> HIDE DEF t, r
  <2>3. /\ [queue |-> t, reserved_count |-> r] \in LocalQueue(Events)
        /\ [queue |-> t, reserved_count |-> r].queue = t
        /\ [queue |-> t, reserved_count |-> r].reserved_count = r
    BY <2>1, QueueRecord
  <2>4. /\ pop_and_reserve(m, 1) \in LocalQueue(Events)
        /\ pop_and_reserve(m, 1).queue = t /\ pop_and_reserve(m, 1).reserved_count = r
    BY <2>2, <2>3, Zenon
  <2> QED
    BY <2>4 DEF t, r
<1> QED
  BY <1>4, <1>5, <1>6, <1>9, Zenon

\* The same on an empty queue: nothing happens.
LEMMA TakeNone ==
    ASSUME NEW m \in LocalQueue(Events), m.queue = <<>>
    PROVE  TakesNothing(m)
<1> USE DEF TakesNothing
<1>1. m = [queue |-> m.queue, reserved_count |-> m.reserved_count] /\ m.reserved_count \in Nat
  BY DEF LocalQueue
<1>2. Len(m.queue) = 0
  BY SeqEmpty
<1>3. SubSeq(m.queue, 0 + 1, Len(m.queue)) = <<>> /\ SubSeq(m.queue, 1, 0) = <<>>
  BY <1>2
<1>4. m.reserved_count + 0 = m.reserved_count
  BY <1>1
<1>5. pop_count(m, 1, 1) = 0
  BY <1>2 DEF pop_count
<1>6. popped(m, 0) = <<>>
  BY <1>3 DEF popped
<1>7. pop_and_reserve(m, 0) = [queue |-> <<>>, reserved_count |-> m.reserved_count]
  BY <1>3, <1>4 DEF pop_and_reserve
<1> QED
  BY <1>1, <1>5, <1>6, <1>7

\* reserve(1, 1) finds a slot exactly when there is one.
LEMMA ReserveOne ==
    ASSUME NEW m \in LocalQueue(Events), Len(m.queue) + m.reserved_count <= Capacity
    PROVE  ReservesIfRoom(m)
<1> USE DEF ReservesIfRoom
<1> DEFINE n == reserve_count(m, 1, 1)
<1>1. m.queue \in Seq(Events) /\ m.reserved_count \in Nat
  BY DEF LocalQueue
<1>2. Len(m.queue) \in Nat
  BY <1>1, SeqElements
<1>3. ASSUME NEW k \in Nat, NEW r \in Nat, k + r <= Capacity
      PROVE  /\ k <= Capacity /\ r <= Capacity - k
             /\ Capacity - k - r < 1 => Capacity - k - r = 0
             /\ ~(Capacity - k - r < 1) => k + r + 1 <= Capacity
  BY <1>3, CapacityAssumption
<1>4. available_count(m) = Capacity - Len(m.queue) - m.reserved_count
  BY <1>1, <1>2, <1>3, ZenonT(30) DEF available_count, SizeSub
<1>5. n \in {0, 1} /\ (n = 1 => Len(m.queue) + m.reserved_count + 1 <= Capacity)
  <2> DEFINE v == available_count(m)
  <2>1. n = IF (IF v < 1 THEN v ELSE 1) < 1 THEN 0 ELSE (IF v < 1 THEN v ELSE 1)
    BY DEF reserve_count
  <2>2. v < 1 => v = 0
    BY <1>1, <1>2, <1>3, <1>4
  <2>3. ~(v < 1) => Len(m.queue) + m.reserved_count + 1 <= Capacity
    BY <1>1, <1>2, <1>3, <1>4
  <2> HIDE DEF n, v
  <2> QED
    BY <2>1, <2>2, <2>3
<1>6. reserve(m, n) = [m EXCEPT !.reserved_count = @ + n]
  BY DEF reserve
<1> HIDE DEF n
<1>7. m.reserved_count + n \in Nat /\ (n = 0 => m.reserved_count + n = m.reserved_count)
  BY <1>1, <1>5
<1> QED
  BY <1>1, <1>5, <1>6, <1>7 DEF n, LocalQueue

\* push_and_unreserve() of at most as many items as slots are given back.
LEMMA PushBack ==
    ASSUME NEW m \in LocalQueue(Events), IsInjective(m.queue),
           m.reserved_count >= 1, NEW items,
           \/ items = <<>>
           \/ \E e \in Events : items = <<e>> /\ e \notin Range(m.queue)
    PROVE  TakesBack(m, items)
<1> USE DEF TakesBack
<1> DEFINE p == push_and_unreserve(m, items, 1)
<1>1. m.queue \in Seq(Events) /\ m.reserved_count \in Nat
  BY DEF LocalQueue
<1>2. Len(m.queue) \in Nat
  BY <1>1, SeqElements
<1>3. p.queue = m.queue \o items /\ p.reserved_count = m.reserved_count - 1
  BY <1>1 DEF push_and_unreserve, SizeSub
<1>4. p = [queue |-> p.queue, reserved_count |-> p.reserved_count]
  BY DEF push_and_unreserve
<1>5. p.reserved_count \in Nat
  BY <1>1, <1>3
<1>6. CASE items = <<>>
  <2>1. p.queue = m.queue
    BY <1>1, <1>3, <1>6, SeqConcat
  <2>2. Len(items) = 0 /\ Range(items) = {}
    BY <1>6 DEF Range
  <2>3. Len(m.queue) + (m.reserved_count - 1) <= Len(m.queue) + m.reserved_count
    BY <1>1, <1>2
  <2> HIDE DEF p
  <2> QED
    BY <1>1, <1>3, <1>4, <1>5, <2>1, <2>2, <2>3 DEF LocalQueue, p
<1>7. CASE \E e \in Events : items = <<e>> /\ e \notin Range(m.queue)
  <2>0. PICK e \in Events : items = <<e>> /\ e \notin Range(m.queue)
    BY <1>7
  <2>a. p.queue = m.queue \o <<e>>
    BY <1>3, <2>0
  <2>b. e \notin Range(m.queue)
    BY <2>0
  <2> HIDE DEF p
  <2>c. /\ Append(m.queue, e) \in Seq(Events) /\ IsInjective(Append(m.queue, e))
        /\ Range(Append(m.queue, e)) = Range(m.queue) \cup {e}
        /\ m.queue \o <<e>> = Append(m.queue, e)
    BY <1>1, <2>b, PushSeq
  <2>1. /\ p.queue = Append(m.queue, e) /\ p.queue \in Seq(Events) /\ IsInjective(p.queue)
        /\ Range(p.queue) = Range(m.queue) \cup {e}
    BY <2>a, <2>c, Zenon
  <2>2. Len(p.queue) = Len(m.queue) + 1
    BY <1>1, <2>1, SeqAppend
  <2>3. Len(items) = 1 /\ Range(items) = {e}
    BY <2>0 DEF Range
  <2>4. (Len(m.queue) + 1) + (m.reserved_count - 1) <= Len(m.queue) + m.reserved_count
    BY <1>1, <1>2
  <2> QED
    BY <1>3, <1>4, <1>5, <2>1, <2>2, <2>3, <2>4 DEF LocalQueue, p
<1> QED
  BY <1>6, <1>7

-----------------------------------------------------------------------------
(* The pool.                                                               *)

\* pop() takes the top of the stack, or makes an event that was not alive.
LEMMA PoolPop ==
    ASSUME NEW p \in Pool, NEW l \in Locations, NEW e \in poppable(p, l),
           IsInjective(p.available[l])
    PROVE  Pops(p, l, e)
<1> USE DEF Pops
<1> DEFINE r == pool_pop(p, l, e)
           s == p.available[l]
<1>1. s \in Seq(PoolEvents) /\ p.available \in [Locations -> Seq(PoolEvents)]
      /\ p.heap \in SUBSET HeapEvents
  BY DEF Pool
<1>2. CASE s # <<>>
  <2> DEFINE t == SubSeq(s, 1, Len(s) - 1)
  <2>1. e = s[Len(s)]
    BY <1>2, ZenonT(30) DEF poppable
  <2>2. /\ t \in Seq(PoolEvents) /\ IsInjective(t) /\ Range(t) = Range(s) \ {e}
        /\ e \in Range(s) /\ e \in PoolEvents
    BY <1>1, <1>2, <2>1, PopTop
  <2>3. r = [p EXCEPT !.available[l] = t]
    BY <2>2 DEF pool_pop
  <2> HIDE DEF t
  <2>4. r \in Pool /\ r.heap = p.heap /\ r.available = [p.available EXCEPT ![l] = t]
    BY <1>1, <2>2, <2>3, ZenonT(30) DEF Pool
  <2> HIDE DEF r
  <2> QED
    BY <1>1, <2>2, <2>4, ZenonT(30) DEF r, Events
<1>3. CASE s = <<>>
  <2>1. e \in HeapEvents \ p.heap
    BY <1>3 DEF poppable
  <2>2. e \notin PoolEvents
    BY <2>1, PoolAssumption
  <2>3. r = [p EXCEPT !.heap = @ \cup {e}]
    BY <2>2 DEF pool_pop
  <2>4. r \in Pool /\ r.heap = p.heap \cup {e} /\ r.available = p.available
    BY <1>1, <2>1, <2>3, ZenonT(30) DEF Pool
  <2> HIDE DEF r
  <2> QED
    BY <1>1, <2>1, <2>4 DEF r, Events
<1> QED
  BY <1>2, <1>3, ZenonT(30)

\* put() gives a pool event back to the location it belongs to, and deletes any other.
LEMMA PoolPut ==
    ASSUME NEW p \in Pool, NEW l \in Locations, NEW e \in Events,
           \A k \in Locations : IsInjective(p.available[k]) /\ e \notin Range(p.available[k])
    PROVE  Puts(p, l, e)
<1> USE DEF Puts
<1> DEFINE r == put(p, l, e)
<1>1. p.available \in [Locations -> Seq(PoolEvents)] /\ p.heap \in SUBSET HeapEvents
  BY DEF Pool
<1>2. CASE e \in PoolEvents
  <2> DEFINE av == [j \in Locations |-> IF e \in ItemsAt(j) THEN Append(p.available[j], e)
                                                         ELSE p.available[j]]
  <2>1. PICK k \in Locations : e \in ItemsAt(k)
    BY <1>2 DEF PoolEvents
  <2>2. \A j \in Locations \ {k} : e \notin ItemsAt(j)
    BY <2>1, PoolAssumption
  <2>3. r = [p EXCEPT !.available = av]
    BY <1>2 DEF put
  <2>4. /\ Append(p.available[k], e) \in Seq(PoolEvents)
        /\ IsInjective(Append(p.available[k], e))
        /\ Range(Append(p.available[k], e)) = Range(p.available[k]) \cup {e}
    <3>1. p.available[k] \in Seq(PoolEvents)
      BY <1>1
    <3>2. IsInjective(p.available[k]) /\ e \notin Range(p.available[k])
      OBVIOUS
    <3> QED
      BY <1>2, <3>1, <3>2, PushSeq
  <2>5. /\ av \in [Locations -> Seq(PoolEvents)]
        /\ av[k] = Append(p.available[k], e)
        /\ \A j \in Locations \ {k} : av[j] = p.available[j]
    BY <1>1, <2>1, <2>2, <2>4
  <2> HIDE DEF av
  <2>6. r \in Pool /\ r.heap = p.heap /\ r.available = av
    BY <1>1, <2>3, <2>5, ZenonT(30) DEF Pool
  <2> HIDE DEF r
  <2>7. /\ IsInjective(r.available[k]) /\ Range(r.available[k]) = Range(p.available[k]) \cup {e}
        /\ \A j \in Locations \ {k} : r.available[j] = p.available[j]
    BY <2>4, <2>5, <2>6, ZenonT(30)
  <2> QED
    BY <1>2, <2>1, <2>6, <2>7 DEF r
<1>3. CASE e \notin PoolEvents
  <2>1. r = [p EXCEPT !.heap = @ \ {e}]
    BY <1>3 DEF put
  <2>2. r \in Pool /\ r.heap = p.heap \ {e} /\ r.available = p.available
    BY <1>1, <2>1 DEF Pool
  <2> HIDE DEF r
  <2> QED
    BY <1>3, <2>2 DEF r
<1> QED
  BY <1>2, <1>3, ZenonT(30)

-----------------------------------------------------------------------------
(* The facts that the moves rest on.                                       *)

INSTANCE FiniteSetTheorems

\* Counting slot holders: a worker more or less is a slot more or less.
LEMMA SetFactsHold == SetFacts
<1>1. Cardinality({}) = 0
  BY FS_EmptySet
<1>2. ASSUME NEW S \in SUBSET Workers
      PROVE  IsFiniteSet(S) /\ (Cardinality(S) = 0 => S = {})
  <2>1. IsFiniteSet(S)
    BY FS_Subset, WorkersAssumption
  <2> QED
    BY <2>1, FS_EmptySet
<1>3. ASSUME NEW S \in SUBSET Workers, NEW w \in Workers
      PROVE  /\ w \notin S => Cardinality(S \cup {w}) = Cardinality(S) + 1
             /\ w \in S => Cardinality(S \ {w}) = Cardinality(S) - 1
  <2>1. IsFiniteSet(S)
    BY <1>2
  <2>2. w \notin S => Cardinality(S \cup {w}) = Cardinality(S) + 1
    BY <2>1, FS_AddElement
  <2>3. w \in S => Cardinality(S \ {w}) = Cardinality(S) - 1
    BY <2>1, FS_RemoveElement, ZenonT(30)
  <2> QED
    BY <2>2, <2>3
<1> QED
  BY <1>1, <1>2, <1>3 DEF SetFacts

\* What the operations of JMailbox do to a queue.
LEMMA MailboxFactsHold == MailboxFacts
<1> SUFFICES ASSUME NEW m \in LocalQueue(Events)
             PROVE  /\ Len(m.queue) \in Nat
                    /\ IsInjective(m.queue) /\ m.queue # <<>> => TakesHead(m)
                    /\ m.queue = <<>> => TakesNothing(m)
                    /\ Len(m.queue) + m.reserved_count <= Capacity => ReservesIfRoom(m)
                    /\ IsInjective(m.queue) /\ m.reserved_count >= 1 =>
                          /\ TakesBack(m, <<>>)
                          /\ \A e \in Events : e \notin Range(m.queue) => TakesBack(m, <<e>>)
  BY DEF MailboxFacts
<1>1. Len(m.queue) \in Nat
  BY SeqElements DEF LocalQueue
<1>2. IsInjective(m.queue) /\ m.reserved_count >= 1 => TakesBack(m, <<>>)
  BY PushBack
<1>3. ASSUME IsInjective(m.queue), m.reserved_count >= 1, NEW e \in Events, e \notin Range(m.queue)
      PROVE  TakesBack(m, <<e>>)
  BY <1>3, PushBack
<1> QED
  BY <1>1, <1>2, <1>3, TakeOne, TakeNone, ReserveOne, ZenonT(30)

\* All of them.
LEMMA FactsHold == Facts
<1>1. PoolFacts
  BY PoolPop, PoolPut DEF PoolFacts
<1> QED
  BY <1>1, SetFactsHold, MailboxFactsHold DEF Facts


-----------------------------------------------------------------------------
(* The invariant holds.                                                    *)

\* IInv holds in every state of every chain of arrows.
THEOREM IInvCorrect == Spec => []IInv
BY FactsHold, InitIInv, NextIInv, PTL DEF Spec

-----------------------------------------------------------------------------
(* What follows from it.                                                   *)

\* Every variable of the data path keeps its type.
THEOREM TypeCorrect == Spec => []TypeOK
<1>1. IInv => TypeOK
  BY DEF IInv
<1> QED
  BY <1>1, IInvCorrect, PTL

\* The reserved slots of every JMailbox are exactly those its users hold: no
\* pull, revert, failed emission or exception leaks a reservation or returns one
\* twice, whatever the scheduler does.
THEOREM ReservationsCorrect == Spec => []ReservationsExact
<1>1. IInv => ReservationsExact
  BY DEF IInv
<1> QED
  BY <1>1, IInvCorrect, PTL

\* A worker that holds a slot may push what it has.
LEMMA PushFits ==
    ASSUME IInv, NEW w \in Workers, NEW q \in QL, w \in SlotHolders(q), NEW items,
           items = <<>> \/ One(items)
    PROVE  PushAllowed(mailbox[q], Len(items), 1)
<1>1. mailbox[q] \in LocalQueue(Events) /\ Len(mailbox[q].queue) + mailbox[q].reserved_count <= Capacity
  BY DataFacts DEF IInv, QueueBound, QL
<1>2. Len(mailbox[q].queue) \in Nat /\ mailbox[q].reserved_count \in Nat
  BY <1>1 DEF LocalQueue
<1>3. mailbox[q].reserved_count >= 1
  BY <1>2, SlotCounted, FactsHold DEF IInv
<1>4. Len(items) \in {0, 1}
  BY DEF One
<1>5. \A a, b \in Nat : \A c \in {0, 1} : a + b <= Capacity /\ b >= 1 => 1 <= b /\ a + c <= Capacity
  BY CapacityAssumption
<1> QED
  BY <1>1, <1>2, <1>3, <1>4, <1>5, ZenonT(30) DEF PushAllowed

\* A mailbox never holds more than its capacity, promised slots included, and
\* the assertions at the head of push_and_unreserve() hold at every push and
\* every revert.
THEOREM BoundedCorrect == Spec => []MailboxBounded
<1>1. IInv => MailboxBounded
  <2> SUFFICES ASSUME IInv PROVE MailboxBounded
    OBVIOUS
  <2>1. QueueBound
    BY DEF IInv
  <2>2. ASSUME NEW w \in Workers, step[w] \in {"revert", "push_input"}, ~IsSource(w)
        PROVE  PushAllowed(mailbox[InputQueue(w)], Len(in_data[w].items), in_data[w].reserve_count)
    <3>1. /\ assigned[w] # None /\ in_data[w].reserve_count = 1
          /\ in_data[w].items = <<>> \/ One(in_data[w].items)
      BY <2>2, DataFacts, ZenonT(30) DEF Carrying, InSlot
    <3>2. InputQueue(w) \in QL
      BY <2>2, <3>1, QueuesOf, DataFacts
    <3>3. w \in SlotHolders(InputQueue(w))
      BY <3>1, ZenonT(30) DEF SlotHolders
    <3> QED
      BY <3>1, <3>2, <3>3, PushFits, ZenonT(30)
  <2>3. ASSUME NEW w \in Workers, step[w] = "push_output", ~IsLast(w)
        PROVE  PushAllowed(mailbox[OutputQueue(w)], Len(out_data[w].items), out_data[w].reserve_count)
    <3>1. /\ assigned[w] # None /\ out_data[w].reserve_count = 1
          /\ out_data[w].items = <<>> \/ One(out_data[w].items)
      BY <2>3, DataFacts, ZenonT(30) DEF Carrying, OutSlot
    <3>2. OutputQueue(w) \in QL
      BY <2>3, <3>1, QueuesOf, DataFacts, ZenonT(30)
    <3>3. w \in SlotHolders(OutputQueue(w))
      BY <3>1 DEF SlotHolders
    <3> QED
      BY <3>1, <3>2, <3>3, PushFits
  <2> QED
    BY <2>1, <2>2, <2>3 DEF MailboxBounded, QueueBound
<1> QED
  BY <1>1, IInvCorrect, PTL

\* An occurrence is an index of a stack or a queue, or the Data of a worker.
LEMMA OccurrenceAt ==
    ASSUME NEW e, NEW o
    PROVE  o \in Occurrences(e) <=>
              \/ \E l \in Locations : \E i \in DOMAIN pool.available[l] :
                    pool.available[l][i] = e /\ o = <<"pool", l, i>>
              \/ \E q \in QL : \E i \in DOMAIN mailbox[q].queue :
                    mailbox[q].queue[i] = e /\ o = <<"mailbox", q, i>>
              \/ \E w \in Workers : in_data[w].items = <<e>> /\ o = <<"in", w>>
              \/ \E w \in Workers : out_data[w].items = <<e>> /\ o = <<"out", w>>
<1> DEFINE P == UNION {{<<"pool", l, i>> : i \in {i \in DOMAIN pool.available[l] :
                                                      pool.available[l][i] = e}} : l \in Locations}
           M == UNION {{<<"mailbox", q, i>> : i \in {i \in DOMAIN mailbox[q].queue :
                                                         mailbox[q].queue[i] = e}} : q \in QL}
           I == {<<"in", w>> : w \in {w \in Workers : in_data[w].items = <<e>>}}
           O == {<<"out", w>> : w \in {w \in Workers : out_data[w].items = <<e>>}}
<1>0. QL = Queues \X Locations
  BY DEF QL
<1>1. Occurrences(e) = P \cup M \cup I \cup O
  BY <1>0 DEF Occurrences
<1>2. o \in P <=> \E l \in Locations : \E i \in DOMAIN pool.available[l] :
                     pool.available[l][i] = e /\ o = <<"pool", l, i>>
  OBVIOUS
<1>3. o \in M <=> \E q \in QL : \E i \in DOMAIN mailbox[q].queue :
                     mailbox[q].queue[i] = e /\ o = <<"mailbox", q, i>>
  OBVIOUS
<1>4. o \in I <=> \E w \in Workers : in_data[w].items = <<e>> /\ o = <<"in", w>>
  OBVIOUS
<1>5. o \in O <=> \E w \in Workers : out_data[w].items = <<e>> /\ o = <<"out", w>>
  OBVIOUS
<1> HIDE DEF P, M, I, O
<1> QED
  BY <1>1, <1>2, <1>3, <1>4, <1>5

\* The place an occurrence is in.
At(e, o, x) ==
    /\ e \in Range(SeqAt(x))
    /\ \/ \E l \in Locations : \E i \in DOMAIN SeqAt(x) :
             x = <<"pool", l>> /\ o = <<"pool", l, i>> /\ SeqAt(x)[i] = e
       \/ \E q \in QL : \E i \in DOMAIN SeqAt(x) :
             x = <<"mailbox", q>> /\ o = <<"mailbox", q, i>> /\ SeqAt(x)[i] = e
       \/ \E w \in Workers : x = <<"in", w>> /\ o = x
       \/ \E w \in Workers : x = <<"out", w>> /\ o = x

\* Every occurrence of an event is in some place.
LEMMA OccurrencePlace ==
    ASSUME NEW e \in Events, NEW o \in Occurrences(e)
    PROVE  \E x \in Places : At(e, o, x)
<1>1. ASSUME NEW l \in Locations, NEW i \in DOMAIN pool.available[l],
             pool.available[l][i] = e, o = <<"pool", l, i>>
      PROVE  \E x \in Places : At(e, o, x)
  <2> DEFINE x == <<"pool", l>>
  <2>1. x \in Places /\ SeqAt(x) = pool.available[l]
    BY PlaceKinds
  <2>2. e \in Range(SeqAt(x))
    BY <1>1, <2>1, ZenonT(30) DEF Range
  <2>3. At(e, o, x)
    BY <1>1, <2>1, <2>2, ZenonT(30) DEF At
  <2> QED
    BY <2>1, <2>3
<1>2. ASSUME NEW q \in QL, NEW i \in DOMAIN mailbox[q].queue,
             mailbox[q].queue[i] = e, o = <<"mailbox", q, i>>
      PROVE  \E x \in Places : At(e, o, x)
  <2> DEFINE x == <<"mailbox", q>>
  <2>1. x \in Places /\ SeqAt(x) = mailbox[q].queue
    BY PlaceKinds
  <2>2. e \in Range(SeqAt(x))
    BY <1>2, <2>1 DEF Range
  <2>3. At(e, o, x)
    BY <1>2, <2>1, <2>2, ZenonT(30) DEF At
  <2> QED
    BY <2>1, <2>3, ZenonT(30)
<1>3. ASSUME NEW w \in Workers, in_data[w].items = <<e>>, o = <<"in", w>>
      PROVE  \E x \in Places : At(e, o, x)
  <2>1. o \in Places /\ SeqAt(o) = <<e>>
    BY <1>3, PlaceKinds, ZenonT(30)
  <2>2. e \in Range(SeqAt(o))
    BY <2>1, OneData
  <2> QED
    BY <1>3, <2>1, <2>2, ZenonT(30) DEF At
<1>4. ASSUME NEW w \in Workers, out_data[w].items = <<e>>, o = <<"out", w>>
      PROVE  \E x \in Places : At(e, o, x)
  <2>1. o \in Places /\ SeqAt(o) = <<e>>
    BY <1>4, PlaceKinds, ZenonT(30)
  <2>2. e \in Range(SeqAt(o))
    BY <2>1, OneData
  <2> QED
    BY <1>4, <2>1, <2>2 DEF At
<1> QED
  BY <1>1, <1>2, <1>3, <1>4, OccurrenceAt

\* No event is twice in the pools, the mailboxes and the workers' hands.
LEMMA OccurrenceUnique ==
    ASSUME Conserved, NEW e \in Events, NEW o \in Occurrences(e), NEW p \in Occurrences(e)
    PROVE  o = p
<1>1. PICK x \in Places : At(e, o, x)
  BY OccurrencePlace
<1>2. PICK y \in Places : At(e, p, y)
  BY OccurrencePlace
<1>3. e \in Contents[x] /\ e \in Contents[y]
  BY <1>1, <1>2 DEF At, Contents
<1>4. x = y
  BY <1>3, ZenonT(30) DEF Conserved, Exclusive
<1>5. \A i, j \in DOMAIN SeqAt(x) : SeqAt(x)[i] = e /\ SeqAt(x)[j] = e => i = j
  BY DEF Conserved, IsInjective
<1> QED
  BY <1>1, <1>2, <1>4, <1>5 DEF At

\* An event that some place holds has an occurrence.
LEMMA OccurrenceExists ==
    ASSUME IInv, NEW e \in Events, NEW x \in Places, e \in Range(SeqAt(x))
    PROVE  Occurrences(e) # {}
<1>1. ASSUME NEW l \in Locations, x = <<"pool", l>> PROVE Occurrences(e) # {}
  <2>1. PICK i \in DOMAIN pool.available[l] : pool.available[l][i] = e
    BY <1>1, PlaceKinds DEF Range
  <2>2. <<"pool", l, i>> \in Occurrences(e)
    BY <2>1, OccurrenceAt, Zenon
  <2> QED
    BY <2>2
<1>2. ASSUME NEW q \in QL, x = <<"mailbox", q>> PROVE Occurrences(e) # {}
  <2>1. PICK i \in DOMAIN mailbox[q].queue : mailbox[q].queue[i] = e
    BY <1>2, PlaceKinds DEF Range
  <2>2. <<"mailbox", q, i>> \in Occurrences(e)
    BY <2>1, OccurrenceAt, Zenon
  <2> QED
    BY <2>2
<1>3. ASSUME NEW items, items = <<>> \/ One(items), e \in Range(items) PROVE items = <<e>>
  BY <1>3, OneData DEF One
<1>4. ASSUME NEW w \in Workers
      PROVE  /\ in_data[w].items = <<>> \/ One(in_data[w].items)
             /\ out_data[w].items = <<>> \/ One(out_data[w].items)
  BY DataFacts, OneData, ZenonT(30) DEF Carrying, Steps
<1>5. ASSUME NEW w \in Workers, x = <<"in", w>> PROVE Occurrences(e) # {}
  <2>1. in_data[w].items = <<e>>
    BY <1>3, <1>4, <1>5, PlaceKinds, ZenonT(30)
  <2> QED
    BY <2>1, OccurrenceAt, ZenonT(30)
<1>6. ASSUME NEW w \in Workers, x = <<"out", w>> PROVE Occurrences(e) # {}
  <2>1. out_data[w].items = <<e>>
    BY <1>3, <1>4, <1>6, PlaceKinds, ZenonT(30)
  <2> QED
    BY <2>1, OccurrenceAt, ZenonT(30)
<1> QED
  BY <1>1, <1>2, <1>5, <1>6, PlaceKinds, ZenonT(30)

\* No event is ever in two places or in none, through pulls, reverts, failed
\* emissions and exceptions; a pool event rests only at the location it belongs
\* to, and an event of the heap is alive exactly as long as someone has it.
THEOREM ConservationCorrect == Spec => []EventsConserved
<1>1. IInv => EventsConserved
  <2> SUFFICES ASSUME IInv PROVE EventsConserved
    OBVIOUS
  <2>0. Conserved
    BY DEF IInv
  <2>1. ASSUME NEW e \in Events, e \in Live PROVE Cardinality(Occurrences(e)) = 1
    <3>1. PICK x \in Places : e \in Range(SeqAt(x))
      BY <2>0, <2>1 DEF Conserved, Contents
    <3>2. PICK o : o \in Occurrences(e)
      BY <3>1, OccurrenceExists
    <3>3. Occurrences(e) = {o}
      BY <2>0, <3>2, OccurrenceUnique
    <3> QED
      BY <3>3, FS_Singleton, ZenonT(30)
  <2>2. ASSUME NEW e \in Events, e \notin Live PROVE Cardinality(Occurrences(e)) = 0
    <3>1. \A x \in Places : e \notin Range(SeqAt(x))
      BY <2>0, <2>2 DEF Conserved, Contents
    <3>2. Occurrences(e) = {}
      BY <3>1, OccurrencePlace DEF At
    <3> QED
      BY <3>2, FS_EmptySet
  <2>3. \A e \in PoolEvents : Cardinality(Occurrences(e)) = 1
    BY <2>1 DEF Live, Events
  <2>4. \A e \in HeapEvents : Cardinality(Occurrences(e)) = IF e \in pool.heap THEN 1 ELSE 0
    BY <2>1, <2>2, PoolAssumption DEF Live, Events
  <2>5. ASSUME NEW l \in Locations, NEW i \in DOMAIN pool.available[l]
        PROVE  pool.available[l][i] \in ItemsAt(l)
    <3>1. <<"pool", l>> \in Places /\ SeqAt(<<"pool", l>>) = pool.available[l]
      BY PlaceKinds
    <3>2. Contents[<<"pool", l>>] = Range(pool.available[l])
      BY <3>1 DEF Contents
    <3> QED
      BY <2>0, <3>2 DEF Conserved, Range
  <2> QED
    BY <2>3, <2>4, <2>5 DEF EventsConserved
<1> QED
  BY <1>1, IInvCorrect, PTL

\* Every event number the source gives out is in flight in one event, or has
\* been processed by the last arrow once and is in flight no more.
THEOREM ExactlyOnceCorrect == Spec => []ExactlyOnce
<1>1. IInv => ExactlyOnce
  <2> SUFFICES ASSUME IInv, NEW n \in 1 .. emitted
               PROVE  processed[n] + Cardinality({e \in InFlight : number[e] = n}) = 1
    BY DEF ExactlyOnce
  <2>1. /\ \A e, f \in InFlight : number[e] = number[f] => e = f
        /\ processed[n] = IF \E e \in InFlight : number[e] = n THEN 0 ELSE 1
    BY DEF IInv, Numbered
  <2>2. ASSUME NEW e \in InFlight, number[e] = n
        PROVE  processed[n] + Cardinality({f \in InFlight : number[f] = n}) = 1
    <3>1. {f \in InFlight : number[f] = n} = {e}
      BY <2>1, <2>2
    <3>2. Cardinality({f \in InFlight : number[f] = n}) = 1
      BY <3>1, FS_Singleton, ZenonT(30)
    <3>3. processed[n] = 0
      BY <2>1, <2>2
    <3> QED
      BY <3>2, <3>3
  <2>3. CASE ~ \E e \in InFlight : number[e] = n
    <3>1. {f \in InFlight : number[f] = n} = {}
      BY <2>3
    <3>2. Cardinality({f \in InFlight : number[f] = n}) = 0
      BY <3>1, FS_EmptySet
    <3>3. processed[n] = 1
      BY <2>1, <2>3
    <3> QED
      BY <3>2, <3>3
  <2> QED
    BY <2>2, <2>3
<1> QED
  BY <1>1, IInvCorrect, PTL

\* A worker without an assignment has nothing in hand.
LEMMA IdleEmptyHanded ==
    IInv => \A w \in Workers : assigned[w] = None =>
               in_data[w].items = <<>> /\ out_data[w].items = <<>>
<1> SUFFICES ASSUME IInv, NEW w \in Workers, assigned[w] = None
             PROVE  in_data[w].items = <<>> /\ out_data[w].items = <<>>
  BY ZenonT(30)
<1>1. step[w] = "idle" /\ in_data[w] = EmptyData /\ out_data[w] = EmptyData
  BY DEF IInv, Carrying
<1> QED
  BY <1>1 DEF EmptyData

=============================================================================

------------------------- MODULE PipelineInvariant --------------------------
(***************************************************************************)
(* The inductive invariant of a chain of arrows, and the moves that its    *)
(* proof takes every step of execute() for.                                *)
(*                                                                         *)
(* None of the properties of the data path is inductive.  IInv adds what a *)
(* worker carries at each step of execute() (Carrying), and says where     *)
(* events are in terms of Contents: every event is in at most one place,   *)
(* no stack and no queue has it twice, and a live event is in some place.  *)
(***************************************************************************)
EXTENDS Pipeline, Functions

-----------------------------------------------------------------------------
(* The inductive invariant.                                                *)

InSlot(w) == IF IsSource(w) THEN 0 ELSE 1

OutSlot(w) == IF IsLast(w) THEN 0 ELSE 1

One(items) == \E e \in Events : items = <<e>>

\* What w has in its two Data, by the step of its execute().
Carrying(w) ==
    /\ step[w] \notin {"excepted", "hung"}
    /\ (step[w] = "idle") <=> (assigned[w] = None)
    /\ step[w] \in {"idle", "pull_input", "done"} =>
          in_data[w] = EmptyData /\ out_data[w] = EmptyData
    /\ step[w] \in {"pull_output", "revert"} =>
          /\ One(in_data[w].items) /\ in_data[w].reserve_count = InSlot(w)
          /\ out_data[w] = EmptyData
    /\ step[w] \in {"process", "threw"} =>
          /\ One(in_data[w].items) /\ in_data[w].reserve_count = InSlot(w)
          /\ out_data[w].items = <<>> /\ out_data[w].reserve_count = OutSlot(w)
    /\ step[w] = "push_input" =>
          /\ in_data[w].reserve_count = InSlot(w) /\ out_data[w].reserve_count = OutSlot(w)
          /\ \/ One(in_data[w].items) /\ out_data[w].items = <<>>
             \/ in_data[w].items = <<>> /\ One(out_data[w].items)
    /\ step[w] = "push_output" =>
          /\ in_data[w] = EmptyData /\ out_data[w].reserve_count = OutSlot(w)
          /\ out_data[w].items = <<>> \/ One(out_data[w].items)

QueueBound ==
    \A q \in Queues \X Locations :
        Len(mailbox[q].queue) + mailbox[q].reserved_count <= Capacity

Places ==
    ({"pool"} \X Locations) \cup ({"mailbox"} \X (Queues \X Locations))
        \cup ({"in", "out"} \X Workers)

SeqAt(x) ==
    CASE x[1] = "pool"    -> pool.available[x[2]]
      [] x[1] = "mailbox" -> mailbox[x[2]].queue
      [] x[1] = "in"      -> in_data[x[2]].items
      [] x[1] = "out"     -> out_data[x[2]].items

\* Where each event is.
Contents == [x \in Places |-> Range(SeqAt(x))]

Live == PoolEvents \cup pool.heap

Exclusive(c) == \A x, y \in Places : \A e \in c[x] : e \in c[y] => x = y

Conserved ==
    /\ \A x \in Places : IsInjective(SeqAt(x))
    /\ Exclusive(Contents)
    /\ \A e \in Events : e \in Live <=> \E x \in Places : e \in Contents[x]
    /\ \A l \in Locations : Contents[<<"pool", l>>] \subseteq ItemsAt(l)

\* Every number given out is in flight, in one event, or has been processed.
Numbered ==
    /\ \A e \in InFlight : number[e] \in 1 .. emitted
    /\ \A e, f \in InFlight : number[e] = number[f] => e = f
    /\ \A n \in 1 .. emitted :
          processed[n] = IF \E e \in InFlight : number[e] = n THEN 0 ELSE 1
    /\ \A n \in Numbers : n > emitted => processed[n] = 0

IInv ==
    /\ TypeOK
    /\ \A w \in Workers : Carrying(w)
    /\ ReservationsExact
    /\ QueueBound
    /\ Conserved
    /\ Numbered

-----------------------------------------------------------------------------
(* What the moves need to know of finite sets, queues and stacks.  Module  *)
(* PipelineProofs proves it from the library (FactsHold).                  *)

SetFacts ==
    /\ Cardinality({}) = 0
    /\ \A S \in SUBSET Workers : IsFiniteSet(S) /\ (Cardinality(S) = 0 => S = {})
    /\ \A S \in SUBSET Workers : \A w \in Workers :
          /\ w \notin S => Cardinality(S \cup {w}) = Cardinality(S) + 1
          /\ w \in S => Cardinality(S \ {w}) = Cardinality(S) - 1

\* pop_and_reserve(1, 1) on a queue with an item: it comes out, and its slot stays.
TakesHead(m) ==
    /\ pop_count(m, 1, 1) = 1
    /\ popped(m, 1) = <<m.queue[1]>>
    /\ pop_and_reserve(m, 1) \in LocalQueue(Events)
    /\ Len(pop_and_reserve(m, 1).queue) = Len(m.queue) - 1
    /\ pop_and_reserve(m, 1).reserved_count = m.reserved_count + 1
    /\ IsInjective(pop_and_reserve(m, 1).queue)
    /\ Range(pop_and_reserve(m, 1).queue) = Range(m.queue) \ {m.queue[1]}
    /\ m.queue[1] \in Range(m.queue) /\ m.queue[1] \in Events

\* pop_and_reserve(1, 1) on an empty queue.
TakesNothing(m) ==
    /\ pop_count(m, 1, 1) = 0
    /\ popped(m, 0) = <<>>
    /\ pop_and_reserve(m, 0) = m

\* reserve(1, 1) gives a slot only if there is room for it.
ReservesIfRoom(m) ==
    LET n == reserve_count(m, 1, 1)
    IN  /\ n \in {0, 1}
        /\ n = 1 => Len(m.queue) + m.reserved_count + 1 <= Capacity
        /\ n = 0 => reserve(m, n) = m

\* push_and_unreserve() of an event or nothing by someone who has a slot.
TakesBack(m, items) ==
    LET p == push_and_unreserve(m, items, 1)
    IN  /\ p \in LocalQueue(Events)
        /\ IsInjective(p.queue)
        /\ Range(p.queue) = Range(m.queue) \cup Range(items)
        /\ p.reserved_count = m.reserved_count - 1
        /\ Len(p.queue) + p.reserved_count <= Len(m.queue) + m.reserved_count

MailboxFacts ==
    \A m \in LocalQueue(Events) :
        /\ Len(m.queue) \in Nat
        /\ IsInjective(m.queue) /\ m.queue # <<>> => TakesHead(m)
        /\ m.queue = <<>> => TakesNothing(m)
        /\ Len(m.queue) + m.reserved_count <= Capacity => ReservesIfRoom(m)
        /\ IsInjective(m.queue) /\ m.reserved_count >= 1 =>
              /\ TakesBack(m, <<>>)
              /\ \A e \in Events : e \notin Range(m.queue) => TakesBack(m, <<e>>)

\* pop() takes the top of the stack, or makes an event that was not alive.
Pops(p, l, e) ==
    LET r == pool_pop(p, l, e)
        s == p.available[l]
    IN  /\ r \in Pool /\ e \in Events
        /\ \A k \in Locations \ {l} : r.available[k] = p.available[k]
        /\ \/ /\ e \in Range(s) /\ r.heap = p.heap
              /\ IsInjective(r.available[l]) /\ Range(r.available[l]) = Range(s) \ {e}
           \/ /\ e \in HeapEvents \ p.heap /\ r.heap = p.heap \cup {e}
              /\ r.available[l] = s

\* put() gives a pool event back to the location it belongs to, and deletes any other.
Puts(p, l, e) ==
    LET r == put(p, l, e)
    IN  /\ r \in Pool
        /\ \/ \E k \in Locations :
                 /\ e \in ItemsAt(k) /\ e \in PoolEvents /\ r.heap = p.heap
                 /\ \A j \in Locations \ {k} : r.available[j] = p.available[j]
                 /\ IsInjective(r.available[k])
                 /\ Range(r.available[k]) = Range(p.available[k]) \cup {e}
           \/ /\ e \notin PoolEvents
              /\ r.heap = p.heap \ {e} /\ r.available = p.available

PoolFacts ==
    \A p \in Pool : \A l \in Locations :
        /\ IsInjective(p.available[l]) => \A e \in poppable(p, l) : Pops(p, l, e)
        /\ \A e \in Events :
              (\A k \in Locations : IsInjective(p.available[k]) /\ e \notin Range(p.available[k]))
                 => Puts(p, l, e)

Facts == SetFacts /\ MailboxFacts /\ PoolFacts

QL == Queues \X Locations


-----------------------------------------------------------------------------
(* What a step of execute() does to the data path: it moves an event, or   *)
(* takes or returns a slot, or leaves everything where it is.              *)

DataOK ==
    /\ mailbox \in [QL -> LocalQueue(Events)]
    /\ pool \in Pool
    /\ in_data \in [Workers -> Data]
    /\ out_data \in [Workers -> Data]
    /\ ReservationsExact
    /\ QueueBound
    /\ Conserved

Rest == UNCHANGED <<mailbox, pool, in_data, out_data>>

PoolToIn(w, e) ==
    /\ in_data[w] = EmptyData
    /\ e \in poppable(pool, Location[w])
    /\ pool' = pool_pop(pool, Location[w], e)
    /\ in_data' = [in_data EXCEPT ![w] = [items |-> <<e>>, reserve_count |-> 0]]
    /\ UNCHANGED <<mailbox, out_data, assigned>>

InToPool(w, e) ==
    /\ in_data[w] = [items |-> <<e>>, reserve_count |-> 0]
    /\ pool' = put(pool, Location[w], e)
    /\ in_data' = [in_data EXCEPT ![w] = EmptyData]
    /\ UNCHANGED <<mailbox, out_data, assigned>>

OutToPool(w, e) ==
    /\ out_data[w] = [items |-> <<e>>, reserve_count |-> 0]
    /\ pool' = put(pool, Location[w], e)
    /\ out_data' = [out_data EXCEPT ![w] = EmptyData]
    /\ UNCHANGED <<mailbox, in_data, assigned>>

MailToIn(w, e) ==
    /\ in_data[w] = EmptyData
    /\ mailbox[InputQueue(w)].queue # <<>> /\ e = mailbox[InputQueue(w)].queue[1]
    /\ mailbox' = [mailbox EXCEPT ![InputQueue(w)] = pop_and_reserve(mailbox[InputQueue(w)], 1)]
    /\ in_data' = [in_data EXCEPT ![w] = [items |-> <<e>>, reserve_count |-> 1]]
    /\ UNCHANGED <<pool, out_data, assigned>>

InToMail(w) ==
    /\ in_data[w].items = <<>> \/ One(in_data[w].items)
    /\ in_data[w].reserve_count = 1
    /\ mailbox' = [mailbox EXCEPT ![InputQueue(w)] =
                      push_and_unreserve(mailbox[InputQueue(w)], in_data[w].items, 1)]
    /\ in_data' = [in_data EXCEPT ![w] = EmptyData]
    /\ UNCHANGED <<pool, out_data, assigned>>

ReserveOut(w) ==
    /\ out_data[w] = EmptyData
    /\ Len(mailbox[OutputQueue(w)].queue) + mailbox[OutputQueue(w)].reserved_count + 1 <= Capacity
    /\ mailbox' = [mailbox EXCEPT ![OutputQueue(w)] = reserve(mailbox[OutputQueue(w)], 1)]
    /\ out_data' = [out_data EXCEPT ![w].reserve_count = 1]
    /\ UNCHANGED <<pool, in_data, assigned>>

OutToMail(w) ==
    /\ out_data[w].items = <<>> \/ One(out_data[w].items)
    /\ out_data[w].reserve_count = 1
    /\ mailbox' = [mailbox EXCEPT ![OutputQueue(w)] =
                      push_and_unreserve(mailbox[OutputQueue(w)], out_data[w].items, 1)]
    /\ out_data' = [out_data EXCEPT ![w] = EmptyData]
    /\ UNCHANGED <<pool, in_data, assigned>>

InToOut(w, e) ==
    /\ e \in Events
    /\ in_data[w].items = <<e>> /\ out_data[w].items = <<>>
    /\ Succeed(w)
    /\ UNCHANGED <<mailbox, pool, assigned>>

\* What w has in its Data x, items, goes to mailbox q, and with it the slot.
Pushes(w, q, x, items) ==
    /\ \A p \in QL : x # <<"mailbox", p>>
    /\ SeqAt(x) = items /\ SeqAt(x)' = <<>>
    /\ items = <<>> \/ One(items)
    /\ mailbox' = [mailbox EXCEPT ![q] = push_and_unreserve(mailbox[q], items, 1)]
    /\ pool' = pool
    /\ \A z \in Places \ {x} : (\A p \in QL : z # <<"mailbox", p>>) => SeqAt(z)' = SeqAt(z)
    /\ w \in SlotHolders(q) /\ SlotHolders(q)' = SlotHolders(q) \ {w}
    /\ \A p \in QL \ {q} : SlotHolders(p)' = SlotHolders(p)

\* Every move but the one from the input to the output Data.
Transfers(w) ==
    /\ assigned[w] # None
    /\ \/ Rest /\ UNCHANGED assigned
       \/ IsSource(w) /\ \E e \in Events : PoolToIn(w, e)
       \/ IsSource(w) /\ \E e \in Events : InToPool(w, e)
       \/ IsLast(w) /\ \E e \in Events : OutToPool(w, e)
       \/ ~IsSource(w) /\ \E e \in Events : MailToIn(w, e)
       \/ ~IsSource(w) /\ InToMail(w)
       \/ ~IsLast(w) /\ ReserveOut(w)
       \/ ~IsLast(w) /\ OutToMail(w)

\* What an action of w has to do for the data path to be in order after it.
MovesInOrder(w) ==
    /\ \A v \in Workers : Carrying(v)'
    /\ step' \in [Workers -> Steps]
    /\ result' \in [Workers -> Status]

=============================================================================

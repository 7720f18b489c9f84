--------------------------- MODULE JPipelineArrow ---------------------------
(***************************************************************************)
(* The data path of a chain of JPipelineArrows: source arrow 0 takes empty *)
(* events from the pool and fills them, the arrows in between move them    *)
(* from one mailbox to the next, the last arrow puts them back.  Mailbox q *)
(* connects arrow q to arrow q + 1.                                        *)
(*                                                                         *)
(* execute() is not atomic: each PlaceRef operation locks one queue or one *)
(* pool location, and other workers run in between.  Who executes what is  *)
(* left open: module Pipeline lets any worker start any arrow that has     *)
(* room, module Topology lets the scheduler decide.                        *)
(*                                                                         *)
(* As in JScheduler, a definition that directly precedes another and       *)
(* differs from it in one place is a faulty variant no specification uses. *)
(***************************************************************************)
EXTENDS JArrow, JMailbox, JPool

CONSTANTS
    Location,     \* worker -> its m_location_id
    NumEvents     \* how many events the event source holds

ASSUME ChainAssumption ==
    /\ SourceArrows = {0}
    /\ NArrows >= 2
    /\ Location \in [Workers -> Locations]
    /\ NumEvents \in Nat

VARIABLES
    mailbox,      \* <<queue, location>> -> LocalQueue
    pool,
    step,         \* worker -> how far its execute() is
    in_data,      \* worker -> the Data it pulled from its input place
    out_data,     \* worker -> the Data it pulled from its output place
    result,       \* worker -> the status of its last execute()
    emitted,      \* how many events the source has emitted
    number,       \* event -> its event number, 0 before its first emission
    processed     \* event number -> how often the last arrow has processed it

pipeVars == <<mailbox, pool, step, in_data, out_data, result, emitted, number, processed>>

Queues == 0 .. NArrows - 2

Numbers == 1 .. NumEvents

Data == [items : Seq(Events), reserve_count : Nat]

EmptyData == [items |-> <<>>, reserve_count |-> 0]

Steps ==
    {"idle", "pull_input", "pull_output", "revert", "process", "push_input",
     "push_output", "done", "threw", "excepted", "hung"}

Status == {"NotRunYet", "KeepGoing", "ComeBackLater", "Finished"}

PipeInit ==
    /\ mailbox = [q \in Queues \X Locations |-> EmptyQueue]
    /\ pool = InitialPool
    /\ step = [w \in Workers |-> "idle"]
    /\ in_data = [w \in Workers |-> EmptyData]
    /\ out_data = [w \in Workers |-> EmptyData]
    /\ result = [w \in Workers |-> "NotRunYet"]
    /\ emitted = 0
    /\ number = [e \in Events |-> 0]
    /\ processed = [n \in Numbers |-> 0]

IsSource(w) == assigned[w] \in SourceArrows

IsLast(w) == assigned[w] = NArrows - 1

InputQueue(w) == <<assigned[w] - 1, Location[w]>>

OutputQueue(w) == <<assigned[w], Location[w]>>

\* execute() returns to the worker's loop.
Return(w, status) ==
    /\ step' = [step EXCEPT ![w] = "done"]
    /\ result' = [result EXCEPT ![w] = status]

Goto(w, s) == step' = [step EXCEPT ![w] = s] /\ UNCHANGED result

\* m_input.pull(): when it fails, both reverts have nothing to give back.
PullInput(w) ==
    /\ step[w] = "pull_input"
    /\ \/ /\ IsSource(w)
          /\ \/ \E e \in poppable(pool, Location[w]) :
                   /\ pool' = pool_pop(pool, Location[w], e)
                   /\ in_data' = [in_data EXCEPT ![w] = [items |-> <<e>>, reserve_count |-> 0]]
                   /\ Goto(w, "pull_output")
             \/ /\ pop_fails(pool, Location[w])
                /\ Return(w, "ComeBackLater")
                /\ UNCHANGED <<pool, in_data>>
          /\ UNCHANGED mailbox
       \/ /\ ~IsSource(w)
          /\ LET m == mailbox[InputQueue(w)]
                 n == pop_count(m, 1, 1)
             IN  /\ mailbox' = [mailbox EXCEPT ![InputQueue(w)] = pop_and_reserve(m, n)]
                 /\ in_data' = [in_data EXCEPT ![w] =
                                   [items |-> popped(m, n), reserve_count |-> n]]
                 /\ IF n >= 1 THEN Goto(w, "pull_output") ELSE Return(w, "ComeBackLater")
          /\ UNCHANGED pool
    /\ UNCHANGED <<out_data, emitted, number, processed>>

\* m_output.pull(): the last arrow returns events to the pool and reserves nothing.
PullOutput(w) ==
    /\ step[w] = "pull_output"
    /\ \/ /\ IsLast(w)
          /\ Goto(w, "process")
          /\ UNCHANGED <<mailbox, out_data>>
       \/ /\ ~IsLast(w)
          /\ LET m == mailbox[OutputQueue(w)]
                 n == reserve_count(m, 1, 1)
             IN  /\ mailbox' = [mailbox EXCEPT ![OutputQueue(w)] = reserve(m, n)]
                 /\ out_data' = [out_data EXCEPT ![w].reserve_count = n]
                 /\ Goto(w, IF n >= 1 THEN "process" ELSE "revert")
    /\ UNCHANGED <<pool, in_data, emitted, number, processed>>

\* The input Data goes back where it came from: onto the stack of the pool, or
\* to the end of the queue.
GiveBackInput(w) ==
    /\ in_data' = [in_data EXCEPT ![w] = EmptyData]
    /\ \/ /\ IsSource(w)
          /\ pool' = IF in_data[w].items = <<>>
                     THEN pool
                     ELSE put(pool, Location[w], in_data[w].items[1])
          /\ UNCHANGED mailbox
       \/ /\ ~IsSource(w)
          /\ mailbox' = [mailbox EXCEPT ![InputQueue(w)] =
                            push_and_unreserve(@, in_data[w].items, in_data[w].reserve_count)]
          /\ UNCHANGED pool

\* m_input.revert(); the output was not pulled, so its revert does nothing.
Revert(w) ==
    /\ step[w] = "revert"
    /\ GiveBackInput(w)
    /\ Return(w, "ComeBackLater")
    /\ UNCHANGED <<out_data, emitted, number, processed>>

\* process() succeeded: the event moves from the input to the output Data.
Succeed(w) ==
    /\ in_data' = [in_data EXCEPT ![w].items = <<>>]
    /\ out_data' = [out_data EXCEPT ![w].items = in_data[w].items]

EmitUnsuccessfully(w) ==
    /\ step[w] = "process"
    /\ IsSource(w)
    /\ emitted < NumEvents
    /\ emitted' = emitted + 1
    /\ number' = [number EXCEPT ![in_data[w].items[1]] = emitted + 1]
    /\ step' = [step EXCEPT ![w] = "push_input"]
    /\ result' = [result EXCEPT ![w] = "KeepGoing"]
    /\ UNCHANGED <<mailbox, pool, in_data, out_data, processed>>

\* DoNext() has an event for the source arrow.
Emit(w) ==
    /\ step[w] = "process"
    /\ IsSource(w)
    /\ emitted < NumEvents
    /\ emitted' = emitted + 1
    /\ number' = [number EXCEPT ![in_data[w].items[1]] = emitted + 1]
    /\ Succeed(w)
    /\ step' = [step EXCEPT ![w] = "push_input"]
    /\ result' = [result EXCEPT ![w] = "KeepGoing"]
    /\ UNCHANGED <<mailbox, pool, processed>>

\* DoNext() answers FailureTryAgain, or FailureFinished once it has no more.
EmitFails(w) ==
    /\ step[w] = "process"
    /\ IsSource(w)
    /\ step' = [step EXCEPT ![w] = "push_input"]
    /\ result' = [result EXCEPT ![w] =
                     IF emitted < NumEvents THEN "ComeBackLater" ELSE "Finished"]
    /\ UNCHANGED <<mailbox, pool, in_data, out_data, emitted, number, processed>>

\* JEventMapArrow::process() and JEventProcessorArrow::process() always succeed.
ProcessEvent(w) ==
    /\ step[w] = "process"
    /\ ~IsSource(w)
    /\ processed' = IF IsLast(w)
                    THEN [processed EXCEPT ![number[in_data[w].items[1]]] = @ + 1]
                    ELSE processed
    /\ Succeed(w)
    /\ step' = [step EXCEPT ![w] = "push_input"]
    /\ result' = [result EXCEPT ![w] = "KeepGoing"]
    /\ UNCHANGED <<mailbox, pool, emitted, number>>

\* process() throws: execute() unwinds and its Data is never pushed.
ProcessThrows(w) ==
    /\ step[w] = "process"
    /\ step' = [step EXCEPT ![w] = "threw"]
    /\ UNCHANGED <<mailbox, pool, in_data, out_data, result, emitted, number, processed>>

\* m_input.push(): gives up the input's slot, and the event if process() failed.
PushInput(w) ==
    /\ step[w] = "push_input"
    /\ GiveBackInput(w)
    /\ Goto(w, "push_output")
    /\ UNCHANGED <<out_data, emitted, number, processed>>

\* m_output.push(): with no item when process() failed.
PushOutput(w) ==
    /\ step[w] = "push_output"
    /\ out_data' = [out_data EXCEPT ![w] = EmptyData]
    /\ \/ /\ IsLast(w)
          /\ pool' = IF out_data[w].items = <<>>
                     THEN pool
                     ELSE put(pool, Location[w], out_data[w].items[1])
          /\ UNCHANGED mailbox
       \/ /\ ~IsLast(w)
          /\ mailbox' = [mailbox EXCEPT ![OutputQueue(w)] =
                            push_and_unreserve(@, out_data[w].items, out_data[w].reserve_count)]
          /\ UNCHANGED pool
    /\ Goto(w, "done")
    /\ UNCHANGED <<in_data, emitted, number, processed>>

Execute(w) ==
    \/ PullInput(w)
    \/ PullOutput(w)
    \/ Revert(w)
    \/ Emit(w)
    \/ EmitFails(w)
    \/ ProcessEvent(w)
    \/ ProcessThrows(w)
    \/ PushInput(w)
    \/ PushOutput(w)

-----------------------------------------------------------------------------
(* What holds of the data path whoever schedules it.                       *)

\* Every variable keeps its type.
PipeTypeOK ==
    /\ mailbox \in [Queues \X Locations -> LocalQueue(Events)]
    /\ pool \in Pool
    /\ step \in [Workers -> Steps]
    /\ in_data \in [Workers -> Data]
    /\ out_data \in [Workers -> Data]
    /\ result \in [Workers -> Status]
    /\ emitted \in 0 .. NumEvents
    /\ number \in [Events -> 0 .. NumEvents]
    /\ processed \in [Numbers -> Nat]

\* The workers that hold a slot of mailbox q: for the event they took from it,
\* or for the event they are about to push.
SlotHolders(q) ==
    {w \in Workers :
        \/ assigned[w] # None /\ InputQueue(w) = q /\ in_data[w].reserve_count = 1
        \/ assigned[w] # None /\ OutputQueue(w) = q /\ out_data[w].reserve_count = 1}

\* No reservation leaks and no reservation is given back twice: the reserved
\* slots of a mailbox are exactly the ones its users hold.
ReservationsExact ==
    \A q \in Queues \X Locations : mailbox[q].reserved_count = Cardinality(SlotHolders(q))

\* Events in a mailbox and slots promised to workers never exceed its capacity,
\* and whenever a worker is about to push, the assertions at the head of
\* push_and_unreserve() hold: a revert or a push always fits.
MailboxBounded ==
    /\ \A q \in Queues \X Locations :
          Len(mailbox[q].queue) + mailbox[q].reserved_count <= Capacity
    /\ \A w \in Workers :
          /\ step[w] \in {"revert", "push_input"} /\ ~IsSource(w) =>
                PushAllowed(mailbox[InputQueue(w)], Len(in_data[w].items), in_data[w].reserve_count)
          /\ step[w] = "push_output" /\ ~IsLast(w) =>
                PushAllowed(mailbox[OutputQueue(w)], Len(out_data[w].items), out_data[w].reserve_count)

\* The places an event is in, one entry per occurrence.
Occurrences(e) ==
    (UNION {{<<"pool", l, i>> : i \in {i \in DOMAIN pool.available[l] : pool.available[l][i] = e}}
               : l \in Locations})
    \cup
    (UNION {{<<"mailbox", q, i>> : i \in {i \in DOMAIN mailbox[q].queue : mailbox[q].queue[i] = e}}
               : q \in Queues \X Locations})
    \cup {<<"in", w>> : w \in {w \in Workers : in_data[w].items = <<e>>}}
    \cup {<<"out", w>> : w \in {w \in Workers : out_data[w].items = <<e>>}}

\* No event is ever in two places or in none, through pulls, reverts, failed
\* emissions and exceptions; a pool event rests only at the location it belongs
\* to, and an event of the heap is deleted once nobody has it.
EventsConserved ==
    /\ \A e \in PoolEvents : Cardinality(Occurrences(e)) = 1
    /\ \A e \in HeapEvents : Cardinality(Occurrences(e)) = IF e \in pool.heap THEN 1 ELSE 0
    /\ \A l \in Locations : \A i \in DOMAIN pool.available[l] :
          pool.available[l][i] \in ItemsAt(l)

\* The events that the source has emitted and the last arrow has yet to process.
InFlight ==
    {e \in Events :
        \/ \E q \in Queues \X Locations : \E i \in DOMAIN mailbox[q].queue : mailbox[q].queue[i] = e
        \/ \E w \in Workers : in_data[w].items = <<e>> /\ ~IsSource(w)
        \/ \E w \in Workers : out_data[w].items = <<e>> /\ ~IsLast(w)}

\* Every event number the source gives out is in flight in one event, or has
\* been processed once and is in flight no more.
ExactlyOnce ==
    \A n \in 1 .. emitted :
        processed[n] + Cardinality({e \in InFlight : number[e] = n}) = 1

=============================================================================

----------------------------- MODULE JEventGroup -----------------------------
(***************************************************************************)
(* Services/JEventGroupTracker.h: event groups, as the example             *)
(* EventGroupExample uses them.  BlockingGroupedEventSource::SubmitAndWait *)
(* hands a group of events to the topology and waits for the processor to  *)
(* have finished each of them; Emit() takes the events from its queue.     *)
(* Any number of threads may submit; they are not the workers.             *)
(*                                                                         *)
(* unfinished is what SubmitAndWait() promises to wait for.                *)
(*                                                                         *)
(* As in JScheduler, a definition that directly precedes another and       *)
(* differs from it in one place is a faulty variant no specification uses. *)
(***************************************************************************)
EXTENDS ServiceCalls

CONSTANTS
    Submitters,      \* the threads that call SubmitAndWait()
    GroupIds,        \* 1 .. some number that m_pending_group_id does not exceed
    EventsInGroup    \* how many events are submitted together

VARIABLES
    pending_group_id,   \* m_pending_group_id
    pending_mutex,      \* the thread that holds m_pending_mutex
    pending,            \* m_pending_events: pairs of a submitting thread and a group
    in_flight,          \* group -> m_events_in_flight
    closed,             \* group -> m_group_closed
    unfinished          \* thread -> the events of its submission not yet finished

groupVars == <<pending_group_id, pending_mutex, pending, in_flight, closed, unfinished>>

GroupsInit ==
    /\ pending_group_id = 1
    /\ pending_mutex = None
    /\ pending = <<>>
    /\ in_flight = [g \in GroupIds |-> 0]
    /\ closed = [g \in GroupIds |-> TRUE]
    /\ unfinished = [t \in Threads |-> 0]

-----------------------------------------------------------------------------
(* SubmitAndWait().                                                        *)

\* m_pending_group_id++ is not atomic: the old value is read ...
ReadGroupId(t) ==
    /\ Begin(t, "group_id", None, pending_group_id)
    /\ unfinished' = [unfinished EXCEPT ![t] = EventsInGroup]
    /\ UNCHANGED <<pending_group_id, pending_mutex, pending, in_flight, closed>>

\* ... and the new one is written.
WriteGroupId(t) ==
    /\ Step(t, "group_id", "lock_pending", at[t].got)
    /\ pending_group_id' = at[t].got + 1
    /\ UNCHANGED <<pending_mutex, pending, in_flight, closed, unfinished>>

LockPending(t) ==
    /\ pending_mutex = None
    /\ Step(t, "lock_pending", "start", at[t].got)
    /\ pending_mutex' = t
    /\ UNCHANGED <<pending_group_id, pending, in_flight, closed, unfinished>>

\* StartEvent() counts the event ...
StartEvent(t) ==
    /\ Step(t, "start", "open", at[t].got)
    /\ in_flight' = [in_flight EXCEPT ![at[t].got] = @ + 1]
    /\ UNCHANGED <<pending_group_id, pending_mutex, pending, closed, unfinished>>

Mine(t) == Cardinality({i \in DOMAIN pending : pending[i][1] = t})

\* ... and opens the group; the event is pushed; the last one unlocks the queue.
OpenAndPush(t) ==
    LET last == Mine(t) + 1 = EventsInGroup
    IN  /\ Step(t, "open", IF last THEN "close" ELSE "start", at[t].got)
        /\ closed' = [closed EXCEPT ![at[t].got] = FALSE]
        /\ pending' = Append(pending, <<t, at[t].got>>)
        /\ pending_mutex' = IF last THEN None ELSE t
        /\ UNCHANGED <<pending_group_id, in_flight, unfinished>>

CloseGroup(t) ==
    /\ Step(t, "close", "wait_closed", at[t].got)
    /\ closed' = [closed EXCEPT ![at[t].got] = TRUE]
    /\ UNCHANGED <<pending_group_id, pending_mutex, pending, in_flight, unfinished>>

\* WaitUntilGroupFinished() reads one of its two conditions ...
WaitClosed(t) ==
    /\ at[t].op = "wait_closed"
    /\ closed[at[t].got]
    /\ Step(t, "wait_closed", "wait_finished", at[t].got)
    /\ UNCHANGED groupVars

\* (The group counts as finished when it is closed.)
WaitFinished_IgnoresCount(t) ==
    /\ Step(t, "wait_finished", "submitted", at[t].got)
    /\ UNCHANGED groupVars

\* ... and then the other.
WaitFinished(t) ==
    /\ at[t].op = "wait_finished"
    /\ Step(t, "wait_finished",
            IF in_flight[at[t].got] = 0 THEN "submitted" ELSE "wait_closed", at[t].got)
    /\ UNCHANGED groupVars

SubmitReturns(t) == Return(t, "submitted") /\ UNCHANGED groupVars

-----------------------------------------------------------------------------
(* The source and the processor, on a worker.                              *)

\* Emit() takes an event from the queue.
Emit(t) ==
    /\ t \notin Submitters
    /\ at[t] = Outside
    /\ pending_mutex = None
    /\ pending # <<>>
    /\ at' = [at EXCEPT ![t] = [op |-> "process", arg |-> Head(pending)[1],
                                got |-> Head(pending)[2]]]
    /\ pending' = Tail(pending)
    /\ UNCHANGED <<calls, pending_group_id, pending_mutex, in_flight, closed, unfinished>>

\* Process() calls FinishEvent() at its end.  (Whether the group is now finished
\* is also returned, and only printed.)
FinishEvent(t) ==
    /\ at[t].op = "process"
    /\ Return(t, "process")
    /\ in_flight' = [in_flight EXCEPT ![at[t].got] = @ - 1]
    /\ unfinished' = [unfinished EXCEPT ![at[t].arg] = @ - 1]
    /\ UNCHANGED <<pending_group_id, pending_mutex, pending, closed>>

GroupStep(t) ==
    \/ WriteGroupId(t) \/ LockPending(t) \/ StartEvent(t) \/ OpenAndPush(t) \/ CloseGroup(t)
    \/ WaitClosed(t) \/ WaitFinished(t) \/ SubmitReturns(t) \/ Emit(t) \/ FinishEvent(t)

GroupCall(t) == t \in Submitters /\ ReadGroupId(t)
=============================================================================

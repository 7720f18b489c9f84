------------------------------ MODULE Subevents ------------------------------
(***************************************************************************)
(* Topology/JSubeventArrow.h: JSplitArrow takes events apart into          *)
(* subevents, JSubeventArrow processes these, and JMergeArrow puts the     *)
(* event together.  Several workers execute the first two at a time, one   *)
(* the third, in any order; what the arrows do to a mailbox is one step.   *)
(* A source and a sink at the two ends use the events of a pool over and   *)
(* over.                                                                   *)
(*                                                                         *)
(* The arrows use the mailbox methods that wait for nothing: pop() takes   *)
(* nothing, as from an empty queue, when someone else has the lock         *)
(* (get_pending() takes it, too).                                          *)
(*                                                                         *)
(* As in JScheduler, a definition that directly precedes another and       *)
(* differs from it in one place is a faulty variant no specification uses. *)
(***************************************************************************)
EXTENDS JMailbox, FiniteSets, SequencesExt

CONSTANTS
    Events,         \* the events of the pool
    Workers,
    Sizes,          \* the numbers of subevents that an event may have; 0 may be one
    Chunk,          \* get_chunksize()
    MaxEmits,       \* bound on the events that the source emits
    MaxReserved     \* bound on the reservations that pile up in subevents_in, after
                    \* which the split arrow is executed only when it has an event

VARIABLES
    events_in, subevents_in, subevents_out, events_out,   \* the mailboxes
    worker,         \* worker -> the arrow it executes, what it has reserved and holds
    in_progress,    \* m_in_progress: event -> subevents it waits for
    pool,           \* the events that may be emitted
    total,          \* event -> its number of subevents
    inserted,       \* event -> the subevents that have been inserted
    emits           \* how many events have been emitted

useVars == <<pool, total, inserted, emits>>

queueVars == <<events_in, subevents_in, subevents_out, events_out>>

vars == <<queueVars, worker, in_progress, useVars>>

Idle == [arrow |-> "none", reserved |-> 0, items |-> <<>>]

Init ==
    /\ events_in = EmptyQueue
    /\ subevents_in = EmptyQueue
    /\ subevents_out = EmptyQueue
    /\ events_out = EmptyQueue
    /\ worker = [w \in Workers |-> Idle]
    /\ in_progress = [e \in {} |-> 0]
    /\ pool = Events
    /\ total = [e \in Events |-> 0]
    /\ inserted = [e \in Events |-> {}]
    /\ emits = 0

Become(w, arrow, reserved, items) ==
    worker' = [worker EXCEPT ![w] = [arrow |-> arrow, reserved |-> reserved, items |-> items]]

\* reserve(chunksize), as far as there is room.
Room(m) == reserve_count(m, 0, Chunk)

\* How many items pop() may take: none if the lock is taken.
Takes(m, max) == {0, pop_count(m, 0, max)}

-----------------------------------------------------------------------------
(* The two ends.                                                           *)

\* An event from the pool is emitted.
Emit(e) ==
    /\ e \in pool
    /\ emits < MaxEmits
    /\ pool' = pool \ {e}
    /\ emits' = emits + 1
    /\ \E n \in Sizes : total' = [total EXCEPT ![e] = n]
    /\ inserted' = [inserted EXCEPT ![e] = {}]
    /\ events_in' = push_and_unreserve(events_in, <<e>>, 0)
    /\ UNCHANGED <<subevents_in, subevents_out, events_out, worker, in_progress>>

\* An event is processed and returned to the pool.
Recycle ==
    /\ events_out.queue # <<>>
    /\ pool' = pool \cup {Head(events_out.queue)}
    /\ events_out' = pop(events_out, 1)
    /\ UNCHANGED <<events_in, subevents_in, subevents_out, worker, in_progress, total, inserted,
                   emits>>

-----------------------------------------------------------------------------
(* JSplitArrow.                                                            *)

SplitReserve(w) ==
    /\ worker[w] = Idle
    /\ subevents_in.reserved_count < MaxReserved \/ events_in.queue # <<>>
    /\ subevents_in' = reserve(subevents_in, Room(subevents_in))
    /\ Become(w, "split", Room(subevents_in), <<>>)
    /\ UNCHANGED <<events_in, subevents_out, events_out, in_progress, useVars>>

\* A worker that gets no event leaves its reservation behind.
SplitNothing(w) ==
    /\ worker[w].arrow = "split"
    /\ subevents_in.reserved_count < MaxReserved \/ events_in.queue = <<>>
    /\ Become(w, "none", 0, <<>>)
    /\ UNCHANGED <<queueVars, in_progress, useVars>>

Wrapped(e) == [i \in 1 .. total[e] |-> <<e, i>>]

\* The subevents are counted and wrapped, however many have been reserved.
SplitPop(w) ==
    /\ worker[w].arrow = "split"
    /\ events_in.queue # <<>>
    /\ events_in' = pop(events_in, 1)
    /\ Become(w, "split_push", worker[w].reserved, Wrapped(Head(events_in.queue)))
    /\ UNCHANGED <<subevents_in, subevents_out, events_out, in_progress, useVars>>

SplitPush(w) ==
    /\ worker[w].arrow = "split_push"
    /\ subevents_in' = push_and_unreserve(subevents_in, worker[w].items, worker[w].reserved)
    /\ Become(w, "none", 0, <<>>)
    /\ UNCHANGED <<events_in, subevents_out, events_out, in_progress, useVars>>

-----------------------------------------------------------------------------
(* JSubeventArrow.                                                         *)

SubeventReserve(w) ==
    /\ worker[w] = Idle
    /\ subevents_out' = reserve(subevents_out, Room(subevents_out))
    /\ Become(w, "subevent", Room(subevents_out), <<>>)
    /\ UNCHANGED <<events_in, subevents_in, events_out, in_progress, useVars>>

\* Without inputs there is nothing to push, and the reservation is left behind.
SubeventPop(w) ==
    \E n \in Takes(subevents_in, worker[w].reserved) :
        /\ worker[w].arrow = "subevent"
        /\ subevents_in' = pop(subevents_in, n)
        /\ IF n = 0 THEN Become(w, "none", 0, <<>>)
                    ELSE Become(w, "subevent_push", worker[w].reserved, popped(subevents_in, n))
        /\ UNCHANGED <<events_in, subevents_out, events_out, in_progress, useVars>>

SubeventPush(w) ==
    /\ worker[w].arrow = "subevent_push"
    /\ subevents_out' = push_and_unreserve(subevents_out, worker[w].items, worker[w].reserved)
    /\ Become(w, "none", 0, <<>>)
    /\ UNCHANGED <<events_in, subevents_in, events_out, in_progress, useVars>>

-----------------------------------------------------------------------------
(* JMergeArrow.                                                            *)

Merging == {w \in Workers : worker[w].arrow \in {"merge", "merge_push"}}

MergeReserve(w) ==
    /\ worker[w] = Idle
    /\ Merging = {}
    /\ events_out' = reserve(events_out, Room(events_out))
    /\ Become(w, "merge", Room(events_out), <<>>)
    /\ UNCHANGED <<events_in, subevents_in, subevents_out, in_progress, useVars>>

\* m_in_progress after another subevent of e; 0 is left by an earlier use of e.
Remaining(progress, e) ==
    IF e \in DOMAIN progress /\ progress[e] # 0 THEN progress[e] - 1 ELSE total[e] - 1

\* (The event is complete with its first subevent.)
Completes_First(progress, e) == total[e] = 1 \/ e \notin DOMAIN progress

\* An event is complete with its only or its last subevent.
Completes(progress, e) == total[e] = 1 \/ (e \in DOMAIN progress /\ progress[e] = 1)

\* One round of the loop: the map, and the events that are complete.
MergeOne(acc, sub) ==
    LET e == sub[1]
    IN  [progress |-> IF total[e] = 1 THEN acc.progress
                      ELSE [x \in DOMAIN acc.progress \cup {e} |->
                               IF x = e THEN Remaining(acc.progress, e) ELSE acc.progress[x]],
         outputs  |-> IF Completes(acc.progress, e) THEN Append(acc.outputs, e) ELSE acc.outputs]

MergePop(w) ==
    \E n \in Takes(subevents_out, worker[w].reserved) :
        LET inputs == popped(subevents_out, n)
            merged == FoldLeft(MergeOne, [progress |-> in_progress, outputs |-> <<>>], inputs)
        IN  /\ worker[w].arrow = "merge"
            /\ subevents_out' = pop(subevents_out, n)
            /\ in_progress' = merged.progress
            /\ inserted' = [e \in Events |->
                               inserted[e] \cup {s[2] : s \in {t \in ToSet(inputs) : t[1] = e}}]
            /\ Become(w, "merge_push", worker[w].reserved, merged.outputs)
            /\ UNCHANGED <<events_in, subevents_in, events_out, pool, total, emits>>

MergePush(w) ==
    /\ worker[w].arrow = "merge_push"
    /\ events_out' = push_and_unreserve(events_out, worker[w].items, worker[w].reserved)
    /\ Become(w, "none", 0, <<>>)
    /\ UNCHANGED <<events_in, subevents_in, subevents_out, in_progress, useVars>>

-----------------------------------------------------------------------------

Start(w) == SplitReserve(w) \/ SubeventReserve(w) \/ MergeReserve(w)

Finish(w) ==
    \/ SplitNothing(w) \/ SplitPop(w) \/ SplitPush(w)
    \/ SubeventPop(w) \/ SubeventPush(w) \/ MergePop(w) \/ MergePush(w)

Next == Recycle \/ (\E e \in Events : Emit(e)) \/ (\E w \in Workers : Start(w) \/ Finish(w))

Spec == Init /\ [][Next]_vars

-----------------------------------------------------------------------------

\* The subevents of e that are on their way to the merge arrow.
Travelling(e) ==
    {s \in UNION ({ToSet(subevents_in.queue), ToSet(subevents_out.queue)} \cup
                  {ToSet(worker[w].items) : w \in Workers \ Merging}) : s[1] = e}

\* What JMergeArrow hands on: "joins all completed subtasks": an event it hands on
\* contains each of its subevents, none is still travelling, and it is handed on
\* once, also when the event has been used before.
MergedComplete ==
    LET out == events_out.queue \o FoldSet(LAMBDA w, acc : acc \o worker[w].items, <<>>,
                                           {w \in Merging : worker[w].arrow = "merge_push"})
    IN  /\ IsInjective(out)
        /\ \A e \in ToSet(out) : inserted[e] = 1 .. total[e] /\ Travelling(e) = {}

\* JMailbox::reserve() "keeps our queues bounded in size": the queues that are
\* filled with what was reserved never exceed their capacity, nor does what has been
\* promised of them, whatever the arrows leave behind.  (JSplitArrow pushes more
\* than it has reserved, and subevents_in has no such bound.)
OutputsBounded ==
    \A m \in {subevents_out, events_out} : Len(m.queue) + m.reserved_count <= Capacity
=============================================================================

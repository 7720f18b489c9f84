------------------------------ MODULE Topology ------------------------------
(***************************************************************************)
(* The engine as a whole: JWorkers execute the chain of module             *)
(* JPipelineArrow on the assignments that the scheduler of module          *)
(* JScheduler gives them, and JApplication::Run() watches over them,       *)
(* through JArrowProcessingController, while other threads, a signal and   *)
(* the inspector interfere.                                                *)
(*                                                                         *)
(* As in JScheduler, a definition that directly precedes another and       *)
(* differs from it in one place is a faulty variant no specification uses. *)
(***************************************************************************)
EXTENDS JPipelineArrow

CONSTANTS
    MaxActiveCount,   \* bound of JScheduler
    MaxRuns,          \* bound on the calls of run()
    CanInterrupt,     \* whether a SIGINT may arrive
    CanStop,          \* whether anyone calls JApplication::Stop()
    CanThrow,         \* whether a component's code may throw
    CanHang,          \* whether a component's code may never return
    CanLag            \* whether waiting for the scheduler's lock may take m_checkin_time

VARIABLES
    ts,           \* m_topology_state of the scheduler
    lost,         \* workers whose arrow threw
    run_state,    \* worker -> its RunState
    phase,        \* where JApplication::Run() is: "watch" and "tick" are the two halves
                  \* of its loop, "pausing" and "inspector" are inside
                  \* InspectApplication(), "joining" is after the loop, "failed" is
                  \* Run() left by a throw, "destroyed" the destructor after it,
                  \* "quitting" is inside Quit(), and "exited" the end of the process
    inspecting,   \* m_inspecting
    runs          \* how often run() has been called

S == INSTANCE JScheduler

\* attach() makes each arrow the only listener of the one before it, so the
\* recursion of run_arrow_unprotected() enters every arrow of the chain once.
ASSUME WiringAssumption ==
    /\ \A a \in Arrows : Listeners[a] = {b \in Arrows : b = a + 1}
    /\ S!Paths[NArrows] = [a \in Arrows |-> 0]
    /\ S!Visits = [a \in Arrows |-> 1]
    /\ S!TotalVisits = NArrows
    /\ S!UpstreamVisits = [a \in Arrows |-> IF a = 0 THEN 0 ELSE 1]
    /\ MaxActiveCount \in Nat

appVars == <<phase, inspecting, runs>>

vars == <<pipeVars, assigned, ts, lost, run_state, appVars>>

Init ==
    /\ PipeInit
    /\ assigned = [w \in Workers |-> None]
    /\ ts = S!InitialTopologyState
    /\ lost = {}
    /\ run_state = [w \in Workers |-> "Stopped"]
    /\ phase = "new"
    /\ inspecting = FALSE
    /\ runs = 0

-----------------------------------------------------------------------------
(* JWorker::loop().                                                        *)

\* JArrow::get_pending(), as far as the scheduler looks at it.
Pending(a) ==
    IF a \notin SourceArrows /\ \E l \in Locations : mailbox[<<a - 1, l>>].queue # <<>>
    THEN 1
    ELSE 0

LastResult(w) == IF result[w] = "Finished" THEN "Finished" ELSE "ComeBackLater"

\* What w hands in, if it holds an arrow.
HandedInPending(w) == IF assigned[w] = None THEN 0 ELSE Pending(assigned[w])

\* w is between two execute() calls, or has not come to the first one: it was
\* told to stop, or m_checkin_time, which counts from before next_assignment()
\* waits for its lock, is over already.
BetweenCalls(w) ==
    \/ step[w] \in {"idle", "done"}
    \/ /\ step[w] = "pull_input"
       /\ result[w] = "NotRunYet"
       /\ CanLag \/ run_state[w] # "Running"

\* next_assignment(): no assignment ends the loop.
Ask(w) ==
    /\ run_state[w] = "Running"
    /\ BetweenCalls(w)
    /\ S!NextAssignment(w, LastResult(w), HandedInPending(w))
    /\ IF assigned'[w] = None
       THEN /\ run_state' = [run_state EXCEPT ![w] = "Stopped"]
            /\ step' = [step EXCEPT ![w] = "idle"]
       ELSE /\ step' = [step EXCEPT ![w] = "pull_input"]
            /\ UNCHANGED run_state
    /\ result' = [result EXCEPT ![w] = "NotRunYet"]
    /\ UNCHANGED <<mailbox, pool, in_data, out_data, emitted, number, processed, appVars>>

\* The loop ends because of request_stop() or declare_timeout(): last_assignment().
\* (A thread that timed out does so whenever it comes back, and only once.)
Leave(w) ==
    /\ run_state[w] \in {"Stopping", "TimedOut"}
    /\ run_state[w] = "TimedOut" => assigned[w] # None
    /\ BetweenCalls(w)
    /\ S!LastAssignment(w, LastResult(w), HandedInPending(w))
    /\ run_state' = [run_state EXCEPT ![w] = IF @ = "Stopping" THEN "Stopped" ELSE @]
    /\ step' = [step EXCEPT ![w] = "idle"]
    /\ UNCHANGED <<mailbox, pool, in_data, out_data, result, emitted, number, processed,
                   appVars>>

\* The inner loop: the same arrow again, without the scheduler.
Again(w) ==
    /\ run_state[w] = "Running"
    /\ step[w] = "done"
    /\ result[w] \in {"KeepGoing", "ComeBackLater"}
    /\ step' = [step EXCEPT ![w] = "pull_input"]
    /\ UNCHANGED <<mailbox, pool, in_data, out_data, result, emitted, number, processed,
                   assigned, ts, lost, run_state, appVars>>

\* DoReduce() refuses events once the processor is finalized.
Refuses(w) == step[w] = "process" /\ IsLast(w) /\ NArrows - 1 \in ts.finalized

Work(w) ==
    /\ \/ PullInput(w)
       \/ PullOutput(w)
       \/ Revert(w)
       \/ Emit(w)
       \/ EmitFails(w)
       \/ ~Refuses(w) /\ ProcessEvent(w)
       \/ PushInput(w)
       \/ PushOutput(w)
    /\ UNCHANGED <<assigned, ts, lost, run_state, appVars>>

Hung == {w \in Workers : step[w] = "hung"}

\* A component's code does not come back.  (Bound: for one worker at most.)
Hang(w) ==
    /\ CanHang
    /\ Hung = {}
    /\ step[w] = "process"
    /\ step' = [step EXCEPT ![w] = "hung"]
    /\ UNCHANGED <<mailbox, pool, in_data, out_data, result, emitted, number, processed,
                   assigned, ts, lost, run_state, appVars>>

\* It comes back after all, before or after it has been declared timed out.
ComeBack(w) ==
    /\ step[w] = "hung"
    /\ step' = [step EXCEPT ![w] = "process"]
    /\ UNCHANGED <<mailbox, pool, in_data, out_data, result, emitted, number, processed,
                   assigned, ts, lost, run_state, appVars>>

\* The loop is left through a catch block, and nothing is checked in.
Except(w) ==
    /\ CanThrow \/ Refuses(w)
    /\ ProcessThrows(w)
    /\ S!Throw(w)
    /\ run_state' = [run_state EXCEPT ![w] = "Excepted"]
    /\ UNCHANGED appVars

\* The last line of the catch block.
ExceptPauses(w) ==
    /\ step[w] = "threw"
    /\ S!RequestTopologyPause
    /\ step' = [step EXCEPT ![w] = "excepted"]
    /\ UNCHANGED <<mailbox, pool, in_data, out_data, result, emitted, number, processed,
                   run_state, appVars>>

WorkerStep(w) ==
    Ask(w) \/ Leave(w) \/ Again(w) \/ Work(w) \/ Hang(w) \/ ComeBack(w) \/ Except(w)
        \/ ExceptPauses(w)

-----------------------------------------------------------------------------
(* JArrowProcessingController, as JApplication and the inspector drive it. *)

JoinedAnyWorker == \E w \in Workers : run_state[w] \in {"Stopped", "TimedOut"}

\* wait_for_stop() returns for every worker: it joins the thread, or lets go of
\* a thread that has timed out.
Joined ==
    \A w \in Workers :
        run_state[w] \in {"Stopped", "TimedOut"} \/ step[w] = "excepted"

Initialize ==
    /\ phase = "new"
    /\ S!InitializeTopology
    /\ phase' = "ready"
    /\ UNCHANGED <<pipeVars, run_state, inspecting, runs>>

\* run(): the topology first, then a thread for every worker that is Stopped.
\* The first time from Run(), later from the inspector's Resume or Scale.
Run ==
    /\ phase \in {"ready", "inspector"}
    /\ runs < MaxRuns
    /\ runs' = runs + 1
    /\ S!RunTopology
    /\ run_state' = [w \in Workers |->
                        IF run_state[w] = "Stopped" THEN "Running" ELSE run_state[w]]
    /\ phase' = "watch"
    /\ inspecting' = FALSE
    /\ UNCHANGED pipeVars

\* The first half of the loop: is_stopped() or is_finished() ends it.
Watch ==
    /\ phase = "watch"
    /\ phase' = IF ts.topology \in {"Paused", "Finalized"} THEN "joining" ELSE "tick"
    /\ UNCHANGED <<pipeVars, assigned, ts, lost, run_state, inspecting, runs>>

IsExcepted == \E w \in Workers : run_state[w] = "Excepted"

\* The second half: is_timed_out() declares the timeout and drains, unless the
\* inspector has been open and has switched timeouts off, ...
TickTimesOut ==
    /\ phase = "tick"
    /\ runs = 1
    /\ Hung # {}
    /\ run_state' = [w \in Workers |-> IF w \in Hung THEN "TimedOut" ELSE run_state[w]]
    /\ S!DrainTopology
    /\ phase' = "joining"
    /\ UNCHANGED <<pipeVars, inspecting, runs>>

\* ... is_excepted() drains and throws, ...
TickThrows ==
    /\ phase = "tick"
    /\ IsExcepted
    /\ S!DrainTopology
    /\ phase' = "failed"
    /\ UNCHANGED <<pipeVars, run_state, inspecting, runs>>

\* ... or m_inspecting enters the inspector, which asks for a pause again.
TickInspects ==
    /\ phase = "tick"
    /\ ~IsExcepted
    /\ inspecting
    /\ S!RequestTopologyPause
    /\ phase' = "pausing"
    /\ UNCHANGED <<pipeVars, run_state, inspecting, runs>>

TickOn ==
    /\ phase = "tick"
    /\ ~IsExcepted
    /\ ~inspecting
    /\ phase' = "watch"
    /\ UNCHANGED <<pipeVars, assigned, ts, lost, run_state, inspecting, runs>>

WaitUntilPaused ==
    /\ phase = "pausing"
    /\ Joined
    /\ S!AchieveTopologyPause
    /\ phase' = "inspector"
    /\ UNCHANGED <<pipeVars, run_state, inspecting, runs>>

\* wait_until_stopped(), from Run() or from Quit(), which then exits.
WaitUntilStopped ==
    /\ phase \in {"joining", "quitting"}
    /\ Joined
    /\ S!FinishTopology
    /\ phase' = IF phase = "joining" THEN "finished" ELSE "exited"
    /\ UNCHANGED <<pipeVars, run_state, inspecting, runs>>

\* The destructor, after Run() threw.
Destroy ==
    /\ phase = "failed"
    /\ run_state' = [w \in Workers |->
                        IF run_state[w] = "Running" THEN "Stopping" ELSE run_state[w]]
    /\ phase' = "destroyed"
    /\ UNCHANGED <<pipeVars, assigned, ts, lost, inspecting, runs>>

\* JApplication::Stop(false), from any thread.
Stop ==
    /\ CanStop
    /\ phase \in {"watch", "tick"}
    /\ S!DrainTopology
    /\ UNCHANGED <<pipeVars, run_state, appVars>>

\* The first SIGINT since the inspector was last open.
HandleSigint ==
    /\ CanInterrupt
    /\ phase \in {"watch", "tick"}
    /\ ~inspecting
    /\ S!RequestTopologyPause
    /\ inspecting' = TRUE
    /\ UNCHANGED <<pipeVars, run_state, phase, runs>>

\* The second SIGINT, to the main thread: Quit(false) stops and joins.
QuitGracefully ==
    /\ CanInterrupt
    /\ phase \in {"watch", "tick", "pausing", "inspector"}
    /\ inspecting
    /\ S!DrainTopology
    /\ phase' = "quitting"
    /\ UNCHANGED <<pipeVars, run_state, inspecting, runs>>

\* The third: Quit(true) exits.
QuitAtOnce ==
    /\ CanInterrupt
    /\ phase = "quitting"
    /\ phase' = "exited"
    /\ UNCHANGED <<pipeVars, assigned, ts, lost, run_state, inspecting, runs>>

Supervise ==
    Initialize \/ Run \/ Watch \/ TickTimesOut \/ TickThrows \/ TickInspects \/ TickOn
        \/ WaitUntilPaused \/ WaitUntilStopped \/ Destroy

Interfere == Stop \/ HandleSigint \/ QuitGracefully \/ QuitAtOnce

Next == Supervise \/ Interfere \/ \E w \in Workers : phase # "exited" /\ WorkerStep(w)

Spec == Init /\ [][Next]_vars

\* Every thread that can go on does.  A worker goes back to the scheduler again
\* and again, because m_checkin_time ends the inner loop; the event source does
\* not answer FailureTryAgain for ever.
FairSpec ==
    /\ Spec
    /\ WF_vars(Supervise)
    /\ \A w \in Workers :
          /\ WF_vars(Leave(w) \/ ExceptPauses(w) \/ Again(w) \/ Work(w))
          /\ SF_vars(Ask(w))
          /\ SF_vars(Emit(w) /\ UNCHANGED <<assigned, ts, lost, run_state, appVars>>)

-----------------------------------------------------------------------------
(* Properties.                                                             *)

\* How far a worker's execute() looks to module Pipeline: a call that hangs is still
\* in process(), one that has been unwound looks like one that threw.
PipeStep ==
    [w \in Workers |-> CASE step[w] = "hung"     -> "process"
                         [] step[w] = "excepted" -> "threw"
                         [] OTHER                -> step[w]]

\* The result of a call matters from the time process() returns.
PipeResult ==
    [w \in Workers |->
        IF step[w] \in {"push_input", "push_output", "done"} THEN result[w] ELSE "NotRunYet"]

Pipe == INSTANCE Pipeline WITH step <- PipeStep, result <- PipeResult

\* The workers and the scheduler together are a scheduler as module Pipeline
\* describes it, so what holds there of events and reservations holds here,
\* through exceptions, timeouts and late returns, pauses and restarts.
PipelineSpec == Pipe!Spec

\* While the inspector is open, nobody executes an arrow and no slot of a
\* mailbox is taken, unless a worker was lost to an exception.
InspectorAlone ==
    phase = "inspector" /\ lost = {} =>
        /\ ts.topology = "Paused"
        /\ \A w \in Workers : assigned[w] = None
        /\ \A q \in Queues \X Locations : mailbox[q].reserved_count = 0

\* When the scheduler has retired every arrow, the source has emitted all its
\* events and each has been processed: no arrow was retired with an event still
\* on its way to it.  (Pauses, restarts and exceptions included.)
NaturalEndIsComplete ==
    ts.topology = "Paused" /\ (\A a \in Arrows : ts.status[a] = "Finalized")
        => emitted = NumEvents /\ InFlight = {}

\* Run() watches, and there is no worker left that could change anything.
NobodyLeft ==
    phase \in {"watch", "tick"} /\ Joined /\ ~inspecting /\ lost = {} /\ Hung = {}

\* The workers do not all leave a running topology: the loop in Run() would wait
\* for ever for one of them to check in the last arrow.  Nor do they leave an arrow
\* that is still in service.  (They may leave a topology that is Draining: a Stop()
\* that comes after the last checkin turns Paused into Draining, and Run() waits.)
WorkersQuitTogether ==
    NobodyLeft => ts.topology # "Running" /\ \A a \in Arrows : ts.status[a] # "Active"

\* What JArrowProcessingController::request_stop() is documented to do: "Unlike
\* request_pause, this drains all queues."  When the topology has stopped that
\* way, no event is left on its way.
StopDrainsQueues ==
    runs = 1 /\ ts.topology = "Paused" /\ Joined /\ lost = {} => InFlight = {}

\* What ArrowStatus::Draining is documented to mean: "All upstreams are inactive
\* and queues are emptied, but arrow still has at least one worker out."
DrainingHasWorker ==
    \A a \in Arrows : ts.status[a] = "Draining" => Holders(a) # {}

\* What JApplication::Run() is documented to do: return "when all event sources
\* have been exhausted and all events have been processed such that all JWorkers
\* have stopped".  With no outside interference that time comes.
Completes == <>(phase = "finished")

=============================================================================

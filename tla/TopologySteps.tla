---------------------------- MODULE TopologySteps ----------------------------
(***************************************************************************)
(* The inductive invariants of Topology, and what each step does: to the   *)
(* workers' RunStates and the phase of JApplication::Run() (AppInv), to    *)
(* module Pipeline, and to the arrows' statuses and what a retired arrow   *)
(* leaves behind it (RetireInv).  Module TopologyProofs puts them together *)
(* with the proofs about the scheduler.                                    *)
(***************************************************************************)
EXTENDS Topology, TLAPS

-----------------------------------------------------------------------------
(* What a worker's RunState and the phase of Run() say.                    *)

RunStates == {"Stopped", "Running", "Stopping", "TimedOut", "Excepted"}

\* A worker holds an arrow exactly while it executes, and a thread that has ended
\* holds none, unless an exception ended it.
WorkerInv(w) ==
    /\ step[w] = "idle" <=> assigned[w] = None
    /\ step[w] \in {"threw", "excepted"} <=> w \in lost
    /\ w \in lost <=> run_state[w] = "Excepted"
    /\ run_state[w] = "Stopped" => step[w] = "idle"

\* Run() may still go on, or hand over to the inspector.
Operating == {"ready", "watch", "tick", "pausing", "inspector"}

Up == {"Running", "Pausing", "Draining", "Paused"}

\* Until Run() leaves its loop the topology is up and no thread was told to stop;
\* when the inspector opens every thread has ended.
PhaseInv ==
    /\ phase \in Operating => ts.topology \in Up
    /\ phase \in Operating \cup {"new"} =>
          \A w \in Workers : run_state[w] \notin {"TimedOut", "Stopping"}
    /\ phase = "inspector" =>
          /\ ts.topology = "Paused"
          /\ \A w \in Workers : run_state[w] = "Stopped" \/ w \in lost

AppInv ==
    /\ step \in [Workers -> Steps]
    /\ result \in [Workers -> Status]
    /\ run_state \in [Workers -> RunStates]
    /\ assigned \in [Workers -> Arrows \cup {None}]
    /\ lost \in SUBSET Workers
    /\ \A w \in Workers : WorkerInv(w)
    /\ PhaseInv

\* The steps of execute() that a worker is between, and those it can come to.
Executing == {"pull_input", "pull_output", "revert", "process", "push_input", "push_output"}

Reaching == {"pull_output", "revert", "process", "push_input", "push_output", "done"}

\* What a step of execute() does to the worker's own state: it goes on, and its
\* result is Finished only if the source has no more events.
WorkShape(w, s, r) ==
    /\ step[w] \in Executing
    /\ step' = [step EXCEPT ![w] = s]
    /\ result' = [result EXCEPT ![w] = r]
    /\ \/ r = result[w]
       \/ r \in {"KeepGoing", "ComeBackLater"}
       \/ r = "Finished" /\ ~(emitted < NumEvents)

\* Every step of execute() that returns has that shape.
LEMMA WorkHasShape ==
    ASSUME AppInv, NEW w \in Workers, Work(w)
    PROVE  \E s \in Reaching, r \in Status : WorkShape(w, s, r)
<1>0. step \in [Workers -> Steps] /\ result \in [Workers -> Status] /\ result[w] \in Status
  BY DEF AppInv
<1>1. ASSUME NEW s \in Reaching, Goto(w, s), step[w] \in Executing
      PROVE  \E r \in Status : WorkShape(w, s, r)
  <2>1. result' = [result EXCEPT ![w] = result[w]]
    BY <1>0, <1>1 DEF Goto
  <2>2. WorkShape(w, s, result[w])
    BY <1>1, <2>1, ZenonT(30) DEF Goto, WorkShape
  <2> QED
    BY <1>0, <2>2
<1>2. ASSUME Return(w, "ComeBackLater"), step[w] \in Executing
      PROVE  WorkShape(w, "done", "ComeBackLater")
  BY <1>2 DEF Return, WorkShape
<1>3. "ComeBackLater" \in Status /\ "KeepGoing" \in Status /\ "Finished" \in Status
  BY DEF Status
<1>4. CASE PullInput(w) \/ PullOutput(w) \/ Revert(w) \/ PushInput(w) \/ PushOutput(w)
  <2>1. step[w] \in Executing
    BY <1>4 DEF PullInput, PullOutput, Revert, PushInput, PushOutput, Executing
  <2>2. (\E s \in Reaching : Goto(w, s)) \/ Return(w, "ComeBackLater")
    BY <1>4 DEF PullInput, PullOutput, Revert, PushInput, PushOutput, Reaching
  <2>3. "done" \in Reaching
    BY DEF Reaching
  <2> QED
    BY <1>1, <1>2, <1>3, <2>1, <2>2, <2>3
<1>5. CASE Emit(w) \/ ProcessEvent(w)
  <2>1. WorkShape(w, "push_input", "KeepGoing")
    BY <1>5 DEF Emit, ProcessEvent, WorkShape, Executing
  <2> QED
    BY <1>3, <2>1 DEF Reaching
<1>6. CASE EmitFails(w)
  <2>1. \/ WorkShape(w, "push_input", "ComeBackLater")
        \/ WorkShape(w, "push_input", "Finished")
    BY <1>6, ZenonT(30) DEF EmitFails, WorkShape, Executing
  <2> QED
    BY <1>3, <2>1 DEF Reaching
<1> QED
  BY <1>4, <1>5, <1>6 DEF Work

\* AppInv without the phase.
CrewInv ==
    /\ step \in [Workers -> Steps]
    /\ result \in [Workers -> Status]
    /\ run_state \in [Workers -> RunStates]
    /\ assigned \in [Workers -> Arrows \cup {None}]
    /\ lost \in SUBSET Workers
    /\ \A w \in Workers : WorkerInv(w)

\* A step of worker w leaves the other workers as they are.
Moves(w, s, x, a) ==
    /\ step' = [step EXCEPT ![w] = s]
    /\ run_state' = [run_state EXCEPT ![w] = x]
    /\ assigned' = [assigned EXCEPT ![w] = a]
    /\ lost' = IF x = "Excepted" THEN lost \cup {w} ELSE lost \ {w}
    /\ result' \in [Workers -> Status]

\* Such a step keeps the crew in order when w itself is.
LEMMA MovesKeepCrew ==
    ASSUME CrewInv, NEW w \in Workers, NEW s \in Steps, NEW x \in RunStates,
           NEW a \in Arrows \cup {None}, Moves(w, s, x, a),
           s = "idle" <=> a = None,
           s \in {"threw", "excepted"} <=> x = "Excepted",
           x = "Stopped" => s = "idle"
    PROVE  CrewInv'
<1>1. /\ step' \in [Workers -> Steps]
      /\ run_state' \in [Workers -> RunStates]
      /\ assigned' \in [Workers -> Arrows \cup {None}]
      /\ lost' \in SUBSET Workers
      /\ result' \in [Workers -> Status]
  BY DEF CrewInv, Moves
<1>2. ASSUME NEW v \in Workers
      PROVE  WorkerInv(v)'
  <2>1. CASE v = w
    <3>1. step'[w] = s /\ run_state'[w] = x /\ assigned'[w] = a
          /\ (w \in lost' <=> x = "Excepted")
      BY DEF CrewInv, Moves
    <3> QED
      BY <2>1, <3>1 DEF WorkerInv
  <2>2. CASE v # w
    <3>1. step'[v] = step[v] /\ run_state'[v] = run_state[v] /\ assigned'[v] = assigned[v]
          /\ (v \in lost' <=> v \in lost)
      BY <2>2 DEF CrewInv, Moves
    <3> QED
      BY <3>1 DEF CrewInv, WorkerInv
  <2> QED
    BY <2>1, <2>2
<1> QED
  BY <1>1, <1>2 DEF CrewInv

\* Every step of a worker keeps the crew in order.
LEMMA WorkerKeepsCrew ==
    ASSUME AppInv, NEW w \in Workers, WorkerStep(w)
    PROVE  CrewInv'
<1>0. CrewInv /\ WorkerInv(w) /\ assigned[w] \in Arrows \cup {None} /\ run_state[w] \in RunStates
      /\ step[w] \in Steps
  BY DEF AppInv, CrewInv
<1>1. \A a \in Arrows : a # None
  BY WorkersAssumption
<1>2. /\ step = [step EXCEPT ![w] = step[w]]
      /\ run_state = [run_state EXCEPT ![w] = run_state[w]]
      /\ assigned = [assigned EXCEPT ![w] = assigned[w]]
      /\ lost = IF run_state[w] = "Excepted" THEN lost \cup {w} ELSE lost \ {w}
  BY <1>0 DEF CrewInv, WorkerInv
<1>3. /\ {"idle", "pull_input", "hung", "process", "threw", "excepted"} \subseteq Steps
      /\ Reaching \subseteq Steps /\ Reaching \cap {"idle", "threw", "excepted"} = {}
      /\ {"Stopped", "Excepted"} \subseteq RunStates
      /\ "NotRunYet" \in Status
  BY DEF Steps, Reaching, RunStates, Status
<1>4. CASE Ask(w)
  <2>1. PICK a \in Arrows \cup {None} : assigned' = [assigned EXCEPT ![w] = a]
    BY <1>4, ZenonT(30) DEF Ask, S!NextAssignment, S!checkout_choice, S!Arrows, Arrows
  <2>2. assigned'[w] = a /\ w \notin lost /\ lost' = lost
    BY <1>0, <1>4, <2>1 DEF CrewInv, Ask, S!NextAssignment
  <2>3. result' \in [Workers -> Status]
    BY <1>0, <1>3, <1>4 DEF CrewInv, Ask
  <2>4. CASE a = None
    <3>1. Moves(w, "idle", "Stopped", a)
      BY <1>4, <2>1, <2>2, <2>3, <2>4 DEF Ask, Moves
    <3> QED
      BY <1>0, <1>3, <2>4, <3>1, MovesKeepCrew
  <2>5. CASE a # None
    <3>1. Moves(w, "pull_input", run_state[w], a) /\ run_state[w] = "Running"
      BY <1>2, <1>4, <2>1, <2>2, <2>3, <2>5 DEF Ask, Moves
    <3> QED
      BY <1>0, <1>3, <2>5, <3>1, MovesKeepCrew
  <2> QED
    BY <2>4, <2>5
<1>5. CASE Leave(w)
  <2> DEFINE x == IF run_state[w] = "Stopping" THEN "Stopped" ELSE run_state[w]
  <2>1. x \in RunStates /\ x \in {"Stopped", "TimedOut"}
    BY <1>0, <1>3, <1>5 DEF Leave
  <2>2. Moves(w, "idle", x, None)
    BY <1>0, <1>5, <2>1 DEF Leave, S!LastAssignment, Moves, CrewInv
  <2> QED
    BY <1>0, <1>3, <2>1, <2>2, MovesKeepCrew
<1>6. CASE Again(w)
  <2>1. Moves(w, "pull_input", run_state[w], assigned[w]) /\ step[w] = "done"
    BY <1>0, <1>2, <1>6 DEF Again, Moves, CrewInv
  <2> QED
    BY <1>0, <1>3, <2>1, MovesKeepCrew DEF WorkerInv
<1>7. CASE Work(w)
  <2>1. PICK s \in Reaching, r \in Status : WorkShape(w, s, r)
    BY <1>7, WorkHasShape
  <2>2. Moves(w, s, run_state[w], assigned[w]) /\ step[w] \in Executing
    BY <1>0, <1>2, <1>7, <2>1 DEF Work, WorkShape, Moves, CrewInv
  <2> QED
    BY <1>0, <1>3, <2>2, MovesKeepCrew DEF WorkerInv, Executing
<1>8. CASE Hang(w) \/ ComeBack(w)
  <2>1. PICK s \in {"hung", "process"} :
           Moves(w, s, run_state[w], assigned[w]) /\ step[w] \in {"process", "hung"}
    BY <1>0, <1>2, <1>8 DEF Hang, ComeBack, Moves, CrewInv
  <2> QED
    BY <1>0, <1>3, <2>1, MovesKeepCrew DEF WorkerInv
<1>9. CASE Except(w)
  <2>1. Moves(w, "threw", "Excepted", assigned[w]) /\ step[w] = "process"
    BY <1>0, <1>2, <1>9 DEF Except, ProcessThrows, S!Throw, Moves, CrewInv
  <2> QED
    BY <1>0, <1>3, <2>1, MovesKeepCrew DEF WorkerInv
<1>10. CASE ExceptPauses(w)
  <2>1. Moves(w, "excepted", run_state[w], assigned[w]) /\ step[w] = "threw"
    BY <1>0, <1>2, <1>10 DEF ExceptPauses, S!RequestTopologyPause, Moves, CrewInv
  <2> QED
    BY <1>0, <1>3, <2>1, MovesKeepCrew DEF WorkerInv
<1> QED
  BY <1>4, <1>5, <1>6, <1>7, <1>8, <1>9, <1>10 DEF WorkerStep

\* checkin() and with it both assignments leave the topology status alone or pause.
LEMMA CheckinTopology ==
    ASSUME NEW t \in S!TopologyState, NEW a, NEW r, NEW p
    PROVE  /\ "topology" \in DOMAIN S!checkin(t, a, r, p)
           /\ S!checkin(t, a, r, p).topology \in {t.topology, "Paused"}
<1> DEFINE ret == [t EXCEPT !.thread_count[a] = @ - 1]
           fin == [S!deactivate(ret, a, "Finalized") EXCEPT !.finalized = @ \cup {a}]
           dra == [ret EXCEPT !.status[a] = "Draining"]
           foundInactive == \/ S!FoundInactiveSource(ret, a, r)
                            \/ S!FoundInactiveStageOrSink(ret, a, p)
           nxt == IF foundInactive THEN fin
                  ELSE IF S!FoundDrainingStageOrSink(ret, a, p) THEN dra ELSE ret
<1>1. DOMAIN ret = DOMAIN t /\ ret.topology = t.topology /\ "topology" \in DOMAIN t
  BY DEF S!TopologyState
<1> HIDE DEF ret
<1>2. DOMAIN fin = DOMAIN t /\ fin.topology = t.topology
  BY <1>1 DEF S!deactivate
<1>3. DOMAIN dra = DOMAIN t /\ dra.topology = t.topology
  BY <1>1
<1> HIDE DEF fin, dra
<1>4. DOMAIN nxt = DOMAIN t /\ nxt.topology = t.topology
  BY <1>1, <1>2, <1>3
<1>5. S!checkin(t, a, r, p) = IF S!NoneActive(nxt) THEN S!achieve_topology_pause(nxt) ELSE nxt
  BY DEF S!checkin, ret, fin, dra
<1> HIDE DEF nxt
<1>6. /\ "topology" \in DOMAIN S!achieve_topology_pause(nxt)
      /\ S!achieve_topology_pause(nxt).topology \in {t.topology, "Paused"}
  BY <1>1, <1>4 DEF S!achieve_topology_pause
<1> QED
  BY <1>1, <1>4, <1>5, <1>6

\* What each call of the scheduler may do to the topology status.
LEMMA CallsTopology ==
    ASSUME ts \in S!TopologyState
    PROVE  /\ \A w, r, p : S!NextAssignment(w, r, p) \/ S!LastAssignment(w, r, p)
                 => ts'.topology \in {ts.topology, "Paused"}
           /\ S!InitializeTopology => ts'.topology = "Paused"
           /\ S!RunTopology => ts'.topology \in {ts.topology, "Running"}
           /\ S!DrainTopology => ts'.topology \in {ts.topology, "Draining"}
           /\ S!RequestTopologyPause => ts'.topology \in {ts.topology, "Pausing"}
           /\ S!AchieveTopologyPause /\ ts.topology \in Up => ts'.topology = "Paused"
<1>1. ASSUME NEW w, NEW r, NEW p, S!NextAssignment(w, r, p) \/ S!LastAssignment(w, r, p)
      PROVE  ts'.topology \in {ts.topology, "Paused"}
  <2> DEFINE t == S!HandedIn(w, r, p)
  <2>1. "topology" \in DOMAIN t /\ t.topology \in {ts.topology, "Paused"}
    BY CheckinTopology DEF S!HandedIn, S!TopologyState
  <2> HIDE DEF t
  <2>2. \A a : S!checkout_unprotected(t, a).topology = t.topology
    BY <2>1 DEF S!checkout_unprotected
  <2>3. CASE S!NextAssignment(w, r, p)
    <3>1. \E a : ts' = S!checkout_unprotected(t, a)
      BY <2>3 DEF S!NextAssignment, t
    <3> QED
      BY <2>1, <2>2, <3>1
  <2>4. CASE S!LastAssignment(w, r, p)
    BY <2>1, <2>4 DEF S!LastAssignment, t
  <2> QED
    BY <1>1, <2>3, <2>4
<1>2. DOMAIN ts = {"status", "thread_count", "upstream_count", "topology", "active_count",
                   "next_arrow", "finalized"}
  BY DEF S!TopologyState
<1>3. S!InitializeTopology => ts'.topology = "Paused"
  BY <1>2 DEF S!InitializeTopology, S!initialize_topology
<1>4. S!RunTopology => ts'.topology \in {ts.topology, "Running"}
  BY <1>2 DEF S!RunTopology, S!run_topology
<1>5. \A X : DOMAIN S!deactivate_all(ts, X) = DOMAIN ts
  BY <1>2 DEF S!deactivate_all
<1>6. S!DrainTopology => ts'.topology \in {ts.topology, "Draining"}
  BY <1>2, <1>5 DEF S!DrainTopology, S!drain_topology
<1>7. S!RequestTopologyPause => ts'.topology \in {ts.topology, "Pausing"}
  BY <1>2, <1>5 DEF S!RequestTopologyPause, S!request_topology_pause
<1>8. S!AchieveTopologyPause /\ ts.topology \in Up => ts'.topology = "Paused"
  BY <1>2 DEF S!AchieveTopologyPause, S!achieve_topology_pause, Up
<1> QED
  BY <1>1, <1>3, <1>4, <1>6, <1>7, <1>8

\* Every step of a worker keeps what the phase says: nothing runs in the inspector.
LEMMA WorkerKeepsPhase ==
    ASSUME AppInv, ts \in S!TopologyState, NEW w \in Workers, WorkerStep(w)
    PROVE  PhaseInv'
<1>0. WorkerInv(w) /\ run_state \in [Workers -> RunStates] /\ PhaseInv
  BY ZenonT(30) DEF AppInv
<1>1. phase' = phase
  BY ZenonT(30) DEF WorkerStep, Ask, Leave, Again, Work, Hang, ComeBack, Except, ExceptPauses, appVars
<1>2. lost \subseteq lost'
  BY ZenonT(30) DEF WorkerStep, Ask, Leave, Again, Work, Hang, ComeBack, Except, ExceptPauses,
     S!NextAssignment, S!LastAssignment, S!Throw, S!RequestTopologyPause
<1>3. ts' = ts \/ ts'.topology \in {ts.topology, "Paused", "Pausing"}
  BY CallsTopology DEF WorkerStep, Ask, Leave, Again, Work, Hang, ComeBack, Except,
     ExceptPauses, S!Throw
<1>4. \A v \in Workers :
         \/ run_state'[v] = run_state[v]
         \/ v = w /\ run_state'[v] \in {"Stopped", "Excepted"} /\ step[w] # "idle"
         \/ v = w /\ run_state'[v] = "Stopped" /\ run_state[w] # "Stopped"
  <2>1. CASE Ask(w) \/ Leave(w)
    BY <1>0, <2>1 DEF Ask, Leave
  <2>2. CASE Except(w)
    BY <1>0, <2>2, ZenonT(30) DEF Except, ProcessThrows
  <2>3. CASE Again(w) \/ Work(w) \/ Hang(w) \/ ComeBack(w) \/ ExceptPauses(w)
    BY <2>3, ZenonT(30) DEF Again, Work, Hang, ComeBack, ExceptPauses
  <2> QED
    BY <2>1, <2>2, <2>3, ZenonT(30) DEF WorkerStep
<1>5. phase \in Operating => ts'.topology \in Up
  BY <1>0, <1>3 DEF PhaseInv, Up
<1>6. phase \in Operating \cup {"new"} =>
         \A v \in Workers : run_state'[v] \notin {"TimedOut", "Stopping"}
  BY <1>0, <1>4 DEF PhaseInv
<1>7. ASSUME phase = "inspector"
      PROVE  /\ ts'.topology = "Paused"
             /\ \A v \in Workers : run_state'[v] = "Stopped" \/ v \in lost'
  <2>1. ts.topology = "Paused" /\ \A v \in Workers : run_state[v] = "Stopped" \/ v \in lost
    BY <1>0, <1>7 DEF PhaseInv
  <2>2. step[w] \in {"idle", "threw", "excepted"} /\ run_state[w] \in {"Stopped", "Excepted"}
    BY <1>0, <2>1, ZenonT(30) DEF WorkerInv
  <2>3. ExceptPauses(w)
    BY <2>2, ZenonT(30) DEF WorkerStep, Ask, Leave, Again, Work, PullInput, PullOutput, Revert, Emit,
       EmitFails, ProcessEvent, PushInput, PushOutput, Hang, ComeBack, Except, ProcessThrows
  <2>4. ts' = ts /\ run_state' = run_state /\ lost' = lost
    BY <2>1, <2>3 DEF ExceptPauses, S!RequestTopologyPause, S!request_topology_pause
  <2> QED
    BY <2>1, <2>4
<1> QED
  BY <1>1, <1>5, <1>6, <1>7 DEF PhaseInv

\* Every step of Run(), of the inspector and of the outside keeps the crew in order.
LEMMA ControllerKeepsCrew ==
    ASSUME AppInv, Supervise \/ Interfere
    PROVE  CrewInv'
<1>0. CrewInv
  BY ZenonT(30) DEF AppInv, CrewInv
<1>1. UNCHANGED <<step, result, assigned, lost>>
  BY ZenonT(30) DEF Supervise, Interfere, Initialize, Run, Watch, TickTimesOut, TickThrows, TickInspects,
     TickOn, WaitUntilPaused, WaitUntilStopped, Destroy, Stop, HandleSigint, QuitGracefully,
     QuitAtOnce, pipeVars, S!InitializeTopology, S!RunTopology, S!DrainTopology,
     S!RequestTopologyPause, S!AchieveTopologyPause, S!FinishTopology
<1>2. /\ run_state' \in [Workers -> RunStates]
      /\ \A w \in Workers :
            \/ run_state'[w] = run_state[w]
            \/ run_state[w] = "Stopped" /\ run_state'[w] = "Running"
            \/ run_state[w] = "Running" /\ run_state'[w] = "Stopping"
            \/ step[w] = "hung" /\ run_state'[w] = "TimedOut"
  <2>1. CASE UNCHANGED run_state
    BY <1>0, <2>1 DEF CrewInv
  <2>2. CASE Run
    BY <1>0, <2>2 DEF CrewInv, Run, RunStates
  <2>3. CASE TickTimesOut
    BY <1>0, <2>3 DEF CrewInv, TickTimesOut, RunStates, Hung
  <2>4. CASE Destroy
    BY <1>0, <2>4 DEF CrewInv, Destroy, RunStates
  <2> QED
    BY <2>1, <2>2, <2>3, <2>4 DEF Supervise, Interfere, Initialize, Watch, TickThrows,
       TickInspects, TickOn, WaitUntilPaused, WaitUntilStopped, Stop, HandleSigint,
       QuitGracefully, QuitAtOnce
<1>3. ASSUME NEW w \in Workers
      PROVE  WorkerInv(w)'
  BY <1>0, <1>1, <1>2 DEF CrewInv, WorkerInv
<1> QED
  BY <1>0, <1>1, <1>2, <1>3 DEF CrewInv

\* And what the phase says.
LEMMA ControllerKeepsPhase ==
    ASSUME AppInv, ts \in S!TopologyState, Supervise \/ Interfere
    PROVE  PhaseInv'
<1>0. PhaseInv /\ run_state \in [Workers -> RunStates] /\ \A w \in Workers : WorkerInv(w)
  BY DEF AppInv
<1>1. CASE Initialize
  <2>1. ts'.topology = "Paused" /\ phase = "new" /\ phase' = "ready" /\ run_state' = run_state
    BY <1>1, CallsTopology DEF Initialize
  <2> QED
    BY <1>0, <2>1 DEF PhaseInv, Up, Operating
<1>2. CASE Run
  <2>1. phase \in Operating /\ phase' = "watch" /\ ts'.topology \in {ts.topology, "Running"}
    BY <1>2, CallsTopology DEF Run, Operating
  <2>2. \A w \in Workers : run_state'[w] \in {run_state[w], "Running"}
    BY <1>2 DEF Run
  <2> QED
    BY <1>0, <2>1, <2>2 DEF PhaseInv, Up, Operating
<1>3. CASE Watch \/ TickOn
  <2>1. UNCHANGED <<ts, run_state, lost>> /\ phase \in Operating
        /\ phase' \in {"watch", "tick", "joining"}
    BY <1>3 DEF Watch, TickOn, Operating
  <2> QED
    BY <1>0, <2>1 DEF PhaseInv, Operating
<1>4. CASE TickTimesOut \/ TickThrows \/ Destroy \/ QuitGracefully \/ QuitAtOnce \/ WaitUntilStopped
  <2>1. phase' \notin Operating \cup {"new"}
    BY <1>4 DEF TickTimesOut, TickThrows, Destroy, QuitGracefully, QuitAtOnce, WaitUntilStopped,
       Operating
  <2> QED
    BY <2>1 DEF PhaseInv, Operating
<1>5. CASE TickInspects \/ Stop \/ HandleSigint
  <2>1. phase \in Operating /\ phase' \in {"watch", "tick", "pausing"} /\ run_state' = run_state
        /\ ts'.topology \in {ts.topology, "Pausing", "Draining"}
    BY <1>5, CallsTopology DEF TickInspects, Stop, HandleSigint, Operating, appVars
  <2> QED
    BY <1>0, <2>1 DEF PhaseInv, Up, Operating
<1>6. CASE WaitUntilPaused
  <2>1. phase = "pausing" /\ phase' = "inspector" /\ run_state' = run_state /\ lost' = lost
    BY <1>6 DEF WaitUntilPaused, S!AchieveTopologyPause
  <2>2. ts'.topology = "Paused"
    BY <1>0, <1>6, <2>1, CallsTopology DEF WaitUntilPaused, PhaseInv, Operating
  <2>3. \A w \in Workers : run_state[w] = "Stopped" \/ w \in lost
    BY <1>0, <1>6, <2>1 DEF WaitUntilPaused, Joined, PhaseInv, Operating, WorkerInv
  <2> QED
    BY <1>0, <2>1, <2>2, <2>3 DEF PhaseInv, Up, Operating
<1> QED
  BY <1>1, <1>2, <1>3, <1>4, <1>5, <1>6 DEF Supervise, Interfere

\* AppInv is preserved by every step.
LEMMA NextAppInv ==
    ASSUME AppInv, ts \in S!TopologyState, [Next]_vars
    PROVE  AppInv'
<1>1. CrewInv /\ PhaseInv <=> AppInv
  BY DEF CrewInv, AppInv
<1>2. CASE Next
  <2>1. CrewInv' /\ PhaseInv'
    BY <1>2, WorkerKeepsCrew, WorkerKeepsPhase, ControllerKeepsCrew, ControllerKeepsPhase DEF Next
  <2> QED
    BY <2>1 DEF CrewInv, AppInv
<1>3. CASE UNCHANGED vars
  BY <1>3 DEF vars, appVars, pipeVars, AppInv, WorkerInv, PhaseInv
<1> QED
  BY <1>2, <1>3

\* And holds at the start.
LEMMA InitAppInv == Init => AppInv
BY DEF Init, PipeInit, AppInv, WorkerInv, PhaseInv, Steps, Status, RunStates, Operating

-----------------------------------------------------------------------------
(* The workers execute the chain as module Pipeline allows.                *)

\* The part of execute() in which the result counts.
Late == {"push_input", "push_output", "done"}

\* A step of w to s is the same step of the mapped worker.
LEMMA MappedStep ==
    ASSUME step \in [Workers -> Steps], NEW w \in Workers, NEW s,
           s \notin {"hung", "excepted"}, step' = [step EXCEPT ![w] = s]
    PROVE  PipeStep' = [PipeStep EXCEPT ![w] = s]
<1>1. step'[w] = s /\ \A v \in Workers : v # w => step'[v] = step[v]
  OBVIOUS
<1>2. \A v \in Workers : PipeStep'[v] = IF v = w THEN s ELSE PipeStep[v]
  BY <1>1 DEF PipeStep
<1>3. PipeStep' = [v \in Workers |-> PipeStep'[v]] /\ DOMAIN PipeStep = Workers
  BY DEF PipeStep
<1> QED
  BY <1>2, <1>3, ZenonT(30)

\* And its result is r from process() on, and not yet there before.
LEMMA MappedResult ==
    ASSUME step \in [Workers -> Steps], result \in [Workers -> Status],
           NEW w \in Workers, NEW s, NEW r,
           step' = [step EXCEPT ![w] = s], result' = [result EXCEPT ![w] = r]
    PROVE  PipeResult' = [PipeResult EXCEPT ![w] = IF s \in Late THEN r ELSE "NotRunYet"]
<1>1. /\ step'[w] = s /\ \A v \in Workers : v # w => step'[v] = step[v]
      /\ result'[w] = r /\ \A v \in Workers : v # w => result'[v] = result[v]
  OBVIOUS
<1>2. \A v \in Workers : PipeResult'[v] =
         IF v = w THEN IF s \in Late THEN r ELSE "NotRunYet" ELSE PipeResult[v]
  BY <1>1 DEF PipeResult, Late
<1>3. PipeResult' = [v \in Workers |-> PipeResult'[v]] /\ DOMAIN PipeResult = Workers
  BY DEF PipeResult
<1> QED
  BY <1>2, <1>3, ZenonT(30)

\* execute() goes on or returns, and so does the mapped one.
LEMMA MappedControl ==
    ASSUME AppInv, NEW w \in Workers
    PROVE  /\ \A s : (/\ Goto(w, s) /\ s \notin {"hung", "excepted"}
                      /\ s \in Late <=> step[w] \in Late)
                     => Pipe!Goto(w, s)
           /\ \A r : Return(w, r) => Pipe!Return(w, r)
           /\ step[w] # "hung" /\ step[w] # "excepted" => PipeStep[w] = step[w]
<1>0. step \in [Workers -> Steps] /\ result \in [Workers -> Status]
  BY DEF AppInv
<1>1. ASSUME NEW s, Goto(w, s), s \notin {"hung", "excepted"}, s \in Late <=> step[w] \in Late
      PROVE  Pipe!Goto(w, s)
  <2>1. step' = [step EXCEPT ![w] = s] /\ result' = result
    BY <1>1 DEF Goto
  <2>2. PipeStep' = [PipeStep EXCEPT ![w] = s]
    BY <1>0, <1>1, <2>1, MappedStep, ZenonT(30)
  <2>3. PipeResult' = PipeResult
    BY <1>0, <1>1, <2>1 DEF PipeResult, Late
  <2> QED
    BY <2>2, <2>3 DEF Pipe!Goto
<1>2. ASSUME NEW r, Return(w, r)
      PROVE  Pipe!Return(w, r)
  <2>1. PipeStep' = [PipeStep EXCEPT ![w] = "done"]
    BY <1>0, <1>2, MappedStep, ZenonT(30) DEF Return
  <2>2. PipeResult' = [PipeResult EXCEPT ![w] = r]
    BY <1>0, <1>2, MappedResult, ZenonT(30) DEF Return, Late
  <2> QED
    BY <2>1, <2>2 DEF Pipe!Return
<1>3. step[w] # "hung" /\ step[w] # "excepted" => PipeStep[w] = step[w]
  BY DEF PipeStep
<1> QED
  BY <1>1, <1>2, <1>3

\* The operations on the mailboxes and on the pool mean the same in both modules.
LEMMA SamePlaces ==
    /\ \A p, l : poppable(p, l) = Pipe!poppable(p, l) /\ pop_fails(p, l) = Pipe!pop_fails(p, l)
    /\ \A p, l, e : pool_pop(p, l, e) = Pipe!pool_pop(p, l, e) /\ put(p, l, e) = Pipe!put(p, l, e)
    /\ \A m, x, y : /\ pop_count(m, x, y) = Pipe!pop_count(m, x, y)
                    /\ reserve_count(m, x, y) = Pipe!reserve_count(m, x, y)
                    /\ push_and_unreserve(m, x, y) = Pipe!push_and_unreserve(m, x, y)
    /\ \A m, n : /\ pop_and_reserve(m, n) = Pipe!pop_and_reserve(m, n)
                 /\ popped(m, n) = Pipe!popped(m, n)
                 /\ reserve(m, n) = Pipe!reserve(m, n)
    /\ EmptyData = Pipe!EmptyData
    /\ \A w : /\ IsSource(w) = Pipe!IsSource(w) /\ IsLast(w) = Pipe!IsLast(w)
              /\ InputQueue(w) = Pipe!InputQueue(w) /\ OutputQueue(w) = Pipe!OutputQueue(w)
<1>1. \A p, l : poppable(p, l) = Pipe!poppable(p, l) /\ pop_fails(p, l) = Pipe!pop_fails(p, l)
  BY Zenon DEF poppable, Pipe!poppable, pop_fails, Pipe!pop_fails, Pipe!Len
<1>2. \A p, l, e : pool_pop(p, l, e) = Pipe!pool_pop(p, l, e) /\ put(p, l, e) = Pipe!put(p, l, e)
  BY Zenon DEF pool_pop, Pipe!pool_pop, put, Pipe!put, PoolEvents, Pipe!PoolEvents, ItemsAt,
     Pipe!ItemsAt
<1>3. \A m, x, y : /\ pop_count(m, x, y) = Pipe!pop_count(m, x, y)
                   /\ reserve_count(m, x, y) = Pipe!reserve_count(m, x, y)
                   /\ push_and_unreserve(m, x, y) = Pipe!push_and_unreserve(m, x, y)
  <2>1. \A x, y : SizeSub(x, y) = Pipe!SizeSub(x, y)
    BY Zenon DEF SizeSub, Pipe!SizeSub
  <2>2. \A m, x, y : pop_count(m, x, y) = Pipe!pop_count(m, x, y)
    BY Zenon DEF pop_count, Pipe!pop_count
  <2>3. \A m : available_count(m) = Pipe!available_count(m)
    BY <2>1, Zenon DEF available_count, Pipe!available_count
  <2>4. \A m, x, y : reserve_count(m, x, y) = Pipe!reserve_count(m, x, y)
    BY <2>3, Zenon DEF reserve_count, Pipe!reserve_count
  <2>5. \A m, x, y : push_and_unreserve(m, x, y) = Pipe!push_and_unreserve(m, x, y)
    BY <2>1, Zenon DEF push_and_unreserve, Pipe!push_and_unreserve
  <2> QED
    BY <2>2, <2>4, <2>5
<1>4. \A m, n : /\ pop_and_reserve(m, n) = Pipe!pop_and_reserve(m, n)
                /\ popped(m, n) = Pipe!popped(m, n)
                /\ reserve(m, n) = Pipe!reserve(m, n)
  BY Zenon DEF pop_and_reserve, Pipe!pop_and_reserve, popped, Pipe!popped, reserve, Pipe!reserve
<1>5. /\ EmptyData = Pipe!EmptyData
      /\ \A w : /\ IsSource(w) = Pipe!IsSource(w) /\ IsLast(w) = Pipe!IsLast(w)
                /\ InputQueue(w) = Pipe!InputQueue(w) /\ OutputQueue(w) = Pipe!OutputQueue(w)
  BY Zenon DEF EmptyData, Pipe!EmptyData, IsSource, Pipe!IsSource, IsLast, Pipe!IsLast,
     InputQueue, Pipe!InputQueue, OutputQueue, Pipe!OutputQueue
<1> QED
  BY <1>1, <1>2, <1>3, <1>4, <1>5

\* A step of execute() is the same step of the mapped worker.
LEMMA WorkMaps ==
    ASSUME AppInv, NEW w \in Workers,
           Work(w) \/ (ProcessThrows(w) /\ UNCHANGED assigned)
    PROVE  Pipe!Execute(w) /\ UNCHANGED assigned
<1> USE SamePlaces
<1>0. UNCHANGED assigned
  BY DEF Work
<1>1. /\ step \in [Workers -> Steps] /\ result \in [Workers -> Status]
      /\ \A s : (/\ Goto(w, s) /\ s \notin {"hung", "excepted"}
                 /\ s \in Late <=> step[w] \in Late)
                => Pipe!Goto(w, s)
      /\ \A r : Return(w, r) => Pipe!Return(w, r)
      /\ step[w] # "hung" /\ step[w] # "excepted" => PipeStep[w] = step[w]
  BY MappedControl DEF AppInv
<1>2. CASE PullInput(w)
  <2>1. PipeStep[w] = "pull_input"
    BY <1>1, <1>2, ZenonT(30) DEF PullInput
  <2>2. Goto(w, "pull_output") => Pipe!Goto(w, "pull_output")
    BY <1>1, <1>2, ZenonT(30) DEF PullInput, Late
  <2>3. Return(w, "ComeBackLater") => Pipe!Return(w, "ComeBackLater")
    BY <1>1
  <2>4. Pipe!PullInput(w)
    BY <1>2, <2>1, <2>2, <2>3, Zenon DEF PullInput, Pipe!PullInput
  <2> QED
    BY <1>0, <2>4, ZenonT(30) DEF Pipe!Execute
<1>3. CASE PullOutput(w)
  <2>1. PipeStep[w] = "pull_output"
    BY <1>1, <1>3 DEF PullOutput
  <2>2. /\ Goto(w, "process") => Pipe!Goto(w, "process")
        /\ Goto(w, "revert") => Pipe!Goto(w, "revert")
    BY <1>1, <1>3 DEF PullOutput, Late
  <2>3. Pipe!PullOutput(w)
    BY <1>3, <2>1, <2>2, ZenonT(30) DEF PullOutput, Pipe!PullOutput
  <2> QED
    BY <1>0, <2>3 DEF Pipe!Execute
<1>4. GiveBackInput(w) => Pipe!GiveBackInput(w)
  BY ZenonT(30) DEF GiveBackInput, Pipe!GiveBackInput
<1>5. CASE Revert(w)
  <2>1. PipeStep[w] = "revert"
    BY <1>1, <1>5 DEF Revert
  <2>2. Pipe!Revert(w)
    BY <1>1, <1>4, <1>5, <2>1 DEF Revert, Pipe!Revert
  <2> QED
    BY <1>0, <2>2 DEF Pipe!Execute
<1>6. Succeed(w) => Pipe!Succeed(w)
  BY DEF Succeed, Pipe!Succeed
<1>7. ASSUME NEW r, step' = [step EXCEPT ![w] = "push_input"], result' = [result EXCEPT ![w] = r]
      PROVE  /\ PipeStep' = [PipeStep EXCEPT ![w] = "push_input"]
             /\ PipeResult' = [PipeResult EXCEPT ![w] = r]
  BY <1>1, <1>7, MappedStep, MappedResult, ZenonT(30) DEF Late
<1>8. CASE Emit(w)
  <2>1. PipeStep[w] = "process"
    BY <1>1, <1>8, ZenonT(30) DEF Emit
  <2>2. /\ PipeStep' = [PipeStep EXCEPT ![w] = "push_input"]
        /\ PipeResult' = [PipeResult EXCEPT ![w] = "KeepGoing"]
    BY <1>7, <1>8, ZenonT(30) DEF Emit
  <2>3. Pipe!Emit(w)
    BY <1>6, <1>8, <2>1, <2>2, ZenonT(30) DEF Emit, Pipe!Emit
  <2> QED
    BY <1>0, <2>3 DEF Pipe!Execute
<1>9. CASE EmitFails(w)
  <2>1. PipeStep[w] = "process"
    BY <1>1, <1>9 DEF EmitFails
  <2>2. /\ PipeStep' = [PipeStep EXCEPT ![w] = "push_input"]
        /\ PipeResult' = [PipeResult EXCEPT ![w] =
                             IF emitted < NumEvents THEN "ComeBackLater" ELSE "Finished"]
    BY <1>7, <1>9, ZenonT(30) DEF EmitFails
  <2>3. Pipe!EmitFails(w)
    BY <1>9, <2>1, <2>2 DEF EmitFails, Pipe!EmitFails
  <2> QED
    BY <1>0, <2>3, ZenonT(30) DEF Pipe!Execute
<1>10. CASE ProcessEvent(w)
  <2>1. PipeStep[w] = "process"
    BY <1>1, <1>10, ZenonT(30) DEF ProcessEvent
  <2>2. /\ PipeStep' = [PipeStep EXCEPT ![w] = "push_input"]
        /\ PipeResult' = [PipeResult EXCEPT ![w] = "KeepGoing"]
    BY <1>7, <1>10, ZenonT(30) DEF ProcessEvent
  <2>3. Pipe!ProcessEvent(w)
    BY <1>6, <1>10, <2>1, <2>2, ZenonT(30) DEF ProcessEvent, Pipe!ProcessEvent
  <2> QED
    BY <1>0, <2>3 DEF Pipe!Execute
<1>11. CASE ProcessThrows(w)
  <2>1. PipeStep[w] = "process" /\ Goto(w, "threw")
    BY <1>1, <1>11, ZenonT(30) DEF ProcessThrows, Goto
  <2>2. Pipe!Goto(w, "threw")
    BY <1>1, <1>11, <2>1, ZenonT(30) DEF ProcessThrows, Late
  <2>3. Pipe!ProcessThrows(w)
    BY <1>11, <2>1, <2>2, ZenonT(30) DEF ProcessThrows, Pipe!Goto, Pipe!ProcessThrows
  <2> QED
    BY <1>0, <2>3, ZenonT(30) DEF Pipe!Execute
<1>12. CASE PushInput(w)
  <2>1. PipeStep[w] = "push_input"
    BY <1>1, <1>12, ZenonT(30) DEF PushInput
  <2>2. Pipe!Goto(w, "push_output")
    BY <1>1, <1>12, ZenonT(30) DEF PushInput, Late
  <2>3. Pipe!PushInput(w)
    BY <1>4, <1>12, <2>1, <2>2, ZenonT(30) DEF PushInput, Pipe!PushInput
  <2> QED
    BY <1>0, <2>3, ZenonT(30) DEF Pipe!Execute
<1>13. CASE PushOutput(w)
  <2>1. PipeStep[w] = "push_output"
    BY <1>1, <1>13, ZenonT(30) DEF PushOutput
  <2>2. Pipe!Goto(w, "done")
    BY <1>1, <1>13, ZenonT(30) DEF PushOutput, Late
  <2>3. Pipe!PushOutput(w)
    BY <1>13, <2>1, <2>2, ZenonT(30) DEF PushOutput, Pipe!PushOutput
  <2> QED
    BY <1>0, <2>3, ZenonT(30) DEF Pipe!Execute
<1> QED
  BY <1>2, <1>3, <1>5, <1>8, <1>9, <1>10, <1>11, <1>12, <1>13, ZenonT(30) DEF Work

\* What the arrows rely on: no two workers are on the same sequential arrow.
Exclusive ==
    \A a \in Arrows \ ParallelArrows : \A v, w \in Holders(a) : v = w

\* A worker that comes to the scheduler between two calls begins a call or ends.
LEMMA CallMaps ==
    ASSUME AppInv, AppInv', Exclusive', NEW w \in Workers, Ask(w) \/ Leave(w) \/ Again(w)
    PROVE  Pipe!Next
<1>0. /\ step \in [Workers -> Steps] /\ result \in [Workers -> Status]
      /\ assigned \in [Workers -> Arrows \cup {None}]
      /\ assigned'[w] \in Arrows \cup {None} /\ WorkerInv(w)
  BY ZenonT(30) DEF AppInv
<1>1. step[w] \in {"idle", "pull_input", "done"}
  BY ZenonT(30) DEF Ask, Leave, Again, BetweenCalls
<1>2. Pipe!BetweenCalls(w)
  BY <1>1 DEF Pipe!BetweenCalls, PipeStep
<1>3. assigned' = [assigned EXCEPT ![w] = assigned'[w]]
      /\ UNCHANGED <<mailbox, pool, in_data, out_data, emitted, number, processed>>
  <2>1. CASE Ask(w)
    BY <1>0, <2>1 DEF Ask, S!NextAssignment
  <2>2. CASE Leave(w)
    BY <1>0, <2>2 DEF Leave, S!LastAssignment
  <2>3. CASE Again(w)
    BY <1>0, <2>3 DEF Again
  <2> QED
    BY <2>1, <2>2, <2>3, ZenonT(30)
<1>4. \E r : result' = [result EXCEPT ![w] = r]
  BY <1>0, SMTT(30) DEF Ask, Leave, Again
<1>5. ASSUME NEW s \in {"idle", "pull_input"}, step' = [step EXCEPT ![w] = s]
      PROVE  /\ PipeStep' = [PipeStep EXCEPT ![w] = s]
             /\ PipeResult' = [PipeResult EXCEPT ![w] = "NotRunYet"]
  BY <1>0, <1>4, <1>5, MappedStep, MappedResult, ZenonT(30) DEF Late
<1>6. CASE assigned'[w] = None
  <2>1. step' = [step EXCEPT ![w] = "idle"]
    BY <1>0, <1>6 DEF Ask, Leave, Again, WorkerInv
  <2>2. Pipe!End(w)
    BY <1>2, <1>3, <1>5, <1>6, <2>1 DEF Pipe!End
  <2> QED
    BY <2>2 DEF Pipe!Next
<1>7. CASE assigned'[w] # None
  <2> DEFINE a == assigned'[w]
  <2>1. a \in Arrows
    BY <1>0, <1>7, ZenonT(30)
  <2>2. step' = [step EXCEPT ![w] = "pull_input"]
    BY <1>0, <1>3, <1>7 DEF Ask, Leave, S!LastAssignment, Again
  <2>3. a \in ParallelArrows \/ Holders(a) \subseteq {w}
    <3> SUFFICES ASSUME a \notin ParallelArrows, NEW v \in Holders(a), v # w
                 PROVE  FALSE
      OBVIOUS
    <3>1. v \in Workers /\ assigned'[v] = a
      BY <1>0, <1>3 DEF Holders
    <3>2. \A x, y \in {u \in Workers : assigned'[u] = a} : x = y
      BY <2>1 DEF Exclusive, Holders
    <3> QED
      BY <3>1, <3>2
  <2>4. Pipe!Holders(a) = Holders(a)
    BY Zenon DEF Pipe!Holders, Holders
  <2>5. Pipe!Begin(w, a)
    BY <1>2, <1>3, <1>5, <2>2, <2>3, <2>4 DEF Pipe!Begin
  <2>6. a \in Pipe!Arrows
    BY <2>1 DEF Pipe!Arrows, Arrows
  <2> QED
    BY <2>5, <2>6 DEF Pipe!Next
<1> QED
  BY <1>6, <1>7

\* The other steps do not show: a call that hangs is still in process(), one that
\* has been unwound has thrown, and the controller touches no arrow.
LEMMA OtherStepsHidden ==
    ASSUME AppInv, UNCHANGED <<mailbox, pool, in_data, out_data, result, emitted, number,
                               processed, assigned>>,
           \/ UNCHANGED step
           \/ \E w \in Workers : Hang(w) \/ ComeBack(w) \/ ExceptPauses(w)
    PROVE  UNCHANGED Pipe!vars
<1>0. step \in [Workers -> Steps]
  BY DEF AppInv
<1>1. CASE UNCHANGED step
  BY <1>1 DEF Pipe!vars, Pipe!pipeVars, PipeStep, PipeResult
<1>2. ASSUME NEW w \in Workers, Hang(w) \/ ComeBack(w) \/ ExceptPauses(w)
      PROVE  UNCHANGED Pipe!vars
  <2>1. PICK s \in {"hung", "process", "excepted"} :
           /\ step' = [step EXCEPT ![w] = s]
           /\ s \in {"hung", "process"} => step[w] \in {"hung", "process"}
           /\ s = "excepted" => step[w] = "threw"
    BY <1>2 DEF Hang, ComeBack, ExceptPauses
  <2>2. step'[w] = s /\ \A v \in Workers : v # w => step'[v] = step[v]
    BY <1>0, <2>1
  <2>3. PipeStep' = PipeStep
    BY <2>1, <2>2 DEF PipeStep
  <2>4. PipeResult' = PipeResult
    BY <2>1, <2>2 DEF PipeResult
  <2> QED
    BY <2>3, <2>4, ZenonT(30) DEF Pipe!vars, Pipe!pipeVars
<1> QED
  BY <1>1, <1>2

\* Every step of Topology is a step of Pipeline, or none.
LEMMA NextMaps ==
    ASSUME AppInv, AppInv', Exclusive', [Next]_vars
    PROVE  Pipe!Next \/ UNCHANGED Pipe!vars
<1>1. CASE UNCHANGED vars
  BY <1>1, OtherStepsHidden DEF vars, pipeVars
<1>2. CASE Supervise \/ Interfere
  <2>1. UNCHANGED pipeVars /\ UNCHANGED assigned
    BY <1>2, ZenonT(30) DEF Supervise, Interfere, Initialize, Run, Watch, TickTimesOut, TickThrows,
       TickInspects, TickOn, WaitUntilPaused, WaitUntilStopped, Destroy, Stop, HandleSigint,
       QuitGracefully, QuitAtOnce, S!InitializeTopology, S!RunTopology, S!DrainTopology,
       S!RequestTopologyPause, S!AchieveTopologyPause, S!FinishTopology
  <2> QED
    BY <2>1, OtherStepsHidden, ZenonT(30) DEF pipeVars
<1>3. ASSUME NEW w \in Workers, WorkerStep(w)
      PROVE  Pipe!Next \/ UNCHANGED Pipe!vars
  <2>1. CASE Ask(w) \/ Leave(w) \/ Again(w)
    BY <2>1, CallMaps
  <2>2. CASE Work(w) \/ Except(w)
    <3>1. Work(w) \/ (ProcessThrows(w) /\ UNCHANGED assigned)
      <4>1. Except(w) => ProcessThrows(w) /\ assigned' = assigned
        BY DEF Except, S!Throw
      <4> QED
        BY <2>2, <4>1
    <3> QED
      BY <3>1, WorkMaps DEF Pipe!Next
  <2>3. CASE Hang(w) \/ ComeBack(w) \/ ExceptPauses(w)
    <3>1. UNCHANGED <<mailbox, pool, in_data, out_data, result, emitted, number, processed,
                      assigned>>
      BY <2>3 DEF Hang, ComeBack, ExceptPauses, S!RequestTopologyPause
    <3> QED
      BY <2>3, <3>1, OtherStepsHidden, ZenonT(30)
  <2> QED
    BY <1>3, <2>1, <2>2, <2>3 DEF WorkerStep
<1> QED
  BY <1>1, <1>2, <1>3 DEF Next

\* Both start with empty mailboxes and a full pool.
LEMMA InitMaps == Init => Pipe!Init
<1> SUFFICES ASSUME Init PROVE Pipe!Init
  OBVIOUS
<1>1. PipeStep = [w \in Workers |-> "idle"] /\ PipeResult = [w \in Workers |-> "NotRunYet"]
  BY DEF Init, PipeInit, PipeStep, PipeResult
<1>2. Pipe!PipeInit
  BY <1>1, Zenon DEF Init, PipeInit, Pipe!PipeInit, Queues, Pipe!Queues, EmptyQueue, Pipe!EmptyQueue,
     InitialPool, Pipe!InitialPool, EmptyData, Pipe!EmptyData, Events, Pipe!Events,
     PoolEvents, Pipe!PoolEvents, ItemsAt, Pipe!ItemsAt, Numbers, Pipe!Numbers
<1> QED
  BY <1>2 DEF Init, Pipe!Init

-----------------------------------------------------------------------------
(* What is left behind a retired arrow.                                    *)

AtWork == {"Active", "Draining"}

Retired(a) == \A b \in 0 .. a : ts.status[b] = "Finalized"

\* A source retires when it has emitted everything.  Any other arrow retires when
\* nothing upstream is at work and its mailboxes are empty, and they stay so while
\* all upstream of it is retired.
RetireInv ==
    /\ emitted \in 0 .. NumEvents
    /\ DOMAIN mailbox = Queues \X Locations
    /\ \A w \in Workers : result[w] = "Finished" => emitted = NumEvents
    /\ ts.status[0] = "Finalized" => emitted = NumEvents
    /\ \A a \in Arrows : ts.status[a] = "Finalized" => Holders(a) = {}
    /\ \A a \in Arrows \ {0} : ts.status[a] = "Finalized" => ts.status[a - 1] \notin AtWork
    /\ \A a \in Arrows \ {0} :
          Retired(a) => \A l \in Locations : mailbox[<<a - 1, l>>].queue = <<>>

\* Worker w's checkin retires arrow a.
RetiredBy(w, a) ==
    /\ assigned[w] = a
    /\ Ask(w) \/ Leave(w)
    /\ a = 0 => LastResult(w) = "Finished"
    /\ a # 0 => HandedInPending(w) = 0

\* What a step may do to the arrows' statuses: a checkin retires one arrow that was
\* at work, with nobody on it and nothing at work upstream; only run() puts arrows
\* back to work, and then all of them; and nobody is given a retired arrow.
StatusStep ==
    /\ \A a \in Arrows : ts'.status[a] = "Finalized" /\ ts.status[a] # "Finalized" =>
          /\ ts.status[a] \in AtWork
          /\ Holders(a)' = {}
          /\ a # 0 => ts'.status[a - 1] \notin AtWork
          /\ \E w \in Workers : RetiredBy(w, a)
          /\ \A b \in Arrows : b # a => ts'.status[b] = ts.status[b]
    /\ \A a \in Arrows : ts'.status[a] \in AtWork /\ ts.status[a] \notin AtWork =>
          \A b \in Arrows : ts'.status[b] = "Active"
    /\ \A a \in Arrows : ts'.status[a] = "Finalized" => Holders(a)' \subseteq Holders(a)

\* Only a worker on an arrow at one of its ends touches a mailbox.
LEMMA MailboxTouched ==
    ASSUME AppInv, RetireInv, [Next]_vars, NEW a \in Arrows \ {0}, NEW l \in Locations,
           mailbox'[<<a - 1, l>>] # mailbox[<<a - 1, l>>]
    PROVE  Holders(a) # {} \/ Holders(a - 1) # {}
<1> DEFINE q == <<a - 1, l>>
<1>0. q \in DOMAIN mailbox
  BY TopologyAssumption, SMTT(30) DEF RetireInv, Queues, Arrows
<1>1. PICK w \in Workers : Work(w)
  BY ZenonT(30) DEF Next, vars, pipeVars, Supervise, Interfere, Initialize, Run, Watch, TickTimesOut,
     TickThrows, TickInspects, TickOn, WaitUntilPaused, WaitUntilStopped, Destroy, Stop,
     HandleSigint, QuitGracefully, QuitAtOnce, WorkerStep, Ask, Leave, Again, Hang, ComeBack,
     Except, ProcessThrows, ExceptPauses
<1>2. assigned[w] \in Arrows
  <2>1. step[w] # "idle"
    BY <1>1, ZenonT(30) DEF Work, PullInput, PullOutput, Revert, Emit, EmitFails, ProcessEvent, PushInput,
       PushOutput
  <2> QED
    BY <2>1, ZenonT(30) DEF AppInv, WorkerInv
<1>3. \/ \E m : mailbox' = [mailbox EXCEPT ![InputQueue(w)] = m]
      \/ \E m : mailbox' = [mailbox EXCEPT ![OutputQueue(w)] = m]
  BY <1>1, ZenonT(30) DEF Work, PullInput, PullOutput, Revert, Emit, EmitFails, ProcessEvent, PushInput,
     PushOutput, GiveBackInput
<1>4. q = InputQueue(w) \/ q = OutputQueue(w)
  BY <1>0, <1>3, ZenonT(30)
<1>5. a - 1 = assigned[w] - 1 \/ a - 1 = assigned[w]
  BY <1>4 DEF InputQueue, OutputQueue
<1>6. assigned[w] = a \/ assigned[w] = a - 1
  BY <1>2, <1>5, TopologyAssumption DEF Arrows
<1> QED
  BY <1>6 DEF Holders

\* The source's event count only grows to its limit, and Finished is final.
LEMMA EmittedStep ==
    ASSUME AppInv, RetireInv, [Next]_vars
    PROVE  /\ emitted' \in 0 .. NumEvents
           /\ emitted = NumEvents => emitted' = NumEvents
           /\ DOMAIN mailbox' = Queues \X Locations
           /\ \A w \in Workers : result'[w] = "Finished" => emitted' = NumEvents
<1>0. /\ emitted \in 0 .. NumEvents /\ NumEvents \in Nat
      /\ DOMAIN mailbox = Queues \X Locations
      /\ result \in [Workers -> Status]
      /\ \A w \in Workers : result[w] = "Finished" => emitted = NumEvents
  BY ChainAssumption DEF RetireInv, AppInv
<1>1. CASE ~\E w \in Workers : Work(w)
  <2>1. UNCHANGED <<emitted, mailbox>>
    BY <1>1, ZenonT(30) DEF Next, vars, pipeVars, Supervise, Interfere, Initialize, Run, Watch, TickTimesOut,
       TickThrows, TickInspects, TickOn, WaitUntilPaused, WaitUntilStopped, Destroy, Stop,
       HandleSigint, QuitGracefully, QuitAtOnce, WorkerStep, Ask, Leave, Again, Hang, ComeBack,
       Except, ProcessThrows, ExceptPauses
  <2>2. result' = result \/ \E w \in Workers : result' = [result EXCEPT ![w] = "NotRunYet"]
    BY <1>1, ZenonT(30) DEF Next, vars, pipeVars, Supervise, Interfere, Initialize, Run, Watch, TickTimesOut,
       TickThrows, TickInspects, TickOn, WaitUntilPaused, WaitUntilStopped, Destroy, Stop,
       HandleSigint, QuitGracefully, QuitAtOnce, WorkerStep, Ask, Leave, Again, Hang, ComeBack,
       Except, ProcessThrows, ExceptPauses
  <2> QED
    BY <1>0, <2>1, <2>2, ZenonT(30)
<1>2. ASSUME NEW w \in Workers, Work(w)
      PROVE  /\ emitted' \in 0 .. NumEvents
             /\ emitted = NumEvents => emitted' = NumEvents
             /\ DOMAIN mailbox' = Queues \X Locations
             /\ \A v \in Workers : result'[v] = "Finished" => emitted' = NumEvents
  <2>1. emitted' = emitted \/ (emitted < NumEvents /\ emitted' = emitted + 1)
    BY <1>2 DEF Work, PullInput, PullOutput, Revert, Emit, EmitFails, ProcessEvent, PushInput,
       PushOutput
  <2>2. emitted' \in 0 .. NumEvents /\ (emitted = NumEvents => emitted' = NumEvents)
    BY <1>0, <2>1
  <2>3. \E m, q : mailbox' = [mailbox EXCEPT ![q] = m] \/ mailbox' = mailbox
    BY <1>2, ZenonT(30) DEF Work, PullInput, PullOutput, Revert, Emit, EmitFails, ProcessEvent, PushInput,
       PushOutput, GiveBackInput
  <2>4. DOMAIN mailbox' = Queues \X Locations
    BY <1>0, <2>3
  <2>5. PICK s \in Reaching, r \in Status : WorkShape(w, s, r)
    BY <1>2, WorkHasShape
  <2>6. r = "Finished" => emitted = NumEvents
    BY <1>0, <2>5 DEF WorkShape
  <2>7. \A v \in Workers : result'[v] = IF v = w THEN r ELSE result[v]
    BY <1>0, <2>5 DEF WorkShape
  <2> QED
    BY <1>0, <2>2, <2>4, <2>6, <2>7, ZenonT(30)
<1> QED
  BY <1>1, <1>2, ZenonT(30)

\* A mailbox whose arrow and all upstream of it are retired stays empty, and an
\* arrow retires last of those upstream of it with its mailboxes empty.
LEMMA RetiredMailboxEmpty ==
    ASSUME AppInv, RetireInv, StatusStep, [Next]_vars,
           NEW a \in Arrows \ {0}, Retired(a)', NEW l \in Locations
    PROVE  mailbox'[<<a - 1, l>>].queue = <<>>
<1>0. a \in Nat /\ Arrows = 0 .. NArrows - 1 /\ NArrows \in Nat
      /\ \A b \in 0 .. a : b \in Arrows /\ ts'.status[b] = "Finalized"
  BY TopologyAssumption DEF Arrows, Retired
<1>1. CASE Retired(a)
  <2>1. mailbox[<<a - 1, l>>].queue = <<>>
    BY <1>1, ZenonT(30) DEF RetireInv
  <2>2. Holders(a) = {} /\ Holders(a - 1) = {}
    <3>1. a \in 0 .. a /\ a - 1 \in 0 .. a
      BY <1>0
    <3>2. ts.status[a] = "Finalized" /\ ts.status[a - 1] = "Finalized" /\ a - 1 \in Arrows
      BY <1>0, <1>1, <3>1 DEF Retired
    <3> QED
      BY <3>2 DEF RetireInv
  <2>3. mailbox'[<<a - 1, l>>] = mailbox[<<a - 1, l>>]
    BY <2>2, MailboxTouched
  <2> QED
    BY <2>1, <2>3, ZenonT(30)
<1>2. CASE ~Retired(a)
  <2>1. PICK b \in 0 .. a : ts.status[b] # "Finalized"
    BY <1>2 DEF Retired
  <2>2. b \in Arrows /\ ts'.status[b] = "Finalized"
    BY <1>0, <2>1, ZenonT(30)
  <2>3. /\ ts.status[b] \in AtWork
        /\ \E w \in Workers : RetiredBy(w, b)
        /\ \A c \in Arrows : c # b => ts'.status[c] = ts.status[c]
    BY <2>1, <2>2, ZenonT(30) DEF StatusStep
  <2>4. b = a
    <3> SUFFICES ASSUME b # a PROVE FALSE
      OBVIOUS
    <3>1. b + 1 \in 0 .. a /\ b + 1 # 0 /\ b + 1 # b /\ (b + 1) - 1 = b
      BY <1>0, <2>1
    <3>2. b + 1 \in Arrows \ {0} /\ ts.status[b + 1] = "Finalized"
      BY <1>0, <2>3, <3>1, ZenonT(30)
    <3>3. ts.status[(b + 1) - 1] \notin AtWork
      BY <3>2 DEF RetireInv
    <3> QED
      BY <2>3, <3>1, <3>3
  <2>5. PICK w \in Workers : RetiredBy(w, a)
    BY <2>3, <2>4, ZenonT(30)
  <2>6. Pending(a) = 0 /\ mailbox' = mailbox
    BY <2>5, WorkersAssumption, ZenonT(30) DEF RetiredBy, HandedInPending, Ask, Leave
  <2>7. a \notin SourceArrows
    BY ChainAssumption, ZenonT(30)
  <2> QED
    BY <2>6, <2>7 DEF Pending
<1> QED
  BY <1>1, <1>2

\* RetireInv is preserved by every step.
LEMMA NextRetireInv ==
    ASSUME AppInv, RetireInv, StatusStep, [Next]_vars
    PROVE  RetireInv'
<1>0. 0 \in Arrows /\ \A a \in Arrows \ {0} : a - 1 \in Arrows
  BY TopologyAssumption DEF Arrows
<1>1. ts'.status[0] = "Finalized" => emitted' = NumEvents
  <2> SUFFICES ASSUME ts'.status[0] = "Finalized"
               PROVE  emitted = NumEvents
    BY EmittedStep, ZenonT(30)
  <2>1. CASE ts.status[0] = "Finalized"
    BY <2>1, ZenonT(30) DEF RetireInv
  <2>2. CASE ts.status[0] # "Finalized"
    <3>1. PICK w \in Workers : RetiredBy(w, 0)
      BY <1>0, <2>2 DEF StatusStep
    <3>2. result[w] = "Finished"
      BY <3>1 DEF RetiredBy, LastResult
    <3> QED
      BY <3>2, ZenonT(30) DEF RetireInv
  <2> QED
    BY <2>1, <2>2
<1>2. ASSUME NEW a \in Arrows, ts'.status[a] = "Finalized"
      PROVE  Holders(a)' = {}
  <2>1. CASE ts.status[a] = "Finalized"
    <3>1. Holders(a) = {}
      BY <2>1, ZenonT(30) DEF RetireInv
    <3>2. Holders(a)' \subseteq Holders(a)
      BY <1>2, ZenonT(30) DEF StatusStep
    <3> QED
      BY <3>1, <3>2, ZenonT(30)
  <2>2. CASE ts.status[a] # "Finalized"
    BY <1>2, <2>2 DEF StatusStep
  <2> QED
    BY <2>1, <2>2
<1>3. ASSUME NEW a \in Arrows \ {0}, ts'.status[a] = "Finalized"
      PROVE  ts'.status[a - 1] \notin AtWork
  <2>1. CASE ts.status[a] # "Finalized"
    BY <1>3, <2>1, ZenonT(30) DEF StatusStep
  <2>2. CASE ts.status[a] = "Finalized"
    <3>1. ts.status[a - 1] \notin AtWork /\ a - 1 \in Arrows
      BY <1>0, <2>2 DEF RetireInv
    <3>2. "Finalized" # "Active"
      OBVIOUS
    <3> QED
      BY <1>3, <3>1, <3>2, ZenonT(30) DEF StatusStep
  <2> QED
    BY <2>1, <2>2, ZenonT(30)
<1>4. ASSUME NEW a \in Arrows \ {0}, Retired(a)', NEW l \in Locations
      PROVE  mailbox'[<<a - 1, l>>].queue = <<>>
  BY <1>4, RetiredMailboxEmpty, ZenonT(30)
<1>5. /\ \A a \in Arrows : ts'.status[a] = "Finalized" => Holders(a)' = {}
      /\ \A a \in Arrows \ {0} : ts'.status[a] = "Finalized" => ts'.status[a - 1] \notin AtWork
      /\ \A a \in Arrows \ {0} :
            Retired(a)' => \A l \in Locations : mailbox'[<<a - 1, l>>].queue = <<>>
  BY <1>2, <1>3, <1>4, ZenonT(30)
<1> QED
  BY <1>1, <1>5, EmittedStep, ZenonT(30) DEF RetireInv

\* And holds at the start, when no arrow has been retired.
LEMMA InitRetireInv == Init => RetireInv
<1> SUFFICES ASSUME Init PROVE RetireInv
  OBVIOUS
<1>1. emitted = 0 /\ result = [w \in Workers |-> "NotRunYet"]
      /\ DOMAIN mailbox = Queues \X Locations /\ NumEvents \in Nat
  BY ChainAssumption DEF Init, PipeInit
<1>2. \A a \in Arrows : ts.status[a] = "Uninitialized"
  BY DEF Init, S!InitialTopologyState, S!Arrows, Arrows
<1>3. 0 \in Arrows /\ \A a \in Arrows : a \in 0 .. a
  BY TopologyAssumption DEF Arrows
<1> QED
  BY <1>1, <1>2, <1>3, SMTT(30) DEF RetireInv, Retired

\* From t to u the status of no arrow but a has changed, and that one as a checkin of
\* a with result r and p items left in its queue may change it.
StatusChange(t, u, a, r, p) ==
    /\ "status" \in DOMAIN u
    /\ \A b \in Arrows : b # a => u.status[b] = t.status[b]
    /\ u.status[a] # t.status[a] =>
          /\ t.status[a] \in AtWork
          /\ u.status[a] = "Finalized" =>
                /\ a \in SourceArrows => r = "Finished"
                /\ a \notin SourceArrows => p = 0

\* checkin() takes at most its own arrow out of service, and only one at work: a
\* source when it is Finished, any other arrow when nothing is pending.
LEMMA CheckinStatus ==
    ASSUME NEW t \in S!TopologyState, NEW a \in Arrows, NEW r, NEW p
    PROVE  StatusChange(t, S!checkin(t, a, r, p), a, r, p)
<1> DEFINE ret == [t EXCEPT !.thread_count[a] = @ - 1]
           fin == [S!deactivate(ret, a, "Finalized") EXCEPT !.finalized = @ \cup {a}]
           dra == [ret EXCEPT !.status[a] = "Draining"]
           foundInactive == \/ S!FoundInactiveSource(ret, a, r)
                            \/ S!FoundInactiveStageOrSink(ret, a, p)
           nxt == IF foundInactive THEN fin
                  ELSE IF S!FoundDrainingStageOrSink(ret, a, p) THEN dra ELSE ret
           u == S!checkin(t, a, r, p)
<1>1. /\ DOMAIN t = {"status", "thread_count", "upstream_count", "topology", "active_count",
                     "next_arrow", "finalized"}
      /\ t.status \in [Arrows -> S!ArrowStatus]
  BY DEF S!TopologyState, S!Arrows, Arrows
<1>2. DOMAIN ret = DOMAIN t /\ ret.status = t.status
  BY <1>1
<1> HIDE DEF ret
<1>3. DOMAIN fin = DOMAIN t /\ fin.status = [t.status EXCEPT ![a] = "Finalized"]
  BY <1>1, <1>2 DEF S!deactivate
<1>4. DOMAIN dra = DOMAIN t /\ dra.status = [t.status EXCEPT ![a] = "Draining"]
  BY <1>1, <1>2
<1>5. foundInactive => /\ t.status[a] \in AtWork
                       /\ a \in SourceArrows => r = "Finished"
                       /\ a \notin SourceArrows => p = 0
  BY <1>2 DEF S!FoundInactiveSource, S!FoundInactiveStageOrSink, S!Dry, AtWork
<1>6. S!FoundDrainingStageOrSink(ret, a, p) => t.status[a] \in AtWork
  BY <1>2 DEF S!FoundDrainingStageOrSink, AtWork
<1> HIDE DEF fin, dra, foundInactive
<1>7. /\ DOMAIN nxt = DOMAIN t
      /\ \A b \in Arrows : b # a => nxt.status[b] = t.status[b]
      /\ nxt.status[a] # t.status[a] =>
            /\ t.status[a] \in AtWork
            /\ nxt.status[a] = "Finalized" =>
                  /\ a \in SourceArrows => r = "Finished"
                  /\ a \notin SourceArrows => p = 0
  <2>1. CASE nxt = fin /\ foundInactive
    BY <1>1, <1>3, <1>5, <2>1
  <2>2. CASE nxt = dra /\ S!FoundDrainingStageOrSink(ret, a, p)
    BY <1>1, <1>4, <1>6, <2>2
  <2>3. CASE nxt = ret
    BY <1>2, <2>3
  <2> QED
    BY <2>1, <2>2, <2>3
<1>8. u = IF S!NoneActive(nxt) THEN S!achieve_topology_pause(nxt) ELSE nxt
  BY DEF S!checkin, ret, fin, dra, foundInactive
<1> HIDE DEF nxt, u
<1>9. DOMAIN u = DOMAIN t /\ u.status = nxt.status
  BY <1>1, <1>7, <1>8 DEF S!achieve_topology_pause
<1>10. StatusChange(t, u, a, r, p)
  BY <1>1, <1>7, <1>9 DEF StatusChange
<1> QED
  BY <1>10 DEF u

\* What an assignment does to the statuses, and to whom it gives what.
LEMMA AssignmentStatus ==
    ASSUME ts \in S!TopologyState, assigned \in [Workers -> Arrows \cup {None}],
           NEW w \in Workers, NEW r, NEW p,
           S!NextAssignment(w, r, p) \/ S!LastAssignment(w, r, p)
    PROVE  /\ \A a \in Arrows : ts'.status[a] # ts.status[a] =>
                 /\ assigned[w] = a
                 /\ ts.status[a] \in AtWork
                 /\ ts'.status[a] = "Finalized" =>
                       /\ a \in SourceArrows => r = "Finished"
                       /\ a \notin SourceArrows => p = 0
           /\ \E b : /\ assigned' = [assigned EXCEPT ![w] = b]
                     /\ b # None => ts'.status[b] = "Active"
<1> DEFINE t == S!HandedIn(w, r, p)
<1>1. /\ "status" \in DOMAIN t
      /\ \A a \in Arrows : t.status[a] # ts.status[a] =>
            /\ assigned[w] = a
            /\ ts.status[a] \in AtWork
            /\ t.status[a] = "Finalized" =>
                  /\ a \in SourceArrows => r = "Finished"
                  /\ a \notin SourceArrows => p = 0
  <2>1. CASE assigned[w] = None
    BY <2>1 DEF S!HandedIn, S!TopologyState
  <2>2. CASE assigned[w] # None
    <3>1. assigned[w] \in Arrows /\ t = S!checkin(ts, assigned[w], r, p)
      BY <2>2 DEF S!HandedIn
    <3> DEFINE b == assigned[w]
               c == S!checkin(ts, b, r, p)
    <3>2. StatusChange(ts, c, b, r, p)
      BY <3>1, CheckinStatus, ZenonT(30)
    <3> HIDE DEF c
    <3>3. ASSUME NEW a \in Arrows, c.status[a] # ts.status[a]
          PROVE  /\ b = a
                 /\ ts.status[a] \in AtWork
                 /\ c.status[a] = "Finalized" =>
                       /\ a \in SourceArrows => r = "Finished"
                       /\ a \notin SourceArrows => p = 0
      <4>1. b = a
        BY <3>2, <3>3, ZenonT(30) DEF StatusChange
      <4> QED
        BY <3>2, <3>3, <4>1, ZenonT(30) DEF StatusChange
    <3>4. t = c
      BY <3>1 DEF c
    <3> HIDE DEF t
    <3> QED
      BY <3>2, <3>3, <3>4 DEF StatusChange
  <2> QED
    BY <2>1, <2>2
<1>2. ts'.status = t.status
      /\ \E b : /\ assigned' = [assigned EXCEPT ![w] = b]
                /\ b # None => t.status[b] = "Active"
  <2> HIDE DEF t
  <2>1. CASE S!NextAssignment(w, r, p)
    <3>1. PICK a : a = S!checkout_choice(t) /\ ts' = S!checkout_unprotected(t, a)
                   /\ assigned' = [assigned EXCEPT ![w] = a]
      BY <2>1 DEF S!NextAssignment, t
    <3>2. ts'.status = t.status
      BY <1>1, <3>1 DEF S!checkout_unprotected
    <3>3. a # None => t.status[a] = "Active"
      BY <3>1 DEF S!checkout_choice, S!FirstSchedulable, S!Schedulable
    <3> QED
      BY <3>1, <3>2, <3>3
  <2>2. CASE S!LastAssignment(w, r, p)
    BY <2>2 DEF S!LastAssignment, t
  <2> QED
    BY <2>1, <2>2
<1> QED
  BY <1>1, <1>2

\* What the controller's calls do: a pause or a drain takes arrows out of service
\* without retiring them, run() puts every arrow of a chain to work.
LEMMA OperationsStatus ==
    ASSUME ts \in S!TopologyState,
           \/ S!InitializeTopology \/ S!RunTopology \/ S!DrainTopology
           \/ S!RequestTopologyPause \/ S!AchieveTopologyPause \/ S!FinishTopology
    PROVE  /\ assigned' = assigned
           /\ \/ \A a \in Arrows : ts'.status[a] \in {ts.status[a], "Inactive"}
              \/ \A a \in Arrows : ts'.status[a] = "Active"
<1>1. /\ DOMAIN ts = {"status", "thread_count", "upstream_count", "topology", "active_count",
                      "next_arrow", "finalized"}
      /\ ts.status \in [Arrows -> S!ArrowStatus]
  BY DEF S!TopologyState, S!Arrows, Arrows
<1>2. CASE S!InitializeTopology
  BY <1>1, <1>2 DEF S!InitializeTopology, S!initialize_topology
<1>3. CASE S!AchieveTopologyPause
  BY <1>1, <1>3 DEF S!AchieveTopologyPause, S!achieve_topology_pause
<1>4. CASE S!FinishTopology
  BY <1>1, <1>4 DEF S!FinishTopology, S!finish_topology
<1>5. CASE S!RunTopology
  <2>1. S!Reached = Arrows /\ S!Arrows = Arrows
    BY WiringAssumption DEF S!Reached, S!Arrows, Arrows
  <2>2. assigned' = assigned /\ ts' = S!run_topology(ts)
    BY <1>5 DEF S!RunTopology
  <2>3. ts' = ts \/ ts'.status = [a \in Arrows |-> "Active"]
    BY <1>1, <2>1, <2>2 DEF S!run_topology
  <2> QED
    BY <2>2, <2>3
<1>6. \A X : /\ DOMAIN S!deactivate_all(ts, X) = DOMAIN ts
             /\ \A a \in Arrows : S!deactivate_all(ts, X).status[a] \in {ts.status[a], "Inactive"}
  BY <1>1 DEF S!deactivate_all, S!Arrows, Arrows
<1>7. CASE S!DrainTopology
  BY <1>1, <1>6, <1>7 DEF S!DrainTopology, S!drain_topology
<1>8. CASE S!RequestTopologyPause
  BY <1>1, <1>6, <1>8 DEF S!RequestTopologyPause, S!request_topology_pause
<1> QED
  BY <1>2, <1>3, <1>4, <1>5, <1>7, <1>8

=============================================================================

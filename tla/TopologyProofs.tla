--------------------------- MODULE TopologyProofs ---------------------------
(***************************************************************************)
(* Proofs about Topology for every chain of arrows, every set of workers   *)
(* and every amount of interference.                                       *)
(*                                                                         *)
(* The argument has three layers.  The workers and the controller drive    *)
(* the scheduler as module JScheduler allows, so what is proved there      *)
(* holds here.  With it, the workers execute arrows as module Pipeline     *)
(* allows, so what is proved there holds here too.  On top of both,        *)
(* AppInv relates a worker's RunState to what it holds and to the phase of *)
(* JApplication::Run(), and RetireInv says what a retired arrow leaves.    *)
(***************************************************************************)
EXTENDS TopologySteps, TLAPS

-----------------------------------------------------------------------------
(* What these invariants and the data path say together.                   *)

\* A worker that executes no arrow has no event in its hands.
EmptyHanded ==
    \A w \in Workers : assigned[w] = None =>
        in_data[w].items = <<>> /\ out_data[w].items = <<>>

\* The mailbox of each arrow was empty when the last arrow upstream of it had
\* retired, and stayed so: when every arrow has retired, nothing is on its way.
LEMMA NaturalEndFollows == AppInv /\ RetireInv /\ EmptyHanded => NaturalEndIsComplete
<1> SUFFICES ASSUME AppInv, RetireInv, EmptyHanded, \A a \in Arrows : ts.status[a] = "Finalized"
             PROVE  emitted = NumEvents /\ InFlight = {}
  BY DEF NaturalEndIsComplete
<1>1. emitted = NumEvents
  BY TopologyAssumption DEF RetireInv, Arrows
<1>2. \A w \in Workers : in_data[w].items = <<>> /\ out_data[w].items = <<>>
  BY DEF RetireInv, AppInv, Holders, EmptyHanded
<1>3. ASSUME NEW k \in Queues, NEW l \in Locations
      PROVE  mailbox[<<k, l>>].queue = <<>>
  <2>1. k + 1 \in Arrows \ {0} /\ (k + 1) - 1 = k
    BY TopologyAssumption DEF Queues, Arrows
  <2>2. Retired(k + 1)
    BY <2>1, TopologyAssumption DEF Retired, Arrows
  <2>3. mailbox[<<(k + 1) - 1, l>>].queue = <<>>
    BY <2>1, <2>2 DEF RetireInv
  <2> QED
    BY <2>1, <2>3
<1>4. \A q \in Queues \X Locations : DOMAIN mailbox[q].queue = {}
  BY <1>3
<1>5. ASSUME NEW e PROVE e \notin InFlight
  <2>1. <<>> # <<e>>
    OBVIOUS
  <2>2. /\ ~ \E q \in Queues \X Locations : \E i \in DOMAIN mailbox[q].queue : mailbox[q].queue[i] = e
        /\ ~ \E w \in Workers : in_data[w].items = <<e>> /\ ~IsSource(w)
        /\ ~ \E w \in Workers : out_data[w].items = <<e>> /\ ~IsLast(w)
    BY <1>2, <1>4, <2>1
  <2> QED
    BY <2>2, ZenonT(60) DEF InFlight
<1>6. InFlight = {}
  BY <1>5, Zenon
<1> QED
  BY <1>1, <1>6

-----------------------------------------------------------------------------
(* The scheduler's proofs apply to a chain.                                *)

SP == INSTANCE JSchedulerProofs

\* Sizes mean the same on both sides.
LEMMA SameSizes ==
    ASSUME NEW X
    PROVE  /\ SP!IsFiniteSet(X) <=> IsFiniteSet(X)
           /\ SP!Cardinality(X) = Cardinality(X)
<1>1. SP!IsFiniteSet(X) <=> IsFiniteSet(X)
  BY DEF SP!IsFiniteSet, IsFiniteSet
<1>2. SP!Cardinality(X) = Cardinality(X)
  BY ZenonT(60) DEF SP!Cardinality, Cardinality
<1> QED
  BY <1>1, <1>2

\* Sizes of the small sets below.
LEMMA SmallSizes ==
    /\ Cardinality({}) = 0
    /\ \A x : Cardinality({x}) = 1
    /\ \A n \in Nat : Cardinality(0 .. n - 1) = n
<1>1. SP!Cardinality({}) = 0 /\ \A x : SP!Cardinality({x}) = 1
  BY SP!FS_EmptySet, SP!FS_Singleton, ZenonT(30)
<1>2. ASSUME NEW n \in Nat
      PROVE  SP!Cardinality(0 .. n - 1) = n
  BY SP!FS_Interval
<1> QED
  BY <1>1, <1>2, SameSizes, ZenonT(30)

\* Joined has seen every thread end, a thread that ended holds no arrow, and every
\* reserved slot belongs to a worker with an arrow: the inspector is alone.
LEMMA InspectorFollows == AppInv /\ ReservationsExact => InspectorAlone
<1> SUFFICES ASSUME AppInv, ReservationsExact, phase = "inspector", lost = {}
             PROVE  /\ ts.topology = "Paused"
                    /\ \A w \in Workers : assigned[w] = None
                    /\ \A q \in Queues \X Locations : mailbox[q].reserved_count = 0
  BY DEF InspectorAlone
<1>1. ts.topology = "Paused" /\ \A w \in Workers : assigned[w] = None
  BY DEF AppInv, PhaseInv, WorkerInv
<1>2. \A q : SlotHolders(q) = {}
  BY <1>1 DEF SlotHolders
<1> QED
  BY <1>1, <1>2, SmallSizes, ZenonT(30) DEF ReservationsExact

\* Both instances of JScheduler count the paths of the wiring alike.
LEMMA SamePaths == SP!Paths = S!Paths
BY ZenonT(60) DEF S!Paths, SP!Paths, S!Arrows, SP!Arrows, S!Upstream, SP!Upstream,
   S!MapThenSumSet, SP!MapThenSumSet, S!MapThenFoldSet, SP!MapThenFoldSet

\* And the visits of run_arrow_unprotected().
LEMMA SameVisits ==
    /\ SP!Visits = S!Visits
    /\ SP!TotalVisits = S!TotalVisits
    /\ SP!UpstreamVisits = S!UpstreamVisits
    /\ SP!Reached = S!Reached
<1>1. SP!Visits = S!Visits
  BY ZenonT(60) DEF S!Visits, SP!Visits, S!Paths, SP!Paths, S!Arrows, SP!Arrows,
     S!Upstream, SP!Upstream,
     S!MapThenSumSet, SP!MapThenSumSet, S!MapThenFoldSet, SP!MapThenFoldSet
<1>2. SP!TotalVisits = S!TotalVisits
  BY Zenon, <1>1 DEF S!TotalVisits, SP!TotalVisits, S!Arrows, SP!Arrows,
     S!MapThenSumSet, SP!MapThenSumSet, S!MapThenFoldSet, SP!MapThenFoldSet
<1>3. SP!UpstreamVisits = S!UpstreamVisits
  BY ZenonT(60) DEF S!UpstreamVisits, SP!UpstreamVisits, S!Visits, SP!Visits,
     S!Paths, SP!Paths, S!Arrows, SP!Arrows, S!Upstream, SP!Upstream,
     S!MapThenSumSet, SP!MapThenSumSet, S!MapThenFoldSet, SP!MapThenFoldSet
<1>4. SP!Reached = S!Reached
  BY Zenon, <1>1 DEF S!Reached, SP!Reached, S!Arrows, SP!Arrows
<1> QED
  BY <1>1, <1>2, <1>3, <1>4

\* What JScheduler assumes of a topology holds of a chain.
LEMMA SchedulerAssumptions ==
    /\ SP!AcyclicAssumption
    /\ SP!VisitsAssumption
    /\ SP!BoundAssumption
    /\ SP!WorkersAssumption
    /\ SP!TopologyAssumption
<1>0. NArrows \in Nat \ {0} /\ SP!Arrows = Arrows /\ Arrows = 0 .. NArrows - 1
  BY TopologyAssumption DEF SP!Arrows, Arrows
<1>1. SP!AcyclicAssumption
  BY <1>0, SamePaths, WiringAssumption DEF SP!AcyclicAssumption
<1>2. SP!Reached = Arrows
  BY <1>0, SameVisits, WiringAssumption DEF SP!Reached
<1>3. Cardinality(Arrows) = NArrows
  BY <1>0, SmallSizes, ZenonT(30)
<1>4. ASSUME NEW d \in Arrows
      PROVE  Cardinality(SP!Upstream(d) \cap SP!Reached) <= SP!UpstreamVisits[d]
  <2>1. CASE d = 0
    <3>1. SP!Upstream(d) \cap SP!Reached = {}
      BY <1>0, <2>1, WiringAssumption DEF SP!Upstream
    <3>2. Cardinality({}) = 0
      BY SmallSizes
    <3>3. SP!UpstreamVisits[d] = 0
      BY <1>4, <2>1, SameVisits, WiringAssumption
    <3> QED
      BY <3>1, <3>2, <3>3
  <2>2. CASE d # 0
    <3>1. SP!Upstream(d) \cap SP!Reached = {d - 1}
      BY <1>0, <1>2, <1>4, <2>2, WiringAssumption DEF SP!Upstream
    <3>2. Cardinality({d - 1}) = 1
      BY SmallSizes, ZenonT(30)
    <3>3. SP!UpstreamVisits[d] = 1
      BY <1>4, <2>2, SameVisits, WiringAssumption
    <3> QED
      BY <3>1, <3>2, <3>3
  <2> QED
    BY <2>1, <2>2
<1>5. SP!VisitsAssumption
  <2>1. SP!Visits \in [Arrows -> Nat] /\ SP!TotalVisits = NArrows
        /\ SP!UpstreamVisits \in [Arrows -> Nat]
    BY <1>0, SameVisits, WiringAssumption
  <2>2. \A X : SP!Cardinality(X) = Cardinality(X)
    BY SameSizes
  <2> QED
    BY <1>0, <1>2, <1>3, <1>4, <2>1, <2>2 DEF SP!VisitsAssumption
<1>6. SP!BoundAssumption
  BY WiringAssumption DEF SP!BoundAssumption
<1>7. SP!WorkersAssumption /\ SP!TopologyAssumption
  BY <1>0, SameSizes, WorkersAssumption, TopologyAssumption, ZenonT(30)
     DEF SP!WorkersAssumption, SP!TopologyAssumption
<1> QED
  BY <1>1, <1>5, <1>6, <1>7

-----------------------------------------------------------------------------
(* Every step of Topology is a step of the scheduler, or none.             *)

\* next_assignment() and last_assignment() are those of the proofs.
LEMMA SameAssignments ==
    ASSUME NEW w, NEW r, NEW p
    PROVE  /\ S!HandedIn(w, r, p) = SP!HandedIn(w, r, p)
           /\ S!NextAssignment(w, r, p) => SP!NextAssignment(w, r, p)
           /\ S!LastAssignment(w, r, p) => SP!LastAssignment(w, r, p)
           /\ S!Throw(w) => SP!Throw(w)
<1>1. S!HandedIn(w, r, p) = SP!HandedIn(w, r, p)
  BY ZenonT(60) DEF S!HandedIn, SP!HandedIn, S!checkin, SP!checkin,
     S!NoneActive, SP!NoneActive, S!FoundInactiveSource, SP!FoundInactiveSource,
     S!FoundInactiveStageOrSink, SP!FoundInactiveStageOrSink,
     S!FoundDrainingStageOrSink, SP!FoundDrainingStageOrSink, S!Dry, SP!Dry,
     S!deactivate, SP!deactivate, S!achieve_topology_pause,
     SP!achieve_topology_pause, S!Arrows, SP!Arrows
<1>2. S!NextAssignment(w, r, p) => SP!NextAssignment(w, r, p)
  <2>1. \A t : S!checkout_choice(t) = SP!checkout_choice(t)
    BY ZenonT(60) DEF S!checkout_choice, SP!checkout_choice,
       S!FirstSchedulable, SP!FirstSchedulable, S!Schedulable, SP!Schedulable,
       S!ScanDistance, SP!ScanDistance, S!HasRoom, SP!HasRoom, S!Arrows, SP!Arrows
  <2>2. \A t, a : S!checkout_unprotected(t, a) = SP!checkout_unprotected(t, a)
    BY ZenonT(60) DEF S!checkout_unprotected, SP!checkout_unprotected, S!Successor, SP!Successor
  <2> QED
    BY <1>1, <2>1, <2>2, ZenonT(30) DEF S!NextAssignment, SP!NextAssignment
<1>3. S!LastAssignment(w, r, p) => SP!LastAssignment(w, r, p)
  BY <1>1 DEF S!LastAssignment, SP!LastAssignment
<1>4. S!Throw(w) => SP!Throw(w)
  BY ZenonT(60) DEF S!Throw, SP!Throw
<1> QED
  BY <1>1, <1>2, <1>3, <1>4, ZenonT(30)

\* So are the controller's operations.
LEMMA SameOperations ==
    /\ S!InitializeTopology => SP!InitializeTopology
    /\ S!RunTopology => SP!RunTopology
    /\ S!DrainTopology => SP!DrainTopology
    /\ S!RequestTopologyPause => SP!RequestTopologyPause
    /\ S!AchieveTopologyPause => SP!AchieveTopologyPause
    /\ S!FinishTopology => SP!FinishTopology
<1> USE DEF S!Initialized, SP!Initialized, S!Arrows, SP!Arrows, S!Pausable, SP!Pausable,
            S!Upstream, SP!Upstream
<1>1. S!InitializeTopology => SP!InitializeTopology
  BY ZenonT(60) DEF S!InitializeTopology, SP!InitializeTopology,
     S!initialize_topology, SP!initialize_topology
<1>2. S!RunTopology => SP!RunTopology
  BY SameVisits DEF S!RunTopology, SP!RunTopology, S!run_topology, SP!run_topology
<1>3. ASSUME NEW t, NEW X
      PROVE  S!deactivate_all(t, X) = SP!deactivate_all(t, X)
  BY ZenonT(60) DEF S!deactivate_all, SP!deactivate_all, S!Cardinality, SP!Cardinality
<1>4. S!DrainTopology => SP!DrainTopology
  BY <1>3, ZenonT(60) DEF S!DrainTopology, SP!DrainTopology, S!drain_topology, SP!drain_topology
<1>5. S!RequestTopologyPause => SP!RequestTopologyPause
  BY <1>3, ZenonT(60) DEF S!RequestTopologyPause, SP!RequestTopologyPause,
     S!request_topology_pause, SP!request_topology_pause
<1>6. S!AchieveTopologyPause => SP!AchieveTopologyPause
  BY ZenonT(60) DEF S!AchieveTopologyPause, SP!AchieveTopologyPause,
     S!achieve_topology_pause, SP!achieve_topology_pause
<1>7. S!FinishTopology => SP!FinishTopology
  BY ZenonT(60) DEF S!FinishTopology, SP!FinishTopology, S!finish_topology, SP!finish_topology
<1> QED
  BY <1>1, <1>2, <1>4, <1>5, <1>6, <1>7

\* The controller's steps call the scheduler at most once.
LEMMA ControllerSchedules ==
    ASSUME Supervise \/ Interfere
    PROVE  SP!Next \/ UNCHANGED SP!vars
<1> USE SameOperations DEF SP!Next, SP!ControllerStep
<1>1. ASSUME Initialize \/ Run \/ TickTimesOut \/ TickThrows \/ TickInspects
             \/ WaitUntilPaused \/ WaitUntilStopped
      PROVE  SP!Next
  BY <1>1 DEF Initialize, Run, TickTimesOut, TickThrows, TickInspects, WaitUntilPaused,
     WaitUntilStopped
<1>2. ASSUME Watch \/ TickOn \/ Destroy \/ QuitAtOnce
      PROVE  UNCHANGED SP!vars
  BY <1>2 DEF Watch, TickOn, Destroy, QuitAtOnce, SP!vars
<1>3. ASSUME Stop \/ HandleSigint \/ QuitGracefully
      PROVE  SP!Next
  BY <1>3 DEF Stop, HandleSigint, QuitGracefully
<1> QED
  BY <1>1, <1>2, <1>3, ZenonT(30) DEF Supervise, Interfere

\* So do the workers'.
LEMMA WorkerSchedules ==
    ASSUME NEW w \in Workers, WorkerStep(w)
    PROVE  SP!Next \/ UNCHANGED SP!vars
<1>1. LastResult(w) \in SP!Result /\ HandedInPending(w) \in {0, 1}
  BY DEF LastResult, HandedInPending, Pending, SP!Result
<1>2. ASSUME Ask(w) \/ Leave(w)
      PROVE  SP!Next
  <2>1. \/ SP!NextAssignment(w, LastResult(w), HandedInPending(w))
        \/ SP!LastAssignment(w, LastResult(w), HandedInPending(w))
    BY <1>2, SameAssignments DEF Ask, Leave
  <2>2. SP!WorkerStep(w)
    BY <1>1, <2>1, ZenonT(30) DEF SP!WorkerStep
  <2> QED
    BY <2>2, ZenonT(30) DEF SP!Next
<1>3. ASSUME Except(w)
      PROVE  SP!Next
  BY <1>3, SameAssignments DEF Except, SP!Next, SP!WorkerStep
<1>4. ASSUME ExceptPauses(w)
      PROVE  SP!Next
  BY <1>4, SameOperations, ZenonT(30) DEF ExceptPauses, SP!Next, SP!ControllerStep
<1>5. ASSUME Again(w) \/ Work(w) \/ Hang(w) \/ ComeBack(w)
      PROVE  UNCHANGED SP!vars
  BY <1>5 DEF Again, Work, Hang, ComeBack, SP!vars
<1> QED
  BY <1>2, <1>3, <1>4, <1>5 DEF WorkerStep

\* The engine drives the scheduler only as JScheduler allows: its initial state is
\* the scheduler's, and each of its steps calls the scheduler once or not at all.
THEOREM SchedulerImplemented == Spec => SP!Spec
<1>1. Init => SP!Init
  BY ZenonT(60) DEF Init, SP!Init, S!InitialTopologyState, SP!InitialTopologyState, S!Arrows, SP!Arrows
<1>2. [Next]_vars => [SP!Next]_SP!vars
  <2> SUFFICES ASSUME [Next]_vars
               PROVE  SP!Next \/ UNCHANGED SP!vars
    OBVIOUS
  <2>1. CASE Next
    BY <2>1, ControllerSchedules, WorkerSchedules, ZenonT(30) DEF Next
  <2>2. CASE UNCHANGED vars
    BY <2>2 DEF vars, SP!vars
  <2> QED
    BY <2>1, <2>2, ZenonT(30)
<1> QED
  BY <1>1, <1>2, PTL DEF Spec, SP!Spec

\* So the scheduler's inductive invariant holds of the engine.
LEMMA SchedulerInv == Spec => []SP!IInv
<1>1. SP!AcyclicAssumption /\ SP!VisitsAssumption /\ SP!BoundAssumption
      /\ SP!WorkersAssumption /\ SP!TopologyAssumption
  BY SchedulerAssumptions
<1>2. SP!Init => SP!IInv
  BY <1>1, SP!InitIInv, ZenonT(30)
<1>3. SP!IInv /\ [SP!Next]_SP!vars => SP!IInv'
  BY <1>1, SP!NextIInv
<1> QED
  BY <1>2, <1>3, SchedulerImplemented, PTL DEF SP!Spec

\* The scheduler provides it.
LEMMA ExclusiveHolds == Spec => []Exclusive
<1>1. SP!AcyclicAssumption /\ SP!VisitsAssumption /\ SP!BoundAssumption
      /\ SP!WorkersAssumption /\ SP!TopologyAssumption
  BY SchedulerAssumptions
<1>2. SP!Spec => []SP!SequentialExclusive
  BY <1>1, SP!MutualExclusion, ZenonT(30)
<1>3. SP!SequentialExclusive => Exclusive
  BY ZenonT(30) DEF SP!SequentialExclusive, SP!Holders, SP!Arrows, Exclusive, Holders, Arrows
<1> QED
  BY <1>2, <1>3, SchedulerImplemented, PTL

\* Every step changes the arrows' statuses as RetireInv needs.
LEMMA NextStatusStep ==
    ASSUME SP!IInv, AppInv, [Next]_vars
    PROVE  StatusStep
<1>0. /\ ts \in S!TopologyState /\ assigned \in [Workers -> Arrows \cup {None}]
      /\ 0 \in Arrows /\ None \notin Arrows
  <2>1. ts \in SP!TopologyState
    BY DEF SP!IInv, SP!TypeOK
  <2> QED
    BY <2>1, TopologyAssumption, WorkersAssumption
       DEF AppInv, Arrows, SP!TopologyState, S!TopologyState, SP!Arrows, S!Arrows,
           SP!ArrowStatus, S!ArrowStatus, SP!TopologyStatus, S!TopologyStatus
<1>1. CASE UNCHANGED <<ts, assigned>>
  BY <1>1, ZenonT(30) DEF StatusStep, Holders
<1>2. CASE \/ S!InitializeTopology \/ S!RunTopology \/ S!DrainTopology
           \/ S!RequestTopologyPause \/ S!AchieveTopologyPause \/ S!FinishTopology
  <2>1. /\ assigned' = assigned
        /\ \/ \A a \in Arrows : ts'.status[a] \in {ts.status[a], "Inactive"}
           \/ \A a \in Arrows : ts'.status[a] = "Active"
    BY <1>0, <1>2, OperationsStatus, ZenonT(30)
  <2>2. \A a : Holders(a)' = Holders(a)
    BY <2>1, ZenonT(30) DEF Holders
  <2> QED
    BY <2>1, <2>2 DEF StatusStep, AtWork
<1>3. ASSUME NEW w \in Workers, Ask(w) \/ Leave(w)
      PROVE  StatusStep
  <2> DEFINE r == LastResult(w)
             p == HandedInPending(w)
  <2>1. S!NextAssignment(w, r, p) \/ S!LastAssignment(w, r, p)
    BY <1>3, ZenonT(30) DEF Ask, Leave
  <2>2. /\ \A a \in Arrows : ts'.status[a] # ts.status[a] =>
              /\ assigned[w] = a
              /\ ts.status[a] \in AtWork
              /\ ts'.status[a] = "Finalized" =>
                    /\ a \in SourceArrows => r = "Finished"
                    /\ a \notin SourceArrows => p = 0
        /\ \E b : /\ assigned' = [assigned EXCEPT ![w] = b]
                  /\ b # None => ts'.status[b] = "Active"
    BY <1>0, <2>1, AssignmentStatus
  <2>3. \A a \in SP!Arrows :
           ts'.status[a] # ts.status[a] =>
              /\ a \notin SourceArrows => SP!Upstream(a) \cap SP!ActiveOrDraining(ts') = {}
              /\ ts'.status[a] = "Finalized" => SP!Holders(a)' = {}
    <3>1. SP!NextAssignment(w, r, p) \/ SP!LastAssignment(w, r, p)
      BY <2>1, SameAssignments
    <3>2. \E b : SP!WorkerCall(w, SP!HandedIn(w, r, p), b)
      BY <3>1, SchedulerAssumptions, SP!NextAssignmentIsCall, SP!LastAssignmentIsCall
    <3> QED
      BY <3>2, SchedulerAssumptions, SP!CallEffect
  <2> HIDE DEF r, p
  <2>4. ASSUME NEW a \in Arrows, ts'.status[a] = "Finalized", ts.status[a] # "Finalized"
        PROVE  /\ ts.status[a] \in AtWork
               /\ Holders(a)' = {}
               /\ a # 0 => ts'.status[a - 1] \notin AtWork
               /\ \E v \in Workers : RetiredBy(v, a)
               /\ \A b \in Arrows : b # a => ts'.status[b] = ts.status[b]
    <3>1. /\ assigned[w] = a
          /\ ts.status[a] \in AtWork
          /\ a \in SourceArrows => r = "Finished"
          /\ a \notin SourceArrows => p = 0
      BY <2>2, <2>4, ZenonT(30)
    <3>2. RetiredBy(w, a)
      BY <1>3, <3>1, ChainAssumption, ZenonT(30) DEF RetiredBy, r, p
    <3>3. \A b \in Arrows : b # a => ts'.status[b] = ts.status[b]
      BY <2>2, <3>1, ZenonT(30)
    <3>4. /\ a \notin SourceArrows => SP!Upstream(a) \cap SP!ActiveOrDraining(ts') = {}
          /\ SP!Holders(a)' = {}
      BY <2>3, <2>4 DEF SP!Arrows, Arrows
    <3>5. Holders(a)' = {}
      BY <3>4 DEF SP!Holders, Holders
    <3>6. a # 0 => ts'.status[a - 1] \notin AtWork
      <4> SUFFICES ASSUME a # 0, ts'.status[a - 1] \in AtWork PROVE FALSE
        OBVIOUS
      <4>1. a - 1 \in Arrows /\ a = (a - 1) + 1
        BY TopologyAssumption DEF Arrows
      <4>2. a - 1 \in SP!Upstream(a)
        BY <4>1, WiringAssumption DEF SP!Upstream, SP!Arrows, Arrows
      <4>3. a - 1 \in SP!ActiveOrDraining(ts')
        BY <4>1, ZenonT(30) DEF SP!ActiveOrDraining, SP!Arrows, Arrows, AtWork
      <4> QED
        BY <3>4, <4>2, <4>3, ChainAssumption
    <3> QED
      BY <3>1, <3>2, <3>3, <3>5, <3>6
  <2>5. ASSUME NEW a \in Arrows, ts'.status[a] \in AtWork
        PROVE  ts.status[a] \in AtWork
    BY <2>2, <2>5, ZenonT(30)
  <2>6. ASSUME NEW a \in Arrows, ts'.status[a] = "Finalized"
        PROVE  Holders(a)' \subseteq Holders(a)
    BY <1>0, <2>2, <2>6 DEF Holders
  <2> QED
    BY <2>4, <2>5, <2>6, ZenonT(30) DEF StatusStep
<1> QED
  BY <1>1, <1>2, <1>3, ZenonT(30) DEF Next, vars, Supervise, Interfere, Initialize, Run, Watch, TickTimesOut,
     TickThrows, TickInspects, TickOn, WaitUntilPaused, WaitUntilStopped, Destroy, Stop,
     HandleSigint, QuitGracefully, QuitAtOnce, WorkerStep, Again, Work, Hang, ComeBack, Except,
     S!Throw, ExceptPauses

\* The invariants of the engine's own state hold together.
LEMMA EngineInv == Spec => [](AppInv /\ RetireInv)
<1>1. SP!IInv => ts \in S!TopologyState
  BY DEF SP!IInv, SP!TypeOK, SP!TopologyState, S!TopologyState, SP!Arrows, S!Arrows,
     SP!ArrowStatus, S!ArrowStatus, SP!TopologyStatus, S!TopologyStatus
<1>2. SP!IInv /\ AppInv /\ RetireInv /\ [Next]_vars => (AppInv /\ RetireInv)'
  BY <1>1, NextAppInv, NextStatusStep, NextRetireInv, ZenonT(30)
<1> QED
  BY <1>2, InitAppInv, InitRetireInv, SchedulerInv, PTL DEF Spec

\* The workers and the scheduler together execute the chain only as module Pipeline
\* allows, through exceptions, timeouts, pauses and restarts.
THEOREM PipelineImplemented == Spec => PipelineSpec
<1>1. AppInv /\ AppInv' /\ Exclusive' /\ [Next]_vars => [Pipe!Next]_Pipe!vars
  BY NextMaps, ZenonT(30)
<1> QED
  BY <1>1, InitMaps, EngineInv, ExclusiveHolds, PTL DEF Spec, PipelineSpec, Pipe!Spec

-----------------------------------------------------------------------------
(* The proofs about Pipeline apply to the engine.                          *)

PR == INSTANCE PipelineProofs WITH step <- PipeStep, result <- PipeResult

\* What Pipeline assumes is what Topology assumes.
LEMMA PipelineAssumptions ==
    /\ PR!TopologyAssumption
    /\ PR!WorkersAssumption
    /\ PR!CapacityAssumption
    /\ PR!PoolAssumption
    /\ PR!ChainAssumption
<1>1. PR!TopologyAssumption /\ PR!CapacityAssumption /\ PR!ChainAssumption
  BY TopologyAssumption, CapacityAssumption, ChainAssumption, ZenonT(30)
     DEF PR!TopologyAssumption, PR!CapacityAssumption, PR!ChainAssumption, PR!Arrows, Arrows
<1>2. PR!WorkersAssumption
  BY WorkersAssumption, ZenonT(60) DEF WorkersAssumption, PR!WorkersAssumption, PR!Arrows, Arrows,
     PR!IsFiniteSet, IsFiniteSet
<1>3. PR!PoolAssumption
  BY PoolAssumption, ZenonT(60) DEF PoolAssumption, PR!PoolAssumption, PR!PoolEvents, PoolEvents,
     PR!ItemsAt, ItemsAt
<1> QED
  BY <1>1, <1>2, <1>3, ZenonT(30)

\* The steps of Pipeline are those of the proofs.
LEMMA SamePipeline ==
    /\ Pipe!Init => PR!Init
    /\ [Pipe!Next]_Pipe!vars => [PR!Next]_PR!vars
<1>1. Pipe!Init => PR!Init
  BY ZenonT(60) DEF Pipe!Init, PR!Init, Pipe!PipeInit, PR!PipeInit, Pipe!Queues, PR!Queues,
     Pipe!EmptyQueue, PR!EmptyQueue, Pipe!InitialPool, PR!InitialPool, Pipe!EmptyData,
     PR!EmptyData, Pipe!Events, PR!Events, Pipe!PoolEvents, PR!PoolEvents, Pipe!ItemsAt,
     PR!ItemsAt, Pipe!Numbers, PR!Numbers
<1>2. Pipe!Next => PR!Next
  BY ZenonT(60) DEF Pipe!Execute, PR!Execute, Pipe!PullInput, PR!PullInput, Pipe!PullOutput,
     PR!PullOutput, Pipe!Revert, PR!Revert, Pipe!Emit, PR!Emit, Pipe!EmitFails,
     PR!EmitFails, Pipe!ProcessEvent, PR!ProcessEvent, Pipe!ProcessThrows,
     PR!ProcessThrows, Pipe!PushInput, PR!PushInput, Pipe!PushOutput, PR!PushOutput,
     Pipe!Goto, PR!Goto, Pipe!Return, PR!Return, Pipe!GiveBackInput, PR!GiveBackInput,
     Pipe!Succeed, PR!Succeed, Pipe!poppable, PR!poppable, Pipe!pool_pop, PR!pool_pop,
     Pipe!pop_fails, PR!pop_fails, Pipe!put, PR!put, Pipe!pop_count, PR!pop_count,
     Pipe!pop_and_reserve, PR!pop_and_reserve, Pipe!popped, PR!popped, Pipe!reserve_count,
     PR!reserve_count, Pipe!reserve, PR!reserve, Pipe!available_count, PR!available_count,
     Pipe!push_and_unreserve, PR!push_and_unreserve, Pipe!SizeSub, PR!SizeSub,
     Pipe!EmptyData, PR!EmptyData, Pipe!PoolEvents, PR!PoolEvents, Pipe!ItemsAt,
     PR!ItemsAt, Pipe!IsSource, PR!IsSource, Pipe!IsLast, PR!IsLast, Pipe!InputQueue,
     PR!InputQueue, Pipe!OutputQueue, PR!OutputQueue, Pipe!Begin, PR!Begin, Pipe!End,
     PR!End, Pipe!BetweenCalls, PR!BetweenCalls, Pipe!Holders, PR!Holders, Pipe!Arrows,
     PR!Arrows, Pipe!Next, PR!Next
<1> QED
  BY <1>1, <1>2, ZenonT(30) DEF Pipe!vars, PR!vars, Pipe!pipeVars, PR!pipeVars

\* So the engine is a pipeline as the proofs about Pipeline mean it.
LEMMA PipelineProved == Spec => PR!Spec
BY SamePipeline, PipelineImplemented, PTL DEF PipelineSpec, Pipe!Spec, PR!Spec

\* What Pipeline's inductive invariant says of the engine: the reserved slots of a
\* mailbox are the ones its users hold, and a worker without an arrow has no event.
LEMMA EngineHolds == Spec => [](ReservationsExact /\ EmptyHanded)
<1>1. PR!Spec => []PR!IInv
  BY PipelineAssumptions, PR!IInvCorrect, ZenonT(30)
<1>2. PR!IInv => ReservationsExact
  BY ZenonT(60) DEF PR!IInv, PR!ReservationsExact, ReservationsExact, PR!SlotHolders, SlotHolders,
     PR!InputQueue, InputQueue, PR!OutputQueue, OutputQueue, PR!Queues, Queues,
     PR!Cardinality, Cardinality
<1>3. PR!IInv => EmptyHanded
  BY PipelineAssumptions, PR!IdleEmptyHanded, ZenonT(60) DEF EmptyHanded
<1> QED
  BY <1>1, <1>2, <1>3, PipelineProved, PTL

\* While the inspector is open nobody executes an arrow and no slot of a mailbox is
\* taken.
THEOREM InspectorCorrect == Spec => []InspectorAlone
BY InspectorFollows, EngineInv, EngineHolds, PTL

\* When the scheduler has retired every arrow, every event has been emitted and none
\* is on its way, also after exceptions and timeouts that the run survived.
THEOREM NaturalEndCorrect == Spec => []NaturalEndIsComplete
BY NaturalEndFollows, EngineInv, EngineHolds, PTL

\* Through exceptions, timeouts and late returns, pauses and restarts, every event
\* is in one place.
THEOREM EngineConserves == Spec => []EventsConserved
<1>1. PR!Spec => []PR!EventsConserved
  BY PipelineAssumptions, PR!ConservationCorrect, ZenonT(30)
<1>2. PR!EventsConserved => EventsConserved
  BY ZenonT(60) DEF PR!EventsConserved, EventsConserved, PR!Occurrences, Occurrences, PR!PoolEvents,
     PoolEvents, PR!ItemsAt, ItemsAt, PR!Queues, Queues, PR!Cardinality, Cardinality
<1> QED
  BY <1>1, <1>2, PipelineProved, PTL

\* And every event number is processed once.
THEOREM EngineExactlyOnce == Spec => []ExactlyOnce
<1>1. PR!Spec => []PR!ExactlyOnce
  BY PipelineAssumptions, PR!ExactlyOnceCorrect
<1>2. PR!ExactlyOnce => ExactlyOnce
  BY ZenonT(60) DEF PR!ExactlyOnce, ExactlyOnce, PR!InFlight, InFlight, PR!Events, Events, PR!PoolEvents,
     PoolEvents, PR!ItemsAt, ItemsAt, PR!Queues, Queues, PR!IsSource, IsSource, PR!IsLast, IsLast,
     PR!Cardinality, Cardinality
<1> QED
  BY <1>1, <1>2, PipelineProved, PTL

=============================================================================

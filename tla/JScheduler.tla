----------------------------- MODULE JScheduler -----------------------------
(***************************************************************************)
(* JScheduler hands the arrows of a topology out to workers.  Its whole    *)
(* state is one TopologyState struct under one mutex, so every public      *)
(* method is one atomic step.  The methods are written as operators on     *)
(* that struct because next_assignment() composes two of them under a      *)
(* single lock; the specification below applies them to the variable ts.   *)
(*                                                                         *)
(* Here the scheduler is driven by the most general client: any number of  *)
(* workers checking arrows in with any result and any pending count, and a *)
(* controller calling the topology operations in any order.  The module    *)
(* Topology composes the same operators with the queues and the arrows.    *)
(*                                                                         *)
(* A definition that directly precedes another and differs from it by one  *)
(* condition or one update (DryIgnoringUpstream before Dry) is a faulty    *)
(* variant: no specification uses it, and with it in place of the original *)
(* a property below fails.                                                 *)
(***************************************************************************)
EXTENDS JArrow, FiniteSetsExt

CONSTANT MaxActiveCount   \* bound on the active arrow counter

ArrowStatus == {"Uninitialized", "Active", "Draining", "Inactive", "Finalized"}

TopologyStatus ==
    {"Uninitialized", "Running", "Pausing", "Draining", "Paused", "Finalized"}

\* JArrowMetrics::Status, as it reaches checkin(): only Finished is told apart,
\* ComeBackLater stands for every other value.
Result == {"ComeBackLater", "Finished"}

\* Paths[n][a] counts the downstream paths of n edges from a source to a.
Paths[n \in 0 .. NArrows] ==
    IF n = 0
    THEN [a \in Arrows |-> IF a \in SourceArrows THEN 1 ELSE 0]
    ELSE [a \in Arrows |-> MapThenSumSet(LAMBDA u : Paths[n - 1][u], Upstream(a))]

\* How often run_arrow_unprotected() visits a when run_topology() starts it on
\* every source: it recurses into each listener and does not remember where it
\* has been, so it enters an arrow once per path.
Visits == [a \in Arrows |-> MapThenSumSet(LAMBDA n : Paths[n][a], 0 .. NArrows)]

TotalVisits == MapThenSumSet(LAMBDA a : Visits[a], Arrows)

\* What that adds to the upstream counter of each arrow.
UpstreamVisits ==
    [d \in Arrows |-> MapThenSumSet(LAMBDA u : Visits[u], Upstream(d))]

\* The arrows run_topology() activates.
Reached == {a \in Arrows : Visits[a] > 0}

\* Listeners form no cycle (run_arrow_unprotected() would not return).
ASSUME AcyclicAssumption == \A a \in Arrows : Paths[NArrows][a] = 0

ASSUME BoundAssumption == MaxActiveCount \in Nat

\* What the recursion of run_arrow_unprotected() adds up to.
ASSUME VisitsAssumption ==
    /\ Visits \in [Arrows -> Nat]
    /\ TotalVisits \in Nat
    /\ Cardinality(Reached) <= TotalVisits
    /\ UpstreamVisits \in [Arrows -> Nat]
    /\ \A d \in Arrows : Cardinality(Upstream(d) \cap Reached) <= UpstreamVisits[d]

-----------------------------------------------------------------------------
(* The scheduler's operations on a TopologyState.                          *)

TopologyState ==
    [status         : [Arrows -> ArrowStatus],
     thread_count   : [Arrows -> Int],
     upstream_count : [Arrows -> Int],   \* active_or_draining_upstream_arrow_count
     topology       : TopologyStatus,    \* current_topology_status
     active_count   : Int,               \* active_or_draining_arrow_count
     next_arrow     : Arrows,            \* next_arrow_index
     finalized      : SUBSET Arrows]     \* the arrows whose finalize() has been called

InitialTopologyState ==
    [status         |-> [a \in Arrows |-> "Uninitialized"],
     thread_count   |-> [a \in Arrows |-> 0],
     upstream_count |-> [a \in Arrows |-> 0],
     topology       |-> "Uninitialized",
     active_count   |-> 0,
     next_arrow     |-> 0,
     finalized      |-> {}]

\* An Active arrow stops being counted, as Inactive or as Finalized.
deactivate(t, a, status) ==
    [t EXCEPT !.status[a] = status,
              !.active_count = @ - 1,
              !.upstream_count =
                  [d \in Arrows |-> IF d \in Listeners[a] THEN @[d] - 1 ELSE @[d]]]

\* The same for a set of arrows, in whatever order the loop takes them.
deactivate_all(t, S) ==
    [t EXCEPT !.status = [a \in Arrows |-> IF a \in S THEN "Inactive" ELSE @[a]],
              !.active_count = @ - Cardinality(S),
              !.upstream_count =
                  [d \in Arrows |-> @[d] - Cardinality(Upstream(d) \cap S)]]

AchieveUnlessRunning(t) ==
    IF t.topology \in {"Pausing", "Draining"} THEN [t EXCEPT !.topology = "Paused"] ELSE t

achieve_topology_pause(t) ==
    IF t.topology \in {"Running", "Pausing", "Draining"}
    THEN [t EXCEPT !.topology = "Paused"]
    ELSE t

DryIgnoringUpstream(t, a, pending) == a \notin SourceArrows /\ pending = 0

\* A stage or sink with no active upstream and, by its get_pending(), no input.
Dry(t, a, pending) ==
    /\ a \notin SourceArrows
    /\ t.upstream_count[a] = 0
    /\ pending = 0

FoundInactiveSource(t, a, last_result) ==
    /\ a \in SourceArrows
    /\ last_result = "Finished"
    /\ t.status[a] = "Active"

FoundInactiveWithThreads(t, a, pending) ==
    Dry(t, a, pending) /\ t.status[a] \in {"Draining", "Active"}

FoundInactiveStageOrSink(t, a, pending) ==
    /\ Dry(t, a, pending)
    /\ t.thread_count[a] = 0
    /\ t.status[a] \in {"Draining", "Active"}

FoundDrainingStageOrSink(t, a, pending) ==
    /\ Dry(t, a, pending)
    /\ t.thread_count[a] > 0
    /\ t.status[a] = "Active"

NoneActiveOffByOne(t) == t.active_count <= 1

NoneActive(t) == t.active_count = 0

checkin(t, a, last_result, pending) ==
    LET returned == [t EXCEPT !.thread_count[a] = @ - 1]
        next ==
            IF \/ FoundInactiveSource(returned, a, last_result)
               \/ FoundInactiveStageOrSink(returned, a, pending)
            THEN [deactivate(returned, a, "Finalized") EXCEPT !.finalized = @ \cup {a}]
            ELSE IF FoundDrainingStageOrSink(returned, a, pending)
            THEN [returned EXCEPT !.status[a] = "Draining"]
            ELSE returned
    IN  IF NoneActive(next) THEN achieve_topology_pause(next) ELSE next

HasRoomOffByOne(t, a) == a \in ParallelArrows \/ t.thread_count[a] <= 1

\* A sequential arrow that already has a worker is skipped.
HasRoom(t, a) == a \in ParallelArrows \/ t.thread_count[a] = 0

Schedulable(t, a) == t.status[a] = "Active" /\ HasRoom(t, a)

SuccessorUnwrapped(a) == a + 1

SuccessorReset(a) == 0

Successor(a) == (a + 1) % NArrows

\* Position of a in the scan that starts at t.next_arrow.
ScanDistance(t, a) ==
    IF a >= t.next_arrow THEN a - t.next_arrow ELSE a + NArrows - t.next_arrow

\* a is the first schedulable arrow of the scan.
FirstSchedulable(t, a) ==
    /\ Schedulable(t, a)
    /\ \A b \in Arrows : Schedulable(t, b) => ScanDistance(t, a) <= ScanDistance(t, b)

\* The arrow checkout_unprotected() returns, None when it loops through
\* everything with no luck.
checkout_choice(t) ==
    IF \E a \in Arrows : FirstSchedulable(t, a)
    THEN CHOOSE a \in Arrows : FirstSchedulable(t, a)
    ELSE None

\* next_arrow_index moves only when an arrow was found.
checkout_unprotected(t, a) ==
    IF a = None
    THEN t
    ELSE [t EXCEPT !.thread_count[a] = @ + 1, !.next_arrow = Successor(a)]

\* checkout(arrow_index), which also lends Inactive arrows.
CanCheckout(t, a) == t.status[a] \in {"Active", "Inactive"} /\ HasRoom(t, a)

CheckoutUncounted(t, a) == t

checkout(t, a) == [t EXCEPT !.thread_count[a] = @ + 1]

initialize_topology(t) == [t EXCEPT !.topology = "Paused"]

PausableAnyStatus(t, S) == S

\* pause_arrow_unprotected() is a no-op unless the arrow is Active.
Pausable(t, S) == {a \in S : t.status[a] = "Active"}

drain_topology(t) ==
    IF t.topology = "Finalized"
    THEN t
    ELSE [deactivate_all(t, Pausable(t, SourceArrows)) EXCEPT !.topology = "Draining"]

\* run_arrow_unprotected() on every source: counters grow once per visit, and
\* the status becomes Active whatever it was.
run_topology(t) ==
    IF t.topology \in {"Running", "Finalized"}
    THEN t
    ELSE [t EXCEPT
            !.status = [a \in Arrows |-> IF a \in Reached THEN "Active" ELSE @[a]],
            !.active_count = @ + TotalVisits,
            !.upstream_count =
                [d \in Arrows |-> @[d] + UpstreamVisits[d]],
            !.topology = "Running"]

request_topology_pause(t) ==
    IF t.topology = "Running"
    THEN [deactivate_all(t, Pausable(t, Arrows)) EXCEPT !.topology = "Pausing"]
    ELSE t

\* finalize() is called on every arrow, but the arrow statuses stay.
finish_topology(t) == [t EXCEPT !.topology = "Finalized", !.finalized = Arrows]

-----------------------------------------------------------------------------
VARIABLES
    ts,         \* m_topology_state
    lost        \* workers whose arrow threw: they never check in again

vars == <<ts, assigned, lost>>

Init ==
    /\ ts = InitialTopologyState
    /\ assigned = [w \in Workers |-> None]
    /\ lost = {}

\* The state after w's current assignment, if any, is handed in.
HandedIn(w, last_result, pending) ==
    IF assigned[w] = None
    THEN ts
    ELSE checkin(ts, assigned[w], last_result, pending)

NextAssignment(w, last_result, pending) ==
    /\ w \notin lost
    /\ LET t == HandedIn(w, last_result, pending)
           a == checkout_choice(t)
       IN  /\ ts' = checkout_unprotected(t, a)
           /\ assigned' = [assigned EXCEPT ![w] = a]
    /\ UNCHANGED lost

LastAssignment(w, last_result, pending) ==
    /\ w \notin lost
    /\ ts' = HandedIn(w, last_result, pending)
    /\ assigned' = [assigned EXCEPT ![w] = None]
    /\ UNCHANGED lost

\* The inspector asks for one particular arrow.
Checkout(w, a) ==
    /\ w \notin lost
    /\ assigned[w] = None
    /\ CanCheckout(ts, a)
    /\ ts' = checkout(ts, a)
    /\ assigned' = [assigned EXCEPT ![w] = a]
    /\ UNCHANGED lost

\* The worker's loop leaves through a catch block, which checks nothing in.
Throw(w) ==
    /\ w \notin lost
    /\ assigned[w] # None
    /\ lost' = lost \cup {w}
    /\ UNCHANGED <<ts, assigned>>

InitializeTopology ==
    /\ ts.topology = "Uninitialized"
    /\ ts' = initialize_topology(ts)
    /\ UNCHANGED <<assigned, lost>>

\* No caller runs or drains a topology before initialize() has returned.
Initialized == ts.topology # "Uninitialized"

RunTopology ==
    /\ Initialized
    /\ SourceArrows # {}
    /\ ts.active_count + TotalVisits <= MaxActiveCount
    /\ ts' = run_topology(ts)
    /\ UNCHANGED <<assigned, lost>>

DrainTopology ==
    /\ Initialized
    /\ ts' = drain_topology(ts)
    /\ UNCHANGED <<assigned, lost>>

RequestTopologyPause ==
    /\ Initialized
    /\ ts' = request_topology_pause(ts)
    /\ UNCHANGED <<assigned, lost>>

AchieveTopologyPause ==
    /\ Initialized
    /\ ts' = achieve_topology_pause(ts)
    /\ UNCHANGED <<assigned, lost>>

FinishTopology ==
    /\ Initialized
    /\ ts' = finish_topology(ts)
    /\ UNCHANGED <<assigned, lost>>

WorkerStep(w) ==
    \/ \E r \in Result, pending \in {0, 1} :
          NextAssignment(w, r, pending) \/ LastAssignment(w, r, pending)
    \/ \E a \in Arrows : Checkout(w, a)
    \/ Throw(w)

ControllerStep ==
    \/ InitializeTopology
    \/ RunTopology
    \/ DrainTopology
    \/ RequestTopologyPause
    \/ AchieveTopologyPause
    \/ FinishTopology

Next == ControllerStep \/ \E w \in Workers : WorkerStep(w)

Spec == Init /\ [][Next]_vars

\* A worker that is not executing always comes back for another assignment.
AskForWork == \E w \in Workers, r \in Result, p \in {0, 1} : NextAssignment(w, r, p)

FairSpec == Spec /\ WF_vars(AskForWork)

-----------------------------------------------------------------------------
(* Properties.                                                             *)

\* Every field of the topology state keeps its type, whatever the callers do.
TypeOK ==
    /\ ts \in TopologyState
    /\ assigned \in [Workers -> Arrows \cup {None}]
    /\ lost \subseteq Workers

ActiveOrDraining(t) == {a \in Arrows : t.status[a] \in {"Active", "Draining"}}

\* thread_count is the number of threads assigned to the arrow (the comment on
\* ArrowState::thread_count), also after a worker died holding it.
ThreadCountExact ==
    \A a \in Arrows : ts.thread_count[a] = Cardinality(Holders(a))

\* An arrow that is not safe to parallelise is never executed by two threads
\* at once, through any interleaving of next_assignment(), the inspector's
\* checkout(), pauses, drains and restarts.
SequentialExclusive ==
    \A a \in Arrows \ ParallelArrows : \A v, w \in Holders(a) : v = w

\* The two counters that decide when to drain, finalize and pause never fall
\* below the number of arrows they stand for.  They may exceed it: restarting
\* a draining topology counts an arrow twice.
CountersSound ==
    /\ Cardinality(ActiveOrDraining(ts)) <= ts.active_count
    /\ \A d \in Arrows :
          Cardinality(Upstream(d) \cap ActiveOrDraining(ts)) <= ts.upstream_count[d]

\* finalize() is called from a checkin only when nobody is left on the arrow.
FinalizesAlone ==
    [][\A a \in Arrows :
          ts.status[a] # "Finalized" /\ ts'.status[a] = "Finalized"
             => Holders(a)' = {}]_vars

\* A stage or sink stops being scheduled and is finalized only when none of its
\* upstream arrows is active or draining, so nothing can still arrive from a
\* stage that the scheduler may run again.
UpstreamDoneFirst ==
    [][\A a \in Arrows \ SourceArrows :
          ts.status[a] = "Active" /\ ts'.status[a] \in {"Draining", "Finalized"}
             => Upstream(a) \cap ActiveOrDraining(ts') = {}]_vars

\* A checkin that declares the topology Paused leaves no arrow active or
\* draining: "All arrows are inactive. Deactivating topology."
PauseIsComplete ==
    [][ts.topology # "Paused" /\ ts'.topology = "Paused" /\ assigned' # assigned
          => ActiveOrDraining(ts') = {}]_vars

\* Round robin starves nobody: an arrow that stays Active is given to a worker,
\* as long as a worker is left to ask.
NoStarvation ==
    \A a \in Arrows :
        ts.status[a] = "Active"
            ~> (ts.status[a] # "Active" \/ Holders(a) # {} \/ lost = Workers)

=============================================================================

----------------------------- MODULE EventCycle -----------------------------
(***************************************************************************)
(* One pooled event on its way round the topology, over and over: a source *)
(* fills it, the factories of its JFactorySet compute from it on demand, a *)
(* JEventProcessor consumes it, the pool releases it, and a source fills   *)
(* it again.  The worker that holds the event runs all of this, so the     *)
(* steps are sequential; what is checked is what the components remember   *)
(* from one round to the next.                                             *)
(*                                                                         *)
(* State.  sources and current_source belong to JEventSourceArrow;         *)
(* fac and multi are the factory set (Plain factories, and the Helpers of  *)
(* one JMultifactory); proc is the processor; event is the JEvent:         *)
(*   stage   where the event is.  "lost": an exception left the worker,    *)
(*           which never returns the event                                 *)
(*   run     mRunNumber                                                    *)
(*   entry   the entry of the source it was filled from (history)          *)
(*   source  mEventSource, 0 if none; Reset does not clear it              *)
(* The objects in a factory are those of the event being filled or         *)
(* processed, "now", or of any earlier one, "past".                        *)
(* delivered[i] and finished[i] are the entries of source i that reached   *)
(* the processor's side, and those its FinishEvent was called for after    *)
(* that (histories).                                                       *)
(***************************************************************************)
EXTENDS JEventSource, Sequences, FiniteSets

CONSTANTS
    Conf,          \* the configuration of each source, a sequence
    Plain,         \* the factories that are a JFactoryT with an algorithm
    Helpers,       \* the outputs of the multifactory
    Insertable,    \* the factories the sources may insert objects into
    Regenerate, Persistent,   \* the factories with these flags
    Runs, NoRun,   \* run numbers; the code's -1
    ThrowPoints,   \* the user callbacks of factories that may throw
    OmitsOutputs   \* whether the multifactory may leave outputs unset

\* (nskip and nevents are unsigned.)
ASSUME ConfAssumption ==
    /\ Conf \in Seq([nskip : Nat, nevents : Nat, entries : Nat, legacy : BOOLEAN])
    /\ Len(Conf) > 0 /\ NoRun \notin Runs
    /\ Plain \cap Helpers = {}
    /\ Insertable \subseteq Plain \cup Helpers

VARIABLES sources, current_source, event, fac, multi, proc, delivered, finished

vars == <<sources, current_source, event, fac, multi, proc, delivered, finished>>

F == INSTANCE JFactory

Factories == Plain \cup Helpers

Init ==
    /\ sources = [i \in DOMAIN Conf |-> NewSource]
    /\ current_source = 1
    /\ event = [stage |-> "pooled", run |-> NoRun, source |-> 0, entry |-> 0]
    /\ fac = [f \in Factories |-> F!NewFactory]
    /\ multi = F!NewMultifactory
    /\ proc = [status |-> "Uninitialized", last_run |-> NoRun, in_run |-> NoRun]
    /\ delivered = [i \in DOMAIN Conf |-> {}]
    /\ finished = [i \in DOMAIN Conf |-> {}]

Initialize ==
    /\ sources[1].status = "Uninitialized"
    /\ sources' = [i \in DOMAIN Conf |-> [sources[i] EXCEPT !.status = "Initialized"]]
    /\ proc' = [proc EXCEPT !.status = "Initialized"]
    /\ UNCHANGED <<current_source, event, fac, multi, delivered, finished>>

(* The pull of the source arrow takes the event out of the pool.           *)
Pull ==
    /\ event.stage = "pooled"
    /\ proc.status = "Initialized" /\ current_source <= Len(Conf)
    /\ event' = [event EXCEPT !.stage = "sourcing"]
    /\ UNCHANGED <<sources, current_source, fac, multi, proc, delivered, finished>>

(* The event goes back into the pool: JFactorySet::Release clears every    *)
(* factory.  No consumer holds pointers any more, and what is left in g    *)
(* belongs to an earlier event from now on.                                *)
Release(g, f) ==
    LET c == F!ClearData([g EXCEPT !.lent = FALSE], f \in Persistent)
    IN [c EXCEPT !.calls = 0, !.data = IF @ = {} THEN {} ELSE {"past"}]

Inserted(g, f, ins) == IF f \in ins THEN F!Insert(g, "now") ELSE g

(* JEventSourceArrow::process moves on to the next source.                 *)
NextSource(result) == result = "FailureFinished"

(* One DoNext of the current source in the loop of process().  Emit may    *)
(* insert objects whether or not it then has an event to deliver; the      *)
(* event of a failed emission goes back to the pool with them.             *)
DoNextOf(answer, ins, run) ==
    LET i == current_source
        c == Conf[i]
        s == Open(sources[i])
        result == ResultOf(s, c, answer)
        last == NextSource(result) /\ i = Len(Conf)
        back == result = "FailureTryAgain" \/ last
        filled == [f \in Factories |-> Inserted(fac[f], f, ins)]
    IN /\ event.stage = "sourcing"
       /\ answer \in IF Asks(s, c) THEN Answers(s, c) ELSE {"none"}
       /\ answer \notin {"Success", "TryAgain"} => ins = {}
       /\ sources' = [sources EXCEPT ![i] = SourceAfter(s, c, answer)]
       /\ current_source' = IF NextSource(result) THEN i + 1 ELSE i
       /\ event' = [stage |-> CASE result = "Success" -> "filled"
                                [] result = "Throw"   -> "lost"
                                [] back               -> "pooled"
                                [] OTHER              -> "sourcing",
                    run |-> IF answer = "Success" THEN run ELSE event.run,
                    source |-> IF SetsSource(s, c) THEN i ELSE event.source,
                    entry |-> IF answer = "Success" THEN s.count + 1 ELSE 0]
       /\ fac' = [f \in Factories |->
                    IF back THEN Release(filled[f], f) ELSE filled[f]]
       /\ multi' = IF back THEN [multi EXCEPT !.calls = 0] ELSE multi
       /\ delivered' = IF result # "Success" THEN delivered
                       ELSE [delivered EXCEPT ![i] = @ \cup {s.count + 1}]
       /\ UNCHANGED <<proc, finished>>

DoNext ==
    \E answer \in {"Success", "TryAgain", "Finished", "Throw", "none"},
       ins \in SUBSET Insertable, run \in Runs : DoNextOf(answer, ins, run)

Consuming == event.stage \in {"filled", "processing"}

Throws(callbacks) == {"none"} \cup (ThrowPoints \cap callbacks)

Lend(g) == [g EXCEPT !.lent = TRUE]

(* JEvent::Get of a factory with an algorithm.  What throws is caught by   *)
(* the consumer, or makes it Lose the event.                               *)
GetPlain(f, thrown) ==
    LET regen == f \in Regenerate
        persistent == f \in Persistent
        made == F!Create(fac[f], "now", event.run, regen, persistent, thrown)
    IN /\ Consuming
       /\ thrown \in Throws(F!Callbacks(fac[f], event.run, regen, persistent))
       /\ fac' = [fac EXCEPT ![f] = IF thrown = "none" THEN Lend(made) ELSE made]
       /\ UNCHANGED <<sources, current_source, event, multi, proc, delivered, finished>>

(* The outputs that JMultifactory::Process has set when it returns or      *)
(* throws.                                                                 *)
OutputsSet(thrown) ==
    CASE thrown = "none"           -> IF OmitsOutputs THEN SUBSET Helpers ELSE {Helpers}
      [] thrown = "ProcessPartway" -> SUBSET Helpers
      [] OTHER                     -> {{}}

(* JEvent::Get of an output of the multifactory, whose own callbacks are   *)
(* empty and whose Process is the multifactory's Execute.                  *)
GetHelper(h, thrown, outputs) ==
    LET p == F!Prepare(fac[h], event.run, h \in Regenerate, h \in Persistent, "none")
        executes == p.status = "Unprocessed"
        After(k) == IF k \in outputs THEN F!Set(IF k = h THEN p ELSE fac[k], "now", k \in Persistent)
                    ELSE IF k = h THEN p ELSE fac[k]
    IN /\ Consuming
       /\ IF executes
          THEN /\ thrown \in Throws(F!ExecuteCallbacks(multi, event.run) \cup {"ProcessPartway"})
               /\ outputs \in OutputsSet(thrown)
               /\ multi' = F!Execute(multi, event.run, thrown)
          ELSE /\ thrown = "none" /\ outputs = {}
               /\ UNCHANGED multi
       /\ fac' = [k \in Factories |->
                    IF k # h \/ thrown # "none" THEN After(k)
                    ELSE Lend(IF executes THEN F!Returned(After(k)) ELSE After(k))]
       /\ UNCHANGED <<sources, current_source, event, proc, delivered, finished>>

Get ==
    \/ \E f \in Plain, t \in {"none"} \cup ThrowPoints : GetPlain(f, t)
    \/ \E h \in Helpers, t \in {"none"} \cup ThrowPoints, o \in SUBSET Helpers :
          GetHelper(h, t, o)

(* The run callbacks of JEventProcessor::DoReduce: EndRun, BeginRun.       *)
RunChanged(run) ==
    IF proc.last_run = run THEN proc
    ELSE [proc EXCEPT !.last_run = run, !.in_run = run]

(* DoReduce up to Process; what the processor gets from the event follows. *)
DoReduce ==
    /\ event.stage = "filled"
    /\ proc' = RunChanged(event.run)
    /\ event' = [event EXCEPT !.stage = "processing"]
    /\ UNCHANGED <<sources, current_source, fac, multi, delivered, finished>>

(* A callback threw and nobody caught it: the worker keeps the event.      *)
Lose ==
    /\ Consuming /\ ThrowPoints # {}
    /\ event' = [event EXCEPT !.stage = "lost"]
    /\ UNCHANGED <<sources, current_source, fac, multi, proc, delivered, finished>>

(* JEventPool::release_item of an event that has been processed.           *)
ReleaseItem ==
    /\ event.stage = "processing"
    /\ finished' = [finished EXCEPT ![event.source] = @ \cup {event.entry}]
    /\ fac' = [f \in Factories |-> Release(fac[f], f)]
    /\ multi' = [multi EXCEPT !.calls = 0]
    /\ event' = [event EXCEPT !.stage = "pooled", !.entry = 0]
    /\ UNCHANGED <<sources, current_source, proc, delivered>>

(* finalize() of the arrows, once the topology has stopped.                *)
Finalize ==
    /\ event.stage \in {"pooled", "lost"} /\ proc.status = "Initialized"
    /\ sources' = [i \in DOMAIN Conf |-> DoClose(sources[i])]
    /\ proc' = [proc EXCEPT !.status = "Finalized", !.in_run = NoRun]
    /\ UNCHANGED <<current_source, event, fac, multi, delivered, finished>>

(* Nothing is left to do.                                                  *)
Done == proc.status = "Finalized" /\ UNCHANGED vars

Next == Initialize \/ Pull \/ DoNext \/ Get \/ DoReduce \/ Lose \/ ReleaseItem
        \/ Finalize \/ Done

Spec == Init /\ [][Next]_vars

-----------------------------------------------------------------------------
(* The entries that nskip and nevents select.                              *)
Selected(c) ==
    {n \in 1..c.entries : n > c.nskip /\ (c.nevents # 0 => n <= c.nskip + c.nevents)}

(* nskip and nevents select exactly the entries the user asked for, in     *)
(* order: what a source has delivered is the selected part of what it has  *)
(* read, all of it once process() has moved on to the next source, and     *)
(* when the event is back in the pool each delivered entry has been given  *)
(* to FinishEvent of its own source.                                       *)
SelectionExact ==
    \A i \in DOMAIN Conf :
       /\ delivered[i] = Selected(Conf[i]) \cap 1..sources[i].count
       /\ current_source > i => delivered[i] = Selected(Conf[i])
       /\ current_source < i => sources[i].count = 0
       /\ event.stage \in {"pooled", "sourcing"} => finished[i] = delivered[i]

(* A consumer never gets objects of an earlier event from a factory that   *)
(* is not persistent, whatever was inserted, regenerated, retried after an *)
(* exception or thrown away by nskip before; and an event in the pool      *)
(* holds none at all.                                                      *)
NoStaleData ==
    \A f \in Factories \ Persistent :
       /\ "past" \notin fac[f].data
       /\ event.stage = "pooled" => fac[f].data = {}

(* Process of a factory, multifactory or processor runs only between       *)
(* BeginRun and EndRun for the run number of the event being processed,    *)
(* although runs may come back and a factory may miss whole runs; and      *)
(* only after Init().  (A factory into which objects are inserted before   *)
(* it is initialized never gets its Init(): the status is Inserted then.)  *)
ProcessInsideRun ==
    /\ \A f \in Plain \ Insertable : fac[f].calls > 0 => fac[f].inited
    /\ multi.calls > 0 => multi.inited
    /\ \A f \in Factories : fac[f].calls > 0 => fac[f].in_run = event.run
    /\ multi.calls > 0 => multi.in_run = event.run
    /\ event.stage = "processing" => proc.in_run = event.run
    /\ proc.status = "Finalized" => proc.in_run = NoRun

(* Results are computed once per event: Process returns at most once for   *)
(* each event in every factory and in the multifactory, however many       *)
(* consumers ask for however many of its outputs.                          *)
ComputedOnce == multi.calls <= 1 /\ \A f \in Factories : fac[f].calls <= 1

(* Objects handed to a consumer stay alive until the event is released.    *)
CachedUntilReleased == \A f \in Factories : ~fac[f].dangling

=============================================================================

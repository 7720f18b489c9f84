--------------------------- MODULE EventCycleProofs ---------------------------
(***************************************************************************)
(* Proofs about EventCycle, for any number of sources, any nskip, nevents  *)
(* and length, any sets of factories with any flags, and any runs.         *)
(*                                                                         *)
(* The invariant has four parts, each inductive with the types: what the   *)
(* sources have delivered (SourceInv), what the factories hold (DataInv),  *)
(* the runs they are in (RunInv), and what has been computed and lent      *)
(* (OnceInv).  The last two are true of user code that keeps to            *)
(* RunCallbacksReturn and OutputsAreSet, which are hypotheses of the       *)
(* theorems that need them.                                                *)
(***************************************************************************)
EXTENDS EventCycle, TLAPS

RunNumbers == Runs \cup {NoRun}

Factory ==
    [status : {"Uninitialized", "Unprocessed", "Processed", "Inserted"},
     last_run : RunNumbers, data : SUBSET {"now", "past"}, inited : BOOLEAN,
     in_run : RunNumbers, calls : Nat, lent : BOOLEAN, dangling : BOOLEAN]

Multifactory ==
    [status : {"Uninitialized", "Initialized"}, last_run : RunNumbers, inited : BOOLEAN,
     in_run : RunNumbers, calls : Nat]

Source == [status : {"Uninitialized", "Initialized", "Opened", "Closed"}, count : Nat]

\* The types of the variables, and which of them belong together.
Shape ==
    /\ sources \in [DOMAIN Conf -> Source]
    /\ current_source \in 1 .. Len(Conf) + 1
    /\ event \in [stage : {"pooled", "sourcing", "filled", "processing", "lost"},
                  run : RunNumbers, source : 0 .. Len(Conf), entry : Nat]
    /\ fac \in [Factories -> Factory]
    /\ multi \in Multifactory
    /\ proc \in [status : {"Uninitialized", "Initialized", "Finalized"},
                 last_run : RunNumbers, in_run : RunNumbers]
    /\ delivered \in [DOMAIN Conf -> SUBSET Nat]
    /\ finished \in [DOMAIN Conf -> SUBSET Nat]
    /\ event.stage = "sourcing" => current_source <= Len(Conf)
    /\ event.stage \notin {"pooled", "lost"} => proc.status = "Initialized"
    /\ sources[1].status = "Uninitialized" => proc.status = "Uninitialized"

\* Source i has read its last entry, or the last that the user asked for.
Exhausted(i) == sources[i].count = Conf[i].entries \/ AtLimit(sources[i], Conf[i])

SourceInv ==
    /\ \A i \in DOMAIN Conf :
          /\ sources[i].count <= Conf[i].entries
          /\ Conf[i].nevents # 0 => sources[i].count <= Conf[i].nevents + Conf[i].nskip
          /\ current_source > i => Exhausted(i)
          /\ sources[i].status = "Closed" /\ proc.status # "Finalized" => Exhausted(i)
          /\ current_source < i => sources[i].count = 0
          /\ delivered[i] = Selected(Conf[i]) \cap 1 .. sources[i].count
    /\ event.stage \in {"pooled", "sourcing"} => finished = delivered
    /\ Consuming =>
          /\ event.source \in DOMAIN Conf
          /\ delivered = [finished EXCEPT ![event.source] = @ \cup {event.entry}]

DataInv ==
    \A f \in Factories :
       /\ fac[f].status = "Uninitialized" => fac[f].data = {}
       /\ f \notin Persistent => fac[f].data \subseteq {"now"}
       /\ f \notin Persistent /\ event.stage = "pooled" => fac[f].data = {}

\* No callback that begins a run throws.
RunCallbacksReturn == ThrowPoints \cap {"ChangeRun", "BeginRun"} = {}

RunInv ==
    /\ \A f \in Factories :
          /\ fac[f].in_run = fac[f].last_run
          /\ fac[f].calls > 0 => fac[f].in_run = event.run
    /\ \A f \in Plain \ Insertable : fac[f].status # "Uninitialized" => fac[f].inited
    /\ \A f \in Plain \ Insertable : fac[f].calls > 0 => fac[f].inited
    /\ multi.in_run = multi.last_run
    /\ multi.calls > 0 => multi.inited /\ multi.in_run = event.run
    /\ event.stage \in {"pooled", "sourcing"} =>
          multi.calls = 0 /\ \A f \in Factories : fac[f].calls = 0
    /\ proc.status # "Finalized" => proc.in_run = proc.last_run
    /\ proc.status = "Finalized" => proc.in_run = NoRun
    /\ event.stage = "processing" => proc.in_run = event.run

\* The multifactory sets all its outputs when it returns and none when it throws;
\* nobody else inserts objects into them, and they are not made to be regenerated.
OutputsAreSet ==
    /\ ~OmitsOutputs /\ "ProcessPartway" \notin ThrowPoints
    /\ Helpers \cap Insertable = {}
    /\ Helpers \cap Regenerate \subseteq Persistent

OnceInv ==
    /\ multi.calls <= 1
    /\ \A f \in Factories : fac[f].calls <= 1 /\ ~fac[f].dangling
    /\ event.stage \in {"pooled", "sourcing"} =>
          multi.calls = 0 /\ \A f \in Factories : fac[f].calls = 0 /\ ~fac[f].lent
    /\ \A f \in Plain : fac[f].calls = 1 => fac[f].status = "Processed"
    /\ \A f \in Plain \ Persistent :
          fac[f].lent => fac[f].status = "Processed"
                         \/ (f \notin Regenerate /\ fac[f].status = "Inserted")
    /\ \A h \in Helpers :
          /\ multi.calls = 1 => fac[h].status \in {"Inserted", "Processed"}
          /\ multi.calls = 0 => fac[h].calls = 0
          /\ multi.calls = 0 /\ h \notin Persistent =>
                fac[h].status \in {"Uninitialized", "Unprocessed"} /\ ~fac[h].lent

-----------------------------------------------------------------------------
(* The operators on a factory.                                             *)

\* ChangeRun of a factory: all but the run stays; if none of the callbacks of the
\* new run throws, the factory is in that run.
LEMMA ChangeRunOfFactory ==
    ASSUME NEW g \in Factory, NEW run \in RunNumbers, NEW thrown
    PROVE  LET r == F!ChangeRun(g, run, thrown)
           IN  /\ r \in Factory
               /\ r.calls = g.calls /\ r.lent = g.lent /\ r.inited = g.inited /\ r.data = g.data
               /\ r.dangling = g.dangling /\ r.status = g.status
               /\ thrown \notin {"ChangeRun", "BeginRun"} =>
                     IF g.last_run = run \/ thrown = "EndRun"
                     THEN r.last_run = g.last_run /\ r.in_run = g.in_run
                     ELSE r.last_run = run /\ r.in_run = run
<1> DEFINE r == F!ChangeRun(g, run, thrown)
<1>1. \/ r = g
      \/ r = [g EXCEPT !.in_run = NoRun]
      \/ r = [g EXCEPT !.last_run = run, !.in_run = run]
  BY DEF F!ChangeRun
<1>2. thrown \notin {"ChangeRun", "BeginRun"} =>
         r = IF g.last_run = run \/ thrown = "EndRun" THEN g
             ELSE [g EXCEPT !.last_run = run, !.in_run = run]
  BY DEF F!ChangeRun
<1> HIDE DEF r
<1>3. /\ r \in Factory
      /\ r.calls = g.calls /\ r.lent = g.lent /\ r.inited = g.inited /\ r.data = g.data
      /\ r.dangling = g.dangling /\ r.status = g.status
  BY <1>1, ZenonT(30) DEF Factory, RunNumbers
<1>4. thrown \notin {"ChangeRun", "BeginRun"} =>
         IF g.last_run = run \/ thrown = "EndRun"
         THEN r.last_run = g.last_run /\ r.in_run = g.in_run
         ELSE r.last_run = run /\ r.in_run = run
  BY <1>2, ZenonT(30) DEF Factory
<1> QED
  BY <1>3, <1>4 DEF r

\* Create up to the call of Process: a factory that has to make its data is
\* Unprocessed and in the run of the event, and nothing but REGENERATE deletes
\* objects.
LEMMA PrepareEffect ==
    ASSUME NEW g \in Factory, NEW run \in RunNumbers, NEW regen \in BOOLEAN,
           NEW pers \in BOOLEAN, NEW thrown
    PROVE  LET p == F!Prepare(g, run, regen, pers, thrown)
               cleared == regen /\ ~pers /\ g.status = "Inserted"
           IN  /\ p \in Factory
               /\ p.calls = g.calls
               /\ p.lent = g.lent
               /\ g.inited => p.inited
               /\ g.status = "Uninitialized" /\ p.status # "Uninitialized" => p.inited
               /\ p.data = IF cleared THEN {} ELSE g.data
               /\ cleared /\ ~g.lent /\ ~g.dangling => ~p.dangling
               /\ ~cleared => p.dangling = g.dangling
               /\ p.status = IF g.status = "Uninitialized" /\ thrown = "Init" THEN "Uninitialized"
                             ELSE IF g.status = "Uninitialized" \/ cleared THEN "Unprocessed"
                             ELSE g.status
               /\ thrown \notin {"ChangeRun", "BeginRun"} =>
                     IF p.status # "Unprocessed" \/ g.last_run = run \/ thrown = "EndRun"
                     THEN p.last_run = g.last_run /\ p.in_run = g.in_run
                     ELSE p.last_run = run /\ p.in_run = run
<1> DEFINE i == F!DoInit(g, thrown)
           c == IF regen /\ i.status = "Inserted" THEN F!ClearData(i, pers) ELSE i
           p == F!Prepare(g, run, regen, pers, thrown)
           cleared == regen /\ ~pers /\ g.status = "Inserted"
<1>1. /\ i \in Factory
      /\ i.calls = g.calls /\ i.lent = g.lent /\ i.data = g.data /\ i.dangling = g.dangling
      /\ i.last_run = g.last_run /\ i.in_run = g.in_run
      /\ g.inited => i.inited
      /\ g.status = "Uninitialized" /\ i.status # "Uninitialized" => i.inited
      /\ i.status = IF g.status = "Uninitialized" /\ thrown # "Init" THEN "Unprocessed" ELSE g.status
  BY ZenonT(30) DEF Factory, F!DoInit
<1> HIDE DEF i
<1>2. /\ c \in Factory
      /\ c.calls = i.calls /\ c.lent = i.lent
      /\ c.last_run = i.last_run /\ c.in_run = i.in_run /\ c.inited = i.inited
      /\ c.data = IF cleared THEN {} ELSE i.data
      /\ cleared /\ ~i.lent /\ ~i.dangling => ~c.dangling
      /\ ~cleared => c.dangling = i.dangling
      /\ c.status = IF cleared THEN "Unprocessed" ELSE i.status
  BY <1>1, ZenonT(30) DEF Factory, F!ClearData
<1> HIDE DEF c
<1>3. p = IF c.status = "Unprocessed" THEN F!ChangeRun(c, run, thrown) ELSE c
  BY DEF F!Prepare, i, c
<1> HIDE DEF p
<1>4. /\ p \in Factory
      /\ p.calls = c.calls /\ p.lent = c.lent /\ p.inited = c.inited /\ p.data = c.data
      /\ p.dangling = c.dangling /\ p.status = c.status
      /\ thrown \notin {"ChangeRun", "BeginRun"} =>
            IF c.status # "Unprocessed" \/ c.last_run = run \/ thrown = "EndRun"
            THEN p.last_run = c.last_run /\ p.in_run = c.in_run
            ELSE p.last_run = run /\ p.in_run = run
  <2>1. CASE c.status # "Unprocessed"
    BY <1>2, <1>3, <2>1
  <2>2. CASE c.status = "Unprocessed"
    BY <1>2, <1>3, <2>2, ChangeRunOfFactory
  <2> QED
    BY <2>1, <2>2
<1> QED
  BY <1>1, <1>2, <1>4 DEF p

\* Process is called for a prepared factory that is Unprocessed, if nothing threw.
LEMMA CreateEffect ==
    ASSUME NEW g, NEW run, NEW regen, NEW pers, NEW thrown,
           F!Prepare(g, run, regen, pers, thrown) \in Factory
    PROVE  LET p == F!Prepare(g, run, regen, pers, thrown)
               r == F!Create(g, "now", run, regen, pers, thrown)
               runs == p.status = "Unprocessed" /\ thrown = "none"
           IN  /\ r \in Factory
               /\ r.lent = p.lent /\ r.inited = p.inited /\ r.dangling = p.dangling
               /\ r.last_run = p.last_run /\ r.in_run = p.in_run
               /\ r.calls = IF runs THEN p.calls + 1 ELSE p.calls
               /\ r.status = IF runs THEN "Processed" ELSE p.status
               /\ r.data = IF runs THEN p.data \cup {"now"} ELSE p.data
<1> DEFINE p == F!Prepare(g, run, regen, pers, thrown)
<1>1. p \in Factory
  OBVIOUS
<1>2. F!Create(g, "now", run, regen, pers, thrown) =
         IF p.status = "Unprocessed" /\ thrown = "none"
         THEN F!Returned([p EXCEPT !.data = @ \cup {"now"}]) ELSE p
  BY DEF F!Create
<1> DEFINE q == [p EXCEPT !.data = @ \cup {"now"}]
           r == F!Returned(q)
<1> HIDE DEF p
<1>3. /\ q \in Factory /\ q.data = p.data \cup {"now"} /\ q.calls = p.calls
      /\ q.lent = p.lent /\ q.inited = p.inited /\ q.dangling = p.dangling
      /\ q.last_run = p.last_run /\ q.in_run = p.in_run
  BY <1>1 DEF Factory
<1> DEFINE n == q.calls + 1
<1>5. r = [q EXCEPT !.status = "Processed", !.calls = n] /\ n \in Nat
  BY <1>3 DEF F!Returned, Factory
<1> HIDE DEF q, r, n
<1>4. /\ r \in Factory /\ r.data = q.data /\ r.calls = n /\ r.status = "Processed"
      /\ r.lent = q.lent /\ r.inited = q.inited /\ r.dangling = q.dangling
      /\ r.last_run = q.last_run /\ r.in_run = q.in_run
  BY <1>3, <1>5, ZenonT(30) DEF Factory
<1> QED
  BY <1>1, <1>2, <1>3, <1>4 DEF p, q, r, n

\* SetData of a multifactory: the output holds the objects of this event, and no
\* objects are deleted while a consumer holds them if it holds none.
LEMMA SetEffect ==
    ASSUME NEW g \in Factory, NEW pers
    PROVE  LET r == F!Set(g, "now", pers)
           IN  /\ r \in Factory /\ r.data = {"now"} /\ r.status = "Inserted"
               /\ r.calls = g.calls /\ r.lent = g.lent /\ r.inited = g.inited
               /\ r.last_run = g.last_run /\ r.in_run = g.in_run
               /\ (pers \/ ~g.lent) /\ ~g.dangling => ~r.dangling
BY ZenonT(30) DEF Factory, F!Set, F!ClearData

\* The release: only a persistent factory keeps objects, and they are of an
\* earlier event from then on.
LEMMA ReleaseEffect ==
    ASSUME NEW g \in Factory, NEW f
    PROVE  LET r == Release(g, f)
           IN  /\ r \in Factory /\ r.calls = 0 /\ ~r.lent /\ r.inited = g.inited
               /\ r.last_run = g.last_run /\ r.in_run = g.in_run
               /\ ~g.dangling => ~r.dangling
               /\ (g.status = "Uninitialized" => g.data = {}) =>
                     /\ r.status = "Uninitialized" => r.data = {}
                     /\ f \notin Persistent => r.data = {}
               /\ r.status = IF g.status = "Uninitialized" \/ f \in Persistent THEN g.status
                             ELSE "Unprocessed"
<1> DEFINE l == [g EXCEPT !.lent = FALSE]
           c == F!ClearData(l, f \in Persistent)
<1>1. /\ l \in Factory /\ ~l.lent /\ l.status = g.status /\ l.data = g.data /\ l.inited = g.inited
      /\ l.last_run = g.last_run /\ l.in_run = g.in_run /\ l.dangling = g.dangling
  BY ZenonT(30) DEF Factory
<1> HIDE DEF l
<1>2. /\ c \in Factory /\ ~c.lent /\ c.inited = l.inited /\ c.last_run = l.last_run
      /\ c.in_run = l.in_run
      /\ ~l.dangling => ~c.dangling
      /\ c.status = IF l.status = "Uninitialized" \/ f \in Persistent THEN l.status ELSE "Unprocessed"
      /\ (l.status = "Uninitialized" => l.data = {}) =>
            /\ c.status = "Uninitialized" => c.data = {}
            /\ f \notin Persistent => c.data = {}
  BY <1>1, ZenonT(30) DEF Factory, F!ClearData
<1> DEFINE r == Release(g, f)
           d == IF c.data = {} THEN {} ELSE {"past"}
<1>3. r = [c EXCEPT !.calls = 0, !.data = d] /\ d \in SUBSET {"now", "past"}
  BY <1>2 DEF Release, l, Factory
<1> HIDE DEF c, r, d
<1>4. /\ r \in Factory /\ r.calls = 0 /\ r.lent = c.lent /\ r.inited = c.inited
      /\ r.last_run = c.last_run /\ r.in_run = c.in_run /\ r.dangling = c.dangling
      /\ r.status = c.status /\ r.data = d
  BY <1>2, <1>3, ZenonT(30) DEF Factory
<1>5. ~r.lent /\ r.inited = g.inited /\ (~g.dangling => ~r.dangling)
  BY <1>1, <1>2, <1>4
<1>6. /\ r.last_run = g.last_run /\ r.in_run = g.in_run
      /\ r.status = IF g.status = "Uninitialized" \/ f \in Persistent THEN g.status
                    ELSE "Unprocessed"
      /\ (g.status = "Uninitialized" => g.data = {}) =>
            /\ r.status = "Uninitialized" => r.data = {}
            /\ f \notin Persistent => r.data = {}
  BY <1>1, <1>2, <1>4 DEF d
<1> QED
  BY <1>4, <1>5, <1>6 DEF r

\* A source that inserts objects into some of the factories.
LEMMA InsertedEffect ==
    ASSUME NEW g \in Factory, NEW f, NEW ins
    PROVE  LET r == Inserted(g, f, ins)
           IN  /\ r \in Factory
               /\ f \notin ins => r = g
               /\ f \in ins => r.status = "Inserted" /\ r.data = g.data \cup {"now"}
               /\ r.calls = g.calls /\ r.lent = g.lent /\ r.inited = g.inited
               /\ r.last_run = g.last_run /\ r.in_run = g.in_run /\ r.dangling = g.dangling
BY ZenonT(30) DEF Factory, Inserted, F!Insert

\* JMultifactory::Execute: its own runs and its count of calls.
LEMMA ExecuteEffect ==
    ASSUME NEW m \in Multifactory, NEW run \in RunNumbers, NEW thrown
    PROVE  LET r == F!Execute(m, run, thrown)
           IN  /\ r \in Multifactory
               /\ r.calls = IF thrown = "none" THEN m.calls + 1 ELSE m.calls
               /\ m.inited \/ thrown = "none" => r.inited
               /\ thrown \notin {"ChangeRun", "BeginRun"} =>
                     IF m.last_run = run \/ thrown \in {"Init", "EndRun"}
                     THEN r.last_run = m.last_run /\ r.in_run = m.in_run
                     ELSE r.last_run = run /\ r.in_run = run
<1> DEFINE c == F!ChangeRun(m, run, thrown)
           r == F!Execute(m, run, thrown)
<1>1. \/ c = m
      \/ c = [m EXCEPT !.in_run = NoRun]
      \/ c = [m EXCEPT !.last_run = run, !.in_run = run]
  BY DEF F!ChangeRun
<1>2. thrown \notin {"ChangeRun", "BeginRun"} =>
         c = IF m.last_run = run \/ thrown = "EndRun" THEN m
             ELSE [m EXCEPT !.last_run = run, !.in_run = run]
  BY DEF F!ChangeRun
<1>3. r = IF thrown = "Init" THEN m
          ELSE [c EXCEPT !.status = "Initialized", !.inited = TRUE,
                         !.calls = IF thrown = "none" THEN @ + 1 ELSE @]
  BY DEF F!Execute
<1> HIDE DEF c, r
<1>4. c \in Multifactory /\ c.calls = m.calls /\ c.inited = m.inited
  BY <1>1, ZenonT(30) DEF Multifactory, RunNumbers
<1>5. thrown \notin {"ChangeRun", "BeginRun"} =>
         IF m.last_run = run \/ thrown = "EndRun"
         THEN c.last_run = m.last_run /\ c.in_run = m.in_run
         ELSE c.last_run = run /\ c.in_run = run
  BY <1>2, ZenonT(30) DEF Multifactory
<1>6. CASE thrown = "Init"
  BY <1>3, <1>6 DEF r
<1>7. CASE thrown # "Init"
  <2> DEFINE n == IF thrown = "none" THEN c.calls + 1 ELSE c.calls
  <2>1. r = [c EXCEPT !.status = "Initialized", !.inited = TRUE, !.calls = n] /\ n \in Nat
    BY <1>3, <1>4, <1>7 DEF Multifactory
  <2> HIDE DEF n
  <2>2. /\ r \in Multifactory /\ r.inited /\ r.last_run = c.last_run /\ r.in_run = c.in_run
        /\ r.calls = n
    BY <1>4, <2>1, ZenonT(30) DEF Multifactory
  <2> QED
    BY <1>4, <1>5, <1>7, <2>2 DEF r, n
<1> QED
  BY <1>6, <1>7

-----------------------------------------------------------------------------
(* What the larger actions do to the factories.                            *)

\* One DoNext: the inserted objects stay with the event, or go back to the pool
\* with it.
LEMMA DoNextEffect ==
    ASSUME Shape, NEW answer, NEW ins \in SUBSET Insertable, NEW run \in Runs,
           DoNextOf(answer, ins, run)
    PROVE  /\ event.stage = "sourcing" /\ event'.stage \in {"pooled", "sourcing", "filled", "lost"}
           /\ \A f \in Factories :
                 fac'[f] = IF event'.stage = "pooled" THEN Release(Inserted(fac[f], f, ins), f)
                           ELSE Inserted(fac[f], f, ins)
           /\ multi' = IF event'.stage = "pooled" THEN [multi EXCEPT !.calls = 0] ELSE multi
           /\ proc' = proc
           /\ Shape'
<1> DEFINE i == current_source
           c == Conf[i]
           s == Open(sources[i])
           result == ResultOf(s, c, answer)
           back == result = "FailureTryAgain" \/ (NextSource(result) /\ i = Len(Conf))
<1>1. /\ event.stage = "sourcing" /\ i \in DOMAIN Conf /\ i \in 1 .. Len(Conf)
      /\ c \in [nskip : Nat, nevents : Nat, entries : Nat, legacy : BOOLEAN]
  <2>1. event.stage = "sourcing"
    BY DEF DoNextOf
  <2>2. Len(Conf) \in Nat /\ DOMAIN Conf = 1 .. Len(Conf)
    BY ConfAssumption
  <2>3. i \in 1 .. Len(Conf)
    BY <2>1, <2>2 DEF Shape
  <2> DEFINE R == [nskip : Nat, nevents : Nat, entries : Nat, legacy : BOOLEAN]
  <2>4. Conf \in Seq(R)
    BY ConfAssumption
  <2> HIDE DEF R
  <2>5. Conf[i] \in R
    BY <2>3, <2>4
  <2> QED
    BY <2>1, <2>2, <2>3, <2>5 DEF R
<1>2. s \in Source
  BY <1>1, ZenonT(30) DEF Shape, Source, Open
<1>3. result \in {"Success", "Throw", "FailureTryAgain", "FailureFinished"}
  BY DEF ResultOf
<1>4. /\ SourceAfter(s, c, answer) \in Source
      /\ SourceAfter(s, c, answer).status = "Uninitialized" => sources[i].status = "Uninitialized"
  <2>1. SourceAfter(s, c, answer) \in {s, DoClose(s), [s EXCEPT !.count = @ + 1]}
    BY DEF SourceAfter
  <2>2. s.status = "Uninitialized" => sources[i].status = "Uninitialized"
    BY <1>1 DEF Open, Shape, Source
  <2> HIDE DEF s
  <2>3. DoClose(s) \in Source /\ (DoClose(s).status = "Uninitialized" => s.status = "Uninitialized")
    BY <1>2 DEF DoClose, Source
  <2>4. [s EXCEPT !.count = @ + 1] \in Source /\ [s EXCEPT !.count = @ + 1].status = s.status
    BY <1>2 DEF Source
  <2> QED
    BY <1>2, <2>1, <2>2, <2>3, <2>4, ZenonT(30)
<1>5. /\ sources' = [sources EXCEPT ![i] = SourceAfter(s, c, answer)]
      /\ current_source' = IF NextSource(result) THEN i + 1 ELSE i
      /\ event' = [stage |-> CASE result = "Success" -> "filled"
                               [] result = "Throw"   -> "lost"
                               [] back               -> "pooled"
                               [] OTHER              -> "sourcing",
                   run |-> IF answer = "Success" THEN run ELSE event.run,
                   source |-> IF SetsSource(s, c) THEN i ELSE event.source,
                   entry |-> IF answer = "Success" THEN s.count + 1 ELSE 0]
      /\ fac' = [f \in Factories |-> IF back THEN Release(Inserted(fac[f], f, ins), f)
                                     ELSE Inserted(fac[f], f, ins)]
      /\ multi' = IF back THEN [multi EXCEPT !.calls = 0] ELSE multi
      /\ delivered' = IF result # "Success" THEN delivered
                      ELSE [delivered EXCEPT ![i] = @ \cup {s.count + 1}]
      /\ proc' = proc /\ finished' = finished
  BY DEF DoNextOf
<1> HIDE DEF s, result, c
<1>6. /\ event'.stage = IF result = "Success" THEN "filled" ELSE IF result = "Throw" THEN "lost"
                        ELSE IF back THEN "pooled" ELSE "sourcing"
      /\ event' \in [stage : {"pooled", "sourcing", "filled", "processing", "lost"},
                     run : RunNumbers, source : 0 .. Len(Conf), entry : Nat]
  <2>1. event'.stage = IF result = "Success" THEN "filled" ELSE IF result = "Throw" THEN "lost"
                       ELSE IF back THEN "pooled" ELSE "sourcing"
    BY <1>3, <1>5 DEF NextSource
  <2>2. (IF answer = "Success" THEN run ELSE event.run) \in RunNumbers
    BY DEF Shape, RunNumbers
  <2>3. (IF SetsSource(s, c) THEN i ELSE event.source) \in 0 .. Len(Conf)
    <3>1. i \in 0 .. Len(Conf)
      BY <1>1
    <3> QED
      BY <3>1 DEF Shape
  <2>4. (IF answer = "Success" THEN s.count + 1 ELSE 0) \in Nat
    BY <1>2 DEF Source
  <2>5. /\ event'.stage \in {"pooled", "sourcing", "filled", "processing", "lost"}
        /\ event' = [stage |-> event'.stage,
                     run |-> IF answer = "Success" THEN run ELSE event.run,
                     source |-> IF SetsSource(s, c) THEN i ELSE event.source,
                     entry |-> IF answer = "Success" THEN s.count + 1 ELSE 0]
    BY <1>5, <2>1
  <2> QED
    BY <2>1, <2>2, <2>3, <2>4, <2>5
<1>7. back <=> event'.stage = "pooled"
  BY <1>3, <1>6 DEF NextSource
<1>8. fac' \in [Factories -> Factory]
  <2> SUFFICES ASSUME NEW f \in Factories
               PROVE  /\ Inserted(fac[f], f, ins) \in Factory
                      /\ Release(Inserted(fac[f], f, ins), f) \in Factory
    BY <1>5
  <2>1. Inserted(fac[f], f, ins) \in Factory
    BY InsertedEffect DEF Shape
  <2> QED
    BY <2>1, ReleaseEffect
<1>9. multi' \in Multifactory
  BY <1>5, ZenonT(30) DEF Shape, Multifactory
<1>10. current_source' \in 1 .. Len(Conf) + 1 /\ (event'.stage = "sourcing" => current_source' <= Len(Conf))
  <2>1. Len(Conf) \in Nat
    BY ConfAssumption
  <2>2. CASE result = "FailureFinished"
    BY <1>1, <1>5, <1>6, <2>1, <2>2 DEF NextSource
  <2>3. CASE result # "FailureFinished"
    BY <1>1, <1>5, <2>1, <2>3 DEF NextSource
  <2> QED
    BY <2>2, <2>3
<1>11. delivered' \in [DOMAIN Conf -> SUBSET Nat] /\ sources' \in [DOMAIN Conf -> Source]
  <2>1. s.count + 1 \in Nat
    BY <1>2 DEF Source
  <2>2. delivered' \in [DOMAIN Conf -> SUBSET Nat]
    BY <1>5, <2>1, ZenonT(30) DEF Shape
  <2>3. sources' \in [DOMAIN Conf -> Source]
    BY <1>4, <1>5, ZenonT(30) DEF Shape
  <2> QED
    BY <2>2, <2>3
<1>12. sources'[1].status = "Uninitialized" => proc'.status = "Uninitialized"
  BY <1>4, <1>5, ConfAssumption DEF Shape
<1>13. Shape'
  BY <1>1, <1>5, <1>6, <1>8, <1>9, <1>10, <1>11, <1>12 DEF Shape
<1> QED
  BY <1>1, <1>3, <1>5, <1>6, <1>7, <1>13

\* Get of a factory with an algorithm: what Create made of it, lent to the consumer
\* if nothing was thrown.
LEMMA GetPlainEffect ==
    ASSUME Shape, NEW f \in Plain, NEW t, GetPlain(f, t)
    PROVE  LET made == F!Create(fac[f], "now", event.run, f \in Regenerate, f \in Persistent, t)
               r == fac'[f]
           IN  /\ Consuming /\ f \in Factories
               /\ made \in Factory /\ r \in Factory
               /\ \A k \in Factories \ {f} : fac'[k] = fac[k]
               /\ r.data = made.data /\ r.status = made.status /\ r.calls = made.calls
               /\ r.inited = made.inited /\ r.dangling = made.dangling
               /\ r.last_run = made.last_run /\ r.in_run = made.in_run
               /\ (t # "none" => r = made)
               /\ RunCallbacksReturn => t \notin {"ChangeRun", "BeginRun"}
               /\ UNCHANGED <<sources, current_source, event, multi, proc, delivered, finished>>
               /\ Shape'
<1> DEFINE made == F!Create(fac[f], "now", event.run, f \in Regenerate, f \in Persistent, t)
<1>1. f \in Factories /\ fac[f] \in Factory /\ event.run \in RunNumbers
  BY DEF Factories, Shape
<1>2. made \in Factory
  <2> DEFINE regen == f \in Regenerate
             pers == f \in Persistent
  <2>1. regen \in BOOLEAN /\ pers \in BOOLEAN
    OBVIOUS
  <2> HIDE DEF regen, pers
  <2>2. F!Prepare(fac[f], event.run, regen, pers, t) \in Factory
    BY <1>1, <2>1, PrepareEffect
  <2>3. F!Create(fac[f], "now", event.run, regen, pers, t) \in Factory
    BY <2>2, CreateEffect, ZenonT(30)
  <2> QED
    BY <2>3 DEF regen, pers
<1>3. /\ fac' = [fac EXCEPT ![f] = IF t = "none" THEN Lend(made) ELSE made]
      /\ Consuming
      /\ UNCHANGED <<sources, current_source, event, multi, proc, delivered, finished>>
      /\ t \in {"none"} \cup ThrowPoints
  BY DEF GetPlain, Throws
<1> HIDE DEF made
<1>4. /\ Lend(made) \in Factory
      /\ Lend(made).data = made.data /\ Lend(made).status = made.status
      /\ Lend(made).calls = made.calls /\ Lend(made).inited = made.inited
      /\ Lend(made).dangling = made.dangling /\ Lend(made).last_run = made.last_run
      /\ Lend(made).in_run = made.in_run
  BY <1>2, ZenonT(30) DEF Lend, Factory
<1>5. /\ fac'[f] = IF t = "none" THEN Lend(made) ELSE made
      /\ \A k \in Factories \ {f} : fac'[k] = fac[k]
      /\ fac' \in [Factories -> Factory]
  BY <1>1, <1>2, <1>3, <1>4 DEF Shape
<1>6. Shape'
  BY <1>3, <1>5 DEF Shape
<1>7. RunCallbacksReturn => t \notin {"ChangeRun", "BeginRun"}
  BY <1>3, ZenonT(30) DEF RunCallbacksReturn
<1> QED
  BY <1>1, <1>2, <1>3, <1>4, <1>5, <1>6, <1>7 DEF made

\* What a call on the output h of the multifactory leaves alone, and what it does
\* to the other outputs.
HelperFrame(h, t, o) ==
    /\ Consuming /\ h \in Factories /\ Shape' /\ fac'[h] \in Factory
    /\ \A k \in Factories \ {h} :
          fac'[k] = IF k \in o THEN F!Set(fac[k], "now", k \in Persistent) ELSE fac[k]
    /\ t \in {"none", "ProcessPartway"} \cup ThrowPoints
    /\ t = "ProcessPartway" => t \in ThrowPoints
    /\ event' = event /\ proc' = proc

\* Get of an output of the multifactory: if Process has to run, every output it sets
\* is replaced, and the one asked for is marked; that one is lent if nothing was
\* thrown.
LEMMA GetHelperEffect ==
    ASSUME Shape, NEW h \in Helpers, NEW t, NEW o \in SUBSET Helpers, GetHelper(h, t, o)
    PROVE  LET p == F!Prepare(fac[h], event.run, h \in Regenerate, h \in Persistent, "none")
               executes == p.status = "Unprocessed"
               base == IF h \in o THEN F!Set(p, "now", h \in Persistent) ELSE p
               r == fac'[h]
           IN  /\ HelperFrame(h, t, o)
               /\ Consuming /\ h \in Factories /\ p \in Factory /\ base \in Factory
               /\ Shape'
               /\ \A k \in Factories \ {h} :
                     fac'[k] = IF k \in o THEN F!Set(fac[k], "now", k \in Persistent) ELSE fac[k]
               /\ r.data = base.data /\ r.inited = base.inited /\ r.dangling = base.dangling
               /\ r.last_run = base.last_run /\ r.in_run = base.in_run
               /\ (t # "none" => r = base)
               /\ r.calls = IF executes /\ t = "none" THEN base.calls + 1 ELSE base.calls
               /\ r.status = IF executes /\ t = "none" THEN "Processed" ELSE base.status
               /\ IF executes THEN multi' = F!Execute(multi, event.run, t) /\ o \in OutputsSet(t)
                              ELSE multi' = multi /\ t = "none" /\ o = {}
               /\ t \in {"none", "ProcessPartway"} \cup ThrowPoints
               /\ t = "ProcessPartway" => t \in ThrowPoints
               /\ UNCHANGED <<sources, current_source, event, proc, delivered, finished>>
<1> DEFINE p == F!Prepare(fac[h], event.run, h \in Regenerate, h \in Persistent, "none")
           executes == p.status = "Unprocessed"
           base == IF h \in o THEN F!Set(p, "now", h \in Persistent) ELSE p
           After(k) == IF k \in o
                       THEN F!Set(IF k = h THEN p ELSE fac[k], "now", k \in Persistent)
                       ELSE IF k = h THEN p ELSE fac[k]
<1>1. h \in Factories /\ fac[h] \in Factory /\ event.run \in RunNumbers
  BY DEF Factories, Shape
<1>2. (h \in Regenerate) \in BOOLEAN /\ \A k : (k \in Persistent) \in BOOLEAN
  OBVIOUS
<1>3. p \in Factory
  <2> DEFINE regen == h \in Regenerate
             pers == h \in Persistent
  <2>1. regen \in BOOLEAN /\ pers \in BOOLEAN
    BY <1>2
  <2> HIDE DEF regen, pers
  <2>2. F!Prepare(fac[h], event.run, regen, pers, "none") \in Factory
    BY <1>1, <2>1, PrepareEffect, ZenonT(30)
  <2> QED
    BY <2>2 DEF regen, pers
<1>4. /\ Consuming
      /\ IF executes THEN multi' = F!Execute(multi, event.run, t) /\ o \in OutputsSet(t)
                     ELSE multi' = multi /\ t = "none" /\ o = {}
      /\ t \in {"none"} \cup ThrowPoints
      /\ fac' = [k \in Factories |->
                    IF k # h \/ t # "none" THEN After(k)
                    ELSE Lend(IF executes THEN F!Returned(After(k)) ELSE After(k))]
      /\ UNCHANGED <<sources, current_source, event, proc, delivered, finished>>
  BY ZenonT(30) DEF GetHelper, Throws
<1> HIDE DEF p
<1>5. base \in Factory
  BY <1>2, <1>3, SetEffect
<1>6. ASSUME NEW k \in Factories \ {h}
      PROVE  After(k) = (IF k \in o THEN F!Set(fac[k], "now", k \in Persistent) ELSE fac[k])
             /\ After(k) \in Factory
  <2>1. fac[k] \in Factory
    BY DEF Shape
  <2>2. F!Set(fac[k], "now", k \in Persistent) \in Factory
    BY <1>2, <2>1, SetEffect
  <2> QED
    BY <2>1, <2>2
<1>7. After(h) = base
  OBVIOUS
<1> HIDE DEF After, base
<1> DEFINE q == F!Returned(base)
           n == base.calls + 1
<1>8. /\ q \in Factory /\ q.data = base.data /\ q.inited = base.inited
      /\ q.dangling = base.dangling /\ q.last_run = base.last_run /\ q.in_run = base.in_run
      /\ q.calls = n /\ q.status = "Processed"
  <2>1. q = [base EXCEPT !.status = "Processed", !.calls = n] /\ n \in Nat
    BY <1>5 DEF F!Returned, Factory
  <2> HIDE DEF q, n
  <2> QED
    BY <1>5, <2>1, ZenonT(30) DEF Factory
<1>9. ASSUME NEW g \in Factory
      PROVE  /\ Lend(g) \in Factory /\ Lend(g).data = g.data /\ Lend(g).inited = g.inited
             /\ Lend(g).dangling = g.dangling /\ Lend(g).last_run = g.last_run
             /\ Lend(g).in_run = g.in_run /\ Lend(g).calls = g.calls /\ Lend(g).status = g.status
  BY ZenonT(30) DEF Lend, Factory
<1> HIDE DEF q
<1>10. /\ fac'[h] = IF t # "none" THEN base ELSE Lend(IF executes THEN q ELSE base)
       /\ \A k \in Factories \ {h} : fac'[k] = After(k)
       /\ DOMAIN fac' = Factories /\ fac' = [k \in Factories |-> fac'[k]]
  BY <1>1, <1>4, <1>7 DEF q
<1>11. /\ fac'[h] \in Factory
       /\ fac'[h].data = base.data /\ fac'[h].inited = base.inited
       /\ fac'[h].dangling = base.dangling
       /\ fac'[h].last_run = base.last_run /\ fac'[h].in_run = base.in_run
       /\ t # "none" => fac'[h] = base
       /\ fac'[h].calls = IF executes /\ t = "none" THEN base.calls + 1 ELSE base.calls
       /\ fac'[h].status = IF executes /\ t = "none" THEN "Processed" ELSE base.status
  <2>1. CASE t # "none"
    BY <1>5, <1>10, <2>1
  <2>2. CASE t = "none" /\ executes
    BY <1>8, <1>9, <1>10, <2>2
  <2>3. CASE t = "none" /\ ~executes
    BY <1>5, <1>9, <1>10, <2>3
  <2> QED
    BY <2>1, <2>2, <2>3
<1>12. fac' \in [Factories -> Factory]
  BY <1>6, <1>10, <1>11
<1>13. multi' \in Multifactory
  BY <1>1, <1>4, ExecuteEffect DEF Shape
<1>14. Shape'
  BY <1>4, <1>12, <1>13 DEF Shape
<1>15. HelperFrame(h, t, o)
  BY <1>1, <1>4, <1>6, <1>10, <1>11, <1>14 DEF HelperFrame
<1> QED
  BY <1>1, <1>3, <1>4, <1>5, <1>6, <1>10, <1>11, <1>14, <1>15, ZenonT(30) DEF base, p

\* The part of it that does not name the factory asked for.
LEMMA GetHelperFrame ==
    ASSUME Shape, NEW h \in Helpers, NEW t, NEW o \in SUBSET Helpers, GetHelper(h, t, o)
    PROVE  HelperFrame(h, t, o)
BY GetHelperEffect, ZenonT(30)

\* The same, from the factory before to the factory after.
LEMMA PlainChange ==
    ASSUME Shape, NEW f \in Plain, NEW t, GetPlain(f, t)
    PROVE  LET g == fac[f]
               r == fac'[f]
               cleared == f \in Regenerate /\ f \notin Persistent /\ g.status = "Inserted"
           IN  /\ r.status = "Uninitialized" => g.status = "Uninitialized" /\ r.data = g.data
               /\ r.data \subseteq g.data \cup {"now"}
               /\ t \notin {"ChangeRun", "BeginRun"} /\ g.in_run = g.last_run =>
                     /\ r.in_run = r.last_run
                     /\ r.calls > g.calls \/ g.in_run = event.run => r.in_run = event.run
               /\ g.inited => r.inited
               /\ r.status # "Uninitialized" /\ g.status = "Uninitialized" => r.inited
               /\ \/ r.calls = g.calls
                  \/ r.calls = g.calls + 1 /\ r.status = "Processed" /\ g.status # "Processed"
               /\ g.status = "Processed" => r.status = "Processed"
               /\ g.status = "Inserted" /\ ~cleared => r.status = "Inserted"
               /\ r.status = "Inserted" => g.status = "Inserted"
               /\ t = "none" => r.status = "Processed" \/ (r.status = "Inserted" /\ ~cleared)
               /\ t # "none" => r.lent = g.lent
               /\ ~g.dangling /\ (cleared => ~g.lent) => ~r.dangling
<1> DEFINE g == fac[f]
           r == fac'[f]
           regen == f \in Regenerate
           pers == f \in Persistent
           run == event.run
           p == F!Prepare(g, run, regen, pers, t)
           made == F!Create(g, "now", run, regen, pers, t)
           cleared == regen /\ ~pers /\ g.status = "Inserted"
           runs == p.status = "Unprocessed" /\ t = "none"
<1>1. g \in Factory /\ run \in RunNumbers /\ regen \in BOOLEAN /\ pers \in BOOLEAN
  BY DEF Shape, Factories
<1>2. /\ r \in Factory
      /\ r.data = made.data /\ r.status = made.status /\ r.calls = made.calls
      /\ r.inited = made.inited /\ r.dangling = made.dangling
      /\ r.last_run = made.last_run /\ r.in_run = made.in_run
      /\ (t # "none" => r = made)
  BY GetPlainEffect, ZenonT(60)
<1> HIDE DEF g, r, regen, pers, run, p, made
<1>3. /\ p \in Factory
      /\ p.calls = g.calls
      /\ p.lent = g.lent
      /\ g.inited => p.inited
      /\ g.status = "Uninitialized" /\ p.status # "Uninitialized" => p.inited
      /\ p.data = IF cleared THEN {} ELSE g.data
      /\ cleared /\ ~g.lent /\ ~g.dangling => ~p.dangling
      /\ ~cleared => p.dangling = g.dangling
      /\ p.status = IF g.status = "Uninitialized" /\ t = "Init" THEN "Uninitialized"
                    ELSE IF g.status = "Uninitialized" \/ cleared THEN "Unprocessed"
                    ELSE g.status
      /\ t \notin {"ChangeRun", "BeginRun"} =>
            IF p.status # "Unprocessed" \/ g.last_run = run \/ t = "EndRun"
            THEN p.last_run = g.last_run /\ p.in_run = g.in_run
            ELSE p.last_run = run /\ p.in_run = run
  BY <1>1, PrepareEffect, SMTT(30) DEF p
<1>4. /\ made.lent = p.lent /\ made.inited = p.inited /\ made.dangling = p.dangling
      /\ made.last_run = p.last_run /\ made.in_run = p.in_run
      /\ made.calls = IF runs THEN p.calls + 1 ELSE p.calls
      /\ made.status = IF runs THEN "Processed" ELSE p.status
      /\ made.data = IF runs THEN p.data \cup {"now"} ELSE p.data
  <2>1. F!Prepare(g, run, regen, pers, t) \in Factory
    BY <1>3 DEF p
  <2> QED
    BY <2>1, CreateEffect DEF p, made
<1>5. /\ r.status = "Uninitialized" => g.status = "Uninitialized" /\ r.data = g.data
      /\ r.data \subseteq g.data \cup {"now"}
  BY <1>2, <1>3, <1>4
<1>6. /\ t \notin {"ChangeRun", "BeginRun"} /\ g.in_run = g.last_run =>
            /\ r.in_run = r.last_run
            /\ r.calls > g.calls \/ g.in_run = run => r.in_run = run
      /\ \/ r.calls = g.calls
         \/ r.calls = g.calls + 1 /\ r.status = "Processed" /\ g.status # "Processed"
  BY <1>1, <1>2, <1>3, <1>4 DEF Factory
<1>7. /\ g.inited => r.inited
      /\ r.status # "Uninitialized" /\ g.status = "Uninitialized" => r.inited
      /\ t # "none" => r.lent = g.lent
      /\ ~g.dangling /\ (cleared => ~g.lent) => ~r.dangling
  BY <1>2, <1>3, <1>4
<1>8. /\ g.status = "Processed" => r.status = "Processed"
      /\ g.status = "Inserted" /\ ~cleared => r.status = "Inserted"
      /\ r.status = "Inserted" => g.status = "Inserted"
      /\ t = "none" => r.status = "Processed" \/ (r.status = "Inserted" /\ ~cleared)
  BY <1>1, <1>2, <1>3, <1>4, ZenonT(30) DEF Factory
<1> QED
  BY <1>5, <1>6, <1>7, <1>8 DEF g, r, regen, pers, run

\* The same for an output of the multifactory.
LEMMA HelperChange ==
    ASSUME Shape, NEW h \in Helpers, NEW t, NEW o \in SUBSET Helpers, GetHelper(h, t, o)
    PROVE  LET g == fac[h]
               r == fac'[h]
               cleared == h \in Regenerate /\ h \notin Persistent /\ g.status = "Inserted"
               executes == g.status \in {"Uninitialized", "Unprocessed"} \/ cleared
           IN  /\ r.status # "Uninitialized"
               /\ r.data \subseteq g.data \cup {"now"}
               /\ g.in_run = g.last_run =>
                     /\ r.in_run = r.last_run
                     /\ r.calls > g.calls \/ g.in_run = event.run => r.in_run = event.run
               /\ r.calls = IF executes /\ t = "none" THEN g.calls + 1 ELSE g.calls
               /\ r.status = IF executes /\ t = "none" THEN "Processed" ELSE IF h \in o THEN "Inserted"
                             ELSE IF executes THEN "Unprocessed" ELSE g.status
               /\ ~g.dangling /\ ~cleared /\ (h \in Persistent \/ ~g.lent \/ h \notin o) => ~r.dangling
               /\ t # "none" => r.lent = g.lent
               /\ IF executes THEN multi' = F!Execute(multi, event.run, t) /\ o \in OutputsSet(t)
                              ELSE multi' = multi /\ t = "none" /\ o = {}
<1> DEFINE g == fac[h]
           r == fac'[h]
           regen == h \in Regenerate
           pers == h \in Persistent
           run == event.run
           p == F!Prepare(g, run, regen, pers, "none")
           base == IF h \in o THEN F!Set(p, "now", pers) ELSE p
           cleared == regen /\ ~pers /\ g.status = "Inserted"
           executes == g.status \in {"Uninitialized", "Unprocessed"} \/ cleared
<1>1. g \in Factory /\ run \in RunNumbers /\ regen \in BOOLEAN /\ pers \in BOOLEAN
  BY DEF Shape, Factories
<1>2. /\ base \in Factory
      /\ r.data = base.data /\ r.inited = base.inited /\ r.dangling = base.dangling
      /\ r.last_run = base.last_run /\ r.in_run = base.in_run
      /\ (t # "none" => r = base)
      /\ r.calls = IF p.status = "Unprocessed" /\ t = "none" THEN base.calls + 1 ELSE base.calls
      /\ r.status = IF p.status = "Unprocessed" /\ t = "none" THEN "Processed" ELSE base.status
      /\ IF p.status = "Unprocessed"
         THEN multi' = F!Execute(multi, event.run, t) /\ o \in OutputsSet(t)
         ELSE multi' = multi /\ t = "none" /\ o = {}
  BY GetHelperEffect, ZenonT(30)
<1> HIDE DEF g, r, regen, pers, run, p
<1>3. /\ p \in Factory
      /\ p.calls = g.calls
      /\ p.lent = g.lent
      /\ p.data = IF cleared THEN {} ELSE g.data
      /\ ~cleared => p.dangling = g.dangling
      /\ p.status = IF g.status = "Uninitialized" \/ cleared THEN "Unprocessed" ELSE g.status
      /\ IF p.status # "Unprocessed" \/ g.last_run = run
         THEN p.last_run = g.last_run /\ p.in_run = g.in_run
         ELSE p.last_run = run /\ p.in_run = run
  BY <1>1, PrepareEffect DEF p
<1>4. /\ base.calls = p.calls /\ base.lent = p.lent
      /\ base.last_run = p.last_run /\ base.in_run = p.in_run
      /\ (pers \/ ~p.lent \/ h \notin o) /\ ~p.dangling => ~base.dangling
      /\ base.data = IF h \in o THEN {"now"} ELSE p.data
      /\ base.status = IF h \in o THEN "Inserted" ELSE p.status
  BY <1>1, <1>3, SetEffect, ZenonT(30)
<1> HIDE DEF base
<1>5. p.status = "Unprocessed" <=> executes
  BY <1>1, <1>3 DEF Factory
<1>6. /\ r.status # "Uninitialized" /\ r.data \subseteq g.data \cup {"now"}
      /\ r.status = IF executes /\ t = "none" THEN "Processed" ELSE IF h \in o THEN "Inserted"
                    ELSE IF executes THEN "Unprocessed" ELSE g.status
  BY <1>1, <1>2, <1>3, <1>4, <1>5 DEF Factory
<1>7. /\ g.in_run = g.last_run =>
            /\ r.in_run = r.last_run
            /\ r.calls > g.calls \/ g.in_run = run => r.in_run = run
      /\ r.calls = IF executes /\ t = "none" THEN g.calls + 1 ELSE g.calls
  BY <1>1, <1>2, <1>3, <1>4, <1>5 DEF Factory
<1>8. /\ ~g.dangling /\ ~cleared /\ (pers \/ ~g.lent \/ h \notin o) => ~r.dangling
      /\ t # "none" => r.lent = g.lent
  BY <1>2, <1>3, <1>4
<1> QED
  BY <1>2, <1>5, <1>6, <1>7, <1>8 DEF g, r, regen, pers, run

-----------------------------------------------------------------------------
(* The invariant, part by part.                                            *)

\* Every step keeps the types, and the stage of the event in step with the status
\* of the components.
LEMMA NextShape == Shape /\ [Next]_vars => Shape'
<1> SUFFICES ASSUME Shape, [Next]_vars
             PROVE  Shape'
  OBVIOUS
<1>0. Len(Conf) \in Nat \ {0} /\ DOMAIN Conf = 1 .. Len(Conf)
  BY ConfAssumption
<1>1. CASE Initialize
  <2>1. sources' \in [DOMAIN Conf -> Source] /\ sources'[1].status # "Uninitialized"
    <3>1. \A q \in Source : /\ [q EXCEPT !.status = "Initialized"] \in Source
                            /\ [q EXCEPT !.status = "Initialized"].status = "Initialized"
      BY DEF Source
    <3> QED
      BY <1>0, <1>1, <3>1 DEF Initialize, Shape
  <2> QED
    BY <1>1, <2>1 DEF Initialize, Shape
<1>2. CASE Pull
  BY <1>2, ZenonT(30) DEF Pull, Shape
<1>3. CASE DoNext
  BY <1>3, DoNextEffect DEF DoNext
<1>4. CASE Get
  BY <1>4, GetPlainEffect, GetHelperEffect, ZenonT(30) DEF Get
<1>5. CASE DoReduce
  BY <1>5, ZenonT(30) DEF DoReduce, RunChanged, Shape
<1>6. CASE Lose
  BY <1>6 DEF Lose, Consuming, Shape
<1>7. CASE ReleaseItem
  <2>1. fac' \in [Factories -> Factory]
    BY <1>7, ReleaseEffect DEF ReleaseItem, Shape
  <2>2. multi' \in Multifactory
    BY <1>7 DEF ReleaseItem, Shape, Multifactory
  <2>3. finished' \in [DOMAIN Conf -> SUBSET Nat]
    BY <1>7, ZenonT(30) DEF ReleaseItem, Shape
  <2> QED
    BY <1>7, <2>1, <2>2, <2>3, ZenonT(30) DEF ReleaseItem, Shape
<1>8. CASE Finalize
  <2>1. /\ sources' \in [DOMAIN Conf -> Source]
        /\ sources'[1].status = "Uninitialized" => sources[1].status = "Uninitialized"
    <3>1. \A q \in Source : /\ DoClose(q) \in Source
                            /\ DoClose(q).status = "Uninitialized" => q.status = "Uninitialized"
      BY DEF DoClose, Source
    <3> QED
      BY <1>0, <1>8, <3>1 DEF Finalize, Shape
  <2> QED
    BY <1>8, <2>1, ZenonT(30) DEF Finalize, Shape, RunNumbers
<1>9. CASE Done \/ UNCHANGED vars
  BY <1>9 DEF Done, vars, Shape
<1> QED
  BY <1>1, <1>2, <1>3, <1>4, <1>5, <1>6, <1>7, <1>8, <1>9 DEF Next

\* Every step keeps the objects of earlier events out of the factories.
LEMMA NextDataInv == Shape /\ DataInv /\ [Next]_vars => DataInv'
<1> SUFFICES ASSUME Shape, DataInv, [Next]_vars
             PROVE  DataInv'
  OBVIOUS
<1>0. fac \in [Factories -> Factory]
  BY DEF Shape
<1>1. CASE Initialize \/ Pull \/ DoReduce \/ Lose \/ Finalize \/ Done \/ UNCHANGED vars
  <2>1. fac' = fac /\ (event'.stage = "pooled" => event.stage = "pooled")
    BY <1>1 DEF Initialize, Pull, DoReduce, Lose, Finalize, Done, vars, Shape
  <2> QED
    BY <2>1 DEF DataInv
<1>2. CASE DoNext
  <2> PICK answer \in {"Success", "TryAgain", "Finished", "Throw", "none"},
           ins \in SUBSET Insertable, run \in Runs : DoNextOf(answer, ins, run)
    BY <1>2 DEF DoNext
  <2> SUFFICES ASSUME NEW f \in Factories
               PROVE  /\ fac'[f].status = "Uninitialized" => fac'[f].data = {}
                      /\ f \notin Persistent => fac'[f].data \subseteq {"now"}
                      /\ f \notin Persistent /\ event'.stage = "pooled" => fac'[f].data = {}
    BY DEF DataInv
  <2> DEFINE g == Inserted(fac[f], f, ins)
  <2>1. /\ g \in Factory
        /\ g.status = "Uninitialized" => g.data = {}
        /\ f \notin Persistent => g.data \subseteq {"now"}
    BY <1>0, InsertedEffect, SMTT(30) DEF DataInv
  <2>2. fac'[f] = IF event'.stage = "pooled" THEN Release(g, f) ELSE g
    BY DoNextEffect, ZenonT(30)
  <2> HIDE DEF g
  <2>3. /\ Release(g, f).status = "Uninitialized" => Release(g, f).data = {}
        /\ f \notin Persistent => Release(g, f).data = {}
    BY <2>1, ReleaseEffect
  <2> QED
    BY <2>1, <2>2, <2>3
<1>3. ASSUME NEW f \in Plain, NEW t, GetPlain(f, t)
      PROVE  DataInv'
  <2>1. /\ f \in Factories /\ event.stage # "pooled" /\ event' = event
        /\ \A k \in Factories \ {f} : fac'[k] = fac[k]
    BY <1>3, GetPlainEffect DEF Consuming
  <2>2. /\ fac'[f].status = "Uninitialized" =>
               fac[f].status = "Uninitialized" /\ fac'[f].data = fac[f].data
        /\ fac'[f].data \subseteq fac[f].data \cup {"now"}
    BY <1>3, PlainChange
  <2> QED
    BY <2>1, <2>2 DEF DataInv
<1>4. ASSUME NEW h \in Helpers, NEW t, NEW o \in SUBSET Helpers, GetHelper(h, t, o)
      PROVE  DataInv'
  <2>1. /\ h \in Factories /\ event.stage # "pooled" /\ event' = event
        /\ \A k \in Factories \ {h} :
              fac'[k] = IF k \in o THEN F!Set(fac[k], "now", k \in Persistent) ELSE fac[k]
    BY <1>4, GetHelperFrame DEF HelperFrame, Consuming
  <2>2. fac'[h].status # "Uninitialized" /\ fac'[h].data \subseteq fac[h].data \cup {"now"}
    BY <1>4, HelperChange
  <2>3. \A k \in Factories : LET r == F!Set(fac[k], "now", k \in Persistent)
                             IN  r.status = "Inserted" /\ r.data = {"now"}
    BY <1>0, SetEffect
  <2> QED
    BY <2>1, <2>2, <2>3 DEF DataInv
<1>5. CASE ReleaseItem
  <2>1. \A f \in Factories : fac'[f] = Release(fac[f], f)
    BY <1>5 DEF ReleaseItem
  <2>2. \A f \in Factories : LET r == Release(fac[f], f)
                             IN  /\ r.status = "Uninitialized" => r.data = {}
                                 /\ f \notin Persistent => r.data = {}
    BY <1>0, ReleaseEffect DEF DataInv
  <2> QED
    BY <2>1, <2>2 DEF DataInv
<1> QED
  BY <1>1, <1>2, <1>3, <1>4, <1>5 DEF Next, Get

\* Every step keeps the factories and the processor in the run of the event they
\* work for.
LEMMA NextRunInv == RunCallbacksReturn /\ Shape /\ RunInv /\ [Next]_vars => RunInv'
<1> SUFFICES ASSUME RunCallbacksReturn, Shape, RunInv, [Next]_vars
             PROVE  RunInv'
  OBVIOUS
<1>0. fac \in [Factories -> Factory] /\ Plain \subseteq Factories
  BY DEF Shape, Factories
<1>1. CASE Initialize
  BY <1>1 DEF Initialize, Shape, RunInv
<1>2. CASE Pull
  BY <1>2 DEF Pull, Shape, RunInv
<1>3. CASE DoNext
  <2> PICK answer \in {"Success", "TryAgain", "Finished", "Throw", "none"},
           ins \in SUBSET Insertable, run \in Runs : DoNextOf(answer, ins, run)
    BY <1>3 DEF DoNext
  <2>1. /\ event.stage = "sourcing" /\ event'.stage \in {"pooled", "sourcing", "filled", "lost"}
        /\ multi' = IF event'.stage = "pooled" THEN [multi EXCEPT !.calls = 0] ELSE multi
        /\ proc' = proc
    BY DoNextEffect
  <2>2. ASSUME NEW f \in Factories
        PROVE  /\ fac'[f].calls = 0
               /\ fac'[f].in_run = fac'[f].last_run
               /\ f \in Plain \ Insertable =>
                     (fac'[f].status # "Uninitialized" => fac'[f].inited)
    <3> DEFINE g == Inserted(fac[f], f, ins)
    <3>1. /\ g \in Factory /\ g.calls = 0 /\ g.in_run = g.last_run
          /\ f \in Plain \ Insertable => (g.status # "Uninitialized" => g.inited)
      BY <1>0, <2>1, InsertedEffect DEF RunInv
    <3>2. fac'[f] = IF event'.stage = "pooled" THEN Release(g, f) ELSE g
      BY DoNextEffect, ZenonT(30)
    <3> HIDE DEF g
    <3>3. LET r == Release(g, f)
          IN  /\ r.calls = 0 /\ r.in_run = g.in_run /\ r.last_run = g.last_run
              /\ r.inited = g.inited /\ (r.status # "Uninitialized" => g.status # "Uninitialized")
      BY <3>1, ReleaseEffect
    <3> QED
      BY <3>1, <3>2, <3>3
  <2>3. multi'.calls = 0 /\ multi'.in_run = multi'.last_run
    BY <2>1 DEF RunInv, Shape, Multifactory
  <2> QED
    BY <1>0, <2>1, <2>2, <2>3 DEF RunInv
<1>4. ASSUME NEW f \in Plain, NEW t, GetPlain(f, t)
      PROVE  RunInv'
  <2>1. /\ f \in Factories /\ event.stage \in {"filled", "processing"}
        /\ event' = event /\ multi' = multi /\ proc' = proc
        /\ fac'[f] \in Factory /\ t \notin {"ChangeRun", "BeginRun"}
        /\ \A k \in Factories \ {f} : fac'[k] = fac[k]
    BY <1>4, GetPlainEffect, ZenonT(30) DEF Consuming
  <2>2. LET g == fac[f]
            r == fac'[f]
        IN  /\ r.status = "Uninitialized" => g.status = "Uninitialized"
            /\ g.in_run = g.last_run =>
                  /\ r.in_run = r.last_run
                  /\ r.calls > g.calls \/ g.in_run = event.run => r.in_run = event.run
            /\ g.inited => r.inited
            /\ r.status # "Uninitialized" /\ g.status = "Uninitialized" => r.inited
            /\ r.calls = g.calls \/ (r.calls = g.calls + 1 /\ r.status = "Processed")
    BY <1>4, <2>1, PlainChange
  <2>3. fac'[f].in_run = fac'[f].last_run /\ (fac'[f].calls > 0 => fac'[f].in_run = event.run)
    BY <1>0, <2>1, <2>2, SMTT(30) DEF RunInv, Factory
  <2>4. f \notin Insertable =>
           /\ fac'[f].status # "Uninitialized" => fac'[f].inited
           /\ fac'[f].calls > 0 => fac'[f].inited
    BY <1>0, <2>1, <2>2, ZenonT(30) DEF RunInv, Factory
  <2> QED
    BY <1>0, <2>1, <2>3, <2>4, SMTT(30) DEF RunInv
<1>5. ASSUME NEW h \in Helpers, NEW t, NEW o \in SUBSET Helpers, GetHelper(h, t, o)
      PROVE  RunInv'
  <2>1. /\ h \in Factories /\ event.stage \in {"filled", "processing"}
        /\ event' = event /\ proc' = proc /\ t \notin {"ChangeRun", "BeginRun"}
        /\ \A k \in Factories \ {h} :
              fac'[k] = IF k \in o THEN F!Set(fac[k], "now", k \in Persistent) ELSE fac[k]
        /\ fac'[h] \in Factory
    BY <1>5, GetHelperFrame, ZenonT(30) DEF HelperFrame, Consuming, RunCallbacksReturn
  <2>2. LET g == fac[h]
            r == fac'[h]
        IN  /\ g.in_run = g.last_run =>
                  /\ r.in_run = r.last_run
                  /\ r.calls > g.calls \/ g.in_run = event.run => r.in_run = event.run
            /\ r.calls = g.calls \/ r.calls = g.calls + 1
            /\ multi' = F!Execute(multi, event.run, t) \/ multi' = multi
    BY <1>5, HelperChange
  <2>3. fac'[h].in_run = fac'[h].last_run /\ (fac'[h].calls > 0 => fac'[h].in_run = event.run)
    <3>1. /\ fac[h].in_run = fac[h].last_run /\ fac[h].calls \in Nat
          /\ fac[h].calls > 0 => fac[h].in_run = event.run
      BY <1>0, <2>1, ZenonT(30) DEF RunInv, Factory
    <3>2. fac'[h].in_run = fac'[h].last_run /\ (fac[h].calls > 0 => fac'[h].in_run = event.run)
      BY <2>2, <3>1
    <3>3. fac'[h].calls > fac[h].calls => fac'[h].in_run = event.run
      BY <2>2, <3>1
    <3>4. fac'[h].calls > 0 => fac'[h].calls > fac[h].calls \/ fac[h].calls > 0
      BY <2>2, <3>1
    <3> QED
      BY <3>2, <3>3, <3>4, ZenonT(30)
  <2>4. \A k \in Factories \ {h} :
           /\ fac'[k].calls = fac[k].calls /\ fac'[k].in_run = fac[k].in_run
           /\ fac'[k].last_run = fac[k].last_run
    BY <1>0, <2>1, SetEffect
  <2>5. \A k \in Plain : fac'[k] = fac[k]
    BY <1>0, <2>1, ConfAssumption, ZenonT(30)
  <2>6. multi'.in_run = multi'.last_run /\ (multi'.calls > 0 => multi'.inited /\ multi'.in_run = event.run)
    <3>1. multi \in Multifactory /\ event.run \in RunNumbers
      BY DEF Shape
    <3>2. LET r == F!Execute(multi, event.run, t)
          IN  /\ r.calls = IF t = "none" THEN multi.calls + 1 ELSE multi.calls
              /\ multi.inited \/ t = "none" => r.inited
              /\ IF multi.last_run = event.run \/ t \in {"Init", "EndRun"}
                 THEN r.last_run = multi.last_run /\ r.in_run = multi.in_run
                 ELSE r.last_run = event.run /\ r.in_run = event.run
      BY <2>1, <3>1, ExecuteEffect, SMTT(30)
    <3> QED
      BY <2>2, <3>1, <3>2 DEF RunInv, Multifactory
  <2> QED
    BY <1>0, <2>1, <2>3, <2>4, <2>5, <2>6, SMTT(30) DEF RunInv
<1>6. CASE DoReduce
  <2>1. /\ event.stage = "filled" /\ event'.stage = "processing" /\ event'.run = event.run
        /\ fac' = fac /\ multi' = multi /\ proc' = RunChanged(event.run)
    BY <1>6 DEF DoReduce, Shape
  <2>2. proc'.status = proc.status /\ proc.status = "Initialized"
        /\ proc'.in_run = proc'.last_run /\ proc'.in_run = event.run
    BY <2>1 DEF RunChanged, Shape, RunInv
  <2> QED
    BY <2>1, <2>2 DEF RunInv
<1>7. CASE Lose
  BY <1>7 DEF Lose, Consuming, Shape, RunInv
<1>8. CASE ReleaseItem
  <2>1. /\ \A f \in Factories : fac'[f] = Release(fac[f], f)
        /\ multi' = [multi EXCEPT !.calls = 0] /\ proc' = proc
        /\ event.stage = "processing" /\ event'.stage = "pooled"
    BY <1>8, ZenonT(30) DEF ReleaseItem, Shape
  <2>2. \A f \in Factories :
           LET r == Release(fac[f], f)
           IN  /\ r.calls = 0 /\ r.in_run = fac[f].in_run /\ r.last_run = fac[f].last_run
               /\ r.inited = fac[f].inited
               /\ (r.status # "Uninitialized" => fac[f].status # "Uninitialized")
    BY <1>0, ReleaseEffect, ZenonT(30)
  <2>3. multi'.calls = 0 /\ multi'.in_run = multi'.last_run
    BY <2>1 DEF RunInv, Shape, Multifactory
  <2> QED
    BY <1>0, <2>1, <2>2, <2>3 DEF RunInv
<1>9. CASE Finalize
  BY <1>9 DEF Finalize, Shape, RunInv
<1>10. CASE Done \/ UNCHANGED vars
  BY <1>10 DEF Done, vars, RunInv
<1> QED
  BY <1>1, <1>2, <1>3, <1>4, <1>5, <1>6, <1>7, <1>8, <1>9, <1>10 DEF Next, Get

\* Every step keeps what was computed for the event, and what was lent of it.
LEMMA NextOnceInv == OutputsAreSet /\ Shape /\ OnceInv /\ [Next]_vars => OnceInv'
<1> SUFFICES ASSUME OutputsAreSet, Shape, OnceInv, [Next]_vars
             PROVE  OnceInv'
  OBVIOUS
<1>0. /\ fac \in [Factories -> Factory] /\ Plain \subseteq Factories /\ Helpers \subseteq Factories
      /\ Plain \cap Helpers = {}
  BY ConfAssumption DEF Shape, Factories
<1>1. CASE Initialize \/ Pull \/ DoReduce \/ Lose \/ Finalize \/ Done \/ UNCHANGED vars
  <2>1. /\ fac' = fac /\ multi' = multi
        /\ event'.stage \in {"pooled", "sourcing"} => event.stage \in {"pooled", "sourcing"}
    BY <1>1, ZenonT(30) DEF Initialize, Pull, DoReduce, Lose, Finalize, Done, vars, Shape
  <2> QED
    BY <2>1 DEF OnceInv
<1>2. CASE DoNext
  <2> PICK answer \in {"Success", "TryAgain", "Finished", "Throw", "none"},
           ins \in SUBSET Insertable, run \in Runs : DoNextOf(answer, ins, run)
    BY <1>2 DEF DoNext
  <2>1. /\ event.stage = "sourcing" /\ multi.calls = 0
        /\ multi' = IF event'.stage = "pooled" THEN [multi EXCEPT !.calls = 0] ELSE multi
    BY DoNextEffect DEF OnceInv
  <2>2. multi'.calls = 0
    BY <2>1 DEF Shape, Multifactory
  <2>3. ASSUME NEW f \in Factories
        PROVE  /\ fac'[f].calls = 0 /\ ~fac'[f].lent /\ ~fac'[f].dangling
               /\ f \in Helpers \ Persistent => fac'[f].status \in {"Uninitialized", "Unprocessed"}
    <3> DEFINE g == Inserted(fac[f], f, ins)
    <3>1. /\ g \in Factory /\ g.calls = 0 /\ ~g.lent /\ ~g.dangling
          /\ f \in Helpers \ Persistent => g.status \in {"Uninitialized", "Unprocessed"}
      BY <1>0, <2>1, InsertedEffect DEF OnceInv, OutputsAreSet
    <3>2. fac'[f] = IF event'.stage = "pooled" THEN Release(g, f) ELSE g
      BY DoNextEffect, ZenonT(30)
    <3> HIDE DEF g
    <3>3. LET r == Release(g, f)
          IN  /\ r.calls = 0 /\ ~r.lent /\ ~r.dangling
              /\ f \in Helpers \ Persistent => r.status \in {"Uninitialized", "Unprocessed"}
      BY <3>1, ReleaseEffect, ZenonT(30)
    <3> QED
      BY <3>1, <3>2, <3>3
  <2> QED
    BY <1>0, <2>2, <2>3, SMTT(30) DEF OnceInv
<1>3. ASSUME NEW f \in Plain, NEW t, GetPlain(f, t)
      PROVE  OnceInv'
  <2>1. /\ f \in Factories /\ event.stage \in {"filled", "processing"}
        /\ event' = event /\ multi' = multi
        /\ \A k \in Factories \ {f} : fac'[k] = fac[k]
    BY <1>3, GetPlainEffect, ZenonT(30) DEF Consuming
  <2> DEFINE g == fac[f]
             r == fac'[f]
             cleared == f \in Regenerate /\ f \notin Persistent /\ g.status = "Inserted"
  <2>2. /\ \/ r.calls = g.calls
           \/ r.calls = g.calls + 1 /\ r.status = "Processed" /\ g.status # "Processed"
        /\ g.status = "Processed" => r.status = "Processed"
        /\ g.status = "Inserted" /\ ~cleared => r.status = "Inserted"
        /\ r.status = "Inserted" => g.status = "Inserted"
        /\ t = "none" => r.status = "Processed" \/ (r.status = "Inserted" /\ ~cleared)
        /\ t # "none" => r.lent = g.lent
        /\ ~g.dangling /\ (cleared => ~g.lent) => ~r.dangling
    BY <1>3, PlainChange, ZenonT(30)
  <2>3. /\ g \in Factory /\ g.calls <= 1 /\ ~g.dangling
        /\ g.calls = 1 => g.status = "Processed"
        /\ f \notin Persistent /\ g.lent =>
              g.status = "Processed" \/ (f \notin Regenerate /\ g.status = "Inserted")
    BY <1>0 DEF OnceInv
  <2> HIDE DEF g, r
  <2>5. r.calls <= 1 /\ (r.calls = 1 => r.status = "Processed")
    BY <2>2, <2>3 DEF Factory
  <2>6. ~r.dangling
    BY <2>2, <2>3
  <2>7. f \notin Persistent /\ r.lent =>
           r.status = "Processed" \/ (f \notin Regenerate /\ r.status = "Inserted")
    BY <2>2, <2>3, ZenonT(30)
  <2> QED
    BY <1>0, <2>1, <2>5, <2>6, <2>7, ZenonT(30) DEF OnceInv, r

<1>4. ASSUME NEW h \in Helpers, NEW t, NEW o \in SUBSET Helpers, GetHelper(h, t, o)
      PROVE  OnceInv'
  <2> DEFINE g == fac[h]
             r == fac'[h]
             executes == g.status \in {"Uninitialized", "Unprocessed"}
             cleared == h \in Regenerate /\ h \notin Persistent /\ g.status = "Inserted"
  <2>1. /\ h \in Factories /\ event.stage \in {"filled", "processing"} /\ event' = event
        /\ \A k \in Factories \ {h} :
              fac'[k] = IF k \in o THEN F!Set(fac[k], "now", k \in Persistent) ELSE fac[k]
        /\ t # "ProcessPartway"
    BY <1>4, GetHelperFrame DEF HelperFrame, Consuming, OutputsAreSet
  <2>2. ~cleared
    BY DEF OutputsAreSet
  <2>3. /\ r.calls = IF executes /\ t = "none" THEN g.calls + 1 ELSE g.calls
        /\ r.status = IF executes /\ t = "none" THEN "Processed" ELSE IF h \in o THEN "Inserted"
                      ELSE IF executes THEN "Unprocessed" ELSE g.status
        /\ ~g.dangling /\ (h \in Persistent \/ ~g.lent \/ h \notin o) => ~r.dangling
        /\ t # "none" => r.lent = g.lent
        /\ IF executes THEN multi' = F!Execute(multi, event.run, t) /\ o \in OutputsSet(t)
                       ELSE multi' = multi /\ t = "none" /\ o = {}
    BY <1>4, <2>2, HelperChange, ZenonT(60)
  <2>4. g \in Factory /\ multi \in Multifactory /\ event.run \in RunNumbers
    BY <1>0, ZenonT(30) DEF Shape
  <2>5. ASSUME NEW k \in Factories \ {h}, k \in o
        PROVE  LET s == F!Set(fac[k], "now", k \in Persistent)
               IN  /\ fac'[k] = s /\ s.calls = fac[k].calls /\ s.lent = fac[k].lent
                   /\ s.status = "Inserted"
                   /\ (k \in Persistent \/ ~fac[k].lent) /\ ~fac[k].dangling => ~s.dangling
    <3> DEFINE pers == k \in Persistent
               s == F!Set(fac[k], "now", pers)
    <3>1. fac'[k] = s /\ fac[k] \in Factory /\ pers \in BOOLEAN
      BY <1>0, <2>1, <2>5
    <3> HIDE DEF pers
    <3>2. /\ s.calls = fac[k].calls /\ s.lent = fac[k].lent /\ s.status = "Inserted"
          /\ (pers \/ ~fac[k].lent) /\ ~fac[k].dangling => ~s.dangling
      BY <3>1, SetEffect, ZenonT(30)
    <3> QED
      BY <3>1, <3>2 DEF pers
  <2>6. CASE ~executes
    <3>1. multi' = multi /\ o = {} /\ r.calls = g.calls /\ r.status = g.status /\ ~r.dangling
      BY <2>1, <2>3, <2>6 DEF OnceInv
    <3>2. multi.calls = 0 => h \in Persistent
      BY <2>6 DEF OnceInv
    <3>3. \A k \in Factories \ {h} : fac'[k] = fac[k]
      BY <2>1, <3>1
    <3> HIDE DEF g, r
    <3> QED
      BY <1>0, <2>1, <3>1, <3>2, <3>3, SMTT(30) DEF OnceInv, g, r
  <2>7. CASE executes
    <3>1. multi.calls = 0 /\ multi' = F!Execute(multi, event.run, t) /\ o \in OutputsSet(t)
      BY <2>3, <2>4, <2>7, SMTT(30) DEF OnceInv, Multifactory
    <3>2. \A k \in Helpers : fac[k].calls = 0 /\ (k \notin Persistent => ~fac[k].lent)
      BY <3>1 DEF OnceInv
    <3>3. multi'.calls = IF t = "none" THEN 1 ELSE 0
      BY <2>4, <3>1, ExecuteEffect
    <3>4. o = IF t = "none" THEN Helpers ELSE {}
      BY <2>1, <3>1 DEF OutputsSet, OutputsAreSet
    <3>5. ASSUME NEW k \in Factories \ {h}
          PROVE  /\ fac'[k].calls = fac[k].calls /\ fac'[k].lent = fac[k].lent
                 /\ ~fac'[k].dangling
                 /\ k \in Helpers /\ t = "none" => fac'[k].status = "Inserted"
                 /\ k \notin Helpers \/ t # "none" => fac'[k] = fac[k]
      <4>1. CASE k \in o
        <5>1. k \in Helpers /\ t = "none" /\ ~fac[k].dangling
              /\ (k \in Persistent \/ ~fac[k].lent)
          BY <3>2, <3>4, <4>1, ZenonT(30) DEF OnceInv
        <5> QED
          BY <2>5, <4>1, <5>1
      <4>2. CASE k \notin o
        BY <2>1, <3>4, <4>2, ZenonT(30) DEF OnceInv
      <4> QED
        BY <4>1, <4>2, ZenonT(30)
    <3>6. /\ r.calls = IF t = "none" THEN 1 ELSE 0
          /\ r.status = IF t = "none" THEN "Processed" ELSE "Unprocessed"
          /\ ~r.dangling /\ (t # "none" => r.lent = g.lent)
      BY <1>0, <2>3, <2>7, <3>2, <3>4, SMTT(30) DEF OnceInv
    <3> HIDE DEF r, g
    <3>7. CASE t = "none"
      <4>1. /\ multi'.calls = 1
            /\ \A k \in Helpers : fac'[k].status \in {"Inserted", "Processed"} /\ fac'[k].calls <= 1
        BY <1>0, <3>2, <3>3, <3>5, <3>6, <3>7 DEF r
      <4>2. \A k \in Plain : fac'[k] = fac[k]
        BY <1>0, <3>5
      <4>3. \A k \in Factories : ~fac'[k].dangling
        BY <3>5, <3>6, ZenonT(30) DEF r
      <4>4. multi'.calls <= 1 /\ multi'.calls # 0
        BY <4>1
      <4>5. event'.stage \notin {"pooled", "sourcing"}
        BY <2>1
      <4>6. \A k \in Plain : /\ fac'[k].calls <= 1
                             /\ fac'[k].calls = 1 => fac'[k].status = "Processed"
        BY <1>0, <4>2 DEF OnceInv
      <4>7. \A k \in Plain \ Persistent :
               fac'[k].lent => fac'[k].status = "Processed"
                               \/ (k \notin Regenerate /\ fac'[k].status = "Inserted")
        BY <4>2, ZenonT(30) DEF OnceInv
      <4>8. \A k \in Factories : fac'[k].calls <= 1 /\ ~fac'[k].dangling
        BY <4>1, <4>3, <4>6, ZenonT(30) DEF Factories
      <4> QED
        BY <4>1, <4>4, <4>5, <4>6, <4>7, <4>8, ZenonT(30) DEF OnceInv
    <3>8. CASE t # "none"
      <4>1. multi'.calls = 0 /\ \A k \in Factories \ {h} : fac'[k] = fac[k]
        BY <3>3, <3>5, <3>8
      <4>2. /\ r.calls = 0 /\ r.status = "Unprocessed" /\ ~r.dangling
            /\ h \notin Persistent => ~r.lent
        BY <3>2, <3>6, <3>8, ZenonT(30) DEF g
      <4> QED
        BY <1>0, <2>1, <3>1, <4>1, <4>2, SMTT(30) DEF OnceInv, r
    <3> QED
      BY <3>7, <3>8, ZenonT(30)
  <2> QED
    BY <2>6, <2>7
<1>5. CASE ReleaseItem
  <2>1. /\ \A f \in Factories : fac'[f] = Release(fac[f], f)
        /\ multi' = [multi EXCEPT !.calls = 0]
    BY <1>5 DEF ReleaseItem
  <2>2. multi'.calls = 0
    BY <2>1 DEF Shape, Multifactory
  <2>3. ASSUME NEW f \in Factories
        PROVE  /\ fac'[f].calls = 0 /\ ~fac'[f].lent /\ ~fac'[f].dangling
               /\ f \in Helpers \ Persistent => fac'[f].status \in {"Uninitialized", "Unprocessed"}
    <3>1. fac[f] \in Factory /\ ~fac[f].dangling
      BY <1>0 DEF OnceInv
    <3>2. LET r == Release(fac[f], f)
          IN  /\ r.calls = 0 /\ ~r.lent /\ ~r.dangling
              /\ f \in Helpers \ Persistent => r.status \in {"Uninitialized", "Unprocessed"}
      BY <3>1, ReleaseEffect
    <3> QED
      BY <2>1, <3>2
  <2> QED
    BY <1>0, <2>2, <2>3, SMTT(30) DEF OnceInv
<1> QED
  BY <1>1, <1>2, <1>3, <1>4, <1>5 DEF Next, Get

\* Reading one more entry adds it to the selected part of what has been read, if it
\* is selected.
LEMMA SelectedNext ==
    ASSUME NEW c \in [nskip : Nat, nevents : Nat, entries : Nat, legacy : BOOLEAN],
           NEW k \in Nat, k < c.entries, c.nevents # 0 => k < c.nskip + c.nevents
    PROVE  /\ ~(k < c.nskip) =>
                 Selected(c) \cap 1 .. k + 1 = (Selected(c) \cap 1 .. k) \cup {k + 1}
           /\ k < c.nskip => Selected(c) \cap 1 .. k + 1 = Selected(c) \cap 1 .. k
<1>1. c.nskip \in Nat /\ c.nevents \in Nat /\ c.entries \in Nat
  OBVIOUS
<1>2. 1 .. k + 1 = (1 .. k) \cup {k + 1}
  OBVIOUS
<1>3. k + 1 \in Selected(c) <=> ~(k < c.nskip)
  BY <1>1 DEF Selected
<1> QED
  BY <1>2, <1>3

\* A source that is exhausted has read every selected entry.
LEMMA ExhaustedSelected ==
    ASSUME NEW c \in [nskip : Nat, nevents : Nat, entries : Nat, legacy : BOOLEAN],
           NEW k \in Nat, k = c.entries \/ (c.nevents # 0 /\ k = c.nevents + c.nskip)
    PROVE  Selected(c) \cap 1 .. k = Selected(c)
<1>1. c.nskip \in Nat /\ c.nevents \in Nat /\ c.entries \in Nat
  OBVIOUS
<1>2. \A n \in Selected(c) : n \in 1 .. k
  BY <1>1 DEF Selected
<1> QED
  BY <1>2

\* What a call of DoNext() means for the source: it delivers the entry it read, or
\* skips it, or moves on because it is exhausted, or leaves its count.
LEMMA SourceStep ==
    ASSUME Shape, SourceInv, NEW answer, NEW ins \in SUBSET Insertable, NEW run \in Runs,
           DoNextOf(answer, ins, run)
    PROVE  LET i == current_source
               k == sources[i].count
               n == sources'[i].count
           IN  /\ i \in DOMAIN Conf
               /\ \A j \in DOMAIN Conf \ {i} : sources'[j] = sources[j] /\ delivered'[j] = delivered[j]
               /\ finished' = finished /\ proc' = proc
               /\ \/ /\ event'.stage = "filled" /\ event'.source = i /\ event'.entry = k + 1
                     /\ n = k + 1 /\ k < Conf[i].entries /\ ~AtLimit(sources[i], Conf[i])
                     /\ ~(k < Conf[i].nskip) /\ sources'[i].status # "Closed"
                     /\ delivered'[i] = delivered[i] \cup {k + 1} /\ current_source' = i
                  \/ /\ event'.stage \notin {"filled", "processing"}
                     /\ n = k + 1 /\ k < Conf[i].entries /\ ~AtLimit(sources[i], Conf[i])
                     /\ k < Conf[i].nskip /\ sources'[i].status # "Closed"
                     /\ delivered'[i] = delivered[i] /\ current_source' = i
                  \/ /\ event'.stage \notin {"filled", "processing"}
                     /\ n = k /\ delivered'[i] = delivered[i]
                     /\ \/ current_source' = i /\ sources'[i].status # "Closed"
                        \/ current_source' = i + 1 /\ Exhausted(i)
<1> DEFINE i == current_source
           c == Conf[i]
           q == sources[i]
           s == Open(q)
           k == q.count
           result == ResultOf(s, c, answer)
           after == SourceAfter(s, c, answer)
<1>1. /\ i \in DOMAIN Conf /\ c \in [nskip : Nat, nevents : Nat, entries : Nat, legacy : BOOLEAN]
      /\ q \in Source /\ proc.status = "Initialized"
  <2>1. event.stage = "sourcing"
    BY DEF DoNextOf
  <2>2. Len(Conf) \in Nat /\ DOMAIN Conf = 1 .. Len(Conf)
    BY ConfAssumption
  <2>3. i \in DOMAIN Conf
    BY <2>1, <2>2 DEF Shape
  <2> DEFINE R == [nskip : Nat, nevents : Nat, entries : Nat, legacy : BOOLEAN]
  <2>4. Conf \in Seq(R)
    BY ConfAssumption
  <2> HIDE DEF R
  <2>5. Conf[i] \in R
    BY <2>2, <2>3, <2>4
  <2> QED
    BY <2>1, <2>3, <2>5, ZenonT(30) DEF R, Shape
<1>2. /\ answer \in IF Asks(s, c) THEN Answers(s, c) ELSE {"none"}
      /\ sources' = [sources EXCEPT ![i] = after]
      /\ current_source' = IF NextSource(result) THEN i + 1 ELSE i
      /\ event'.source = IF SetsSource(s, c) THEN i ELSE event.source
      /\ event'.entry = IF answer = "Success" THEN s.count + 1 ELSE 0
      /\ delivered' = IF result # "Success" THEN delivered
                      ELSE [delivered EXCEPT ![i] = @ \cup {s.count + 1}]
      /\ proc' = proc /\ finished' = finished
  BY DEF DoNextOf
<1>3. /\ result = "Success" => event'.stage = "filled"
      /\ result # "Success" => event'.stage \notin {"filled", "processing"}
  BY DEF DoNextOf, NextSource, ResultOf
<1>4. /\ s \in Source /\ s.count = k
      /\ s.status = "Closed" => q.status = "Closed"
  BY <1>1, ZenonT(30) DEF Open, Source
<1>5. /\ \A j \in DOMAIN Conf \ {i} : sources'[j] = sources[j] /\ delivered'[j] = delivered[j]
      /\ sources'[i] = after
      /\ delivered'[i] = IF result # "Success" THEN delivered[i] ELSE delivered[i] \cup {s.count + 1}
  BY <1>1, <1>2, ZenonT(30) DEF Shape
<1>6. Asks(s, c) => s.status = "Opened" /\ ~AtLimit(s, c)
  BY DEF Asks
<1>7. AtLimit(s, c) <=> AtLimit(q, c)
  BY <1>4 DEF AtLimit
<1>8. \A x \in Source : [x EXCEPT !.count = @ + 1].count = x.count + 1
                        /\ [x EXCEPT !.count = @ + 1].status = x.status
                        /\ DoClose(x).count = x.count
  BY ZenonT(30) DEF Source, DoClose
<1> HIDE DEF c, q, s, k, result, after
<1>9. CASE result = "Success"
  <2>1. answer = "Success"
    BY <1>9 DEF result, ResultOf
  <2>2. Asks(s, c) /\ answer \in Answers(s, c)
    BY <1>2, <2>1
  <2>3. s.status = "Opened" /\ ~AtLimit(s, c) /\ s.count < c.entries
    BY <1>6, <2>1, <2>2 DEF Answers
  <2>4. ~Skips(s, c)
    BY <1>9, <2>1, <2>3 DEF result, ResultOf
  <2>5. after = [s EXCEPT !.count = @ + 1]
    BY <2>1, <2>3 DEF after, SourceAfter
  <2>6. SetsSource(s, c) /\ ~NextSource(result)
    BY <1>9, <2>2, <2>4 DEF SetsSource, NextSource
  <2>7. after.count = k + 1 /\ after.status # "Closed"
    BY <1>4, <1>8, <2>3, <2>5
  <2>8. ~(k < c.nskip) /\ k < c.entries /\ ~AtLimit(q, c)
    BY <1>4, <1>7, <2>3, <2>4, ZenonT(30) DEF Skips
  <2> QED
    BY <1>1, <1>2, <1>3, <1>4, <1>5, <1>9, <2>1, <2>6, <2>7, <2>8, ZenonT(30) DEF c, q, k
<1>10. CASE result # "Success" /\ answer = "Success"
  <2>2. Asks(s, c) /\ answer \in Answers(s, c)
    BY <1>2, <1>10
  <2>3. s.status = "Opened" /\ ~AtLimit(s, c) /\ s.count < c.entries
    BY <1>6, <1>10, <2>2 DEF Answers
  <2>4. Skips(s, c) /\ result = "FailureTryAgain"
    BY <1>10, <2>3 DEF result, ResultOf
  <2>5. after = [s EXCEPT !.count = @ + 1]
    BY <1>10, <2>3 DEF after, SourceAfter
  <2>7. after.count = k + 1 /\ after.status # "Closed"
    BY <1>4, <1>8, <2>3, <2>5
  <2>8. k < c.nskip /\ k < c.entries /\ ~AtLimit(q, c)
    BY <1>4, <1>7, <2>3, <2>4, ZenonT(30) DEF Skips
  <2> QED
    BY <1>1, <1>2, <1>3, <1>5, <1>10, <2>4, <2>7, <2>8, ZenonT(30) DEF c, q, k, NextSource
<1>11. CASE result # "Success" /\ answer # "Success"
  <2>1. after \in {s, DoClose(s)}
    BY <1>11 DEF after, SourceAfter
  <2>2. after.count = k
    BY <1>4, <1>8, <2>1, ZenonT(30)
  <2>3. CASE result = "FailureFinished"
    <3>1. s.status = "Closed" \/ AtLimit(s, c) \/ answer = "Finished"
      BY <2>3, ZenonT(30) DEF result, ResultOf
    <3>2. s.status = "Closed" => Exhausted(i)
      BY <1>1, <1>4, ZenonT(30) DEF SourceInv, q
    <3>3. AtLimit(s, c) => Exhausted(i)
      BY <1>7 DEF Exhausted, q, c
    <3>4. answer = "Finished" => Exhausted(i)
      <4>1. answer = "Finished" => ~(s.count < c.entries)
        BY <1>2 DEF Answers
      <4>2. k <= c.entries
        BY <1>1 DEF SourceInv, k, q, c
      <4>3. k \in Nat /\ c.entries \in Nat
        BY <1>1, <1>4, ZenonT(30) DEF Source
      <4> QED
        BY <1>4, <4>1, <4>2, <4>3 DEF Exhausted, k, q, c
    <3> QED
      BY <1>1, <1>2, <1>3, <1>5, <1>11, <2>2, <2>3, <3>1, <3>2, <3>3, <3>4, ZenonT(30) DEF NextSource, k, q
  <2>4. CASE result # "FailureFinished"
    <3>1. ~(s.status = "Closed" \/ AtLimit(s, c) \/ answer = "Finished")
      <4>1. answer \in {"Throw", "TryAgain", "none", "Finished"}
        BY <1>2, <1>11 DEF Answers
      <4>2. answer = "Throw" => Asks(s, c)
        BY <1>2
      <4> QED
        BY <1>6, <1>11, <2>4, <4>1, <4>2 DEF result, ResultOf
    <3>2. after = s /\ after.status # "Closed"
      BY <1>11, <3>1 DEF after, SourceAfter
    <3> QED
      BY <1>1, <1>2, <1>3, <1>5, <1>11, <2>2, <2>4, <3>2, ZenonT(30) DEF NextSource, k, q
  <2> QED
    BY <2>3, <2>4, ZenonT(30)
<1> QED
  BY <1>9, <1>10, <1>11, ZenonT(30)

\* The configuration of each source.
LEMMA ConfOf ==
    /\ Len(Conf) \in Nat /\ DOMAIN Conf = 1 .. Len(Conf) /\ 1 \in DOMAIN Conf
    /\ \A i \in DOMAIN Conf :
          Conf[i] \in [nskip : Nat, nevents : Nat, entries : Nat, legacy : BOOLEAN]
<1> DEFINE R == [nskip : Nat, nevents : Nat, entries : Nat, legacy : BOOLEAN]
<1>1. Conf \in Seq(R) /\ Len(Conf) > 0
  BY ConfAssumption
<1> HIDE DEF R
<1>2. Len(Conf) \in Nat /\ DOMAIN Conf = 1 .. Len(Conf) /\ 1 \in DOMAIN Conf
  BY <1>1
<1>3. \A i \in DOMAIN Conf : Conf[i] \in R
  BY <1>1, <1>2
<1> QED
  BY <1>2, <1>3 DEF R

\* What SourceInv says of source i alone.
OneSource(i) ==
    /\ sources[i].count <= Conf[i].entries
    /\ Conf[i].nevents # 0 => sources[i].count <= Conf[i].nevents + Conf[i].nskip
    /\ current_source > i => Exhausted(i)
    /\ sources[i].status = "Closed" /\ proc.status # "Finalized" => Exhausted(i)
    /\ current_source < i => sources[i].count = 0
    /\ delivered[i] = Selected(Conf[i]) \cap 1 .. sources[i].count

\* SourceInv is kept: DoNext() reads one entry at most and delivers it if it is
\* selected, and ReleaseItem finishes the one entry that has been delivered since.
LEMMA NextSourceInv == Shape /\ SourceInv /\ [Next]_vars => SourceInv'
<1> SUFFICES ASSUME Shape, SourceInv, [Next]_vars
             PROVE  SourceInv'
  OBVIOUS
<1>0. /\ \A i \in DOMAIN Conf : OneSource(i)
      /\ event.stage \in {"pooled", "sourcing"} => finished = delivered
      /\ Consuming => /\ event.source \in DOMAIN Conf
                      /\ delivered = [finished EXCEPT ![event.source] = @ \cup {event.entry}]
  BY ZenonT(30) DEF SourceInv, OneSource
<1>1. ASSUME \A i \in DOMAIN Conf : OneSource(i)',
             event'.stage \in {"pooled", "sourcing"} => finished' = delivered',
             Consuming' => /\ event'.source \in DOMAIN Conf
                           /\ delivered' = [finished' EXCEPT ![event'.source] = @ \cup {event'.entry}]
      PROVE  SourceInv'
  BY <1>1, ZenonT(30) DEF SourceInv, OneSource
<1>2. ASSUME current_source' = current_source, delivered' = delivered,
             \A i \in DOMAIN Conf :
                /\ sources'[i].count = sources[i].count
                /\ sources'[i].status = "Closed" /\ proc'.status # "Finalized" =>
                      sources[i].status = "Closed" /\ proc.status # "Finalized"
      PROVE  \A i \in DOMAIN Conf : OneSource(i)'
  <2> SUFFICES ASSUME NEW i \in DOMAIN Conf
               PROVE  OneSource(i)'
    OBVIOUS
  <2>1. sources'[i].count = sources[i].count
    BY <1>2
  <2>2. Exhausted(i)' <=> Exhausted(i)
    BY <2>1 DEF Exhausted, AtLimit
  <2> QED
    BY <1>0, <1>2, <2>1, <2>2 DEF OneSource
<1>3. CASE Initialize
  <2>1. /\ current_source' = current_source /\ delivered' = delivered /\ finished' = finished
        /\ event' = event
        /\ sources' = [i \in DOMAIN Conf |-> [sources[i] EXCEPT !.status = "Initialized"]]
    BY <1>3 DEF Initialize
  <2>2. \A x \in Source : LET y == [x EXCEPT !.status = "Initialized"]
                          IN  y.count = x.count /\ y.status # "Closed"
    BY DEF Source
  <2>3. \A i \in DOMAIN Conf : sources'[i].count = sources[i].count /\ sources'[i].status # "Closed"
    BY <2>1, <2>2, ZenonT(30) DEF Shape
  <2>4. \A i \in DOMAIN Conf : OneSource(i)'
    BY <1>2, <2>1, <2>3
  <2> QED
    BY <1>0, <1>1, <2>1, <2>4 DEF Consuming
<1>4. CASE Pull
  <2>1. /\ current_source' = current_source /\ delivered' = delivered /\ finished' = finished
        /\ sources' = sources /\ proc' = proc
        /\ event.stage = "pooled" /\ event' = [event EXCEPT !.stage = "sourcing"]
    BY <1>4 DEF Pull
  <2>2. event'.stage = "sourcing"
    BY <2>1 DEF Shape
  <2>3. \A i \in DOMAIN Conf : OneSource(i)'
    BY <1>2, <2>1
  <2> QED
    BY <1>0, <1>1, <2>1, <2>2, <2>3 DEF Consuming
<1>5. CASE DoNext
  <2>0. event.stage = "sourcing"
    BY <1>5 DEF DoNext, DoNextOf
  <2>1. PICK answer \in {"Success", "TryAgain", "Finished", "Throw", "none"},
             ins \in SUBSET Insertable, run \in Runs : DoNextOf(answer, ins, run)
    BY <1>5 DEF DoNext
  <2>i. PICK i : i = current_source
    BY ZenonT(30)
  <2> DEFINE k == sources[i].count
             n == sources'[i].count
             Delivers == /\ event'.stage = "filled" /\ event'.source = i /\ event'.entry = k + 1
                         /\ n = k + 1 /\ k < Conf[i].entries /\ ~AtLimit(sources[i], Conf[i])
                         /\ ~(k < Conf[i].nskip) /\ sources'[i].status # "Closed"
                         /\ delivered'[i] = delivered[i] \cup {k + 1} /\ current_source' = i
             Skipping == /\ event'.stage \notin {"filled", "processing"}
                         /\ n = k + 1 /\ k < Conf[i].entries /\ ~AtLimit(sources[i], Conf[i])
                         /\ k < Conf[i].nskip /\ sources'[i].status # "Closed"
                         /\ delivered'[i] = delivered[i] /\ current_source' = i
             Staying == /\ event'.stage \notin {"filled", "processing"}
                        /\ n = k /\ delivered'[i] = delivered[i]
                        /\ \/ current_source' = i /\ sources'[i].status # "Closed"
                           \/ current_source' = i + 1 /\ Exhausted(i)
  <2>2. /\ i \in DOMAIN Conf
        /\ \A j \in DOMAIN Conf \ {i} : sources'[j] = sources[j] /\ delivered'[j] = delivered[j]
        /\ finished' = finished /\ proc' = proc
        /\ Delivers \/ Skipping \/ Staying
    BY <2>1, <2>i, SourceStep, ZenonT(30)
  <2> HIDE DEF Delivers, Skipping, Staying
  <2>3. /\ k \in Nat /\ i \in Nat
        /\ Conf[i] \in [nskip : Nat, nevents : Nat, entries : Nat, legacy : BOOLEAN]
    <3>1. sources[i] \in Source
      BY <2>2, ZenonT(30) DEF Shape
    <3>2. k \in Nat
      BY <3>1 DEF Source
    <3>3. i \in DOMAIN Conf
      BY <2>2, ZenonT(30)
    <3>4. i \in Nat
      BY <3>3, ConfOf
    <3>5. Conf[i] \in [nskip : Nat, nevents : Nat, entries : Nat, legacy : BOOLEAN]
      BY <3>3, ConfOf, ZenonT(30)
    <3> QED
      BY <3>2, <3>4, <3>5, ZenonT(30)
  <2>4. ASSUME NEW j \in DOMAIN Conf \ {i}
        PROVE  OneSource(j)'
    <3>a. sources'[j] = sources[j]
      BY <2>2, ZenonT(30)
    <3>b. current_source = i /\ (current_source' = i \/ current_source' = i + 1)
      BY <2>2, <2>i, ZenonT(30) DEF Delivers, Skipping, Staying
    <3>c. j \in Nat /\ j # i /\ i \in Nat
      BY <2>3, ConfOf
    <3>1. Exhausted(j)' <=> Exhausted(j)
      BY <3>a, ZenonT(30) DEF Exhausted, AtLimit
    <3>2. current_source' > j => current_source > j
      BY <3>b, <3>c
    <3>3. current_source' < j => current_source < j
      BY <3>b, <3>c
    <3>4. OneSource(j)
      BY <1>0, ZenonT(30)
    <3> QED
      BY <2>2, <3>1, <3>2, <3>3, <3>4, ZenonT(30) DEF OneSource
  <2>5. OneSource(i)
    BY <1>0, <2>2
  <2>6. OneSource(i)'
    <3>1. CASE Delivers \/ Skipping
      <4>1. /\ n = k + 1 /\ k < Conf[i].entries /\ sources'[i].status # "Closed"
            /\ current_source' = i /\ ~AtLimit(sources[i], Conf[i])
        BY <3>1, ZenonT(30) DEF Delivers, Skipping
      <4>2. Conf[i].nevents # 0 => k < Conf[i].nskip + Conf[i].nevents
        BY <2>3, <2>5, <4>1, SMTT(30) DEF OneSource, AtLimit
      <4>3. delivered'[i] = Selected(Conf[i]) \cap 1 .. n
        BY <2>3, <2>5, <3>1, <4>1, <4>2, SelectedNext, ZenonT(30) DEF OneSource, Delivers, Skipping
      <4>4. n <= Conf[i].entries /\ (Conf[i].nevents # 0 => n <= Conf[i].nevents + Conf[i].nskip)
        BY <2>3, <4>1, <4>2, SMTT(30)
      <4>5. ~(current_source' > i) /\ ~(current_source' < i)
        BY <2>3, <4>1
      <4> QED
        BY <4>1, <4>3, <4>4, <4>5, ZenonT(30) DEF OneSource
    <3>2. CASE Staying
      <4>1. /\ n = k /\ delivered'[i] = delivered[i]
            /\ \/ current_source' = i /\ sources'[i].status # "Closed"
               \/ current_source' = i + 1 /\ Exhausted(i)
        BY <3>2, ZenonT(30) DEF Staying
      <4>2. Exhausted(i)' <=> Exhausted(i)
        BY <4>1 DEF Exhausted, AtLimit
      <4>3. ~(current_source' < i) /\ (current_source' > i => Exhausted(i))
        BY <2>3, <4>1
      <4>4. sources'[i].status = "Closed" => Exhausted(i)
        BY <4>1
      <4> QED
        BY <2>5, <4>1, <4>2, <4>3, <4>4 DEF OneSource
    <3> QED
      BY <2>2, <3>1, <3>2, ZenonT(30)
  <2>7. \A j \in DOMAIN Conf : OneSource(j)'
    BY <2>4, <2>6
  <2>8. finished = delivered
    BY <1>0, <2>0
  <2>9. /\ event'.stage \in {"pooled", "sourcing"} => finished' = delivered'
        /\ Consuming' => /\ event'.source \in DOMAIN Conf
                         /\ delivered' = [finished' EXCEPT ![event'.source] = @ \cup {event'.entry}]
    <3>1. delivered' \in [DOMAIN Conf -> SUBSET Nat]
      BY NextShape DEF Shape
    <3>2. delivered \in [DOMAIN Conf -> SUBSET Nat]
      BY ZenonT(30) DEF Shape
    <3> HIDE DEF k, n
    <3>3. CASE Delivers
      <4>1. delivered' = [delivered EXCEPT ![i] = delivered[i] \cup {k + 1}]
        BY <2>2, <3>1, <3>2, <3>3, ZenonT(30) DEF Delivers
      <4> QED
        BY <2>2, <2>8, <3>3, <4>1, ZenonT(30) DEF Delivers
    <3>4. CASE Skipping \/ Staying
      <4>1. delivered' = delivered
        BY <2>2, <3>1, <3>2, <3>4, SMTT(30) DEF Skipping, Staying
      <4> QED
        BY <2>2, <2>8, <3>4, <4>1, ZenonT(30) DEF Consuming, Skipping, Staying
    <3> QED
      BY <2>2, <3>3, <3>4, ZenonT(30)
  <2> QED
    BY <1>1, <2>7, <2>9
<1>6. CASE Get \/ Done \/ UNCHANGED vars
  <2>1. /\ current_source' = current_source /\ delivered' = delivered /\ finished' = finished
        /\ sources' = sources /\ proc' = proc /\ event' = event
    BY <1>6, ZenonT(30) DEF Get, GetPlain, GetHelper, Done, vars
  <2>2. \A i \in DOMAIN Conf : OneSource(i)'
    BY <1>2, <2>1
  <2> QED
    BY <1>0, <1>1, <2>1, <2>2, ZenonT(30) DEF Consuming
<1>7. CASE DoReduce \/ Lose
  <2>1. /\ current_source' = current_source /\ delivered' = delivered /\ finished' = finished
        /\ sources' = sources /\ Consuming
        /\ event' \in {[event EXCEPT !.stage = "processing"], [event EXCEPT !.stage = "lost"]}
        /\ proc' \in {proc, RunChanged(event.run)}
    BY <1>7 DEF DoReduce, Lose, Consuming
  <2>2. event'.stage \in {"processing", "lost"} /\ event'.source = event.source /\ event'.entry = event.entry
    BY <2>1 DEF Shape
  <2>3. proc'.status = proc.status
    BY <2>1, ZenonT(30) DEF Shape, RunChanged
  <2>4. \A i \in DOMAIN Conf : OneSource(i)'
    BY <1>2, <2>1, <2>3
  <2> QED
    BY <1>0, <1>1, <2>1, <2>2, <2>4
<1>8. CASE ReleaseItem
  <2>1. /\ current_source' = current_source /\ delivered' = delivered /\ proc' = proc
        /\ sources' = sources /\ Consuming
        /\ finished' = [finished EXCEPT ![event.source] = @ \cup {event.entry}]
        /\ event' = [event EXCEPT !.stage = "pooled", !.entry = 0]
    BY <1>8 DEF ReleaseItem, Consuming
  <2>2. event'.stage = "pooled"
    BY <2>1 DEF Shape
  <2>3. \A i \in DOMAIN Conf : OneSource(i)'
    BY <1>2, <2>1
  <2> QED
    BY <1>0, <1>1, <2>1, <2>2, <2>3 DEF Consuming
<1>9. CASE Finalize
  <2>1. /\ current_source' = current_source /\ delivered' = delivered /\ finished' = finished
        /\ event' = event /\ event.stage \in {"pooled", "lost"}
        /\ sources' = [i \in DOMAIN Conf |-> DoClose(sources[i])]
        /\ proc' = [proc EXCEPT !.status = "Finalized", !.in_run = NoRun]
    BY <1>9 DEF Finalize
  <2>2. proc'.status = "Finalized"
    BY <2>1 DEF Shape
  <2>3. \A x \in Source : DoClose(x).count = x.count
    BY DEF Source, DoClose
  <2>4. \A i \in DOMAIN Conf : sources'[i].count = sources[i].count
    BY <2>1, <2>3 DEF Shape
  <2>5. \A i \in DOMAIN Conf : OneSource(i)'
    BY <1>2, <2>1, <2>2, <2>4
  <2> QED
    BY <1>0, <1>1, <2>1, <2>5 DEF Consuming
<1> QED
  BY <1>3, <1>4, <1>5, <1>6, <1>7, <1>8, <1>9, ZenonT(30) DEF Next

-----------------------------------------------------------------------------
(* The initial states.                                                     *)

\* A new application: nothing has been read, computed or begun.
LEMMA InitShape == Init => Shape
<1> SUFFICES ASSUME Init PROVE Shape
  BY ZenonT(30)
<1>1. NewSource \in Source /\ F!NewFactory \in Factory /\ F!NewMultifactory \in Multifactory
  BY DEF NewSource, Source, F!NewFactory, Factory, F!NewMultifactory, Multifactory, RunNumbers
<1>2. sources \in [DOMAIN Conf -> Source] /\ fac \in [Factories -> Factory] /\ multi \in Multifactory
  BY <1>1, ZenonT(30) DEF Init
<1>3. current_source \in 1 .. Len(Conf) + 1
  BY ConfOf, SMTT(30) DEF Init
<1> QED
  BY <1>2, <1>3, ConfOf, SMTT(30) DEF Init, Shape, RunNumbers

\* No source has delivered anything, and none has been passed.
LEMMA InitSourceInv == Init => SourceInv
<1> SUFFICES ASSUME Init PROVE SourceInv
  OBVIOUS
<1>1. ASSUME NEW i \in DOMAIN Conf
      PROVE  OneSource(i)
  <2>1. sources[i].count = 0 /\ sources[i].status = "Uninitialized"
    BY ZenonT(30) DEF Init, NewSource
  <2>2. current_source = 1 /\ i \in Nat /\ i >= 1 /\ delivered[i] = {}
    BY ConfOf, SMTT(30) DEF Init
  <2>3. Conf[i].nskip \in Nat /\ Conf[i].nevents \in Nat /\ Conf[i].entries \in Nat
    BY ConfOf
  <2> QED
    BY <2>1, <2>2, <2>3, SMTT(30) DEF OneSource
<1> QED
  BY <1>1, ZenonT(30) DEF Init, SourceInv, OneSource, Consuming

\* The factories are empty, in no run, and have computed nothing.
LEMMA InitFactories == Init => DataInv /\ RunInv /\ OnceInv
<1> SUFFICES ASSUME Init PROVE DataInv /\ RunInv /\ OnceInv
  OBVIOUS
<1>1. \A f \in Factories : fac[f] = F!NewFactory
  BY ZenonT(30) DEF Init
<1>2. DataInv
  BY <1>1 DEF DataInv, F!NewFactory
<1>3. /\ \A f \in Factories : /\ fac[f].status = "Uninitialized" /\ fac[f].last_run = NoRun
                              /\ fac[f].in_run = NoRun /\ fac[f].calls = 0
                              /\ fac[f].lent = FALSE /\ fac[f].dangling = FALSE
      /\ Plain \subseteq Factories /\ Helpers \subseteq Factories
  BY <1>1 DEF F!NewFactory, Factories
<1>4. /\ multi.status = "Uninitialized" /\ multi.last_run = NoRun /\ multi.in_run = NoRun
      /\ multi.calls = 0 /\ event.stage = "pooled"
      /\ proc.status = "Uninitialized" /\ proc.last_run = NoRun /\ proc.in_run = NoRun
  BY ZenonT(30) DEF Init, F!NewMultifactory
<1>5. RunInv
  BY <1>3, <1>4 DEF RunInv
<1>6. OnceInv
  BY <1>3, <1>4 DEF OnceInv
<1> QED
  BY <1>2, <1>5, <1>6

-----------------------------------------------------------------------------
(* The theorems.                                                           *)

\* What SourceInv says of an exhausted source is what the user asked for.
LEMMA SourceInvSelects == Shape /\ SourceInv => SelectionExact
<1> SUFFICES ASSUME Shape, SourceInv, NEW i \in DOMAIN Conf
             PROVE  /\ delivered[i] = Selected(Conf[i]) \cap 1..sources[i].count
                    /\ current_source > i => delivered[i] = Selected(Conf[i])
                    /\ current_source < i => sources[i].count = 0
                    /\ event.stage \in {"pooled", "sourcing"} => finished[i] = delivered[i]
  BY DEF SelectionExact
<1>1. /\ Conf[i] \in [nskip : Nat, nevents : Nat, entries : Nat, legacy : BOOLEAN]
      /\ sources[i].count \in Nat
  BY ConfOf, ZenonT(30) DEF Shape, Source
<1>2. current_source > i => delivered[i] = Selected(Conf[i])
  <2>1. Exhausted(i) => Selected(Conf[i]) \cap 1 .. sources[i].count = Selected(Conf[i])
    BY <1>1, ExhaustedSelected DEF Exhausted, AtLimit
  <2> QED
    BY <2>1, ZenonT(30) DEF SourceInv
<1> QED
  BY <1>2, ZenonT(30) DEF SourceInv

\* JEventSource::DoNext() and JEventSourceArrow::process() together: each source
\* delivers exactly the entries that its nskip and nevents select, whatever its answers,
\* and FinishEvent() has been called for each of them when the event is back in the pool.
THEOREM SelectionCorrect == Spec => []SelectionExact
<1>1. Init => Shape /\ SourceInv
  BY InitShape, InitSourceInv
<1>2. Shape /\ SourceInv /\ [Next]_vars => (Shape /\ SourceInv)'
  BY NextShape, NextSourceInv
<1>3. Shape /\ SourceInv => SelectionExact
  BY SourceInvSelects
<1> QED
  BY <1>1, <1>2, <1>3, PTL DEF Spec

\* JFactorySet::Release() before an event is filled again is enough: no factory that is
\* not PERSISTENT ever holds an object of an earlier event, whatever is inserted,
\* regenerated or thrown.
THEOREM NoStaleDataCorrect == Spec => []NoStaleData
<1>1. Init => Shape /\ DataInv
  BY InitShape, InitFactories
<1>2. Shape /\ DataInv /\ [Next]_vars => (Shape /\ DataInv)'
  BY NextShape, NextDataInv
<1>3. DataInv => NoStaleData
  BY Zenon DEF DataInv, NoStaleData
<1> QED
  BY <1>1, <1>2, <1>3, PTL DEF Spec

\* If no callback that begins a run throws, Process() of factories, multifactory and
\* processor runs inside the run of the event and after Init().
THEOREM ProcessInsideRunCorrect == RunCallbacksReturn => (Spec => []ProcessInsideRun)
<1> SUFFICES ASSUME RunCallbacksReturn
             PROVE  Spec => []ProcessInsideRun
  OBVIOUS
<1>1. Init => Shape /\ RunInv
  BY InitShape, InitFactories
<1>2. Shape /\ RunInv /\ [Next]_vars => (Shape /\ RunInv)'
  BY NextShape, NextRunInv, ZenonT(30)
<1>3. RunInv => ProcessInsideRun
  BY DEF RunInv, ProcessInsideRun
<1> QED
  BY <1>1, <1>2, <1>3, PTL DEF Spec

\* Types and what has been computed, under the hypothesis on the multifactory.
LEMMA OnceInvCorrect == OutputsAreSet => (Spec => [](Shape /\ OnceInv))
<1> SUFFICES ASSUME OutputsAreSet
             PROVE  Spec => [](Shape /\ OnceInv)
  OBVIOUS
<1>1. Init => Shape /\ OnceInv
  BY InitShape, InitFactories
<1>2. Shape /\ OnceInv /\ [Next]_vars => (Shape /\ OnceInv)'
  BY NextShape, NextOnceInv
<1> QED
  BY <1>1, <1>2, PTL DEF Spec

\* If the multifactory sets all its outputs or throws before it sets one, Process()
\* returns at most once for each event in every factory and in the multifactory.
THEOREM ComputedOnceCorrect == OutputsAreSet => (Spec => []ComputedOnce)
<1>1. OnceInv => ComputedOnce
  BY Zenon DEF OnceInv, ComputedOnce
<1> QED
  BY <1>1, OnceInvCorrect, PTL

\* Under the same hypothesis, no JEvent::Get() destroys objects that an earlier one
\* handed out for the same event.
THEOREM CachedCorrect == OutputsAreSet => (Spec => []CachedUntilReleased)
<1>1. OnceInv => CachedUntilReleased
  BY Zenon DEF OnceInv, CachedUntilReleased
<1> QED
  BY <1>1, OnceInvCorrect, PTL

=============================================================================

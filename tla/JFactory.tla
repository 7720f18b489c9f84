------------------------------ MODULE JFactory ------------------------------
(***************************************************************************)
(* The callback protocol of JFactory, JFactoryT and JMultifactory.  Every   *)
(* pooled event owns one JFactorySet, so one factory object serves every    *)
(* event that passes through that slot of the pool, one event at a time:   *)
(* what it remembers from an earlier event is what can go wrong.           *)
(*                                                                         *)
(* A factory is a record                                                   *)
(*   status    mStatus                                                     *)
(*   last_run  mPreviousRunNumber (NoRun is the code's -1)                 *)
(*   data      the events whose objects mData holds                        *)
(* and five history fields that no operator reads to decide anything:      *)
(*   inited    Init() has returned                                         *)
(*   in_run    the run of the last BeginRun() not followed by EndRun()     *)
(*   calls     how often Process() returned during the current event       *)
(*   lent      a consumer holds pointers into mData, until the release     *)
(*   dangling  objects were deleted while lent                             *)
(* A multifactory is a record of its own status, last_run, inited, in_run  *)
(* and calls.                                                              *)
(*                                                                         *)
(* A user callback may throw.  thrown names the callback that does; "none" *)
(* when none does.  The code catches nothing: what was assigned before the *)
(* callback stays assigned.                                                *)
(*                                                                         *)
(* A definition directly before the one it varies describes a faulty       *)
(* version of that code, and is used by no specification.                  *)
(***************************************************************************)
EXTENDS Naturals

CONSTANT NoRun

NewFactory == [status |-> "Uninitialized", last_run |-> NoRun, data |-> {},
               inited |-> FALSE, in_run |-> NoRun, calls |-> 0,
               lent |-> FALSE, dangling |-> FALSE]

NewMultifactory == [status |-> "Uninitialized", last_run |-> NoRun,
                    inited |-> FALSE, in_run |-> NoRun, calls |-> 0]

Insert(f, e) == [f EXCEPT !.data = @ \cup {e}, !.status = "Inserted"]

ClearKeepingInserted(f, persistent) ==
    IF f.status \in {"Uninitialized", "Inserted"} \/ persistent THEN f
    ELSE [f EXCEPT !.data = {}, !.status = "Unprocessed"]

(* The objects are deleted and the algorithm may run again.                *)
ClearData(f, persistent) ==
    IF f.status = "Uninitialized" \/ persistent THEN f
    ELSE [f EXCEPT !.data = {}, !.status = "Unprocessed",
                   !.dangling = @ \/ (f.lent /\ f.data # {})]

(* Set() with a vector other than mData.  A persistent factory keeps its   *)
(* status in ClearData, and its vector is replaced all the same.           *)
Set(f, e, persistent) ==
    [ClearData(f, persistent) EXCEPT !.data = {e}, !.status = "Inserted"]

(* DoInit, and the first step of Create.                                   *)
DoInit(f, thrown) ==
    IF f.status # "Uninitialized" \/ thrown = "Init" THEN f
    ELSE [f EXCEPT !.status = "Unprocessed", !.inited = TRUE]

(* Create finds no data of this event, or data it has to make again.       *)
NeedsData(f, regenerate, persistent) ==
    \/ f.status \in {"Uninitialized", "Unprocessed"}
    \/ f.status = "Inserted" /\ regenerate /\ ~persistent

RunCallbacks(f, run) ==
    CASE f.last_run = NoRun -> {"ChangeRun", "BeginRun"}
      [] f.last_run = run   -> {}
      [] OTHER              -> {"EndRun", "ChangeRun", "BeginRun"}

(* The user's callbacks that Create is going to call.                      *)
Callbacks(f, run, regenerate, persistent) ==
    (IF f.status = "Uninitialized" THEN {"Init"} ELSE {})
    \cup (IF NeedsData(f, regenerate, persistent)
          THEN RunCallbacks(f, run) \cup {"Process"} ELSE {})

FirstRunOnly(f, run, thrown) ==
    IF f.last_run # NoRun THEN f
    ELSE [f EXCEPT !.last_run = run, !.in_run = run]

(* EndRun, ChangeRun, BeginRun: last_run is assigned after the last of the *)
(* three has returned.                                                     *)
ChangeRun(f, run, thrown) ==
    CASE f.last_run = run \/ thrown = "EndRun"  -> f
      [] thrown \in {"ChangeRun", "BeginRun"}   -> [f EXCEPT !.in_run = NoRun]
      [] OTHER -> [f EXCEPT !.last_run = run, !.in_run = run]

PrepareAlwaysClearing(f, run, regenerate, persistent, thrown) ==
    LET i == DoInit(f, thrown)
        c == IF regenerate THEN ClearData(i, persistent) ELSE i
    IN IF c.status = "Unprocessed" THEN ChangeRun(c, run, thrown) ELSE c

(* Create up to the call of Process: Init, REGENERATE, the run callbacks.  *)
Prepare(f, run, regenerate, persistent, thrown) ==
    LET i == DoInit(f, thrown)
        c == IF regenerate /\ i.status = "Inserted"
             THEN ClearData(i, persistent) ELSE i
    IN IF c.status = "Unprocessed" THEN ChangeRun(c, run, thrown) ELSE c

ReturnedUnmarked(f) == [f EXCEPT !.calls = @ + 1]

(* Process has returned to Create.                                         *)
Returned(f) == [f EXCEPT !.status = "Processed", !.calls = @ + 1]

(* Process adds the objects of event e to mData.                           *)
Create(f, e, run, regenerate, persistent, thrown) ==
    LET p == Prepare(f, run, regenerate, persistent, thrown)
    IN IF p.status = "Unprocessed" /\ thrown = "none" 
       THEN Returned([p EXCEPT !.data = @ \cup {e}]) ELSE p

(* The user's callbacks that JMultifactory::Execute is going to call.      *)
ExecuteCallbacks(m, run) ==
    (IF m.status = "Uninitialized" THEN {"Init"} ELSE {})
    \cup (RunCallbacks(m, run) \ {"ChangeRun"}) \cup {"Process"}

(* It has no status of its own per event: whoever calls it runs Process.   *)
Execute(m, run, thrown) ==
    IF thrown = "Init" THEN m
    ELSE [ChangeRun(m, run, thrown) EXCEPT
            !.status = "Initialized", !.inited = TRUE,
            !.calls = IF thrown = "none" THEN @ + 1 ELSE @]

=============================================================================

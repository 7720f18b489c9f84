---------------------------- MODULE JCalibration ----------------------------
(***************************************************************************)
(* Calibrations/JCalibrationManager and JCalibration: one JCalibration for *)
(* each run, made by the first thread that asks for it, and in it the      *)
(* constants that were asked for by pointer.  Constants are those of one   *)
(* namepath and type.  The mutexes are plain ones, so that an exception    *)
(* leaves them locked.                                                     *)
(*                                                                         *)
(* A request is a run and what is wanted: "copy" is GetCalib() and any     *)
(* other Get() that copies, "stored" the Get() that returns a pointer, and *)
(* "boundaries" is GetEventBoundaries().                                   *)
(*                                                                         *)
(* As in JScheduler, a definition that directly precedes another and       *)
(* differs from it in one place is a faulty variant no specification uses. *)
(***************************************************************************)
EXTENDS ServiceCalls, SequencesExt

CONSTANT Runs

VARIABLES
    calibrations,        \* m_calibrations, as a sequence of the run numbers
    calibration_mutex,   \* the thread that has locked m_calibration_mutex
    calib,               \* the JCalibrations, in the order of calibrations
    answered             \* the requests for constants that were not left by an exception

calibrationVars == <<calibrations, calibration_mutex, calib, answered>>

CalibrationsInit ==
    /\ calibrations = <<>>
    /\ calibration_mutex = None
    /\ calib = <<>>
    /\ answered = <<>>

\* stored and retrieved count how often what they stand for was made: the
\* constants in stored, and the event boundaries.
NewCalibration ==
    [stored |-> 0, stored_mutex |-> None, accesses |-> 0,
     retrieved |-> 0, boundaries_mutex |-> None]

-----------------------------------------------------------------------------
(* JCalibrationManager::GetJCalibration().                                 *)

GetJCalibration(t, run, what) ==
    Begin(t, "calibrations", <<run, what>>, None) /\ UNCHANGED calibrationVars

\* Where a thread goes when it has the JCalibration c.
Proceed(t, from, c) == Step(t, from, at[t].arg[2], c)

\* (The list is unlocked before the new object is made.)
SearchCalibrations_Unlocks(t) ==
    LET run == at[t].arg[1]
    IN  /\ at[t].op = "calibrations"
        /\ calibration_mutex = None
        /\ IF Contains(calibrations, run)
           THEN Proceed(t, "calibrations", SelectInSeq(calibrations, LAMBDA r : r = run))
           ELSE Step(t, "calibrations", "create_calibration", None)
        /\ UNCHANGED calibrationVars

\* The list is locked and searched; if the run is found, it is unlocked.
SearchCalibrations(t) ==
    LET run == at[t].arg[1]
    IN  /\ at[t].op = "calibrations"
        /\ calibration_mutex = None
        /\ IF Contains(calibrations, run)
           THEN /\ Proceed(t, "calibrations", SelectInSeq(calibrations, LAMBDA r : r = run))
                /\ UNCHANGED calibration_mutex
           ELSE /\ Step(t, "calibrations", "create_calibration", None)
                /\ calibration_mutex' = t
        /\ UNCHANGED <<calibrations, calib, answered>>

\* A generator, or JCalibrationFile, makes the object; it is entered into the list.
CreateCalibration(t) ==
    /\ Proceed(t, "create_calibration", Len(calibrations) + 1)
    /\ calibrations' = Append(calibrations, at[t].arg[1])
    /\ calib' = Append(calib, NewCalibration)
    /\ answered' = Append(answered, 0)
    /\ calibration_mutex' = None

\* Nobody can make one: a null pointer is returned.
CreateNothing(t) ==
    /\ Return(t, "create_calibration")
    /\ calibration_mutex' = None
    /\ UNCHANGED <<calibrations, calib, answered>>

\* A generator throws.
CreateThrows(t) == Return(t, "create_calibration") /\ UNCHANGED calibrationVars

-----------------------------------------------------------------------------
(* JCalibration.  The mutex that guards accesses is held for one step.     *)

Change(t, c) == calib' = [calib EXCEPT ![at[t].got] = c]

Of(t) == calib[at[t].got]

RecordRequest(c) == [c EXCEPT !.accesses = @ + 1]

\* The constants are copied, or GetCalib() reports an error; both are recorded.
GetCopy(t) ==
    /\ Step(t, "copy", "got_constants", at[t].got)
    /\ Change(t, RecordRequest(Of(t)))
    /\ UNCHANGED <<calibrations, calibration_mutex, answered>>

\* GetCalib() throws: "Unable to open".
CopyThrows(t) == Return(t, "copy") /\ UNCHANGED calibrationVars

\* The stored constants are there: the mutex is locked and unlocked again ...
FindStored(t) ==
    /\ at[t].op = "stored"
    /\ Of(t).stored_mutex = None
    /\ Of(t).stored > 0
    /\ Step(t, "stored", "record", at[t].got)
    /\ UNCHANGED calibrationVars

\* ... and then the request is recorded.
RecordStored(t) ==
    /\ Step(t, "record", "got_constants", at[t].got)
    /\ Change(t, RecordRequest(Of(t)))
    /\ UNCHANGED <<calibrations, calibration_mutex, answered>>

\* They are not there: the mutex stays locked.
MissStored(t) ==
    /\ at[t].op = "stored"
    /\ Of(t).stored_mutex = None
    /\ Of(t).stored = 0
    /\ Step(t, "stored", "retrieve", at[t].got)
    /\ Change(t, [Of(t) EXCEPT !.stored_mutex = t])
    /\ UNCHANGED <<calibrations, calibration_mutex, answered>>

\* The Get() that copies fills a new container, and records the request.  The
\* container is stored unless there was an error.
RetrieveStored(t) ==
    /\ Step(t, "retrieve", "got_constants", at[t].got)
    /\ \E n \in {0, 1} :
          Change(t, [RecordRequest(Of(t)) EXCEPT !.stored = @ + n, !.stored_mutex = None])
    /\ UNCHANGED <<calibrations, calibration_mutex, answered>>

RetrieveThrows(t) == Return(t, "retrieve") /\ UNCHANGED calibrationVars

GetReturns(t) ==
    /\ Return(t, "got_constants")
    /\ answered' = [answered EXCEPT ![at[t].got] = @ + 1]
    /\ UNCHANGED <<calibrations, calibration_mutex, calib>>

\* GetEventBoundaries(): they are retrieved, with the mutex locked, or there.
LockBoundaries(t) ==
    /\ at[t].op = "boundaries"
    /\ Of(t).boundaries_mutex = None
    /\ IF Of(t).retrieved > 0
       THEN Return(t, "boundaries") /\ UNCHANGED calib
       ELSE /\ Step(t, "boundaries", "retrieve_boundaries", at[t].got)
            /\ Change(t, [Of(t) EXCEPT !.boundaries_mutex = t])
    /\ UNCHANGED <<calibrations, calibration_mutex, answered>>

RetrieveEventBoundaries(t) ==
    /\ Return(t, "retrieve_boundaries")
    /\ Change(t, [Of(t) EXCEPT !.retrieved = @ + 1, !.boundaries_mutex = None])
    /\ UNCHANGED <<calibrations, calibration_mutex, answered>>

CalibrationStep(t) ==
    \/ SearchCalibrations(t) \/ CreateCalibration(t) \/ CreateNothing(t) \/ CreateThrows(t)
    \/ GetCopy(t) \/ CopyThrows(t) \/ FindStored(t) \/ RecordStored(t) \/ MissStored(t)
    \/ RetrieveStored(t) \/ RetrieveThrows(t) \/ GetReturns(t)
    \/ LockBoundaries(t) \/ RetrieveEventBoundaries(t)

CalibrationCall(t) ==
    \E run \in Runs, what \in {"copy", "stored", "boundaries"} : GetJCalibration(t, run, what)
=============================================================================

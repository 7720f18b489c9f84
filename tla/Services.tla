------------------------------ MODULE Services ------------------------------
(***************************************************************************)
(* The services that threads call while events are processed: the service  *)
(* locator, the lock service, the event groups and the calibrations.  The  *)
(* threads interleave their calls; each call belongs to one of the four.   *)
(***************************************************************************)
EXTENDS JService, JLockService, JEventGroup, JCalibration

vars == <<callVars, serviceVars, lockVars, groupVars, calibrationVars>>

Init == CallsInit /\ ServicesInit /\ LocksInit /\ GroupsInit /\ CalibrationsInit

OfServices(t) ==
    /\ ServiceCall(t) \/ ServiceStep(t)
    /\ UNCHANGED <<lockVars, groupVars, calibrationVars>>

OfLocks(t) ==
    /\ LockCall(t) \/ LockStep(t)
    /\ UNCHANGED <<serviceVars, groupVars, calibrationVars>>

OfGroups(t) ==
    /\ GroupCall(t) \/ GroupStep(t)
    /\ UNCHANGED <<serviceVars, lockVars, calibrationVars>>

OfCalibrations(t) ==
    /\ CalibrationCall(t) \/ CalibrationStep(t)
    /\ UNCHANGED <<serviceVars, lockVars, groupVars>>

Next == \E t \in Threads : OfServices(t) \/ OfLocks(t) \/ OfGroups(t) \/ OfCalibrations(t)

Spec == Init /\ [][Next]_vars

\* A thread that has begun to initialize a service goes on, and gets the service's
\* mutex when it is free.
Fairness ==
    \A t \in Threads :
        WF_vars(ServiceStep(t) /\ UNCHANGED <<lockVars, groupVars, calibrationVars>>)

FairSpec == Spec /\ Fairness

-----------------------------------------------------------------------------

\* ReadLock() and WriteLock(): a thread between WriteLock(name) and Unlock(name) is
\* alone with that name, even if several threads made the lock at the same time,
\* and what Unlock() looks up is the lock that the thread holds.
NamedLockExcludes ==
    \A t \in Threads : at[t].op = "locked" =>
        /\ at[t].arg \in {<<n, mode>> : n \in DOMAIN rw_locks, mode \in {"read", "write"}}
        /\ <<t, at[t].arg[2]>> \in owners[rw_locks[at[t].arg[1]]]
        /\ \A u \in Threads \ {t} :
              at[u].op = "locked" /\ at[u].arg[1] = at[t].arg[1] =>
                  "write" \notin {at[t].arg[2], at[u].arg[2]}

\* JServiceLocator::get(): a service that a thread got has been initialized exactly
\* once, after all that it depends on, whichever threads asked for it at the same
\* time and however often Init() threw before.
ServiceReady ==
    /\ \A s \in Services :
          /\ inits[s] <= 1
          /\ inits[s] = 1 => \A i \in DOMAIN DependsOn[s] : inits[DependsOn[s][i]] = 1
    /\ \A t \in Threads : at[t].op = "got_service" => inits[at[t].arg] = 1

\* SubmitAndWait(): when it returns, every event of the submission has been
\* finished, even if two submissions were given the same group.
SubmittedIsFinished ==
    \A t \in Threads : at[t].op = "submitted" => unfinished[t] = 0

\* DoInit(): every request for a service comes to an end, with the service or with
\* an exception; an Init() that throws locks nobody out.
GetServiceEnds ==
    \A t \in Threads :
        at[t].op \in {"lock_service", "init", "got_service"} ~> at[t] = Outside

\* GetJCalibration() and JCalibration: all threads share one JCalibration for each
\* run, one copy of the constants they get by pointer, and one retrieval of the event
\* boundaries; and each request that was answered has been recorded once, whether
\* the constants were copied, stored, or found.
CalibrationShared ==
    /\ IsInjective(calibrations)
    /\ \A c \in DOMAIN calib :
          /\ calib[c].stored <= 1
          /\ calib[c].retrieved <= 1
          /\ calib[c].accesses = answered[c] + Cardinality({t \in Threads :
                                    at[t].op = "got_constants" /\ at[t].got = c})

\* RootFillLock() "is used exclusively by the given JEventProcessor": two threads
\* do not fill the histograms of a processor at the same time.
FillLockExcludes ==
    \A t, u \in Threads :
        at[t].op = "filling" /\ at[u].op = "filling" /\ at[t].arg = at[u].arg => t = u
=============================================================================

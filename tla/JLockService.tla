---------------------------- MODULE JLockService ----------------------------
(***************************************************************************)
(* Compatibility/JLockService: named read-write locks that are made when   *)
(* they are first asked for, the lock for all of ROOT, which exists from   *)
(* the beginning (and is all there is to Services/JGlobalRootLock), and a  *)
(* lock for each event processor that fills histograms.  A lock is a       *)
(* number; those from 1 to NextLock - 1 have been made.  Looking a lock up *)
(* and entering one are single steps, because the maps have locks.         *)
(*                                                                         *)
(* As in JScheduler, a definition that directly precedes another and       *)
(* differs from it in one place is a faulty variant no specification uses. *)
(***************************************************************************)
EXTENDS ServiceCalls, Functions

CONSTANTS
    LockNames,    \* names for ReadLock() and WriteLock(); "root" is one
    Processors    \* the processors that use RootFillLock()

VARIABLES
    rw_locks,     \* m_rw_locks: name -> lock
    fill_locks,   \* m_root_fill_rw_lock: processor -> lock
    owners,       \* lock -> pairs of a thread and the mode in which it holds it
    broken        \* locks that were unlocked while nobody held them

lockVars == <<rw_locks, fill_locks, owners, broken>>

NextLock == Cardinality(DOMAIN owners) + 1

LocksInit ==
    /\ rw_locks = [n \in {"root"} |-> 1]
    /\ fill_locks = [p \in {} |-> 0]
    /\ owners = [l \in {1} |-> {}]
    /\ broken = {}

Entered(f, k, v) == [x \in DOMAIN f \cup {k} |-> IF x = k THEN v ELSE f[x]]

\* pthread_rwlock_rdlock() and pthread_rwlock_wrlock(), when they do not wait.
Grants(l, mode) ==
    /\ l \notin broken
    /\ IF mode = "read" THEN \A o \in owners[l] : o[2] = "read" ELSE owners[l] = {}

\* ReadLock(), WriteLock(), RootReadLock() and RootWriteLock() look for the lock.
FindLock(t, n, mode) ==
    /\ IF n \in DOMAIN rw_locks
       THEN Begin(t, "acquire", <<n, mode>>, rw_locks[n])
       ELSE Begin(t, "create", <<n, mode>>, None)
    /\ UNCHANGED lockVars

\* (A lock that somebody else has made in the meantime is replaced.)
CreateLock_Replaces(t) ==
    LET n == at[t].arg[1]
    IN  /\ at[t].op = "create"
        /\ Step(t, "create", "acquire", NextLock)
        /\ rw_locks' = Entered(rw_locks, n, NextLock)
        /\ owners' = Entered(owners, NextLock, {})
        /\ UNCHANGED <<fill_locks, broken>>

\* CreateLock() looks again, because somebody else may have made it.
CreateLock(t) ==
    LET n == at[t].arg[1]
    IN  /\ at[t].op = "create"
        /\ IF n \in DOMAIN rw_locks
           THEN /\ Step(t, "create", "acquire", rw_locks[n])
                /\ UNCHANGED lockVars
           ELSE /\ Step(t, "create", "acquire", NextLock)
                /\ rw_locks' = Entered(rw_locks, n, NextLock)
                /\ owners' = Entered(owners, NextLock, {})
                /\ UNCHANGED <<fill_locks, broken>>

AcquireLock(t) ==
    LET mode == at[t].arg[2]
    IN  /\ at[t].op = "acquire"
        /\ Grants(at[t].got, mode)
        /\ Step(t, "acquire", "locked", at[t].got)
        /\ owners' = [owners EXCEPT ![at[t].got] = @ \cup {<<t, mode>>}]
        /\ UNCHANGED <<rw_locks, fill_locks, broken>>

\* Unlock() and RootUnLock() look the lock up again.
Unlock(t) ==
    LET l == rw_locks[at[t].arg[1]]
    IN  /\ at[t].op = "locked"
        /\ Return(t, "locked")
        /\ owners' = [owners EXCEPT ![l] = {o \in @ : o[1] # t}]
        /\ UNCHANGED <<rw_locks, fill_locks, broken>>

\* RootFillLock() looks for the lock of the processor.
FindFillLock(t, p) ==
    /\ IF p \in DOMAIN fill_locks
       THEN Begin(t, "acquire_fill", <<p>>, fill_locks[p])
       ELSE Begin(t, "create_fill", <<p>>, None)
    /\ UNCHANGED lockVars

\* A thread that found none enters one, and does not look again.
CreateFillLock(t) ==
    /\ Step(t, "create_fill", "acquire_fill", NextLock)
    /\ fill_locks' = Entered(fill_locks, at[t].arg[1], NextLock)
    /\ owners' = Entered(owners, NextLock, {})
    /\ UNCHANGED <<rw_locks, broken>>

AcquireFillLock(t) ==
    /\ at[t].op = "acquire_fill"
    /\ Grants(at[t].got, "write")
    /\ Step(t, "acquire_fill", "filling", at[t].got)
    /\ owners' = [owners EXCEPT ![at[t].got] = {<<t, "write">>}]
    /\ UNCHANGED <<rw_locks, fill_locks, broken>>

\* RootFillUnLock() unlocks the lock that is entered now, whoever holds it.  If
\* nobody does, what becomes of the lock is undefined.
RootFillUnLock(t) ==
    LET l == fill_locks[at[t].arg[1]]
    IN  /\ at[t].op = "filling"
        /\ Return(t, "filling")
        /\ owners' = [owners EXCEPT ![l] = {}]
        /\ \/ UNCHANGED broken
           \/ owners[l] = {} /\ broken' = broken \cup {l}
        /\ UNCHANGED <<rw_locks, fill_locks>>

LockStep(t) ==
    \/ CreateLock(t) \/ AcquireLock(t) \/ Unlock(t)
    \/ CreateFillLock(t) \/ AcquireFillLock(t) \/ RootFillUnLock(t)

LockCall(t) ==
    \/ \E n \in LockNames, mode \in {"read", "write"} : FindLock(t, n, mode)
    \/ \E p \in Processors : FindFillLock(t, p)
=============================================================================

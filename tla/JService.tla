------------------------------ MODULE JService ------------------------------
(***************************************************************************)
(* JService::DoInit(), JServiceLocator::get() and JService's Fetch: a       *)
(* service is initialized by the first thread that asks for it, with its   *)
(* mutex locked, and asks in turn for the services it depends on.  Worker  *)
(* threads ask when their factories are initialized.                       *)
(*                                                                         *)
(* stack[t] are the DoInit() calls that t is in, each with its service and *)
(* the number of services it has fetched; the last is the innermost.       *)
(*                                                                         *)
(* As in JScheduler, a definition that directly precedes another and       *)
(* differs from it in one place is a faulty variant no specification uses. *)
(***************************************************************************)
EXTENDS ServiceCalls, SequencesExt

CONSTANTS
    Services,     \* the services that have been provided
    DependsOn     \* service -> the services it fetches, in order

VARIABLES
    status,         \* service -> m_status
    service_mutex,  \* service -> the thread that holds its m_mutex
    stack,
    inits           \* service -> how often its Init() has come to its end

serviceVars == <<status, service_mutex, stack, inits>>

ServicesInit ==
    /\ status = [s \in Services |-> "Uninitialized"]
    /\ service_mutex = [s \in Services |-> None]
    /\ stack = [t \in Threads |-> <<>>]
    /\ inits = [s \in Services |-> 0]

Frame(s) == [service |-> s, fetched |-> 0]

\* get(): the locator finds the service, and DoInit() is about to lock it.
GetService(t, s) == Begin(t, "lock_service", s, None) /\ UNCHANGED serviceVars

Innermost(t) == Last(stack[t])

\* The innermost call has returned: back to the one that fetched, or to the user.
Pop(t) ==
    LET rest == Front(stack[t])
    IN  /\ stack' = [stack EXCEPT ![t] = rest]
        /\ at' = [at EXCEPT ![t] = [op |-> IF rest = <<>> THEN "got_service" ELSE "init",
                                    arg |-> Innermost(t).service, got |-> None]]
        /\ UNCHANGED calls

\* (m_status is set when DoInit() begins.)
LockService_MarksFirst(t) ==
    LET s == at[t].arg
    IN  /\ at[t].op = "lock_service"
        /\ service_mutex[s] = None
        /\ IF status[s] # "Uninitialized"
           THEN /\ Step(t, "lock_service", IF stack[t] = <<>> THEN "got_service" ELSE "init", None)
                /\ UNCHANGED <<service_mutex, stack, status>>
           ELSE /\ Step(t, "lock_service", "init", None)
                /\ service_mutex' = [service_mutex EXCEPT ![s] = t]
                /\ stack' = [stack EXCEPT ![t] = Append(@, Frame(s))]
                /\ status' = [status EXCEPT ![s] = "Initialized"]
        /\ UNCHANGED inits

\* DoInit() locks the mutex; a service that is initialized is returned at once.
LockService(t) ==
    LET s == at[t].arg
    IN  /\ at[t].op = "lock_service"
        /\ service_mutex[s] = None
        /\ IF status[s] # "Uninitialized"
           THEN /\ Step(t, "lock_service", IF stack[t] = <<>> THEN "got_service" ELSE "init", None)
                /\ UNCHANGED <<service_mutex, stack>>
           ELSE /\ Step(t, "lock_service", "init", None)
                /\ service_mutex' = [service_mutex EXCEPT ![s] = t]
                /\ stack' = [stack EXCEPT ![t] = Append(@, Frame(s))]
        /\ UNCHANGED <<status, inits>>

InInit(t) == at[t].op = "init" /\ stack[t] # <<>>

\* The next service that this one depends on is fetched.
FetchService(t) ==
    LET f == Innermost(t)
    IN  /\ InInit(t)
        /\ f.fetched < Len(DependsOn[f.service])
        /\ stack' = [stack EXCEPT ![t] = Append(Front(@), [f EXCEPT !.fetched = @ + 1])]
        /\ at' = [at EXCEPT ![t] = [op |-> "lock_service",
                                    arg |-> DependsOn[f.service][f.fetched + 1], got |-> None]]
        /\ UNCHANGED <<calls, status, service_mutex, inits>>

\* acquire_services() and Init() have run; the mutex is unlocked.
FinishInit(t) ==
    LET s == Innermost(t).service
    IN  /\ InInit(t)
        /\ Innermost(t).fetched = Len(DependsOn[s])
        /\ status' = [status EXCEPT ![s] = "Initialized"]
        /\ service_mutex' = [service_mutex EXCEPT ![s] = None]
        /\ inits' = [inits EXCEPT ![s] = @ + 1]
        /\ Pop(t)

\* (An exception leaves the mutex locked.)
InitThrows_KeepsLock(t) ==
    /\ InInit(t)
    /\ Innermost(t).fetched = Len(DependsOn[Innermost(t).service])
    /\ stack' = [stack EXCEPT ![t] = <<>>]
    /\ Return(t, "init")
    /\ UNCHANGED <<status, service_mutex, inits>>

\* Init() throws: all the DoInit() calls are left, and nothing is initialized.
InitThrows(t) ==
    /\ InInit(t)
    /\ Innermost(t).fetched = Len(DependsOn[Innermost(t).service])
    /\ service_mutex' = [s \in Services |->
                            IF service_mutex[s] = t THEN None ELSE service_mutex[s]]
    /\ stack' = [stack EXCEPT ![t] = <<>>]
    /\ Return(t, "init")
    /\ UNCHANGED <<status, inits>>

GetServiceReturns(t) == Return(t, "got_service") /\ UNCHANGED serviceVars

ServiceStep(t) ==
    LockService(t) \/ FetchService(t) \/ FinishInit(t) \/ InitThrows(t) \/ GetServiceReturns(t)

ServiceCall(t) == \E s \in Services : GetService(t, s)
=============================================================================

---------------------------- MODULE ServiceCalls ----------------------------
(***************************************************************************)
(* The threads that call the services of the application at the same time, *)
(* from the components they run.  A thread is in at most one call, and at  *)
(* says where in it; a call that it nests in another is kept on a stack by *)
(* the module that nests.                                                  *)
(***************************************************************************)
EXTENDS Naturals, Sequences, FiniteSets

CONSTANTS
    Threads,
    None,
    MaxCalls      \* bound on the calls of all threads

VARIABLES
    at,       \* thread -> where it is, what its call is about and what it holds
    calls     \* how many calls have begun

callVars == <<at, calls>>

Outside == [op |-> "outside", arg |-> None, got |-> None]

CallsInit ==
    /\ at = [t \in Threads |-> Outside]
    /\ calls = 0

\* t begins a call and is at its first step.
Begin(t, op, arg, got) ==
    /\ at[t] = Outside
    /\ calls < MaxCalls
    /\ calls' = calls + 1
    /\ at' = [at EXCEPT ![t] = [op |-> op, arg |-> arg, got |-> got]]

\* t goes on, in the same call, from one step to another.
Step(t, from, to, got) ==
    /\ at[t].op = from
    /\ at' = [at EXCEPT ![t] = [@ EXCEPT !.op = to, !.got = got]]
    /\ UNCHANGED calls

\* t returns.
Return(t, from) ==
    /\ at[t].op = from
    /\ at' = [at EXCEPT ![t] = Outside]
    /\ UNCHANGED calls
=============================================================================

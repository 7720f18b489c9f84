------------------------------ MODULE Pipeline ------------------------------
(***************************************************************************)
(* A chain of JPipelineArrows under the most general scheduler: any worker *)
(* starts any arrow at any time, as long as a sequential arrow is held by  *)
(* one worker at a time.  This is what the arrows rely on; module Topology *)
(* shows that the workers and JScheduler provide it.                       *)
(***************************************************************************)
EXTENDS JPipelineArrow

vars == <<assigned, pipeVars>>

Init == PipeInit /\ assigned = [w \in Workers |-> None]

BetweenCalls(w) == step[w] \in {"idle", "pull_input", "done"}

\* A worker between two execute() calls starts one on arrow a.
Begin(w, a) ==
    /\ BetweenCalls(w)
    /\ a \in ParallelArrows \/ Holders(a) \subseteq {w}
    /\ assigned' = [assigned EXCEPT ![w] = a]
    /\ step' = [step EXCEPT ![w] = "pull_input"]
    /\ result' = [result EXCEPT ![w] = "NotRunYet"]
    /\ UNCHANGED <<mailbox, pool, in_data, out_data, emitted, number, processed>>

\* A worker between two execute() calls gives its arrow up.
End(w) ==
    /\ BetweenCalls(w)
    /\ assigned' = [assigned EXCEPT ![w] = None]
    /\ step' = [step EXCEPT ![w] = "idle"]
    /\ result' = [result EXCEPT ![w] = "NotRunYet"]
    /\ UNCHANGED <<mailbox, pool, in_data, out_data, emitted, number, processed>>

Next ==
    \E w \in Workers :
        \/ \E a \in Arrows : Begin(w, a)
        \/ End(w)
        \/ Execute(w) /\ UNCHANGED assigned

Spec == Init /\ [][Next]_vars

\* Every variable keeps its type.
TypeOK == PipeTypeOK /\ assigned \in [Workers -> Arrows \cup {None}]

=============================================================================

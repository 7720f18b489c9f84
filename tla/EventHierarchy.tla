--------------------------- MODULE EventHierarchy ---------------------------
(***************************************************************************)
(* What hierarchical events promise: a parent event is opened by one       *)
(* unfolder at a time, gets children while it is open, and is free for     *)
(* reuse exactly when it has been closed and its last child is gone.       *)
(* Module UnfoldFold shows how reference counts provide this.              *)
(***************************************************************************)
CONSTANTS Parents, Children

VARIABLES
    stage,   \* parent -> "free", "open" or "closed"
    kids     \* parent -> its children in flight

vars == <<stage, kids>>

Init ==
    /\ stage = [p \in Parents |-> "free"]
    /\ kids = [p \in Parents |-> {}]

\* The unfolder's current parent, or else a free one, gets a child.
Spawn(p, c) ==
    /\ stage[p] \in {"free", "open"}
    /\ \A q \in Parents \ {p} : stage[q] # "open"
    /\ \A q \in Parents : c \notin kids[q]
    /\ stage' = [stage EXCEPT ![p] = "open"]
    /\ kids' = [kids EXCEPT ![p] = @ \cup {c}]

\* The unfolder lets go of a parent while a child of it is still there, so that
\* somebody is left to recycle it.
Close(p) ==
    /\ stage[p] = "open"
    /\ kids[p] # {}
    /\ stage' = [stage EXCEPT ![p] = "closed"]
    /\ UNCHANGED kids

Fold(p, c) ==
    /\ c \in kids[p]
    /\ kids' = [kids EXCEPT ![p] = @ \ {c}]
    /\ UNCHANGED stage

Recycle(p) ==
    /\ stage[p] = "closed"
    /\ kids[p] = {}
    /\ stage' = [stage EXCEPT ![p] = "free"]
    /\ UNCHANGED kids

Next ==
    \E p \in Parents :
        \/ \E c \in Children : Spawn(p, c) \/ Fold(p, c)
        \/ Close(p)
        \/ Recycle(p)

Spec == Init /\ [][Next]_vars

=============================================================================

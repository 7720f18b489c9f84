------------------------------- MODULE JArrow -------------------------------
(***************************************************************************)
(* The arrows of a topology and the workers that execute them: what the    *)
(* scheduler, the arrows' own code and their composition have in common.   *)
(***************************************************************************)
EXTENDS Integers, FiniteSets

CONSTANTS
    NArrows,          \* number of arrows in the topology
    SourceArrows,     \* arrows with is_source()
    ParallelArrows,   \* arrows with is_parallel()
    Listeners,        \* arrow -> the arrows attached downstream of it
    Workers,          \* whoever may hold an assignment
    None              \* nullptr

VARIABLE assigned     \* worker -> the arrow it has checked out, or None

Arrows == 0 .. NArrows - 1

Upstream(a) == {u \in Arrows : a \in Listeners[u]}

\* A topology has arrows, and its sources run one thread at a time.
ASSUME TopologyAssumption ==
    /\ NArrows \in Nat \ {0}
    /\ SourceArrows \subseteq Arrows
    /\ ParallelArrows \subseteq Arrows \ SourceArrows
    /\ Listeners \in [Arrows -> SUBSET Arrows]

ASSUME WorkersAssumption ==
    /\ IsFiniteSet(Workers)
    /\ None \notin Arrows

Holders(a) == {w \in Workers : assigned[w] = a}

=============================================================================

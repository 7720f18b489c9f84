----------------------------- MODULE MCTopology -----------------------------
(* Small instances of Topology: one location, a chain of arrows.           *)
EXTENDS Topology, TLC

CONSTANTS w1, w2, e1, e2, e3, e4

ChainListeners == [a \in Arrows |-> IF a < NArrows - 1 THEN {a + 1} ELSE {}]

OneLocation == {0}
TwoItems == 0 :> <<e1, e2>>
FourItems == 0 :> <<e1, e2, e3, e4>>
SameLocation == [w \in Workers |-> 0]
=============================================================================

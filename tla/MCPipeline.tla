----------------------------- MODULE MCPipeline -----------------------------
(* Small instances of Pipeline.                                            *)
EXTENDS Pipeline, TLC

CONSTANTS w1, w2, w3, e1, e2, h1

ChainListeners == [a \in Arrows |-> IF a < NArrows - 1 THEN {a + 1} ELSE {}]

\* Two locations with one event each, and two workers at the first of them.
TwoLocations == {0, 1}
TwoItems == 0 :> <<e1>> @@ 1 :> <<e2>>
TwoPlaces == w1 :> 0 @@ w2 :> 0 @@ w3 :> 1
=============================================================================

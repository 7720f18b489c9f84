---------------------------- MODULE MCUnfoldFold ----------------------------
(* Small instances of UnfoldFold.                                          *)
EXTENDS UnfoldFold

CONSTANTS p1, p2, c1, c2, c3

TwoParents == <<p1, p2>>
ThreeChildren == <<c1, c2, c3>>
=============================================================================

---------------------------- MODULE MCSubevents ----------------------------
(* Two events that are used again, and two workers.                        *)
EXTENDS Subevents

MCSizes == {0, 1, 3}
=============================================================================

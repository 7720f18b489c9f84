---------------------------- MODULE MCJScheduler ----------------------------
(* Small topologies for JScheduler.                                        *)
EXTENDS JScheduler, TLC

\* Source -> map -> sink, the shape JTopologyBuilder makes.
ChainListeners == 0 :> {1} @@ 1 :> {2} @@ 2 :> {}
=============================================================================

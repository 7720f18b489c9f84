---------------------------- MODULE MCEventCycle ----------------------------
(* Two sources: the first skips one entry and stops at a limit before its   *)
(* end, the second uses the old interface, skips one entry and runs to its  *)
(* end, before its nevents limit.                                           *)
EXTENDS EventCycle

TwoSources ==
    <<[nskip |-> 1, nevents |-> 1, entries |-> 3, legacy |-> FALSE],
      [nskip |-> 1, nevents |-> 3, entries |-> 2, legacy |-> TRUE]>>

=============================================================================

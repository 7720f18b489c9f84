----------------------------- MODULE MCServices -----------------------------
(***************************************************************************)
(* Two threads that submit and one worker.  Service "b" depends on "a".    *)
(***************************************************************************)
EXTENDS Services

MCServices == {"a", "b"}
MCDependsOn == [a |-> <<>>, b |-> <<"a">>]
MCLockNames == {"root", "hists"}
MCGroupIds == 1 .. MaxCalls
=============================================================================

---- MODULE MCDispatch ----
(***************************************************************************)
(* Dispatch for TLC: two refs, so that one scan yields two jobs, a queue of *)
(* one, so that the poller and a retry wait at it, and a limit that moves  *)
(* between one and two, so that it is crossed downwards.                   *)
(***************************************************************************)
EXTENDS Dispatch

\* The second commit of the second ref has no .shitty-ci.yml.
OneUnbuildable == {<<2, 2>>}

====

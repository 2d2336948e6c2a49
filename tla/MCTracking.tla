---- MODULE MCTracking ----
(***************************************************************************)
(* Model values for Tracking.                                              *)
(***************************************************************************)
EXTENDS Tracking, TLC

CONSTANTS c1, c2

OneClient == {c1}
TwoClients == {c1, c2}
Interchangeable == Permutations(TwoClients)
====

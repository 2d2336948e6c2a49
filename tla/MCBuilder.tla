---- MODULE MCBuilder ----
(***************************************************************************)
(* Builder for TLC.  Two runnable steps are the least that have a "between *)
(* the steps"; two clients the least that can hold two cancel requests at  *)
(* different points of the handler.                                        *)
(***************************************************************************)
EXTENDS Builder, TLC

\* The handlers are interchangeable (used where no liveness is checked).
ClientSymmetry == Permutations(Clients)

====

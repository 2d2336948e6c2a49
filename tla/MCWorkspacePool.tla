---- MODULE MCWorkspacePool ----
(***************************************************************************)
(* Model values for WorkspacePool: one repository, or "o/n" and "o/n-1".   *)
(***************************************************************************)
EXTENDS WorkspacePool, TLC

CONSTANTS u1, u2, u3, r1, r2

TwoUsers == {u1, u2}
ThreeUsers == {u1, u2, u3}
OneRepo == {r1}
TwoRepos == {r1, r2}
SameRepo == [u \in Users |-> r1]
LastUsesOther == [u \in Users |-> IF u = u3 THEN r2 ELSE r1]
NumberedName == {<<r1, r2>>}
UserSymmetry == Permutations(Users)
====

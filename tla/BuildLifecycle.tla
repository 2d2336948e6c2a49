---- MODULE BuildLifecycle ----
(***************************************************************************)
(* What the daemon promises about one build, seen from outside: its row in *)
(* the builds table and the three events that can justify its outcome.     *)
(*                                                                         *)
(*    absent -> pending -> running -> success | failure                    *)
(*                                  | timed_out | cancelled | interrupted  *)
(*                                                                         *)
(* (types.BuildState, internal/types/types.go.)  A build may be concluded  *)
(* from pending, before any step ran.  An outcome is never taken back, and *)
(* each one needs its cause: a success needs that no step exited non-zero  *)
(* or was killed, a timeout an expired deadline, a cancellation a request. *)
(***************************************************************************)

VARIABLES
    state,      \* state column of the row, "absent" before CreateBuild
    broken,     \* a step of the build exited non-zero or was killed
    overdue,    \* the build's deadline has expired
    asked       \* a user asked for the build to be cancelled

lifecycleVars == <<state, broken, overdue, asked>>

Unfinished == {"pending", "running"}
Verdicts == {"success", "failure", "timed_out", "cancelled"}
Finished == Verdicts \cup {"interrupted"}
BuildState == {"absent"} \cup Unfinished \cup Finished

\* Does outcome v have its cause?
Justified(v) ==
    /\ v = "success" => ~broken
    /\ v = "timed_out" => overdue
    /\ v = "cancelled" => asked

LifecycleInit ==
    /\ state = "absent"
    /\ broken = FALSE
    /\ overdue = FALSE
    /\ asked = FALSE

Create ==
    /\ state = "absent"
    /\ state' = "pending"
    /\ UNCHANGED <<broken, overdue, asked>>

RunSteps ==
    /\ state = "pending"
    /\ state' = "running"
    /\ UNCHANGED <<broken, overdue, asked>>

Conclude ==
    /\ state \in Unfinished
    /\ \E v \in Verdicts : Justified(v) /\ state' = v
    /\ UNCHANGED <<broken, overdue, asked>>

Interrupt ==
    /\ state \in Unfinished
    /\ state' = "interrupted"
    /\ UNCHANGED <<broken, overdue, asked>>

Break == ~broken /\ broken' = TRUE /\ UNCHANGED <<state, overdue, asked>>
Expire == ~overdue /\ overdue' = TRUE /\ UNCHANGED <<state, broken, asked>>
Ask == ~asked /\ asked' = TRUE /\ UNCHANGED <<state, broken, overdue>>

LifecycleNext ==
    Create \/ RunSteps \/ Conclude \/ Interrupt \/ Break \/ Expire \/ Ask

LifecycleSpec == LifecycleInit /\ [][LifecycleNext]_lifecycleVars

====

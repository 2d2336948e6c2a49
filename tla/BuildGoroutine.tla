---- MODULE BuildGoroutine ----
(***************************************************************************)
(* What the queue and the scheduler take for granted of a build, and what  *)
(* runBuild, its deferred calls and recoverStaleBuilds have to keep: the   *)
(* goroutine is started by a serving daemon, returns once its row has an   *)
(* outcome (or when the row could not be created), and a row that a dead   *)
(* daemon left unfinished is interrupted before the next one serves.       *)
(*                                                                         *)
(* Builder.tla, which has the inside of one build, and Dispatch.tla, which *)
(* has many builds and nothing of their inside, both implement this module.*)
(***************************************************************************)

VARIABLES
    place,      \* the goroutine: its job is "queued", it is "working" or "over"
    row,        \* the row: no outcome, "finished" by runBuild, "interrupted"
    up          \* a daemon serves

goroutineVars == <<place, row, up>>

Unfinished == {"pending", "running"}

\* Builder starts where the scheduler has just started the goroutine.
GoroutineInit ==
    /\ place \in {"queued", "working"}
    /\ row = "absent"
    /\ up = TRUE

StartBuild ==
    /\ up
    /\ place = "queued"
    /\ place' = "working"
    /\ UNCHANGED <<row, up>>

Record ==
    /\ place = "working"
    /\ row = "absent"
    /\ row' = "pending"
    /\ UNCHANGED <<place, up>>

RunSteps ==
    /\ place = "working"
    /\ row = "pending"
    /\ row' = "running"
    /\ UNCHANGED <<place, up>>

Conclude ==
    /\ place = "working"
    /\ row \in Unfinished
    /\ row' = "finished"
    /\ UNCHANGED <<place, up>>

Return ==
    /\ place = "working"
    /\ row \in {"absent", "finished"}
    /\ place' = "over"
    /\ UNCHANGED <<row, up>>

\* The daemon dies, and its goroutines with it.
Die ==
    /\ up
    /\ up' = FALSE
    /\ place' = IF place = "working" THEN "over" ELSE place
    /\ UNCHANGED row

Restart ==
    /\ ~up
    /\ up' = TRUE
    /\ row' = IF row \in Unfinished THEN "interrupted" ELSE row
    /\ UNCHANGED place

GoroutineNext ==
    \/ StartBuild
    \/ Record \/ RunSteps \/ Conclude \/ Return
    \/ Die \/ Restart

GoroutineSpec == GoroutineInit /\ [][GoroutineNext]_goroutineVars

====

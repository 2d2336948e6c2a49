---- MODULE BuilderProofs ----
(***************************************************************************)
(* Proofs about Builder, for any number of steps, any set of clients and   *)
(* any set of faults: type correctness, the inductive invariant Inv, and   *)
(* from it the safety properties the runs check on small instances.        *)
(***************************************************************************)
EXTENDS Builder, TLAPS

----------------------------------------------------------------------------
\* The inductive invariant

\* How far the shells are, by the place runBuild is at.
LoopInv ==
    /\ pc \in Setup \cup Checkout =>
          nsteps = 0 /\ \A p \in Steps : proc[p] = "unborn"
    /\ pc \in Loop => /\ step \in 1..nsteps
                      /\ \A p \in Steps : p < step => proc[p] = "ok"
                      /\ \A p \in Steps : p > step => proc[p] = "unborn"
    /\ pc \in {"begin", "start"} => proc[step] = "unborn"
    /\ pc \in {"store", "wait", "clear", "verdict"} => proc[step] # "unborn"
    /\ pc \in {"clear", "verdict"} => proc[step] # "alive"
    /\ pc \in Unwind => Living = {}

\* Outcome v has its cause.
Caused(v) ==
    /\ v = "success" =>
          \A p \in Steps : proc[p] = IF p <= nsteps THEN "ok" ELSE "unborn"
    /\ v = "cancelled" => userCancel
    /\ v = "timed_out" => ctxErr = "deadline"

\* Nothing is decided before runBuild returns, and what it decided has its
\* cause ever after.
DecisionInv ==
    /\ pc \in Setup \cup Checkout \cup Loop => verdict = "none"
    /\ pc = "finish" => verdict \in Verdicts
    /\ Caused(verdict)

\* The row: absent until it is created, without an outcome until runBuild or
\* recovery gives it one, and then that outcome has its cause.
RowInv ==
    /\ pc = "create" => row = "absent"
    /\ pc \in (Setup \ {"create"}) \cup Checkout \cup Loop \cup {"finish"} =>
          row \in Unfinished
    /\ row \in Verdicts => Living = {}
    /\ Caused(row)

\* The workspace is busy from its acquisition to the end of the loop.
WorkspaceInv ==
    /\ pc \in Checkout \cup Loop => ws = "busy"
    /\ Living # {} => ws = "busy"

\* The watcher lives from Arm to Join at most, and the context is made by Arm.
WatcherInv ==
    /\ pc \in Setup \cup {"open", "inspect", "arm", "gone"} => watcher = "off"
    /\ pc \in {"release", "unregister", "returned"} => watcher \in {"off", "done"}
    /\ pc \in Setup \cup {"open", "inspect", "arm"} => ctxErr = "unarmed"

\* Only a process that lost its goroutines recovers.
DaemonInv == daemon \in {"dead", "marked", "back"} => pc = "gone"

Inv ==
    /\ TypeOK
    /\ LoopInv
    /\ DecisionInv
    /\ RowInv
    /\ WorkspaceInv
    /\ WatcherInv
    /\ DaemonInv
    /\ EarlierStepsPassed

----------------------------------------------------------------------------
\* Type correctness

\* The death of the daemon keeps the variables well typed.
LEMMA DieTypeStep ==
    ASSUME TypeOK, Die
    PROVE  TypeOK'
PROOF
<1>1. proc' \in [Steps -> ProcState]
  <2>1. proc \in [Steps -> ProcState]
    BY DEF TypeOK
  <2>2. CASE proc' = proc
    BY <2>1, <2>2
  <2>3. CASE proc' = [p \in Steps |-> IF proc[p] = "alive" THEN "killed"
                                     ELSE proc[p]]
    BY <2>1, <2>3 DEF ProcState
  <2> QED
    BY <2>2, <2>3 DEF Die
<1>2. rpc' \in [Clients -> {"idle", "checked", "found", "flagged", "loaded"}]
  BY DEF Die
<1>3. /\ pc' \in PC
      /\ daemon' \in Daemon
      /\ active' \in BOOLEAN
      /\ curPID' \in 0..MaxSteps
      /\ watcher' \in {"off", "waiting", "loaded", "done"}
  <2>1. /\ pc' = "gone"
        /\ daemon' = "dead"
        /\ active' = FALSE
        /\ curPID' = 0
        /\ watcher' = "off"
    BY DEF Die
  <2>2. 0 \in 0..MaxSteps
    BY StepsAssumption
  <2>3. "gone" \in PC /\ "dead" \in Daemon
    BY DEF PC, Daemon
  <2> QED
    BY <2>1, <2>2, <2>3
<1>4. /\ step' \in 0..MaxSteps
      /\ nsteps' \in 0..MaxSteps
      /\ verdict' \in Verdicts \cup {"none"}
      /\ report' \in CommitStatus
      /\ row' \in RowState
      /\ ws' \in {"idle", "busy"}
      /\ userCancel' \in BOOLEAN
      /\ ctxErr' \in {"unarmed", "none", "deadline", "canceled"}
      /\ watchPID' \in 0..MaxSteps
      /\ rpcPID' \in [Clients -> 0..MaxSteps]
      /\ acked' \in BOOLEAN
      /\ posted' \in CommitStatus
  BY DEF TypeOK, Die, rows
<1> QED
  BY <1>1, <1>2, <1>3, <1>4 DEF TypeOK

\* Every step, of whichever process, keeps the variables well typed.
LEMMA TypeStep ==
    TypeOK /\ DecisionInv /\ [Next]_vars => TypeOK'
PROOF
<1> SUFFICES ASSUME TypeOK, DecisionInv, [Next]_vars PROVE TypeOK'
  OBVIOUS
<1> USE StepsAssumption DEF TypeOK, PC, flow, rows, handle, watch, rpcs
<1>1. CASE CreateRow
  BY <1>1 DEF CreateRow, Goto, Setup, RowState, Unfinished
<1>2. CASE CreateRowFails
  BY <1>2 DEF CreateRowFails, Goto, Unwind
<1>3. CASE Announce
  BY <1>3 DEF Announce, StatusAfter, Goto, Setup, CommitStatus
<1>4. CASE Activate
  BY <1>4 DEF Activate, Goto, Setup
<1>5. CASE Acquire
  BY <1>5 DEF Acquire, Goto, Checkout
<1>6. CASE AcquireFails
  BY <1>6 DEF AcquireFails, Conclude, Unwind, Verdicts, CommitStatus
<1>7. CASE OpenLog
  BY <1>7 DEF OpenLog, Goto, Checkout
<1>8. CASE OpenLogFails
  BY <1>8 DEF OpenLogFails, Conclude, Unwind, Verdicts, CommitStatus
<1>9. CASE Inspect
  BY <1>9 DEF Inspect, Goto, Checkout
<1>10. CASE InspectFails
  BY <1>10 DEF InspectFails, Conclude, Unwind, Verdicts, CommitStatus
<1>11. CASE InspectSkips
  BY <1>11 DEF InspectSkips, Conclude, Unwind, Verdicts, CommitStatus
<1>12. CASE Arm
  BY <1>12 DEF Arm, StatusAfter, Goto, Checkout, CommitStatus
<1>13. CASE Prepare
  BY <1>13 DEF Prepare, Goto, Checkout
<1>14. CASE PrepareFails
  BY <1>14 DEF PrepareFails, Conclude, Unwind, Verdicts, CommitStatus
<1>15. CASE MarkRunning
  BY <1>15
     DEF MarkRunning, Steps, RowAfter, StatusAfter, Loop, RowState, Unfinished,
         CommitStatus
<1>16. CASE MarkRunningStops
  BY <1>16
     DEF MarkRunningStops, RowAfter, StatusAfter, Conclude, Unwind, Verdicts,
         CommitStatus, RowState, Unfinished
<1>17. CASE BeginStep
  BY <1>17
     DEF BeginStep, RowAfter, StatusAfter, Goto, Loop, RowState, Unfinished,
         CommitStatus
<1>18. CASE EmptyStep
  BY <1>18 DEF EmptyStep, Conclude, Unwind, Verdicts, CommitStatus
<1>19. CASE StartStep
  BY <1>19 DEF StartStep, ProcState, Goto, Loop
<1>20. CASE StartStepFails
  BY <1>20 DEF StartStepFails, Conclude, Unwind, Verdicts, CommitStatus
<1>21. CASE StorePID
  BY <1>21 DEF StorePID, Goto, Loop
<1>22. CASE WaitReturns
  BY <1>22 DEF WaitReturns, Goto, Loop
<1>23. CASE ClearPID
  BY <1>23 DEF ClearPID, Goto, Loop
<1>24. CASE JudgeStep
  BY <1>24 DEF JudgeStep, Conclude, Unwind, Verdicts, CommitStatus
<1>25. CASE NextStep
  BY <1>25 DEF NextStep, Steps, Loop
<1>26. CASE Finish
  BY <1>26 DEF Finish, RowAfter, Goto, DecisionInv, Unwind, Verdicts, RowState
<1>27. CASE Report
  BY <1>27 DEF Report, StatusAfter, Goto, Unwind, CommitStatus
<1>28. CASE Join
  BY <1>28 DEF Join, Goto, Unwind
<1>29. CASE Release
  BY <1>29 DEF Release, Goto, Unwind
<1>30. CASE Unregister
  BY <1>30 DEF Unregister, Goto, Unwind
<1>31. CASE WatcherWakes
  BY <1>31 DEF WatcherWakes
<1>32. CASE WatcherKills
  BY <1>32 DEF WatcherKills, ProcState, Kill
<1>33. CASE WatcherStops
  BY <1>33 DEF WatcherStops
<1>34. ASSUME NEW c \in Clients, CancelChecks(c) PROVE TypeOK'
  BY <1>34 DEF CancelChecks
<1>35. ASSUME NEW c \in Clients, CancelLooksUp(c) PROVE TypeOK'
  BY <1>35 DEF CancelLooksUp
<1>36. ASSUME NEW c \in Clients, CancelFlags(c) PROVE TypeOK'
  BY <1>36 DEF CancelFlags
<1>37. ASSUME NEW c \in Clients, CancelLoads(c) PROVE TypeOK'
  BY <1>37 DEF CancelLoads
<1>38. ASSUME NEW c \in Clients, CancelKills(c) PROVE TypeOK'
  BY <1>38 DEF CancelKills, ProcState, Kill
<1>39. ASSUME NEW p \in Steps, ShellExits(p) PROVE TypeOK'
  BY <1>39 DEF ShellExits, ProcState
<1>40. CASE DeadlinePasses
  BY <1>40 DEF DeadlinePasses
<1>41. CASE Stop
  BY <1>41 DEF Stop, Daemon
<1>42. CASE Exit
  BY <1>42, DieTypeStep DEF Exit
<1>43. CASE Crash
  BY <1>43, DieTypeStep DEF Crash
<1>44. CASE Recover
  BY <1>44 DEF Recover, Daemon, RowState
<1>45. CASE RecoverPosts
  BY <1>45 DEF RecoverPosts, StatusAfter, Daemon, CommitStatus
<1>46. CASE UNCHANGED vars
  BY <1>46 DEF vars
<1> QED
  BY <1>1, <1>2, <1>3, <1>4, <1>5, <1>6, <1>7, <1>8, <1>9, <1>10, <1>11, <1>12,
     <1>13, <1>14, <1>15, <1>16, <1>17, <1>18, <1>19, <1>20, <1>21, <1>22,
     <1>23, <1>24, <1>25, <1>26, <1>27, <1>28, <1>29, <1>30, <1>31, <1>32,
     <1>33, <1>34, <1>35, <1>36, <1>37, <1>38, <1>39, <1>40, <1>41, <1>42,
     <1>43, <1>44, <1>45, <1>46
     DEF Next, BuildStep, WatcherStep, CancelStep, RecoverStep

----------------------------------------------------------------------------
\* Shells that end

\* Some of the living shells may end in this step, and nothing else happens
\* to a shell.
ShellsEnd ==
    \A p \in Steps : \/ proc'[p] = proc[p]
                     \/ proc[p] = "alive" /\ proc'[p] \in {"ok", "bad", "killed"}

\* A kill, of whatever pid, ends living shells only.
LEMMA KillEnds ==
    ASSUME NEW q, Kill(q)
    PROVE  ShellsEnd
  BY DEF Kill, ShellsEnd

\* The death of the daemon starts no shell.
LEMMA DieEnds ==
    ASSUME Die
    PROVE  ShellsEnd
PROOF
<1>1. CASE proc' = proc
  BY <1>1 DEF ShellsEnd
<1>2. CASE proc' = [p \in Steps |-> IF proc[p] = "alive" THEN "killed"
                                   ELSE proc[p]]
  BY <1>2 DEF ShellsEnd
<1> QED
  BY <1>1, <1>2 DEF Die

\* What shells that end leave as it was: no shell is born, none comes back,
\* and one that passed stays passed.
LEMMA EndKeeps ==
    ASSUME ShellsEnd
    PROVE  /\ Living' \subseteq Living
           /\ \A p \in Steps : proc'[p] = "unborn" <=> proc[p] = "unborn"
           /\ \A p \in Steps : proc[p] # "alive" => proc'[p] = proc[p]
  BY DEF ShellsEnd, Living

\* A shell may end at any time, by itself or killed on any pid, without
\* breaking the invariant.
LEMMA EndStep ==
    ASSUME Inv, TypeOK', ShellsEnd,
           UNCHANGED <<pc, step, nsteps, verdict, row, ws, userCancel, ctxErr,
                       daemon>>,
           watcher' = watcher \/ (watcher' = "done" /\ watcher = "loaded")
    PROVE  Inv'
PROOF
<1> USE EndKeeps
<1>1. LoopInv'
  <2>1. pc \in Loop => step \in Steps
    BY StepsAssumption DEF Inv, LoopInv, TypeOK, Steps
  <2>2. pc \in {"begin", "start", "store", "wait", "clear", "verdict"} => pc \in Loop
    BY DEF Loop
  <2> QED
    BY <2>1, <2>2 DEF Inv, LoopInv
<1>2. DecisionInv'
  BY DEF Inv, LoopInv, DecisionInv, Caused, Living
<1>3. RowInv'
  BY DEF Inv, RowInv, Caused, Living, Verdicts
<1>4. WorkspaceInv'
  BY DEF Inv, WorkspaceInv
<1>5. WatcherInv'
  BY DEF Inv, WatcherInv
<1>6. DaemonInv'
  BY DEF Inv, DaemonInv
<1>7. EarlierStepsPassed'
  BY DEF Inv, EarlierStepsPassed
<1> QED
  BY <1>1, <1>2, <1>3, <1>4, <1>5, <1>6, <1>7 DEF Inv

\* The death of the daemon keeps the invariant, whether the shells survive
\* it or not.
LEMMA DieStep ==
    ASSUME Inv, TypeOK', Die
    PROVE  Inv'
PROOF
<1> USE EndKeeps
<1>1. /\ ShellsEnd
      /\ pc' = "gone" /\ daemon' = "dead" /\ watcher' = "off"
      /\ UNCHANGED <<step, nsteps, verdict, row, ws, userCancel, ctxErr>>
  BY DieEnds DEF Die, rows
<1>2. LoopInv'
  BY <1>1 DEF LoopInv, Setup, Checkout, Loop, Unwind
<1>3. DecisionInv'
  BY <1>1 DEF Inv, DecisionInv, Caused, Setup, Checkout, Loop
<1>4. RowInv'
  BY <1>1 DEF Inv, RowInv, Caused, Living, Verdicts, Setup, Checkout, Loop
<1>5. WorkspaceInv'
  BY <1>1 DEF Inv, WorkspaceInv, Checkout, Loop
<1>6. WatcherInv'
  BY <1>1 DEF WatcherInv, Setup
<1>7. DaemonInv'
  BY <1>1 DEF DaemonInv
<1>8. EarlierStepsPassed'
  BY <1>1 DEF Inv, EarlierStepsPassed
<1> QED
  BY <1>2, <1>3, <1>4, <1>5, <1>6, <1>7, <1>8 DEF Inv

----------------------------------------------------------------------------
\* The inductive invariant is inductive

\* Every step, of whichever process, keeps the inductive invariant.
LEMMA InvStep ==
    Inv /\ [Next]_vars => Inv'
PROOF
<1> SUFFICES ASSUME Inv, [Next]_vars PROVE Inv'
  OBVIOUS
<1> USE DEF Inv, LoopInv, DecisionInv, RowInv, WorkspaceInv, WatcherInv,
        DaemonInv, EarlierStepsPassed, Caused, Living, Steps,
        Setup, Checkout, Loop, Unwind, Unfinished, Verdicts,
        flow, rows, handle, watch, rpcs
<1>0. TypeOK'
  BY TypeStep
<1>1. CASE CreateRow
  BY <1>0, <1>1 DEF CreateRow, Goto
<1>2. CASE CreateRowFails
  BY <1>0, <1>2 DEF CreateRowFails, Goto
<1>3. CASE Announce
  BY <1>0, <1>3 DEF Announce, Goto
<1>4. CASE Activate
  BY <1>0, <1>4 DEF Activate, Goto
<1>5. CASE Acquire
  BY <1>0, <1>5 DEF Acquire, Goto
<1>6. CASE AcquireFails
  BY <1>0, <1>6 DEF AcquireFails, Conclude
<1>7. CASE OpenLog
  BY <1>0, <1>7 DEF OpenLog, Goto
<1>8. CASE OpenLogFails
  BY <1>0, <1>8 DEF OpenLogFails, Conclude
<1>9. CASE Inspect
  BY <1>0, <1>9 DEF Inspect, Goto
<1>10. CASE InspectFails
  BY <1>0, <1>10 DEF InspectFails, Conclude
<1>11. CASE InspectSkips
  BY <1>0, <1>11 DEF InspectSkips, Conclude
<1>12. CASE Arm
  BY <1>0, <1>12 DEF Arm, Goto
<1>13. CASE Prepare
  BY <1>0, <1>13 DEF Prepare, Goto
<1>14. CASE PrepareFails
  BY <1>0, <1>14 DEF PrepareFails, Conclude
<1>15. CASE MarkRunning
  <2>1. /\ step' = 1
        /\ pc' = "begin"
        /\ nsteps' \in Steps
        /\ row' \in Unfinished
        /\ UNCHANGED <<verdict, ws, userCancel, ctxErr, watcher, proc, daemon>>
    BY <1>15 DEF MarkRunning, RowAfter
  <2>2. \A p \in Steps : proc[p] = "unborn"
    BY <1>15 DEF MarkRunning
  <2>3. EarlierStepsPassed'
    BY <2>1, <2>2
  <2>7. step' \in 1..nsteps'
    BY <2>1, StepsAssumption
  <2>5. \A p \in Steps : proc'[p] = "unborn" /\ ~(p < step')
    BY <2>1, <2>2, StepsAssumption
  <2>6. LoopInv'
    BY <2>1, <2>7, <2>5, StepsAssumption
  <2>4. DecisionInv' /\ RowInv' /\ WorkspaceInv' /\ WatcherInv' /\ DaemonInv'
    BY <1>15, <2>1, <2>2 DEF MarkRunning
  <2> QED
    BY <1>0, <2>3, <2>6, <2>4
<1>16. CASE MarkRunningStops
  BY <1>0, <1>16 DEF MarkRunningStops, Conclude, RowAfter
<1>17. CASE BeginStep
  BY <1>0, <1>17 DEF BeginStep, Goto, RowAfter
<1>18. CASE EmptyStep
  BY <1>0, <1>18 DEF EmptyStep, Conclude
<1>19. CASE StartStep
  <2>1. /\ pc = "start" /\ pc' = "store"
        /\ proc' = [proc EXCEPT ![step] = "alive"]
        /\ UNCHANGED <<step, nsteps, verdict, row, ws, userCancel, ctxErr,
                       watcher, daemon>>
    BY <1>19 DEF StartStep, Goto
  <2>2. step \in Steps /\ step \in 1..nsteps
    BY <2>1 DEF TypeOK
  <2>3. /\ proc'[step] = "alive"
        /\ \A p \in Steps \ {step} : proc'[p] = proc[p]
    BY <2>1, <2>2 DEF TypeOK
  <2>4. LoopInv'
    BY <2>1, <2>2, <2>3
  <2>5. EarlierStepsPassed'
    BY <2>1, <2>2, <2>3 DEF TypeOK
  <2>6. DecisionInv' /\ WorkspaceInv' /\ WatcherInv' /\ DaemonInv'
    BY <2>1
  <2>7. RowInv'
    BY <2>1
  <2> QED
    BY <1>0, <2>4, <2>5, <2>6, <2>7
<1>20. CASE StartStepFails
  BY <1>0, <1>20 DEF StartStepFails, Conclude
<1>21. CASE StorePID
  BY <1>0, <1>21 DEF StorePID, Goto
<1>22. CASE WaitReturns
  BY <1>0, <1>22 DEF WaitReturns, Goto
<1>23. CASE ClearPID
  BY <1>0, <1>23 DEF ClearPID, Goto
<1>24. CASE JudgeStep
  BY <1>0, <1>24
     DEF JudgeStep, Conclude, StepCancelled, StepTimedOut, StepFailed,
         StepPassed
<1>25. CASE NextStep
  <2>1. /\ pc = "verdict" /\ pc' = "begin"
        /\ step < nsteps /\ step' = step + 1
        /\ proc[step] = "ok"
        /\ UNCHANGED <<nsteps, verdict, row, ws, userCancel, ctxErr, watcher,
                       proc, daemon>>
    BY <1>25 DEF NextStep, StepPassed, StepFailed
  <2>2. step' \in 1..nsteps /\ step \in Steps /\ step' \in Steps
    <3>1. step \in 1..nsteps
      BY <2>1
    <3>2. nsteps \in 0..MaxSteps
      BY DEF TypeOK
    <3> HIDE DEF Inv
    <3> QED
      BY <2>1, <3>1, <3>2, StepsAssumption
  <2>3. LoopInv'
    BY <2>1, <2>2
  <2>4. DecisionInv' /\ RowInv' /\ WorkspaceInv' /\ WatcherInv' /\ DaemonInv'
        /\ EarlierStepsPassed'
    BY <2>1
  <2> QED
    BY <1>0, <2>3, <2>4
<1>26. CASE Finish
  BY <1>0, <1>26 DEF Finish, Goto, RowAfter
<1>27. CASE Report
  BY <1>0, <1>27 DEF Report, Goto
<1>28. CASE Join
  BY <1>0, <1>28 DEF Join, Goto
<1>29. CASE Release
  BY <1>0, <1>29 DEF Release, Goto
<1>30. CASE Unregister
  BY <1>0, <1>30 DEF Unregister, Goto
<1>31. CASE WatcherWakes
  BY <1>0, <1>31 DEF WatcherWakes
<1>32. CASE WatcherStops
  BY <1>0, <1>32 DEF WatcherStops
<1>33. CASE WatcherKills
  BY <1>0, <1>33, KillEnds, EndStep DEF WatcherKills
<1>34. ASSUME NEW c \in Clients, CancelChecks(c) PROVE Inv'
  BY <1>0, <1>34 DEF CancelChecks
<1>35. ASSUME NEW c \in Clients, CancelLooksUp(c) PROVE Inv'
  BY <1>0, <1>35 DEF CancelLooksUp
<1>36. ASSUME NEW c \in Clients, CancelFlags(c) PROVE Inv'
  BY <1>0, <1>36 DEF CancelFlags
<1>37. ASSUME NEW c \in Clients, CancelLoads(c) PROVE Inv'
  BY <1>0, <1>37 DEF CancelLoads
<1>38. ASSUME NEW c \in Clients, CancelKills(c) PROVE Inv'
  <2>1. /\ ShellsEnd
        /\ UNCHANGED <<pc, step, nsteps, verdict, row, ws, userCancel, ctxErr,
                       daemon>>
        /\ watcher' = watcher
    BY <1>38, KillEnds DEF CancelKills
  <2> HIDE DEF Inv, Living, Steps
  <2> QED
    BY <1>0, <2>1, EndStep
<1>39. ASSUME NEW p \in Steps, ShellExits(p) PROVE Inv'
  <2>1. ShellsEnd
    BY <1>39 DEF ShellExits, ShellsEnd, TypeOK
  <2> QED
    BY <1>0, <1>39, <2>1, EndStep DEF ShellExits
<1>40. CASE DeadlinePasses
  BY <1>0, <1>40 DEF DeadlinePasses
<1>41. CASE Stop
  BY <1>0, <1>41 DEF Stop
<1>42. CASE Exit
  BY <1>0, <1>42, DieStep DEF Exit
<1>43. CASE Crash
  BY <1>0, <1>43, DieStep DEF Crash
<1>44. CASE Recover
  BY <1>0, <1>44 DEF Recover
<1>45. CASE RecoverPosts
  BY <1>0, <1>45 DEF RecoverPosts
<1>46. CASE UNCHANGED vars
  BY <1>46 DEF vars, TypeOK
<1> QED
  BY <1>1, <1>2, <1>3, <1>4, <1>5, <1>6, <1>7, <1>8, <1>9, <1>10, <1>11, <1>12,
     <1>13, <1>14, <1>15, <1>16, <1>17, <1>18, <1>19, <1>20, <1>21, <1>22,
     <1>23, <1>24, <1>25, <1>26, <1>27, <1>28, <1>29, <1>30, <1>31, <1>32,
     <1>33, <1>34, <1>35, <1>36, <1>37, <1>38, <1>39, <1>40, <1>41, <1>42,
     <1>43, <1>44, <1>45, <1>46
     DEF Next, BuildStep, WatcherStep, CancelStep, RecoverStep

----------------------------------------------------------------------------
\* The theorems

\* Inv holds throughout every behaviour.
LEMMA InvInvariant == Spec => []Inv
PROOF
<1>1. Init => Inv
  <2> SUFFICES ASSUME Init PROVE Inv
    OBVIOUS
  <2>1. TypeOK
    <3>1. /\ "create" \in PC /\ "absent" \in RowState
          /\ "up" \in Daemon /\ "none" \in CommitStatus /\ "unborn" \in ProcState
          /\ 0 \in 0..MaxSteps
      BY StepsAssumption
         DEF PC, Setup, RowState, Daemon, CommitStatus, ProcState
    <3>2. /\ rpc \in [Clients -> {"idle", "checked", "found", "flagged", "loaded"}]
          /\ rpcPID \in [Clients -> 0..MaxSteps]
          /\ proc \in [Steps -> ProcState]
      BY <3>1 DEF Init
    <3> QED
      BY <3>1, <3>2 DEF Init, TypeOK
  <2>2. Inv
    BY <2>1
       DEF Init, Inv, LoopInv, DecisionInv, RowInv, WorkspaceInv, WatcherInv,
           DaemonInv, EarlierStepsPassed, Caused, Living, Setup, Checkout, Loop,
           Unwind, Unfinished, Verdicts
  <2> QED
    BY <2>2
<1> QED
  BY <1>1, InvStep, PTL DEF Spec

\* The variables stay in their types, for every number of steps and clients
\* and every set of faults: the pids in the register, in the watcher and in
\* the handlers are always those of steps of this build.
THEOREM TypeCorrect == Spec => []TypeOK
PROOF
<1>1. Inv => TypeOK
  BY DEF Inv
<1> QED
  BY <1>1, InvInvariant, PTL

\* An outcome, decided or in the database, has its cause, whatever the
\* interleaving of the checks after cmd.Wait with exits, kills, deadline and
\* cancellations: in particular a success ran every runnable step to exit 0.
THEOREM OutcomeHasItsCause == Spec => []VerdictSound
PROOF
<1>1. Inv => VerdictSound
  BY DEF Inv, DecisionInv, RowInv, Caused, VerdictSound
<1> QED
  BY <1>1, InvInvariant, PTL

\* The loop never runs past a step that did not exit 0.
THEOREM StepsRunInOrder == Spec => []EarlierStepsPassed
PROOF
<1>1. Inv => EarlierStepsPassed
  BY DEF Inv
<1> QED
  BY <1>1, InvInvariant, PTL

\* No shell runs in a workspace that is marked idle, not even one that
\* outlived the daemon.
THEOREM WorkspaceIsHeld == Spec => []ShellHasWorkspace
PROOF
<1>1. Inv => ShellHasWorkspace
  BY DEF Inv, WorkspaceInv, ShellHasWorkspace
<1> QED
  BY <1>1, InvInvariant, PTL

\* A build that has an outcome of runBuild has no shell left.
THEOREM NoShellOutlivesVerdict == Spec => []NoShellAfterVerdict
PROOF
<1>1. Inv => NoShellAfterVerdict
  BY DEF Inv, RowInv, NoShellAfterVerdict
<1> QED
  BY <1>1, InvInvariant, PTL

\* runBuild gives nothing back before its watcher is gone.
THEOREM WatcherIsJoined == Spec => []WatcherOutlivedByBuild
PROOF
<1>1. Inv => WatcherOutlivedByBuild
  BY DEF Inv, WatcherInv, WatcherOutlivedByBuild
<1> QED
  BY <1>1, InvInvariant, PTL

----------------------------------------------------------------------------
\* Refinement of BuildLifecycle

\* Nothing the lifecycle sees changes.
Quiet == UNCHANGED <<row, proc, ctxErr, userCancel>>

\* Shells that end, with nothing else changing, are a stuttering step of the
\* lifecycle or its Break.
LEMMA EndRefines ==
    ASSUME ShellsEnd, UNCHANGED <<row, ctxErr, userCancel>>
    PROVE  [Lifecycle!LifecycleNext]_(Lifecycle!lifecycleVars)
PROOF
<1> DEFINE broken == \E p \in Steps : proc[p] \in {"bad", "killed"}
<1>1. broken => broken'
  BY DEF ShellsEnd
<1>2. CASE broken <=> broken'
  BY <1>2 DEF Lifecycle!lifecycleVars
<1>3. CASE ~broken /\ broken'
  <2>1. Lifecycle!Break
    BY <1>3 DEF Lifecycle!Break
  <2> QED
    BY <2>1 DEF Lifecycle!LifecycleNext
<1> QED
  BY <1>1, <1>2, <1>3

\* Every step of the build, its watcher, its clients and its shells is a step
\* of the lifecycle or changes nothing the lifecycle sees.
LEMMA LifecycleStep ==
    ASSUME Inv, [Next]_vars
    PROVE  [Lifecycle!LifecycleNext]_(Lifecycle!lifecycleVars)
PROOF
<1> USE DEF flow, rows, handle, watch, rpcs
<1>1. CASE Quiet
  BY <1>1 DEF Quiet, Lifecycle!lifecycleVars
<1>2. CASE CreateRow
  <2>1. Lifecycle!Create
    BY <1>2 DEF CreateRow, Lifecycle!Create, Inv, RowInv
  <2> QED
    BY <2>1 DEF Lifecycle!LifecycleNext
<1>3. CASE MarkRunning \/ MarkRunningStops \/ BeginStep
  <2>1. row \in Unfinished
    BY <1>3
       DEF MarkRunning, MarkRunningStops, BeginStep, Inv, RowInv, Checkout, Loop
  <2>2. row' \in {row, "running"} /\ UNCHANGED <<proc, ctxErr, userCancel>>
    BY <1>3 DEF MarkRunning, MarkRunningStops, BeginStep, RowAfter
  <2>3. CASE row' = row
    BY <2>2, <2>3 DEF Lifecycle!lifecycleVars
  <2>4. CASE row = "pending" /\ row' = "running"
    <3>1. Lifecycle!RunSteps
      BY <2>2, <2>4 DEF Lifecycle!RunSteps
    <3> QED
      BY <3>1 DEF Lifecycle!LifecycleNext
  <2> QED
    BY <2>1, <2>2, <2>3, <2>4 DEF Unfinished
<1>4. CASE Arm
  <2>1. ctxErr # "deadline" /\ ctxErr' # "deadline"
    BY <1>4 DEF Arm, Inv, WatcherInv
  <2> QED
    BY <1>4, <2>1 DEF Arm, Lifecycle!lifecycleVars
<1>5. CASE StartStep
  <2>1. proc[step] = "unborn" /\ proc \in [Steps -> ProcState]
    BY <1>5 DEF StartStep, Inv, LoopInv, TypeOK
  <2>2. \A p \in Steps : proc'[p] = proc[p] \/ (proc[p] = "unborn" /\ proc'[p] = "alive")
    BY <1>5, <2>1 DEF StartStep
  <2>3. UNCHANGED <<row, ctxErr, userCancel>>
    BY <1>5 DEF StartStep
  <2> QED
    BY <2>2, <2>3 DEF Lifecycle!lifecycleVars
<1>6. CASE Finish
  <2>1. row \in Unfinished /\ verdict \in Verdicts /\ Caused(verdict)
    BY <1>6 DEF Finish, Inv, RowInv, DecisionInv, Unwind
  <2>2. row' \in {row, verdict} /\ UNCHANGED <<proc, ctxErr, userCancel>>
    BY <1>6 DEF Finish, RowAfter
  <2>3. CASE row' = row
    BY <2>2, <2>3 DEF Lifecycle!lifecycleVars
  <2>4. CASE row' = verdict
    <3>1. Lifecycle!Justified(verdict)
      BY <2>1 DEF Caused, Lifecycle!Justified
    <3>2. Lifecycle!Conclude
      BY <2>1, <2>2, <2>4, <3>1
         DEF Lifecycle!Conclude, Lifecycle!Unfinished, Lifecycle!Verdicts,
             Unfinished, Verdicts
    <3> QED
      BY <3>2 DEF Lifecycle!LifecycleNext
  <2> QED
    BY <2>2, <2>3, <2>4
<1>7. CASE Join \/ Stop
  <2>1. /\ ctxErr = "deadline" <=> ctxErr' = "deadline"
        /\ UNCHANGED <<row, proc, userCancel>>
    BY <1>7 DEF Join, Stop
  <2> QED
    BY <2>1 DEF Lifecycle!lifecycleVars
<1>8. CASE WatcherKills
  <2>1. ShellsEnd /\ UNCHANGED <<row, ctxErr, userCancel>>
    BY <1>8, KillEnds DEF WatcherKills
  <2> QED
    BY <2>1, EndRefines
<1>9. ASSUME NEW c \in Clients, CancelFlags(c)
      PROVE  [Lifecycle!LifecycleNext]_(Lifecycle!lifecycleVars)
  <2>1. userCancel' = TRUE /\ UNCHANGED <<row, proc, ctxErr>>
    BY <1>9 DEF CancelFlags
  <2>2. CASE userCancel
    BY <2>1, <2>2 DEF Lifecycle!lifecycleVars
  <2>3. CASE ~userCancel
    <3>1. Lifecycle!Ask
      BY <2>1, <2>3 DEF Lifecycle!Ask
    <3> QED
      BY <3>1 DEF Lifecycle!LifecycleNext
  <2> QED
    BY <2>2, <2>3
<1>10. ASSUME NEW c \in Clients, CancelKills(c)
       PROVE  [Lifecycle!LifecycleNext]_(Lifecycle!lifecycleVars)
  <2>1. ShellsEnd /\ UNCHANGED <<row, ctxErr, userCancel>>
    BY <1>10, KillEnds DEF CancelKills
  <2> QED
    BY <2>1, EndRefines
<1>11. ASSUME NEW p \in Steps, ShellExits(p)
       PROVE  [Lifecycle!LifecycleNext]_(Lifecycle!lifecycleVars)
  <2>1. ShellsEnd /\ UNCHANGED <<row, ctxErr, userCancel>>
    BY <1>11 DEF ShellExits, ShellsEnd, Inv, TypeOK
  <2> QED
    BY <2>1, EndRefines
<1>12. CASE DeadlinePasses
  <2>1. Lifecycle!Expire
    BY <1>12 DEF DeadlinePasses, Lifecycle!Expire
  <2> QED
    BY <2>1 DEF Lifecycle!LifecycleNext
<1>13. CASE Exit \/ Crash
  <2>1. ShellsEnd /\ UNCHANGED <<row, ctxErr, userCancel>>
    BY <1>13, DieEnds DEF Exit, Crash, Die
  <2> QED
    BY <2>1, EndRefines
<1>14. CASE Recover
  <2>1. UNCHANGED <<proc, ctxErr, userCancel>>
    BY <1>14 DEF Recover
  <2>2. CASE row' = row
    BY <2>1, <2>2 DEF Lifecycle!lifecycleVars
  <2>3. CASE row \in Unfinished /\ row' = "interrupted"
    <3>1. Lifecycle!Interrupt
      BY <2>1, <2>3 DEF Lifecycle!Interrupt, Lifecycle!Unfinished, Unfinished
    <3> QED
      BY <3>1 DEF Lifecycle!LifecycleNext
  <2> QED
    BY <1>14, <2>2, <2>3 DEF Recover
<1>15. CASE CreateRowFails \/ Announce \/ Activate \/ Acquire \/ AcquireFails
  BY <1>1, <1>15
     DEF CreateRowFails, Announce, Activate, Acquire, AcquireFails, Quiet
<1>16. CASE OpenLog \/ OpenLogFails \/ Inspect \/ InspectFails \/ InspectSkips
  BY <1>1, <1>16
     DEF OpenLog, OpenLogFails, Inspect, InspectFails, InspectSkips, Quiet
<1>17. CASE Prepare \/ PrepareFails \/ EmptyStep \/ StartStepFails
  BY <1>1, <1>17 DEF Prepare, PrepareFails, EmptyStep, StartStepFails, Quiet
<1>18. CASE StorePID \/ WaitReturns \/ ClearPID \/ JudgeStep \/ NextStep
  BY <1>1, <1>18 DEF StorePID, WaitReturns, ClearPID, JudgeStep, NextStep, Quiet
<1>19. CASE Report \/ Release \/ Unregister \/ WatcherWakes \/ WatcherStops
  BY <1>1, <1>19
     DEF Report, Release, Unregister, WatcherWakes, WatcherStops, Quiet
<1>20. ASSUME NEW c \in Clients,
              CancelChecks(c) \/ CancelLooksUp(c) \/ CancelLoads(c)
       PROVE  [Lifecycle!LifecycleNext]_(Lifecycle!lifecycleVars)
  BY <1>1, <1>20 DEF CancelChecks, CancelLooksUp, CancelLoads, Quiet
<1>21. CASE RecoverPosts \/ UNCHANGED vars
  BY <1>1, <1>21 DEF RecoverPosts, Quiet, vars
<1> QED
  BY <1>2, <1>3, <1>4, <1>5, <1>6, <1>7, <1>8, <1>9, <1>10, <1>11, <1>12, <1>13,
     <1>14, <1>15, <1>16, <1>17, <1>18, <1>19, <1>20, <1>21
     DEF Next, BuildStep, WatcherStep, CancelStep, RecoverStep

\* The build, with its concurrent watcher, cancel requests, faults and
\* recovery, behaves as BuildLifecycle promises.
THEOREM ImplementsLifecycle == Spec => RefinesLifecycle
PROOF
<1>1. Init => Lifecycle!LifecycleInit
  BY DEF Init, Lifecycle!LifecycleInit
<1> QED
  BY <1>1, InvInvariant, LifecycleStep, PTL
     DEF Spec, RefinesLifecycle, Lifecycle!LifecycleSpec

\* An outcome in the database is never changed again, by the loop, by the
\* deferred calls or by the recovery of the next daemon.
THEOREM OutcomeNeverChanges == Spec => OutcomeIsFinal
PROOF
<1>1. ASSUME Inv, [Next]_vars, row \in Finished PROVE row' = row
  <2>1. [Lifecycle!LifecycleNext]_(Lifecycle!lifecycleVars)
    BY <1>1, LifecycleStep
  <2> QED
    BY <1>1, <2>1
       DEF Lifecycle!LifecycleNext, Lifecycle!lifecycleVars, Lifecycle!Create,
           Lifecycle!RunSteps, Lifecycle!Conclude, Lifecycle!Interrupt,
           Lifecycle!Break, Lifecycle!Expire, Lifecycle!Ask,
           Lifecycle!Unfinished, Finished, Verdicts
<1> QED
  BY <1>1, InvInvariant, PTL DEF Spec, OutcomeIsFinal

----------------------------------------------------------------------------
\* The commit status, with a database that accepts its writes

\* The commit status that belongs to an outcome.
StatusOf(v) == IF v \in {"success", "failure"} THEN v ELSE "error"

\* Nothing but "pending" is posted before the outcome is in the row, and then
\* only the status that belongs to it.
PostInv ==
    /\ daemon # "stopping"
    /\ pc \in {"finish", "report"} => report \in {"none", StatusOf(verdict)}
    /\ pc \in Setup \cup Checkout \cup Loop \cup {"finish", "report"} =>
          posted \in {"none", "pending"}
    /\ pc \in Unwind \ {"finish"} => row = verdict
    /\ daemon = "marked" => row = "interrupted"
    /\ StatusFollowsRow

\* Every step keeps it, whatever the posts, the clients and the shells do.
LEMMA PostStep ==
    ASSUME Faults \cap {"db", "stop"} = {}, Inv, PostInv, [Next]_vars
    PROVE  PostInv'
PROOF
<1> USE DEF PostInv, StatusFollowsRow, flow, rows, Inv
<1>1. "db" \notin Faults /\ "stop" \notin Faults
  OBVIOUS
<1>2. CASE UNCHANGED <<pc, verdict, report, row, posted, daemon>>
  BY <1>2
<1>3. CASE CreateRow \/ CreateRowFails
  BY <1>1, <1>3 DEF CreateRow, CreateRowFails, Goto, Setup, Unwind, RowInv
<1>4. CASE Announce
  BY <1>4 DEF Announce, StatusAfter, Goto, Setup, Unwind
<1>5. CASE Activate \/ Acquire \/ AcquireFails
  BY <1>5
     DEF Activate, Acquire, AcquireFails, Goto, Conclude, Setup, Checkout,
         Unwind
<1>6. CASE OpenLog \/ OpenLogFails \/ Inspect \/ InspectFails \/ InspectSkips
  BY <1>6
     DEF OpenLog, OpenLogFails, Inspect, InspectFails, InspectSkips, Goto,
         Conclude, StatusOf, Checkout, Unwind
<1>7. CASE Arm
  BY <1>7 DEF Arm, StatusAfter, Goto, Checkout, Unwind
<1>8. CASE Prepare \/ PrepareFails
  BY <1>8 DEF Prepare, PrepareFails, Goto, Conclude, StatusOf, Checkout, Unwind
<1>9. CASE MarkRunning \/ MarkRunningStops
  BY <1>1, <1>9
     DEF MarkRunning, MarkRunningStops, RowAfter, StatusAfter, Conclude,
         StatusOf, Checkout, Loop, Unwind, DaemonInv
<1>10. CASE BeginStep
  BY <1>1, <1>10
     DEF BeginStep, RowAfter, StatusAfter, Goto, Loop, Unwind, DaemonInv
<1>11. CASE EmptyStep \/ StartStep \/ StartStepFails \/ StorePID
  BY <1>11
     DEF EmptyStep, StartStep, StartStepFails, StorePID, Goto, Conclude,
         StatusOf, Loop, Unwind
<1>12. CASE WaitReturns \/ ClearPID \/ NextStep
  BY <1>12 DEF WaitReturns, ClearPID, NextStep, Goto, Loop, Unwind
<1>13. CASE JudgeStep
  BY <1>13 DEF JudgeStep, Conclude, StatusOf, Loop, Unwind
<1>14. CASE Finish
  BY <1>1, <1>14 DEF Finish, RowAfter, Goto, Unwind, DaemonInv
<1>15. CASE Report
  <2>1. row = verdict /\ verdict \in Verdicts \cup {"none"} /\ row \in RowState
    BY <1>15 DEF Report, Unwind, TypeOK
  <2>2. posted' \in {posted, report} /\ report \in {"none", StatusOf(verdict)}
    BY <1>15 DEF Report, StatusAfter
  <2>3. posted \in {"none", "pending"} /\ row' = row /\ verdict' = verdict
    BY <1>15 DEF Report, Goto
  <2>4. StatusFollowsRow'
    BY <2>1, <2>2, <2>3 DEF StatusOf, Verdicts, RowState, Unfinished
  <2> QED
    BY <1>15, <2>1, <2>3, <2>4 DEF Report, Goto, Setup, Checkout, Loop, Unwind
<1>16. CASE Join \/ Release \/ Unregister
  BY <1>16 DEF Join, Release, Unregister, Goto, Setup, Checkout, Loop, Unwind
<1>17. CASE Exit \/ Crash
  BY <1>17 DEF Exit, Crash, Die, Setup, Checkout, Loop, Unwind
<1>18. CASE Recover
  BY <1>18 DEF Recover, DaemonInv, Unfinished, Setup, Checkout, Loop, Unwind
<1>19. CASE RecoverPosts
  BY <1>19
     DEF RecoverPosts, StatusAfter, DaemonInv, Setup, Checkout, Loop, Unwind
<1>20. ~Stop
  BY <1>1 DEF Stop
<1>21. CASE WatcherStep \/ DeadlinePasses \/ UNCHANGED vars
  BY <1>2, <1>21
     DEF WatcherStep, WatcherWakes, WatcherKills, WatcherStops, DeadlinePasses,
         vars
<1>22. ASSUME NEW c \in Clients, CancelStep(c)
       PROVE  PostInv'
  BY <1>2, <1>22
     DEF CancelStep, CancelChecks, CancelLooksUp, CancelFlags, CancelLoads,
         CancelKills
<1>23. ASSUME NEW p \in Steps, ShellExits(p)
       PROVE  PostInv'
  BY <1>2, <1>23 DEF ShellExits
<1> QED
  BY <1>3, <1>4, <1>5, <1>6, <1>7, <1>8, <1>9, <1>10, <1>11, <1>12, <1>13,
     <1>14, <1>15, <1>16, <1>17, <1>18, <1>19, <1>20, <1>21, <1>22, <1>23
     DEF Next, BuildStep, RecoverStep

\* With a database that accepts its writes the commit status never runs ahead
\* of the row, wherever the daemon dies, and with or without a github_token.
THEOREM StatusNeverRunsAhead ==
    ASSUME Faults \cap {"db", "stop"} = {}
    PROVE  Spec => []StatusFollowsRow
PROOF
<1>1. Init => PostInv
  BY DEF Init, PostInv, StatusFollowsRow, Setup, Unwind
<1>2. Inv /\ PostInv /\ [Next]_vars => PostInv'
  BY PostStep
<1>3. PostInv => StatusFollowsRow
  BY DEF PostInv
<1> QED
  BY <1>1, <1>2, <1>3, InvInvariant, PTL DEF Spec

----------------------------------------------------------------------------
\* Refinement of BuildGoroutine, with a database that accepts its writes

Over == pc \in {"returned", "gone"}

\* Nothing the scheduler sees changes.
Unseen ==
    /\ row' = row
    /\ daemon = "dead" <=> daemon' = "dead"
    /\ Over <=> Over'

LEMMA UnseenStutters ==
    ASSUME Unseen
    PROVE  UNCHANGED Goroutine!goroutineVars
BY DEF Unseen, Over, Goroutine!goroutineVars

\* The goroutine dies where it is, or was over before the daemon died.
LEMMA DeathRefines ==
    ASSUME Crash
    PROVE  Goroutine!GoroutineNext
PROOF
<1>1. /\ daemon # "dead" /\ daemon' = "dead" /\ row' = row
      /\ pc' = "gone"
  BY DEF Crash, Die, rows
<1>2. Goroutine!Die
  BY <1>1 DEF Goroutine!Die
<1> QED
  BY <1>2 DEF Goroutine!GoroutineNext

\* What recovery does to the row is what the scheduler relies on.
LEMMA RecoveryRefines ==
    ASSUME "db" \notin Faults, TypeOK, DaemonInv, Recover
    PROVE  Goroutine!GoroutineNext
PROOF
<1>1. /\ daemon = "dead" /\ daemon' # "dead" /\ pc' = pc /\ pc = "gone"
  BY DEF Recover, DaemonInv, flow
<1>2. /\ row \in Unfinished => row' = "interrupted"
      /\ row \notin Unfinished => row' = row
  BY DEF Recover
<1>3. Goroutine!Restart
  BY <1>1, <1>2 DEF Goroutine!Restart, Goroutine!Unfinished, Unfinished, Verdicts
<1> QED
  BY <1>3 DEF Goroutine!GoroutineNext

\* Every step of the build, of those who interfere with it and of recovery is
\* a step of the goroutine the scheduler knows, or nothing it sees.
LEMMA GoroutineStep ==
    ASSUME Faults \cap {"db", "stop"} = {}, Inv, PostInv, [Next]_vars
    PROVE  [Goroutine!GoroutineNext]_(Goroutine!goroutineVars)
PROOF
<1> USE DEF flow, rows
<1>1. "db" \notin Faults /\ "stop" \notin Faults /\ daemon # "stopping"
  BY DEF PostInv
<1>2. CASE Unseen
  BY <1>2, UnseenStutters
<1>3. CASE CreateRow \/ CreateRowFails
  <2>1. /\ pc = "create" /\ pc' = "announce" /\ row = "absent"
        /\ row' = "pending" /\ daemon' = daemon
    BY <1>1, <1>3 DEF CreateRow, CreateRowFails, Goto, Inv, RowInv
  <2>2. Goroutine!Record
    BY <2>1 DEF Goroutine!Record, Verdicts
  <2> QED
    BY <2>2 DEF Goroutine!GoroutineNext
<1>4. CASE MarkRunning \/ MarkRunningStops \/ BeginStep
  <2>1. row \in Unfinished /\ pc \in {"markrun", "begin"}
    BY <1>4
       DEF MarkRunning, MarkRunningStops, BeginStep, Inv, RowInv, Checkout,
           Loop
  <2>2. /\ row' = "running" /\ daemon' = daemon
        /\ pc' \in {"begin", "start", "finish"}
    BY <1>1, <1>4
       DEF MarkRunning, MarkRunningStops, BeginStep, RowAfter, Goto, Conclude
  <2>3. CASE row = "running"
    BY <1>2, <2>1, <2>2, <2>3 DEF Unseen, Over
  <2>4. CASE row = "pending"
    <3>1. Goroutine!RunSteps
      BY <2>1, <2>2, <2>4 DEF Goroutine!RunSteps, Verdicts
    <3> QED
      BY <3>1 DEF Goroutine!GoroutineNext
  <2> QED
    BY <2>1, <2>3, <2>4 DEF Unfinished
<1>5. CASE Finish
  <2>1. row \in Unfinished /\ verdict \in Verdicts /\ pc = "finish"
    BY <1>5 DEF Finish, Inv, RowInv, DecisionInv
  <2>2. row' = verdict /\ daemon' = daemon /\ pc' = "report"
    BY <1>1, <1>5 DEF Finish, RowAfter, Goto
  <2>3. Goroutine!Conclude
    BY <2>1, <2>2 DEF Goroutine!Conclude, Goroutine!Unfinished, Unfinished, Verdicts
  <2> QED
    BY <2>3 DEF Goroutine!GoroutineNext
<1>6. CASE Unregister
  <2>1. row = verdict /\ pc = "unregister" /\ pc' = "returned"
    BY <1>6 DEF Unregister, Goto, PostInv, Unwind
  <2>2. row' = row /\ daemon' = daemon
    BY <1>6 DEF Unregister
  <2>3. row \in Verdicts \cup {"absent"}
    BY <2>1 DEF Inv, TypeOK, RowState, Verdicts, Unfinished
  <2>4. Goroutine!Return
    BY <2>1, <2>2, <2>3 DEF Goroutine!Return, Verdicts
  <2> QED
    BY <2>4 DEF Goroutine!GoroutineNext
<1>7. CASE Crash
  BY <1>7, DeathRefines
<1>8. CASE Recover
  BY <1>1, <1>8, RecoveryRefines DEF Inv
<1>9. ~Exit /\ ~Stop
  BY <1>1 DEF Exit, Stop
<1>10. CASE RecoverPosts
  BY <1>2, <1>10 DEF RecoverPosts, Unseen, Over
<1>11. CASE Announce \/ Activate \/ Acquire \/ AcquireFails
  <2>1. /\ pc \in {"announce", "activate", "acquire"}
        /\ pc' \in {"activate", "acquire", "open", "finish"}
        /\ UNCHANGED <<row, daemon>>
    BY <1>11 DEF Announce, Activate, Acquire, AcquireFails, Goto, Conclude
  <2> QED
    BY <1>2, <2>1 DEF Unseen, Over
<1>12. CASE OpenLog \/ OpenLogFails \/ Inspect \/ InspectFails \/ InspectSkips
  BY <1>2, <1>12
     DEF OpenLog, OpenLogFails, Inspect, InspectFails, InspectSkips, Goto,
         Conclude, Unseen, Over
<1>13. CASE Arm \/ Prepare \/ PrepareFails
  BY <1>2, <1>13 DEF Arm, Prepare, PrepareFails, Goto, Conclude, Unseen, Over
<1>14. CASE EmptyStep \/ StartStep \/ StartStepFails \/ StorePID
  BY <1>2, <1>14
     DEF EmptyStep, StartStep, StartStepFails, StorePID, Goto, Conclude,
         Unseen, Over
<1>15. CASE WaitReturns \/ ClearPID \/ JudgeStep \/ NextStep
  BY <1>2, <1>15
     DEF WaitReturns, ClearPID, JudgeStep, NextStep, Goto, Conclude, Unseen,
         Over
<1>16. CASE Report \/ Join \/ Release
  BY <1>2, <1>16 DEF Report, Join, Release, Goto, Unseen, Over
<1>17. CASE WatcherStep \/ DeadlinePasses \/ UNCHANGED vars
  BY <1>2, <1>17
     DEF WatcherStep, WatcherWakes, WatcherKills, WatcherStops,
         DeadlinePasses, vars, Unseen, Over
<1>18. ASSUME NEW c \in Clients, CancelStep(c)
       PROVE  [Goroutine!GoroutineNext]_(Goroutine!goroutineVars)
  BY <1>2, <1>18
     DEF CancelStep, CancelChecks, CancelLooksUp, CancelFlags, CancelLoads,
         CancelKills, Unseen, Over
<1>19. ASSUME NEW p \in Steps, ShellExits(p)
       PROVE  [Goroutine!GoroutineNext]_(Goroutine!goroutineVars)
  BY <1>2, <1>19 DEF ShellExits, Unseen, Over
<1>20. CASE BuildStep
  BY <1>3, <1>4, <1>5, <1>6, <1>11, <1>12, <1>13, <1>14, <1>15, <1>16, <1>20
     DEF BuildStep
<1>21. CASE RecoverStep
  BY <1>8, <1>10, <1>21 DEF RecoverStep
<1> QED
  BY <1>7, <1>9, <1>17, <1>18, <1>19, <1>20, <1>21 DEF Next

\* What the scheduler takes for granted of a build is what runBuild, its
\* deferred calls and recovery do, whatever clients, shells, deadline and
\* crashes do to them.
THEOREM ImplementsGoroutine ==
    ASSUME Faults \cap {"db", "stop"} = {}
    PROVE  Spec => RefinesGoroutine
PROOF
<1>1. Init => PostInv
  BY DEF Init, PostInv, StatusFollowsRow, Setup, Unwind
<1>2. Inv /\ PostInv /\ [Next]_vars => PostInv'
  BY PostStep
<1>3. Init => Goroutine!GoroutineInit
  BY DEF Init, Goroutine!GoroutineInit, Verdicts
<1>4. Inv /\ PostInv /\ [Next]_vars =>
          [Goroutine!GoroutineNext]_(Goroutine!goroutineVars)
  BY GoroutineStep
<1> QED
  BY <1>1, <1>2, <1>3, <1>4, InvInvariant, PTL
     DEF Spec, RefinesGoroutine, Goroutine!GoroutineSpec

====

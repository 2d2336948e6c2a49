---- MODULE Builder ----
(***************************************************************************)
(* One build of the shitty-ci daemon, from the moment the scheduler calls  *)
(* runBuild (internal/server/builder.go) until the goroutine returns or    *)
(* the daemon dies, and the recovery at the next start.                    *)
(*                                                                         *)
(* Four kinds of process share the build's state:                          *)
(*   - the build goroutine, a sequence of steps named by pc;               *)
(*   - the watcher goroutine that kills the step when the context ends;    *)
(*   - the handlers of the cancel RPC, one per client;                     *)
(*   - the shells of the build's steps, processes of the operating system. *)
(* Each access to state that another process reads or writes is a step of  *)
(* its own: the row, the workspace row, the pid register, the cancel flag, *)
(* the map of active builds, the commit status.                            *)
(***************************************************************************)
EXTENDS Naturals

CONSTANTS
    MaxSteps,        \* bound on the runnable steps of .shitty-ci.yml
    Clients,         \* connections that may carry a cancel request
    Faults,          \* which faults may happen, see FaultKinds
    PatConfigured    \* github_token is set (recovery posts only then)

\* "db": a write to SQLite returns an error; "github": a status is not
\* accepted; "stop": SIGTERM; "crash": the daemon dies without notice.
FaultKinds == {"db", "github", "stop", "crash"}

ASSUME StepsAssumption == MaxSteps \in Nat
ASSUME FaultsAssumption == Faults \subseteq FaultKinds
ASSUME PatAssumption == PatConfigured \in BOOLEAN

VARIABLES
    \* --- local state of the build goroutine
    pc,             \* where runBuild is
    step,           \* index of the step being executed, 0 before the loop
    nsteps,         \* len(runnable)
    verdict,        \* the outcome runBuild decided, "none" before
    report,         \* the commit status that goes with it, "none" for no post
    \* --- rows of the database
    row,            \* builds.state, "absent" before CreateBuild
    ws,             \* workspaces.status of the workspace the build uses
    \* --- memory shared by the goroutines
    active,         \* a.active has an entry for the build
    userCancel,     \* activeBuild.userCancel
    curPID,         \* the pid register; the pid of step i is i, 0 is "none"
    ctxErr,         \* buildCtx.Err(), "unarmed" before it is made
    watcher,        \* the watcher goroutine
    watchPID,       \* the pid it loaded
    \* --- the cancel handlers
    rpc,            \* per client: how far its cancel request got
    rpcPID,         \* per client: the pid its handler loaded
    acked,          \* some cancel of this build was answered "cancelled"
    \* --- outside the daemon
    proc,           \* per step: the fate of its shell
    posted,         \* last commit status GitHub accepted for the commit
    daemon          \* life of the daemon process

flow == <<pc, step, nsteps, verdict, report>>
rows == <<row, ws>>
handle == <<active, userCancel, curPID>>
watch == <<ctxErr, watcher, watchPID>>
rpcs == <<rpc, rpcPID, acked>>
vars == <<flow, rows, handle, watch, rpcs, proc, posted, daemon>>

Steps == 1..MaxSteps

Unfinished == {"pending", "running"}
Verdicts == {"success", "failure", "timed_out", "cancelled"}
RowState == {"absent", "interrupted"} \cup Unfinished \cup Verdicts
CommitStatus == {"none", "pending", "success", "failure", "error"}
ProcState == {"unborn", "alive", "ok", "bad", "killed"}
Daemon == {"up", "stopping", "dead", "marked", "back"}

\* Program points of runBuild, in the order of the source.
Setup == {"create", "announce", "activate", "acquire"}
Checkout == {"open", "inspect", "arm", "prepare", "markrun"}
Loop == {"begin", "start", "store", "wait", "clear", "verdict"}
Unwind == {"finish", "report", "join", "release", "unregister", "returned"}
PC == Setup \cup Checkout \cup Loop \cup Unwind \cup {"gone"}

TypeOK ==
    /\ pc \in PC
    /\ step \in 0..MaxSteps
    /\ nsteps \in 0..MaxSteps
    /\ verdict \in Verdicts \cup {"none"}
    /\ report \in CommitStatus
    /\ row \in RowState
    /\ ws \in {"idle", "busy"}
    /\ active \in BOOLEAN
    /\ userCancel \in BOOLEAN
    /\ curPID \in 0..MaxSteps
    /\ ctxErr \in {"unarmed", "none", "deadline", "canceled"}
    /\ watcher \in {"off", "waiting", "loaded", "done"}
    /\ watchPID \in 0..MaxSteps
    /\ rpc \in [Clients -> {"idle", "checked", "found", "flagged", "loaded"}]
    /\ rpcPID \in [Clients -> 0..MaxSteps]
    /\ acked \in BOOLEAN
    /\ proc \in [Steps -> ProcState]
    /\ posted \in CommitStatus
    /\ daemon \in Daemon

Init ==
    /\ pc = "create"
    /\ step = 0
    /\ nsteps = 0
    /\ verdict = "none"
    /\ report = "none"
    /\ row = "absent"
    /\ ws = "idle"
    /\ active = FALSE
    /\ userCancel = FALSE
    /\ curPID = 0
    /\ ctxErr = "unarmed"
    /\ watcher = "off"
    /\ watchPID = 0
    /\ rpc = [c \in Clients |-> "idle"]
    /\ rpcPID = [c \in Clients |-> 0]
    /\ acked = FALSE
    /\ proc = [p \in Steps |-> "unborn"]
    /\ posted = "none"
    /\ daemon = "up"

----------------------------------------------------------------------------
\* Helpers

Goto(next) == pc' = next /\ UNCHANGED <<step, nsteps, verdict, report>>

\* Bug: the outcome is posted and never recorded.
ConcludeUnrecorded(v, r) ==
    /\ pc' = "report"
    /\ verdict' = v
    /\ report' = r
    /\ UNCHANGED <<step, nsteps>>

\* runBuild decides the outcome v and the commit status r that goes with it,
\* and returns once it has recorded them.
Conclude(v, r) ==
    /\ pc' = "finish"
    /\ verdict' = v
    /\ report' = r
    /\ UNCHANGED <<step, nsteps>>

\* The row after UpdateBuildState(s).  Its error is ignored; it is certain
\* once the daemon's context is cancelled.
RowAfter(s) ==
    IF daemon = "stopping" THEN {row}
    ELSE {s} \cup (IF "db" \in Faults THEN {row} ELSE {})

\* The commit status after a post of s, which may fail.
StatusAfter(s) == {s} \cup (IF "github" \in Faults THEN {posted} ELSE {})

\* SIGKILL to the group of pid p: only a living shell dies of it.
Kill(p) ==
    proc' = [q \in Steps |-> IF q = p /\ proc[q] = "alive" THEN "killed"
                             ELSE proc[q]]

----------------------------------------------------------------------------
\* The build goroutine: runBuild

\* CreateBuild; without a row the goroutine returns at once.
CreateRow ==
    /\ pc = "create"
    /\ daemon # "stopping"
    /\ row' = "pending"
    /\ Goto("announce")
    /\ UNCHANGED <<ws, handle, watch, rpcs, proc, posted, daemon>>

CreateRowFails ==
    /\ pc = "create"
    /\ "db" \in Faults \/ daemon = "stopping"
    /\ Goto("returned")
    /\ UNCHANGED <<rows, handle, watch, rpcs, proc, posted, daemon>>

\* createBuildCheckRun: every one of its branches posts "pending".
Announce ==
    /\ pc = "announce"
    /\ posted' \in StatusAfter("pending")
    /\ Goto("activate")
    /\ UNCHANGED <<rows, handle, watch, rpcs, proc, daemon>>

\* setActivePID: from here on a cancel request finds the build.
Activate ==
    /\ pc = "activate"
    /\ active' = TRUE
    /\ Goto("acquire")
    /\ UNCHANGED <<rows, userCancel, curPID, watch, rpcs, proc, posted, daemon>>

\* acquireWorkspace marks a workspace row busy.
Acquire ==
    /\ pc = "acquire"
    /\ daemon # "stopping"
    /\ ws' = "busy"
    /\ Goto("open")
    /\ UNCHANGED <<row, handle, watch, rpcs, proc, posted, daemon>>

\* acquireWorkspace fails (clone, SQLite): recorded, not posted.
AcquireFails ==
    /\ pc = "acquire"
    /\ Conclude("failure", "none")
    /\ UNCHANGED <<rows, handle, watch, rpcs, proc, posted, daemon>>

OpenLog ==
    /\ pc = "open"
    /\ Goto("inspect")
    /\ UNCHANGED <<rows, handle, watch, rpcs, proc, posted, daemon>>

\* The log file cannot be opened: recorded, not posted.
OpenLogFails ==
    /\ pc = "open"
    /\ Conclude("failure", "none")
    /\ UNCHANGED <<rows, handle, watch, rpcs, proc, posted, daemon>>

\* git fetch, git show, Parse and ShouldBuildRef let the build go on.
Inspect ==
    /\ pc = "inspect"
    /\ Goto("arm")
    /\ UNCHANGED <<rows, handle, watch, rpcs, proc, posted, daemon>>

\* git fetch failed, invalid .shitty-ci.yml, or no steps in it.
InspectFails ==
    /\ pc = "inspect"
    /\ Conclude("failure", "failure")
    /\ UNCHANGED <<rows, handle, watch, rpcs, proc, posted, daemon>>

\* No .shitty-ci.yml in the commit, or its filters exclude the ref: the
\* build is a success that ran nothing, and nothing is posted.
InspectSkips ==
    /\ pc = "inspect"
    /\ Conclude("success", "none")
    /\ UNCHANGED <<rows, handle, watch, rpcs, proc, posted, daemon>>

\* "Preparing workspace", the build context with its deadline, the watcher.
\* A context made from a cancelled one is cancelled at once.
Arm ==
    /\ pc = "arm"
    /\ posted' \in StatusAfter("pending")
    /\ ctxErr' = IF daemon = "stopping" THEN "canceled" ELSE "none"
    /\ watcher' = "waiting"
    /\ Goto("prepare")
    /\ UNCHANGED <<rows, handle, watchPID, rpcs, proc, daemon>>

\* git checkout --force, git clean -fd
Prepare ==
    /\ pc = "prepare"
    /\ Goto("markrun")
    /\ UNCHANGED <<rows, handle, watch, rpcs, proc, posted, daemon>>

PrepareFails ==
    /\ pc = "prepare"
    /\ Conclude("failure", "failure")
    /\ UNCHANGED <<rows, handle, watch, rpcs, proc, posted, daemon>>

\* The row becomes running; the step filters leave n runnable steps.
MarkRunning ==
    /\ pc = "markrun"
    /\ row' \in RowAfter("running")
    /\ posted' \in StatusAfter("pending")
    /\ \E n \in Steps : nsteps' = n
    /\ step' = 1
    /\ pc' = "begin"
    /\ UNCHANGED <<verdict, report, ws, handle, watch, rpcs, proc, daemon>>

\* A step's filter is invalid (failure), or no step is left (success).
MarkRunningStops ==
    /\ pc = "markrun"
    /\ row' \in RowAfter("running")
    /\ posted' \in StatusAfter("pending")
    /\ \E v \in {"failure", "success"} : Conclude(v, v)
    /\ UNCHANGED <<ws, handle, watch, rpcs, proc, daemon>>

\* The row names the step, and an unnamed step posts nothing.
BeginStep ==
    /\ pc = "begin"
    /\ row' \in RowAfter("running")
    /\ posted' \in StatusAfter("pending") \cup {posted}
    /\ Goto("start")
    /\ UNCHANGED <<ws, handle, watch, rpcs, proc, daemon>>

\* step.Run = ""
EmptyStep ==
    /\ pc = "begin"
    /\ Conclude("failure", "failure")
    /\ UNCHANGED <<rows, handle, watch, rpcs, proc, posted, daemon>>

\* cmd.Start: the shell of the step is born, its pid not yet published.
StartStep ==
    /\ pc = "start"
    /\ proc' = [proc EXCEPT ![step] = "alive"]
    /\ Goto("store")
    /\ UNCHANGED <<rows, handle, watch, rpcs, posted, daemon>>

StartStepFails ==
    /\ pc = "start"
    /\ Conclude("failure", "failure")
    /\ UNCHANGED <<rows, handle, watch, rpcs, proc, posted, daemon>>

\* curPID.Store(pid)
StorePID ==
    /\ pc = "store"
    /\ curPID' = step
    /\ Goto("wait")
    /\ UNCHANGED <<rows, active, userCancel, watch, rpcs, proc, posted, daemon>>

\* Bug: the wait is given up when the deadline passes.
WaitGivesUp ==
    /\ pc = "wait"
    /\ proc[step] # "alive" \/ ctxErr = "deadline"
    /\ Goto("clear")
    /\ UNCHANGED <<rows, handle, watch, rpcs, proc, posted, daemon>>

\* cmd.Wait returns: the shell is dead and reaped.
WaitReturns ==
    /\ pc = "wait"
    /\ proc[step] # "alive"
    /\ Goto("clear")
    /\ UNCHANGED <<rows, handle, watch, rpcs, proc, posted, daemon>>

\* curPID.Store(0)
ClearPID ==
    /\ pc = "clear"
    /\ curPID' = 0
    /\ Goto("verdict")
    /\ UNCHANGED <<rows, active, userCancel, watch, rpcs, proc, posted, daemon>>

\* Bug: a SIGKILLed shell is taken for a cancellation.
StepCancelledBySignal == proc[step] = "killed"

\* Bug: the deadline is looked at before the cancellation.
StepCancelledInTime == userCancel /\ ctxErr # "deadline"

\* After the step: a user's cancellation counts before the deadline, the
\* deadline before the exit code.
StepCancelled == userCancel
StepTimedOut == ~StepCancelled /\ ctxErr = "deadline"
\* Bug: only an exit code counts as a failure, a signal does not.
StepFailedByCode == ~StepCancelled /\ ~StepTimedOut /\ proc[step] = "bad"
StepFailed == ~StepCancelled /\ ~StepTimedOut /\ proc[step] # "ok"
StepPassed == ~StepCancelled /\ ~StepTimedOut /\ ~StepFailed

\* Bug: the loop is over after any step that passed.
JudgeStepEarly ==
    /\ pc = "verdict"
    /\ \/ StepCancelled /\ Conclude("cancelled", "error")
       \/ StepTimedOut /\ Conclude("timed_out", "error")
       \/ StepFailed /\ Conclude("failure", "failure")
       \/ StepPassed /\ Conclude("success", "success")
    /\ UNCHANGED <<rows, handle, watch, rpcs, proc, posted, daemon>>

JudgeStep ==
    /\ pc = "verdict"
    /\ \/ StepCancelled /\ Conclude("cancelled", "error")
       \/ StepTimedOut /\ Conclude("timed_out", "error")
       \/ StepFailed /\ Conclude("failure", "failure")
       \/ StepPassed /\ step = nsteps /\ Conclude("success", "success")
    /\ UNCHANGED <<rows, handle, watch, rpcs, proc, posted, daemon>>

\* Bug: off by one at the end of the loop.
NextStepPastEnd ==
    /\ pc = "verdict"
    /\ StepPassed
    /\ step <= nsteps
    /\ step' = step + 1
    /\ pc' = "begin"
    /\ UNCHANGED <<nsteps, verdict, report, rows, handle, watch, rpcs, proc,
                   posted, daemon>>

NextStep ==
    /\ pc = "verdict"
    /\ StepPassed
    /\ step < nsteps
    /\ step' = step + 1
    /\ pc' = "begin"
    /\ UNCHANGED <<nsteps, verdict, report, rows, handle, watch, rpcs, proc,
                   posted, daemon>>

\* The row takes the outcome; the error of the write is ignored.
Finish ==
    /\ pc = "finish"
    /\ row' \in RowAfter(verdict)
    /\ Goto("report")
    /\ UNCHANGED <<ws, handle, watch, rpcs, proc, posted, daemon>>

\* Then GitHub is told, unless the outcome is one nobody posts.
Report ==
    /\ pc = "report"
    /\ posted' \in IF report = "none" THEN {posted} ELSE StatusAfter(report)
    /\ Goto("join")
    /\ UNCHANGED <<rows, handle, watch, rpcs, proc, daemon>>

\* Bug: the watcher is told to stop and not waited for.
JoinAtOnce ==
    /\ pc = "join"
    /\ ctxErr' = IF ctxErr = "none" THEN "canceled" ELSE ctxErr
    /\ Goto("release")
    /\ UNCHANGED <<rows, handle, watcher, watchPID, rpcs, proc, posted, daemon>>

\* Deferred: close(stopWatch), <-watchDone, and the context is cancelled.
Join ==
    /\ pc = "join"
    /\ watcher \in {"off", "done"}
    /\ ctxErr' = IF ctxErr = "none" THEN "canceled" ELSE ctxErr
    /\ Goto("release")
    /\ UNCHANGED <<rows, handle, watcher, watchPID, rpcs, proc, posted, daemon>>

\* Bug: the workspace is released under the build's own context.
ReleaseUnderBuildContext ==
    /\ pc = "release"
    /\ ws' = IF ctxErr = "deadline" THEN ws ELSE "idle"
    /\ Goto("unregister")
    /\ UNCHANGED <<row, handle, watch, rpcs, proc, posted, daemon>>

\* Deferred: releaseWorkspace under a context nobody cancels.
Release ==
    /\ pc = "release"
    /\ ws' \in {"idle"} \cup (IF "db" \in Faults THEN {ws} ELSE {})
    /\ Goto("unregister")
    /\ UNCHANGED <<row, handle, watch, rpcs, proc, posted, daemon>>

\* Deferred: clearActive.
Unregister ==
    /\ pc = "unregister"
    /\ active' = FALSE
    /\ Goto("returned")
    /\ UNCHANGED <<rows, userCancel, curPID, watch, rpcs, proc, posted, daemon>>

BuildStep ==
    \/ CreateRow \/ CreateRowFails \/ Announce \/ Activate
    \/ Acquire \/ AcquireFails \/ OpenLog \/ OpenLogFails
    \/ Inspect \/ InspectFails \/ InspectSkips \/ Arm
    \/ Prepare \/ PrepareFails \/ MarkRunning \/ MarkRunningStops
    \/ BeginStep \/ EmptyStep \/ StartStep \/ StartStepFails
    \/ StorePID \/ WaitReturns \/ ClearPID \/ JudgeStep \/ NextStep
    \/ Finish \/ Report \/ Join \/ Release \/ Unregister

----------------------------------------------------------------------------
\* The watcher: one select, one kill

\* <-buildCtx.Done() is taken, and the register is read once.
WatcherWakes ==
    /\ watcher = "waiting"
    /\ ctxErr \in {"deadline", "canceled"}
    /\ watcher' = "loaded"
    /\ watchPID' = curPID
    /\ UNCHANGED <<flow, rows, handle, ctxErr, rpcs, proc, posted, daemon>>

WatcherKills ==
    /\ watcher = "loaded"
    /\ Kill(watchPID)
    /\ watcher' = "done"
    /\ UNCHANGED <<flow, rows, handle, ctxErr, watchPID, rpcs, posted, daemon>>

\* <-stopWatch is taken: runBuild is returning.
WatcherStops ==
    /\ watcher = "waiting"
    /\ pc = "join"
    /\ watcher' = "done"
    /\ UNCHANGED <<flow, rows, handle, ctxErr, watchPID, rpcs, proc, posted,
                   daemon>>

WatcherStep == WatcherWakes \/ WatcherKills \/ WatcherStops

----------------------------------------------------------------------------
\* A cancel request of client c: dispatch("cancel") and requestCancel

\* GetBuild finds the row running; any other state is answered with an error.
CancelChecks(c) ==
    /\ rpc[c] = "idle"
    /\ daemon \in {"up", "back"}
    /\ row = "running"
    /\ rpc' = [rpc EXCEPT ![c] = "checked"]
    /\ UNCHANGED <<flow, rows, handle, watch, rpcPID, acked, proc, posted,
                   daemon>>

\* The entry of a.active is read under its lock; without one the answer is
\* an error.
CancelLooksUp(c) ==
    /\ rpc[c] = "checked"
    /\ rpc' = [rpc EXCEPT ![c] = IF active THEN "found" ELSE "idle"]
    /\ UNCHANGED <<flow, rows, handle, watch, rpcPID, acked, proc, posted,
                   daemon>>

\* userCancel.Store(true), on an entry that may have left the map by now.
CancelFlags(c) ==
    /\ rpc[c] = "found"
    /\ userCancel' = TRUE
    /\ rpc' = [rpc EXCEPT ![c] = "flagged"]
    /\ UNCHANGED <<flow, rows, active, curPID, watch, rpcPID, acked, proc,
                   posted, daemon>>

CancelLoads(c) ==
    /\ rpc[c] = "flagged"
    /\ rpcPID' = [rpcPID EXCEPT ![c] = curPID]
    /\ rpc' = [rpc EXCEPT ![c] = "loaded"]
    /\ UNCHANGED <<flow, rows, handle, watch, acked, proc, posted, daemon>>

\* Kill if there is a pid, and answer "cancelled" either way.
CancelKills(c) ==
    /\ rpc[c] = "loaded"
    /\ Kill(rpcPID[c])
    /\ acked' = TRUE
    /\ rpc' = [rpc EXCEPT ![c] = "idle"]
    /\ UNCHANGED <<flow, rows, handle, watch, rpcPID, posted, daemon>>

CancelStep(c) ==
    \/ CancelChecks(c) \/ CancelLooksUp(c) \/ CancelFlags(c)
    \/ CancelLoads(c) \/ CancelKills(c)

----------------------------------------------------------------------------
\* The shells, the clock, the death of the daemon and the next start

\* The shell of step p exits by itself.
ShellExits(p) ==
    /\ proc[p] = "alive"
    /\ \E s \in {"ok", "bad"} : proc' = [proc EXCEPT ![p] = s]
    /\ UNCHANGED <<flow, rows, handle, watch, rpcs, posted, daemon>>

\* build_timeout is over.
DeadlinePasses ==
    /\ ctxErr = "none"
    /\ pc # "gone"
    /\ ctxErr' = "deadline"
    /\ UNCHANGED <<flow, rows, handle, watcher, watchPID, rpcs, proc, posted,
                   daemon>>

\* SIGTERM or SIGINT cancels the daemon's context and, through it, the
\* build's.  The goroutines run on until the process exits.
Stop ==
    /\ "stop" \in Faults
    /\ daemon = "up"
    /\ daemon' = "stopping"
    /\ ctxErr' = IF ctxErr = "none" THEN "canceled" ELSE ctxErr
    /\ UNCHANGED <<flow, rows, handle, watcher, watchPID, rpcs, proc, posted>>

\* The process is gone and its memory with it.  The shells have process
\* groups of their own: they survive, or a supervisor kills them.
Die ==
    /\ pc' = "gone"
    /\ daemon' = "dead"
    /\ active' = FALSE
    /\ curPID' = 0
    /\ watcher' = "off"
    /\ rpc' = [c \in Clients |-> "idle"]
    /\ \/ proc' = proc
       \/ proc' = [p \in Steps |-> IF proc[p] = "alive" THEN "killed"
                                   ELSE proc[p]]
    /\ UNCHANGED <<step, nsteps, verdict, report, rows, userCancel, ctxErr,
                   watchPID, rpcPID, acked, posted>>

Exit == daemon = "stopping" /\ Die

Crash == "crash" \in Faults /\ daemon # "dead" /\ Die

\* Bug: recovery also marks rows that have an outcome.
RecoverAll ==
    /\ daemon = "dead"
    /\ row' = IF row = "absent" THEN row ELSE "interrupted"
    /\ daemon' = "marked"
    /\ UNCHANGED <<flow, ws, handle, watch, rpcs, proc, posted>>

\* Bug: recovery forgets the rows that are still pending.
RecoverRunning ==
    /\ daemon = "dead"
    /\ row' = IF row = "running" THEN "interrupted" ELSE row
    /\ daemon' = "marked"
    /\ UNCHANGED <<flow, ws, handle, watch, rpcs, proc, posted>>

\* Bug: recovery hands the workspaces of the dead daemon out again.
RecoverFreesWorkspace ==
    /\ daemon = "dead"
    /\ row' = IF row \in Unfinished THEN "interrupted" ELSE row
    /\ ws' = "idle"
    /\ daemon' = "marked"
    /\ UNCHANGED <<flow, handle, watch, rpcs, proc, posted>>

\* recoverStaleBuilds at the next start: an unfinished row is interrupted.
Recover ==
    /\ daemon = "dead"
    /\ \/ /\ row \in Unfinished
          /\ row' = "interrupted"
          /\ daemon' = "marked"
       \/ /\ row \notin Unfinished \/ "db" \in Faults
          /\ daemon' = "back"
          /\ UNCHANGED row
    /\ UNCHANGED <<flow, ws, handle, watch, rpcs, proc, posted>>

\* ... and then posted, when github_token is set.
RecoverPosts ==
    /\ daemon = "marked"
    /\ posted' \in IF PatConfigured THEN StatusAfter("error") ELSE {posted}
    /\ daemon' = "back"
    /\ UNCHANGED <<flow, rows, handle, watch, rpcs, proc>>

RecoverStep == Recover \/ RecoverPosts

Next ==
    \/ BuildStep
    \/ WatcherStep
    \/ \E c \in Clients : CancelStep(c)
    \/ \E p \in Steps : ShellExits(p)
    \/ DeadlinePasses
    \/ Stop
    \/ Exit
    \/ Crash
    \/ RecoverStep

Spec == Init /\ [][Next]_vars

\* Goroutines and handlers are scheduled, timers fire, a stopping process
\* exits, and a dead daemon is started again.
Fairness ==
    /\ WF_vars(BuildStep)
    /\ WF_vars(WatcherStep)
    /\ \A c \in Clients : WF_vars(CancelLooksUp(c) \/ CancelFlags(c)
                                   \/ CancelLoads(c) \/ CancelKills(c))
    /\ WF_vars(DeadlinePasses)
    /\ WF_vars(Exit)
    /\ WF_vars(RecoverStep)

\* A step of the user's may hang.
FairSpec == Spec /\ Fairness

\* Every shell exits if it is left alone.
ShellsExit == \A p \in Steps : WF_vars(ShellExits(p))

----------------------------------------------------------------------------
\* Properties

Finished == Verdicts \cup {"interrupted"}
Living == {p \in Steps : proc[p] = "alive"}

\* An outcome has its cause, from the moment runBuild decides on it and in
\* the row, however cancellation, deadline, exits and kills interleaved with
\* the checks after cmd.Wait: a success ran every runnable step, each to exit
\* 0 (and no shell at all where there was none to run), a cancellation was
\* asked for, a timeout had a deadline that passed (builder.go, the checks
\* after Wait, their order, and the end of the loop).
VerdictSound ==
    /\ "success" \in {verdict, row} =>
           \A p \in Steps : proc[p] = IF p <= nsteps THEN "ok" ELSE "unborn"
    /\ "cancelled" \in {verdict, row} => userCancel
    /\ "timed_out" \in {verdict, row} => ctxErr = "deadline"

\* No step starts unless every earlier one exited 0: neither a kill nor a
\* cancellation nor a timeout lets the loop run past the step it hit
\* (README.md: "First non-zero exit marks the build failed; later steps are
\* skipped").
EarlierStepsPassed ==
    \A p, q \in Steps : p < q /\ proc[q] # "unborn" => proc[p] = "ok"

\* A step's shell runs only while its workspace is marked busy, also when it
\* outlives the daemon: an idle workspace may be cleaned, pruned or given to
\* another build under the shell (the deferred releaseWorkspace).
ShellHasWorkspace == Living # {} => ws = "busy"

\* Once a build has one of runBuild's outcomes, none of its shells is alive.
NoShellAfterVerdict == row \in Verdicts => Living = {}

\* The watcher is gone before the workspace is given back and the entry of
\* a.active removed, so it cannot kill on behalf of a build that is over
\* (the deferred close(stopWatch) and <-watchDone).
WatcherOutlivedByBuild ==
    pc \in {"release", "unregister", "returned"} => watcher \in {"off", "done"}

\* An outcome is never overwritten, although UpdateBuildState is an unguarded
\* UPDATE: neither the loop's later writes nor recovery touch a finished row.
OutcomeIsFinal == [][(row \in Finished) => (row' = row)]_vars

\* The row and the events behind it behave as BuildLifecycle promises.
Lifecycle == INSTANCE BuildLifecycle WITH
    state <- row,
    broken <- \E p \in Steps : proc[p] \in {"bad", "killed"},
    overdue <- ctxErr = "deadline",
    asked <- userCancel

RefinesLifecycle == Lifecycle!LifecycleSpec

\* Seen from the scheduler, this build behaves as BuildGoroutine promises, and
\* Dispatch takes nothing else for granted: its goroutine returns with an
\* outcome in the row, wherever runBuild gives up, and a row the dead daemon
\* left is interrupted.  (Needs writes that succeed: no "db", no "stop".)
Goroutine == INSTANCE BuildGoroutine WITH
    place <- IF pc \in {"returned", "gone"} THEN "over" ELSE "working",
    row <- IF row \in Verdicts THEN "finished" ELSE row,
    up <- daemon # "dead"

RefinesGoroutine == Goroutine!GoroutineSpec

\* The commit status never runs ahead of the row: an outcome on GitHub is
\* already the one in the database, also if the daemon dies between the
\* two.  (Needs a database that accepts its writes, so no "db", no "stop".)
StatusFollowsRow ==
    /\ posted = "success" => row = "success"
    /\ posted = "failure" => row = "failure"
    /\ posted = "error" => row \in {"cancelled", "timed_out", "interrupted"}

\* A build recorded as unfinished gets an outcome: from runBuild if the
\* shells exit, from recovery if the daemon dies first.
BuildSettles == ShellsExit => (row \in Unfinished ~> row \in Finished)

\* A build that holds a workspace gives it back, unless the daemon dies: no
\* path through runBuild, its watcher and its deferred calls keeps it.
WorkspaceReturns == ShellsExit => (ws = "busy" ~> (ws = "idle" \/ pc = "gone"))

\* A cancel request that finds the pid of the step being waited for ends the
\* build as cancelled, even if the step would hang, exits by itself before
\* the kill, or is killed by the watcher first (requestCancel sets the flag
\* before it reads the pid; runBuild looks at the flag first).
CancelOfRunningStepWins ==
    \A c \in Clients :
        rpc[c] = "loaded" /\ pc = "wait" /\ rpcPID[c] = step
            ~> pc = "gone" \/ (pc = "returned" /\ verdict = "cancelled")

\* CONTEXT.md:70, the build timeout: "Killed with SIGKILL to the process
\* group.": a build whose deadline has passed ends, even if its step hangs.
TimeoutEndsBuild == ctxErr = "deadline" ~> pc \in {"returned", "gone"}

====

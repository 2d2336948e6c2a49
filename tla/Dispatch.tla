---- MODULE Dispatch ----
(***************************************************************************)
(* How a pushed commit becomes a running build (internal/server/server.go):*)
(* the poller compares the tips of a repository with repo_refs and feeds a *)
(* bounded queue, the scheduler takes jobs from it and starts one build    *)
(* goroutine each while fewer than max_concurrent_builds run, and retry    *)
(* requests feed the same queue.  The queue, the counter of running builds *)
(* and everything the goroutines know die with the daemon; the rows of     *)
(* builds and repo_refs stay.                                              *)
(*                                                                         *)
(* A build itself is four steps here (started, recorded, running, over);   *)
(* Builder.tla has what happens in between.  Refs are numbered in the order*)
(* git for-each-ref lists them, commits are numbered, 0 is the commit the  *)
(* repository had when it was added.                                       *)
(***************************************************************************)
EXTENDS Naturals, Sequences, FiniteSets, Functions

CONSTANTS
    NRefs,          \* branches and tags of the repository
    NCommits,       \* commits that may be pushed
    Unbuildable,    \* <<ref, commit>>: no or invalid .shitty-ci.yml, or filtered
    QueueCap,       \* capacity of App.queue (256 in NewApp)
    Limits,         \* values max_concurrent_builds may be given in config.yml
    MaxPushes,      \* bound on the pushes
    MaxRetries,     \* bound on the retry requests
    MaxFaults       \* bound on the crashes and failed writes

Refs == 1..NRefs
Commits == 0..NCommits

ASSUME SizeAssumption ==
    /\ NRefs \in Nat
    /\ NCommits \in Nat
    /\ MaxPushes \in Nat
    /\ MaxRetries \in Nat
    /\ MaxFaults \in Nat
ASSUME QueueAssumption == QueueCap \in Nat \ {0}
\* config.Load keeps the default for values below 1, maxConcurrent has 4.
ASSUME LimitsAssumption == Limits # {} /\ Limits \subseteq Nat \ {0}
ASSUME UnbuildableAssumption == Unbuildable \subseteq Refs \X Commits

VARIABLES
    \* --- the remote
    tip,        \* per ref, the commit it points to
    pushes,     \* pushes so far
    \* --- the database
    refSHA,     \* repo_refs.last_sha
    builds,     \* the builds started, oldest first: row and goroutine
    \* --- the poller goroutine
    poller,     \* "idle", about to "send" a job, or to "advance" its ref
    todo,       \* the jobs the scan found and the loop has not done
    \* --- the queue and the scheduler goroutine
    queue,      \* App.queue
    taken,      \* the job the scheduler took and waits to start, if any
    running,    \* App.running
    limit,      \* max_concurrent_builds of the configuration in force
    \* --- retry requests
    retrying,   \* the jobs of the retry handlers that are about to send
    retries,    \* retry requests so far
    \* --- the daemon process
    up,
    faults      \* crashes and failed writes so far

remote == <<tip, pushes>>
polling == <<poller, todo>>
scheduling == <<taken, running>>
retryVars == <<retrying, retries>>
vars == <<remote, refSHA, builds, polling, queue, scheduling, limit, retryVars,
          up, faults>>

Job == [ref : Refs, sha : Commits, by : {"poll", "retry"}]

Unfinished == {"pending", "running"}
Finished == {"finished", "interrupted"}

\* state is the row's, "absent" before CreateBuild; live is the goroutine's.
Build == [job : Job, state : {"absent"} \cup Unfinished \cup Finished,
          live : BOOLEAN]

Ids == DOMAIN builds
Live == {i \in Ids : builds[i].live}

TypeOK ==
    /\ tip \in [Refs -> Commits]
    /\ pushes \in 0..MaxPushes
    /\ refSHA \in [Refs -> Commits]
    /\ builds \in Seq(Build)
    /\ poller \in {"idle", "send", "advance"}
    /\ todo \subseteq Job
    /\ queue \in Seq(Job)
    /\ Len(queue) <= QueueCap
    /\ taken \in Seq(Job)
    /\ Len(taken) <= 1
    /\ running \in Nat
    /\ limit \in Limits
    /\ retrying \in Seq(Job)
    /\ retries \in 0..MaxRetries
    /\ up \in BOOLEAN
    /\ faults \in 0..MaxFaults

\* seedNewRepo recorded the tips of the day the repository was added.
Init ==
    /\ tip = [r \in Refs |-> 0]
    /\ pushes = 0
    /\ refSHA = tip
    /\ builds = <<>>
    /\ poller = "idle"
    /\ todo = {}
    /\ queue = <<>>
    /\ taken = <<>>
    /\ running = 0
    /\ limit \in Limits
    /\ retrying = <<>>
    /\ retries = 0
    /\ up = TRUE
    /\ faults = 0

----------------------------------------------------------------------------
\* The remote and the configuration

\* Somebody pushes: a ref moves to another commit, forwards or back.
Push(r) ==
    /\ pushes < MaxPushes
    /\ \E s \in Commits \ {tip[r]} : tip' = [tip EXCEPT ![r] = s]
    /\ pushes' = pushes + 1
    /\ UNCHANGED <<refSHA, builds, polling, queue, scheduling, limit, retryVars,
                   up, faults>>

\* configReloader picks up an edited config.yml.
Reload ==
    /\ up
    /\ limit' \in Limits \ {limit}
    /\ UNCHANGED <<remote, refSHA, builds, polling, queue, scheduling, retryVars,
                   up, faults>>

----------------------------------------------------------------------------
\* The poller: pollRepo

Moved == {r \in Refs : tip[r] # refSHA[r]}
Skipped == {r \in Moved : <<r, tip[r]>> \in Unbuildable}

\* Bug: the scan advances the refs it makes jobs for, too.
ScanAdvancesAll ==
    /\ up
    /\ poller = "idle"
    /\ Moved # {}
    /\ refSHA' = tip
    /\ todo' = {[ref |-> r, sha |-> tip[r], by |-> "poll"] : r \in Moved \ Skipped}
    /\ poller' = IF Moved = Skipped THEN "idle" ELSE "send"
    /\ UNCHANGED <<remote, builds, queue, scheduling, limit, retryVars, up, faults>>

\* git fetch and the loop over the refs: what cannot be built only advances
\* its ref, what can becomes a job.  The poller alone writes these rows.
Scan ==
    /\ up
    /\ poller = "idle"
    /\ Moved # {}
    /\ refSHA' = [r \in Refs |-> IF r \in Skipped THEN tip[r] ELSE refSHA[r]]
    /\ todo' = {[ref |-> r, sha |-> tip[r], by |-> "poll"] : r \in Moved \ Skipped}
    /\ poller' = IF Moved = Skipped THEN "idle" ELSE "send"
    /\ UNCHANGED <<remote, builds, queue, scheduling, limit, retryVars, up, faults>>

\* It is the turn of job j: the refs are in the order of for-each-ref.
IsTurn(j) == j \in todo /\ \A k \in todo : j.ref <= k.ref

\* a.queue <- j, which blocks while the queue is full.
Send ==
    /\ poller = "send"
    /\ Len(queue) < QueueCap
    /\ \E j \in todo : IsTurn(j) /\ queue' = Append(queue, j)
    /\ poller' = "advance"
    /\ UNCHANGED <<remote, refSHA, builds, todo, scheduling, limit, retryVars,
                   up, faults>>

\* Bug: only the first of the jobs advances its ref.
AdvanceFirst ==
    /\ poller = "advance"
    /\ \E j \in todo :
           /\ IsTurn(j)
           /\ refSHA' = IF j.ref = 1 THEN [refSHA EXCEPT ![1] = j.sha]
                        ELSE refSHA
           /\ todo' = todo \ {j}
    /\ poller' = IF todo' = {} THEN "idle" ELSE "send"
    /\ UNCHANGED <<remote, builds, queue, scheduling, limit, retryVars, up, faults>>

\* SetRefSHA, once the job is in the queue.
Advance ==
    /\ poller = "advance"
    /\ \E j \in todo :
           /\ IsTurn(j)
           /\ refSHA' = [refSHA EXCEPT ![j.ref] = j.sha]
           /\ todo' = todo \ {j}
    /\ poller' = IF todo' = {} THEN "idle" ELSE "send"
    /\ UNCHANGED <<remote, builds, queue, scheduling, limit, retryVars, up, faults>>

\* SetRefSHA fails: the poller drops the rest of its jobs.
AdvanceFails ==
    /\ poller = "advance"
    /\ faults < MaxFaults
    /\ faults' = faults + 1
    /\ todo' = {}
    /\ poller' = "idle"
    /\ UNCHANGED <<remote, refSHA, builds, queue, scheduling, limit, retryVars, up>>

----------------------------------------------------------------------------
\* The scheduler and the build goroutines

\* <-a.queue, by the one scheduler goroutine.
Take ==
    /\ up
    /\ taken = <<>>
    /\ queue # <<>>
    /\ taken' = <<Head(queue)>>
    /\ queue' = Tail(queue)
    /\ UNCHANGED <<remote, refSHA, builds, polling, running, limit, retryVars, up,
                   faults>>

\* Bug: the comparison with the limit lets one less in.
StartUnderLimit ==
    /\ taken # <<>>
    /\ running + 1 < limit
    /\ running' = running + 1
    /\ builds' = Append(builds, [job |-> Head(taken), state |-> "absent",
                                 live |-> TRUE])
    /\ taken' = <<>>
    /\ UNCHANGED <<remote, refSHA, polling, queue, limit, retryVars, up, faults>>

\* Under runMu: the counter is compared with the limit now in force and
\* incremented, and the goroutine is started.
Start ==
    /\ taken # <<>>
    /\ running < limit
    /\ running' = running + 1
    /\ builds' = Append(builds, [job |-> Head(taken), state |-> "absent",
                                 live |-> TRUE])
    /\ taken' = <<>>
    /\ UNCHANGED <<remote, refSHA, polling, queue, limit, retryVars, up, faults>>

Row(i, s) == builds' = [builds EXCEPT ![i].state = s]

\* runBuild's CreateBuild, its first row running, its outcome.
Record(i) ==
    /\ i \in Live
    /\ builds[i].state = "absent"
    /\ Row(i, "pending")
    /\ UNCHANGED <<remote, refSHA, polling, queue, scheduling, limit, retryVars,
                   up, faults>>

RunSteps(i) ==
    /\ i \in Live
    /\ builds[i].state = "pending"
    /\ Row(i, "running")
    /\ UNCHANGED <<remote, refSHA, polling, queue, scheduling, limit, retryVars,
                   up, faults>>

Conclude(i) ==
    /\ i \in Live
    /\ builds[i].state \in Unfinished
    /\ Row(i, "finished")
    /\ UNCHANGED <<remote, refSHA, polling, queue, scheduling, limit, retryVars,
                   up, faults>>

\* runBuild returned and the deferred decrement ran.
Return(i) ==
    /\ i \in Live
    /\ builds[i].state \in Finished
    /\ builds' = [builds EXCEPT ![i].live = FALSE]
    /\ running' = running - 1
    /\ UNCHANGED <<remote, refSHA, polling, queue, taken, limit, retryVars, up,
                   faults>>

\* Bug: the early return decrements, and the deferred function does once more.
RecordFailsTwice(i) ==
    /\ i \in Live
    /\ builds[i].state = "absent"
    /\ faults < MaxFaults
    /\ faults' = faults + 1
    /\ builds' = [builds EXCEPT ![i].live = FALSE]
    /\ running' = running - 2
    /\ UNCHANGED <<remote, refSHA, polling, queue, taken, limit, retryVars, up>>

\* CreateBuild fails: runBuild returns at once and no row tells of the job.
RecordFails(i) ==
    /\ i \in Live
    /\ builds[i].state = "absent"
    /\ faults < MaxFaults
    /\ faults' = faults + 1
    /\ builds' = [builds EXCEPT ![i].live = FALSE]
    /\ running' = running - 1
    /\ UNCHANGED <<remote, refSHA, polling, queue, taken, limit, retryVars, up>>

BuildStep(i) ==
    Record(i) \/ RunSteps(i) \/ Conclude(i) \/ Return(i) \/ RecordFails(i)

----------------------------------------------------------------------------
\* Retry requests: dispatch("retry")

\* HasActiveBuildForCommit sees rows only, not the queue.
HasActive(j) ==
    \E i \in Ids : /\ builds[i].state \in Unfinished
                   /\ builds[i].job.ref = j.ref
                   /\ builds[i].job.sha = j.sha

\* The row of build i has an outcome and no row of its commit has none.  Each
\* request has a handler of its own, and several may have come so far.
RetryChecks(i) ==
    /\ up
    /\ retries < MaxRetries
    /\ builds[i].state \in Finished
    /\ ~HasActive(builds[i].job)
    /\ retrying' = Append(retrying, [builds[i].job EXCEPT !.by = "retry"])
    /\ retries' = retries + 1
    /\ UNCHANGED <<remote, refSHA, builds, polling, queue, scheduling, limit, up,
                   faults>>

\* a.queue <- job, which blocks while the queue is full, in any of the handlers;
\* the order of those left over means nothing.
RetrySends ==
    /\ Len(queue) < QueueCap
    /\ \E k \in DOMAIN retrying :
           /\ queue' = Append(queue, retrying[k])
           /\ retrying' = Tail([retrying EXCEPT ![k] = Head(retrying)])
    /\ UNCHANGED <<remote, refSHA, builds, polling, scheduling, limit, retries, up,
                   faults>>

----------------------------------------------------------------------------
\* Death and restart

Crash ==
    /\ up
    /\ faults < MaxFaults
    /\ faults' = faults + 1
    /\ up' = FALSE
    /\ builds' = [i \in Ids |-> [builds[i] EXCEPT !.live = FALSE]]
    /\ poller' = "idle"
    /\ todo' = {}
    /\ queue' = <<>>
    /\ taken' = <<>>
    /\ running' = 0
    /\ retrying' = <<>>
    /\ UNCHANGED <<remote, refSHA, limit, retries>>

\* Bug: recovery looks for running rows only.
RestartRunningOnly ==
    /\ ~up
    /\ up' = TRUE
    /\ builds' = [i \in Ids |-> IF builds[i].state = "running"
                                THEN [builds[i] EXCEPT !.state = "interrupted"]
                                ELSE builds[i]]
    /\ limit' \in Limits
    /\ UNCHANGED <<remote, refSHA, polling, queue, scheduling, retryVars, faults>>

\* Run: recoverStaleBuilds interrupts the unfinished rows before any
\* goroutine of the new process starts.
Restart ==
    /\ ~up
    /\ up' = TRUE
    /\ builds' = [i \in Ids |-> IF builds[i].state \in Unfinished
                                THEN [builds[i] EXCEPT !.state = "interrupted"]
                                ELSE builds[i]]
    /\ limit' \in Limits
    /\ UNCHANGED <<remote, refSHA, polling, queue, scheduling, retryVars, faults>>

Next ==
    \/ \E r \in Refs : Push(r)
    \/ Reload
    \/ Scan \/ Send \/ Advance \/ AdvanceFails
    \/ Take \/ Start
    \/ \E i \in Ids : BuildStep(i)
    \/ \E i \in Ids : RetryChecks(i)
    \/ RetrySends
    \/ Crash \/ Restart

Spec == Init /\ [][Next]_vars

\* No behaviour starts more builds, so fairness to these is fairness to all.
MaxBuilds == MaxPushes + MaxFaults + MaxRetries

\* The goroutines are scheduled, the poller's ticker fires, a build's steps
\* exit (Builder.tla has the case of a step that does not), a dead daemon is
\* started again.
Fairness ==
    /\ WF_vars(Scan)
    /\ WF_vars(Send)
    /\ WF_vars(Advance)
    /\ WF_vars(Take)
    /\ WF_vars(Start)
    /\ \A i \in 1..MaxBuilds : WF_vars(i \in Ids /\ BuildStep(i))
    /\ WF_vars(RetrySends)
    /\ WF_vars(Restart)

FairSpec == Spec /\ Fairness

----------------------------------------------------------------------------
\* Properties

\* A build is started only while fewer goroutines are at work than the limit in
\* force at that moment allows, although the job may have waited while
\* config.yml changed (CONTEXT.md, Concurrency; README.md, hot reload), and
\* although the limit is compared with a counter that every way out of a build
\* has to decrement, once.  Lowering the limit stops no build.
StartsWithinLimit ==
    [][LET atWork == Cardinality(Live)
           then == Cardinality(Live')
       IN  then > atWork => then <= limit]_vars

\* While the daemon serves, a row that says pending or running has a
\* goroutine that will conclude it: recovery leaves no row of a dead process
\* behind and is over before the first build of the new one.
UnfinishedIsLive == up => \A i \in Ids : builds[i].state \in Unfinished => i \in Live

\* What every build is taken to do, here with nothing of its inside; that
\* Builder does it is Builder!RefinesGoroutine.  A build that was not started
\* yet waits in the queue, or for somebody to push or retry.
Goroutine(i) == INSTANCE BuildGoroutine WITH
    place <- IF i \notin Ids THEN "queued"
             ELSE IF builds[i].live THEN "working" ELSE "over",
    row <- IF i \in Ids THEN builds[i].state ELSE "absent"

Sent == Range(queue) \cup Range(taken) \cup {builds[i].job : i \in Ids}

\* The commit a ref is advanced to was there when the repository was added,
\* is not to be built, or has a job that left the poller.
Accounted(r) ==
    \/ refSHA[r] = 0
    \/ <<r, refSHA[r]>> \in Unbuildable
    \/ \E j \in Sent : j.ref = r /\ j.sha = refSHA[r]

\* repo_refs never runs ahead of the queue: without a crash or a failed
\* write no buildable commit is passed over (the order of the send and
\* SetRefSHA in pollRepo).
RefsFollowQueue == faults = 0 => \A r \in Refs : Accounted(r)

ByPoll(s) == Cardinality({i \in DOMAIN s : s[i].by = "poll"})
ByRetry(s) == Cardinality({i \in DOMAIN s : s[i].by = "retry"})
JobsOf(s) == [i \in DOMAIN s |-> s[i].job]

\* Nor does it lag: a push is built at most once, even if the poller had to wait
\* at a full queue, and a crash or a failed write, wherever it happens, makes
\* the poller build at most one commit again, the one that was sent and not
\* recorded.  A retry request starts at most one build.
OneBuildPerPush ==
    /\ ByPoll(queue) + ByPoll(taken) + ByPoll(JobsOf(builds)) <= pushes + faults
    /\ ByRetry(queue) + ByRetry(taken) + ByRetry(JobsOf(builds)) <= retries

\* Once the pushes, retries and faults are over, every ref is caught up with,
\* the queue is empty and no build runs: the poller, the retry handlers, the
\* scheduler and the limit never wait for each other in a circle, and a
\* commit whose ref was not advanced is found again after a crash.
CatchesUp ==
    <>[](/\ refSHA = tip
         /\ queue = <<>>
         /\ taken = <<>>
         /\ retrying = <<>>
         /\ running = 0)

====

---- MODULE Reporting ----
(***************************************************************************)
(* What GitHub is told of the builds of one commit: a check run per build  *)
(* and per step, and one commit status that all of them share              *)
(* (createBuildCheckRun ... postStepFailure in internal/server/builder.go, *)
(* internal/github).  A report is a sequence of calls over HTTP; each      *)
(* fetches a token, may fail, and may have been carried out although its   *)
(* answer is lost.  Between two calls the configuration may be reloaded,   *)
(* another build of the commit may report, and the daemon may die.  The    *)
(* report does not wait for the database either: an error of               *)
(* UpdateBuildState is dropped (after a SIGTERM each of them fails).       *)
(***************************************************************************)
EXTENDS Naturals, Sequences

CONSTANTS
    Builds,         \* builds of the commit: of two refs, or a retry
    MaxSteps,       \* bound on the runnable steps
    Configs,        \* credentials that config.yml may hold
    MaxTroubles     \* bound on failing calls and writes, reloads and deaths of
                    \* the daemon

\* "partial": some key of github_app is set and another is missing.
Config == [app : {"off", "partial", "on"}, pat : BOOLEAN]

ASSUME ConfigsAssumption == Configs \subseteq Config /\ Configs # {}
ASSUME BoundsAssumption == MaxSteps \in Nat /\ MaxTroubles \in Nat

VARIABLES
    cfg,            \* the credentials in a.store
    row,            \* per build: builds.state
    at,             \* per build: where runBuild is
    step,           \* per build: the step it is at
    todo,           \* per build: calls its reporting functions still make
    token,          \* per build: the token of the call under way
    checkRuns,      \* a.checkRuns: the check run each key stands for
    runs,           \* on GitHub: the check runs
    status,         \* on GitHub: the commit status and the build it is from
    troubles,       \* failing calls and writes, reloads and deaths so far
    verdict,        \* history: per build, the state that runBuild last came to
    unwritten       \* history: the builds whose latest write failed

ledger == <<row, verdict, unwritten>>
flow == <<ledger, at, step>>
github == <<runs, status>>
vars == <<cfg, flow, todo, token, checkRuns, github, troubles>>

\* Index 0 stands for the build itself (stepIndex -1 in the code).
Indices == 0..MaxSteps
CheckRun == Builds \X Indices

Conclusions == {"success", "failure", "timed_out", "cancelled"}
RunState == {"absent", "in_progress", "neutral"} \cup Conclusions
CommitState == {"none", "pending", "success", "failure", "error"}
RowState == {"absent", "pending", "running", "interrupted"} \cup Conclusions

\* Where runBuild is; "gone": the daemon died under it.
Place == {"new", "inspect", "prepare", "filter", "begin", "run", "next",
          "silent", "over", "gone"}

\* aborts: without a token the function making the call returns.
Call == [op : {"create", "update", "post"}, i : Indices, to : RunState,
         says : CommitState, aborts : BOOLEAN]

TypeOK ==
    /\ cfg \in Configs
    /\ row \in [Builds -> RowState]
    /\ verdict \in [Builds -> RowState]
    /\ at \in [Builds -> Place]
    /\ step \in [Builds -> Indices]
    /\ todo \in [Builds -> Seq(Call)]
    /\ \A b \in Builds : Len(todo[b]) <= 4
    /\ token \in [Builds -> {"unset", "none", "app", "pat"}]
    /\ checkRuns \in [CheckRun -> CheckRun \cup {<<>>}]
    /\ runs \in [CheckRun -> RunState]
    /\ status \in [state : CommitState, by : SUBSET Builds]
    /\ troubles \in 0..MaxTroubles
    /\ unwritten \subseteq Builds

Init ==
    /\ cfg \in Configs
    /\ row = [b \in Builds |-> "absent"]
    /\ verdict = [b \in Builds |-> "absent"]
    /\ at = [b \in Builds |-> "new"]
    /\ step = [b \in Builds |-> 0]
    /\ todo = [b \in Builds |-> <<>>]
    /\ token = [b \in Builds |-> "unset"]
    /\ checkRuns = [k \in CheckRun |-> <<>>]
    /\ runs = [k \in CheckRun |-> "absent"]
    /\ status = [state |-> "none", by |-> {}]
    /\ troubles = 0
    /\ unwritten = {}

Trouble == troubles < MaxTroubles /\ troubles' = troubles + 1

----------------------------------------------------------------------------
\* The calls the reporting functions make

\* Bug: a conclusion the switch does not know is taken for "in progress".
StateFromConclusionDefault(c) ==
    IF c \in {"success", "failure"} THEN c ELSE "pending"

StateFromConclusion(c) ==
    CASE c \in {"success", "failure"} -> c
      [] c = "in_progress" -> "pending"
      [] OTHER -> "error"

Post(s) == [op |-> "post", i |-> 0, to |-> "absent", says |-> s, aborts |-> FALSE]

\* createBuildCheckRun and createStepCheckRun: whatever becomes of the check
\* run, "pending" is posted, with a token of its own.
Create(i) ==
    <<[op |-> "create", i |-> i, to |-> "in_progress", says |-> "none",
       aborts |-> FALSE],
      Post("pending")>>

\* updateCheckRun with a description for the commit status ...
Update(i, to) ==
    <<[op |-> "update", i |-> i, to |-> to, says |-> StateFromConclusion(to),
       aborts |-> FALSE]>>

\* Bug: a step that passed is reported on the check run of the build.
UpdateQuietlyBuild(i, to) ==
    <<[op |-> "update", i |-> 0, to |-> to, says |-> "none", aborts |-> FALSE]>>

\* ... and without one.
UpdateQuietly(i, to) ==
    <<[op |-> "update", i |-> i, to |-> to, says |-> "none", aborts |-> FALSE]>>

PostStepFailure(i) ==
    <<[op |-> "update", i |-> i, to |-> "failure", says |-> "failure",
       aborts |-> TRUE]>>
    \o Update(0, "failure")

----------------------------------------------------------------------------
\* runBuild, as far as it reports; it waits for each call

\* The next place, and the calls made on the way to it.
Goto(b, place, calls) ==
    /\ at' = [at EXCEPT ![b] = place]
    /\ todo' = [todo EXCEPT ![b] = calls]

Write(b, v) ==
    /\ row' = [row EXCEPT ![b] = v]
    /\ unwritten' = unwritten \ {b}
    /\ UNCHANGED troubles

\* UpdateBuildState: runBuild goes on whether or not it fails.
Record(b, v) ==
    /\ verdict' = [verdict EXCEPT ![b] = v]
    /\ \/ Write(b, v)
       \/ Trouble /\ unwritten' = unwritten \cup {b} /\ UNCHANGED row

RecordNothing == UNCHANGED <<ledger, troubles>>

\* Bug: the outcome is reported and not recorded.
ConcludeUnrecorded(b, v, calls) ==
    /\ verdict' = [verdict EXCEPT ![b] = v]
    /\ UNCHANGED <<row, unwritten, troubles>>
    /\ Goto(b, "over", calls)

\* The outcome is recorded first and then reported.
Conclude(b, v, calls) ==
    /\ Record(b, v)
    /\ Goto(b, "over", calls)

\* postBuildFailure
BuildFails(b) == Conclude(b, "failure", Update(0, "failure"))

\* Recovery comes before any new build.
Recovering ==
    \E b \in Builds : at[b] = "gone" /\ (row[b] \in {"pending", "running"}
                                         \/ todo[b] # <<>>)

\* CreateBuild; a build whose row cannot be made is one that never begins.
Announce(b) ==
    /\ at[b] = "new"
    /\ ~Recovering
    /\ verdict' = [verdict EXCEPT ![b] = "pending"]
    /\ Write(b, "pending")
    /\ Goto(b, "inspect", Create(0))
    /\ UNCHANGED step

\* A skip, and a failure to acquire a workspace or to open the log: they are
\* recorded and nobody is told.
InspectSilently(b) ==
    /\ at[b] = "inspect"
    /\ \E v \in {"success", "failure"} : Record(b, v)
    /\ Goto(b, "silent", <<>>)
    /\ UNCHANGED step

Inspect(b) ==
    /\ at[b] = "inspect"
    /\ \/ BuildFails(b)
       \/ Goto(b, "prepare", Update(0, "in_progress")) /\ RecordNothing
    /\ UNCHANGED step

Prepare(b) ==
    /\ at[b] = "prepare"
    /\ \/ BuildFails(b)
       \/ /\ Record(b, "running")
          /\ Goto(b, "filter", Update(0, "in_progress"))
    /\ UNCHANGED step

\* The filter of a step is invalid, or the filters leave none, or some.
Filter(b) ==
    /\ at[b] = "filter"
    /\ \/ BuildFails(b) /\ UNCHANGED step
       \/ Conclude(b, "success", Update(0, "success")) /\ UNCHANGED step
       \/ /\ MaxSteps > 0
          /\ step' = [step EXCEPT ![b] = 1]
          /\ Goto(b, "begin", <<>>)
          /\ RecordNothing

\* A step without a name has no check run and no status.
CreateStep(b) == {Create(step[b]), <<>>}

Begin(b) ==
    /\ at[b] = "begin"
    /\ \E calls \in CreateStep(b) :
           \/ Record(b, "running") /\ Goto(b, "run", calls)
           \/ Conclude(b, "failure", calls \o PostStepFailure(step[b]))
    /\ UNCHANGED step

\* The step cannot be started, fails, is cancelled, times out, or passes.
Run(b) ==
    /\ at[b] = "run"
    /\ \/ Conclude(b, "failure", PostStepFailure(step[b]))
       \/ \E v \in {"cancelled", "timed_out"} :
              Conclude(b, v, Update(step[b], v) \o Update(0, v))
       \/ Goto(b, "next", UpdateQuietly(step[b], "success")) /\ RecordNothing
    /\ UNCHANGED step

\* Bug: off by one at the end of the loop.
NextStepPastEnd(b) ==
    /\ at[b] = "next"
    /\ step' = [step EXCEPT ![b] = @ + 1]
    /\ Goto(b, "begin", <<>>)
    /\ RecordNothing

NextStep(b) ==
    /\ at[b] = "next"
    /\ step[b] < MaxSteps
    /\ step' = [step EXCEPT ![b] = @ + 1]
    /\ Goto(b, "begin", <<>>)
    /\ RecordNothing

Succeed(b) ==
    /\ at[b] = "next"
    /\ Conclude(b, "success", Update(0, "success"))
    /\ UNCHANGED step

BuildStep(b) ==
    /\ todo[b] = <<>>
    /\ \/ Announce(b) \/ InspectSilently(b) \/ Inspect(b) \/ Prepare(b)
       \/ Filter(b) \/ Begin(b) \/ Run(b) \/ NextStep(b) \/ Succeed(b)
    /\ UNCHANGED <<cfg, token, checkRuns, github>>

----------------------------------------------------------------------------
\* The calls

\* getGitHubAppToken, apiToken: any key of github_app rules the PAT out.
AppToken == IF cfg.app = "on" THEN "app" ELSE "none"
ApiToken == IF cfg.app # "off" THEN AppToken ELSE IF cfg.pat THEN "pat" ELSE "none"

FetchToken(b) ==
    /\ todo[b] # <<>>
    /\ token[b] = "unset"
    /\ LET t == IF Head(todo[b]).op = "create" THEN AppToken ELSE ApiToken IN
           \/ token' = [token EXCEPT ![b] = t] /\ UNCHANGED troubles
           \/ t = "app" /\ token' = [token EXCEPT ![b] = "none"] /\ Trouble
    /\ UNCHANGED <<cfg, flow, todo, checkRuns, github>>

\* The head of todo[b] is op, its token is fetched; its effect on GitHub
\* takes place, or fails, or takes place and is reported as failed.
Calls(b, op) == todo[b] # <<>> /\ Head(todo[b]).op = op /\ token[b] # "unset"
Done(b) ==
    /\ todo' = [todo EXCEPT ![b] = Tail(@)]
    /\ token' = [token EXCEPT ![b] = "unset"]

\* Without a token the caller goes on, or returns.
NoToken(b) ==
    /\ todo[b] # <<>>
    /\ token[b] = "none"
    /\ IF Head(todo[b]).aborts
       THEN todo' = [todo EXCEPT ![b] = <<>>] /\ token' = [token EXCEPT ![b] = "unset"]
       ELSE Done(b)
    /\ UNCHANGED <<cfg, flow, checkRuns, github, troubles>>

\* Bug: the key of a.checkRuns lacks the index of the step.
CheckRunKeyOfBuild(b, i) == <<b, 0>>

CheckRunKey(b, i) == <<b, i>>

CreateCheckRun(b) ==
    /\ Calls(b, "create")
    /\ token[b] = "app"
    /\ LET i == Head(todo[b]).i
           created == [runs EXCEPT ![<<b, i>>] = "in_progress"]
       IN  \/ /\ runs' = created
              /\ checkRuns' = [checkRuns EXCEPT ![CheckRunKey(b, i)] = <<b, i>>]
              /\ UNCHANGED troubles
           \/ runs' \in {runs, created} /\ Trouble /\ UNCHANGED checkRuns
    /\ Done(b)
    /\ UNCHANGED <<cfg, flow, status>>

\* The check run, if one is known, is updated; only the app may do that.
\* Then the commit status is posted with the same token.
UpdateCheckRun(b) ==
    /\ Calls(b, "update")
    /\ token[b] # "none"
    /\ LET c == Head(todo[b])
           run == checkRuns[CheckRunKey(b, c.i)]
           updated == IF run # <<>> /\ token[b] = "app"
                      THEN [runs EXCEPT ![run] = c.to] ELSE runs
       IN  /\ \/ runs' = updated /\ UNCHANGED troubles
              \/ run # <<>> /\ runs' \in {runs, updated} /\ Trouble
           /\ IF c.says = "none" THEN Done(b)
              ELSE /\ todo' = [todo EXCEPT ![b] = <<Post(c.says)>> \o Tail(@)]
                   /\ UNCHANGED token
    /\ UNCHANGED <<cfg, flow, checkRuns, status>>

PostStatus(b) ==
    /\ Calls(b, "post")
    /\ token[b] # "none"
    /\ LET posted == [state |-> Head(todo[b]).says, by |-> {b}] IN
           \/ status' = posted /\ UNCHANGED troubles
           \/ status' \in {status, posted} /\ Trouble
    /\ Done(b)
    /\ UNCHANGED <<cfg, flow, checkRuns, runs>>

CallStep(b) ==
    FetchToken(b) \/ NoToken(b) \/ CreateCheckRun(b) \/ UpdateCheckRun(b) \/ PostStatus(b)

----------------------------------------------------------------------------
\* Reloads, the death of the daemon and recovery

Reload ==
    /\ Trouble
    /\ cfg' \in Configs \ {cfg}
    /\ UNCHANGED <<flow, todo, token, checkRuns, github>>

Crash ==
    /\ Trouble
    /\ at' = [b \in Builds |-> IF at[b] = "new" THEN "new" ELSE "gone"]
    /\ todo' = [b \in Builds |-> <<>>]
    /\ token' = [b \in Builds |-> "unset"]
    /\ checkRuns' = [k \in CheckRun |-> <<>>]
    /\ UNCHANGED <<cfg, ledger, step, github>>

\* recoverStaleBuilds, one row after the other; it looks for a PAT and then
\* lets postStatus choose the token.  A row that it cannot mark is left, unsaid,
\* for the next start.
Recover(b) ==
    /\ at[b] = "gone"
    /\ row[b] \in {"pending", "running"}
    /\ \A c \in Builds : at[c] = "gone" => todo[c] = <<>>
    /\ \/ /\ row' = [row EXCEPT ![b] = "interrupted"]
          /\ todo' = [todo EXCEPT ![b] = IF cfg.pat THEN <<Post("error")>> ELSE <<>>]
          /\ UNCHANGED <<at, troubles>>
       \/ Trouble /\ Goto(b, "silent", <<>>) /\ UNCHANGED row
    /\ UNCHANGED <<cfg, verdict, unwritten, step, token, checkRuns, github>>

Next ==
    \/ \E b \in Builds : BuildStep(b) \/ CallStep(b) \/ Recover(b)
    \/ Reload
    \/ Crash

Spec == Init /\ [][Next]_vars

----------------------------------------------------------------------------
\* Properties

\* So far every call was answered, and nothing was reloaded.
Smooth == troubles = 0
Reported(b) == at[b] = "over" /\ todo[b] = <<>>

\* GitHub's conclusion of a build is the outcome that runBuild came to and the
\* one in the database, and a step that ended the build concluded the same way:
\* also after lost answers, a reload between two calls, a crash between the row
\* and the report, and with another build of the commit reporting in between.
\* Only when the write of the outcome failed does GitHub have one that the row
\* lacks: the row then has none at all, and gets none from recovery.
ConclusionFollowsRow ==
    \A b \in Builds, i \in Indices :
        runs[<<b, i>>] \in (IF i = 0 THEN Conclusions ELSE Conclusions \ {"success"}) =>
            /\ verdict[b] = runs[<<b, i>>]
            /\ IF b \in unwritten THEN row[b] \notin Conclusions
               ELSE row[b] = verdict[b]

\* A check run that is concluded is neither reopened nor concluded anew: the
\* updates of a build and its steps go to different check runs, in order.
ConclusionIsFinal ==
    [][\A k \in CheckRun : runs[k] \in Conclusions => runs'[k] = runs[k]]_vars

\* A build that reports its outcome leaves no check run open, neither its own
\* nor one of its steps, whatever step ended it and however.
RunsAreClosed ==
    Smooth => \A b \in Builds : Reported(b) =>
        \A i \in Indices : runs[<<b, i>>] # "in_progress"

\* The last thing a build says of the commit is its outcome: no "pending" of
\* a step or of the build comes after it.
LastWordIsOutcome ==
    Smooth => \A b \in Builds : Reported(b) /\ status.by = {b} =>
        status.state = IF row[b] \in {"success", "failure"} THEN row[b] ELSE "error"

====

# shitty-ci in TLA+

shitty-ci is one Go program: a daemon that polls GitHub repositories over git,
builds each new commit in a checkout of its own and posts commit statuses, and a
command line that talks to the daemon over a socket. This directory holds TLA+
modules of the daemon's concurrent core, of its tables and its configuration
file, of what it reports to GitHub and of the pure functions behind its decisions,
the TLC configurations that check them, and proofs checked by TLAPS. Paths below
are relative to the repository.

    tlc -workers 2 -config builder_safety.cfg MCBuilder     # one run
    tlapm BuilderProofs.tla                          # proofs; also of
        # DispatchProofs, WorkspacePoolProofs, TrackingProofs, ConfigStoreProofs,
        # ReportingProofs and FunctionProofs

## Inventory

| Component | Code | State | Operations | Modules |
|---|---|---|---|---|
| build execution | `internal/server/builder.go`, `server.go:78-112` | locals of `runBuild`; `a.active` (pid register, cancel flag); the build's row; its step's process | `runBuild`, the watcher goroutine, `requestCancel` | `Builder`, `BuildLifecycle`, `BuildGoroutine`, `BuilderProofs` |
| recovery | `recover.go`, `db.go:297-333` | rows without an outcome | `recoverStaleBuilds` at every start | `Builder` (one build), `Dispatch` (all) |
| poller, queue, scheduler, retry | `server.go:180-360`, `:551-594` | `repo_refs`, `App.queue`, `App.running`, the limit in force | `pollRepo`, `scheduler`, `dispatch("retry")` | `Dispatch`, `BuildGoroutine`, `DispatchProofs` |
| workspace pool, pruner | `pool.go` | table `workspaces`, the directories | `acquireWorkspace`, `releaseWorkspace`, `pruneWorkspaces` | `WorkspacePool`, `WorkspacePoolProofs` |
| tracked repositories | `server.go:399-440`, `:680-740` | tables `repos`, `repo_refs`, the directories | `repos_add` with its seeding, `repos_remove` | `Tracking`, `TrackingProofs` |
| configuration store | `internal/config/config.go` | the configuration in memory, its mtime | `Load`, `Refresh` every 2 s | `ConfigStore`, `ConfigStoreProofs`; effect on the limit in `Dispatch` |
| `.shitty-ci.yml`, filters | `internal/shittyyml` | none | `Parse`, `ShouldBuildRef`, step filters | `RefFilter`, `FunctionProofs` |
| id and SHA resolution | `internal/db/resolve_*.go` | none of its own | `ResolveBuildID`, `ResolveLogsTarget` | `BuildTargets`, `FunctionProofs` |
| GitHub client | `internal/github` | token cache, `a.checkRuns` | statuses, check runs, app tokens, manifest flow | `Reporting`, `ReportingProofs`, `ReportText`; last accepted status in `Builder` |
| secrets | `internal/db/secrets.go` | table `repo_secrets` | set, list, delete | not modelled: single statements |
| RPC, token | `server.go:383-396`, `internal/proto`, `config/token.go` | none | one JSON request and answer per connection | not modelled: transport |
| command line | `cmd/shitty-ci`, `internal/cli` | none; writes `config.yml` | start of the daemon, `setup github-app`, formatting around the RPC | `ConfigStore` (start and setup) |
| git, XDG helpers | `internal/gitutil`, `internal/xdg` | none | calls of git, path names | not modelled |

How they interact. The poller takes a workspace, fetches, compares tips with
`repo_refs` and sends jobs on a channel of 256; a retry request sends on the
same channel. The one scheduler goroutine takes a job, waits until
`running < max_concurrent_builds`, and starts a goroutine with `runBuild`. That
goroutine writes its row and its workspace's row in SQLite, posts to GitHub, and
publishes the pid of the step it waits for in an atomic register. The watcher
goroutine and the handlers of cancel requests read the register and kill the
process group. The rows survive a crash, the channel, counters and registers do
not; so may the step's process, which has its own process group. Rows hang on the
id of their repository's row, directories are named after the repository, and
requests to add and remove repositories run beside all of this. Every two
seconds the daemon looks for a newer `config.yml`, which editors and the setup
command write.

What is hard, and the property that goes with it:

- The pid register is 0 between two steps, before `curPID.Store(pid)` and
  during the checkout. The watcher and a cancel request that read 0 kill
  nothing, and the watcher does not come back (`TimeoutEndsBuild`,
  `CancelOfRunningStepWins`).
- After `cmd.Wait` three reasons compete to explain the exit: cancelled, timed
  out, failed (`VerdictSound`, `EarlierStepsPassed`, `RefinesLifecycle`).
- Every error of `UpdateBuildState` is dropped and the statement overwrites
  whatever is there (`OutcomeIsFinal`, `StatusFollowsRow`, `BuildSettles`).
- Deferred calls undo the build in reverse: the watcher must be gone, then the
  workspace given back, then the entry removed (`WatcherOutlivedByBuild`,
  `ShellHasWorkspace`, `WorkspaceReturns`).
- The daemon may die between any two of these (`NoShellAfterVerdict`,
  `BuildSettles`, `UnfinishedIsLive`, `OrphansAreLeftAlone`).
- The channel fills up, the limit is edited while a job waits for it, and a ref
  is advanced after the send (`CatchesUp`, `StartsWithinLimit`,
  `RefsFollowQueue`, `OneBuildPerPush`).
- The pool's check and its update are two statements under no lock, and the
  pruner acts on what it read (`OwnCheckout`, `SerialPoolIsSound`, `BusyIsHeld`).
- A repository is added, removed and added again beside its poller and its queued
  jobs: the row is visible before it is seeded, directories vanish under who uses
  them, and an add is undone by name (`SnapshotIsLeft`, `AddedStaysTracked`,
  `DirectoriesAreKnown`, `CatchesUp`).
- `config.yml` may change between the daemon's stat and its load, twice under one
  time stamp, or be empty while setup writes it (`UpToDate`, `CatchesUpWithFile`).
- A report is a sequence of calls, each with a token of its own; an answer may be
  lost, the configuration reloaded or the daemon killed between two of them, and
  builds of one commit share one status (`ConclusionFollowsRow`,
  `ConclusionIsFinal`, `RunsAreClosed`, `LastWordIsOutcome`).
- The same filter decides for a file and for a step, with other defaults, and a
  glob it rejects must be noticed before any step runs (`FiltersDecideAsMeant`).
- A prefix typed a minute ago is resolved against a table that has grown since,
  and means an id or a commit (`PrefixesAreStable`, `TargetsAreFound`).
- Texts are cut to the limits of GitHub's API by arithmetic over lengths
  (`TextsFit`).

`PROJECT.json` lists the hazards with their lines, including those that no
property covers yet.

## What the modules model

**BuildLifecycle** is the promise about one build's row: absent, pending,
running, then one outcome that is never taken back, each outcome with its cause
(`broken`, `overdue`, `asked`).

**BuildGoroutine** is the seam between the modules `Builder` and `Dispatch`: what
the scheduler takes for granted of a build. A serving daemon starts its goroutine,
the goroutine returns with an outcome in its row (or without a row, if there could
be none), and a row that a dead daemon left unfinished is interrupted before the
next one serves. Both modules implement it: `Builder` from the inside, `Dispatch`
for each of its builds (`Goroutine(i)`).

**Builder** is one call of `runBuild` with everything that runs beside it.
`pc` names the place in the source, in the order of the source: `create`
(CreateBuild), `announce` (createBuildCheckRun), `activate` (setActivePID),
`acquire`, `open` (log file), `inspect` (fetch, show, Parse, ShouldBuildRef),
`arm` (context with deadline, watcher), `prepare` (checkout, clean), `markrun`,
the loop `begin`-`start`-`store`-`wait`-`clear`-`verdict` once per step, and the
way out `finish`-`report`-`join`-`release`-`unregister`. Every early return goes
through `Conclude(outcome, status)` and then the way out, since the deferred
calls run on each of them. Each access to shared state is one action. The
watcher has three (wake and load the register, kill, or stop); a cancel request
has five (look at the row, look up `a.active`, set the flag, load the register,
kill and answer). A step's shell is `unborn`, `alive`, or ended as `ok`, `bad`
or `killed`; the pid of step i is i. `Faults` turns on failing writes, failing
posts, SIGTERM (after which writes under the daemon's context fail) and crash.
Check runs are not told apart here from the commit status posted beside them:
`Reporting` does that.

**Dispatch** has one repository, whose refs are pushed to, and the poller, the
channel, the scheduler, retry handlers, configuration reloads and crashes. A
build is four steps there, those of `BuildGoroutine`; `Builder` has what is between
them. The tip is read during the scan and the ref advanced only after the send, so pushes fall
between the two. Any number of retry handlers may wait with a job in hand while
the queue is full (`retrying`); which of them sends first is open.

**WorkspacePool** has the rows, the directories, several concurrent
`acquireWorkspace` calls cut at each query, stat, clone and statement, the
pruner cut at its query, RemoveAll and DELETE, and crashes that may cut a clone
short. `os.RemoveAll` is not one step (`PruneDamages`): before it ends, or fails, the
directory may be damaged, `"partial"` as long as its `.git` is there and `"rubble"`
without. `Twins` names pairs of repositories such as `o/n` and `o/n-1`. Three history
variables support properties: `overlapped` (two acquisitions, or one and a
pruning, were under way at once), `orphans` (rows busy when the daemon died) and
`halfRemoved` (a pruning ended and left a damaged directory).

**Tracking** is one repository of GitHub that is added, polled, removed and added
again. A row of table `repos` has an id of its own, and `repo` is the id of the row
there is now; `refSHA`, `ws` and `builds` are the rows that hang on it and go with
it (`ON DELETE CASCADE`), `dirs` the directories, which do not. A connection
(`Clients`) serves one request at a time: `AddChecks`, `AddInserts`, the
acquisition, `Seed` and `AddAnswers`, or `Undo` by name if that fails; or
`RemoveLists`, `RemoveDir`, `RemoveDeletes`, where a directory may be damaged
before it is gone, and be left so if the removal fails (`RemoveDamages`). The poller does the same acquisition,
compares, sends and advances (`PollBegins` to `PollAdvances`). Each remembers in
`proc` the id it began with, so a step may meet that the row is gone, where the
foreign key fails, or that another row has the name. The queue's jobs carry the
id too (`CreateBuild`). Any clone or fetch may fail, and the daemon die. What is
inside an acquisition, a queue and a build is coarse here, because
`WorkspacePool`, `Dispatch` and `Builder` have it. Four history variables support
properties: `base` (the tips the add has fetched), `answered`, `disturbed` (the
poller took the row up before the answer, or refs were passed over), and
`overtaken` (an acquisition met a removal, or an add was undone).

**ConfigStore** is `config.yml` and everybody who reads and writes it. The daemon's
`Refresh` is cut at its stat, its load and its store; `stage` tells the `Refresh`
that starts the daemon, where an error is fatal, from the later ones, where it is
dropped. `setup github-app` reads the file, truncates it and writes it, and may
die in between. Every write gives the file any stamp, newer, equal or older, as
the clock of a file system and a restored backup do. The settings are one value,
with `github_app` beside it, which only setup adds.

**Reporting** is what GitHub is told of several builds of one commit. `runBuild`
is reduced to its reporting functions: at each place `todo[b]` gets the calls the
code makes there, in order (`Create`, `Update`, `PostStepFailure`), and the build
waits until they are done. The row is written before that (`Record`), and the build
goes on if the write fails, as the code drops the error; two history variables
remember it, `verdict` (the state runBuild came to) and `unwritten` (the builds
whose latest write failed). The write of `recoverStaleBuilds` may fail too. A call is two actions, the token (`FetchToken`:
`getGitHubAppToken` for a new check run, `apiToken` otherwise) and the request.
A request succeeds, fails without effect, or has its effect and loses the answer;
an update that also posts a status keeps its token for the post, as
`updateCheckRun` does. `checkRuns` is the map `a.checkRuns`, lost in a crash; `runs`
and `status` are GitHub's. That only a token of the app may update a check run is a
rule of GitHub, and external. Failing calls and writes, reloads and deaths of the daemon draw
on one budget `troubles`, so the properties that hold only when nothing of the
kind happened say `Smooth`.

**RefFilter** goes from a resolved YAML node to the decision about a ref or a
step: scalars, lists and mappings with duplicate keys, include and exclude lists,
tags and branches. What a glob matches is a constant relation (`doublestar` is
external). **BuildTargets** resolves the arguments of `logs`, `cancel` and `retry`
against a table of builds by id, id prefix or SHA prefix. **ReportText** holds the
arithmetic of lengths that cuts descriptions, logs and check-run texts. The three
have operators and no state; **PureFunctions** extends them, and a step of it asks
about any one input of the sets it is given (`MCFunctions` bounds them).

Apart from that the `MC*` modules hold model values. Definitions whose comment starts with
"Bug:" are variants of the definition below them with a plausible mistake; they
are no part of the specifications and show that the properties notice it.

## Runs

| Run | Checks | Result |
|---|---|---|
| `builder_safety` | type, five invariants, `OutcomeIsFinal`, refinement of `BuildLifecycle`; all faults, two cancel clients, two steps | holds, 464k states |
| `builder_live` | `StatusFollowsRow`, refinement of `BuildGoroutine`, three liveness properties; posts may fail, the daemon may crash | holds, 29k states |
| `builder_timeout` | a passed deadline ends the build | violated |
| `dispatch` | type, three invariants, the limit, and `CatchesUp`; two refs, two pushes, a retry, a fault, queue of one | holds, 224k states |
| `pool` | type and three invariants; two users, pruner, directories half removed, one fault | holds, 559k states |
| `pool_shared` | each build has its own directory | violated |
| `pool_names` | pools of two repositories are disjoint | violated |
| `reporting` | type, three invariants, `ConclusionIsFinal`; two builds, two steps, an app, a token, both or half of one, one trouble anywhere, a failed row write among them | holds, 2.0M states |
| `tracking` | type, `SnapshotIsLeft`, `DirectoriesAreKnown`, `AddedStaysTracked`; two clients, one ref that moves, two rows, one crash, failing call or half removed directory | holds, 2.9M states |
| `tracking_live` | `CatchesUp`; one client, two refs, directories 0 to 3, one crash, failing call or half removed directory | holds, 920k states |
| `config` | type, `UpToDate`, `CatchesUpWithFile`; one user version beside the defaults, three stamps, four writes | holds, 170k states |
| `functions` | four statements about filters, build arguments and texts, each for every bounded input | holds, 90k states |

The bounds. Two steps are the fewest with an "earlier" and a "later" step and a
gap between them; more steps repeat the loop. Two clients are the fewest that
can interleave two cancel requests, and both exchange with each other
(symmetry). A queue of one is full after one job, so the poller, a retry and the
scheduler wait for each other; two limits allow it to be raised and lowered while
a job waits. Two pushes to two refs make a push overtake a scan, and one fault
puts a crash or failed write anywhere in that. One retry waits in the run;
with two (`MaxRetries = 2`, 1.5M states, some minutes more) everything holds as well, and
the theorems hold for any number. Two rows are what two users
need at once, and a pruned row frees its name but not its id. Two builds of one
commit are the fewest whose reports interleave, two steps again an earlier and a
later one, either of which may have no name, and the one trouble falls on or between any
two calls or writes; a write that fails and then a crash, with its recovery, are
two troubles, and covered by the theorem.

In `tracking`, two clients let an add race an add, a removal a removal, and either
the other; two rows, a former and a present one, and with them directories 0 and
1, are what a stale id needs, and a job in the queue outlives its row; a trouble falls
anywhere. `tracking_live` trades the second client for a second ref, so that a
seeding may stop half way, and for more directories, so that the pool may go on with
another one when one is damaged. In `config`, three stamps and four writes leave room for two writes
between two steps of a `Refresh`, under one stamp or several, with another before
and after; setup's rewriting takes two of them.

The functions see ref lists of up to two globs, mappings with two keys
that may be equal, tables of up to two builds and a newcomer, ids short enough
that prefixes collide (the least length of a prefix is scaled from 4 to 2, and is
a constant), and lengths on both sides of the real limits 140 and 65535. The crash
budget of `builder_live` is unbounded, since a state after recovery repeats.
Deadlock is not checked: a build that is over, pushes that are used up, and a
hung step all stop the system rightly.

The violated properties are statements of the documentation, quoted at the
property; `PROJECT.json` "findings" names the lines. In short:

1. `TimeoutEndsBuild`: the watcher's single kill may hit no pid, and the step
   started next has no timeout.
2. `OwnCheckout`: two acquisitions may take the same directory.
3. `PoolsAreDisjoint`: the second workspace of `o/n` is the first of `o/n-1`.

More disagreements were met. The models behave as the code does, and where a
property would fail because of one, its statement says so.

- A cancel between two steps is answered "cancelled" while the next step still
  starts (CONTEXT.md:73, `CancelLoads` with the register at 0).
  `CancelOfRunningStepWins` states what does hold.
- When no workspace can be had or the log cannot be opened, a failure is recorded
  and nobody told (builder.go:98, README.md:247): commit and check run stay
  open. A build that is skipped has already posted "pending" (`Announce` before
  `InspectSilently`; README.md:166). An interrupted build is told to GitHub only if
  `github_token` is set, and its check run is never closed as `neutral`
  (`Recover`; README.md:250). For these reasons `RunsAreClosed` and
  `LastWordIsOutcome` speak of builds that reach a report, at `over`.
- A crash forgets queued jobs, whose refs are already advanced (server.go:349,
  CONTEXT.md:65): `RefsFollowQueue` is stated for histories without a fault.
- A poll that begins before an add has seeded its refs enqueues the snapshot that
  README.md:51 says is not built: `SnapshotIsLeft` excepts `disturbed`. The
  two then also write the same rows: the add may fail on
  `UNIQUE(repo_id, dir_name)` and be undone, and its directory stays behind. A
  removal that deletes the directory of an add while it seeds makes refs be passed
  over, and the add is answered "ok" all the same.
- A poll of a repository that was removed meanwhile finds no refs of it recorded,
  so it sends a job for every ref; only `CreateBuild`'s foreign key turns them away.
- A pruning or a removal of a repository whose `os.RemoveAll` fails half way keeps the
  row: a directory that still has its `.git` is handed out as a workspace
  (pool.go:64), and is taken, in vain, at every poll, as nothing repairs it.
  `SerialPoolIsSound` has the premise `~halfRemoved`, and `CatchesUp` excepts damaged
  directories with `.git` and a row.
- An outcome whose write fails, as every one does that comes after SIGTERM, is reported
  to GitHub all the same (builder.go:272-301): GitHub then shows an outcome, and the row
  none, or "interrupted" after the next start. `ConclusionFollowsRow` says that much.
- A failing clone for a row that is gone removes the directory that a newer row
  has taken, and an add is undone by name, not by id: `AddedStaysTracked` allows
  this one way of losing a repository.
- Only a newer modification time is noticed, although README.md:89 says that
  changes of it are: `UpToDate` and `CatchesUpWithFile` except stale stamps.
  `data_dir` is said to be reloaded and is resolved once (main.go:706); a new
  `poll_interval` counts from the tick that is running.
- Setup discards the settings of a `config.yml` that is not YAML (main.go:627)
  and truncates the file before it writes it, so that a daemon may serve
  defaults in between.

## Fairness

`Builder!Fairness`: the build goroutine, the watcher and a started cancel handler
run on (Go schedules goroutines; none waits on a lock held across a wait); the
deadline passes (a timer); a stopping process exits (`Run` returns on the
cancelled context); a dead daemon is started again
(`contrib/shitty-ci.service` has `Restart=on-failure`). No fairness is assumed of
a shell: a step may hang. Where a property needs shells to exit it says so as a
premise, `ShellsExit => ...`; without it `BuildSettles` is false, because of
finding 1. No client is obliged to send a request, and no fault to happen.

`Dispatch!Fairness`: the poller's ticker, the channel, the scheduler's 50 ms
retry and build goroutines make progress and a dead daemon is restarted. Weak
fairness is enough: once enabled these steps stay enabled until taken or until a
crash, of which there are `MaxFaults`. Build goroutines are named up to `MaxBuilds`;
`BuildsAreBounded` proves that there are no others.

`Tracking!Fairness`: the poller's ticker fires, a request that was begun is carried
on by its goroutine, and the scheduler takes jobs. Nobody has to send a request.
A call of GitHub or git that fails is a trouble, of which there are
`MaxTroubles`; the poller then tries again at the next tick.

`ConfigStore!Fairness`: the two tickers fire and a `Refresh` is carried on. Neither
the editor nor setup has to do anything, and a daemon that is down may stay down.

`WorkspacePool` and `Reporting` state safety only and assume none.

## Proofs

`BuilderProofs` proves for every `MaxSteps`, every set of `Clients`, every set of
`Faults` and both values of `PatConfigured`, from the three named assumptions of
`Builder` only:

- `TypeCorrect`, `OutcomeHasItsCause`, `StepsRunInOrder`, `WorkspaceIsHeld`,
  `NoShellOutlivesVerdict`, `WatcherIsJoined`: `Spec => []P` for the invariants of
  `builder_safety`;
- `OutcomeNeverChanges`: the action property `OutcomeIsFinal`;
- `ImplementsLifecycle`: `Spec => RefinesLifecycle`.

None of these is inductive alone. `Inv` adds what ties the program counter to
the rest: how far the shells are at each place of the loop (`LoopInv`), that the
outcome decided has its cause on the way out (`DecisionInv`), that the row has no
outcome until `finish` and a cause after it (`RowInv`), that the workspace is
busy from `open` to the end of the loop and whenever a shell lives
(`WorkspaceInv`), where the watcher and its context exist (`WatcherInv`), and that
only a process whose goroutines are gone recovers (`DaemonInv`). For instance
`NoShellAfterVerdict` needs that the wait returned (`LoopInv`), and that a late
kill ends living shells only (`ShellsEnd`, `KillEnds`).

`TypeStep` and `InvStep` go through the actions one by one. The watcher's and
the clients' kills, a shell's own exit and the death of the daemon share the
lemmas `EndStep` and `DieStep`: they end shells and start none, so each conjunct
survives. `LifecycleStep` maps each action to an action of `BuildLifecycle` or a
stutter; `OutcomeNeverChanges` is read off that mapping.

`DispatchProofs`, for every number of refs, commits, pushes, retries and faults,
every capacity, every set of limits and every set of what cannot be built:
`TypesAreKept`, `UnfinishedIsWorkedOn`, `NothingIsPassedOver`
(`RefsFollowQueue`), `PushesAreBuiltOnce` (`OneBuildPerPush`), `BuildsAreBounded`,
`BuildsAreGoroutines` and `LimitIsKept` (`StartsWithinLimit`). The limit is compared
with a counter, so the invariant has `RunningCounts`: the counter is the cardinality of the set of live goroutines,
through every start, end and crash. `RefsFollowQueue` needs that what the
poller is about to record has been sent (`AdvancedIsSent`), with at most one job
per ref in hand (`TodoIsOrderly`). `OneBuildPerPush` is not inductive: a push
during a scan makes work that only a later scan finds. `PushesPay` counts, beside
the jobs sent, the refs whose job is still to be sent (`Waiting`) and those a later
scan must look at (`Behind`); a push adds at most one to `Behind`, and every other
step moves a ref along. A crash or a failed `SetRefSHA` drops what the poller had
left, which a later scan finds anew; only the job that was sent and not recorded
is done twice, and the fault pays for it (`FaultsPay`). `RetriesPay` is the same for
the requests. So no behaviour has more than `MaxPushes + MaxFaults + MaxRetries`
builds (`BuildsAreBounded`). The library's facts about cardinalities carry this.

`BuildsAreGoroutines` and `BuilderProofs!ImplementsGoroutine` join the two modules:
each build of `Dispatch`, and `Builder`, implements `BuildGoroutine`. For `Dispatch` this
needs `GoroutinesServe`: a daemon that is down has neither a job in hand nor a
goroutine, and no goroutine works on an interrupted row. For `Builder` it needs
`PostInv` and its premise (`Faults` without `"db"` and `"stop"`), which is what
`Dispatch` leaves out: when the write of the outcome fails, or comes after SIGTERM,
the goroutine returns and its row stays unfinished until the next start of the
daemon. What `Dispatch` shows of rows, `UnfinishedIsLive` first, is therefore about
a database that takes every write of an outcome.

`WorkspacePoolProofs`, for every set of repositories and users and any number of
rows and faults: `TypesAreKept` and `NoRowStaysBusy` (`BusyIsHeld`), and for
repositories of which none is called as another with "-1" behind it
(`Twins = {}`), `OrphansAreSafe` (`OrphansAreLeftAlone`) and `SerialUseIsSound`
(`SerialPoolIsSound`). The premise is finding 3: with twins both are false. The
second also has its own, that no pruning has left a directory half removed; it needs that in a serial history what was read is still so (`ReadsAreFresh`),
that a directory being made belongs to no row (`NamesAreFree`), that
what is busy is a clone and only somebody at work is cloning (`DisksAreClones`), and the uniqueness of
numbers per repository (`NamesAreUnique`), which holds whoever overlaps.

`TrackingProofs`, for every number of clients, refs, commits, rows, numbers and
troubles: `TypesAreKept` with the foreign keys, `SnapshotIsNotBuilt`
(`SnapshotIsLeft`), `NoDirectoryIsLost` (`DirectoriesAreKnown`) and `AddIsNotUndone`
(`AddedStaysTracked`). The snapshot is left because an undisturbed add records what
it fetched (`SeedIsSound`) and from then on recorded refs, scans and queued jobs of
this row only advance (`RefsAdvance`), whereas those of former rows carry other
ids (`IdsAreIssued`). An answered add has no goroutine left that could undo it
(`AddIsOver`). A directory is known because an acquisition works for the row there
is, and a removal has every directory on its list (`AcquisitionsAreSound`).

`ConfigStoreProofs`, for any settings, stamps and number of writes: `TypesAreKept`,
so no daemon that has started runs on the zero configuration, and
`DaemonIsUpToDate` (`UpToDate`). The stamp is read before the file, so what was
loaded is never older than the stamp stored with it (`LoadIsNoOlder`); that no
stamp passes the newest (`StampsAreBounded`) makes a fresh one tell two files apart.

`ReportingProofs`, for any set of builds, steps, credentials and number of
troubles: `TypeCorrect`, `ConclusionsFollowTheRow` (`ConclusionFollowsRow`),
`ConclusionsAreFinal` (the action property `ConclusionIsFinal`), `RunsGetClosed`
(`RunsAreClosed`) and `LastWordsAreOutcomes` (`LastWordIsOutcome`). What is
proved is about GitHub's state, what moves it is the list of calls that a build
has left, so the invariant is about that list. `CallsFit`: at each place of
`runBuild`, a call that is left creates a check run that does not exist, or
updates the build's own with what runBuild has come to, or concludes the present
step's, once; so a lost answer, a reload or a crash, which only shorten the list,
can show nothing false. `RunsFit`: later steps have no check run yet and a
conclusion is the verdict. `RowFits` ties the row to the verdict: they are equal unless
the latest write failed, when the row has no conclusion, or recovery has marked it. `KeysFit`: the map knows a check run by its own key. The
last two theorems say `Smooth`, and their invariant `SmoothInv` needs more: a check
run that is left behind open has its closing call in the list (`OpenRunsFit`), the
last call in the list says the outcome (`LastWordFits`), a token that was fetched is
the one for the call (`TokenFits`), and whatever was created is in the map
(`RunsKnown`). `LEMMA`s about sequences, which split a list at its first call and
join two reports, carry both.

In these five, too, no property is inductive alone: `IInv` (`Inv` and `SmoothInv` in
`ReportingProofs`) is the conjunction named there, each module has a lemma per
action, and TLC has checked the invariant on the instances of the runs.

`StatusNeverRunsAhead` of `BuilderProofs` is `StatusFollowsRow` under the
assumption `Faults \cap {"db", "stop"} = {}`, that is: every write of the
database succeeds, posts may fail and the daemon may die. Without it the property
is false in the code, which drops the errors of `UpdateBuildState`. Its invariant
`PostInv` says what has been posted at each place: "pending" or nothing until
`report`, the row's outcome after it.

`FunctionProofs` is about inputs of any size:

- `FiltersAreMeant`: for every set of names and globs and any relation between
  them, `ShouldBuildRef` and `ShouldRunRef` decide for an accepted file as the rule of
  `RefFilter!BuildsWhatIsMeant` and `RunsWhatIsMeant` has it. `UnmarshalFacts` says
  what a node becomes, `SetFiltersDecide` what that matches.
- `ErrorsAreEarly`: whatever the globs, names and YAML, a filter that was
  accepted never fails on a ref later.
- `IdsNameNoOther`: after one more build, an argument that named a
  build by id or prefix names it still, is ambiguous, or is the newcomer's id.
- `TargetsFound`: for every table and argument, `logs`, `retry` and `cancel` find what
  the argument names. SQL's LIKE is a prefix match of lower-case letters only
  because no hexadecimal digit is a wildcard (`LikeIsPrefix`, from
  `HexAssumption`).
- `DescriptionsFit`, `FencesAreClosed`: integer arithmetic, for all lengths and
  limits.

`FiltersDecide`, `PrefixesStayStable`, `TargetsGetFound` and `TextsAlwaysFit` state the
invariants of the run `functions` from these, whatever inputs it is given
(`InputsFit` is their type).

Only model-checked: the liveness properties `BuildSettles`, `WorkspaceReturns`,
`CancelOfRunningStepWins`, both `CatchesUp` and `CatchesUpWithFile`, since fairness
and ENABLED are out of the prover's reach. Every invariant, action property and
refinement of a run has its theorem. `BuildsAreGoroutines` has no run: TLC accepts no
property that takes an argument.

## Left out, and why

- Environment of the commands, contents of the log beyond its length, wording of
  statuses: no property depends on them.
- YAML's syntax and the matching of a glob: libraries. Of SQL's LIKE the prefix
  match and the wildcard `_` are modelled, a `%` in an argument is not.
- `buildFinishedConclusion`, which nothing calls; a `CreateBuild` that fails is in
  `Builder` and not in `Reporting`.
- Signing of app tokens and the manifest flow of the setup wizard, but for its
  rewriting of `config.yml`.
- Re-use of pids by the operating system: the window between `cmd.Wait` and
  `curPID.Store(0)` is in the model, a stranger's process with the same pid is not.
- Processes a step leaves in the background: `Wait` does not wait for them.
- git errors of a scan in `Dispatch`, which only delay it (`Tracking` has them);
  shutdown in `Dispatch`, a crash as far as the channel is concerned; a write of an
  outcome that fails there (`Builder` has it).
- Secrets, the RPC's transport and token, git and XDG helpers, and the printing of
  the command line: single statements, one request per connection, calls of other
  programs, and formatting. None keeps state that outlives a call.
- Several repositories in `Dispatch`: they share the channel and the limit only.

## Plan

Done: the runs above, and proofs of all their invariants, action properties and
refinements. Left: `CatchesUp` of `Tracking` and `SerialPoolIsSound` without their
exceptions: a directory that a removal or a clone cut short left damaged, but with its
`.git`, would have to be noticed by the code first.

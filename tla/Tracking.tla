---- MODULE Tracking ----
(***************************************************************************)
(* One GitHub repository that is added, polled, removed and added again    *)
(* (repos_add, repos_remove, seedNewRepo, removeRepoDisk and pollRepo in   *)
(* internal/server/server.go, with the tables behind them).                *)
(*                                                                         *)
(* Every add makes a row with an id of its own; the rows of repo_refs,     *)
(* workspaces and builds hang on that id and go with it, while the         *)
(* directories are named after the repository alone.  So a poll, an add or *)
(* a queued job may be for a row that is gone, in a directory that a newer *)
(* row has taken.  The tables below hold the rows of the row now tracked.  *)
(*                                                                         *)
(* Coarse here, because another module has the detail: the inside of an    *)
(* acquisition and the pruner (WorkspacePool), the queue's order and       *)
(* capacity and refs that are advanced unbuilt (Dispatch), a build once it *)
(* has its row (Builder).                                                  *)
(***************************************************************************)
EXTENDS Naturals, FiniteSetsExt

CONSTANTS
    Clients,        \* connections, each serving one request at a time
    Poller,         \* the poller goroutine
    NRefs,          \* branches and tags of the repository
    MaxTip,         \* bound on the commits of a ref, which are numbered
    MaxIds,         \* bound on the rows of the repository
    MaxNumber,      \* bound on the numbers of its directories
    QueueCap,       \* capacity of App.queue
    MaxTroubles     \* bound on the crashes and failing calls

ASSUME PollerAssumption == Poller \notin Clients
ASSUME BoundsAssumption ==
    /\ NRefs \in Nat
    /\ MaxTip \in Nat \ {0}
    /\ MaxIds \in Nat
    /\ MaxNumber \in Nat
    /\ QueueCap \in Nat \ {0}
    /\ MaxTroubles \in Nat

VARIABLES
    tip,            \* GitHub: the commit of each ref, 0 if there is no such ref
    repo,           \* table repos: the id of the row, or 0
    lastId,         \* the AUTOINCREMENT counter of that table
    refSHA,         \* table repo_refs, 0 if there is no row
    ws,             \* table workspaces: the status per directory number
    builds,         \* table builds: <<ref, commit>>
    dirs,           \* the directories
    queue,          \* App.queue: <<row, ref, commit>>
    proc,           \* the poller goroutine and the connections' goroutines
    troubles,       \* crashes and failing calls so far
    base,           \* history: the tips that the add of the row has fetched
    answered,       \* history: the add of the row was answered "ok"
    disturbed,      \* history: before that, the poller took the row up, or the
                    \* directory vanished and refs were passed over
    overtaken       \* history: an acquisition met a removal, or an add was
                    \* undone or cut off

repos == <<repo, lastId>>
tables == <<repos, refSHA, ws, builds>>
history == <<base, answered, disturbed, overtaken>>
vars == <<tip, tables, dirs, queue, proc, troubles, history>>

Refs == 1..NRefs
Tips == [Refs -> 0..MaxTip]
Ids == 1..MaxIds
Numbers == 0..MaxNumber
Procs == Clients \cup {Poller}
NoRows == [r \in Refs |-> 0]
NoWorkspaces == [n \in Numbers |-> "none"]

\* id: the row it works for; num: its directory; seen: the tips it has
\* fetched; todo: the refs, or the directories, it has still to go through;
\* found: the refs that have moved.
Proc == [at : {"idle", "insert", "acquire", "cloning", "enroll", "using",
               "refs", "send", "advance", "undo",      \* add and poll
               "rmdir"},                                \* remove
         id : Ids \cup {0}, num : Numbers, seen : Tips,
         todo : SUBSET (Refs \cup Numbers), found : SUBSET Refs]
Idle == [at |-> "idle", id |-> 0, num |-> 0, seen |-> NoRows, todo |-> {},
         found |-> {}]

\* What a directory is: cloned into, whole, damaged, or damaged and without a
\* .git (by a clone cut short, or a removal that is, or was, in the midst of it).
Dirs == {"absent", "cloning", "clone", "partial", "rubble"}
Damaged == {"partial", "rubble"}
HasGit(n) == dirs[n] \in {"cloning", "clone", "partial"}

At(p, places) == proc[p].at \in places
Goto(p, place) == proc' = [proc EXCEPT ![p].at = place]
Acquiring == {p \in Procs : At(p, {"acquire", "cloning", "enroll"})}
Removing == {p \in Procs : At(p, {"rmdir"})}

\* The foreign keys are part of the type: no row hangs on a missing one.
TypeOK ==
    /\ tip \in Tips
    /\ repo \in 0..lastId
    /\ lastId \in 0..MaxIds
    /\ refSHA \in Tips
    /\ ws \in [Numbers -> {"none", "idle", "busy"}]
    /\ builds \subseteq Refs \X (1..MaxTip)
    /\ repo = 0 => refSHA = NoRows /\ ws = NoWorkspaces /\ builds = {}
    /\ dirs \in [Numbers -> Dirs]
    /\ queue \subseteq Ids \X Refs \X (1..MaxTip)
    /\ proc \in [Procs -> Proc]
    /\ troubles \in 0..MaxTroubles
    /\ base \in Tips
    /\ answered \in BOOLEAN
    /\ disturbed \in BOOLEAN
    /\ overtaken \in BOOLEAN

Init ==
    /\ tip \in [Refs -> {0, 1}]
    /\ repo = 0
    /\ lastId = 0
    /\ refSHA = NoRows
    /\ ws = NoWorkspaces
    /\ builds = {}
    /\ dirs = [n \in Numbers |-> "absent"]
    /\ queue = {}
    /\ proc = [p \in Procs |-> Idle]
    /\ troubles = 0
    /\ base = NoRows
    /\ answered = FALSE
    /\ disturbed = FALSE
    /\ overtaken = FALSE

\* Somebody pushes to a branch or creates one.
Push(r) ==
    /\ tip[r] < MaxTip
    /\ tip' = [tip EXCEPT ![r] = @ + 1]
    /\ UNCHANGED <<tables, dirs, queue, proc, troubles, history>>

Trouble ==
    /\ troubles < MaxTroubles
    /\ troubles' = troubles + 1

----------------------------------------------------------------------------
\* What repos_add and pollRepo share: acquireWorkspace, fetch, release

\* The error is returned: the poller gives this poll up, an add is undone.
Fail(p) ==
    proc' = [proc EXCEPT ![p] =
                IF p = Poller THEN Idle
                ELSE [Idle EXCEPT !.at = "undo", !.id = proc[p].id]]

\* ListWorkspaces(i)
Rows(i) == IF i = repo THEN {n \in Numbers : ws[n] # "none"} ELSE {}

NextNumber(i) ==
    IF 0 \notin Rows(i) THEN 0 ELSE Max(Rows(i)) + 1

\* SetWorkspaceStatus by the row's id: a row that is gone is no error.
SetStatus(p, n, status) ==
    ws' = IF proc[p].id = repo THEN [ws EXCEPT ![n] = status] ELSE ws

\* An idle row with a .git is marked busy; otherwise the next number is
\* taken, and its directory as it is if there is one, whoever left it.
Acquire(p) ==
    /\ At(p, {"acquire"})
    /\ LET i == proc[p].id
           ready == {n \in Rows(i) : ws[n] = "idle" /\ HasGit(n)}
           n == IF ready # {} THEN Min(ready) ELSE NextNumber(i)
       IN  /\ n \in Numbers
           /\ \/ /\ ready # {}
                 /\ SetStatus(p, n, "busy")
                 /\ proc' = [proc EXCEPT ![p].at = "using", ![p].num = n]
                 /\ UNCHANGED dirs
              \/ /\ ready = {}
                 /\ dirs[n] = "absent"
                 /\ dirs' = [dirs EXCEPT ![n] = "cloning"]
                 /\ proc' = [proc EXCEPT ![p].at = "cloning", ![p].num = n]
                 /\ UNCHANGED ws
              \/ /\ ready = {}
                 /\ dirs[n] # "absent"
                 /\ proc' = [proc EXCEPT ![p].at = "enroll", ![p].num = n]
                 /\ UNCHANGED <<ws, dirs>>
    /\ overtaken' = (overtaken \/ Removing # {})
    /\ UNCHANGED <<tip, repos, refSHA, builds, queue, troubles, base, answered,
                   disturbed>>

Clone(p) ==
    /\ At(p, {"cloning"})
    /\ dirs[proc[p].num] = "cloning"
    /\ dirs' = [dirs EXCEPT ![proc[p].num] = "clone"]
    /\ Goto(p, "enroll")
    /\ UNCHANGED <<tip, tables, queue, troubles, history>>

\* GitHub is out of reach, or a removal went over the directory; git removes
\* the directory, or what is left of it, if it can.
CloneFails(p) ==
    /\ At(p, {"cloning"})
    /\ LET n == proc[p].num
           cleared == [dirs EXCEPT ![n] = "absent"]
       IN  \/ Trouble /\ dirs' = cleared
           \/ dirs[n] # "cloning" /\ dirs' \in {dirs, cleared} /\ UNCHANGED troubles
    /\ Fail(p)
    /\ UNCHANGED <<tip, tables, queue, history>>

\* InsertWorkspace: the row of the repository has to be there (foreign key),
\* one of the number must not (UNIQUE).  The directory stays either way.
Enroll(p) ==
    /\ At(p, {"enroll"})
    /\ \/ /\ proc[p].id = repo
          /\ ws[proc[p].num] = "none"
          /\ ws' = [ws EXCEPT ![proc[p].num] = "busy"]
          /\ Goto(p, "using")
       \/ /\ proc[p].id # repo \/ ws[proc[p].num] # "none"
          /\ Fail(p)
          /\ UNCHANGED ws
    /\ UNCHANGED <<tip, repos, refSHA, builds, dirs, queue, troubles, history>>

\* git fetch --tags --prune and for-each-ref.
Fetch(p) ==
    /\ At(p, {"using"})
    /\ HasGit(proc[p].num)
    /\ proc' = [proc EXCEPT ![p].at = "refs", ![p].seen = tip,
                            ![p].todo = {r \in Refs : tip[r] # 0}]
    /\ base' = IF p # Poller /\ proc[p].id = repo THEN tip ELSE base
    /\ UNCHANGED <<tip, tables, dirs, queue, troubles, answered, disturbed, overtaken>>

\* GitHub is out of reach, or the clone is incomplete, damaged or gone.
FetchFails(p) ==
    /\ At(p, {"using"})
    /\ \/ Trouble
       \/ dirs[proc[p].num] # "clone" /\ UNCHANGED troubles
    /\ SetStatus(p, proc[p].num, "idle")
    /\ Fail(p)
    /\ UNCHANGED <<tip, repos, refSHA, builds, dirs, queue, history>>

\* The loops over the refs: whether rev-parse may answer, or fail and the ref be
\* passed over; in a damaged directory it may do either.
Legible(p, ok) == IF ok THEN HasGit(proc[p].num) ELSE dirs[proc[p].num] # "clone"

\* What the loop over the refs, or over the directories, goes through next.
IsNext(p, x) == x \in proc[p].todo /\ \A y \in proc[p].todo : x <= y

----------------------------------------------------------------------------
\* repos_add

\* GetRepo: not tracked.
AddChecks(c) ==
    /\ At(c, {"idle"})
    /\ repo = 0
    /\ lastId < MaxIds
    /\ Goto(c, "insert")
    /\ UNCHANGED <<tip, tables, dirs, queue, troubles, history>>

\* Bug: an add that loses the race is undone like one that cannot be seeded.
AddInsertsOrUndoes(c) ==
    /\ At(c, {"insert"})
    /\ \/ /\ repo = 0
          /\ lastId < MaxIds
          /\ lastId' = lastId + 1
          /\ repo' = lastId'
          /\ proc' = [proc EXCEPT ![c].at = "acquire", ![c].id = lastId']
       \/ /\ repo # 0
          /\ Fail(c)
          /\ UNCHANGED repos
    /\ UNCHANGED <<tip, refSHA, ws, builds, dirs, queue, troubles, history>>

\* AddRepo: UNIQUE(owner, name) turns the later of two adds away.
AddInserts(c) ==
    /\ At(c, {"insert"})
    /\ \/ /\ repo = 0
          /\ lastId < MaxIds
          /\ lastId' = lastId + 1
          /\ repo' = lastId'
          /\ proc' = [proc EXCEPT ![c].at = "acquire", ![c].id = lastId']
       \/ /\ repo # 0
          /\ proc' = [proc EXCEPT ![c] = Idle]
          /\ UNCHANGED repos
    /\ UNCHANGED <<tip, refSHA, ws, builds, dirs, queue, troubles, history>>

\* SetRefSHA for the next ref; it fails when the row is gone.
Seed(c) ==
    /\ At(c, {"refs"})
    /\ \E r \in Refs :
        /\ IsNext(c, r)
        /\ \/ /\ Legible(c, TRUE)
              /\ proc[c].id = repo
              /\ refSHA' = [refSHA EXCEPT ![r] = proc[c].seen[r]]
              /\ proc' = [proc EXCEPT ![c].todo = @ \ {r}]
              /\ UNCHANGED disturbed
           \/ /\ Legible(c, TRUE)
              /\ proc[c].id # repo
              /\ Fail(c)
              /\ UNCHANGED <<refSHA, disturbed>>
           \/ /\ Legible(c, FALSE)
              /\ proc' = [proc EXCEPT ![c].todo = @ \ {r}]
              /\ disturbed' = (disturbed \/ proc[c].id = repo)
              /\ UNCHANGED refSHA
    /\ UNCHANGED <<tip, repos, ws, builds, dirs, queue, troubles, base, answered,
                   overtaken>>

\* The deferred release, and the answer "ok".
AddAnswers(c) ==
    /\ At(c, {"refs"})
    /\ proc[c].todo = {}
    /\ SetStatus(c, proc[c].num, "idle")
    /\ proc' = [proc EXCEPT ![c] = Idle]
    /\ answered' = (answered \/ proc[c].id = repo)
    /\ UNCHANGED <<tip, repos, refSHA, builds, dirs, queue, troubles, base, disturbed,
                   overtaken>>

\* Bug: builds was made without ON DELETE CASCADE.
RemoveRepoKeepingBuilds ==
    /\ repo' = 0
    /\ refSHA' = NoRows
    /\ ws' = NoWorkspaces
    /\ base' = NoRows
    /\ answered' = FALSE
    /\ disturbed' = FALSE
    /\ UNCHANGED <<lastId, builds>>

\* RemoveRepo: the row called owner/name, whichever it is, and all that
\* hangs on it.
RemoveRepo ==
    /\ repo' = 0
    /\ refSHA' = NoRows
    /\ ws' = NoWorkspaces
    /\ builds' = {}
    /\ base' = NoRows
    /\ answered' = FALSE
    /\ disturbed' = FALSE
    /\ UNCHANGED lastId

\* The add could not be seeded: its row is removed, its directory is not.
\* An error of that is dropped.
Undo(c) ==
    /\ At(c, {"undo"})
    /\ \/ RemoveRepo /\ UNCHANGED troubles
       \/ Trouble /\ UNCHANGED <<tables, base, answered, disturbed>>
    /\ proc' = [proc EXCEPT ![c] = Idle]
    /\ overtaken' = TRUE
    /\ UNCHANGED <<tip, dirs, queue>>

----------------------------------------------------------------------------
\* repos_remove

\* Bug: the directories in use are spared, although their rows are not.
RemoveListsIdle(c) ==
    /\ At(c, {"idle"})
    /\ repo # 0
    /\ proc' = [proc EXCEPT ![c].at = "rmdir",
                            ![c].todo = {n \in Rows(repo) : ws[n] = "idle"}]
    /\ overtaken' = (overtaken \/ Acquiring # {})
    /\ UNCHANGED <<tip, tables, dirs, queue, troubles, base, answered, disturbed>>

\* GetRepo and ListWorkspaces.
RemoveLists(c) ==
    /\ At(c, {"idle"})
    /\ repo # 0
    /\ proc' = [proc EXCEPT ![c].at = "rmdir", ![c].todo = Rows(repo)]
    /\ overtaken' = (overtaken \/ Acquiring # {})
    /\ UNCHANGED <<tip, tables, dirs, queue, troubles, base, answered, disturbed>>

\* os.RemoveAll goes through a directory, whoever uses it ...
RemoveDamages(c) ==
    /\ At(c, {"rmdir"})
    /\ \E n \in Numbers, s \in Damaged :
        /\ IsNext(c, n)
        /\ HasGit(n)
        /\ dirs[n] # s
        /\ dirs' = [dirs EXCEPT ![n] = s]
    /\ UNCHANGED <<tip, tables, queue, proc, troubles, history>>

\* ... until nothing is left of it.
RemoveDir(c) ==
    /\ At(c, {"rmdir"})
    /\ \E n \in Numbers :
        /\ IsNext(c, n)
        /\ dirs' = [dirs EXCEPT ![n] = "absent"]
        /\ proc' = [proc EXCEPT ![c].todo = @ \ {n}]
    /\ UNCHANGED <<tip, tables, queue, troubles, history>>

\* It fails, wherever it was in the directory: the removal ends, and the
\* repository stays tracked with the directories that are left.
RemoveDirFails(c) ==
    /\ At(c, {"rmdir"})
    /\ proc[c].todo # {}
    /\ Trouble
    /\ proc' = [proc EXCEPT ![c] = Idle]
    /\ UNCHANGED <<tip, tables, dirs, queue, history>>

RemoveDeletes(c) ==
    /\ At(c, {"rmdir"})
    /\ proc[c].todo = {}
    /\ RemoveRepo
    /\ proc' = [proc EXCEPT ![c] = Idle]
    /\ overtaken' = (overtaken \/ Acquiring # {})
    /\ UNCHANGED <<tip, dirs, queue, troubles>>

----------------------------------------------------------------------------
\* pollOnce, pollRepo, and the first statement of a build

\* ListRepos; the row may be gone before the poll is over.
PollBegins ==
    /\ At(Poller, {"idle"})
    /\ repo # 0
    /\ proc' = [proc EXCEPT ![Poller].at = "acquire", ![Poller].id = repo]
    /\ disturbed' = (disturbed \/ ~answered)
    /\ UNCHANGED <<tip, tables, dirs, queue, troubles, base, answered, overtaken>>

\* GetRefSHA answers "" for a missing row, also for a repository that is gone.
GetRefSHA(i, r) == IF i = repo THEN refSHA[r] ELSE 0

\* Bug: a ref without a row is left to whoever is about to seed it.
PollComparesSeeded ==
    /\ At(Poller, {"refs"})
    /\ \E r \in Refs, ok \in BOOLEAN :
        /\ IsNext(Poller, r)
        /\ Legible(Poller, ok)
        /\ LET last == GetRefSHA(proc[Poller].id, r)
               moved == ok /\ last \notin {0, proc[Poller].seen[r]}
           IN  proc' = [proc EXCEPT ![Poller].todo = @ \ {r},
                            ![Poller].found = @ \cup (IF moved THEN {r} ELSE {})]
    /\ UNCHANGED <<tip, tables, dirs, queue, troubles, history>>

PollCompares ==
    /\ At(Poller, {"refs"})
    /\ \E r \in Refs, ok \in BOOLEAN :
        /\ IsNext(Poller, r)
        /\ Legible(Poller, ok)
        /\ LET last == GetRefSHA(proc[Poller].id, r)
               moved == ok /\ last # proc[Poller].seen[r]
           IN  proc' = [proc EXCEPT ![Poller].todo = @ \ {r},
                            ![Poller].found = @ \cup (IF moved THEN {r} ELSE {})]
    /\ UNCHANGED <<tip, tables, dirs, queue, troubles, history>>

\* To the next job, or to the end of the poll.
Continue(left) ==
    proc' = [proc EXCEPT ![Poller] =
                IF left = {} THEN Idle
                ELSE [proc[Poller] EXCEPT !.at = "send", !.num = 0, !.todo = left,
                                          !.found = {}]]

PollReleases ==
    /\ At(Poller, {"refs"})
    /\ proc[Poller].todo = {}
    /\ SetStatus(Poller, proc[Poller].num, "idle")
    /\ Continue(proc[Poller].found)
    /\ UNCHANGED <<tip, repos, refSHA, builds, dirs, queue, troubles, history>>

\* a.queue <- j
PollSends ==
    /\ At(Poller, {"send"})
    /\ Cardinality(queue) < QueueCap
    /\ \E r \in Refs :
        /\ IsNext(Poller, r)
        /\ queue' = queue \cup {<<proc[Poller].id, r, proc[Poller].seen[r]>>}
    /\ Goto(Poller, "advance")
    /\ UNCHANGED <<tip, tables, dirs, troubles, history>>

\* SetRefSHA; when the row is gone it fails and the other jobs are dropped.
PollAdvances ==
    /\ At(Poller, {"advance"})
    /\ \/ /\ proc[Poller].id = repo
          /\ \E r \in Refs :
              /\ IsNext(Poller, r)
              /\ refSHA' = [refSHA EXCEPT ![r] = proc[Poller].seen[r]]
              /\ Continue(proc[Poller].todo \ {r})
       \/ /\ proc[Poller].id # repo
          /\ Continue({})
          /\ UNCHANGED refSHA
    /\ UNCHANGED <<tip, repos, ws, builds, dirs, queue, troubles, history>>

\* Bug: the build is filed under whatever row has the name now.
CreateBuildByName(j) ==
    /\ queue' = queue \ {j}
    /\ builds' = IF repo # 0 THEN builds \cup {<<j[2], j[3]>>} ELSE builds
    /\ UNCHANGED <<tip, repos, refSHA, ws, dirs, proc, troubles, history>>

\* runBuild's CreateBuild: the foreign key turns a job away whose repository
\* is gone, and runBuild returns without a word.
CreateBuild(j) ==
    /\ queue' = queue \ {j}
    /\ builds' = IF j[1] = repo THEN builds \cup {<<j[2], j[3]>>} ELSE builds
    /\ UNCHANGED <<tip, repos, refSHA, ws, dirs, proc, troubles, history>>

----------------------------------------------------------------------------
\* The daemon dies and is started again: the tables stay as they are, and a
\* clone in progress goes on, is undone by git, or is cut short.
Crash ==
    /\ Trouble
    /\ proc' = [p \in Procs |-> Idle]
    /\ queue' = {}
    /\ \E s \in {"clone", "absent", "partial"} :
           dirs' = [n \in Numbers |-> IF dirs[n] = "cloning" THEN s ELSE dirs[n]]
    /\ overtaken' = TRUE
    /\ UNCHANGED <<tip, tables, base, answered, disturbed>>

AcquireStep(p) ==
    \/ Acquire(p) \/ Clone(p) \/ CloneFails(p) \/ Enroll(p)
    \/ Fetch(p) \/ FetchFails(p)

\* What a goroutine does once it has begun.
AddStep(c) == AddInserts(c) \/ Seed(c) \/ AddAnswers(c) \/ Undo(c)
RemoveStep(c) ==
    RemoveDamages(c) \/ RemoveDir(c) \/ RemoveDirFails(c) \/ RemoveDeletes(c)
ClientStep(c) == AcquireStep(c) \/ AddStep(c) \/ RemoveStep(c)
PollStep ==
    \/ PollBegins \/ AcquireStep(Poller) \/ PollCompares \/ PollReleases
    \/ PollSends \/ PollAdvances

Next ==
    \/ \E r \in Refs : Push(r)
    \/ \E c \in Clients : AddChecks(c) \/ RemoveLists(c) \/ ClientStep(c)
    \/ PollStep
    \/ \E j \in queue : CreateBuild(j)
    \/ Crash

Spec == Init /\ [][Next]_vars

\* The poller's ticker fires, and a request that was begun is carried on.
Fairness ==
    /\ WF_vars(PollStep)
    /\ \A c \in Clients : WF_vars(ClientStep(c))
    /\ WF_vars(\E j \in queue : CreateBuild(j))

FairSpec == Spec /\ Fairness

----------------------------------------------------------------------------
\* Properties

\* A repository whose add was answered, with every ref seeded and before a poll
\* took it up, has none of the commits built that were there on that day,
\* whatever polls, adds, removals and queued jobs there still are for a former
\* row of the name.
SnapshotIsLeft == answered /\ ~disturbed => \A b \in builds : b[2] > base[b[1]]

\* Some c deletes the row for a remove request, or to undo an add of its own
\* whose row is gone already.
MayUntrack ==
    \E c \in Clients :
        /\ proc'[c] # proc[c]
        /\ \/ At(c, {"rmdir"})
           \/ At(c, {"undo"}) /\ proc[c].id \in 1..lastId /\ proc[c].id # repo

\* A repository whose add was answered "ok" is untracked by a removal only,
\* or by the undoing of an add whose own row was removed before; never by an
\* add that another one beat.
AddedStaysTracked == [][answered /\ repo' # repo => MayUntrack]_vars

\* As long as no acquisition meets a removal and no add is undone or cut off,
\* every directory has its row or somebody about to insert it: removals that
\* fail half way, or run beside each other, beside polls and adds, lose none.
DirectoriesAreKnown ==
    ~overtaken =>
        \A n \in Numbers :
            dirs[n] # "absent" =>
                \/ ws[n] # "none"
                \/ \E p \in Procs : At(p, {"cloning", "enroll"}) /\ proc[p].num = n

\* A tracked repository is caught up with in the end, also when its add was
\* cut off before the refs were seeded, when seeding put a ref back that the
\* poller had advanced, and when a removal failed after it had taken
\* directories away under the poller, wholly or with their .git.  Not so when a
\* damaged directory has kept its .git and has a row: an acquisition takes it
\* again and again, and nothing repairs it.
CatchesUp ==
    <>[](\/ repo = 0
         \/ refSHA = tip
         \/ \E n \in Numbers : dirs[n] = "partial" /\ ws[n] # "none")

====

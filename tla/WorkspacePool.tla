---- MODULE WorkspacePool ----
(***************************************************************************)
(* The pool of checkout directories (internal/server/pool.go).  Builds and *)
(* the poller acquire a workspace, use it and release it; the pruner       *)
(* removes idle ones; the daemon may die.  No lock covers an acquisition:  *)
(* each query, statement, stat and clone is a step of its own.             *)
(***************************************************************************)
EXTENDS Naturals

CONSTANTS
    Repos,          \* tracked repositories
    Users,          \* concurrent acquirers: builds and the poller
    RepoOf,         \* the repository each user works for
    Twins,          \* pairs <<r, s>>: s is called as r with "-1" at the end
    Prune,          \* workspace_ttl > 0
    MaxRows,        \* bound on the rows ever inserted
    MaxFaults       \* bound on crashes and failed releases

ASSUME ReposAssumption == Repos # {}
ASSUME UsersAssumption == RepoOf \in [Users -> Repos]
ASSUME TwinsAssumption ==
    /\ Twins \subseteq Repos \X Repos
    /\ \A t, v \in Twins : t[1] = v[1] => t = v
ASSUME BoundsAssumption ==
    Prune \in BOOLEAN /\ MaxRows \in Nat /\ MaxFaults \in Nat

VARIABLES
    rows,           \* the table workspaces
    disk,           \* the directories under workspaces/
    pc,             \* per user: where its acquisition is
    cand,           \* per user: idle rows it has listed and not yet probed
    wsid,           \* per user: the row it is about to take or has taken
    num,            \* per user: number of the directory it is about to make
    victims,        \* rows the pruner has read as idle and old
    removed,        \* the victim whose directory is gone and row is not, or 0
    faults,         \* crashes and failed releases so far
    orphans,        \* history: rows that were busy when the daemon died
    overlapped,     \* history: two acquisitions, or one and a pruning, overlapped
    halfRemoved     \* history: a pruning has left a directory half removed

users == <<pc, cand, wsid, num>>
pruner == <<victims, removed>>
history == <<orphans, overlapped, halfRemoved>>
vars == <<rows, disk, users, pruner, faults, history>>

Ids == 1..MaxRows
Numbers == 0..MaxRows

\* The path of the n-th workspace of r; the first one has no number.
Path(r, n) ==
    IF n = 1 /\ \E s \in Repos : <<r, s>> \in Twins
    THEN <<CHOOSE s \in Repos : <<r, s>> \in Twins, 0>>
    ELSE <<r, n>>
Paths == Repos \X Numbers

\* "cloning": git clone is writing it; "partial": a clone cut short or half
\* removed, with a .git; "rubble": half removed and without one.
Damaged == {"partial", "rubble"}
Disk == {"absent", "cloning", "clone"} \cup Damaged
Exists(p) == disk[p] # "absent"
HasGit(p) == disk[p] \in {"cloning", "partial", "clone"}

Row == [repo : Repos, num : Numbers, status : {"none", "idle", "busy", "deleted"},
        old : BOOLEAN]
Live == {i \in Ids : rows[i].status \in {"idle", "busy"}}
LiveOf(r) == {i \in Live : rows[i].repo = r}
PathOf(i) == Path(rows[i].repo, rows[i].num)
IsFirst(i, ids) == i \in ids /\ \A j \in ids : i <= j

\* Users that make a workspace, users that acquire one, users that have one.
Making == {u \in Users : pc[u] \in {"stat", "clone", "cloning", "insert"}}
Acquiring == Making \cup {u \in Users : pc[u] \in {"probe", "mark"}}
Using == {u \in Users : pc[u] = "using"}

TypeOK ==
    /\ rows \in [Ids -> Row]
    /\ disk \in [Paths -> Disk]
    /\ pc \in [Users -> {"off", "probe", "mark", "stat", "clone", "cloning",
                         "insert", "using"}]
    /\ cand \in [Users -> SUBSET Ids]
    /\ wsid \in [Users -> Ids \cup {0}]
    /\ num \in [Users -> Numbers]
    /\ victims \subseteq Ids
    /\ removed \in Ids \cup {0}
    /\ faults \in 0..MaxFaults
    /\ orphans \subseteq Ids
    /\ overlapped \in BOOLEAN
    /\ halfRemoved \in BOOLEAN

Init ==
    /\ rows = [i \in Ids |-> [repo |-> CHOOSE r \in Repos : TRUE, num |-> 0,
                              status |-> "none", old |-> FALSE]]
    /\ disk = [p \in Paths |-> "absent"]
    /\ pc = [u \in Users |-> "off"]
    /\ cand = [u \in Users |-> {}]
    /\ wsid = [u \in Users |-> 0]
    /\ num = [u \in Users |-> 0]
    /\ victims = {}
    /\ removed = 0
    /\ faults = 0
    /\ orphans = {}
    /\ overlapped = FALSE
    /\ halfRemoved = FALSE

----------------------------------------------------------------------------
\* acquireWorkspace

\* Back to where u has no workspace, with an error or after the release.
Forget(u) ==
    /\ pc' = [pc EXCEPT ![u] = "off"]
    /\ cand' = [cand EXCEPT ![u] = {}]
    /\ wsid' = [wsid EXCEPT ![u] = 0]
    /\ num' = [num EXCEPT ![u] = 0]

\* ListWorkspaces: the rows as they are now.
List(u) ==
    /\ pc[u] = "off"
    /\ cand' = [cand EXCEPT ![u] =
                    {i \in LiveOf(RepoOf[u]) : rows[i].status = "idle"}]
    /\ pc' = [pc EXCEPT ![u] = "probe"]
    /\ overlapped' = (overlapped \/ Acquiring # {} \/ victims # {})
    /\ UNCHANGED <<rows, disk, wsid, num, pruner, faults, orphans, halfRemoved>>

\* An idle row is passed over unless its directory has a .git.
Probe(u) ==
    /\ pc[u] = "probe"
    /\ \E i \in Ids :
           /\ IsFirst(i, cand[u])
           /\ \/ /\ HasGit(PathOf(i))
                 /\ pc' = [pc EXCEPT ![u] = "mark"]
                 /\ wsid' = [wsid EXCEPT ![u] = i]
                 /\ cand' = [cand EXCEPT ![u] = {}]
              \/ /\ ~HasGit(PathOf(i))
                 /\ cand' = [cand EXCEPT ![u] = @ \ {i}]
                 /\ UNCHANGED <<pc, wsid>>
    /\ UNCHANGED <<rows, disk, num, pruner, faults, history>>

\* Bug: a released row gets a status that nobody looks for.
SetStatusFree(i, s) ==
    rows' = IF i \in Live
            THEN [rows EXCEPT ![i].status = IF s = "idle" THEN "free" ELSE s,
                              ![i].old = FALSE]
            ELSE rows

\* UPDATE workspaces SET status=s WHERE id=i: a row that is gone is no error.
\* last_used becomes now.
SetStatus(i, s) ==
    rows' = IF i \in Live
            THEN [rows EXCEPT ![i].status = s, ![i].old = FALSE]
            ELSE rows

Mark(u) ==
    /\ pc[u] = "mark"
    /\ SetStatus(wsid[u], "busy")
    /\ pc' = [pc EXCEPT ![u] = "using"]
    /\ UNCHANGED <<disk, cand, wsid, num, pruner, faults, history>>

\* nextWorkspaceDirName: the plain name, or one more than the largest number.
IsNextNumber(r, n) ==
    LET taken == {rows[i].num : i \in LiveOf(r)}
    IN  \/ 0 \notin taken /\ n = 0
        \/ 0 \in taken /\ n - 1 \in taken /\ \A m \in taken : m < n

Name(u) ==
    /\ pc[u] = "probe"
    /\ cand[u] = {}
    /\ \E n \in Numbers :
           /\ IsNextNumber(RepoOf[u], n)
           /\ num' = [num EXCEPT ![u] = n]
    /\ pc' = [pc EXCEPT ![u] = "stat"]
    /\ UNCHANGED <<rows, disk, cand, wsid, pruner, faults, history>>

PathFor(u) == Path(RepoOf[u], num[u])

\* A directory that is already there is taken as it is.
Stat(u) ==
    /\ pc[u] = "stat"
    /\ pc' = [pc EXCEPT ![u] = IF Exists(PathFor(u)) THEN "insert" ELSE "clone"]
    /\ UNCHANGED <<rows, disk, cand, wsid, num, pruner, faults, history>>

\* git clone refuses a directory that came into being since.
CloneBegins(u) ==
    /\ pc[u] = "clone"
    /\ \/ /\ ~Exists(PathFor(u))
          /\ disk' = [disk EXCEPT ![PathFor(u)] = "cloning"]
          /\ pc' = [pc EXCEPT ![u] = "cloning"]
          /\ UNCHANGED <<cand, wsid, num>>
       \/ Exists(PathFor(u)) /\ Forget(u) /\ UNCHANGED disk
    /\ UNCHANGED <<rows, pruner, faults, history>>

\* ... and removes what it wrote when it fails.
CloneEnds(u) ==
    /\ pc[u] = "cloning"
    /\ \/ /\ disk[PathFor(u)] = "cloning"
          /\ disk' = [disk EXCEPT ![PathFor(u)] = "clone"]
          /\ pc' = [pc EXCEPT ![u] = "insert"]
          /\ UNCHANGED <<cand, wsid, num>>
       \/ disk' = [disk EXCEPT ![PathFor(u)] = "absent"] /\ Forget(u)
    /\ UNCHANGED <<rows, pruner, faults, history>>

\* InsertWorkspace, as busy; UNIQUE(repo_id, dir_name) lets one of two win.
Insert(u) ==
    /\ pc[u] = "insert"
    /\ \A i \in LiveOf(RepoOf[u]) : rows[i].num # num[u]
    /\ \E i \in Ids :
           /\ rows[i].status = "none"
           /\ \A j \in Ids : j < i => rows[j].status # "none"
           /\ rows' = [rows EXCEPT ![i] =
                          [repo |-> RepoOf[u], num |-> num[u],
                           status |-> "busy", old |-> FALSE]]
           /\ wsid' = [wsid EXCEPT ![u] = i]
    /\ num' = [num EXCEPT ![u] = 0]
    /\ pc' = [pc EXCEPT ![u] = "using"]
    /\ UNCHANGED <<disk, cand, pruner, faults, history>>

\* A statement of the acquisition fails: the error is returned and nothing
\* is undone.
AcquireFails(u) ==
    /\ pc[u] \in {"probe", "mark", "insert"}
    /\ Forget(u)
    /\ UNCHANGED <<rows, disk, pruner, faults, history>>

----------------------------------------------------------------------------
\* releaseWorkspace, its caller, the pruner and the daemon

\* Bug: the release is skipped when the caller returns with an error.
ReleaseOnSuccess(u) ==
    /\ pc[u] = "using"
    /\ \/ SetStatus(wsid[u], "idle")
       \/ UNCHANGED rows
    /\ Forget(u)
    /\ UNCHANGED <<disk, pruner, faults, history>>

Release(u) ==
    /\ pc[u] = "using"
    /\ SetStatus(wsid[u], "idle")
    /\ Forget(u)
    /\ UNCHANGED <<disk, pruner, faults, history>>

\* The error of releaseWorkspace is dropped by its callers.
ReleaseFails(u) ==
    /\ pc[u] = "using"
    /\ faults < MaxFaults
    /\ faults' = faults + 1
    /\ Forget(u)
    /\ UNCHANGED <<rows, disk, pruner, history>>

UserStep(u) ==
    \/ List(u) \/ Probe(u) \/ Mark(u) \/ Name(u) \/ Stat(u) \/ CloneBegins(u)
    \/ CloneEnds(u) \/ Insert(u) \/ AcquireFails(u) \/ Release(u)
    \/ ReleaseFails(u)

\* workspace_ttl has passed since the row was last used.
Ages(i) ==
    /\ Prune
    /\ i \in Live
    /\ ~rows[i].old
    /\ rows' = [rows EXCEPT ![i].old = TRUE]
    /\ UNCHANGED <<disk, users, pruner, faults, history>>

\* Bug: the pruner looks at the age alone.
PruneReadsOld ==
    /\ victims = {}
    /\ victims' = {i \in Live : rows[i].old}
    /\ victims' # {}
    /\ overlapped' = (overlapped \/ Acquiring # {})
    /\ UNCHANGED <<rows, disk, users, removed, faults, orphans, halfRemoved>>

\* pruneWorkspaces reads the rows in one query.
PruneReads ==
    /\ victims = {}
    /\ victims' = {i \in Live : rows[i].status = "idle" /\ rows[i].old}
    /\ victims' # {}
    /\ overlapped' = (overlapped \/ Acquiring # {})
    /\ UNCHANGED <<rows, disk, users, removed, faults, orphans, halfRemoved>>

\* os.RemoveAll, of what the query said, goes through a directory that others
\* may look at meanwhile ...
PruneDamages ==
    /\ removed = 0
    /\ \E i \in Ids, s \in Damaged :
           /\ IsFirst(i, victims)
           /\ HasGit(PathOf(i))
           /\ disk' = [disk EXCEPT ![PathOf(i)] = s]
    /\ UNCHANGED <<rows, users, pruner, faults, history>>

\* ... until nothing is left of it ...
PruneRemoves ==
    /\ removed = 0
    /\ \E i \in Ids :
           /\ IsFirst(i, victims)
           /\ removed' = i
           /\ disk' = [disk EXCEPT ![PathOf(i)] = "absent"]
    /\ UNCHANGED <<rows, users, victims, faults, history>>

\* ... and DeleteWorkspaceRow.
PruneDeletes ==
    /\ removed # 0
    /\ rows' = [rows EXCEPT ![removed].status = "deleted",
                             ![removed].old = FALSE]
    /\ victims' = victims \ {removed}
    /\ removed' = 0
    /\ UNCHANGED <<disk, users, faults, history>>

\* RemoveAll fails, wherever it was in the directory, or the DELETE does: the
\* pruner returns, and the rows stay idle.
PruneFails ==
    /\ victims # {}
    /\ victims' = {}
    /\ removed' = 0
    /\ halfRemoved' = (halfRemoved \/ \E i \in victims : disk[PathOf(i)] \in Damaged)
    /\ UNCHANGED <<rows, disk, users, faults, orphans, overlapped>>

PruneStep ==
    PruneReads \/ PruneDamages \/ PruneRemoves \/ PruneDeletes \/ PruneFails

\* Bug: the next start hands the busy workspaces out again.
CrashFreesRows ==
    /\ faults < MaxFaults
    /\ faults' = faults + 1
    /\ rows' = [i \in Ids |-> IF i \in Live THEN [rows[i] EXCEPT !.status = "idle"]
                              ELSE rows[i]]
    /\ pc' = [u \in Users |-> "off"]
    /\ cand' = [u \in Users |-> {}]
    /\ wsid' = [u \in Users |-> 0]
    /\ num' = [u \in Users |-> 0]
    /\ victims' = {}
    /\ removed' = 0
    /\ orphans' = {i \in Ids : rows[i].status = "busy"}
    /\ UNCHANGED <<disk, overlapped, halfRemoved>>

\* The daemon dies and is started again: the rows stay as they are, and a
\* clone in progress goes on, is undone by git, or is cut short.  A removal
\* stops where it was.
Crash ==
    /\ faults < MaxFaults
    /\ faults' = faults + 1
    /\ \E s \in {"clone", "absent", "partial"} :
           disk' = [p \in Paths |-> IF disk[p] = "cloning" THEN s ELSE disk[p]]
    /\ pc' = [u \in Users |-> "off"]
    /\ cand' = [u \in Users |-> {}]
    /\ wsid' = [u \in Users |-> 0]
    /\ num' = [u \in Users |-> 0]
    /\ victims' = {}
    /\ removed' = 0
    /\ orphans' = {i \in Ids : rows[i].status = "busy"}
    /\ UNCHANGED <<rows, overlapped, halfRemoved>>

Next ==
    \/ \E u \in Users : UserStep(u)
    \/ \E i \in Ids : Ages(i)
    \/ PruneStep
    \/ Crash

Spec == Init /\ [][Next]_vars

----------------------------------------------------------------------------
\* Properties

\* Without a crash or a failed release no row stays busy by itself: whoever
\* marked it, or shares it, still has it to give back, also when the pruner
\* deleted a row under its user or two users took the same one.
BusyIsHeld ==
    faults = 0 =>
        \A i \in Ids : rows[i].status = "busy" =>
            \E u \in Using : wsid[u] = i

\* As long as acquisitions do not overlap each other or a pruning, no fault
\* has happened and no pruning has left a directory half removed, the pool is
\* right: a workspace in use is marked busy, is a complete clone, and has one
\* user.  A directory that os.RemoveAll did not finish keeps its idle row, and
\* is handed out if its .git is left.
SerialPoolIsSound ==
    ~overlapped /\ faults = 0 /\ ~halfRemoved =>
        \A u \in Using :
            /\ rows[wsid[u]].status = "busy"
            /\ disk[PathOf(wsid[u])] = "clone"
            /\ \A v \in Using : PathOf(wsid[v]) = PathOf(wsid[u]) => v = u

\* A workspace that was busy when the daemon died is never handed out, named
\* again or pruned: a shell that outlived the daemon keeps it to itself.
OrphansAreLeftAlone ==
    \A i \in orphans :
        /\ rows[i].status = "busy"
        /\ i \notin victims
        /\ \A u \in Users :
               /\ i \notin cand[u]
               /\ wsid[u] # i
               /\ u \in Making => PathFor(u) # PathOf(i)

\* CONTEXT.md:135, "Each build gets its own checkout directory.": no two
\* users are in the same directory.
OwnCheckout ==
    \A u, v \in Using : PathOf(wsid[u]) = PathOf(wsid[v]) => u = v

\* CONTEXT.md:92, "Each tracked repo has a dynamically-sized pool of persistent
\* checkout directories.": no directory is in the pools of two repositories.
PoolsAreDisjoint ==
    \A i, j \in Live : PathOf(i) = PathOf(j) => rows[i].repo = rows[j].repo

====

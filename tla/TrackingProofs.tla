---- MODULE TrackingProofs ----
(***************************************************************************)
(* Tracking for any number of connections, refs, commits, rows and         *)
(* troubles: the types with the foreign keys, that an answered add is not  *)
(* undone by another one, that a snapshot is left unbuilt, and that no     *)
(* directory is lost as long as nothing overtakes.                         *)
(***************************************************************************)
EXTENDS Tracking, TLAPS

AddPlaces == {"acquire", "cloning", "enroll", "using", "refs", "undo"}
PollPlaces == {"acquire", "cloning", "enroll", "using", "refs", "send", "advance"}
Places == {"idle", "insert", "acquire", "cloning", "enroll", "using",
           "refs", "send", "advance", "undo", "rmdir"}
Todos == SUBSET (Refs \cup Numbers)

\* Whatever is for a row is for one that was made; an add is alone with its row.
IdsAreIssued ==
    /\ At(Poller, PollPlaces) => proc[Poller].id # 0
    /\ proc[Poller].id <= lastId
    /\ \A c \in Clients : At(c, AddPlaces) => proc[c].id \in 1..lastId
    /\ \A c, d \in Clients :
           At(c, AddPlaces) /\ At(d, AddPlaces) /\ proc[c].id = proc[d].id => c = d
    /\ \A j \in queue : j[1] <= lastId

\* The poller goes through refs that exist.
PollIsSound ==
    /\ At(Poller, PollPlaces \cup {"idle"})
    /\ ~At(Poller, {"refs", "send", "advance"}) => proc[Poller].found = {}
    /\ At(Poller, {"refs", "send", "advance"}) =>
           \A r \in proc[Poller].todo \cup proc[Poller].found :
               r \in Refs /\ proc[Poller].seen[r] # 0

\* Nobody is left who could undo an add that was answered.
AddIsOver ==
    answered =>
        /\ repo # 0
        /\ \A c \in Clients : At(c, AddPlaces) => proc[c].id # repo

TipsGrow == \A r \in Refs : base[r] <= tip[r]

\* What the add of the row has seeded so far, if the poller left it alone.
SeedIsSound ==
    ~answered /\ ~disturbed /\ repo # 0 =>
        /\ proc[Poller].id # repo
        /\ \A j \in queue : j[1] # repo
        /\ builds = {}
        /\ \A c \in Clients :
               /\ proc[c].id = repo /\ At(c, {"acquire", "cloning", "enroll", "using"})
                  => refSHA = NoRows
               /\ proc[c].id = repo /\ At(c, {"refs"})
                  => /\ proc[c].seen = base
                     /\ \A r \in Refs : r \notin proc[c].todo => refSHA[r] = base[r]

\* After that refs only advance, and what is sent is newer than what was seeded.
RefsAdvance ==
    answered /\ ~disturbed =>
        /\ \A r \in Refs : base[r] <= refSHA[r] /\ refSHA[r] <= tip[r]
        /\ \A j \in queue : j[1] = repo => j[3] > base[j[2]]
        /\ proc[Poller].id = repo /\ At(Poller, {"refs", "send", "advance"}) =>
               \A r \in Refs : proc[Poller].seen[r] <= tip[r]
        /\ proc[Poller].id = repo /\ At(Poller, {"refs"}) =>
               \A r \in Refs :
                   /\ refSHA[r] <= proc[Poller].seen[r]
                   /\ r \in proc[Poller].found => base[r] < proc[Poller].seen[r]
        /\ proc[Poller].id = repo /\ At(Poller, {"send", "advance"}) =>
               \A r \in Refs :
                   r \in proc[Poller].todo => base[r] < proc[Poller].seen[r]

\* An acquisition works for the row there is; a clone has its directory to
\* itself; a removal has all the directories before it, and nobody makes one.
AcquisitionsAreSound ==
    ~overtaken =>
        /\ \A p \in Procs : At(p, {"acquire", "cloning", "enroll"}) =>
               proc[p].id = repo /\ repo # 0
        /\ \A p \in Procs : At(p, {"cloning"}) => dirs[proc[p].num] = "cloning"
        /\ \A p, q \in Procs :
               At(p, {"cloning"}) /\ At(q, {"cloning"}) /\ proc[p].num = proc[q].num
               => p = q
        /\ \A p, c \in Procs : At(c, {"rmdir"}) => ~At(p, {"cloning", "enroll"})
        /\ \A c \in Procs, n \in Numbers :
               At(c, {"rmdir"}) /\ dirs[n] # "absent" => n \in proc[c].todo

Seeding == AddIsOver /\ TipsGrow /\ SeedIsSound /\ RefsAdvance /\ SnapshotIsLeft
Directories == AcquisitionsAreSound /\ DirectoriesAreKnown
Rules == IdsAreIssued /\ PollIsSound /\ Seeding
IInv == TypeOK /\ Rules /\ Directories

----------------------------------------------------------------------------
\* What a goroutine is after its step; the others are as they were.
Becomes(p, a, i, n, s, t, f) ==
    /\ proc' \in [Procs -> Proc]
    /\ \A q \in Procs : q # p => proc'[q] = proc[q]
    /\ proc'[p].at = a /\ proc'[p].id = i /\ proc'[p].num = n
    /\ proc'[p].seen = s /\ proc'[p].todo = t /\ proc'[p].found = f

LEMMA FieldsAreTyped ==
  ASSUME NEW r \in Proc
  PROVE  /\ r.at \in Places /\ r.id \in Ids \cup {0} /\ r.num \in Numbers
         /\ r.seen \in Tips /\ r.todo \in Todos /\ r.found \in SUBSET Refs
  BY DEF Proc, Places, Todos

LEMMA OneFieldIsTyped ==
  ASSUME NEW r \in Proc
  PROVE  /\ \A a \in Places : [r EXCEPT !.at = a] \in Proc
         /\ \A i \in Ids \cup {0} : [r EXCEPT !.id = i] \in Proc
         /\ \A n \in Numbers : [r EXCEPT !.num = n] \in Proc
         /\ \A s \in Tips : [r EXCEPT !.seen = s] \in Proc
         /\ \A t \in Todos : [r EXCEPT !.todo = t] \in Proc
         /\ \A f \in SUBSET Refs : [r EXCEPT !.found = f] \in Proc
  BY DEF Proc, Places, Todos

LEMMA BecomesIt ==
  ASSUME TypeOK, NEW p \in Procs, NEW v \in Proc, proc' = [proc EXCEPT ![p] = v]
  PROVE  Becomes(p, v.at, v.id, v.num, v.seen, v.todo, v.found)
  BY DEF TypeOK, Becomes

LEMMA NoRowsAreTips == NoRows \in Tips
  BY BoundsAssumption DEF NoRows, Tips

LEMMA IdleIsTyped == Idle \in Proc
  BY NoRowsAreTips, BoundsAssumption DEF Idle, Proc, Numbers

LEMMA Moves ==
  ASSUME TypeOK, NEW p \in Procs, NEW a \in Places,
         proc' = [proc EXCEPT ![p].at = a]
  PROVE  Becomes(p, a, proc[p].id, proc[p].num, proc[p].seen, proc[p].todo,
                 proc[p].found)
<1>1. PICK r \in Proc : r = proc[p]
  BY DEF TypeOK
<1>2. PICK v \in Proc : v = [r EXCEPT !.at = a]
  BY OneFieldIsTyped
<1>3. /\ v.at = a /\ v.id = r.id /\ v.num = r.num
      /\ v.seen = r.seen /\ v.todo = r.todo /\ v.found = r.found
  BY <1>2 DEF Proc
<1>4. proc' = [proc EXCEPT ![p] = v]
  BY <1>1, <1>2, Zenon
<1>. QED
  BY <1>1, <1>3, <1>4, BecomesIt, Zenon

LEMMA TakesRow ==
  ASSUME TypeOK, NEW p \in Procs, NEW a \in Places, NEW i \in Ids \cup {0},
         proc' = [proc EXCEPT ![p].at = a, ![p].id = i]
  PROVE  Becomes(p, a, i, proc[p].num, proc[p].seen, proc[p].todo,
                 proc[p].found)
<1>1. PICK r \in Proc : r = proc[p]
  BY DEF TypeOK
<1>2. PICK v1 \in Proc : v1 = [r EXCEPT !.at = a]
  BY OneFieldIsTyped
<1>3. PICK v \in Proc : v = [v1 EXCEPT !.id = i]
  BY OneFieldIsTyped
<1>4. /\ v.at = a /\ v.id = i /\ v.num = r.num
      /\ v.seen = r.seen /\ v.todo = r.todo /\ v.found = r.found
  BY <1>2, <1>3 DEF Proc
<1>5. proc' = [proc EXCEPT ![p] = v]
  BY <1>1, <1>2, <1>3, Zenon
<1>. QED
  BY <1>1, <1>4, <1>5, BecomesIt, Zenon

LEMMA TakesNumber ==
  ASSUME TypeOK, NEW p \in Procs, NEW a \in Places, NEW n \in Numbers,
         proc' = [proc EXCEPT ![p].at = a, ![p].num = n]
  PROVE  Becomes(p, a, proc[p].id, n, proc[p].seen, proc[p].todo,
                 proc[p].found)
<1>1. PICK r \in Proc : r = proc[p]
  BY DEF TypeOK
<1>2. PICK v1 \in Proc : v1 = [r EXCEPT !.at = a]
  BY OneFieldIsTyped
<1>3. PICK v \in Proc : v = [v1 EXCEPT !.num = n]
  BY OneFieldIsTyped
<1>4. /\ v.at = a /\ v.id = r.id /\ v.num = n
      /\ v.seen = r.seen /\ v.todo = r.todo /\ v.found = r.found
  BY <1>2, <1>3 DEF Proc
<1>5. proc' = [proc EXCEPT ![p] = v]
  BY <1>1, <1>2, <1>3, Zenon
<1>. QED
  BY <1>1, <1>4, <1>5, BecomesIt, Zenon

LEMMA Lists ==
  ASSUME TypeOK, NEW p \in Procs, NEW a \in Places, NEW t \in Todos,
         proc' = [proc EXCEPT ![p].at = a, ![p].todo = t]
  PROVE  Becomes(p, a, proc[p].id, proc[p].num, proc[p].seen, t,
                 proc[p].found)
<1>1. PICK r \in Proc : r = proc[p]
  BY DEF TypeOK
<1>2. PICK v1 \in Proc : v1 = [r EXCEPT !.at = a]
  BY OneFieldIsTyped
<1>3. PICK v \in Proc : v = [v1 EXCEPT !.todo = t]
  BY OneFieldIsTyped
<1>4. /\ v.at = a /\ v.id = r.id /\ v.num = r.num
      /\ v.seen = r.seen /\ v.todo = t /\ v.found = r.found
  BY <1>2, <1>3 DEF Proc
<1>5. proc' = [proc EXCEPT ![p] = v]
  BY <1>1, <1>2, <1>3, Zenon
<1>. QED
  BY <1>1, <1>4, <1>5, BecomesIt, Zenon

LEMMA Reads ==
  ASSUME TypeOK, NEW p \in Procs, NEW a \in Places, NEW s \in Tips,
         NEW t \in Todos,
         proc' = [proc EXCEPT ![p].at = a, ![p].seen = s, ![p].todo = t]
  PROVE  Becomes(p, a, proc[p].id, proc[p].num, s, t, proc[p].found)
<1>1. PICK r \in Proc : r = proc[p]
  BY DEF TypeOK
<1>2. PICK v1 \in Proc : v1 = [r EXCEPT !.at = a]
  BY OneFieldIsTyped
<1>3. PICK v2 \in Proc : v2 = [v1 EXCEPT !.seen = s]
  BY OneFieldIsTyped
<1>4. PICK v \in Proc : v = [v2 EXCEPT !.todo = t]
  BY OneFieldIsTyped
<1>5. /\ v.at = a /\ v.id = r.id /\ v.num = r.num
      /\ v.seen = s /\ v.todo = t /\ v.found = r.found
  BY <1>2, <1>3, <1>4 DEF Proc
<1>6. proc' = [proc EXCEPT ![p] = v]
  BY <1>1, <1>2, <1>3, <1>4, Zenon
<1>. QED
  BY <1>1, <1>5, <1>6, BecomesIt, Zenon

LEMMA Ticks ==
  ASSUME TypeOK, NEW p \in Procs, NEW t \in Todos,
         proc' = [proc EXCEPT ![p].todo = t]
  PROVE  Becomes(p, proc[p].at, proc[p].id, proc[p].num, proc[p].seen, t,
                 proc[p].found)
<1>1. PICK r \in Proc : r = proc[p]
  BY DEF TypeOK
<1>2. PICK v \in Proc : v = [r EXCEPT !.todo = t]
  BY OneFieldIsTyped
<1>3. /\ v.at = r.at /\ v.id = r.id /\ v.num = r.num
      /\ v.seen = r.seen /\ v.todo = t /\ v.found = r.found
  BY <1>2 DEF Proc
<1>4. proc' = [proc EXCEPT ![p] = v]
  BY <1>1, <1>2, Zenon
<1>. QED
  BY <1>1, <1>3, <1>4, BecomesIt, Zenon

LEMMA Compares ==
  ASSUME TypeOK, NEW p \in Procs, NEW t \in Todos, NEW f \in SUBSET Refs,
         proc' = [proc EXCEPT ![p].todo = t, ![p].found = f]
  PROVE  Becomes(p, proc[p].at, proc[p].id, proc[p].num, proc[p].seen, t, f)
<1>1. PICK r \in Proc : r = proc[p]
  BY DEF TypeOK
<1>2. PICK v1 \in Proc : v1 = [r EXCEPT !.todo = t]
  BY OneFieldIsTyped
<1>3. PICK v \in Proc : v = [v1 EXCEPT !.found = f]
  BY OneFieldIsTyped
<1>4. /\ v.at = r.at /\ v.id = r.id /\ v.num = r.num
      /\ v.seen = r.seen /\ v.todo = t /\ v.found = f
  BY <1>2, <1>3 DEF Proc
<1>5. proc' = [proc EXCEPT ![p] = v]
  BY <1>1, <1>2, <1>3, Zenon
<1>. QED
  BY <1>1, <1>4, <1>5, BecomesIt, Zenon

LEMMA Rests ==
  ASSUME TypeOK, NEW p \in Procs, proc' = [proc EXCEPT ![p] = Idle]
  PROVE  Becomes(p, "idle", 0, 0, NoRows, {}, {})
<1>1. PICK v \in Proc : v = Idle
  BY IdleIsTyped
<1>2. /\ v.at = "idle" /\ v.id = 0 /\ v.num = 0
      /\ v.seen = NoRows /\ v.todo = {} /\ v.found = {}
  BY <1>1 DEF Idle
<1>. QED
  BY <1>1, <1>2, BecomesIt, Zenon

LEMMA Fails ==
  ASSUME TypeOK, NEW p \in Procs, Fail(p)
  PROVE  Becomes(p, IF p = Poller THEN "idle" ELSE "undo",
                 IF p = Poller THEN 0 ELSE proc[p].id, 0, NoRows, {}, {})
<1>1. CASE p = Poller
  BY <1>1, Rests DEF Fail
<1>2. CASE p # Poller
  <2>1. PICK r \in Proc : r = proc[p]
    BY DEF TypeOK
  <2>2. PICK o \in Proc : o = Idle
    BY IdleIsTyped
  <2>3. PICK u \in Proc : u = [o EXCEPT !.at = "undo"]
    BY OneFieldIsTyped DEF Places
  <2>4. PICK v \in Proc : v = [u EXCEPT !.id = r.id]
    BY OneFieldIsTyped, FieldsAreTyped
  <2>5. /\ o.num = 0 /\ o.seen = NoRows /\ o.todo = {} /\ o.found = {}
    BY <2>2 DEF Idle
  <2>6. /\ v.at = "undo" /\ v.id = r.id /\ v.num = 0
        /\ v.seen = NoRows /\ v.todo = {} /\ v.found = {}
    BY <2>3, <2>4, <2>5 DEF Proc
  <2>7. proc' = [proc EXCEPT ![p] = v]
    BY <1>2, <2>1, <2>2, <2>3, <2>4, Zenon DEF Fail
  <2>8. Becomes(p, "undo", proc[p].id, 0, NoRows, {}, {})
    BY <2>1, <2>6, <2>7, BecomesIt, Zenon
  <2>. QED
    BY <1>2, <2>8, Zenon
<1>. QED
  BY <1>1, <1>2

LEMMA Resumes ==
  ASSUME TypeOK, NEW left \in SUBSET Refs, Continue(left)
  PROVE  \/ left = {} /\ Becomes(Poller, "idle", 0, 0, NoRows, {}, {})
         \/ left # {} /\ Becomes(Poller, "send", proc[Poller].id, 0,
                                 proc[Poller].seen, left, {})
<1>1. CASE left = {}
  BY <1>1, Rests DEF Continue, Procs
<1>2. CASE left # {}
  <2>1. PICK r \in Proc : r = proc[Poller]
    BY DEF TypeOK, Procs
  <2>2. PICK v1 \in Proc : v1 = [r EXCEPT !.at = "send"]
    BY OneFieldIsTyped DEF Places
  <2>3. PICK v2 \in Proc : v2 = [v1 EXCEPT !.num = 0]
    <3>1. 0 \in Numbers
      BY BoundsAssumption DEF Numbers
    <3>. QED
      BY <3>1, OneFieldIsTyped
  <2>4. PICK v3 \in Proc : v3 = [v2 EXCEPT !.todo = left]
    BY OneFieldIsTyped DEF Todos
  <2>5. PICK v \in Proc : v = [v3 EXCEPT !.found = {}]
    BY OneFieldIsTyped
  <2>6. /\ v.at = "send" /\ v.id = r.id /\ v.num = 0
        /\ v.seen = r.seen /\ v.todo = left /\ v.found = {}
    BY <2>2, <2>3, <2>4, <2>5 DEF Proc
  <2>7. proc' = [proc EXCEPT ![Poller] = v]
    BY <1>2, <2>1, <2>2, <2>3, <2>4, <2>5, Zenon DEF Continue
  <2>8. Becomes(Poller, "send", proc[Poller].id, 0, proc[Poller].seen, left, {})
    BY <2>1, <2>6, <2>7, BecomesIt, Zenon DEF Procs
  <2>. QED
    BY <1>2, <2>8, Zenon
<1>. QED
  BY <1>1, <1>2

----------------------------------------------------------------------------
\* Steps that many actions share

\* SetWorkspaceStatus, by somebody who works for a row, takes no row away.
LEMMA StatusKeepsRows ==
  ASSUME TypeOK, NEW p \in Procs, NEW n, NEW s \in {"idle", "busy"},
         SetStatus(p, n, s), proc[p].id # 0
  PROVE  /\ ws' \in [Numbers -> {"none", "idle", "busy"}]
         /\ repo = 0 => ws' = ws
         /\ \A m \in Numbers : ws'[m] = "none" => ws[m] = "none"
  BY DEF TypeOK, SetStatus

\* An acquisition goes on.
LEMMA AcquiringKeepsRules ==
  ASSUME TypeOK, Rules, UNCHANGED <<tip, repos, refSHA, builds, queue>>,
         UNCHANGED <<base, answered, disturbed>>,
         NEW p \in Procs, At(p, {"acquire", "cloning", "enroll"}),
         NEW a \in {"cloning", "enroll", "using"}, NEW n, NEW s, NEW t,
         Becomes(p, a, proc[p].id, n, s, t, proc[p].found)
  PROVE  Rules'
<1>. USE PollerAssumption DEF Rules, Becomes, Procs, At, repos
<1>1. IdsAreIssued'
  BY DEF IdsAreIssued, AddPlaces, PollPlaces
<1>2. PollIsSound'
  BY DEF PollIsSound, PollPlaces
<1>3. AddIsOver' /\ TipsGrow' /\ SnapshotIsLeft'
  BY DEF Seeding, AddIsOver, TipsGrow, SnapshotIsLeft, AddPlaces
<1>4. SeedIsSound'
  BY DEF Seeding, SeedIsSound
<1>5. RefsAdvance'
  BY DEF Seeding, RefsAdvance
<1>. QED
  BY <1>1, <1>2, <1>3, <1>4, <1>5 DEF Seeding

\* An acquisition or a seeding fails.
LEMMA FailingKeepsRules ==
  ASSUME TypeOK, Rules, UNCHANGED <<tip, repos, refSHA, builds, queue>>,
         UNCHANGED <<base, answered, disturbed>>,
         NEW p \in Procs, At(p, {"cloning", "enroll", "using", "refs"}), Fail(p)
  PROVE  Rules'
<1>. USE PollerAssumption DEF Rules, Becomes, Procs, At, repos
<1>1. CASE p = Poller
  <2>1. Becomes(p, "idle", 0, 0, NoRows, {}, {})
    BY <1>1, Fails
  <2>2. lastId \in Nat
    BY BoundsAssumption DEF TypeOK
  <2>3. IdsAreIssued'
    BY <1>1, <2>1, <2>2 DEF IdsAreIssued, AddPlaces, PollPlaces
  <2>4. PollIsSound'
    BY <1>1, <2>1 DEF PollIsSound, PollPlaces
  <2>5. AddIsOver' /\ TipsGrow' /\ SnapshotIsLeft'
    BY <1>1, <2>1 DEF Seeding, AddIsOver, TipsGrow, SnapshotIsLeft, AddPlaces
  <2>6. SeedIsSound'
    BY <1>1, <2>1 DEF Seeding, SeedIsSound
  <2>7. RefsAdvance'
    BY <1>1, <2>1 DEF Seeding, RefsAdvance
  <2>. QED
    BY <2>3, <2>4, <2>5, <2>6, <2>7 DEF Seeding
<1>2. CASE p # Poller
  <2>1. Becomes(p, "undo", proc[p].id, 0, NoRows, {}, {})
    BY <1>2, Fails
  <2>2. IdsAreIssued'
    BY <1>2, <2>1 DEF IdsAreIssued, AddPlaces, PollPlaces
  <2>3. PollIsSound'
    BY <1>2, <2>1 DEF PollIsSound, PollPlaces
  <2>4. AddIsOver' /\ TipsGrow' /\ SnapshotIsLeft'
    BY <1>2, <2>1 DEF Seeding, AddIsOver, TipsGrow, SnapshotIsLeft, AddPlaces
  <2>5. SeedIsSound'
    BY <1>2, <2>1 DEF Seeding, SeedIsSound
  <2>6. RefsAdvance'
    BY <1>2, <2>1 DEF Seeding, RefsAdvance
  <2>. QED
    BY <2>2, <2>3, <2>4, <2>5, <2>6 DEF Seeding
<1>. QED
  BY <1>1, <1>2

\* A connection does what is not for a row.
LEMMA IdlingKeepsRules ==
  ASSUME TypeOK, Rules, UNCHANGED <<tip, repos, refSHA, builds, queue>>,
         UNCHANGED <<base, answered, disturbed>>,
         NEW c \in Clients, NEW a \in {"idle", "insert", "rmdir"},
         NEW i, NEW n, NEW s, NEW t, NEW f, Becomes(c, a, i, n, s, t, f)
  PROVE  Rules'
<1>. USE PollerAssumption DEF Rules, Becomes, Procs, At, repos
<1>1. IdsAreIssued'
  BY DEF IdsAreIssued, AddPlaces, PollPlaces
<1>2. PollIsSound'
  BY DEF PollIsSound, PollPlaces
<1>3. AddIsOver' /\ TipsGrow' /\ SnapshotIsLeft'
  BY DEF Seeding, AddIsOver, TipsGrow, SnapshotIsLeft, AddPlaces
<1>4. SeedIsSound'
  BY DEF Seeding, SeedIsSound
<1>5. RefsAdvance'
  BY DEF Seeding, RefsAdvance
<1>. QED
  BY <1>1, <1>2, <1>3, <1>4, <1>5 DEF Seeding

\* The row is deleted, and whoever did it is done.
LEMMA UntrackingKeepsRules ==
  ASSUME TypeOK, Rules, RemoveRepo, UNCHANGED <<tip, queue>>,
         NEW c \in Clients, Becomes(c, "idle", 0, 0, NoRows, {}, {})
  PROVE  Rules'
<1>. USE PollerAssumption DEF Rules, Becomes, Procs, At, RemoveRepo
<1>1. IdsAreIssued'
  BY DEF IdsAreIssued, AddPlaces, PollPlaces
<1>2. PollIsSound'
  BY DEF PollIsSound, PollPlaces
<1>3. TipsGrow'
  <2>1. \A r \in Refs : NoRows[r] = 0 /\ tip[r] >= 0
    BY BoundsAssumption DEF TypeOK, Tips, NoRows
  <2>. QED
    BY <2>1 DEF TipsGrow
<1>4. AddIsOver' /\ SeedIsSound' /\ RefsAdvance' /\ SnapshotIsLeft'
  BY DEF AddIsOver, SeedIsSound, RefsAdvance, SnapshotIsLeft
<1>. QED
  BY <1>1, <1>2, <1>3, <1>4 DEF Seeding

LEMMA UntrackingKeepsTypes ==
  ASSUME TypeOK, RemoveRepo, UNCHANGED <<tip, dirs, queue>>,
         proc' \in [Procs -> Proc], troubles' = troubles,
         overtaken' \in BOOLEAN
  PROVE  TypeOK'
<1>1. NoWorkspaces \in [Numbers -> {"none", "idle", "busy"}]
  BY DEF NoWorkspaces
<1>2. 0 \in 0..lastId
  BY BoundsAssumption DEF TypeOK
<1>. QED
  BY <1>1, <1>2, NoRowsAreTips DEF TypeOK, RemoveRepo

\* Nothing happens to the directories, nobody begins to acquire or to remove.
LEMMA DirectoriesAreKept ==
  ASSUME Directories, UNCHANGED <<repo, dirs, overtaken>>,
         \A m \in Numbers : ws'[m] = "none" => ws[m] = "none",
         NEW p \in Procs, ~At(p, {"cloning", "enroll"}),
         NEW a, a \notin {"acquire", "cloning", "enroll", "rmdir"},
         NEW i, NEW n, NEW s, NEW t, NEW f, Becomes(p, a, i, n, s, t, f)
  PROVE  Directories'
<1>. USE DEF Directories, Becomes, At
<1>1. AcquisitionsAreSound'
  BY DEF AcquisitionsAreSound
<1>2. DirectoriesAreKnown'
  BY DEF DirectoriesAreKnown
<1>. QED
  BY <1>1, <1>2

----------------------------------------------------------------------------
\* One lemma per action: what repos_add and pollRepo share

\* Whoever works for a row has its id.
LEMMA WorkersHaveRows ==
  ASSUME Rules, NEW p \in Procs,
         At(p, {"acquire", "cloning", "enroll", "using", "refs"})
  PROVE  proc[p].id # 0
  BY DEF Rules, IdsAreIssued, At, Procs, AddPlaces, PollPlaces

LEMMA AcquireIsGood ==
  ASSUME IInv, NEW p \in Procs, Acquire(p)
  PROVE  IInv'
<1>. USE DEF IInv, Dirs
<1>1. PICK n \in Numbers :
        \/ /\ SetStatus(p, n, "busy")
           /\ proc' = [proc EXCEPT ![p].at = "using", ![p].num = n]
           /\ UNCHANGED dirs
        \/ /\ dirs[n] = "absent"
           /\ dirs' = [dirs EXCEPT ![n] = "cloning"]
           /\ proc' = [proc EXCEPT ![p].at = "cloning", ![p].num = n]
           /\ UNCHANGED ws
        \/ /\ dirs[n] # "absent"
           /\ proc' = [proc EXCEPT ![p].at = "enroll", ![p].num = n]
           /\ UNCHANGED <<ws, dirs>>
  BY Zenon DEF Acquire
<1>2. /\ At(p, {"acquire"})
      /\ overtaken' = (overtaken \/ Removing # {})
      /\ UNCHANGED <<tip, repos, refSHA, builds, queue, troubles, base, answered,
                     disturbed>>
  BY Zenon DEF Acquire
<1>3. overtaken' \in BOOLEAN
  BY <1>2, Zenon DEF TypeOK
<1>4. proc[p].id # 0
  BY <1>2, WorkersHaveRows DEF At
<1>5. ASSUME NEW a \in {"using", "cloning", "enroll"},
             proc' = [proc EXCEPT ![p].at = a, ![p].num = n]
      PROVE  /\ Becomes(p, a, proc[p].id, n, proc[p].seen, proc[p].todo,
                        proc[p].found)
             /\ Rules'
  <2>1. Becomes(p, a, proc[p].id, n, proc[p].seen, proc[p].todo, proc[p].found)
    BY <1>5, TakesNumber DEF Places
  <2>. QED
    BY <1>2, <2>1, AcquiringKeepsRules DEF At
<1>6. CASE /\ SetStatus(p, n, "busy")
           /\ proc' = [proc EXCEPT ![p].at = "using", ![p].num = n]
           /\ UNCHANGED dirs
  <2>1. /\ ws' \in [Numbers -> {"none", "idle", "busy"}]
        /\ repo = 0 => ws' = ws
        /\ \A m \in Numbers : ws'[m] = "none" => ws[m] = "none"
    BY <1>4, <1>6, StatusKeepsRows
  <2>2. Becomes(p, "using", proc[p].id, n, proc[p].seen, proc[p].todo,
                proc[p].found)
    BY <1>5, <1>6
  <2>3. TypeOK'
    BY <1>2, <1>3, <1>6, <2>1, <2>2 DEF TypeOK, Becomes, repos
  <2>4. Directories'
    <3>1. CASE overtaken'
      BY <3>1 DEF Directories, AcquisitionsAreSound, DirectoriesAreKnown
    <3>2. CASE ~overtaken'
      <4>1. overtaken' = overtaken
        BY <1>2, <1>3, <3>2, Zenon DEF TypeOK
      <4>. QED
        BY <1>2, <1>6, <2>1, <2>2, <4>1, DirectoriesAreKept DEF At, repos
    <3>. QED
      BY <3>1, <3>2
  <2>. QED
    BY <1>5, <1>6, <2>3, <2>4
<1>7. CASE /\ dirs[n] = "absent"
           /\ dirs' = [dirs EXCEPT ![n] = "cloning"]
           /\ proc' = [proc EXCEPT ![p].at = "cloning", ![p].num = n]
           /\ UNCHANGED ws
  <2>1. Becomes(p, "cloning", proc[p].id, n, proc[p].seen, proc[p].todo,
                proc[p].found)
    BY <1>5, <1>7
  <2>2. TypeOK'
    BY <1>2, <1>3, <1>7, <2>1 DEF TypeOK, Becomes, repos
  <2>3. Directories'
    <3>1. SUFFICES ASSUME ~overtaken' PROVE Directories'
      BY DEF Directories, AcquisitionsAreSound, DirectoriesAreKnown
    <3>2. ~overtaken /\ \A c \in Procs : ~At(c, {"rmdir"})
      BY <1>2, <3>1 DEF Removing
    <3>3. dirs \in [Numbers -> Dirs]
      BY DEF TypeOK
    <3>4. AcquisitionsAreSound'
      BY <1>2, <1>7, <2>1, <3>2, <3>3
         DEF Directories, AcquisitionsAreSound, Becomes, At, repos
    <3>5. DirectoriesAreKnown'
      BY <1>2, <1>7, <2>1, <3>2, <3>3
         DEF Directories, DirectoriesAreKnown, Becomes, At
    <3>. QED
      BY <3>4, <3>5 DEF Directories
  <2>. QED
    BY <1>5, <1>7, <2>2, <2>3
<1>8. CASE /\ dirs[n] # "absent"
           /\ proc' = [proc EXCEPT ![p].at = "enroll", ![p].num = n]
           /\ UNCHANGED <<ws, dirs>>
  <2>1. Becomes(p, "enroll", proc[p].id, n, proc[p].seen, proc[p].todo,
                proc[p].found)
    BY <1>5, <1>8
  <2>2. TypeOK'
    BY <1>2, <1>3, <1>8, <2>1 DEF TypeOK, Becomes, repos
  <2>3. Directories'
    <3>1. SUFFICES ASSUME ~overtaken' PROVE Directories'
      BY DEF Directories, AcquisitionsAreSound, DirectoriesAreKnown
    <3>2. ~overtaken /\ \A c \in Procs : ~At(c, {"rmdir"})
      BY <1>2, <3>1 DEF Removing
    <3>3. AcquisitionsAreSound'
      BY <1>2, <1>8, <2>1, <3>2
         DEF Directories, AcquisitionsAreSound, Becomes, At, repos
    <3>4. DirectoriesAreKnown'
      BY <1>2, <1>8, <2>1, <3>2 DEF Directories, DirectoriesAreKnown, Becomes, At
    <3>. QED
      BY <3>3, <3>4 DEF Directories
  <2>. QED
    BY <1>5, <1>8, <2>2, <2>3
<1>. QED
  BY <1>1, <1>6, <1>7, <1>8, Zenon

LEMMA CloneIsGood ==
  ASSUME IInv, NEW p \in Procs, Clone(p)
  PROVE  IInv'
<1>. USE DEF IInv, Dirs
<1>1. /\ At(p, {"cloning"})
      /\ dirs' = [dirs EXCEPT ![proc[p].num] = "clone"]
      /\ UNCHANGED <<tip, tables, queue, troubles, history>>
  BY DEF Clone
<1>2. Becomes(p, "enroll", proc[p].id, proc[p].num, proc[p].seen, proc[p].todo,
              proc[p].found)
  BY Moves DEF Clone, Goto, Places
<1>3. dirs \in [Numbers -> Dirs]
  BY DEF TypeOK
<1>4. TypeOK'
  BY <1>1, <1>2 DEF TypeOK, Becomes, tables, repos, history
<1>5. Rules'
  BY <1>1, <1>2, AcquiringKeepsRules DEF At, tables, history
<1>6. AcquisitionsAreSound'
  BY <1>1, <1>2, <1>3
     DEF Directories, AcquisitionsAreSound, Becomes, At, tables, repos, history
<1>7. DirectoriesAreKnown'
  BY <1>1, <1>2, <1>3
     DEF Directories, DirectoriesAreKnown, Becomes, At, tables, repos, history
<1>. QED
  BY <1>4, <1>5, <1>6, <1>7 DEF Directories

LEMMA CloneFailsIsGood ==
  ASSUME IInv, NEW p \in Procs, CloneFails(p)
  PROVE  IInv'
<1>. USE DEF IInv, Dirs
<1>1. /\ At(p, {"cloning"})
      /\ \/ Trouble /\ dirs' = [dirs EXCEPT ![proc[p].num] = "absent"]
         \/ /\ dirs[proc[p].num] # "cloning"
            /\ dirs' \in {dirs, [dirs EXCEPT ![proc[p].num] = "absent"]}
            /\ UNCHANGED troubles
      /\ Fail(p)
      /\ UNCHANGED <<tip, tables, queue, history>>
  BY DEF CloneFails
<1>2. Becomes(p, IF p = Poller THEN "idle" ELSE "undo",
              IF p = Poller THEN 0 ELSE proc[p].id, 0, NoRows, {}, {})
  BY <1>1, Fails
<1>3. dirs \in [Numbers -> Dirs]
  BY DEF TypeOK
<1>4. TypeOK'
  <2>1. troubles' \in 0..MaxTroubles
    BY <1>1, BoundsAssumption DEF Trouble, TypeOK
  <2>2. dirs' \in [Numbers -> Dirs]
    BY <1>1, <1>3
  <2>. QED
    BY <1>1, <1>2, <2>1, <2>2 DEF TypeOK, Becomes, tables, repos, history
<1>5. Rules'
  BY <1>1, FailingKeepsRules DEF At, tables, history
<1>6. proc'[p].at \in {"idle", "undo"}
  BY <1>2 DEF Becomes
<1>7. AcquisitionsAreSound'
  <2>1. SUFFICES ASSUME ~overtaken' PROVE AcquisitionsAreSound'
    BY DEF AcquisitionsAreSound
  <2>2. /\ ~overtaken /\ repo' = repo
        /\ dirs' = [dirs EXCEPT ![proc[p].num] = "absent"]
    BY <1>1, <2>1 DEF Directories, AcquisitionsAreSound, tables, repos, history
  <2>. QED
    BY <1>1, <1>2, <1>3, <1>6, <2>2
       DEF Directories, AcquisitionsAreSound, Becomes, At
<1>8. DirectoriesAreKnown'
  <2>1. SUFFICES ASSUME ~overtaken' PROVE DirectoriesAreKnown'
    BY DEF DirectoriesAreKnown
  <2>2. ~overtaken /\ dirs[proc[p].num] = "cloning"
    BY <1>1, <2>1 DEF Directories, AcquisitionsAreSound, history
  <2>3. dirs' = [dirs EXCEPT ![proc[p].num] = "absent"]
    BY <1>1, <2>2
  <2>. QED
    BY <1>1, <1>2, <1>3, <2>2, <2>3
       DEF Directories, DirectoriesAreKnown, Becomes, At, tables, repos, history
<1>. QED
  BY <1>4, <1>5, <1>7, <1>8 DEF Directories

LEMMA EnrollIsGood ==
  ASSUME IInv, NEW p \in Procs, Enroll(p)
  PROVE  IInv'
<1>. USE DEF IInv
<1>1. /\ At(p, {"enroll"})
      /\ UNCHANGED <<tip, repos, refSHA, builds, dirs, queue, troubles, history>>
  BY DEF Enroll
<1>2. proc[p].id # 0
  BY <1>1, WorkersHaveRows DEF At
<1>3. CASE /\ proc[p].id = repo
           /\ ws[proc[p].num] = "none"
           /\ ws' = [ws EXCEPT ![proc[p].num] = "busy"]
           /\ Goto(p, "using")
  <2>1. Becomes(p, "using", proc[p].id, proc[p].num, proc[p].seen, proc[p].todo,
                proc[p].found)
    BY <1>3, Moves DEF Goto, Places
  <2>2. ws \in [Numbers -> {"none", "idle", "busy"}] /\ proc[p].num \in Numbers
    BY FieldsAreTyped DEF TypeOK
  <2>3. TypeOK'
    BY <1>1, <1>2, <1>3, <2>1 DEF TypeOK, Becomes, repos, history
  <2>4. Rules'
    BY <1>1, <2>1, AcquiringKeepsRules DEF At, history
  <2>5. AcquisitionsAreSound'
    BY <1>1, <2>1
       DEF Directories, AcquisitionsAreSound, Becomes, At, repos, history
  <2>6. DirectoriesAreKnown'
    BY <1>1, <1>3, <2>1, <2>2
       DEF Directories, DirectoriesAreKnown, Becomes, At, repos, history
  <2>. QED
    BY <2>3, <2>4, <2>5, <2>6 DEF Directories
<1>4. CASE /\ proc[p].id # repo \/ ws[proc[p].num] # "none"
           /\ Fail(p)
           /\ UNCHANGED ws
  <2>1. Becomes(p, IF p = Poller THEN "idle" ELSE "undo",
                IF p = Poller THEN 0 ELSE proc[p].id, 0, NoRows, {}, {})
    BY <1>4, Fails
  <2>2. TypeOK'
    BY <1>1, <1>4, <2>1 DEF TypeOK, Becomes, repos, history
  <2>3. Rules'
    BY <1>1, <1>4, FailingKeepsRules DEF At, history
  <2>4. proc'[p].at \in {"idle", "undo"}
    BY <2>1 DEF Becomes
  <2>5. AcquisitionsAreSound'
    BY <1>1, <2>1, <2>4
       DEF Directories, AcquisitionsAreSound, Becomes, At, repos, history
  <2>6. DirectoriesAreKnown'
    <3>1. SUFFICES ASSUME ~overtaken' PROVE DirectoriesAreKnown'
      BY DEF DirectoriesAreKnown
    <3>2. ~overtaken /\ ws[proc[p].num] # "none"
      BY <1>1, <1>4, <3>1 DEF Directories, AcquisitionsAreSound, At, history
    <3>. QED
      BY <1>1, <1>4, <2>1, <3>2
         DEF Directories, DirectoriesAreKnown, Becomes, At, repos, history
  <2>. QED
    BY <2>2, <2>3, <2>5, <2>6 DEF Directories
<1>. QED
  BY <1>3, <1>4 DEF Enroll

LEMMA FetchIsGood ==
  ASSUME IInv, NEW p \in Procs, Fetch(p)
  PROVE  IInv'
<1>. USE DEF IInv
<1>1. /\ At(p, {"using"})
      /\ base' = IF p # Poller /\ proc[p].id = repo THEN tip ELSE base
      /\ UNCHANGED <<tip, tables, dirs, queue, troubles, answered, disturbed,
                     overtaken>>
  BY DEF Fetch
<1>2. tip \in Tips
  BY DEF TypeOK
<1>3. Becomes(p, "refs", proc[p].id, proc[p].num, tip, {r \in Refs : tip[r] # 0},
              proc[p].found)
  <2>1. {r \in Refs : tip[r] # 0} \in Todos
    BY DEF Todos
  <2>. QED
    BY <1>2, <2>1, Reads DEF Fetch, Places
<1>4. TypeOK'
  BY <1>1, <1>3 DEF TypeOK, Becomes, tables, repos
<1>5. Directories'
  BY <1>1, <1>3, DirectoriesAreKept DEF At, tables, repos
<1>6. IdsAreIssued'
  BY <1>1, <1>3
     DEF Rules, IdsAreIssued, Becomes, At, AddPlaces, PollPlaces, Procs, tables, repos
<1>7. PollIsSound'
  BY <1>1, <1>3, PollerAssumption
     DEF Rules, PollIsSound, Becomes, At, PollPlaces, Procs
<1>8. TipsGrow'
  <2>1. \A r \in Refs : tip[r] <= tip[r]
    BY <1>2, BoundsAssumption DEF Tips
  <2>. QED
    BY <1>1, <2>1 DEF Rules, Seeding, TipsGrow
<1>9. Seeding'
  <2>1. CASE p = Poller
    <3>1. AddIsOver' /\ SnapshotIsLeft'
      BY <1>1, <1>3, <2>1, PollerAssumption
         DEF Rules, Seeding, AddIsOver, SnapshotIsLeft, Becomes, At, AddPlaces, Procs,
             tables, repos
    <3>2. SeedIsSound'
      BY <1>1, <1>3, <2>1, PollerAssumption
         DEF Rules, Seeding, SeedIsSound, Becomes, At, Procs, tables, repos
    <3>3. RefsAdvance'
      <4>1. \A r \in Refs : tip[r] <= tip[r]
        BY <1>2, BoundsAssumption DEF Tips
      <4>2. proc[p].found = {}
        BY <1>1, <2>1 DEF Rules, PollIsSound, At
      <4>. QED
        BY <1>1, <1>3, <2>1, <4>1, <4>2
           DEF Rules, Seeding, RefsAdvance, Becomes, At, tables, repos
    <3>. QED
      BY <1>8, <3>1, <3>2, <3>3 DEF Seeding
  <2>2. CASE p # Poller /\ proc[p].id = repo
    <3>1. ~answered /\ p \in Clients
      BY <1>1, <2>2 DEF Rules, Seeding, AddIsOver, At, AddPlaces, Procs
    <3>2. AddIsOver' /\ SnapshotIsLeft' /\ RefsAdvance'
      BY <1>1, <3>1 DEF AddIsOver, SnapshotIsLeft, RefsAdvance
    <3>3. SeedIsSound'
      <4>1. SUFFICES ASSUME ~disturbed, repo # 0 PROVE SeedIsSound'
        BY <1>1 DEF SeedIsSound, tables, repos
      <4>2. refSHA = NoRows
        BY <1>1, <2>2, <3>1, <4>1 DEF Rules, Seeding, SeedIsSound, At
      <4>3. \A c \in Clients : At(c, AddPlaces) /\ proc[c].id = repo => c = p
        BY <1>1, <2>2, <3>1 DEF Rules, IdsAreIssued, At, AddPlaces
      <4>4. \A r \in Refs : r \notin {x \in Refs : tip[x] # 0} => NoRows[r] = tip[r]
        BY DEF NoRows
      <4>5. proc'[Poller] = proc[Poller]
        BY <1>3, <2>2 DEF Becomes, Procs
      <4>6. \A c \in Clients : c # p => proc'[c] = proc[c]
        BY <1>3 DEF Becomes, Procs
      <4>7. /\ proc'[p].at = "refs" /\ proc'[p].id = repo /\ proc'[p].seen = tip
            /\ proc'[p].todo = {x \in Refs : tip[x] # 0}
        BY <1>3, <2>2 DEF Becomes
      <4>8. /\ proc[Poller].id # repo /\ \A j \in queue : j[1] # repo
            /\ builds = {}
        BY <3>1, <4>1 DEF Rules, Seeding, SeedIsSound
      <4>. QED
        BY <1>1, <2>2, <3>1, <4>2, <4>3, <4>4, <4>5, <4>6, <4>7, <4>8
           DEF SeedIsSound, At, AddPlaces, tables, repos
    <3>. QED
      BY <1>8, <3>2, <3>3 DEF Seeding
  <2>3. CASE p # Poller /\ proc[p].id # repo
    <3>1. base' = base /\ p \in Clients
      BY <1>1, <2>3 DEF Procs
    <3>2. AddIsOver' /\ SnapshotIsLeft'
      BY <1>1, <1>3, <2>3, <3>1
         DEF Rules, Seeding, AddIsOver, SnapshotIsLeft, Becomes, At, AddPlaces, Procs,
             tables, repos
    <3>3. SeedIsSound'
      BY <1>1, <1>3, <2>3, <3>1
         DEF Rules, Seeding, SeedIsSound, Becomes, At, Procs, tables, repos
    <3>4. RefsAdvance'
      BY <1>1, <1>3, <2>3, <3>1
         DEF Rules, Seeding, RefsAdvance, Becomes, At, Procs, tables, repos
    <3>. QED
      BY <1>8, <3>2, <3>3, <3>4 DEF Seeding
  <2>. QED
    BY <2>1, <2>2, <2>3
<1>. QED
  BY <1>4, <1>5, <1>6, <1>7, <1>9 DEF Rules

LEMMA FetchFailsIsGood ==
  ASSUME IInv, NEW p \in Procs, FetchFails(p)
  PROVE  IInv'
<1>. USE DEF IInv
<1>1. /\ At(p, {"using"})
      /\ Trouble \/ UNCHANGED troubles
      /\ SetStatus(p, proc[p].num, "idle")
      /\ Fail(p)
      /\ UNCHANGED <<tip, repos, refSHA, builds, dirs, queue, history>>
  BY DEF FetchFails
<1>2. Becomes(p, IF p = Poller THEN "idle" ELSE "undo",
              IF p = Poller THEN 0 ELSE proc[p].id, 0, NoRows, {}, {})
  BY <1>1, Fails
<1>3. /\ ws' \in [Numbers -> {"none", "idle", "busy"}]
      /\ repo = 0 => ws' = ws
      /\ \A m \in Numbers : ws'[m] = "none" => ws[m] = "none"
  BY <1>1, WorkersHaveRows, StatusKeepsRows DEF At
<1>4. TypeOK'
  <2>1. troubles' \in 0..MaxTroubles
    BY <1>1, BoundsAssumption DEF Trouble, TypeOK
  <2>. QED
    BY <1>1, <1>2, <1>3, <2>1 DEF TypeOK, Becomes, repos, history
<1>5. Rules'
  BY <1>1, FailingKeepsRules DEF At, history
<1>6. Directories'
  BY <1>1, <1>2, <1>3, DirectoriesAreKept DEF At, repos, history
<1>. QED
  BY <1>4, <1>5, <1>6

----------------------------------------------------------------------------
\* One lemma per action: repos_add and repos_remove

LEMMA AddChecksIsGood ==
  ASSUME IInv, NEW c \in Clients, AddChecks(c)
  PROVE  IInv'
<1>. USE DEF IInv
<1>1. /\ At(c, {"idle"})
      /\ UNCHANGED <<tip, tables, dirs, queue, troubles, history>>
  BY DEF AddChecks
<1>2. Becomes(c, "insert", proc[c].id, proc[c].num, proc[c].seen, proc[c].todo,
              proc[c].found)
  BY Moves DEF AddChecks, Goto, Places, Procs
<1>3. TypeOK'
  BY <1>1, <1>2 DEF TypeOK, Becomes, tables, repos, history
<1>4. Rules'
  BY <1>1, <1>2, IdlingKeepsRules DEF tables, history
<1>5. Directories'
  BY <1>1, <1>2, DirectoriesAreKept DEF At, Procs, tables, repos, history
<1>. QED
  BY <1>3, <1>4, <1>5

LEMMA AddInsertsIsGood ==
  ASSUME IInv, NEW c \in Clients, AddInserts(c)
  PROVE  IInv'
<1>. USE DEF IInv
<1>1. /\ At(c, {"insert"})
      /\ UNCHANGED <<tip, refSHA, ws, builds, dirs, queue, troubles, history>>
  BY DEF AddInserts
<1>2. CASE /\ repo # 0
           /\ proc' = [proc EXCEPT ![c] = Idle]
           /\ UNCHANGED repos
  <2>1. Becomes(c, "idle", 0, 0, NoRows, {}, {})
    BY <1>2, Rests DEF Procs
  <2>2. TypeOK'
    BY <1>1, <1>2, <2>1 DEF TypeOK, Becomes, repos, history
  <2>3. Rules'
    BY <1>1, <1>2, <2>1, IdlingKeepsRules DEF history
  <2>4. Directories'
    BY <1>1, <1>2, <2>1, DirectoriesAreKept DEF At, Procs, repos, history
  <2>. QED
    BY <2>2, <2>3, <2>4
<1>3. CASE /\ repo = 0
           /\ lastId < MaxIds
           /\ lastId' = lastId + 1
           /\ repo' = lastId'
           /\ proc' = [proc EXCEPT ![c].at = "acquire", ![c].id = lastId']
  <2>1. lastId \in Nat /\ lastId' \in Ids /\ lastId' > lastId
    BY <1>3, BoundsAssumption DEF TypeOK, Ids
  <2>2. Becomes(c, "acquire", lastId', proc[c].num, proc[c].seen, proc[c].todo,
                proc[c].found)
    BY <1>3, <2>1, TakesRow DEF Places, Procs
  <2>3. /\ refSHA = NoRows /\ builds = {} /\ ~answered
        /\ proc[Poller].id \in Nat
    <3>1. proc[Poller].id \in Ids \cup {0}
      BY FieldsAreTyped DEF TypeOK, Procs
    <3>. QED
      BY <1>3, <3>1 DEF TypeOK, Rules, Seeding, AddIsOver, Ids
  <2>4. \A j \in queue : j[1] \in Nat
    BY DEF TypeOK, Ids
  <2>5. proc'[Poller] = proc[Poller] /\ \A d \in Clients : d # c => proc'[d] = proc[d]
    BY <2>2, PollerAssumption DEF Becomes, Procs
  <2>6. proc'[c].at = "acquire" /\ proc'[c].id = lastId'
    BY <2>2 DEF Becomes
  <2>7. TypeOK'
    <3>1. repo' \in 0..lastId' /\ lastId' \in 0..MaxIds /\ repo' # 0
      BY <1>3, <2>1, BoundsAssumption DEF Ids
    <3>. QED
      BY <1>1, <2>2, <3>1 DEF TypeOK, Becomes, history
  <2>8. IdsAreIssued'
    <3>1. /\ At(Poller, PollPlaces) => proc[Poller].id # 0
          /\ proc[Poller].id <= lastId
          /\ \A j \in queue : j[1] <= lastId
          /\ \A d \in Clients : At(d, AddPlaces) => proc[d].id \in 1..lastId
          /\ \A d, e \in Clients :
                At(d, AddPlaces) /\ At(e, AddPlaces) /\ proc[d].id = proc[e].id => d = e
      BY DEF Rules, IdsAreIssued
    <3>2. \A d \in Clients : d # c /\ At(d, AddPlaces)' => proc'[d].id \in 1..lastId
      BY <2>5, <3>1 DEF At
    <3>3. \A d \in Clients : At(d, AddPlaces)' => proc'[d].id \in 1..lastId'
      <4>1. lastId' \in 1..lastId' /\ \A x \in 1..lastId : x \in 1..lastId'
        BY <1>3, <2>1
      <4>. QED
        BY <2>6, <3>2, <4>1, Zenon
    <3>4. \A d, e \in Clients :
             At(d, AddPlaces)' /\ At(e, AddPlaces)' /\ proc'[d].id = proc'[e].id
             => d = e
      BY <2>1, <2>5, <2>6, <3>1, <3>2 DEF At
    <3>5. proc'[Poller].id <= lastId' /\ \A j \in queue' : j[1] <= lastId'
      <4>1. \A x \in Nat : x <= lastId => x <= lastId'
        BY <1>3, <2>1
      <4>. QED
        BY <1>1, <2>3, <2>4, <2>5, <3>1, <4>1, Zenon
    <3>6. At(Poller, PollPlaces)' => proc'[Poller].id # 0
      BY <2>5, <3>1 DEF At
    <3>. QED
      BY <3>3, <3>4, <3>5, <3>6 DEF IdsAreIssued
  <2>9. PollIsSound'
    BY <2>5 DEF Rules, PollIsSound, At
  <2>10. SeedIsSound'
    <3>1. proc[Poller].id # repo' /\ \A j \in queue : j[1] # repo'
      BY <1>3, <2>1, <2>3, <2>4 DEF Rules, IdsAreIssued
    <3>2. \A d \in Clients : proc'[d].id = repo' => ~At(d, {"refs"})'
      <4>1. ASSUME NEW d \in Clients, d # c, At(d, {"refs"})'
            PROVE  proc'[d].id # repo'
        <5>1. At(d, AddPlaces) /\ proc'[d].id = proc[d].id
          BY <2>5, <4>1 DEF At, AddPlaces
        <5>2. proc[d].id \in 1..lastId
          BY <5>1 DEF Rules, IdsAreIssued
        <5>. QED
          BY <1>3, <2>1, <5>1, <5>2
      <4>. QED
        BY <2>6, <4>1 DEF At
    <3>. QED
      BY <1>1, <2>3, <2>5, <3>1, <3>2 DEF SeedIsSound
  <2>11. Seeding'
    BY <1>1, <2>3, <2>10
       DEF Rules, Seeding, AddIsOver, TipsGrow, RefsAdvance, SnapshotIsLeft, history
  <2>12. AcquisitionsAreSound'
    <3>1. SUFFICES ASSUME ~overtaken PROVE AcquisitionsAreSound'
      BY <1>1 DEF AcquisitionsAreSound, history
    <3>2. \A p \in Procs : ~At(p, {"acquire", "cloning", "enroll"})
      BY <1>3, <3>1 DEF Directories, AcquisitionsAreSound
    <3>. QED
      BY <1>1, <1>3, <2>1, <2>2, <3>1, <3>2
         DEF Directories, AcquisitionsAreSound, Becomes, At
  <2>13. DirectoriesAreKnown'
    BY <1>1, <2>2 DEF Directories, DirectoriesAreKnown, Becomes, At, history
  <2>. QED
    BY <2>7, <2>8, <2>9, <2>11, <2>12, <2>13 DEF Rules, Directories
<1>. QED
  BY <1>2, <1>3 DEF AddInserts

LEMMA SeedIsGood ==
  ASSUME IInv, NEW c \in Clients, Seed(c)
  PROVE  IInv'
<1>. USE DEF IInv
<1>1. /\ At(c, {"refs"})
      /\ UNCHANGED <<tip, repos, ws, builds, dirs, queue, troubles, base, answered,
                     overtaken>>
  BY DEF Seed
<1>2. PICK r \in Refs :
        \/ /\ proc[c].id = repo
           /\ refSHA' = [refSHA EXCEPT ![r] = proc[c].seen[r]]
           /\ proc' = [proc EXCEPT ![c].todo = @ \ {r}]
           /\ UNCHANGED disturbed
        \/ /\ Fail(c)
           /\ UNCHANGED <<refSHA, disturbed>>
        \/ /\ proc' = [proc EXCEPT ![c].todo = @ \ {r}]
           /\ disturbed' = (disturbed \/ proc[c].id = repo)
           /\ UNCHANGED refSHA
  BY Zenon DEF Seed
<1>3. proc[c].id # 0 /\ c \in Procs /\ c # Poller
  BY <1>1, WorkersHaveRows, PollerAssumption DEF Procs, At
<1>4. /\ proc[c].todo \in Todos /\ proc[c].seen \in Tips
      /\ proc[c].todo \ {r} \in Todos
  BY <1>3, FieldsAreTyped DEF TypeOK, Todos
<1>5. ASSUME proc' = [proc EXCEPT ![c].todo = @ \ {r}]
      PROVE  /\ Becomes(c, "refs", proc[c].id, proc[c].num, proc[c].seen,
                        proc[c].todo \ {r}, proc[c].found)
             /\ IdsAreIssued' /\ PollIsSound'
  <2>1. proc[c].at = "refs"
    BY <1>1 DEF At
  <2>2. Becomes(c, "refs", proc[c].id, proc[c].num, proc[c].seen,
                proc[c].todo \ {r}, proc[c].found)
    BY <1>3, <1>4, <1>5, <2>1, Ticks
  <2>3. IdsAreIssued'
    BY <1>1, <1>3, <2>2
       DEF Rules, IdsAreIssued, Becomes, At, AddPlaces, PollPlaces, Procs, repos
  <2>4. PollIsSound'
    BY <1>1, <1>3, <2>2 DEF Rules, PollIsSound, Becomes, At, Procs
  <2>. QED
    BY <2>2, <2>3, <2>4
<1>6. ASSUME proc[c].id = repo
      PROVE  /\ ~answered
             /\ \A d \in Clients : At(d, AddPlaces) /\ proc[d].id = repo => d = c
  BY <1>1, <1>6 DEF Rules, Seeding, AddIsOver, IdsAreIssued, At, AddPlaces
<1>7. CASE /\ proc[c].id = repo
           /\ refSHA' = [refSHA EXCEPT ![r] = proc[c].seen[r]]
           /\ proc' = [proc EXCEPT ![c].todo = @ \ {r}]
           /\ UNCHANGED disturbed
  <2>1. Becomes(c, "refs", proc[c].id, proc[c].num, proc[c].seen,
                proc[c].todo \ {r}, proc[c].found)
    BY <1>5, <1>7
  <2>2. refSHA \in Tips /\ refSHA' \in Tips
    BY <1>4, <1>7 DEF TypeOK, Tips
  <2>3. TypeOK'
    BY <1>1, <1>3, <1>7, <2>1, <2>2 DEF TypeOK, Becomes, repos
  <2>4. AddIsOver' /\ TipsGrow' /\ RefsAdvance' /\ SnapshotIsLeft'
    BY <1>1, <1>6, <1>7
       DEF Rules, Seeding, AddIsOver, TipsGrow, RefsAdvance, SnapshotIsLeft
  <2>5. SeedIsSound'
    <3>1. SUFFICES ASSUME ~disturbed, repo # 0 PROVE SeedIsSound'
      BY <1>1, <1>7 DEF SeedIsSound, repos
    <3>2. /\ proc[Poller].id # repo
          /\ \A j \in queue : j[1] # repo
          /\ builds = {}
          /\ proc[c].seen = base
          /\ \A x \in Refs : x \notin proc[c].todo => refSHA[x] = base[x]
      BY <1>1, <1>6, <1>7, <3>1 DEF Rules, Seeding, SeedIsSound
    <3>3. \A x \in Refs : x \notin proc[c].todo \ {r} => refSHA'[x] = base[x]
      BY <1>7, <2>2, <3>2 DEF Tips
    <3>4. /\ proc'[Poller] = proc[Poller]
          /\ \A d \in Clients : d # c => proc'[d] = proc[d]
      BY <1>3, <2>1 DEF Becomes, Procs
    <3>5. /\ proc'[c].at = "refs" /\ proc'[c].seen = proc[c].seen
          /\ proc'[c].todo = proc[c].todo \ {r}
      BY <2>1 DEF Becomes
    <3>. QED
      BY <1>1, <1>6, <1>7, <3>2, <3>3, <3>4, <3>5 DEF SeedIsSound, At, AddPlaces, repos
  <2>6. Directories'
    BY <1>1, <1>3, <2>1, DirectoriesAreKept DEF At, repos
  <2>. QED
    BY <1>5, <1>7, <2>3, <2>4, <2>5, <2>6 DEF Rules, Seeding
<1>8. CASE /\ Fail(c)
           /\ UNCHANGED <<refSHA, disturbed>>
  <2>1. Becomes(c, "undo", proc[c].id, 0, NoRows, {}, {})
    BY <1>3, <1>8, Fails
  <2>2. TypeOK'
    BY <1>1, <1>8, <2>1 DEF TypeOK, Becomes, repos
  <2>3. Rules'
    BY <1>1, <1>3, <1>8, FailingKeepsRules DEF At
  <2>4. Directories'
    BY <1>1, <1>3, <2>1, DirectoriesAreKept DEF At, repos
  <2>. QED
    BY <2>2, <2>3, <2>4
<1>9. CASE /\ proc' = [proc EXCEPT ![c].todo = @ \ {r}]
           /\ disturbed' = (disturbed \/ proc[c].id = repo)
           /\ UNCHANGED refSHA
  <2>1. Becomes(c, "refs", proc[c].id, proc[c].num, proc[c].seen,
                proc[c].todo \ {r}, proc[c].found)
    BY <1>5, <1>9
  <2>2. disturbed' \in BOOLEAN
    BY <1>9, Zenon DEF TypeOK
  <2>3. TypeOK'
    BY <1>1, <1>9, <2>1, <2>2 DEF TypeOK, Becomes, repos
  <2>4. Directories'
    BY <1>1, <1>3, <2>1, DirectoriesAreKept DEF At, repos
  <2>5. AddIsOver' /\ TipsGrow'
    BY <1>1, <1>3, <2>1
       DEF Rules, Seeding, AddIsOver, TipsGrow, Becomes, At, AddPlaces, Procs, repos
  <2>6. ASSUME ~disturbed'
        PROVE  SeedIsSound' /\ RefsAdvance' /\ SnapshotIsLeft'
    <3>1. ~disturbed /\ proc[c].id # repo
      BY <1>9, <2>6
    <3>2. SeedIsSound'
      BY <1>1, <1>3, <1>9, <2>1, <3>1
         DEF Rules, Seeding, SeedIsSound, Becomes, At, Procs, repos
    <3>3. RefsAdvance' /\ SnapshotIsLeft'
      BY <1>1, <1>3, <1>9, <2>1, <3>1
         DEF Rules, Seeding, RefsAdvance, SnapshotIsLeft, Becomes, At, Procs, repos
    <3>. QED
      BY <3>2, <3>3
  <2>7. disturbed' => SeedIsSound' /\ RefsAdvance' /\ SnapshotIsLeft'
    BY DEF SeedIsSound, RefsAdvance, SnapshotIsLeft
  <2>. QED
    BY <1>5, <1>9, <2>3, <2>4, <2>5, <2>6, <2>7 DEF Rules, Seeding
<1>. QED
  BY <1>2, <1>7, <1>8, <1>9, Zenon

LEMMA AddAnswersIsGood ==
  ASSUME IInv, NEW c \in Clients, AddAnswers(c)
  PROVE  IInv'
<1>. USE DEF IInv
<1>1. /\ At(c, {"refs"})
      /\ proc[c].todo = {}
      /\ SetStatus(c, proc[c].num, "idle")
      /\ proc' = [proc EXCEPT ![c] = Idle]
      /\ answered' = (answered \/ proc[c].id = repo)
      /\ UNCHANGED <<tip, repos, refSHA, builds, dirs, queue, troubles, base,
                     disturbed, overtaken>>
  BY DEF AddAnswers
<1>2. proc[c].id # 0 /\ c \in Procs /\ c # Poller
  BY <1>1, WorkersHaveRows, PollerAssumption DEF Procs, At
<1>3. Becomes(c, "idle", 0, 0, NoRows, {}, {})
  BY <1>1, <1>2, Rests
<1>4. /\ ws' \in [Numbers -> {"none", "idle", "busy"}]
      /\ repo = 0 => ws' = ws
      /\ \A m \in Numbers : ws'[m] = "none" => ws[m] = "none"
  BY <1>1, <1>2, StatusKeepsRows
<1>5. answered' \in BOOLEAN
  BY <1>1, Zenon DEF TypeOK
<1>6. TypeOK'
  BY <1>1, <1>3, <1>4, <1>5 DEF TypeOK, Becomes, repos
<1>7. Directories'
  BY <1>1, <1>2, <1>3, <1>4, DirectoriesAreKept DEF At, repos
<1>8. IdsAreIssued' /\ PollIsSound'
  BY <1>1, <1>2, <1>3
     DEF Rules, IdsAreIssued, PollIsSound, Becomes, At, AddPlaces, PollPlaces, Procs,
         repos
<1>9. TipsGrow'
  BY <1>1 DEF Rules, Seeding, TipsGrow
<1>10. CASE proc[c].id = repo
  <2>1. /\ ~answered /\ answered' /\ repo # 0
        /\ \A d \in Clients : At(d, AddPlaces) /\ proc[d].id = repo => d = c
    BY <1>1, <1>2, <1>10
       DEF Rules, Seeding, AddIsOver, IdsAreIssued, At, AddPlaces
  <2>2. AddIsOver'
    BY <1>1, <1>2, <1>3, <2>1 DEF AddIsOver, Becomes, At, AddPlaces, Procs, repos
  <2>3. SeedIsSound'
    BY <2>1 DEF SeedIsSound
  <2>4. ASSUME ~disturbed PROVE RefsAdvance' /\ SnapshotIsLeft'
    <3>1. /\ proc[Poller].id # repo
          /\ \A j \in queue : j[1] # repo
          /\ builds = {}
          /\ \A x \in Refs : refSHA[x] = base[x]
      BY <1>1, <1>10, <2>1, <2>4 DEF Rules, Seeding, SeedIsSound
    <3>2. \A x \in Refs : base[x] \in Nat /\ base[x] <= tip[x]
      BY BoundsAssumption DEF Rules, Seeding, TipsGrow, TypeOK, Tips
    <3>3. proc'[Poller] = proc[Poller]
      BY <1>2, <1>3 DEF Becomes, Procs
    <3>4. \A x \in Refs : base'[x] <= refSHA'[x] /\ refSHA'[x] <= tip'[x]
      <4>1. \A x \in Refs : base[x] <= base[x]
        BY <3>2
      <4>. QED
        BY <1>1, <3>1, <3>2, <4>1
    <3>. QED
      BY <1>1, <3>1, <3>3, <3>4 DEF RefsAdvance, SnapshotIsLeft, repos
  <2>5. disturbed => RefsAdvance' /\ SnapshotIsLeft'
    BY <1>1 DEF RefsAdvance, SnapshotIsLeft
  <2>. QED
    BY <1>6, <1>7, <1>8, <1>9, <2>2, <2>3, <2>4, <2>5 DEF Rules, Seeding
<1>11. CASE proc[c].id # repo
  <2>1. answered' = answered
    BY <1>1, <1>5, <1>11, Zenon DEF TypeOK
  <2>2. Rules'
    BY <1>1, <1>3, <2>1, IdlingKeepsRules
  <2>. QED
    BY <1>6, <1>7, <2>2
<1>. QED
  BY <1>10, <1>11

LEMMA UndoIsGood ==
  ASSUME IInv, NEW c \in Clients, Undo(c)
  PROVE  IInv'
<1>. USE DEF IInv
<1>1. /\ At(c, {"undo"})
      /\ proc' = [proc EXCEPT ![c] = Idle]
      /\ overtaken' = TRUE
      /\ UNCHANGED <<tip, dirs, queue>>
  BY DEF Undo
<1>2. Becomes(c, "idle", 0, 0, NoRows, {}, {})
  BY <1>1, Rests DEF Procs
<1>3. Directories'
  BY <1>1 DEF Directories, AcquisitionsAreSound, DirectoriesAreKnown
<1>4. CASE RemoveRepo /\ UNCHANGED troubles
  <2>1. TypeOK'
    BY <1>1, <1>2, <1>4, UntrackingKeepsTypes DEF Becomes
  <2>2. Rules'
    BY <1>1, <1>2, <1>4, UntrackingKeepsRules
  <2>. QED
    BY <1>3, <2>1, <2>2
<1>5. CASE Trouble /\ UNCHANGED <<tables, base, answered, disturbed>>
  <2>1. troubles' \in 0..MaxTroubles
    BY <1>5, BoundsAssumption DEF Trouble, TypeOK
  <2>2. TypeOK'
    BY <1>1, <1>2, <1>5, <2>1 DEF TypeOK, Becomes, tables, repos
  <2>3. Rules'
    BY <1>1, <1>2, <1>5, IdlingKeepsRules DEF tables
  <2>. QED
    BY <1>3, <2>2, <2>3
<1>. QED
  BY <1>4, <1>5 DEF Undo

LEMMA RemoveListsIsGood ==
  ASSUME IInv, NEW c \in Clients, RemoveLists(c)
  PROVE  IInv'
<1>. USE DEF IInv
<1>1. /\ At(c, {"idle"})
      /\ overtaken' = (overtaken \/ Acquiring # {})
      /\ UNCHANGED <<tip, tables, dirs, queue, troubles, base, answered, disturbed>>
  BY DEF RemoveLists
<1>2. Rows(repo) = {n \in Numbers : ws[n] # "none"} /\ Rows(repo) \in Todos
  BY DEF Rows, Todos
<1>3. Becomes(c, "rmdir", proc[c].id, proc[c].num, proc[c].seen, Rows(repo),
              proc[c].found)
  BY <1>2, Lists DEF RemoveLists, Places, Procs
<1>4. overtaken' \in BOOLEAN
  BY <1>1, Zenon DEF TypeOK
<1>5. TypeOK'
  BY <1>1, <1>3, <1>4 DEF TypeOK, Becomes, tables, repos
<1>6. Rules'
  BY <1>1, <1>3, IdlingKeepsRules DEF tables
<1>7. Directories'
  <2>1. SUFFICES ASSUME ~overtaken' PROVE Directories'
    BY DEF Directories, AcquisitionsAreSound, DirectoriesAreKnown
  <2>2. ~overtaken /\ \A p \in Procs : ~At(p, {"acquire", "cloning", "enroll"})
    BY <1>1, <2>1 DEF Acquiring
  <2>3. \A n \in Numbers : dirs[n] # "absent" => n \in Rows(repo)
    BY <1>2, <2>2 DEF Directories, DirectoriesAreKnown, At
  <2>4. AcquisitionsAreSound'
    BY <1>1, <1>3, <2>2, <2>3 DEF Directories, AcquisitionsAreSound, Becomes, At
  <2>5. DirectoriesAreKnown'
    BY <1>1, <1>2, <2>3 DEF DirectoriesAreKnown, tables
  <2>. QED
    BY <2>4, <2>5 DEF Directories
<1>. QED
  BY <1>5, <1>6, <1>7

LEMMA RemoveDamagesIsGood ==
  ASSUME IInv, NEW c \in Clients, RemoveDamages(c)
  PROVE  IInv'
<1>. USE DEF IInv, Dirs
<1>1. At(c, {"rmdir"}) /\ UNCHANGED <<tip, tables, queue, proc, troubles, history>>
  BY DEF RemoveDamages
<1>2. PICK n \in Numbers, s \in Damaged :
        HasGit(n) /\ dirs' = [dirs EXCEPT ![n] = s]
  BY Zenon DEF RemoveDamages
<1>3. /\ dirs' \in [Numbers -> Dirs]
      /\ \A m \in Numbers : m # n => dirs'[m] = dirs[m]
      /\ \A m \in Numbers : dirs'[m] # "absent" => dirs[m] # "absent"
  BY <1>2 DEF TypeOK, Damaged, HasGit
<1>4. TypeOK'
  BY <1>1, <1>3 DEF TypeOK, tables, repos, history
<1>5. Rules'
  BY <1>1
     DEF Rules, IdsAreIssued, PollIsSound, Seeding, AddIsOver, TipsGrow, SeedIsSound,
         RefsAdvance, SnapshotIsLeft, At, tables, repos, history
<1>6. AcquisitionsAreSound'
  <2>1. SUFFICES ASSUME ~overtaken' PROVE AcquisitionsAreSound'
    BY DEF AcquisitionsAreSound
  <2>2. \A p \in Procs : ~At(p, {"cloning", "enroll"})
    BY <1>1, <2>1 DEF Directories, AcquisitionsAreSound, Procs, history
  <2>. QED
    BY <1>1, <1>3, <2>1, <2>2
       DEF Directories, AcquisitionsAreSound, At, tables, repos, history
<1>7. DirectoriesAreKnown'
  BY <1>1, <1>3 DEF Directories, DirectoriesAreKnown, At, tables, repos, history
<1>. QED
  BY <1>4, <1>5, <1>6, <1>7 DEF Directories

LEMMA RemoveDirIsGood ==
  ASSUME IInv, NEW c \in Clients, RemoveDir(c)
  PROVE  IInv'
<1>. USE DEF IInv, Dirs
<1>1. /\ At(c, {"rmdir"})
      /\ UNCHANGED <<tip, tables, queue, troubles, history>>
  BY DEF RemoveDir
<1>2. PICK n \in Numbers :
        /\ dirs' = [dirs EXCEPT ![n] = "absent"]
        /\ proc' = [proc EXCEPT ![c].todo = @ \ {n}]
  BY Zenon DEF RemoveDir
<1>3. /\ proc[c].todo \ {n} \in Todos /\ proc[c].at = "rmdir" /\ c \in Procs
  BY <1>1, FieldsAreTyped DEF TypeOK, Todos, Procs, At
<1>4. Becomes(c, "rmdir", proc[c].id, proc[c].num, proc[c].seen,
              proc[c].todo \ {n}, proc[c].found)
  BY <1>2, <1>3, Ticks
<1>5. dirs \in [Numbers -> Dirs]
  BY DEF TypeOK
<1>6. TypeOK'
  BY <1>1, <1>2, <1>4, <1>5 DEF TypeOK, Becomes, tables, repos, history
<1>7. Rules'
  BY <1>1, <1>4, IdlingKeepsRules DEF tables, history
<1>8. AcquisitionsAreSound'
  <2>1. SUFFICES ASSUME ~overtaken' PROVE AcquisitionsAreSound'
    BY DEF AcquisitionsAreSound
  <2>2. ~overtaken /\ repo' = repo
    BY <1>1, <2>1 DEF tables, repos, history
  <2>3. \A p \in Procs : ~At(p, {"cloning", "enroll"})
    BY <1>1, <1>3, <2>2 DEF Directories, AcquisitionsAreSound
  <2>. QED
    BY <1>1, <1>2, <1>3, <1>4, <1>5, <2>2, <2>3
       DEF Directories, AcquisitionsAreSound, Becomes, At
<1>9. DirectoriesAreKnown'
  BY <1>1, <1>2, <1>4, <1>5
     DEF Directories, DirectoriesAreKnown, Becomes, At, tables, repos, history
<1>. QED
  BY <1>6, <1>7, <1>8, <1>9 DEF Directories

LEMMA RemoveDirFailsIsGood ==
  ASSUME IInv, NEW c \in Clients, RemoveDirFails(c)
  PROVE  IInv'
<1>. USE DEF IInv
<1>1. /\ At(c, {"rmdir"})
      /\ Trouble
      /\ UNCHANGED <<tip, tables, dirs, queue, history>>
  BY DEF RemoveDirFails
<1>2. Becomes(c, "idle", 0, 0, NoRows, {}, {})
  BY Rests DEF RemoveDirFails, Procs
<1>3. troubles' \in 0..MaxTroubles
  BY <1>1, BoundsAssumption DEF Trouble, TypeOK
<1>4. TypeOK'
  BY <1>1, <1>2, <1>3 DEF TypeOK, Becomes, tables, repos, history
<1>5. Rules'
  BY <1>1, <1>2, IdlingKeepsRules DEF tables, history
<1>6. Directories'
  BY <1>1, <1>2, DirectoriesAreKept DEF At, Procs, tables, repos, history
<1>. QED
  BY <1>4, <1>5, <1>6

LEMMA RemoveDeletesIsGood ==
  ASSUME IInv, NEW c \in Clients, RemoveDeletes(c)
  PROVE  IInv'
<1>. USE DEF IInv
<1>1. /\ At(c, {"rmdir"})
      /\ proc[c].todo = {}
      /\ RemoveRepo
      /\ overtaken' = (overtaken \/ Acquiring # {})
      /\ UNCHANGED <<tip, dirs, queue, troubles>>
  BY DEF RemoveDeletes
<1>2. Becomes(c, "idle", 0, 0, NoRows, {}, {}) /\ c \in Procs
  BY Rests DEF RemoveDeletes, Procs
<1>3. overtaken' \in BOOLEAN
  BY <1>1, Zenon DEF TypeOK
<1>4. TypeOK'
  BY <1>1, <1>2, <1>3, UntrackingKeepsTypes DEF Becomes
<1>5. Rules'
  BY <1>1, <1>2, UntrackingKeepsRules
<1>6. Directories'
  <2>1. SUFFICES ASSUME ~overtaken' PROVE Directories'
    BY DEF Directories, AcquisitionsAreSound, DirectoriesAreKnown
  <2>2. ~overtaken /\ \A p \in Procs : ~At(p, {"acquire", "cloning", "enroll"})
    BY <1>1, <2>1 DEF Acquiring
  <2>3. \A n \in Numbers : dirs[n] = "absent"
    BY <1>1, <1>2, <2>2 DEF Directories, AcquisitionsAreSound
  <2>4. AcquisitionsAreSound'
    BY <1>1, <1>2, <2>2, <2>3 DEF AcquisitionsAreSound, Becomes, At
  <2>5. DirectoriesAreKnown'
    BY <1>1, <2>3 DEF DirectoriesAreKnown
  <2>. QED
    BY <2>4, <2>5 DEF Directories
<1>. QED
  BY <1>4, <1>5, <1>6

----------------------------------------------------------------------------
\* One lemma per action: the poller, a build's first statement, the outside

LEMMA PollBeginsIsGood ==
  ASSUME IInv, PollBegins
  PROVE  IInv'
<1>. USE DEF IInv
<1>1. /\ At(Poller, {"idle"})
      /\ repo # 0
      /\ disturbed' = (disturbed \/ ~answered)
      /\ UNCHANGED <<tip, tables, dirs, queue, troubles, base, answered, overtaken>>
  BY DEF PollBegins
<1>2. repo \in Nat /\ lastId \in Nat /\ repo <= lastId /\ repo \in Ids \cup {0}
  BY BoundsAssumption DEF TypeOK, Ids
<1>3. Becomes(Poller, "acquire", repo, proc[Poller].num, proc[Poller].seen,
              proc[Poller].todo, proc[Poller].found)
  BY <1>2, TakesRow DEF PollBegins, Places, Procs
<1>4. disturbed' \in BOOLEAN
  BY <1>1, Zenon DEF TypeOK
<1>5. TypeOK'
  BY <1>1, <1>3, <1>4 DEF TypeOK, Becomes, tables, repos
<1>6. IdsAreIssued'
  BY <1>1, <1>2, <1>3, PollerAssumption
     DEF Rules, IdsAreIssued, Becomes, At, AddPlaces, PollPlaces, Procs, tables, repos
<1>7. PollIsSound'
  BY <1>1, <1>3 DEF Rules, PollIsSound, Becomes, At, PollPlaces
<1>8. AddIsOver' /\ TipsGrow'
  BY <1>1, <1>3, PollerAssumption
     DEF Rules, Seeding, AddIsOver, TipsGrow, Becomes, At, AddPlaces, Procs, tables,
         repos
<1>9. SeedIsSound'
  BY <1>1 DEF SeedIsSound
<1>10. RefsAdvance' /\ SnapshotIsLeft'
  <2>1. SUFFICES ASSUME answered, ~disturbed PROVE RefsAdvance' /\ SnapshotIsLeft'
    BY <1>1 DEF RefsAdvance, SnapshotIsLeft
  <2>. QED
    BY <1>1, <1>3, <2>1
       DEF Rules, Seeding, RefsAdvance, SnapshotIsLeft, Becomes, At, tables, repos
<1>11. AcquisitionsAreSound'
  BY <1>1, <1>3 DEF Directories, AcquisitionsAreSound, Becomes, At, tables, repos
<1>12. DirectoriesAreKnown'
  BY <1>1, <1>3 DEF Directories, DirectoriesAreKnown, Becomes, At, tables
<1>. QED
  BY <1>5, <1>6, <1>7, <1>8, <1>9, <1>10, <1>11, <1>12 DEF Rules, Seeding, Directories

LEMMA PollComparesIsGood ==
  ASSUME IInv, PollCompares
  PROVE  IInv'
<1>. USE DEF IInv
<1>1. /\ At(Poller, {"refs"})
      /\ UNCHANGED <<tip, tables, dirs, queue, troubles, history>>
  BY DEF PollCompares
<1>2. PICK r \in Refs, found \in SUBSET Refs :
        /\ IsNext(Poller, r)
        /\ found = proc[Poller].found
           \/ /\ found = proc[Poller].found \cup {r}
              /\ GetRefSHA(proc[Poller].id, r) # proc[Poller].seen[r]
        /\ proc' = [proc EXCEPT ![Poller].todo = @ \ {r}, ![Poller].found = found]
  <2>1. PICK r \in Refs, ok \in BOOLEAN :
          /\ IsNext(Poller, r)
          /\ LET last == GetRefSHA(proc[Poller].id, r)
                 moved == ok /\ last # proc[Poller].seen[r]
             IN  proc' = [proc EXCEPT ![Poller].todo = @ \ {r},
                            ![Poller].found = @ \cup (IF moved THEN {r} ELSE {})]
    BY Zenon DEF PollCompares
  <2>2. proc[Poller].found \in SUBSET Refs
    BY FieldsAreTyped DEF TypeOK, Procs
  <2>3. CASE ok /\ GetRefSHA(proc[Poller].id, r) # proc[Poller].seen[r]
    <3>1. proc[Poller].found \cup {r} \in SUBSET Refs
      BY <2>2
    <3>2. proc' = [proc EXCEPT ![Poller].todo = @ \ {r},
                               ![Poller].found = @ \cup {r}]
      BY <2>1, <2>3, Zenon
    <3>3. proc' = [proc EXCEPT ![Poller].todo = @ \ {r},
                               ![Poller].found = proc[Poller].found \cup {r}]
      BY <3>2
    <3>. QED
      BY <2>1, <2>3, <3>1, <3>3, Zenon
  <2>4. CASE ~(ok /\ GetRefSHA(proc[Poller].id, r) # proc[Poller].seen[r])
    <3>1. proc' = [proc EXCEPT ![Poller].todo = @ \ {r},
                               ![Poller].found = @ \cup {}]
      BY <2>1, <2>4, Zenon
    <3>2. proc[Poller].found \cup {} = proc[Poller].found
      OBVIOUS
    <3>3. proc' = [proc EXCEPT ![Poller].todo = @ \ {r},
                               ![Poller].found = proc[Poller].found]
      BY <3>1, <3>2
    <3>. QED
      BY <2>1, <2>2, <3>3, Zenon
  <2>. QED
    BY <2>3, <2>4
<1>3. proc[Poller].todo \ {r} \in Todos /\ proc[Poller].at = "refs"
  BY <1>1, FieldsAreTyped DEF TypeOK, Procs, Todos, At
<1>4. Becomes(Poller, "refs", proc[Poller].id, proc[Poller].num, proc[Poller].seen,
              proc[Poller].todo \ {r}, found)
  BY <1>2, <1>3, Compares DEF Procs
<1>5. TypeOK'
  BY <1>1, <1>4 DEF TypeOK, Becomes, tables, repos, history
<1>6. IdsAreIssued'
  BY <1>1, <1>4, PollerAssumption
     DEF Rules, IdsAreIssued, Becomes, At, AddPlaces, PollPlaces, Procs, tables, repos
<1>7. r \in proc[Poller].todo
  BY <1>2 DEF IsNext
<1>8. PollIsSound'
  BY <1>1, <1>2, <1>4, <1>7 DEF Rules, PollIsSound, Becomes, At, PollPlaces
<1>9. AddIsOver' /\ TipsGrow' /\ SnapshotIsLeft'
  BY <1>1, <1>4, PollerAssumption
     DEF Rules, Seeding, AddIsOver, TipsGrow, SnapshotIsLeft, Becomes, At, AddPlaces,
         Procs, tables, repos, history
<1>10. SeedIsSound'
  BY <1>1, <1>4, PollerAssumption
     DEF Rules, Seeding, SeedIsSound, Becomes, At, Procs, tables, repos, history
<1>11. RefsAdvance'
  <2>1. SUFFICES ASSUME answered, ~disturbed PROVE RefsAdvance'
    BY <1>1 DEF RefsAdvance, history
  <2>2. ASSUME proc[Poller].id = repo
        PROVE  \A x \in Refs : x \in found => base[x] < proc[Poller].seen[x]
    <3>1. \A x \in Refs :
             x \in proc[Poller].found => base[x] < proc[Poller].seen[x]
      BY <1>1, <2>1, <2>2 DEF Rules, Seeding, RefsAdvance
    <3>2. ASSUME refSHA[r] # proc[Poller].seen[r]
          PROVE  base[r] < proc[Poller].seen[r]
      <4>1. base[r] <= refSHA[r] /\ refSHA[r] <= proc[Poller].seen[r]
        BY <1>1, <2>1, <2>2 DEF Rules, Seeding, RefsAdvance
      <4>2. base[r] \in Nat /\ refSHA[r] \in Nat
        BY BoundsAssumption DEF TypeOK, Tips
      <4>3. proc[Poller].seen[r] \in Nat
        BY FieldsAreTyped, BoundsAssumption DEF TypeOK, Procs, Tips
      <4>. QED
        BY <3>2, <4>1, <4>2, <4>3
    <3>. QED
      BY <1>2, <2>2, <3>1, <3>2 DEF GetRefSHA
  <2>. QED
    BY <1>1, <1>4, <2>1, <2>2
       DEF Rules, Seeding, RefsAdvance, Becomes, At, tables, repos, history
<1>12. Directories'
  BY <1>1, <1>4, DirectoriesAreKept DEF At, Procs, tables, repos, history
<1>. QED
  BY <1>5, <1>6, <1>8, <1>9, <1>10, <1>11, <1>12 DEF Rules, Seeding

\* The poller goes to its next job, or rests.
LEMMA ResumingKeepsRules ==
  ASSUME TypeOK, Rules, UNCHANGED <<tip, repos, builds, queue>>,
         UNCHANGED <<base, answered, disturbed>>,
         At(Poller, {"refs", "advance"}),
         NEW left \in SUBSET Refs, Continue(left),
         left \subseteq proc[Poller].todo \cup proc[Poller].found,
         At(Poller, {"refs"}) => left = proc[Poller].found,
         At(Poller, {"advance"}) => left \subseteq proc[Poller].todo,
         proc[Poller].id # repo => refSHA' = refSHA,
         answered /\ ~disturbed =>
             \A r \in Refs : base[r] <= refSHA'[r] /\ refSHA'[r] <= tip[r]
  PROVE  Rules'
<1>. USE PollerAssumption DEF Rules
<1>1. \/ left = {} /\ Becomes(Poller, "idle", 0, 0, NoRows, {}, {})
      \/ left # {} /\ Becomes(Poller, "send", proc[Poller].id, 0,
                              proc[Poller].seen, left, {})
  BY Resumes
<1>2. /\ proc'[Poller].at \in {"idle", "send"}
      /\ proc'[Poller].at = "send" =>
            /\ proc'[Poller].id = proc[Poller].id
            /\ proc'[Poller].seen = proc[Poller].seen
      /\ proc'[Poller].at = "idle" => proc'[Poller].id = 0
      /\ proc'[Poller].at = "send" => proc'[Poller].todo = left
      /\ proc'[Poller].found = {}
      /\ \A c \in Clients : proc'[c] = proc[c]
  BY <1>1 DEF Becomes, Procs
<1>3. lastId \in Nat
  BY BoundsAssumption DEF TypeOK
<1>4. proc'[Poller].id <= lastId
  BY <1>2, <1>3 DEF IdsAreIssued
<1>5. IdsAreIssued'
  BY <1>2, <1>4 DEF IdsAreIssued, At, AddPlaces, PollPlaces, repos
<1>6. PollIsSound'
  BY <1>2 DEF PollIsSound, At, PollPlaces
<1>7. AddIsOver' /\ TipsGrow' /\ SnapshotIsLeft'
  BY <1>2 DEF Seeding, AddIsOver, TipsGrow, SnapshotIsLeft, At, AddPlaces, repos
<1>8. SeedIsSound'
  <2>1. SUFFICES ASSUME ~answered, ~disturbed, repo # 0 PROVE SeedIsSound'
    BY DEF SeedIsSound, repos
  <2>2. proc[Poller].id # repo
    BY <2>1 DEF Seeding, SeedIsSound
  <2>3. refSHA' = refSHA /\ proc'[Poller].id # repo
    BY <1>2, <2>1, <2>2
  <2>. QED
    BY <1>2, <2>1, <2>3 DEF Seeding, SeedIsSound, At, repos
<1>9. RefsAdvance'
  <2>1. SUFFICES ASSUME answered, ~disturbed PROVE RefsAdvance'
    BY DEF RefsAdvance
  <2>2. /\ \A r \in Refs : base[r] <= refSHA'[r] /\ refSHA'[r] <= tip[r]
        /\ \A j \in queue : j[1] = repo => j[3] > base[j[2]]
    BY <2>1 DEF Seeding, RefsAdvance
  <2>3. ASSUME proc'[Poller].id = repo, proc'[Poller].at = "send"
        PROVE  /\ \A r \in Refs : proc[Poller].seen[r] <= tip[r]
               /\ \A r \in left : base[r] < proc[Poller].seen[r]
    <3>1. proc[Poller].id = repo
      BY <1>2, <2>3
    <3>. QED
      BY <2>1, <3>1 DEF Seeding, RefsAdvance, At
  <2>. QED
    BY <1>2, <2>2, <2>3 DEF RefsAdvance, At, repos
<1>. QED
  BY <1>5, <1>6, <1>7, <1>8, <1>9 DEF Seeding

LEMMA PollReleasesIsGood ==
  ASSUME IInv, PollReleases
  PROVE  IInv'
<1>. USE DEF IInv
<1>1. /\ At(Poller, {"refs"})
      /\ SetStatus(Poller, proc[Poller].num, "idle")
      /\ Continue(proc[Poller].found)
      /\ UNCHANGED <<tip, repos, refSHA, builds, dirs, queue, troubles, history>>
  BY DEF PollReleases
<1>2. proc[Poller].found \in SUBSET Refs
  BY FieldsAreTyped DEF TypeOK, Procs
<1>3. \/ Becomes(Poller, "idle", 0, 0, NoRows, {}, {})
      \/ Becomes(Poller, "send", proc[Poller].id, 0, proc[Poller].seen,
                 proc[Poller].found, {})
  BY <1>1, <1>2, Resumes
<1>4. /\ ws' \in [Numbers -> {"none", "idle", "busy"}]
      /\ repo = 0 => ws' = ws
      /\ \A m \in Numbers : ws'[m] = "none" => ws[m] = "none"
  BY <1>1, WorkersHaveRows, StatusKeepsRows DEF At, Procs
<1>5. TypeOK'
  BY <1>1, <1>3, <1>4 DEF TypeOK, Becomes, repos, history
<1>6. Rules'
  <2>1. answered /\ ~disturbed =>
           \A r \in Refs : base[r] <= refSHA'[r] /\ refSHA'[r] <= tip[r]
    BY <1>1 DEF Rules, Seeding, RefsAdvance
  <2>. QED
    BY <1>1, <1>2, <2>1, ResumingKeepsRules DEF At, history
<1>7. Directories'
  BY <1>1, <1>3, <1>4, DirectoriesAreKept DEF At, Procs, repos, history
<1>. QED
  BY <1>5, <1>6, <1>7

LEMMA PollSendsIsGood ==
  ASSUME IInv, PollSends
  PROVE  IInv'
<1>. USE DEF IInv
<1>1. /\ At(Poller, {"send"})
      /\ Goto(Poller, "advance")
      /\ UNCHANGED <<tip, tables, dirs, troubles, history>>
  BY DEF PollSends
<1>2. PICK r \in Refs :
        /\ IsNext(Poller, r)
        /\ queue' = queue \cup {<<proc[Poller].id, r, proc[Poller].seen[r]>>}
  BY DEF PollSends
<1>3. Becomes(Poller, "advance", proc[Poller].id, proc[Poller].num,
              proc[Poller].seen, proc[Poller].todo, proc[Poller].found)
  BY <1>1, Moves DEF Goto, Places, Procs
<1>4. /\ r \in proc[Poller].todo
      /\ proc[Poller].seen[r] \in 1..MaxTip
      /\ proc[Poller].id \in Ids
  <2>1. r \in proc[Poller].todo
    BY <1>2 DEF IsNext
  <2>2. proc[Poller].seen[r] # 0 /\ proc[Poller].id # 0
    BY <1>1, <2>1 DEF Rules, PollIsSound, IdsAreIssued, At, PollPlaces
  <2>3. proc[Poller].seen[r] \in 0..MaxTip /\ proc[Poller].id \in Ids \cup {0}
    BY FieldsAreTyped DEF TypeOK, Procs, Tips
  <2>. QED
    BY <2>1, <2>2, <2>3, BoundsAssumption
<1>5. TypeOK'
  <2>1. queue' \subseteq Ids \X Refs \X (1..MaxTip)
    BY <1>2, <1>4 DEF TypeOK
  <2>. QED
    BY <1>1, <1>3, <2>1 DEF TypeOK, Becomes, tables, repos, history
<1>6. IdsAreIssued'
  <2>1. \A j \in queue' : j[1] <= lastId
    BY <1>2 DEF Rules, IdsAreIssued
  <2>. QED
    BY <1>1, <1>3, <2>1, PollerAssumption
       DEF Rules, IdsAreIssued, Becomes, At, AddPlaces, PollPlaces, Procs, tables,
           repos
<1>7. PollIsSound'
  BY <1>1, <1>3 DEF Rules, PollIsSound, Becomes, At, PollPlaces
<1>8. AddIsOver' /\ TipsGrow' /\ SnapshotIsLeft'
  BY <1>1, <1>3, PollerAssumption
     DEF Rules, Seeding, AddIsOver, TipsGrow, SnapshotIsLeft, Becomes, At, AddPlaces,
         Procs, tables, repos, history
<1>9. SeedIsSound'
  BY <1>1, <1>2, <1>3, PollerAssumption
     DEF Rules, Seeding, SeedIsSound, Becomes, At, Procs, tables, repos, history
<1>10. RefsAdvance'
  <2>1. SUFFICES ASSUME answered, ~disturbed PROVE RefsAdvance'
    BY <1>1 DEF RefsAdvance, history
  <2>2. proc[Poller].id = repo => proc[Poller].seen[r] > base[r]
    <3>1. proc[Poller].id = repo => base[r] < proc[Poller].seen[r]
      BY <1>1, <1>4, <2>1 DEF Rules, Seeding, RefsAdvance, At
    <3>2. base[r] \in Nat /\ proc[Poller].seen[r] \in Nat
      BY <1>4, BoundsAssumption DEF TypeOK, Tips
    <3>. QED
      BY <3>1, <3>2
  <2>3. \A j \in queue' : j[1] = repo => j[3] > base[j[2]]
    BY <1>2, <2>1, <2>2 DEF Rules, Seeding, RefsAdvance
  <2>. QED
    BY <1>1, <1>3, <2>1, <2>3
       DEF Rules, Seeding, RefsAdvance, Becomes, At, tables, repos, history
<1>11. Directories'
  BY <1>1, <1>3, DirectoriesAreKept DEF At, Procs, tables, repos, history
<1>. QED
  BY <1>5, <1>6, <1>7, <1>8, <1>9, <1>10, <1>11 DEF Rules, Seeding

LEMMA PollAdvancesIsGood ==
  ASSUME IInv, PollAdvances
  PROVE  IInv'
<1>. USE DEF IInv
<1>1. /\ At(Poller, {"advance"})
      /\ UNCHANGED <<tip, repos, ws, builds, dirs, queue, troubles, history>>
  BY DEF PollAdvances
<1>2. \A r \in proc[Poller].todo : r \in Refs
  BY <1>1 DEF Rules, PollIsSound, At
<1>3. CASE /\ proc[Poller].id = repo
           /\ \E r \in Refs :
               /\ IsNext(Poller, r)
               /\ refSHA' = [refSHA EXCEPT ![r] = proc[Poller].seen[r]]
               /\ Continue(proc[Poller].todo \ {r})
  <2>1. PICK r \in Refs :
          /\ IsNext(Poller, r)
          /\ refSHA' = [refSHA EXCEPT ![r] = proc[Poller].seen[r]]
          /\ Continue(proc[Poller].todo \ {r})
    BY <1>3
  <2>2. proc[Poller].todo \ {r} \in SUBSET Refs
    BY <1>2
  <2>3. \/ Becomes(Poller, "idle", 0, 0, NoRows, {}, {})
        \/ Becomes(Poller, "send", proc[Poller].id, 0, proc[Poller].seen,
                   proc[Poller].todo \ {r}, {})
    BY <2>1, <2>2, Resumes
  <2>4. refSHA \in Tips /\ proc[Poller].seen \in Tips
    BY FieldsAreTyped DEF TypeOK, Procs
  <2>5. refSHA' \in Tips
    BY <2>1, <2>4 DEF Tips
  <2>6. repo # 0
    BY <1>1, <1>3 DEF Rules, IdsAreIssued, At, PollPlaces
  <2>7. TypeOK'
    BY <1>1, <2>3, <2>5, <2>6 DEF TypeOK, Becomes, repos, history
  <2>8. Rules'
    <3>1. ASSUME answered, ~disturbed
          PROVE  \A x \in Refs : base[x] <= refSHA'[x] /\ refSHA'[x] <= tip[x]
      <4>1. /\ \A x \in Refs : base[x] <= refSHA[x] /\ refSHA[x] <= tip[x]
            /\ \A x \in Refs : proc[Poller].seen[x] <= tip[x]
            /\ base[r] < proc[Poller].seen[r]
        BY <1>1, <1>3, <2>1, <3>1 DEF Rules, Seeding, RefsAdvance, At, IsNext
      <4>2. base[r] \in Nat /\ proc[Poller].seen[r] \in Nat
        BY <2>4, BoundsAssumption DEF TypeOK, Tips
      <4>3. base[r] <= proc[Poller].seen[r]
        BY <4>1, <4>2
      <4>. QED
        BY <2>1, <2>4, <4>1, <4>3 DEF Tips
    <3>. QED
      BY <1>1, <1>3, <2>1, <2>2, <3>1, ResumingKeepsRules DEF At, history
  <2>9. Directories'
    BY <1>1, <2>3, DirectoriesAreKept DEF At, Procs, repos, history
  <2>. QED
    BY <2>7, <2>8, <2>9
<1>4. CASE /\ proc[Poller].id # repo
           /\ Continue({})
           /\ UNCHANGED refSHA
  <2>1. Becomes(Poller, "idle", 0, 0, NoRows, {}, {})
    BY <1>4, Resumes
  <2>2. TypeOK'
    BY <1>1, <1>4, <2>1 DEF TypeOK, Becomes, repos, history
  <2>3. Rules'
    <3>1. answered /\ ~disturbed =>
             \A r \in Refs : base[r] <= refSHA'[r] /\ refSHA'[r] <= tip[r]
      BY <1>4 DEF Rules, Seeding, RefsAdvance
    <3>. QED
      BY <1>1, <1>4, <3>1, ResumingKeepsRules DEF At, history
  <2>4. Directories'
    BY <1>1, <2>1, DirectoriesAreKept DEF At, Procs, repos, history
  <2>. QED
    BY <2>2, <2>3, <2>4
<1>. QED
  BY <1>3, <1>4 DEF PollAdvances

LEMMA CreateBuildIsGood ==
  ASSUME IInv, NEW j \in queue, CreateBuild(j)
  PROVE  IInv'
<1>. USE DEF IInv
<1>1. /\ queue' = queue \ {j}
      /\ builds' = IF j[1] = repo THEN builds \cup {<<j[2], j[3]>>} ELSE builds
      /\ UNCHANGED <<tip, repos, refSHA, ws, dirs, proc, troubles, history>>
  BY DEF CreateBuild
<1>2. j \in Ids \X Refs \X (1..MaxTip) /\ queue' \subseteq queue
  BY <1>1 DEF TypeOK
<1>3. j[1] \in Ids /\ j[1] # 0 /\ <<j[2], j[3]>> \in Refs \X (1..MaxTip)
  BY <1>2, BoundsAssumption DEF Ids
<1>4. TypeOK'
  BY <1>1, <1>2, <1>3 DEF TypeOK, repos, history
<1>5. IdsAreIssued' /\ PollIsSound'
  BY <1>1, <1>2
     DEF Rules, IdsAreIssued, PollIsSound, At, AddPlaces, PollPlaces, repos
<1>6. AddIsOver' /\ TipsGrow'
  BY <1>1 DEF Rules, Seeding, AddIsOver, TipsGrow, At, AddPlaces, repos, history
<1>7. SeedIsSound'
  BY <1>1, <1>2 DEF Rules, Seeding, SeedIsSound, At, repos, history
<1>8. RefsAdvance'
  BY <1>1, <1>2 DEF Rules, Seeding, RefsAdvance, At, repos, history
<1>9. SnapshotIsLeft'
  <2>1. SUFFICES ASSUME answered, ~disturbed PROVE SnapshotIsLeft'
    BY <1>1 DEF SnapshotIsLeft, history
  <2>2. j[1] = repo => j[3] > base[j[2]]
    BY <2>1 DEF Rules, Seeding, RefsAdvance
  <2>. QED
    BY <1>1, <2>1, <2>2 DEF Rules, Seeding, SnapshotIsLeft, history
<1>10. Directories'
  BY <1>1
     DEF Directories, AcquisitionsAreSound, DirectoriesAreKnown, At, repos, history
<1>. QED
  BY <1>4, <1>5, <1>6, <1>7, <1>8, <1>9, <1>10 DEF Rules, Seeding

LEMMA PushIsGood ==
  ASSUME IInv, NEW r \in Refs, Push(r)
  PROVE  IInv'
<1>. USE DEF IInv
<1>1. /\ tip[r] < MaxTip
      /\ tip' = [tip EXCEPT ![r] = @ + 1]
      /\ UNCHANGED <<tables, dirs, queue, proc, troubles, history>>
  BY DEF Push
<1>2. \A x \in Refs : tip[x] \in 0..MaxTip
  BY DEF TypeOK, Tips
<1>3. tip' \in Tips /\ \A x \in Refs : tip[x] <= tip'[x] /\ tip'[x] \in Nat
  BY <1>1, <1>2, BoundsAssumption DEF TypeOK, Tips
<1>4. \A x \in Refs, n \in Nat : n <= tip[x] => n <= tip'[x]
  BY <1>2, <1>3, BoundsAssumption
<1>5. /\ \A x \in Refs : base[x] \in Nat /\ refSHA[x] \in Nat
      /\ \A x \in Refs : proc[Poller].seen[x] \in Nat
  BY FieldsAreTyped, BoundsAssumption DEF TypeOK, Procs, Tips
<1>6. TypeOK'
  BY <1>1, <1>3 DEF TypeOK, tables, repos, history
<1>7. IdsAreIssued' /\ PollIsSound'
  BY <1>1 DEF Rules, IdsAreIssued, PollIsSound, At, AddPlaces, PollPlaces, tables, repos
<1>8. TipsGrow'
  BY <1>1, <1>4, <1>5 DEF Rules, Seeding, TipsGrow, history
<1>9. AddIsOver' /\ SeedIsSound' /\ SnapshotIsLeft'
  BY <1>1
     DEF Rules, Seeding, AddIsOver, SeedIsSound, SnapshotIsLeft, At, AddPlaces, tables,
         repos, history
<1>10. RefsAdvance'
  BY <1>1, <1>4, <1>5
     DEF Rules, Seeding, RefsAdvance, At, tables, repos, history
<1>11. Directories'
  BY <1>1
     DEF Directories, AcquisitionsAreSound, DirectoriesAreKnown, At, tables, repos,
         history
<1>. QED
  BY <1>6, <1>7, <1>8, <1>9, <1>10, <1>11 DEF Rules, Seeding

LEMMA CrashIsGood ==
  ASSUME IInv, Crash
  PROVE  IInv'
<1>. USE DEF IInv, Dirs
<1>1. /\ Trouble
      /\ proc' = [p \in Procs |-> Idle]
      /\ queue' = {}
      /\ overtaken' = TRUE
      /\ UNCHANGED <<tip, tables, base, answered, disturbed>>
  BY DEF Crash
<1>2. /\ \A p \in Procs : proc'[p].at = "idle" /\ proc'[p].id = 0
      /\ Poller \in Procs /\ Clients \subseteq Procs
      /\ proc'[Poller].found = {}
  BY <1>1 DEF Idle, Procs
<1>3. TypeOK'
  <2>1. dirs' \in [Numbers -> Dirs]
    BY DEF Crash, TypeOK
  <2>2. troubles' \in 0..MaxTroubles
    BY <1>1, BoundsAssumption DEF Trouble, TypeOK
  <2>3. proc' \in [Procs -> Proc]
    BY <1>1, IdleIsTyped
  <2>. QED
    BY <1>1, <2>1, <2>2, <2>3 DEF TypeOK, tables, repos
<1>4. IdsAreIssued' /\ PollIsSound'
  <2>1. lastId' \in Nat /\ 0 <= lastId'
    BY <1>1, BoundsAssumption DEF TypeOK, tables, repos
  <2>. QED
    BY <1>1, <1>2, <2>1 DEF IdsAreIssued, PollIsSound, At, AddPlaces, PollPlaces
<1>5. AddIsOver' /\ TipsGrow' /\ SnapshotIsLeft'
  BY <1>1, <1>2
     DEF Rules, Seeding, AddIsOver, TipsGrow, SnapshotIsLeft, At, AddPlaces, tables,
         repos
<1>6. SeedIsSound' /\ RefsAdvance'
  BY <1>1, <1>2 DEF Rules, Seeding, SeedIsSound, RefsAdvance, At, tables, repos
<1>7. Directories'
  BY <1>1 DEF Directories, AcquisitionsAreSound, DirectoriesAreKnown
<1>. QED
  BY <1>3, <1>4, <1>5, <1>6, <1>7 DEF Rules, Seeding

----------------------------------------------------------------------------
\* The invariant

LEMMA InitIsGood == Init => IInv
<1>. SUFFICES ASSUME Init PROVE IInv
  OBVIOUS
<1>1. /\ \A p \in Procs : proc[p].at = "idle" /\ proc[p].id = 0
      /\ Poller \in Procs /\ Clients \subseteq Procs
      /\ proc[Poller].found = {}
  BY DEF Init, Idle, Procs
<1>2. TypeOK
  <2>1. tip \in Tips
    BY BoundsAssumption DEF Init, Tips
  <2>2. proc \in [Procs -> Proc]
    BY IdleIsTyped DEF Init
  <2>3. ws \in [Numbers -> {"none", "idle", "busy"}]
    BY DEF Init, NoWorkspaces
  <2>4. dirs \in [Numbers -> Dirs]
    BY DEF Init, Dirs
  <2>5. 0 \in 0..lastId /\ 0 \in 0..MaxIds /\ 0 \in 0..MaxTroubles
    BY BoundsAssumption DEF Init
  <2>. QED
    BY <2>1, <2>2, <2>3, <2>4, <2>5, NoRowsAreTips DEF Init, TypeOK
<1>3. IdsAreIssued /\ PollIsSound
  <2>1. 0 <= lastId
    BY DEF Init
  <2>. QED
    BY <1>1, <2>1 DEF Init, IdsAreIssued, PollIsSound, At, AddPlaces, PollPlaces
<1>4. TipsGrow
  <2>1. \A r \in Refs : NoRows[r] = 0 /\ 0 <= tip[r]
    BY DEF Init, NoRows
  <2>. QED
    BY <2>1 DEF Init, TipsGrow
<1>5. AddIsOver /\ SeedIsSound /\ RefsAdvance /\ SnapshotIsLeft
  BY DEF Init, AddIsOver, SeedIsSound, RefsAdvance, SnapshotIsLeft
<1>6. AcquisitionsAreSound
  BY <1>1 DEF AcquisitionsAreSound, At
<1>7. DirectoriesAreKnown
  BY DEF Init, DirectoriesAreKnown
<1>. QED
  BY <1>2, <1>3, <1>4, <1>5, <1>6, <1>7 DEF IInv, Rules, Seeding, Directories

LEMMA StepIsGood == IInv /\ [Next]_vars => IInv'
<1>. SUFFICES ASSUME IInv, [Next]_vars PROVE IInv'
  OBVIOUS
<1>1. ASSUME NEW r \in Refs, Push(r) PROVE IInv'
  BY <1>1, PushIsGood
<1>2. ASSUME NEW p \in Procs, AcquireStep(p) PROVE IInv'
  BY <1>2, AcquireIsGood, CloneIsGood, CloneFailsIsGood, EnrollIsGood, FetchIsGood,
     FetchFailsIsGood DEF AcquireStep
<1>3. ASSUME NEW c \in Clients, AddChecks(c) \/ AddStep(c) PROVE IInv'
  BY <1>3, AddChecksIsGood, AddInsertsIsGood, SeedIsGood, AddAnswersIsGood, UndoIsGood
     DEF AddStep
<1>4. ASSUME NEW c \in Clients, RemoveLists(c) \/ RemoveStep(c) PROVE IInv'
  BY <1>4, RemoveListsIsGood, RemoveDamagesIsGood, RemoveDirIsGood,
     RemoveDirFailsIsGood, RemoveDeletesIsGood DEF RemoveStep
<1>5. CASE PollStep
  BY <1>2, <1>5, PollBeginsIsGood, PollComparesIsGood, PollReleasesIsGood,
     PollSendsIsGood, PollAdvancesIsGood DEF PollStep, Procs
<1>6. ASSUME NEW j \in queue, CreateBuild(j) PROVE IInv'
  BY <1>6, CreateBuildIsGood
<1>7. CASE Crash
  BY <1>7, CrashIsGood
<1>8. CASE UNCHANGED vars
  <2>1. /\ UNCHANGED <<tip, repo, lastId, refSHA, ws, builds, dirs, queue, proc>>
        /\ UNCHANGED <<troubles, base, answered, disturbed, overtaken>>
    BY <1>8 DEF vars, tables, repos, history
  <2>2. TypeOK' /\ IdsAreIssued' /\ PollIsSound'
    BY <2>1 DEF IInv, Rules, TypeOK, IdsAreIssued, PollIsSound, At, AddPlaces, PollPlaces
  <2>3. Seeding'
    BY <2>1
       DEF IInv, Rules, Seeding, AddIsOver, TipsGrow, SeedIsSound, RefsAdvance,
           SnapshotIsLeft, At, AddPlaces
  <2>4. Directories'
    BY <2>1
       DEF IInv, Directories, AcquisitionsAreSound, DirectoriesAreKnown, At
  <2>. QED
    BY <2>2, <2>3, <2>4 DEF IInv, Rules
<1>. QED
  BY <1>1, <1>2, <1>3, <1>4, <1>5, <1>6, <1>7, <1>8 DEF Next, ClientStep, Procs

LEMMA InvariantHolds == Spec => []IInv
  BY InitIsGood, StepIsGood, PTL DEF Spec

\* Whatever adds, removals, polls, builds and crashes meet, no row is left
\* behind that hangs on a repository that is gone (the foreign keys, and the
\* order in which the handlers write).
THEOREM TypesAreKept == Spec => []TypeOK
  BY InvariantHolds, PTL DEF IInv

\* For any number of connections, refs and rows: the commits that were there
\* when a repository was added are not built, whatever is still under way for a
\* former row of its name (seedNewRepo, pollRepo, CreateBuild's foreign key).
THEOREM SnapshotIsNotBuilt == Spec => []SnapshotIsLeft
  BY InvariantHolds, PTL DEF IInv, Rules, Seeding

\* For any number of connections: acquisitions and removals, failing ones too,
\* leave no directory without a row, as long as they do not overtake each other
\* (acquireWorkspace, repos_remove).
THEOREM NoDirectoryIsLost == Spec => []DirectoriesAreKnown
  BY InvariantHolds, PTL DEF IInv, Directories

\* Only a removal, or the undoing of an add whose own row was removed before,
\* ends the tracking of a repository whose add was answered (repos_add,
\* repos_remove, UNIQUE(owner, name)).
THEOREM AddIsNotUndone == Spec => AddedStaysTracked
<1>1. IInv /\ [Next]_vars => [answered /\ repo' # repo => MayUntrack]_vars
  <2>. SUFFICES ASSUME IInv, Next, answered, repo' # repo PROVE MayUntrack
    OBVIOUS
  <2>. USE DEF IInv
  <2>1. repo # 0
    BY DEF Rules, Seeding, AddIsOver
  <2>2. ASSUME NEW r \in Refs, Push(r) PROVE FALSE
    BY <2>2 DEF Push, tables, repos
  <2>3. ASSUME NEW p \in Procs, AcquireStep(p) PROVE FALSE
    BY <2>3 DEF AcquireStep, Acquire, Clone, CloneFails, Enroll, Fetch, FetchFails,
                tables, repos
  <2>4. ASSUME NEW c \in Clients,
               AddChecks(c) \/ AddInserts(c) \/ Seed(c) \/ AddAnswers(c)
        PROVE  FALSE
    BY <2>1, <2>4 DEF AddChecks, AddInserts, Seed, AddAnswers, tables, repos
  <2>5. ASSUME NEW c \in Clients, Undo(c) PROVE MayUntrack
    <3>1. At(c, {"undo"}) /\ proc' = [proc EXCEPT ![c] = Idle]
      BY <2>5 DEF Undo
    <3>2. Becomes(c, "idle", 0, 0, NoRows, {}, {})
      BY <3>1, Rests DEF Procs
    <3>3. proc'[c] # proc[c]
      BY <3>1, <3>2 DEF Becomes, At
    <3>4. proc[c].id \in 1..lastId /\ proc[c].id # repo
      BY <3>1 DEF Rules, Seeding, IdsAreIssued, AddIsOver, At, AddPlaces
    <3>. QED
      BY <3>1, <3>3, <3>4 DEF MayUntrack
  <2>6. ASSUME NEW c \in Clients,
               \/ RemoveLists(c) \/ RemoveDamages(c)
               \/ RemoveDir(c) \/ RemoveDirFails(c)
        PROVE  FALSE
    BY <2>6 DEF RemoveLists, RemoveDamages, RemoveDir, RemoveDirFails, tables, repos
  <2>7. ASSUME NEW c \in Clients, RemoveDeletes(c) PROVE MayUntrack
    <3>1. At(c, {"rmdir"}) /\ proc' = [proc EXCEPT ![c] = Idle]
      BY <2>7 DEF RemoveDeletes
    <3>2. Becomes(c, "idle", 0, 0, NoRows, {}, {})
      BY <3>1, Rests DEF Procs
    <3>3. proc'[c] # proc[c]
      BY <3>1, <3>2 DEF Becomes, At
    <3>. QED
      BY <3>1, <3>3 DEF MayUntrack
  <2>8. ASSUME PollBegins \/ PollCompares \/ PollReleases \/ PollSends \/ PollAdvances
        PROVE  FALSE
    BY <2>8 DEF PollBegins, PollCompares, PollReleases, PollSends, PollAdvances,
                tables, repos
  <2>9. ASSUME NEW j \in queue, CreateBuild(j) PROVE FALSE
    BY <2>9 DEF CreateBuild, repos
  <2>10. ASSUME Crash PROVE FALSE
    BY <2>10 DEF Crash, tables, repos
  <2>. QED
    BY <2>2, <2>3, <2>4, <2>5, <2>6, <2>7, <2>8, <2>9, <2>10
       DEF Next, ClientStep, AddStep, RemoveStep, PollStep, Procs
<1>. QED
  BY <1>1, InvariantHolds, PTL DEF Spec, AddedStaysTracked

====

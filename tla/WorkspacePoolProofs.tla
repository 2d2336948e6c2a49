---- MODULE WorkspacePoolProofs ----
(***************************************************************************)
(* Proofs about WorkspacePool, for any repositories, users and numbers of  *)
(* rows and faults.  What involves paths is proved for repositories none   *)
(* of which is called as another with "-1" at the end (Twins = {}); the    *)
(* run pool_names shows what happens otherwise.                            *)
(***************************************************************************)
EXTENDS WorkspacePool, TLAPS

----------------------------------------------------------------------------
\* The inductive invariant

\* Program counters, candidates and row ids agree; the pruner removes the
\* directory of a row that it has read.
PlacesAgree ==
    /\ \A u \in Users :
           /\ pc[u] # "probe" => cand[u] = {}
           /\ pc[u] \in {"mark", "using"} => wsid[u] # 0
    /\ removed # 0 => removed \in victims

\* OrphansAreLeftAlone without the paths.
OrphansKeepNames ==
    \A i \in orphans :
        /\ rows[i].status = "busy"
        /\ i \notin victims
        /\ \A u \in Users :
               /\ i \notin cand[u]
               /\ wsid[u] # i
               /\ u \in Making =>
                      <<RepoOf[u], num[u]>> # <<rows[i].repo, rows[i].num>>

\* The assumption of SerialPoolIsSound.
Serial == ~overlapped /\ faults = 0 /\ ~halfRemoved

\* One acquisition at a time, and none during a pruning.
OneAtATime ==
    /\ \A u, v \in Acquiring : u = v
    /\ victims # {} => Acquiring = {}

\* What an acquisition and the pruner have read is still so.
ReadsAreFresh ==
    /\ \A u \in Users : \A i \in cand[u] : rows[i].status = "idle"
    /\ \A u \in Users : pc[u] = "mark" =>
           /\ rows[wsid[u]].status = "idle"
           /\ disk[<<rows[wsid[u]].repo, rows[wsid[u]].num>>] = "clone"
    /\ \A i \in victims : rows[i].status = "idle"

\* A directory that is being made belongs to no row.
NamesAreFree ==
    \A u \in Making : \A i \in Live :
        <<rows[i].repo, rows[i].num>> # <<RepoOf[u], num[u]>>

\* What is half removed is being removed, and what the pruner has removed is
\* gone until its row is.
DamageIsPruned ==
    /\ \A p \in Paths : disk[p] \in Damaged =>
           \E i \in victims : p = <<rows[i].repo, rows[i].num>>
    /\ removed # 0 => disk[<<rows[removed].repo, rows[removed].num>>] = "absent"

\* A directory is being cloned only by a user, and is a clone where a row is
\* busy or about to be inserted.
DisksAreClones ==
    /\ \A p \in Paths : disk[p] = "cloning" =>
           \E u \in Users : pc[u] = "cloning" /\ p = <<RepoOf[u], num[u]>>
    /\ \A i \in Ids : rows[i].status = "busy" =>
           disk[<<rows[i].repo, rows[i].num>>] = "clone"
    /\ \A u \in Users :
           pc[u] = "insert" => disk[<<RepoOf[u], num[u]>>] = "clone"

\* A workspace in use is busy and has one user.
UsersHoldTheirs ==
    /\ \A u \in Using : rows[wsid[u]].status = "busy"
    /\ \A u, v \in Using : wsid[u] = wsid[v] => u = v

\* No two rows of a repository have the same number, whoever overlaps.
NamesAreUnique ==
    \A i, j \in Live :
        <<rows[i].repo, rows[i].num>> = <<rows[j].repo, rows[j].num>> => i = j

SerialIsSound ==
    Serial => /\ OneAtATime
              /\ ReadsAreFresh
              /\ NamesAreFree
              /\ DamageIsPruned
              /\ DisksAreClones
              /\ UsersHoldTheirs

\* What the steps of a serial history start from.
SerialState ==
    /\ Twins = {} /\ Serial
    /\ TypeOK /\ PlacesAgree /\ NamesAreUnique
    /\ OneAtATime /\ ReadsAreFresh /\ NamesAreFree
    /\ DamageIsPruned /\ DisksAreClones /\ UsersHoldTheirs

IInv ==
    /\ TypeOK
    /\ PlacesAgree
    /\ BusyIsHeld
    /\ NamesAreUnique
    /\ Twins = {} => OrphansKeepNames /\ SerialIsSound

----------------------------------------------------------------------------
\* Paths and rows

\* Every workspace has a path.
LEMMA PathIsTyped ==
    ASSUME NEW r \in Repos, NEW n \in Numbers
    PROVE  Path(r, n) \in Paths
<1>1. CASE n = 1 /\ \E s \in Repos : <<r, s>> \in Twins
    <2>1. (CHOOSE s \in Repos : <<r, s>> \in Twins) \in Repos
        BY <1>1
    <2>2. 0 \in Numbers
        BY BoundsAssumption DEF Numbers
    <2> QED
        BY <1>1, <2>1, <2>2 DEF Path, Paths
<1>2. CASE ~(n = 1 /\ \E s \in Repos : <<r, s>> \in Twins)
    BY <1>2 DEF Path, Paths
<1> QED
    BY <1>1, <1>2

\* Without twins the path tells repository and number.
LEMMA PathIsPlain ==
    ASSUME Twins = {}, NEW r, NEW n
    PROVE  Path(r, n) = <<r, n>>
BY DEF Path

\* Names, the paths of rows and users without twins, are paths.
LEMMA NamesArePaths ==
    ASSUME TypeOK
    PROVE  /\ \A i \in Ids : <<rows[i].repo, rows[i].num>> \in Paths
           /\ \A u \in Users : <<RepoOf[u], num[u]>> \in Paths
BY UsersAssumption DEF TypeOK, Row, Paths

\* Row i gets status s; nothing else of any row that matters changes.
Turns(i, s) ==
    /\ rows' \in [Ids -> Row]
    /\ \A j \in Ids :
           /\ rows'[j].repo = rows[j].repo
           /\ rows'[j].num = rows[j].num
           /\ rows'[j].status = IF j = i THEN s ELSE rows[j].status

\* What an UPDATE of the status and the age does.
LEMMA RowIsWritten ==
    ASSUME rows \in [Ids -> Row], NEW i \in Ids,
           NEW s \in {"none", "idle", "busy", "deleted"}, NEW o \in BOOLEAN,
           rows' = [rows EXCEPT ![i].status = s, ![i].old = o]
    PROVE  Turns(i, s)
<1> DEFINE row == [rows[i] EXCEPT !.status = s, !.old = o]
<1>1. rows' = [rows EXCEPT ![i] = row]
    OBVIOUS
<1>2. rows[i] \in Row
    OBVIOUS
<1>3. /\ row \in Row
      /\ row.repo = rows[i].repo
      /\ row.num = rows[i].num
      /\ row.status = s
    BY <1>2 DEF Row
<1> HIDE DEF row
<1> QED
    BY <1>1, <1>3 DEF Turns

\* SetStatus: of a row that is there, or of none.
LEMMA StatusIsSet ==
    ASSUME rows \in [Ids -> Row], NEW i \in Ids, NEW s \in {"idle", "busy"},
           SetStatus(i, s)
    PROVE  /\ Turns(i, IF i \in Live THEN s ELSE rows[i].status)
           /\ Live' = Live
<1>1. CASE i \in Live
    <2>1. Turns(i, s)
        BY <1>1, RowIsWritten DEF SetStatus
    <2> QED
        BY <1>1, <2>1 DEF Turns, Live
<1>2. CASE i \notin Live
    BY <1>2 DEF SetStatus, Turns, Live
<1> QED
    BY <1>1, <1>2

\* The actions that change one row.
LEMMA MarkTurns ==
    ASSUME TypeOK, PlacesAgree, NEW u \in Users, Mark(u)
    PROVE  /\ wsid[u] \in Ids
           /\ Turns(wsid[u], IF wsid[u] \in Live THEN "busy"
                                                ELSE rows[wsid[u]].status)
           /\ Live' = Live
<1>1. wsid[u] \in Ids
    BY DEF Mark, TypeOK, PlacesAgree
<1> QED
    BY <1>1, StatusIsSet DEF Mark, TypeOK

LEMMA ReleaseTurns ==
    ASSUME TypeOK, PlacesAgree, NEW u \in Users, Release(u)
    PROVE  /\ wsid[u] \in Ids
           /\ Turns(wsid[u], IF wsid[u] \in Live THEN "idle"
                                                ELSE rows[wsid[u]].status)
           /\ Live' = Live
<1>1. wsid[u] \in Ids
    BY DEF Release, TypeOK, PlacesAgree
<1> QED
    BY <1>1, StatusIsSet DEF Release, TypeOK

LEMMA PruneDeletesTurns ==
    ASSUME TypeOK, PruneDeletes
    PROVE  Turns(removed, "deleted")
<1>1. removed \in Ids
    BY DEF PruneDeletes, TypeOK
<1> QED
    BY <1>1, RowIsWritten DEF PruneDeletes, TypeOK

LEMMA AgesTurns ==
    ASSUME TypeOK, NEW i \in Ids, Ages(i)
    PROVE  Turns(i, rows[i].status)
<1> DEFINE row == [rows[i] EXCEPT !.old = TRUE]
<1>1. rows' = [rows EXCEPT ![i] = row]
    BY DEF Ages
<1>2. rows[i] \in Row
    BY DEF TypeOK
<1>3. /\ row \in Row
      /\ row.repo = rows[i].repo /\ row.num = rows[i].num
      /\ row.status = rows[i].status
    BY <1>2 DEF Row
<1> HIDE DEF row
<1> QED
    BY <1>1, <1>3 DEF Turns, TypeOK

\* The row that InsertWorkspace makes.
Inserts(u, i) ==
    /\ rows' \in [Ids -> Row]
    /\ rows[i].status = "none"
    /\ rows'[i].repo = RepoOf[u]
    /\ rows'[i].num = num[u]
    /\ rows'[i].status = "busy"
    /\ \A j \in Ids : j # i => rows'[j] = rows[j]
    /\ wsid' = [wsid EXCEPT ![u] = i]

LEMMA InsertInserts ==
    ASSUME TypeOK, NEW u \in Users, Insert(u)
    PROVE  \E i \in Ids : Inserts(u, i)
<1>1. PICK i \in Ids :
          /\ rows[i].status = "none"
          /\ rows' = [rows EXCEPT ![i] =
                         [repo |-> RepoOf[u], num |-> num[u],
                          status |-> "busy", old |-> FALSE]]
          /\ wsid' = [wsid EXCEPT ![u] = i]
    BY DEF Insert
<1>2. [repo |-> RepoOf[u], num |-> num[u], status |-> "busy", old |-> FALSE] \in Row
    BY UsersAssumption DEF TypeOK, Row
<1> QED
    BY <1>1, <1>2 DEF Inserts, TypeOK

\* nextWorkspaceDirName gives a name that no row has.
LEMMA NextNumberIsFree ==
    ASSUME TypeOK, NEW r \in Repos, NEW n \in Numbers, IsNextNumber(r, n),
           NEW i \in Live
    PROVE  <<r, n>> # <<rows[i].repo, rows[i].num>>
<1> DEFINE taken == {rows[j].num : j \in LiveOf(r)}
<1>1. n \notin taken
    <2>1. CASE 0 \notin taken /\ n = 0
        BY <2>1
    <2>2. CASE \A m \in taken : m < n
        BY <2>2 DEF Numbers
    <2> QED
        BY <2>1, <2>2 DEF IsNextNumber
<1>2. rows[i].repo = r => rows[i].num \in taken
    BY DEF LiveOf
<1> QED
    BY <1>1, <1>2

\* In a serial history the user that acquires finds no clone under way.
LEMMA WhatExistsIsClone ==
    ASSUME SerialState, NEW u \in Acquiring, pc[u] # "cloning",
           NEW p \in Paths, disk[p] # "absent"
    PROVE  disk[p] = "clone"
<1>1. \A v \in Users : pc[v] # "cloning"
    BY DEF SerialState, OneAtATime, Acquiring, Making
<1>2. disk[p] # "cloning"
    BY <1>1 DEF SerialState, DisksAreClones
<1>3. disk[p] \notin Damaged
    BY DEF SerialState, OneAtATime, DamageIsPruned
<1> QED
    BY <1>2, <1>3 DEF SerialState, TypeOK, Disk

\* A user that gives up or gives back is out of every set of users.
LEMMA UserForgets ==
    ASSUME TypeOK, NEW u \in Users, Forget(u)
    PROVE  /\ cand'[u] = {} /\ wsid'[u] = 0 /\ pc'[u] = "off"
           /\ \A v \in Users : v # u =>
                  /\ pc'[v] = pc[v] /\ cand'[v] = cand[v]
                  /\ wsid'[v] = wsid[v] /\ num'[v] = num[v]
           /\ Making' = Making \ {u}
           /\ Acquiring' = Acquiring \ {u}
           /\ Using' = Using \ {u}
BY DEF Forget, TypeOK, Making, Acquiring, Using

----------------------------------------------------------------------------
\* Types and places

TablesTyped ==
    /\ rows \in [Ids -> Row]
    /\ disk \in [Paths -> Disk]

UsersTyped ==
    /\ pc \in [Users -> {"off", "probe", "mark", "stat", "clone", "cloning",
                         "insert", "using"}]
    /\ cand \in [Users -> SUBSET Ids]
    /\ wsid \in [Users -> Ids \cup {0}]
    /\ num \in [Users -> Numbers]

RestTyped ==
    /\ victims \subseteq Ids
    /\ removed \in Ids \cup {0}
    /\ faults \in 0..MaxFaults
    /\ orphans \subseteq Ids

\* Types: every step keeps them.
LEMMA TypesStay == TypeOK /\ PlacesAgree /\ [Next]_vars => TypeOK'
<1> SUFFICES ASSUME TypeOK /\ PlacesAgree, [Next]_vars PROVE TypeOK'
    OBVIOUS
<1>1. ASSUME NEW u \in Users, List(u) PROVE TypeOK'
    <2>1. TablesTyped'
        BY <1>1 DEF List, TypeOK, TablesTyped
    <2>2. UsersTyped'
        BY <1>1 DEF List, TypeOK, UsersTyped, LiveOf, Live
    <2>3. RestTyped'
        BY <1>1 DEF List, TypeOK, RestTyped, pruner
    <2>4. overlapped' \in BOOLEAN /\ halfRemoved' \in BOOLEAN
        BY <1>1, Zenon DEF List, TypeOK, pruner
    <2> QED
        BY <2>1, <2>2, <2>3, <2>4 DEF TypeOK, TablesTyped, UsersTyped, RestTyped
<1>2. ASSUME NEW u \in Users, Probe(u) PROVE TypeOK'
    <2>1. TablesTyped'
        BY <1>2 DEF Probe, TypeOK, TablesTyped
    <2>2. UsersTyped'
        BY <1>2 DEF Probe, TypeOK, UsersTyped
    <2>3. RestTyped'
        BY <1>2 DEF Probe, TypeOK, RestTyped, pruner, history
    <2>4. overlapped' \in BOOLEAN /\ halfRemoved' \in BOOLEAN
        BY <1>2, Zenon DEF Probe, TypeOK, pruner, history
    <2> QED
        BY <2>1, <2>2, <2>3, <2>4 DEF TypeOK, TablesTyped, UsersTyped, RestTyped
<1>3. ASSUME NEW u \in Users, Mark(u) PROVE TypeOK'
    <2>1. TablesTyped'
        BY <1>3, MarkTurns DEF Mark, Turns, TypeOK, TablesTyped
    <2>2. UsersTyped'
        BY <1>3 DEF Mark, TypeOK, UsersTyped
    <2>3. RestTyped'
        BY <1>3 DEF Mark, TypeOK, RestTyped, pruner, history
    <2>4. overlapped' \in BOOLEAN /\ halfRemoved' \in BOOLEAN
        BY <1>3, Zenon DEF Mark, TypeOK, pruner, history
    <2> QED
        BY <2>1, <2>2, <2>3, <2>4 DEF TypeOK, TablesTyped, UsersTyped, RestTyped
<1>4. ASSUME NEW u \in Users, Name(u) PROVE TypeOK'
    <2>1. TablesTyped'
        BY <1>4 DEF Name, TypeOK, TablesTyped
    <2>2. UsersTyped'
        BY <1>4 DEF Name, TypeOK, UsersTyped
    <2>3. RestTyped'
        BY <1>4 DEF Name, TypeOK, RestTyped, pruner, history
    <2>4. overlapped' \in BOOLEAN /\ halfRemoved' \in BOOLEAN
        BY <1>4, Zenon DEF Name, TypeOK, pruner, history
    <2> QED
        BY <2>1, <2>2, <2>3, <2>4 DEF TypeOK, TablesTyped, UsersTyped, RestTyped
<1>5. ASSUME NEW u \in Users, Stat(u) PROVE TypeOK'
    <2>1. TablesTyped'
        BY <1>5 DEF Stat, TypeOK, TablesTyped
    <2>2. UsersTyped'
        BY <1>5 DEF Stat, TypeOK, UsersTyped
    <2>3. RestTyped'
        BY <1>5 DEF Stat, TypeOK, RestTyped, pruner, history
    <2>4. overlapped' \in BOOLEAN /\ halfRemoved' \in BOOLEAN
        BY <1>5, Zenon DEF Stat, TypeOK, pruner, history
    <2> QED
        BY <2>1, <2>2, <2>3, <2>4 DEF TypeOK, TablesTyped, UsersTyped, RestTyped
<1>6. ASSUME NEW u \in Users, CloneBegins(u) PROVE TypeOK'
    <2>1. TablesTyped'
        BY <1>6 DEF CloneBegins, Disk, Damaged, TypeOK, TablesTyped
    <2>2. UsersTyped'
        BY <1>6, BoundsAssumption
           DEF CloneBegins, TypeOK, UsersTyped, Forget, Numbers
    <2>3. RestTyped'
        BY <1>6 DEF CloneBegins, TypeOK, RestTyped, pruner, history
    <2>4. overlapped' \in BOOLEAN /\ halfRemoved' \in BOOLEAN
        BY <1>6, Zenon DEF CloneBegins, TypeOK, pruner, history
    <2> QED
        BY <2>1, <2>2, <2>3, <2>4 DEF TypeOK, TablesTyped, UsersTyped, RestTyped
<1>7. ASSUME NEW u \in Users, CloneEnds(u) PROVE TypeOK'
    <2>1. TablesTyped'
        BY <1>7 DEF CloneEnds, Disk, Damaged, TypeOK, TablesTyped
    <2>2. UsersTyped'
        BY <1>7, BoundsAssumption
           DEF CloneEnds, TypeOK, UsersTyped, Forget, Numbers
    <2>3. RestTyped'
        BY <1>7 DEF CloneEnds, TypeOK, RestTyped, pruner, history
    <2>4. overlapped' \in BOOLEAN /\ halfRemoved' \in BOOLEAN
        BY <1>7, Zenon DEF CloneEnds, TypeOK, pruner, history
    <2> QED
        BY <2>1, <2>2, <2>3, <2>4 DEF TypeOK, TablesTyped, UsersTyped, RestTyped
<1>8. ASSUME NEW u \in Users, Insert(u) PROVE TypeOK'
    <2>1. TablesTyped'
        BY <1>8, InsertInserts DEF Insert, Inserts, TypeOK, TablesTyped
    <2>2. UsersTyped'
        BY <1>8, BoundsAssumption DEF Insert, TypeOK, UsersTyped, Numbers
    <2>3. RestTyped'
        BY <1>8 DEF Insert, TypeOK, RestTyped, pruner, history
    <2>4. overlapped' \in BOOLEAN /\ halfRemoved' \in BOOLEAN
        BY <1>8, Zenon DEF Insert, TypeOK, pruner, history
    <2> QED
        BY <2>1, <2>2, <2>3, <2>4 DEF TypeOK, TablesTyped, UsersTyped, RestTyped
<1>9. ASSUME NEW u \in Users, AcquireFails(u) PROVE TypeOK'
    <2>1. TablesTyped'
        BY <1>9 DEF AcquireFails, TypeOK, TablesTyped
    <2>2. UsersTyped'
        BY <1>9, BoundsAssumption
           DEF AcquireFails, TypeOK, UsersTyped, Forget, Numbers
    <2>3. RestTyped'
        BY <1>9 DEF AcquireFails, TypeOK, RestTyped, pruner, history
    <2>4. overlapped' \in BOOLEAN /\ halfRemoved' \in BOOLEAN
        BY <1>9, Zenon DEF AcquireFails, TypeOK, pruner, history
    <2> QED
        BY <2>1, <2>2, <2>3, <2>4 DEF TypeOK, TablesTyped, UsersTyped, RestTyped
<1>10. ASSUME NEW u \in Users, Release(u) PROVE TypeOK'
    <2>1. TablesTyped'
        BY <1>10, ReleaseTurns DEF Release, Turns, TypeOK, TablesTyped
    <2>2. UsersTyped'
        BY <1>10, BoundsAssumption
           DEF Release, TypeOK, UsersTyped, Forget, Numbers
    <2>3. RestTyped'
        BY <1>10 DEF Release, TypeOK, RestTyped, pruner, history
    <2>4. overlapped' \in BOOLEAN /\ halfRemoved' \in BOOLEAN
        BY <1>10, Zenon DEF Release, TypeOK, pruner, history
    <2> QED
        BY <2>1, <2>2, <2>3, <2>4 DEF TypeOK, TablesTyped, UsersTyped, RestTyped
<1>11. ASSUME NEW u \in Users, ReleaseFails(u) PROVE TypeOK'
    <2>1. TablesTyped'
        BY <1>11 DEF ReleaseFails, TypeOK, TablesTyped
    <2>2. UsersTyped'
        BY <1>11, BoundsAssumption
           DEF ReleaseFails, TypeOK, UsersTyped, Forget, Numbers
    <2>3. RestTyped'
        BY <1>11, BoundsAssumption
           DEF ReleaseFails, TypeOK, RestTyped, pruner, history
    <2>4. overlapped' \in BOOLEAN /\ halfRemoved' \in BOOLEAN
        BY <1>11, Zenon DEF ReleaseFails, TypeOK, pruner, history
    <2> QED
        BY <2>1, <2>2, <2>3, <2>4 DEF TypeOK, TablesTyped, UsersTyped, RestTyped
<1>12. ASSUME NEW i \in Ids, Ages(i) PROVE TypeOK'
    <2>1. TablesTyped'
        BY <1>12, AgesTurns DEF Ages, Turns, TypeOK, TablesTyped
    <2>2. UsersTyped'
        BY <1>12 DEF Ages, TypeOK, UsersTyped, users
    <2>3. RestTyped'
        BY <1>12 DEF Ages, TypeOK, RestTyped, pruner, history
    <2>4. overlapped' \in BOOLEAN /\ halfRemoved' \in BOOLEAN
        BY <1>12, Zenon DEF Ages, TypeOK, users, pruner, history
    <2> QED
        BY <2>1, <2>2, <2>3, <2>4 DEF TypeOK, TablesTyped, UsersTyped, RestTyped
<1>13. CASE PruneReads
    <2>1. TablesTyped'
        BY <1>13 DEF PruneReads, TypeOK, TablesTyped
    <2>2. UsersTyped'
        BY <1>13 DEF PruneReads, TypeOK, UsersTyped, users
    <2>3. RestTyped'
        BY <1>13 DEF PruneReads, TypeOK, RestTyped, Live
    <2>4. overlapped' \in BOOLEAN /\ halfRemoved' \in BOOLEAN
        BY <1>13, Zenon DEF PruneReads, TypeOK, users
    <2> QED
        BY <2>1, <2>2, <2>3, <2>4 DEF TypeOK, TablesTyped, UsersTyped, RestTyped
<1>14. CASE PruneRemoves
    <2>1. TablesTyped'
        BY <1>14 DEF PruneRemoves, TypeOK, TablesTyped, Disk, Damaged
    <2>2. UsersTyped'
        BY <1>14 DEF PruneRemoves, TypeOK, UsersTyped, users
    <2>3. RestTyped'
        BY <1>14 DEF PruneRemoves, TypeOK, RestTyped, history
    <2>4. overlapped' \in BOOLEAN /\ halfRemoved' \in BOOLEAN
        BY <1>14, Zenon DEF PruneRemoves, TypeOK, users, history
    <2> QED
        BY <2>1, <2>2, <2>3, <2>4 DEF TypeOK, TablesTyped, UsersTyped, RestTyped
<1>19. CASE PruneDamages
    <2>1. TablesTyped'
        BY <1>19 DEF PruneDamages, TypeOK, TablesTyped, Disk, Damaged
    <2>2. UsersTyped'
        BY <1>19 DEF PruneDamages, TypeOK, UsersTyped, users
    <2>3. RestTyped'
        BY <1>19 DEF PruneDamages, TypeOK, RestTyped, pruner, history
    <2>4. overlapped' \in BOOLEAN /\ halfRemoved' \in BOOLEAN
        BY <1>19, Zenon DEF PruneDamages, TypeOK, users, pruner, history
    <2> QED
        BY <2>1, <2>2, <2>3, <2>4 DEF TypeOK, TablesTyped, UsersTyped, RestTyped
<1>15. CASE PruneDeletes
    <2>1. TablesTyped'
        BY <1>15, PruneDeletesTurns DEF PruneDeletes, Turns, TypeOK, TablesTyped
    <2>2. UsersTyped'
        BY <1>15 DEF PruneDeletes, TypeOK, UsersTyped, users
    <2>3. RestTyped'
        BY <1>15 DEF PruneDeletes, TypeOK, RestTyped, history
    <2>4. overlapped' \in BOOLEAN /\ halfRemoved' \in BOOLEAN
        BY <1>15, Zenon DEF PruneDeletes, TypeOK, users, history
    <2> QED
        BY <2>1, <2>2, <2>3, <2>4 DEF TypeOK, TablesTyped, UsersTyped, RestTyped
<1>16. CASE PruneFails
    <2>1. TablesTyped'
        BY <1>16 DEF PruneFails, TypeOK, TablesTyped
    <2>2. UsersTyped'
        BY <1>16 DEF PruneFails, TypeOK, UsersTyped, users
    <2>3. RestTyped'
        BY <1>16 DEF PruneFails, TypeOK, RestTyped, history
    <2>4. overlapped' \in BOOLEAN /\ halfRemoved' \in BOOLEAN
        BY <1>16, Zenon DEF PruneFails, TypeOK, users, history
    <2> QED
        BY <2>1, <2>2, <2>3, <2>4 DEF TypeOK, TablesTyped, UsersTyped, RestTyped
<1>17. CASE Crash
    <2>1. TablesTyped'
        BY <1>17 DEF Crash, TypeOK, TablesTyped, Disk, Damaged
    <2>2. UsersTyped'
        BY <1>17, BoundsAssumption DEF Crash, UsersTyped, Numbers
    <2>3. RestTyped'
        BY <1>17, BoundsAssumption DEF Crash, TypeOK, RestTyped
    <2>4. overlapped' \in BOOLEAN /\ halfRemoved' \in BOOLEAN
        BY <1>17, Zenon DEF Crash, TypeOK
    <2> QED
        BY <2>1, <2>2, <2>3, <2>4 DEF TypeOK, TablesTyped, UsersTyped, RestTyped
<1>18. CASE UNCHANGED vars
    BY <1>18 DEF vars, users, pruner, history, TypeOK
<1> QED
    BY <1>1, <1>2, <1>3, <1>4, <1>5, <1>6, <1>7, <1>8, <1>9, <1>10, <1>11,
       <1>12, <1>13, <1>14, <1>15, <1>16, <1>17, <1>18, <1>19
       DEF Next, UserStep, PruneStep

\* Every step keeps the program counters in line with what they go by.
LEMMA PlacesStay == TypeOK /\ PlacesAgree /\ [Next]_vars => PlacesAgree'
<1> SUFFICES ASSUME TypeOK /\ PlacesAgree, [Next]_vars PROVE PlacesAgree'
    OBVIOUS
<1>1. ASSUME NEW u \in Users, List(u) PROVE PlacesAgree'
    BY <1>1 DEF List, TypeOK, PlacesAgree, pruner
<1>2. ASSUME NEW u \in Users, Probe(u) PROVE PlacesAgree'
    BY <1>2 DEF Probe, TypeOK, PlacesAgree, Ids, pruner
<1>3. ASSUME NEW u \in Users, Mark(u) PROVE PlacesAgree'
    BY <1>3 DEF Mark, PlacesAgree, pruner
<1>4. ASSUME NEW u \in Users, Name(u) PROVE PlacesAgree'
    BY <1>4 DEF Name, PlacesAgree, pruner
<1>5. ASSUME NEW u \in Users, Stat(u) PROVE PlacesAgree'
    BY <1>5 DEF Stat, PlacesAgree, pruner
<1>6. ASSUME NEW u \in Users, CloneBegins(u) PROVE PlacesAgree'
    BY <1>6 DEF CloneBegins, TypeOK, PlacesAgree, Forget, pruner
<1>7. ASSUME NEW u \in Users, CloneEnds(u) PROVE PlacesAgree'
    BY <1>7 DEF CloneEnds, TypeOK, PlacesAgree, Forget, pruner
<1>8. ASSUME NEW u \in Users, Insert(u) PROVE PlacesAgree'
    BY <1>8 DEF Insert, TypeOK, PlacesAgree, Ids, pruner
<1>9. ASSUME NEW u \in Users, AcquireFails(u) PROVE PlacesAgree'
    BY <1>9 DEF AcquireFails, TypeOK, PlacesAgree, Forget, pruner
<1>10. ASSUME NEW u \in Users, Release(u) PROVE PlacesAgree'
    BY <1>10 DEF Release, TypeOK, PlacesAgree, Forget, pruner
<1>11. ASSUME NEW u \in Users, ReleaseFails(u) PROVE PlacesAgree'
    BY <1>11 DEF ReleaseFails, TypeOK, PlacesAgree, Forget, pruner
<1>12. ASSUME NEW i \in Ids, Ages(i) PROVE PlacesAgree'
    BY <1>12 DEF Ages, PlacesAgree, users, pruner
<1>13. CASE PruneReads
    BY <1>13 DEF PruneReads, PlacesAgree, users
<1>14. CASE PruneRemoves
    BY <1>14 DEF PruneRemoves, PlacesAgree, IsFirst, users
<1>19. CASE PruneDamages
    BY <1>19 DEF PruneDamages, PlacesAgree, users, pruner
<1>15. CASE PruneDeletes
    BY <1>15 DEF PruneDeletes, PlacesAgree, users
<1>16. CASE PruneFails
    BY <1>16 DEF PruneFails, PlacesAgree, users
<1>17. CASE Crash
    BY <1>17 DEF Crash, TypeOK, PlacesAgree, Ids
<1>18. CASE UNCHANGED vars
    BY <1>18 DEF vars, PlacesAgree, users, pruner
<1> QED
    BY <1>1, <1>2, <1>3, <1>4, <1>5, <1>6, <1>7, <1>8, <1>9, <1>10, <1>11,
       <1>12, <1>13, <1>14, <1>15, <1>16, <1>17, <1>18, <1>19
       DEF Next, UserStep, PruneStep

----------------------------------------------------------------------------
\* Busy rows, names of rows, orphans

\* Every step keeps a holder for a busy row, as long as nothing failed.
LEMMA BusyStays ==
    TypeOK /\ PlacesAgree /\ BusyIsHeld /\ [Next]_vars => BusyIsHeld'
<1> SUFFICES ASSUME TypeOK /\ PlacesAgree /\ BusyIsHeld, [Next]_vars
             PROVE  BusyIsHeld'
    OBVIOUS
<1>1. ASSUME NEW u \in Users, List(u) PROVE BusyIsHeld'
    BY <1>1 DEF List, BusyIsHeld, Using
<1>2. ASSUME NEW u \in Users, Probe(u) PROVE BusyIsHeld'
    BY <1>2 DEF Probe, TypeOK, BusyIsHeld, Using
<1>3. ASSUME NEW u \in Users, Mark(u) PROVE BusyIsHeld'
    <2>1. /\ pc[u] = "mark" /\ pc' = [pc EXCEPT ![u] = "using"]
          /\ wsid' = wsid /\ faults' = faults
        BY <1>3 DEF Mark
    <2>2. \A i \in Ids : i # wsid[u] => rows'[i].status = rows[i].status
        BY <1>3, MarkTurns DEF Turns
    <2>3. Using' = Using \cup {u}
        BY <2>1 DEF Using, TypeOK
    <2> QED
        BY <2>1, <2>2, <2>3 DEF BusyIsHeld
<1>4. ASSUME NEW u \in Users, Name(u) PROVE BusyIsHeld'
    BY <1>4 DEF Name, BusyIsHeld, Using
<1>5. ASSUME NEW u \in Users, Stat(u) PROVE BusyIsHeld'
    BY <1>5 DEF Stat, BusyIsHeld, Using
<1>6. ASSUME NEW u \in Users, CloneBegins(u) PROVE BusyIsHeld'
    BY <1>6 DEF CloneBegins, TypeOK, BusyIsHeld, Using, Forget
<1>7. ASSUME NEW u \in Users, CloneEnds(u) PROVE BusyIsHeld'
    BY <1>7 DEF CloneEnds, TypeOK, BusyIsHeld, Using, Forget
<1>8. ASSUME NEW u \in Users, Insert(u) PROVE BusyIsHeld'
    BY <1>8 DEF Insert, TypeOK, BusyIsHeld, Using
<1>9. ASSUME NEW u \in Users, AcquireFails(u) PROVE BusyIsHeld'
    BY <1>9 DEF AcquireFails, BusyIsHeld, Using, Forget
<1>10. ASSUME NEW u \in Users, Release(u) PROVE BusyIsHeld'
    <2>1. /\ wsid[u] \in Ids
          /\ \A i \in Ids : rows'[i].status = "busy" =>
                 rows[i].status = "busy" /\ i # wsid[u]
        BY <1>10, ReleaseTurns DEF Turns, Live
    <2>2. Forget(u) /\ faults' = faults
        BY <1>10 DEF Release
    <2>3. \A v \in Using : v # u => v \in Using' /\ wsid'[v] = wsid[v]
        BY <2>2, UserForgets DEF Using
    <2> QED
        BY <2>1, <2>2, <2>3 DEF BusyIsHeld
<1>11. ASSUME NEW u \in Users, ReleaseFails(u) PROVE BusyIsHeld'
    BY <1>11 DEF ReleaseFails, TypeOK, BusyIsHeld
<1>12. ASSUME NEW i \in Ids, Ages(i) PROVE BusyIsHeld'
    BY <1>12 DEF Ages, BusyIsHeld, Using, users
<1>13. CASE PruneReads
    BY <1>13 DEF PruneReads, BusyIsHeld, Using, users
<1>14. CASE PruneRemoves
    BY <1>14 DEF PruneRemoves, BusyIsHeld, Using, users
<1>19. CASE PruneDamages
    BY <1>19 DEF PruneDamages, BusyIsHeld, Using, users
<1>15. CASE PruneDeletes
    BY <1>15 DEF PruneDeletes, TypeOK, BusyIsHeld, Using, users
<1>16. CASE PruneFails
    BY <1>16 DEF PruneFails, BusyIsHeld, Using, users
<1>17. CASE Crash
    BY <1>17 DEF Crash, TypeOK, BusyIsHeld
<1>18. CASE UNCHANGED vars
    BY <1>18 DEF vars, BusyIsHeld, Using, users
<1> QED
    BY <1>1, <1>2, <1>3, <1>4, <1>5, <1>6, <1>7, <1>8, <1>9, <1>10, <1>11,
       <1>12, <1>13, <1>14, <1>15, <1>16, <1>17, <1>18, <1>19
       DEF Next, UserStep, PruneStep

\* Every step keeps the names of the rows unique.
LEMMA NamesStay ==
    TypeOK /\ PlacesAgree /\ NamesAreUnique /\ [Next]_vars => NamesAreUnique'
<1> SUFFICES ASSUME TypeOK /\ PlacesAgree /\ NamesAreUnique, [Next]_vars
             PROVE  NamesAreUnique'
    OBVIOUS
<1>1. ASSUME NEW u \in Users, List(u) PROVE NamesAreUnique'
    BY <1>1 DEF List, NamesAreUnique, Live
<1>2. ASSUME NEW u \in Users, Probe(u) PROVE NamesAreUnique'
    BY <1>2 DEF Probe, NamesAreUnique, Live
<1>3. ASSUME NEW u \in Users, Mark(u) PROVE NamesAreUnique'
    BY <1>3, MarkTurns DEF Turns, NamesAreUnique, Live
<1>4. ASSUME NEW u \in Users, Name(u) PROVE NamesAreUnique'
    BY <1>4 DEF Name, NamesAreUnique, Live
<1>5. ASSUME NEW u \in Users, Stat(u) PROVE NamesAreUnique'
    BY <1>5 DEF Stat, NamesAreUnique, Live
<1>6. ASSUME NEW u \in Users, CloneBegins(u) PROVE NamesAreUnique'
    BY <1>6 DEF CloneBegins, NamesAreUnique, Live
<1>7. ASSUME NEW u \in Users, CloneEnds(u) PROVE NamesAreUnique'
    BY <1>7 DEF CloneEnds, NamesAreUnique, Live
<1>8. ASSUME NEW u \in Users, Insert(u) PROVE NamesAreUnique'
    BY <1>8 DEF Insert, NamesAreUnique, Live, LiveOf
<1>9. ASSUME NEW u \in Users, AcquireFails(u) PROVE NamesAreUnique'
    BY <1>9 DEF AcquireFails, NamesAreUnique, Live
<1>10. ASSUME NEW u \in Users, Release(u) PROVE NamesAreUnique'
    BY <1>10, ReleaseTurns DEF Turns, NamesAreUnique, Live
<1>11. ASSUME NEW u \in Users, ReleaseFails(u) PROVE NamesAreUnique'
    BY <1>11 DEF ReleaseFails, NamesAreUnique, Live
<1>12. ASSUME NEW i \in Ids, Ages(i) PROVE NamesAreUnique'
    BY <1>12 DEF Ages, NamesAreUnique, Live
<1>13. CASE PruneReads
    BY <1>13 DEF PruneReads, NamesAreUnique, Live
<1>14. CASE PruneRemoves
    BY <1>14 DEF PruneRemoves, NamesAreUnique, Live
<1>19. CASE PruneDamages
    BY <1>19 DEF PruneDamages, NamesAreUnique, Live
<1>15. CASE PruneDeletes
    BY <1>15 DEF PruneDeletes, TypeOK, NamesAreUnique, Live
<1>16. CASE PruneFails
    BY <1>16 DEF PruneFails, NamesAreUnique, Live
<1>17. CASE Crash
    BY <1>17 DEF Crash, NamesAreUnique, Live
<1>18. CASE UNCHANGED vars
    BY <1>18 DEF vars, NamesAreUnique, Live
<1> QED
    BY <1>1, <1>2, <1>3, <1>4, <1>5, <1>6, <1>7, <1>8, <1>9, <1>10, <1>11,
       <1>12, <1>13, <1>14, <1>15, <1>16, <1>17, <1>18, <1>19
       DEF Next, UserStep, PruneStep

\* Whoever forgets what it had leaves the orphans alone.
LEMMA OrphansSurviveForgetting ==
    ASSUME TypeOK, OrphansKeepNames, NEW u \in Users, Forget(u),
           UNCHANGED <<rows, orphans, victims>>
    PROVE  OrphansKeepNames'
<1>1. \A v \in Users : \/ cand'[v] = cand[v] /\ wsid'[v] = wsid[v]
                       \/ cand'[v] = {} /\ wsid'[v] = 0
    BY UserForgets
<1>2. \A v \in Making' : v \in Making /\ num'[v] = num[v]
    BY UserForgets DEF Making
<1>3. \A i \in orphans : i # 0
    BY DEF TypeOK, Ids
<1> QED
    BY <1>1, <1>2, <1>3 DEF OrphansKeepNames

\* Every step leaves the orphans alone.
LEMMA OrphansStay ==
    TypeOK /\ PlacesAgree /\ OrphansKeepNames /\ [Next]_vars
        => OrphansKeepNames'
<1> SUFFICES ASSUME TypeOK /\ PlacesAgree /\ OrphansKeepNames, [Next]_vars
             PROVE  OrphansKeepNames'
    OBVIOUS
<1>1. ASSUME NEW u \in Users, List(u) PROVE OrphansKeepNames'
    BY <1>1 DEF List, OrphansKeepNames, Making, pruner
<1>2. ASSUME NEW u \in Users, Probe(u) PROVE OrphansKeepNames'
    BY <1>2
       DEF Probe, TypeOK, OrphansKeepNames, Making, IsFirst, pruner, history
<1>3. ASSUME NEW u \in Users, Mark(u) PROVE OrphansKeepNames'
    <2>1. \A i \in orphans : i \in Ids /\ i # wsid[u]
        BY DEF OrphansKeepNames, TypeOK
    <2>2. \A i \in orphans : /\ rows'[i].status = rows[i].status
                             /\ rows'[i].repo = rows[i].repo
                             /\ rows'[i].num = rows[i].num
        BY <2>1, <1>3, MarkTurns DEF Turns
    <2>3. Making' = Making
        BY <1>3 DEF Mark, TypeOK, Making
    <2> QED
        BY <1>3, <2>2, <2>3 DEF Mark, OrphansKeepNames, pruner, history
<1>4. ASSUME NEW u \in Users, Name(u) PROVE OrphansKeepNames'
    <2>1. PICK n \in Numbers : /\ IsNextNumber(RepoOf[u], n)
                               /\ num' = [num EXCEPT ![u] = n]
        BY <1>4 DEF Name
    <2>2. \A i \in orphans : <<RepoOf[u], n>> # <<rows[i].repo, rows[i].num>>
        <3>1. orphans \subseteq Live /\ RepoOf[u] \in Repos
            BY UsersAssumption DEF OrphansKeepNames, Live, TypeOK
        <3> QED
            BY <2>1, <3>1, NextNumberIsFree
    <2>3. num'[u] = n /\ \A v \in Users : v # u => num'[v] = num[v]
        BY <2>1 DEF TypeOK
    <2>4. Making' = Making \cup {u}
        BY <1>4 DEF Name, TypeOK, Making
    <2> QED
        BY <1>4, <2>2, <2>3, <2>4 DEF Name, OrphansKeepNames, pruner, history
<1>5. ASSUME NEW u \in Users, Stat(u) PROVE OrphansKeepNames'
    BY <1>5 DEF Stat, OrphansKeepNames, Making, pruner, history
<1>6. ASSUME NEW u \in Users, CloneBegins(u) PROVE OrphansKeepNames'
    <2>1. CASE Forget(u)
        BY <1>6, <2>1, OrphansSurviveForgetting DEF CloneBegins, pruner, history
    <2>2. CASE ~Forget(u)
        <3>1. /\ cand' = cand /\ wsid' = wsid /\ num' = num
              /\ rows' = rows /\ orphans' = orphans /\ victims' = victims
            BY <1>6, <2>2 DEF CloneBegins, pruner, history
        <3>2. Making' = Making
            BY <1>6, <2>2 DEF CloneBegins, TypeOK, Making
        <3> QED
            BY <3>1, <3>2 DEF OrphansKeepNames
    <2> QED
        BY <2>1, <2>2
<1>7. ASSUME NEW u \in Users, CloneEnds(u) PROVE OrphansKeepNames'
    <2>1. CASE Forget(u)
        BY <1>7, <2>1, OrphansSurviveForgetting DEF CloneEnds, pruner, history
    <2>2. CASE ~Forget(u)
        <3>1. /\ cand' = cand /\ wsid' = wsid /\ num' = num
              /\ rows' = rows /\ orphans' = orphans /\ victims' = victims
            BY <1>7, <2>2 DEF CloneEnds, pruner, history
        <3>2. Making' = Making
            BY <1>7, <2>2 DEF CloneEnds, TypeOK, Making
        <3> QED
            BY <3>1, <3>2 DEF OrphansKeepNames
    <2> QED
        BY <2>1, <2>2
<1>8. ASSUME NEW u \in Users, Insert(u) PROVE OrphansKeepNames'
    BY <1>8 DEF Insert, TypeOK, OrphansKeepNames, Making, pruner, history
<1>9. ASSUME NEW u \in Users, AcquireFails(u) PROVE OrphansKeepNames'
    BY <1>9, OrphansSurviveForgetting DEF AcquireFails, pruner, history
<1>10. ASSUME NEW u \in Users, Release(u) PROVE OrphansKeepNames'
    <2>1. \A i \in orphans : i \in Ids /\ i # wsid[u]
        BY DEF OrphansKeepNames, TypeOK
    <2>2. \A i \in orphans : /\ rows'[i].status = rows[i].status
                             /\ rows'[i].repo = rows[i].repo
                             /\ rows'[i].num = rows[i].num
        BY <2>1, <1>10, ReleaseTurns DEF Turns
    <2>3. Forget(u) /\ orphans' = orphans /\ victims' = victims
        BY <1>10 DEF Release, pruner, history
    <2>4. \A i \in orphans : \A v \in Users : i \notin cand'[v] /\ wsid'[v] # i
        BY <2>3, UserForgets DEF OrphansKeepNames, TypeOK, Ids
    <2>5. \A v \in Making' : v \in Making /\ num'[v] = num[v]
        BY <2>3, UserForgets DEF Making
    <2> QED
        BY <2>2, <2>3, <2>4, <2>5 DEF OrphansKeepNames
<1>11. ASSUME NEW u \in Users, ReleaseFails(u) PROVE OrphansKeepNames'
    BY <1>11, OrphansSurviveForgetting DEF ReleaseFails, pruner, history
<1>12. ASSUME NEW i \in Ids, Ages(i) PROVE OrphansKeepNames'
    BY <1>12 DEF Ages, OrphansKeepNames, Making, users, pruner, history
<1>13. CASE PruneReads
    BY <1>13 DEF PruneReads, OrphansKeepNames, Making, users
<1>14. CASE PruneRemoves
    BY <1>14 DEF PruneRemoves, OrphansKeepNames, Making, IsFirst, users, history
<1>19. CASE PruneDamages
    BY <1>19
       DEF PruneDamages, OrphansKeepNames, Making, users, pruner, history
<1>15. CASE PruneDeletes
    BY <1>15
       DEF PruneDeletes, TypeOK, PlacesAgree, OrphansKeepNames, Making, users,
           history
<1>16. CASE PruneFails
    BY <1>16 DEF PruneFails, OrphansKeepNames, Making, users, history
<1>17. CASE Crash
    <2>1. Making' = {} /\ \A v \in Users : cand'[v] = {} /\ wsid'[v] = 0
        BY <1>17 DEF Crash, Making
    <2>2. \A i \in orphans' : i # 0 /\ rows'[i].status = "busy"
        BY <1>17 DEF Crash, Ids
    <2>3. victims' = {}
        BY <1>17 DEF Crash
    <2> QED
        BY <2>1, <2>2, <2>3 DEF OrphansKeepNames, Making
<1>18. CASE UNCHANGED vars
    BY <1>18 DEF vars, OrphansKeepNames, Making, users, pruner, history
<1> QED
    BY <1>1, <1>2, <1>3, <1>4, <1>5, <1>6, <1>7, <1>8, <1>9, <1>10, <1>11,
       <1>12, <1>13, <1>14, <1>15, <1>16, <1>17, <1>18, <1>19
       DEF Next, UserStep, PruneStep

----------------------------------------------------------------------------
\* Serial histories

\* A history that is serial was serial before.
LEMMA SerialBefore == TypeOK /\ Serial' /\ [Next]_vars => Serial
<1> SUFFICES ASSUME TypeOK, Serial', [Next]_vars PROVE Serial
    OBVIOUS
<1>1. ASSUME NEW u \in Users, List(u) PROVE Serial
    BY <1>1 DEF List, Serial, TypeOK, pruner
<1>2. ASSUME NEW u \in Users, Probe(u) PROVE Serial
    BY <1>2 DEF Probe, Serial, history
<1>3. ASSUME NEW u \in Users, Mark(u) PROVE Serial
    BY <1>3 DEF Mark, Serial, history
<1>4. ASSUME NEW u \in Users, Name(u) PROVE Serial
    BY <1>4 DEF Name, Serial, history
<1>5. ASSUME NEW u \in Users, Stat(u) PROVE Serial
    BY <1>5 DEF Stat, Serial, history
<1>6. ASSUME NEW u \in Users, CloneBegins(u) PROVE Serial
    BY <1>6 DEF CloneBegins, Serial, history
<1>7. ASSUME NEW u \in Users, CloneEnds(u) PROVE Serial
    BY <1>7 DEF CloneEnds, Serial, history
<1>8. ASSUME NEW u \in Users, Insert(u) PROVE Serial
    BY <1>8 DEF Insert, Serial, history
<1>9. ASSUME NEW u \in Users, AcquireFails(u) PROVE Serial
    BY <1>9 DEF AcquireFails, Serial, history
<1>10. ASSUME NEW u \in Users, Release(u) PROVE Serial
    BY <1>10 DEF Release, Serial, history
<1>11. ASSUME NEW u \in Users, ReleaseFails(u) PROVE Serial
    BY <1>11 DEF ReleaseFails, Serial, TypeOK
<1>12. ASSUME NEW i \in Ids, Ages(i) PROVE Serial
    BY <1>12 DEF Ages, Serial, history
<1>13. CASE PruneReads
    BY <1>13 DEF PruneReads, Serial, TypeOK, users
<1>14. CASE PruneRemoves
    BY <1>14 DEF PruneRemoves, Serial, history
<1>19. CASE PruneDamages
    BY <1>19 DEF PruneDamages, Serial, history
<1>15. CASE PruneDeletes
    BY <1>15 DEF PruneDeletes, Serial, history
<1>16. CASE PruneFails
    BY <1>16 DEF PruneFails, Serial, TypeOK
<1>17. CASE Crash
    BY <1>17 DEF Crash, Serial, TypeOK
<1>18. CASE UNCHANGED vars
    BY <1>18 DEF vars, Serial, history
<1> QED
    BY <1>1, <1>2, <1>3, <1>4, <1>5, <1>6, <1>7, <1>8, <1>9, <1>10, <1>11,
       <1>12, <1>13, <1>14, <1>15, <1>16, <1>17, <1>18, <1>19
       DEF Next, UserStep, PruneStep

\* In a serial history there is one acquisition at a time.
LEMMA OneStays == SerialState /\ Serial' /\ [Next]_vars => OneAtATime'
<1> SUFFICES ASSUME SerialState /\ Serial', [Next]_vars PROVE OneAtATime'
    OBVIOUS
<1>1. ASSUME NEW u \in Users, List(u) PROVE OneAtATime'
    BY <1>1
       DEF List, SerialState, TypeOK, Serial, OneAtATime, Acquiring, Making,
           pruner
<1>2. ASSUME NEW u \in Users, Probe(u) PROVE OneAtATime'
    BY <1>2
       DEF Probe, SerialState, TypeOK, OneAtATime, Acquiring, Making, pruner
<1>3. ASSUME NEW u \in Users, Mark(u) PROVE OneAtATime'
    BY <1>3 DEF Mark, SerialState, TypeOK, OneAtATime, Acquiring, Making
<1>4. ASSUME NEW u \in Users, Name(u) PROVE OneAtATime'
    BY <1>4 DEF Name, SerialState, OneAtATime, Acquiring, Making, pruner
<1>5. ASSUME NEW u \in Users, Stat(u) PROVE OneAtATime'
    BY <1>5 DEF Stat, SerialState, OneAtATime, Acquiring, Making, pruner
<1>6. ASSUME NEW u \in Users, CloneBegins(u) PROVE OneAtATime'
    BY <1>6
       DEF CloneBegins, SerialState, TypeOK, OneAtATime, Acquiring, Making,
           Forget, pruner
<1>7. ASSUME NEW u \in Users, CloneEnds(u) PROVE OneAtATime'
    BY <1>7
       DEF CloneEnds, SerialState, TypeOK, OneAtATime, Acquiring, Making,
           Forget, pruner
<1>8. ASSUME NEW u \in Users, Insert(u) PROVE OneAtATime'
    BY <1>8 DEF Insert, SerialState, TypeOK, OneAtATime, Acquiring, Making
<1>9. ASSUME NEW u \in Users, AcquireFails(u) PROVE OneAtATime'
    BY <1>9
       DEF AcquireFails, SerialState, TypeOK, OneAtATime, Acquiring, Making,
           Forget
<1>10. ASSUME NEW u \in Users, Release(u) PROVE OneAtATime'
    BY <1>10
       DEF Release, SerialState, OneAtATime, Acquiring, Making, Forget, pruner
<1>11. ASSUME NEW u \in Users, ReleaseFails(u) PROVE OneAtATime'
    BY <1>11 DEF ReleaseFails, SerialState, Serial, TypeOK
<1>12. ASSUME NEW i \in Ids, Ages(i) PROVE OneAtATime'
    BY <1>12 DEF Ages, SerialState, OneAtATime, Acquiring, Making, users, pruner
<1>13. CASE PruneReads
    BY <1>13 DEF PruneReads, Serial, OneAtATime, Acquiring, Making, users
<1>14. CASE PruneRemoves
    BY <1>14 DEF PruneRemoves, SerialState, OneAtATime, Acquiring, Making, users
<1>19. CASE PruneDamages
    BY <1>19
       DEF PruneDamages, SerialState, OneAtATime, Acquiring, Making, users,
           pruner
<1>15. CASE PruneDeletes
    BY <1>15 DEF PruneDeletes, SerialState, OneAtATime, Acquiring, Making, users
<1>16. CASE PruneFails
    BY <1>16 DEF PruneFails, SerialState, OneAtATime, Acquiring, Making, users
<1>17. CASE Crash
    BY <1>17 DEF Crash, SerialState, Serial, TypeOK
<1>18. CASE UNCHANGED vars
    BY <1>18 DEF vars, SerialState, OneAtATime, Acquiring, Making, users, pruner
<1> QED
    BY <1>1, <1>2, <1>3, <1>4, <1>5, <1>6, <1>7, <1>8, <1>9, <1>10, <1>11,
       <1>12, <1>13, <1>14, <1>15, <1>16, <1>17, <1>18, <1>19
       DEF Next, UserStep, PruneStep

\* Every serial step leaves what was read as it was.
LEMMA ReadsStay == SerialState /\ Serial' /\ [Next]_vars => ReadsAreFresh'
<1> SUFFICES ASSUME SerialState /\ Serial', [Next]_vars PROVE ReadsAreFresh'
    OBVIOUS
<1>1. ASSUME NEW u \in Users, List(u) PROVE ReadsAreFresh'
    BY <1>1 DEF List, SerialState, ReadsAreFresh, pruner
<1>2. ASSUME NEW u \in Users, Probe(u) PROVE ReadsAreFresh'
    <2>1. PICK i \in Ids :
              /\ IsFirst(i, cand[u])
              /\ \/ /\ HasGit(PathOf(i))
                    /\ pc' = [pc EXCEPT ![u] = "mark"]
                    /\ wsid' = [wsid EXCEPT ![u] = i]
                    /\ cand' = [cand EXCEPT ![u] = {}]
                 \/ /\ cand' = [cand EXCEPT ![u] = cand[u] \ {i}]
                    /\ UNCHANGED <<pc, wsid>>
        BY <1>2 DEF Probe
    <2>2. rows' = rows /\ disk' = disk /\ victims' = victims
        BY <1>2 DEF Probe, pruner
    <2>3. rows[i].status = "idle"
        BY <2>1 DEF IsFirst, SerialState, ReadsAreFresh
    <2>4. HasGit(PathOf(i)) => disk[<<rows[i].repo, rows[i].num>>] = "clone"
        <3>1. u \in Acquiring /\ pc[u] # "cloning"
            BY <1>2 DEF Probe, Acquiring
        <3>2. <<rows[i].repo, rows[i].num>> \in Paths
            BY NamesArePaths DEF SerialState
        <3>3. PathOf(i) = <<rows[i].repo, rows[i].num>>
            BY PathIsPlain DEF PathOf, SerialState
        <3> QED
            BY <3>1, <3>2, <3>3, WhatExistsIsClone DEF HasGit
    <2> QED
        BY <2>1, <2>2, <2>3, <2>4 DEF SerialState, TypeOK, ReadsAreFresh
<1>3. ASSUME NEW u \in Users, Mark(u) PROVE ReadsAreFresh'
    BY <1>3
       DEF Mark, SerialState, TypeOK, PlacesAgree, OneAtATime, ReadsAreFresh,
           Acquiring, pruner
<1>4. ASSUME NEW u \in Users, Name(u) PROVE ReadsAreFresh'
    BY <1>4 DEF Name, SerialState, ReadsAreFresh, pruner
<1>5. ASSUME NEW u \in Users, Stat(u) PROVE ReadsAreFresh'
    BY <1>5 DEF Stat, SerialState, ReadsAreFresh, pruner
<1>6. ASSUME NEW u \in Users, CloneBegins(u) PROVE ReadsAreFresh'
    BY <1>6
       DEF CloneBegins, SerialState, TypeOK, OneAtATime, ReadsAreFresh,
           Acquiring, Making, Forget, pruner
<1>7. ASSUME NEW u \in Users, CloneEnds(u) PROVE ReadsAreFresh'
    BY <1>7
       DEF CloneEnds, SerialState, TypeOK, OneAtATime, ReadsAreFresh, Acquiring,
           Making, Forget, pruner
<1>8. ASSUME NEW u \in Users, Insert(u) PROVE ReadsAreFresh'
    BY <1>8
       DEF Insert, SerialState, OneAtATime, ReadsAreFresh, Acquiring, Making,
           pruner
<1>9. ASSUME NEW u \in Users, AcquireFails(u) PROVE ReadsAreFresh'
    BY <1>9 DEF AcquireFails, SerialState, TypeOK, ReadsAreFresh, Forget, pruner
<1>10. ASSUME NEW u \in Users, Release(u) PROVE ReadsAreFresh'
    <2>1. Forget(u) /\ disk' = disk /\ victims' = victims
        BY <1>10 DEF Release, pruner
    <2>2. \A i \in Ids : \/ rows'[i].status = "idle"
                         \/ rows'[i].status = rows[i].status
        BY <1>10, ReleaseTurns DEF SerialState, Turns, Live
    <2>3. /\ Live' = Live
          /\ \A i \in Ids : rows'[i].repo = rows[i].repo /\ rows'[i].num = rows[i].num
        BY <1>10, ReleaseTurns DEF SerialState, Turns
    <2> QED
        BY <2>1, <2>2, <2>3, UserForgets
           DEF SerialState, TypeOK, PlacesAgree, ReadsAreFresh
<1>11. ASSUME NEW u \in Users, ReleaseFails(u) PROVE ReadsAreFresh'
    BY <1>11 DEF ReleaseFails, SerialState, Serial, TypeOK
<1>12. ASSUME NEW i \in Ids, Ages(i) PROVE ReadsAreFresh'
    BY <1>12 DEF Ages, SerialState, ReadsAreFresh, users, pruner
<1>13. CASE PruneReads
    BY <1>13 DEF PruneReads, SerialState, ReadsAreFresh, users
<1>14. CASE PruneRemoves
    <2>1. /\ rows' = rows /\ pc' = pc /\ cand' = cand /\ victims' = victims
          /\ victims # {}
        BY <1>14 DEF PruneRemoves, IsFirst, users
    <2>2. \A u \in Users : pc[u] # "mark"
        BY <2>1 DEF SerialState, OneAtATime, Acquiring
    <2> QED
        BY <2>1, <2>2 DEF SerialState, ReadsAreFresh
<1>19. CASE PruneDamages
    <2>1. /\ rows' = rows /\ pc' = pc /\ cand' = cand /\ victims' = victims
          /\ victims # {}
        BY <1>19 DEF PruneDamages, IsFirst, users, pruner
    <2>2. \A u \in Users : pc[u] # "mark"
        BY <2>1 DEF SerialState, OneAtATime, Acquiring
    <2> QED
        BY <2>1, <2>2 DEF SerialState, ReadsAreFresh
<1>15. CASE PruneDeletes
    BY <1>15
       DEF PruneDeletes, SerialState, TypeOK, PlacesAgree, OneAtATime,
           ReadsAreFresh, Acquiring, users
<1>16. CASE PruneFails
    BY <1>16 DEF PruneFails, SerialState, ReadsAreFresh, users
<1>17. CASE Crash
    BY <1>17 DEF Crash, SerialState, Serial, TypeOK
<1>18. CASE UNCHANGED vars
    BY <1>18 DEF vars, SerialState, ReadsAreFresh, users, pruner
<1> QED
    BY <1>1, <1>2, <1>3, <1>4, <1>5, <1>6, <1>7, <1>8, <1>9, <1>10, <1>11,
       <1>12, <1>13, <1>14, <1>15, <1>16, <1>17, <1>18, <1>19
       DEF Next, UserStep, PruneStep

\* Every serial step leaves a name free until its row is inserted.
LEMMA FreeStay == SerialState /\ Serial' /\ [Next]_vars => NamesAreFree'
<1> SUFFICES ASSUME SerialState /\ Serial', [Next]_vars PROVE NamesAreFree'
    OBVIOUS
<1>1. ASSUME NEW u \in Users, List(u) PROVE NamesAreFree'
    BY <1>1
       DEF List, SerialState, TypeOK, Serial, NamesAreFree, Acquiring, Making
<1>2. ASSUME NEW u \in Users, Probe(u) PROVE NamesAreFree'
    BY <1>2
       DEF Probe, SerialState, TypeOK, OneAtATime, NamesAreFree, Acquiring,
           Making
<1>3. ASSUME NEW u \in Users, Mark(u) PROVE NamesAreFree'
    BY <1>3 DEF Mark, SerialState, OneAtATime, NamesAreFree, Acquiring, Making
<1>4. ASSUME NEW u \in Users, Name(u) PROVE NamesAreFree'
    <2>1. PICK n \in Numbers : /\ IsNextNumber(RepoOf[u], n)
                               /\ num' = [num EXCEPT ![u] = n]
        BY <1>4 DEF Name
    <2>2. RepoOf[u] \in Repos /\ TypeOK
        BY UsersAssumption DEF SerialState
    <2>3. \A i \in Live : <<rows[i].repo, rows[i].num>> # <<RepoOf[u], n>>
        BY <2>1, <2>2, NextNumberIsFree
    <2>4. Live' = Live /\ rows' = rows
        BY <1>4 DEF Name, Live
    <2>5. num'[u] = n
        BY <2>1, <2>2 DEF TypeOK
    <2>6. Making' \subseteq {u}
        BY <1>4 DEF Name, Making, Acquiring, SerialState, OneAtATime
    <2> QED
        BY <2>3, <2>4, <2>5, <2>6 DEF NamesAreFree
<1>5. ASSUME NEW u \in Users, Stat(u) PROVE NamesAreFree'
    BY <1>5 DEF Stat, SerialState, NamesAreFree, Making, Live
<1>6. ASSUME NEW u \in Users, CloneBegins(u) PROVE NamesAreFree'
    BY <1>6
       DEF CloneBegins, SerialState, TypeOK, NamesAreFree, Making, Forget, Live
<1>7. ASSUME NEW u \in Users, CloneEnds(u) PROVE NamesAreFree'
    BY <1>7
       DEF CloneEnds, SerialState, TypeOK, NamesAreFree, Making, Forget, Live
<1>8. ASSUME NEW u \in Users, Insert(u) PROVE NamesAreFree'
    BY <1>8
       DEF Insert, SerialState, TypeOK, OneAtATime, NamesAreFree, Acquiring,
           Making
<1>9. ASSUME NEW u \in Users, AcquireFails(u) PROVE NamesAreFree'
    BY <1>9
       DEF AcquireFails, SerialState, TypeOK, OneAtATime, NamesAreFree,
           Acquiring, Making, Forget
<1>10. ASSUME NEW u \in Users, Release(u) PROVE NamesAreFree'
    <2>1. Forget(u) /\ disk' = disk /\ victims' = victims
        BY <1>10 DEF Release, pruner
    <2>2. \A i \in Ids : \/ rows'[i].status = "idle"
                         \/ rows'[i].status = rows[i].status
        BY <1>10, ReleaseTurns DEF SerialState, Turns, Live
    <2>3. /\ Live' = Live
          /\ \A i \in Ids : rows'[i].repo = rows[i].repo /\ rows'[i].num = rows[i].num
        BY <1>10, ReleaseTurns DEF SerialState, Turns
    <2>4. \A v \in Making' : v \in Making /\ num'[v] = num[v]
        BY <2>1, UserForgets DEF SerialState, Making
    <2> QED
        BY <2>3, <2>4 DEF SerialState, NamesAreFree, Live
<1>11. ASSUME NEW u \in Users, ReleaseFails(u) PROVE NamesAreFree'
    BY <1>11 DEF ReleaseFails, SerialState, Serial, TypeOK
<1>12. ASSUME NEW i \in Ids, Ages(i) PROVE NamesAreFree'
    BY <1>12 DEF Ages, SerialState, NamesAreFree, Making, Live, users
<1>13. CASE PruneReads
    BY <1>13 DEF PruneReads, Serial, NamesAreFree, Acquiring, Making, users
<1>14. CASE PruneRemoves
    BY <1>14 DEF PruneRemoves, SerialState, NamesAreFree, Making, Live, users
<1>19. CASE PruneDamages
    BY <1>19
       DEF PruneDamages, SerialState, NamesAreFree, Making, Live, users
<1>15. CASE PruneDeletes
    BY <1>15
       DEF PruneDeletes, SerialState, PlacesAgree, OneAtATime, NamesAreFree,
           Acquiring, Making, users
<1>16. CASE PruneFails
    BY <1>16
       DEF PruneFails, SerialState, OneAtATime, NamesAreFree, Acquiring, Making,
           users
<1>17. CASE Crash
    BY <1>17 DEF Crash, SerialState, Serial, TypeOK
<1>18. CASE UNCHANGED vars
    BY <1>18 DEF vars, SerialState, NamesAreFree, Making, Live, users
<1> QED
    BY <1>1, <1>2, <1>3, <1>4, <1>5, <1>6, <1>7, <1>8, <1>9, <1>10, <1>11,
       <1>12, <1>13, <1>14, <1>15, <1>16, <1>17, <1>18, <1>19
       DEF Next, UserStep, PruneStep

\* Every serial step keeps damage to what is being pruned.
LEMMA DamageStays ==
    SerialState /\ Serial' /\ [Next]_vars => DamageIsPruned'
<1> SUFFICES ASSUME SerialState /\ Serial', [Next]_vars PROVE DamageIsPruned'
    OBVIOUS
<1>0. ASSUME Acquiring # {} \/ victims = {}
      PROVE  victims = {} /\ removed = 0 /\ \A q \in Paths : disk[q] \notin Damaged
    BY <1>0 DEF SerialState, OneAtATime, PlacesAgree, DamageIsPruned
<1>1. ASSUME NEW u \in Users, List(u) PROVE DamageIsPruned'
    BY <1>1 DEF List, SerialState, DamageIsPruned, pruner
<1>2. ASSUME NEW u \in Users, Probe(u) PROVE DamageIsPruned'
    BY <1>2 DEF Probe, SerialState, DamageIsPruned, pruner
<1>3. ASSUME NEW u \in Users, Mark(u) PROVE DamageIsPruned'
    <2>1. \A i \in Ids : rows'[i].repo = rows[i].repo /\ rows'[i].num = rows[i].num
        BY <1>3, MarkTurns DEF SerialState, Turns
    <2>2. victims' = victims /\ removed' = removed /\ disk' = disk
        BY <1>3 DEF Mark, pruner
    <2>3. victims \subseteq Ids /\ removed \in Ids \cup {0}
        BY DEF SerialState, TypeOK
    <2> QED
        BY <2>1, <2>2, <2>3 DEF SerialState, DamageIsPruned
<1>4. ASSUME NEW u \in Users, Name(u) PROVE DamageIsPruned'
    BY <1>4 DEF Name, SerialState, DamageIsPruned, pruner
<1>5. ASSUME NEW u \in Users, Stat(u) PROVE DamageIsPruned'
    BY <1>5 DEF Stat, SerialState, DamageIsPruned, pruner
<1>6. ASSUME NEW u \in Users, CloneBegins(u) PROVE DamageIsPruned'
    <2>1. u \in Acquiring /\ victims' = victims /\ removed' = removed
        BY <1>6 DEF CloneBegins, Acquiring, Making, pruner
    <2>2. \A q \in Paths : disk'[q] = disk[q] \/ disk'[q] = "cloning"
        BY <1>6 DEF CloneBegins, SerialState, TypeOK
    <2> QED
        BY <1>0, <2>1, <2>2 DEF DamageIsPruned, Damaged
<1>7. ASSUME NEW u \in Users, CloneEnds(u) PROVE DamageIsPruned'
    <2>1. u \in Acquiring /\ victims' = victims /\ removed' = removed
        BY <1>7 DEF CloneEnds, Acquiring, Making, pruner
    <2>2. \A q \in Paths : disk'[q] \in {disk[q], "clone", "absent"}
        BY <1>7 DEF CloneEnds, SerialState, TypeOK
    <2> QED
        BY <1>0, <2>1, <2>2 DEF DamageIsPruned, Damaged
<1>8. ASSUME NEW u \in Users, Insert(u) PROVE DamageIsPruned'
    <2>1. u \in Acquiring /\ victims' = victims /\ removed' = removed /\ disk' = disk
        BY <1>8 DEF Insert, Acquiring, Making, pruner
    <2> QED
        BY <1>0, <2>1 DEF DamageIsPruned
<1>9. ASSUME NEW u \in Users, AcquireFails(u) PROVE DamageIsPruned'
    BY <1>9 DEF AcquireFails, SerialState, DamageIsPruned, pruner
<1>10. ASSUME NEW u \in Users, Release(u) PROVE DamageIsPruned'
    <2>1. \A i \in Ids : rows'[i].repo = rows[i].repo /\ rows'[i].num = rows[i].num
        BY <1>10, ReleaseTurns DEF SerialState, Turns
    <2>2. victims' = victims /\ removed' = removed /\ disk' = disk
        BY <1>10 DEF Release, pruner
    <2>3. victims \subseteq Ids /\ removed \in Ids \cup {0}
        BY DEF SerialState, TypeOK
    <2> QED
        BY <2>1, <2>2, <2>3 DEF SerialState, DamageIsPruned
<1>11. ASSUME NEW u \in Users, ReleaseFails(u) PROVE DamageIsPruned'
    BY <1>11 DEF ReleaseFails, SerialState, DamageIsPruned, pruner
<1>12. ASSUME NEW j \in Ids, Ages(j) PROVE DamageIsPruned'
    <2>1. \A i \in Ids : rows'[i].repo = rows[i].repo /\ rows'[i].num = rows[i].num
        BY <1>12, AgesTurns DEF SerialState, Turns
    <2>2. victims' = victims /\ removed' = removed /\ disk' = disk
        BY <1>12 DEF Ages, pruner
    <2>3. victims \subseteq Ids /\ removed \in Ids \cup {0}
        BY DEF SerialState, TypeOK
    <2> QED
        BY <2>1, <2>2, <2>3 DEF SerialState, DamageIsPruned
<1>13. CASE PruneReads
    <2>1. victims = {} /\ disk' = disk /\ removed' = removed
        BY <1>13 DEF PruneReads
    <2> QED
        BY <1>0, <2>1 DEF DamageIsPruned
<1>14. CASE PruneRemoves
    <2>1. PICK i \in Ids :
              /\ removed' = i
              /\ disk' = [disk EXCEPT ![PathOf(i)] = "absent"]
        BY <1>14 DEF PruneRemoves
    <2> DEFINE p == <<rows[i].repo, rows[i].num>>
    <2>2. PathOf(i) = p /\ p \in Paths
        BY PathIsPlain, NamesArePaths DEF PathOf, SerialState
    <2>3. disk'[p] = "absent" /\ \A q \in Paths : q # p => disk'[q] = disk[q]
        BY <2>1, <2>2 DEF SerialState, TypeOK
    <2>4. rows' = rows /\ victims' = victims
        BY <1>14 DEF PruneRemoves
    <2> QED
        BY <2>1, <2>3, <2>4 DEF SerialState, DamageIsPruned, Damaged
<1>15. CASE PruneDeletes
    <2>1. /\ removed # 0 /\ removed' = 0 /\ disk' = disk
          /\ victims' = victims \ {removed}
        BY <1>15 DEF PruneDeletes
    <2>2. \A i \in Ids : rows'[i].repo = rows[i].repo /\ rows'[i].num = rows[i].num
        BY <1>15, PruneDeletesTurns DEF SerialState, Turns
    <2>3. \A q \in Paths : disk[q] \in Damaged =>
              \E i \in victims : i # removed /\ q = <<rows[i].repo, rows[i].num>>
        BY <2>1 DEF SerialState, DamageIsPruned, Damaged
    <2> QED
        BY <2>1, <2>2, <2>3 DEF SerialState, TypeOK, DamageIsPruned
<1>16. CASE PruneFails
    <2>1. \A i \in victims : disk[PathOf(i)] \notin Damaged
        BY <1>16 DEF PruneFails, Serial
    <2>2. \A i \in victims : PathOf(i) = <<rows[i].repo, rows[i].num>>
        BY PathIsPlain DEF PathOf, SerialState
    <2>3. \A q \in Paths : disk[q] \notin Damaged
        BY <2>1, <2>2 DEF SerialState, DamageIsPruned
    <2> QED
        BY <1>16, <2>3 DEF PruneFails, DamageIsPruned
<1>17. CASE Crash
    BY <1>17 DEF Crash, SerialState, Serial, TypeOK
<1>18. CASE UNCHANGED vars
    BY <1>18 DEF vars, SerialState, DamageIsPruned, pruner
<1>19. CASE PruneDamages
    <2>1. PICK i \in Ids, d \in Damaged :
              /\ i \in victims
              /\ disk' = [disk EXCEPT ![PathOf(i)] = d]
        BY <1>19 DEF PruneDamages, IsFirst
    <2> DEFINE p == <<rows[i].repo, rows[i].num>>
    <2>2. PathOf(i) = p /\ p \in Paths
        BY PathIsPlain, NamesArePaths DEF PathOf, SerialState
    <2>3. \A q \in Paths : q # p => disk'[q] = disk[q]
        BY <2>1, <2>2 DEF SerialState, TypeOK
    <2>4. rows' = rows /\ victims' = victims /\ removed' = removed /\ removed = 0
        BY <1>19 DEF PruneDamages, pruner
    <2> QED
        BY <2>1, <2>3, <2>4 DEF SerialState, DamageIsPruned
<1> QED
    BY <1>1, <1>2, <1>3, <1>4, <1>5, <1>6, <1>7, <1>8, <1>9, <1>10, <1>11,
       <1>12, <1>13, <1>14, <1>15, <1>16, <1>17, <1>18, <1>19
       DEF Next, UserStep, PruneStep

\* Every serial step leaves a clone wherever one was.
LEMMA ClonesStay ==
    SerialState /\ Serial' /\ [Next]_vars => DisksAreClones'
<1> SUFFICES ASSUME SerialState /\ Serial', [Next]_vars PROVE DisksAreClones'
    OBVIOUS
<1>1. ASSUME NEW u \in Users, List(u) PROVE DisksAreClones'
    BY <1>1 DEF List, SerialState, DisksAreClones
<1>2. ASSUME NEW u \in Users, Probe(u) PROVE DisksAreClones'
    BY <1>2 DEF Probe, SerialState, TypeOK, PlacesAgree, Serial, DisksAreClones
<1>3. ASSUME NEW u \in Users, Mark(u) PROVE DisksAreClones'
    <2>1. /\ pc[u] = "mark" /\ pc' = [pc EXCEPT ![u] = "using"]
          /\ num' = num /\ disk' = disk
        BY <1>3 DEF Mark
    <2>2. disk[<<rows[wsid[u]].repo, rows[wsid[u]].num>>] = "clone"
        BY <2>1 DEF SerialState, ReadsAreFresh
    <2>3. \A i \in Ids :
              /\ rows'[i].repo = rows[i].repo /\ rows'[i].num = rows[i].num
              /\ i # wsid[u] => rows'[i].status = rows[i].status
        BY <1>3, MarkTurns DEF SerialState, Turns
    <2>4. \A v \in Users : pc'[v] \in {"cloning", "insert"} <=>
                           pc[v] \in {"cloning", "insert"}
        BY <2>1 DEF SerialState, TypeOK
    <2>5. \A v \in Users : v # u => pc'[v] = pc[v]
        BY <2>1 DEF SerialState, TypeOK
    <2> QED
        BY <2>1, <2>2, <2>3 DEF SerialState, DisksAreClones
<1>4. ASSUME NEW u \in Users, Name(u) PROVE DisksAreClones'
    BY <1>4 DEF Name, SerialState, DisksAreClones
<1>5. ASSUME NEW u \in Users, Stat(u) PROVE DisksAreClones'
    <2>1. /\ pc[u] = "stat" /\ rows' = rows /\ disk' = disk /\ num' = num
          /\ pc' = [pc EXCEPT ![u] = IF Exists(PathFor(u)) THEN "insert" ELSE "clone"]
        BY <1>5 DEF Stat
    <2>2. Exists(PathFor(u)) => disk[<<RepoOf[u], num[u]>>] = "clone"
        <3>1. u \in Acquiring /\ pc[u] # "cloning"
            BY <2>1 DEF Acquiring, Making
        <3>2. <<RepoOf[u], num[u]>> \in Paths
            BY NamesArePaths DEF SerialState
        <3>3. PathFor(u) = <<RepoOf[u], num[u]>>
            BY PathIsPlain DEF PathFor, SerialState
        <3> QED
            BY <3>1, <3>2, <3>3, WhatExistsIsClone DEF Exists
    <2>3. \A v \in Users : v # u => pc'[v] = pc[v]
        BY <2>1 DEF SerialState, TypeOK
    <2>4. pc'[u] # "cloning" /\ (pc'[u] = "insert" => Exists(PathFor(u)))
        BY <2>1 DEF SerialState, TypeOK
    <2> QED
        BY <2>1, <2>2 DEF SerialState, DisksAreClones
<1>6. ASSUME NEW u \in Users, CloneBegins(u) PROVE DisksAreClones'
    <2> DEFINE p == <<RepoOf[u], num[u]>>
    <2>1. pc[u] = "clone" /\ rows' = rows /\ PathFor(u) = p /\ p \in Paths
        BY <1>6, PathIsPlain, NamesArePaths
           DEF CloneBegins, PathFor, SerialState
    <2>2. u \in Making /\ \A v \in Users : v # u => v \notin Acquiring
        BY <2>1 DEF Making, Acquiring, SerialState, OneAtATime
    <2>3. \A i \in Ids : rows[i].status = "busy" =>
              /\ <<rows[i].repo, rows[i].num>> # p
              /\ <<rows[i].repo, rows[i].num>> \in Paths
        BY <2>2, NamesArePaths DEF SerialState, NamesAreFree, Live
    <2>4. CASE Forget(u) /\ disk' = disk
        BY <2>1, <2>4, UserForgets DEF SerialState, DisksAreClones
    <2>5. CASE /\ disk' = [disk EXCEPT ![PathFor(u)] = "cloning"]
               /\ pc' = [pc EXCEPT ![u] = "cloning"] /\ num' = num
        <3>1. /\ disk'[p] = "cloning"
              /\ \A q \in Paths : q # p => disk'[q] = disk[q]
            BY <2>1, <2>5 DEF SerialState, TypeOK
        <3>2. /\ pc'[u] = "cloning"
              /\ \A v \in Users : v # u => pc'[v] = pc[v]
            BY <2>5 DEF SerialState, TypeOK
        <3>3. \A v \in Users : pc'[v] # "insert" /\ (v # u => pc[v] # "cloning")
            BY <3>2, <2>2 DEF Acquiring, Making
        <3> HIDE DEF p
        <3>5. \A q \in Paths : disk'[q] = "cloning" => q = p
            BY <3>1, <3>3, <2>1 DEF SerialState, DisksAreClones
        <3>6. \A i \in Ids : rows'[i].status = "busy" =>
                  disk'[<<rows'[i].repo, rows'[i].num>>] = "clone"
            BY <3>1, <2>1, <2>3 DEF SerialState, DisksAreClones
        <3> QED
            BY <3>2, <3>3, <3>5, <3>6, <2>5 DEF DisksAreClones, p
    <2> QED
        BY <1>6, <2>4, <2>5 DEF CloneBegins
<1>7. ASSUME NEW u \in Users, CloneEnds(u) PROVE DisksAreClones'
    <2> DEFINE p == <<RepoOf[u], num[u]>>
    <2>1. pc[u] = "cloning" /\ rows' = rows /\ PathFor(u) = p /\ p \in Paths
        BY <1>7, PathIsPlain, NamesArePaths DEF CloneEnds, PathFor, SerialState
    <2>2. u \in Making /\ \A v \in Users : v # u => v \notin Acquiring
        BY <2>1 DEF Making, Acquiring, SerialState, OneAtATime
    <2>3. \A i \in Ids : rows[i].status = "busy" =>
              /\ <<rows[i].repo, rows[i].num>> # p
              /\ <<rows[i].repo, rows[i].num>> \in Paths
        BY <2>2, NamesArePaths DEF SerialState, NamesAreFree, Live
    <2>4. \A q \in Paths : q # p => disk[q] # "cloning"
        BY <2>2 DEF SerialState, DisksAreClones, Acquiring, Making
    <2>5. PICK s \in {"clone", "absent"} :
              /\ disk' = [disk EXCEPT ![PathFor(u)] = s]
              /\ \/ s = "absent" /\ Forget(u)
                 \/ /\ s = "clone" /\ num' = num
                    /\ pc' = [pc EXCEPT ![u] = "insert"]
        BY <1>7 DEF CloneEnds
    <2>6. disk'[p] = s /\ \A q \in Paths : q # p => disk'[q] = disk[q]
        BY <2>1, <2>5 DEF SerialState, TypeOK
    <2>7. \A v \in Users : pc'[v] = "insert" => v = u /\ s = "clone" /\ num'[u] = num[u]
        BY <2>2, <2>5, UserForgets DEF SerialState, TypeOK, Acquiring, Making
    <2> HIDE DEF p
    <2>8. \A q \in Paths : disk'[q] # "cloning"
        BY <2>4, <2>6
    <2>9. \A i \in Ids : rows'[i].status = "busy" =>
              disk'[<<rows'[i].repo, rows'[i].num>>] = "clone"
        BY <2>1, <2>3, <2>6 DEF SerialState, DisksAreClones
    <2> QED
        BY <2>6, <2>7, <2>8, <2>9 DEF DisksAreClones, p
<1>8. ASSUME NEW u \in Users, Insert(u) PROVE DisksAreClones'
    BY <1>8 DEF Insert, SerialState, TypeOK, DisksAreClones
<1>9. ASSUME NEW u \in Users, AcquireFails(u) PROVE DisksAreClones'
    BY <1>9 DEF AcquireFails, SerialState, TypeOK, DisksAreClones, Forget
<1>10. ASSUME NEW u \in Users, Release(u) PROVE DisksAreClones'
    <2>1. Forget(u) /\ disk' = disk /\ victims' = victims
        BY <1>10 DEF Release, pruner
    <2>2. \A i \in Ids : \/ rows'[i].status = "idle"
                         \/ rows'[i].status = rows[i].status
        BY <1>10, ReleaseTurns DEF SerialState, Turns, Live
    <2>3. /\ Live' = Live
          /\ \A i \in Ids : rows'[i].repo = rows[i].repo /\ rows'[i].num = rows[i].num
        BY <1>10, ReleaseTurns DEF SerialState, Turns
    <2>4. \A v \in Users : /\ pc'[v] \in {"cloning", "insert"} => num'[v] = num[v]
                           /\ pc'[v] = "insert" => pc[v] = "insert"
                           /\ pc[v] = "cloning" => pc'[v] = "cloning"
        BY <1>10, <2>1, UserForgets DEF Release, SerialState
    <2> QED
        BY <2>1, <2>2, <2>3, <2>4 DEF SerialState, DisksAreClones
<1>11. ASSUME NEW u \in Users, ReleaseFails(u) PROVE DisksAreClones'
    BY <1>11 DEF ReleaseFails, SerialState, Serial, TypeOK
<1>12. ASSUME NEW i \in Ids, Ages(i) PROVE DisksAreClones'
    BY <1>12, AgesTurns
       DEF Ages, SerialState, PlacesAgree, DisksAreClones, ReadsAreFresh, Live,
           users
<1>13. CASE PruneReads
    BY <1>13 DEF PruneReads, SerialState, DisksAreClones, users
<1>14. CASE PruneRemoves
    <2>1. PICK i \in Ids : /\ i \in victims
                           /\ disk' = [disk EXCEPT ![PathOf(i)] = "absent"]
        BY <1>14 DEF PruneRemoves, IsFirst
    <2> DEFINE p == <<rows[i].repo, rows[i].num>>
    <2>2. PathOf(i) = p /\ p \in Paths
        BY PathIsPlain, NamesArePaths DEF PathOf, SerialState
    <2>3. disk'[p] = "absent" /\ \A q \in Paths : q # p => disk'[q] = disk[q]
        BY <2>1, <2>2 DEF SerialState, TypeOK
    <2>4. rows' = rows /\ pc' = pc /\ num' = num
        BY <1>14 DEF PruneRemoves, users
    <2>5. \A u \in Users : pc[u] \notin {"cloning", "insert"}
        BY <2>1 DEF SerialState, OneAtATime, Acquiring, Making
    <2>6. rows[i].status = "idle"
        BY <2>1 DEF SerialState, ReadsAreFresh
    <2>7. \A j \in Ids : rows[j].status = "busy" =>
              /\ <<rows[j].repo, rows[j].num>> # p
              /\ <<rows[j].repo, rows[j].num>> \in Paths
        BY <2>6, NamesArePaths DEF SerialState, NamesAreUnique, Live
    <2> HIDE DEF p
    <2> QED
        BY <2>3, <2>4, <2>5, <2>7 DEF SerialState, DisksAreClones
<1>19. CASE PruneDamages
    <2>1. PICK i \in Ids, d \in Damaged :
              /\ i \in victims
              /\ disk' = [disk EXCEPT ![PathOf(i)] = d]
        BY <1>19 DEF PruneDamages, IsFirst
    <2> DEFINE p == <<rows[i].repo, rows[i].num>>
    <2>2. PathOf(i) = p /\ p \in Paths
        BY PathIsPlain, NamesArePaths DEF PathOf, SerialState
    <2>3. disk'[p] = d /\ \A q \in Paths : q # p => disk'[q] = disk[q]
        BY <2>1, <2>2 DEF SerialState, TypeOK
    <2>4. rows' = rows /\ pc' = pc /\ num' = num
        BY <1>19 DEF PruneDamages, users
    <2>5. \A u \in Users : pc[u] \notin {"cloning", "insert"}
        BY <2>1 DEF SerialState, OneAtATime, Acquiring, Making
    <2>6. rows[i].status = "idle"
        BY <2>1 DEF SerialState, ReadsAreFresh
    <2>7. \A j \in Ids : rows[j].status = "busy" =>
              /\ <<rows[j].repo, rows[j].num>> # p
              /\ <<rows[j].repo, rows[j].num>> \in Paths
        BY <2>6, NamesArePaths DEF SerialState, NamesAreUnique, Live
    <2> HIDE DEF p
    <2> QED
        BY <2>1, <2>3, <2>4, <2>5, <2>7 DEF SerialState, DisksAreClones, Damaged
<1>15. CASE PruneDeletes
    BY <1>15
       DEF PruneDeletes, SerialState, TypeOK, PlacesAgree, OneAtATime,
           DisksAreClones, Acquiring, Making, users
<1>16. CASE PruneFails
    BY <1>16 DEF PruneFails, SerialState, DisksAreClones, users
<1>17. CASE Crash
    BY <1>17 DEF Crash, SerialState, Serial, TypeOK
<1>18. CASE UNCHANGED vars
    BY <1>18 DEF vars, SerialState, DisksAreClones, users
<1> QED
    BY <1>1, <1>2, <1>3, <1>4, <1>5, <1>6, <1>7, <1>8, <1>9, <1>10, <1>11,
       <1>12, <1>13, <1>14, <1>15, <1>16, <1>17, <1>18, <1>19
       DEF Next, UserStep, PruneStep

\* Every serial step leaves each workspace in use to its one user.
LEMMA HoldersStay ==
    SerialState /\ Serial' /\ [Next]_vars => UsersHoldTheirs'
<1> SUFFICES ASSUME SerialState /\ Serial', [Next]_vars PROVE UsersHoldTheirs'
    OBVIOUS
<1>1. ASSUME NEW u \in Users, List(u) PROVE UsersHoldTheirs'
    BY <1>1 DEF List, SerialState, UsersHoldTheirs, Using
<1>2. ASSUME NEW u \in Users, Probe(u) PROVE UsersHoldTheirs'
    BY <1>2 DEF Probe, SerialState, TypeOK, UsersHoldTheirs, Using
<1>3. ASSUME NEW u \in Users, Mark(u) PROVE UsersHoldTheirs'
    <2>1. /\ pc[u] = "mark" /\ pc' = [pc EXCEPT ![u] = "using"]
          /\ wsid' = wsid
        BY <1>3 DEF Mark
    <2>2. rows[wsid[u]].status = "idle" /\ wsid[u] \in Ids
        BY <2>1, MarkTurns, <1>3 DEF SerialState, ReadsAreFresh
    <2>3. wsid[u] \in Live
        BY <2>2 DEF Live
    <2>4. /\ rows'[wsid[u]].status = "busy"
          /\ \A i \in Ids : i # wsid[u] => rows'[i].status = rows[i].status
        BY <2>3, <1>3, MarkTurns DEF SerialState, Turns
    <2>5. Using' = Using \cup {u}
        BY <2>1 DEF SerialState, TypeOK, Using
    <2>6. \A v \in Using : wsid[v] # wsid[u] /\ wsid[v] \in Ids
        BY <2>2 DEF SerialState, UsersHoldTheirs, TypeOK, PlacesAgree, Using
    <2> QED
        BY <2>1, <2>4, <2>5, <2>6 DEF SerialState, UsersHoldTheirs
<1>4. ASSUME NEW u \in Users, Name(u) PROVE UsersHoldTheirs'
    BY <1>4 DEF Name, SerialState, UsersHoldTheirs, Using
<1>5. ASSUME NEW u \in Users, Stat(u) PROVE UsersHoldTheirs'
    BY <1>5 DEF Stat, SerialState, UsersHoldTheirs, Using
<1>6. ASSUME NEW u \in Users, CloneBegins(u) PROVE UsersHoldTheirs'
    BY <1>6 DEF CloneBegins, SerialState, TypeOK, UsersHoldTheirs, Forget, Using
<1>7. ASSUME NEW u \in Users, CloneEnds(u) PROVE UsersHoldTheirs'
    BY <1>7 DEF CloneEnds, SerialState, TypeOK, UsersHoldTheirs, Forget, Using
<1>8. ASSUME NEW u \in Users, Insert(u) PROVE UsersHoldTheirs'
    BY <1>8 DEF Insert, SerialState, TypeOK, UsersHoldTheirs, Using
<1>9. ASSUME NEW u \in Users, AcquireFails(u) PROVE UsersHoldTheirs'
    BY <1>9 DEF AcquireFails, SerialState, UsersHoldTheirs, Forget, Using
<1>10. ASSUME NEW u \in Users, Release(u) PROVE UsersHoldTheirs'
    <2>1. Forget(u) /\ disk' = disk /\ victims' = victims
        BY <1>10 DEF Release, pruner
    <2>2. \A i \in Ids : \/ rows'[i].status = "idle"
                         \/ rows'[i].status = rows[i].status
        BY <1>10, ReleaseTurns DEF SerialState, Turns, Live
    <2>3. /\ Live' = Live
          /\ \A i \in Ids : rows'[i].repo = rows[i].repo /\ rows'[i].num = rows[i].num
        BY <1>10, ReleaseTurns DEF SerialState, Turns
    <2>4. /\ u \in Using
          /\ Using' = Using \ {u}
          /\ \A v \in Using' : wsid'[v] = wsid[v]
        BY <1>10, UserForgets DEF Release, SerialState, Using
    <2>5. \A v \in Using' : wsid[v] # wsid[u] /\ wsid[v] \in Ids
        BY <2>4 DEF SerialState, UsersHoldTheirs, TypeOK, PlacesAgree, Using
    <2>6. \A v \in Using' : rows'[wsid[v]].status = "busy"
        BY <2>4, <2>5, <1>10, ReleaseTurns
           DEF SerialState, UsersHoldTheirs, Turns
    <2> QED
        BY <2>4, <2>6 DEF SerialState, UsersHoldTheirs
<1>11. ASSUME NEW u \in Users, ReleaseFails(u) PROVE UsersHoldTheirs'
    BY <1>11 DEF ReleaseFails, SerialState, Serial, TypeOK
<1>12. ASSUME NEW i \in Ids, Ages(i) PROVE UsersHoldTheirs'
    BY <1>12 DEF Ages, SerialState, UsersHoldTheirs, Using, users
<1>13. CASE PruneReads
    BY <1>13 DEF PruneReads, SerialState, UsersHoldTheirs, Using, users
<1>14. CASE PruneRemoves
    BY <1>14 DEF PruneRemoves, SerialState, UsersHoldTheirs, Using, users
<1>19. CASE PruneDamages
    BY <1>19 DEF PruneDamages, SerialState, UsersHoldTheirs, Using, users
<1>15. CASE PruneDeletes
    BY <1>15
       DEF PruneDeletes, SerialState, TypeOK, PlacesAgree, UsersHoldTheirs,
           ReadsAreFresh, Using, users
<1>16. CASE PruneFails
    BY <1>16 DEF PruneFails, SerialState, UsersHoldTheirs, Using, users
<1>17. CASE Crash
    BY <1>17 DEF Crash, SerialState, Serial, TypeOK
<1>18. CASE UNCHANGED vars
    BY <1>18 DEF vars, SerialState, UsersHoldTheirs, Using, users
<1> QED
    BY <1>1, <1>2, <1>3, <1>4, <1>5, <1>6, <1>7, <1>8, <1>9, <1>10, <1>11,
       <1>12, <1>13, <1>14, <1>15, <1>16, <1>17, <1>18, <1>19
       DEF Next, UserStep, PruneStep

\* What an acquisition relies on stays so in a serial history.
LEMMA SoundStays ==
    Twins = {} /\ TypeOK /\ PlacesAgree /\ NamesAreUnique /\ SerialIsSound
        /\ [Next]_vars => SerialIsSound'
<1> SUFFICES ASSUME Twins = {}, TypeOK, PlacesAgree, NamesAreUnique,
                    SerialIsSound, [Next]_vars, Serial'
             PROVE  /\ OneAtATime' /\ ReadsAreFresh' /\ NamesAreFree'
                    /\ DamageIsPruned' /\ DisksAreClones' /\ UsersHoldTheirs'
    BY DEF SerialIsSound
<1>1. Serial
    BY SerialBefore
<1>2. SerialState
    BY <1>1 DEF SerialIsSound, SerialState
<1> QED
    BY <1>2, OneStays, ReadsStay, FreeStay, DamageStays, ClonesStay,
       HoldersStay

----------------------------------------------------------------------------
\* The invariant and what follows

LEMMA InitHolds == Init => IInv
<1> SUFFICES ASSUME Init PROVE IInv
    OBVIOUS
<1>1. TypeOK
    <2> DEFINE r == CHOOSE r \in Repos : TRUE
    <2>1. r \in Repos /\ 0 \in Numbers /\ 0 \in 0..MaxFaults
        BY ReposAssumption, BoundsAssumption DEF Numbers
    <2>2. rows = [i \in Ids |-> [repo |-> r, num |-> 0, status |-> "none",
                                old |-> FALSE]]
        BY DEF Init
    <2> HIDE DEF r
    <2>3. TablesTyped
        <3>1. [repo |-> r, num |-> 0, status |-> "none", old |-> FALSE] \in Row
            BY <2>1 DEF Row
        <3>2. disk \in [Paths -> Disk]
            BY DEF Init, Disk, Damaged
        <3> QED
            BY <2>2, <3>1, <3>2 DEF TablesTyped
    <2>4. UsersTyped
        BY <2>1 DEF Init, UsersTyped
    <2>5. RestTyped
        BY <2>1 DEF Init, RestTyped
    <2>6. overlapped \in BOOLEAN /\ halfRemoved \in BOOLEAN
        BY Zenon DEF Init
    <2> QED
        BY <2>3, <2>4, <2>5, <2>6 DEF TypeOK, TablesTyped, UsersTyped, RestTyped
<1>2. PlacesAgree
    BY DEF Init, PlacesAgree
<1>3. BusyIsHeld /\ NamesAreUnique
    BY DEF Init, BusyIsHeld, NamesAreUnique, Live
<1>4. OrphansKeepNames
    BY DEF Init, OrphansKeepNames
<1>5. SerialIsSound
    BY DEF Init, SerialIsSound, OneAtATime, ReadsAreFresh, NamesAreFree,
           DamageIsPruned, DisksAreClones, UsersHoldTheirs, Damaged, Acquiring,
           Making, Using
<1> QED
    BY <1>1, <1>2, <1>3, <1>4, <1>5 DEF IInv

LEMMA StepHolds == IInv /\ [Next]_vars => IInv'
BY TypesStay, PlacesStay, BusyStays, NamesStay, OrphansStay, SoundStays DEF IInv

LEMMA Always == Spec => []IInv
BY InitHolds, StepHolds, PTL DEF Spec

\* Types: in particular every directory is at a path of the pool, and every
\* program counter is at a step of acquireWorkspace.
THEOREM TypesAreKept == Spec => []TypeOK
<1>1. IInv => TypeOK
    BY DEF IInv
<1> QED
    BY <1>1, Always, PTL

\* A row is busy only while somebody has it to give back, however many
\* acquire at once and whatever the pruner deletes, unless a release failed or
\* the daemon died.
THEOREM NoRowStaysBusy == Spec => []BusyIsHeld
<1>1. IInv => BusyIsHeld
    BY DEF IInv
<1> QED
    BY <1>1, Always, PTL

\* Without twins, what was busy when the daemon died is never offered, marked,
\* named again or pruned, for any number of crashes and users.
THEOREM OrphansAreSafe ==
    ASSUME Twins = {}
    PROVE  Spec => []OrphansAreLeftAlone
<1>1. IInv => OrphansAreLeftAlone
    <2> SUFFICES ASSUME IInv, NEW i \in orphans, NEW u \in Users
                 PROVE  /\ rows[i].status = "busy" /\ i \notin victims
                        /\ i \notin cand[u] /\ wsid[u] # i
                        /\ u \in Making => PathFor(u) # PathOf(i)
        BY DEF OrphansAreLeftAlone, IInv, OrphansKeepNames
    <2>1. /\ PathFor(u) = <<RepoOf[u], num[u]>>
          /\ PathOf(i) = <<rows[i].repo, rows[i].num>>
        BY PathIsPlain DEF PathFor, PathOf
    <2> QED
        BY <2>1 DEF IInv, OrphansKeepNames
<1> QED
    BY <1>1, Always, PTL

\* Without twins, as long as acquisitions and prunings keep apart, no fault has
\* happened and no pruning has left a directory half removed, a workspace in use
\* is busy, is a clone and has one user, whatever acquisitions failed before,
\* whatever directories they left, and although prunings go through directories
\* step by step and may fail before or after.
THEOREM SerialUseIsSound ==
    ASSUME Twins = {}
    PROVE  Spec => []SerialPoolIsSound
<1>1. IInv => SerialPoolIsSound
    <2> SUFFICES ASSUME IInv, Serial, NEW u \in Using
                 PROVE  /\ rows[wsid[u]].status = "busy"
                        /\ disk[PathOf(wsid[u])] = "clone"
                        /\ \A v \in Using :
                               PathOf(wsid[v]) = PathOf(wsid[u]) => v = u
        BY DEF SerialPoolIsSound, Serial
    <2>1. \A v \in Using : rows[wsid[v]].status = "busy" /\ wsid[v] \in Ids
        BY DEF IInv, SerialIsSound, UsersHoldTheirs, TypeOK, PlacesAgree, Using
    <2>2. \A v \in Using :
              PathOf(wsid[v]) = <<rows[wsid[v]].repo, rows[wsid[v]].num>>
        BY PathIsPlain DEF PathOf
    <2>3. disk[PathOf(wsid[u])] = "clone"
        BY <2>1, <2>2 DEF IInv, SerialIsSound, DisksAreClones
    <2>4. ASSUME NEW v \in Using, PathOf(wsid[v]) = PathOf(wsid[u])
          PROVE  v = u
        <3>1. wsid[v] \in Live /\ wsid[u] \in Live
            BY <2>1 DEF Live
        <3>2. wsid[v] = wsid[u]
            BY <2>2, <2>4, <3>1 DEF IInv, NamesAreUnique
        <3> QED
            BY <3>2 DEF IInv, SerialIsSound, UsersHoldTheirs
    <2> QED
        BY <2>1, <2>3, <2>4
<1> QED
    BY <1>1, Always, PTL

====

---- MODULE DispatchProofs ----
(***************************************************************************)
(* Proofs about Dispatch, for any number of refs, commits, pushes, retries *)
(* and faults, any queue, any limits and any set of what cannot be built.  *)
(***************************************************************************)
EXTENDS Dispatch, FunctionTheorems, FiniteSetTheorems, SequenceTheorems, TLAPS

----------------------------------------------------------------------------
\* The inductive invariant

\* The counter that Start compares with the limit is the number of goroutines.
RunningCounts == running = Cardinality(Live)

\* What the poller has left is one job of its own per ref, and nothing when it
\* is idle.
TodoIsOrderly ==
    /\ poller = "idle" => todo = {}
    /\ \A j \in todo : j.by = "poll"
    /\ \A j, k \in todo : j.ref = k.ref => j = k

\* The job whose ref is about to be advanced has been sent.
AdvancedIsSent ==
    faults = 0 /\ poller = "advance" =>
        \A j \in todo : IsTurn(j) =>
            \E k \in Sent : k.ref = j.ref /\ k.sha = j.sha

RetriesAreMarked == \A i \in DOMAIN retrying : retrying[i].by = "retry"

\* Refs with a job that is still to be sent.
Waiting ==
    {r \in Refs : \E j \in todo :
                      j.ref = r /\ ~(poller = "advance" /\ IsTurn(j))}

\* Refs that a later scan has to look at: the tip is neither the commit of the
\* job the poller has for it nor, without a job, the recorded one.
Behind ==
    {r \in Refs :
        \/ \E j \in todo : j.ref = r /\ j.sha # tip[r]
        \/ (\A j \in todo : j.ref # r) /\ refSHA[r] # tip[r]}

Polled == ByPoll(queue) + ByPoll(taken) + ByPoll(JobsOf(builds))
Retried == ByRetry(queue) + ByRetry(taken) + ByRetry(JobsOf(builds))

\* Every push pays for one job: one that was sent, one that is to be sent, or
\* one that a later scan will find.  A fault pays for the job that was sent
\* and whose ref was not advanced.
PushesPay ==
    Polled + Cardinality(Waiting) + Cardinality(Behind) <= pushes + faults

\* A request pays for one job, sent or about to be.
RetriesPay == Retried + Len(retrying) <= retries

IInv ==
    /\ TypeOK
    /\ RunningCounts
    /\ UnfinishedIsLive
    /\ TodoIsOrderly
    /\ AdvancedIsSent
    /\ RefsFollowQueue
    /\ RetriesAreMarked
    /\ PushesPay
    /\ RetriesPay

----------------------------------------------------------------------------
\* Sequences of jobs and how many of them are the poller's

\* The places of the poller's jobs in s.
Polls(s) == {i \in DOMAIN s : s[i].by = "poll"}

LEMMA PollsAreFinite ==
    ASSUME NEW s \in Seq(Job)
    PROVE  IsFiniteSet(Polls(s)) /\ ByPoll(s) \in Nat
           /\ ByPoll(s) = Cardinality(Polls(s))
<1>1. DOMAIN s = 1..Len(s) /\ Len(s) \in Nat
    BY LenProperties
<1>2. IsFiniteSet(1..Len(s))
    BY <1>1, FS_Interval
<1>3. IsFiniteSet(Polls(s))
    BY <1>1, <1>2, FS_Subset DEF Polls
<1>4. ByPoll(s) = Cardinality(Polls(s))
    BY DEF ByPoll, Polls
<1> QED
    BY <1>3, <1>4, FS_CardinalityType

LEMMA NoPolls == ByPoll(<<>>) = 0
<1>1. {i \in DOMAIN <<>> : <<>>[i].by = "poll"} = {}
    OBVIOUS
<1> QED
    BY <1>1, FS_EmptySet DEF ByPoll

\* How much job j counts.
Counts(j) == IF j.by = "poll" THEN 1 ELSE 0

LEMMA PollsOfOne ==
    ASSUME NEW j \in Job
    PROVE  ByPoll(<<j>>) = Counts(j)
<1>1. Polls(<<j>>) = IF j.by = "poll" THEN {1} ELSE {}
    BY DEF Polls
<1> QED
    BY <1>1, FS_EmptySet, FS_Singleton DEF ByPoll, Polls, Counts

LEMMA PollsOfAppend ==
    ASSUME NEW s \in Seq(Job), NEW j \in Job
    PROVE  ByPoll(Append(s, j)) = ByPoll(s) + Counts(j)
<1> DEFINE t == Append(s, j)
<1>1. /\ t \in Seq(Job) /\ Len(s) \in Nat /\ Len(t) = Len(s) + 1
      /\ t[Len(s) + 1] = j /\ \A i \in 1..Len(s) : t[i] = s[i]
      /\ DOMAIN s = 1..Len(s) /\ DOMAIN t = 1..(Len(s) + 1)
    BY AppendProperties, LenProperties
<1> HIDE DEF t
<1>2. Polls(t) = IF j.by = "poll" THEN Polls(s) \cup {Len(s) + 1} ELSE Polls(s)
    BY <1>1 DEF Polls
<1>3. Len(s) + 1 \notin Polls(s)
    BY <1>1 DEF Polls
<1>4. /\ IsFiniteSet(Polls(s))
      /\ ByPoll(s) = Cardinality(Polls(s))
      /\ ByPoll(s) \in Nat
    BY PollsAreFinite
<1>5. ByPoll(t) = Cardinality(Polls(t))
    BY <1>1, PollsAreFinite
<1>6. Cardinality(Polls(s) \cup {Len(s) + 1}) = Cardinality(Polls(s)) + 1
    BY <1>3, <1>4, FS_AddElement
<1> QED
    BY <1>2, <1>4, <1>5, <1>6 DEF Counts, t

LEMMA PollsOfTail ==
    ASSUME NEW s \in Seq(Job), s # <<>>
    PROVE  ByPoll(s) = ByPoll(Tail(s)) + Counts(Head(s))
<1> DEFINE t == Tail(s)
           f == [i \in Polls(t) |-> i + 1]
           rest == Polls(s) \ {1}
<1>1. /\ t \in Seq(Job) /\ Len(s) \in Nat \ {0} /\ Len(t) = Len(s) - 1
      /\ DOMAIN s = 1..Len(s) /\ DOMAIN t = 1..Len(t)
      /\ \A i \in 1..Len(t) : t[i] = s[i + 1]
      /\ Head(s) = s[1]
    BY HeadTailProperties, LenProperties, EmptySeq
<1> HIDE DEF t
<1>2. \A i \in Polls(t) : i \in Nat /\ i + 1 \in rest
    BY <1>1 DEF Polls
<1>3. \A k \in rest : k - 1 \in Polls(t) /\ k \in Nat
    BY <1>1 DEF Polls
<1>4. f \in Bijection(Polls(t), rest)
    <2>1. f \in [Polls(t) -> rest]
        BY <1>2
    <2>2. \A i, k \in Polls(t) : f[i] = f[k] => i = k
        BY <1>2
    <2>3. \A k \in rest : \E i \in Polls(t) : f[i] = k
        BY <1>3
    <2> HIDE DEF f, rest
    <2> QED
        BY <2>1, <2>2, <2>3, Fun_IsBij
<1>5. IsFiniteSet(Polls(t)) /\ ByPoll(t) = Cardinality(Polls(t))
      /\ IsFiniteSet(Polls(s)) /\ ByPoll(s) = Cardinality(Polls(s))
      /\ ByPoll(s) \in Nat /\ ByPoll(t) \in Nat
    BY <1>1, PollsAreFinite
<1>6. Cardinality(rest) = Cardinality(Polls(t))
    BY <1>4, <1>5, FS_Bijection DEF ExistsBijection
<1>7. Cardinality(rest) = IF 1 \in Polls(s) THEN Cardinality(Polls(s)) - 1
                                            ELSE Cardinality(Polls(s))
    BY <1>5, FS_RemoveElement
<1>8. 1 \in Polls(s) <=> Head(s).by = "poll"
    BY <1>1 DEF Polls
<1> QED
    BY <1>5, <1>6, <1>7, <1>8 DEF Counts, t

\* What is not the poller's is a retry.
LEMMA RetriesAreTheRest ==
    ASSUME NEW s \in Seq(Job)
    PROVE  ByRetry(s) = Len(s) - ByPoll(s) /\ ByRetry(s) \in Nat
<1> DEFINE all == 1..Len(s)
<1>1. /\ Len(s) \in Nat /\ DOMAIN s = all
      /\ \A i \in all : s[i].by \in {"poll", "retry"}
    <2>1. Len(s) \in Nat /\ DOMAIN s = all
        BY LenProperties
    <2>2. \A i \in all : s[i] \in Job
        BY ElementOfSeq
    <2> QED
        BY <2>1, <2>2 DEF Job
<1>2. IsFiniteSet(all) /\ Cardinality(all) = Len(s)
    <2>1. /\ IsFiniteSet(1..Len(s))
          /\ Cardinality(1..Len(s)) = IF 1 > Len(s) THEN 0 ELSE Len(s) - 1 + 1
        BY <1>1, FS_Interval
    <2> QED
        BY <1>1, <2>1
<1>3. {i \in DOMAIN s : s[i].by = "retry"} = all \ Polls(s) /\ all \cap Polls(s) = Polls(s)
    BY <1>1 DEF Polls
<1> HIDE DEF all
<1>4. /\ IsFiniteSet(all \ Polls(s))
      /\ Cardinality(all \ Polls(s)) = Cardinality(all) - Cardinality(all \cap Polls(s))
    BY <1>2, FS_Difference
<1>5. ByRetry(s) = Cardinality(all \ Polls(s))
    BY <1>3 DEF ByRetry
<1>6. ByRetry(s) \in Nat
    BY <1>4, <1>5, FS_CardinalityType
<1> QED
    BY <1>2, <1>3, <1>4, <1>5, <1>6, PollsAreFinite

LEMMA NoRetries == ByRetry(<<>>) = 0
<1>1. {i \in DOMAIN <<>> : <<>>[i].by = "retry"} = {}
    OBVIOUS
<1> QED
    BY <1>1, FS_EmptySet DEF ByRetry

LEMMA RetriesOfOne ==
    ASSUME NEW j \in Job
    PROVE  ByRetry(<<j>>) = 1 - Counts(j)
<1>1. <<j>> \in Seq(Job) /\ Len(<<j>>) = 1
    OBVIOUS
<1> QED
    BY <1>1, RetriesAreTheRest, PollsOfOne

LEMMA RetriesOfAppend ==
    ASSUME NEW s \in Seq(Job), NEW j \in Job
    PROVE  ByRetry(Append(s, j)) = ByRetry(s) + 1 - Counts(j)
<1>1. /\ Append(s, j) \in Seq(Job) /\ Len(Append(s, j)) = Len(s) + 1
      /\ Len(s) \in Nat
    BY AppendProperties, LenProperties
<1>2. /\ ByRetry(s) = Len(s) - ByPoll(s)
      /\ ByRetry(Append(s, j)) = Len(Append(s, j)) - ByPoll(Append(s, j))
    BY <1>1, RetriesAreTheRest
<1>3. ByPoll(Append(s, j)) = ByPoll(s) + Counts(j) /\ ByPoll(s) \in Nat
    BY PollsOfAppend, PollsAreFinite
<1>4. Counts(j) \in Nat
    BY DEF Counts
<1> QED
    BY <1>1, <1>2, <1>3, <1>4

LEMMA RetriesOfTail ==
    ASSUME NEW s \in Seq(Job), s # <<>>
    PROVE  ByRetry(s) = ByRetry(Tail(s)) + 1 - Counts(Head(s))
<1>1. /\ Tail(s) \in Seq(Job) /\ Len(Tail(s)) = Len(s) - 1
      /\ Len(s) \in Nat
    BY HeadTailProperties, LenProperties
<1>2. /\ ByRetry(s) = Len(s) - ByPoll(s)
      /\ ByRetry(Tail(s)) = Len(Tail(s)) - ByPoll(Tail(s))
    BY <1>1, RetriesAreTheRest
<1>3. ByPoll(s) = ByPoll(Tail(s)) + Counts(Head(s)) /\ ByPoll(Tail(s)) \in Nat
    BY <1>1, PollsOfTail, PollsAreFinite
<1>4. Counts(Head(s)) \in Nat
    BY DEF Counts
<1> QED
    BY <1>1, <1>2, <1>3, <1>4

\* A sequence of at most one element is its head.
LEMMA OneIsHead ==
    ASSUME NEW s \in Seq(Job), Len(s) <= 1, s # <<>>
    PROVE  s = <<Head(s)>> /\ Head(s) \in Job
<1>1. Len(s) = 1
    <2>1. Len(s) \in Nat \ {0}
        BY EmptySeq
    <2>2. \A n \in Nat \ {0} : n <= 1 => n = 1
        OBVIOUS
    <2> QED
        BY <2>1, <2>2
<1>2. /\ <<Head(s)>> \in Seq(Job) /\ Head(s) \in Job
    BY HeadTailProperties
<1>3. Head(s) = s[1]
    BY <1>1
<1> QED
    BY <1>1, <1>2, <1>3, SeqEqual

----------------------------------------------------------------------------
\* How the steps change the table of builds

\* The rows and their jobs stay.
KeepsJobs ==
    /\ builds' \in Seq(Build)
    /\ Len(builds') = Len(builds)
    /\ \A i \in Ids : builds'[i].job = builds[i].job

\* Row i gets state s.
Becomes(i, s) ==
    /\ KeepsJobs
    /\ \A k \in Ids : /\ builds'[k].live = builds[k].live
                      /\ builds'[k].state = IF k = i THEN s ELSE builds[k].state

\* The goroutine of build i is over.
Ends(i) ==
    /\ KeepsJobs
    /\ \A k \in Ids : /\ builds'[k].state = builds[k].state
                      /\ k # i => builds'[k].live = builds[k].live
    /\ ~builds'[i].live

LEMMA IdsAreNumbers ==
    ASSUME TypeOK
    PROVE  Ids = 1..Len(builds) /\ Len(builds) \in Nat
           /\ \A i \in Ids : builds[i] \in Build
BY LenProperties, ElementOfSeq DEF TypeOK, Ids

LEMMA OneIsWritten ==
    ASSUME TypeOK, NEW i \in Ids, NEW b \in Build, builds' = [builds EXCEPT ![i] = b]
    PROVE  /\ builds' \in Seq(Build) /\ Len(builds') = Len(builds)
           /\ \A k \in Ids : builds'[k] = IF k = i THEN b ELSE builds[k]
<1>1. Ids = 1..Len(builds) /\ builds \in Seq(Build)
    BY IdsAreNumbers DEF TypeOK
<1> QED
    BY <1>1, ExceptSeq

LEMMA RowIsWritten ==
    ASSUME TypeOK, NEW i \in Ids, NEW s \in {"absent"} \cup Unfinished \cup Finished,
           Row(i, s)
    PROVE  Becomes(i, s)
<1> DEFINE b == [builds[i] EXCEPT !.state = s]
<1>1. builds' = [builds EXCEPT ![i] = b]
    BY DEF Row
<1>2. builds[i] \in Build
    BY IdsAreNumbers
<1>3. /\ b \in Build
      /\ b.job = builds[i].job
      /\ b.live = builds[i].live
      /\ b.state = s
    BY <1>2 DEF Build
<1> HIDE DEF b
<1>4. /\ builds' \in Seq(Build) /\ Len(builds') = Len(builds)
      /\ \A k \in Ids : builds'[k] = IF k = i THEN b ELSE builds[k]
    BY <1>1, <1>3, OneIsWritten
<1> QED
    BY <1>3, <1>4 DEF Becomes, KeepsJobs

LEMMA GoroutineEnds ==
    ASSUME TypeOK, NEW i \in Ids, builds' = [builds EXCEPT ![i].live = FALSE]
    PROVE  Ends(i)
<1> DEFINE b == [builds[i] EXCEPT !.live = FALSE]
<1>1. builds' = [builds EXCEPT ![i] = b]
    OBVIOUS
<1>2. builds[i] \in Build
    BY IdsAreNumbers
<1>3. /\ b \in Build /\ b.job = builds[i].job /\ b.state = builds[i].state
      /\ b.live = FALSE
    BY <1>2 DEF Build
<1> HIDE DEF b
<1>4. /\ builds' \in Seq(Build) /\ Len(builds') = Len(builds)
      /\ \A k \in Ids : builds'[k] = IF k = i THEN b ELSE builds[k]
    BY <1>1, <1>3, OneIsWritten
<1> QED
    BY <1>3, <1>4 DEF Ends, KeepsJobs

LEMMA CrashEndsAll ==
    ASSUME TypeOK, Crash
    PROVE  /\ KeepsJobs
           /\ \A k \in Ids : /\ ~builds'[k].live
                             /\ builds'[k].state = builds[k].state
<1>1. builds' = [i \in Ids |-> [builds[i] EXCEPT !.live = FALSE]]
    BY DEF Crash
<1>2. \A k \in Ids : /\ builds'[k] \in Build /\ builds'[k].job = builds[k].job
                     /\ builds'[k].live = FALSE
                     /\ builds'[k].state = builds[k].state
    BY <1>1, IdsAreNumbers DEF Build
<1>3. DOMAIN builds' = 1..Len(builds) /\ Len(builds) \in Nat /\ Ids = 1..Len(builds)
    BY <1>1, IdsAreNumbers
<1>4. builds' \in [1..Len(builds) -> Build]
    BY <1>1, <1>2, <1>3
<1> QED
    BY <1>2, <1>3, <1>4, SeqDef, LenProperties DEF KeepsJobs

LEMMA RestartInterrupts ==
    ASSUME TypeOK, Restart
    PROVE  /\ KeepsJobs
           /\ \A k \in Ids : /\ builds'[k].live = builds[k].live
                             /\ builds'[k].state \notin Unfinished
                             /\ builds'[k].state =
                                    IF builds[k].state \in Unfinished
                                    THEN "interrupted" ELSE builds[k].state
<1>1. builds' = [i \in Ids |-> IF builds[i].state \in Unfinished
                               THEN [builds[i] EXCEPT !.state = "interrupted"]
                               ELSE builds[i]]
    BY DEF Restart
<1>2. \A k \in Ids : /\ builds'[k] \in Build /\ builds'[k].job = builds[k].job
                     /\ builds'[k].live = builds[k].live
                     /\ builds'[k].state \notin Unfinished
                     /\ builds'[k].state = IF builds[k].state \in Unfinished
                                           THEN "interrupted"
                                           ELSE builds[k].state
    BY <1>1, IdsAreNumbers DEF Build, Unfinished, Finished
<1>3. DOMAIN builds' = 1..Len(builds) /\ Len(builds) \in Nat /\ Ids = 1..Len(builds)
    BY <1>1, IdsAreNumbers
<1>4. builds' \in [1..Len(builds) -> Build]
    BY <1>1, <1>2, <1>3
<1> QED
    BY <1>2, <1>3, <1>4, SeqDef, LenProperties DEF KeepsJobs

\* Start takes the job that waited and adds a build that has no row yet.
LEMMA StartAdds ==
    ASSUME TypeOK, Start
    PROVE  /\ taken = <<Head(taken)>> /\ Head(taken) \in Job
           /\ builds' \in Seq(Build)
           /\ Ids' = Ids \cup {Len(builds) + 1} /\ Len(builds) + 1 \notin Ids
           /\ \A i \in Ids : builds'[i] = builds[i]
           /\ builds'[Len(builds) + 1] =
                  [job |-> Head(taken), state |-> "absent", live |-> TRUE]
<1>1. taken = <<Head(taken)>> /\ Head(taken) \in Job
    BY OneIsHead DEF Start, TypeOK
<1> DEFINE b == [job |-> Head(taken), state |-> "absent", live |-> TRUE]
<1>2. b \in Build
    BY <1>1 DEF Build
<1>3. builds' = Append(builds, b) /\ builds \in Seq(Build)
    BY DEF Start, TypeOK
<1> HIDE DEF b
<1>4. /\ builds' \in Seq(Build) /\ Len(builds') = Len(builds) + 1
      /\ \A i \in 1..Len(builds) : builds'[i] = builds[i]
      /\ builds'[Len(builds) + 1] = b
    BY <1>2, <1>3, AppendProperties
<1>5. Ids = 1..Len(builds) /\ Len(builds) \in Nat /\ Ids' = 1..Len(builds')
    BY <1>3, <1>4, LenProperties DEF Ids
<1> QED
    BY <1>1, <1>4, <1>5 DEF b

\* What the rows' jobs are after a step that keeps them, and after Start.
LEMMA JobsAreJobs ==
    ASSUME TypeOK
    PROVE  JobsOf(builds) \in Seq(Job)
<1>1. /\ Len(builds) \in Nat /\ DOMAIN builds = 1..Len(builds)
      /\ \A i \in DOMAIN builds : builds[i].job \in Job
    BY IdsAreNumbers DEF Build, Ids
<1>2. JobsOf(builds) \in [1..Len(builds) -> Job]
    BY <1>1 DEF JobsOf
<1> QED
    BY <1>1, <1>2, SeqDef

LEMMA JobsAreKept ==
    ASSUME TypeOK, KeepsJobs
    PROVE  JobsOf(builds)' = JobsOf(builds) /\ Ids' = Ids
<1>1. DOMAIN builds' = DOMAIN builds
    BY LenProperties, IdsAreNumbers DEF KeepsJobs, Ids
<1> QED
    BY <1>1 DEF JobsOf, KeepsJobs, Ids

LEMMA JobIsAdded ==
    ASSUME TypeOK, Start
    PROVE  JobsOf(builds)' = Append(JobsOf(builds), Head(taken))
<1> DEFINE s == JobsOf(builds)
           t == JobsOf(builds)'
<1>1. /\ s \in Seq(Job) /\ Len(s) = Len(builds) /\ Head(taken) \in Job
      /\ Len(builds) \in Nat
    <2>1. s \in Seq(Job) /\ Head(taken) \in Job
        BY JobsAreJobs, StartAdds
    <2>2. DOMAIN s = DOMAIN builds
        BY DEF JobsOf
    <2>3. Len(s) \in Nat /\ Len(builds) \in Nat /\ 1..Len(s) = 1..Len(builds)
        BY <2>1, <2>2, LenProperties DEF TypeOK
    <2> QED
        BY <2>1, <2>3
<1>2. Ids = 1..Len(builds) /\ Ids' = 1..(Len(builds) + 1)
    <2>1. Ids = 1..Len(builds) /\ Ids' = Ids \cup {Len(builds) + 1}
        BY IdsAreNumbers, StartAdds
    <2> QED
        BY <1>1, <2>1
<1>3. DOMAIN t = 1..(Len(builds) + 1)
    BY <1>2 DEF JobsOf, Ids
<1>4. \A i \in 1..(Len(builds) + 1) :
          t[i] = IF i <= Len(builds) THEN s[i] ELSE Head(taken)
    <2>1. \A i \in 1..(Len(builds) + 1) : t[i] = builds'[i].job
        BY <1>2 DEF JobsOf, Ids
    <2>2. \A i \in 1..Len(builds) : s[i] = builds[i].job /\ builds'[i] = builds[i]
        BY <1>2, StartAdds DEF JobsOf, Ids
    <2>3. builds'[Len(builds) + 1].job = Head(taken)
        BY StartAdds
    <2> QED
        BY <1>1, <2>1, <2>2, <2>3
<1>5. t \in Seq(Job)
    <2>1. t \in [1..(Len(builds) + 1) -> Job]
        <3>1. t = [i \in DOMAIN t |-> t[i]]
            BY DEF JobsOf
        <3>2. \A i \in 1..(Len(builds) + 1) : t[i] \in Job
            BY <1>1, <1>4, ElementOfSeq
        <3> HIDE DEF t
        <3> QED
            BY <1>3, <3>1, <3>2
    <2> QED
        BY <1>1, <2>1, SeqDef
<1> HIDE DEF s, t
<1>6. /\ Append(s, Head(taken)) \in Seq(Job)
      /\ Len(Append(s, Head(taken))) = Len(builds) + 1
      /\ \A i \in 1..(Len(builds) + 1) :
             Append(s, Head(taken))[i] = IF i <= Len(builds) THEN s[i] ELSE Head(taken)
    BY <1>1, AppendProperties
<1>7. Len(t) = Len(builds) + 1
    BY <1>1, <1>3, <1>5, LenProperties
<1>8. t = Append(s, Head(taken))
    BY <1>4, <1>5, <1>6, <1>7, SeqEqual
<1> QED
    BY <1>8 DEF s, t

----------------------------------------------------------------------------
\* Types, the counter, the rows

RemoteTyped ==
    /\ tip \in [Refs -> Commits]
    /\ pushes \in 0..MaxPushes
    /\ refSHA \in [Refs -> Commits]

QueuesTyped ==
    /\ queue \in Seq(Job)
    /\ Len(queue) <= QueueCap
    /\ taken \in Seq(Job)
    /\ Len(taken) <= 1
    /\ retrying \in Seq(Job)

RestTyped ==
    /\ poller \in {"idle", "send", "advance"}
    /\ todo \subseteq Job
    /\ limit \in Limits
    /\ retries \in 0..MaxRetries
    /\ faults \in 0..MaxFaults

\* The goroutines are finitely many, and more than none if there is one.
LEMMA LiveIsCounted ==
    ASSUME TypeOK
    PROVE  /\ IsFiniteSet(Live) /\ Cardinality(Live) \in Nat
           /\ \A i \in Live : Cardinality(Live) > 0
<1>1. Live \subseteq 1..Len(builds) /\ Len(builds) \in Nat
    BY IdsAreNumbers DEF Live
<1>2. IsFiniteSet(Live)
    <2>1. IsFiniteSet(1..Len(builds))
        BY <1>1, FS_Interval
    <2> QED
        BY <1>1, <2>1, FS_Subset
<1>3. Cardinality(Live) \in Nat
    BY <1>2, FS_CardinalityType
<1>4. Cardinality(Live) = 0 => Live = {}
    BY <1>2, FS_EmptySet
<1> QED
    BY <1>2, <1>3, <1>4

\* The job that a retry handler makes.
LEMMA RetryIsJob ==
    ASSUME TypeOK, NEW i \in Ids, RetryChecks(i)
    PROVE  \E j \in Job : retrying' = Append(retrying, j) /\ j.by = "retry"
<1>1. builds[i].job \in Job
    BY IdsAreNumbers DEF Build
<1>2. [builds[i].job EXCEPT !.by = "retry"] \in Job
    BY <1>1 DEF Job
<1>3. [builds[i].job EXCEPT !.by = "retry"].by = "retry"
    BY <1>1 DEF Job
<1> QED
    BY <1>2, <1>3 DEF RetryChecks

\* A handler that sends is one of those that wait, and it leaves the others.
LEMMA RetryIsSent ==
    ASSUME TypeOK, RetrySends
    PROVE  \E k \in DOMAIN retrying :
               /\ retrying[k] \in Job /\ queue' = Append(queue, retrying[k])
               /\ retrying' \in Seq(Job) /\ Len(retrying') = Len(retrying) - 1
               /\ \A i \in DOMAIN retrying' :
                     \E m \in DOMAIN retrying : retrying'[i] = retrying[m]
<1>1. PICK k \in DOMAIN retrying :
          /\ queue' = Append(queue, retrying[k])
          /\ retrying' = Tail([retrying EXCEPT ![k] = Head(retrying)])
    BY DEF RetrySends
<1> DEFINE n == Len(retrying)
           s == [retrying EXCEPT ![k] = Head(retrying)]
<1>2. retrying \in Seq(Job) /\ n \in Nat /\ DOMAIN retrying = 1..n /\ k \in 1..n
    BY <1>1, LenProperties DEF TypeOK
<1>3. /\ retrying[k] \in Job /\ Head(retrying) = retrying[1] /\ 1 \in 1..n
      /\ retrying[1] \in Job
    BY <1>2
<1>4. /\ s \in Seq(Job) /\ Len(s) = n
      /\ \A i \in 1..n : s[i] = retrying[i] \/ s[i] = retrying[1]
    BY <1>2, <1>3
<1> HIDE DEF s
<1>5. /\ Tail(s) \in Seq(Job) /\ Len(Tail(s)) = n - 1
      /\ \A i \in 1..Len(Tail(s)) : i + 1 \in 1..n /\ Tail(s)[i] = s[i + 1]
    BY <1>2, <1>3, <1>4
<1>6. DOMAIN Tail(s) = 1..Len(Tail(s))
    BY <1>5, LenProperties
<1>7. \A i \in DOMAIN Tail(s) : \E m \in DOMAIN retrying : Tail(s)[i] = retrying[m]
    BY <1>2, <1>3, <1>4, <1>5, <1>6
<1> QED
    BY <1>1, <1>3, <1>5, <1>7 DEF s

\* A sequence of one job.
LEMMA OneIsSeq ==
    ASSUME NEW j \in Job
    PROVE  <<j>> \in Seq(Job) /\ Len(<<j>>) = 1 /\ DOMAIN <<j>> = 1..1 /\ <<j>>[1] = j
OBVIOUS

\* Types: every step keeps them.
LEMMA TypesStay == TypeOK /\ RunningCounts /\ [Next]_vars => TypeOK'
<1> SUFFICES ASSUME TypeOK, RunningCounts, [Next]_vars PROVE TypeOK'
    OBVIOUS
<1>1. ASSUME NEW r \in Refs, Push(r) PROVE TypeOK'
    <2>1. RemoteTyped'
        BY <1>1, SizeAssumption DEF Push, TypeOK, RemoteTyped, Commits
    <2>2. QueuesTyped'
        BY <1>1 DEF Push, TypeOK, QueuesTyped, scheduling, retryVars
    <2>3. RestTyped'
        BY <1>1, SizeAssumption DEF Push, TypeOK, RestTyped, polling, retryVars
    <2>4. builds' \in Seq(Build)
        BY <1>1 DEF Push, TypeOK
    <2>5. running' \in Nat
        BY <1>1 DEF Push, TypeOK, scheduling
    <2>6. up' \in BOOLEAN
        BY <1>1, Zenon DEF Push, TypeOK
    <2> QED
        BY <2>1, <2>2, <2>3, <2>4, <2>5, <2>6
           DEF TypeOK, RemoteTyped, QueuesTyped, RestTyped
<1>2. CASE Reload
    <2>1. RemoteTyped'
        BY <1>2, SizeAssumption DEF Reload, TypeOK, RemoteTyped, remote
    <2>2. QueuesTyped'
        BY <1>2 DEF Reload, TypeOK, QueuesTyped, scheduling, retryVars
    <2>3. RestTyped'
        BY <1>2, SizeAssumption, LimitsAssumption
           DEF Reload, TypeOK, RestTyped, polling, retryVars
    <2>4. builds' \in Seq(Build)
        BY <1>2 DEF Reload, TypeOK
    <2>5. running' \in Nat
        BY <1>2 DEF Reload, TypeOK, scheduling
    <2>6. up' \in BOOLEAN
        BY <1>2, Zenon DEF Reload, TypeOK
    <2> QED
        BY <2>1, <2>2, <2>3, <2>4, <2>5, <2>6
           DEF TypeOK, RemoteTyped, QueuesTyped, RestTyped
<1>3. CASE Scan
    <2>1. RemoteTyped'
        BY <1>3, SizeAssumption, UnbuildableAssumption
           DEF Scan, TypeOK, RemoteTyped, remote
    <2>2. QueuesTyped'
        BY <1>3 DEF Scan, TypeOK, QueuesTyped, scheduling, retryVars
    <2>3. RestTyped'
        <3>1. \A r \in Refs : [ref |-> r, sha |-> tip[r], by |-> "poll"] \in Job
            BY DEF TypeOK, Job
        <3>2. todo' \subseteq Job
            BY <1>3, <3>1 DEF Scan, Moved, Skipped
        <3> QED
            BY <1>3, <3>2 DEF Scan, TypeOK, RestTyped, retryVars
    <2>4. builds' \in Seq(Build)
        BY <1>3 DEF Scan, TypeOK
    <2>5. running' \in Nat
        BY <1>3 DEF Scan, TypeOK, scheduling
    <2>6. up' \in BOOLEAN
        BY <1>3, Zenon DEF Scan, TypeOK
    <2> QED
        BY <2>1, <2>2, <2>3, <2>4, <2>5, <2>6
           DEF TypeOK, RemoteTyped, QueuesTyped, RestTyped
<1>4. CASE Send
    <2>1. RemoteTyped'
        BY <1>4, SizeAssumption DEF Send, TypeOK, RemoteTyped, remote
    <2>2. QueuesTyped'
        BY <1>4, QueueAssumption, AppendProperties, LenProperties
           DEF Send, TypeOK, QueuesTyped, scheduling, retryVars
    <2>3. RestTyped'
        BY <1>4, SizeAssumption DEF Send, TypeOK, RestTyped, polling, retryVars
    <2>4. builds' \in Seq(Build)
        BY <1>4 DEF Send, TypeOK
    <2>5. running' \in Nat
        BY <1>4 DEF Send, TypeOK, scheduling
    <2>6. up' \in BOOLEAN
        BY <1>4, Zenon DEF Send, TypeOK
    <2> QED
        BY <2>1, <2>2, <2>3, <2>4, <2>5, <2>6
           DEF TypeOK, RemoteTyped, QueuesTyped, RestTyped
<1>5. CASE Advance
    <2>1. RemoteTyped'
        <3>1. PICK j \in todo : refSHA' = [refSHA EXCEPT ![j.ref] = j.sha]
            BY <1>5 DEF Advance
        <3>2. j.sha \in Commits
            BY DEF TypeOK, Job
        <3> QED
            BY <1>5, <3>1, <3>2 DEF Advance, TypeOK, RemoteTyped, remote
    <2>2. QueuesTyped'
        BY <1>5 DEF Advance, TypeOK, QueuesTyped, scheduling, retryVars
    <2>3. RestTyped'
        BY <1>5, SizeAssumption
           DEF Advance, TypeOK, RestTyped, polling, retryVars
    <2>4. builds' \in Seq(Build)
        BY <1>5 DEF Advance, TypeOK
    <2>5. running' \in Nat
        BY <1>5 DEF Advance, TypeOK, scheduling
    <2>6. up' \in BOOLEAN
        BY <1>5, Zenon DEF Advance, TypeOK
    <2> QED
        BY <2>1, <2>2, <2>3, <2>4, <2>5, <2>6
           DEF TypeOK, RemoteTyped, QueuesTyped, RestTyped
<1>6. CASE AdvanceFails
    <2>1. RemoteTyped'
        BY <1>6, SizeAssumption DEF AdvanceFails, TypeOK, RemoteTyped, remote
    <2>2. QueuesTyped'
        BY <1>6 DEF AdvanceFails, TypeOK, QueuesTyped, scheduling, retryVars
    <2>3. RestTyped'
        BY <1>6, SizeAssumption
           DEF AdvanceFails, TypeOK, RestTyped, polling, retryVars
    <2>4. builds' \in Seq(Build)
        BY <1>6 DEF AdvanceFails, TypeOK
    <2>5. running' \in Nat
        BY <1>6 DEF AdvanceFails, TypeOK, scheduling
    <2>6. up' \in BOOLEAN
        BY <1>6, Zenon DEF AdvanceFails, TypeOK
    <2> QED
        BY <2>1, <2>2, <2>3, <2>4, <2>5, <2>6
           DEF TypeOK, RemoteTyped, QueuesTyped, RestTyped
<1>7. CASE Take
    <2>1. RemoteTyped'
        BY <1>7, SizeAssumption DEF Take, TypeOK, RemoteTyped, remote
    <2>2. QueuesTyped'
        <3>1. Head(queue) \in Job /\ Tail(queue) \in Seq(Job)
              /\ Len(Tail(queue)) = Len(queue) - 1
            BY <1>7, HeadTailProperties DEF Take, TypeOK
        <3>2. Len(queue) \in Nat
            BY LenProperties DEF TypeOK
        <3> QED
            BY <1>7, <3>1, <3>2, OneIsSeq, QueueAssumption
               DEF Take, TypeOK, QueuesTyped, retryVars
    <2>3. RestTyped'
        BY <1>7, SizeAssumption DEF Take, TypeOK, RestTyped, polling, retryVars
    <2>4. builds' \in Seq(Build)
        BY <1>7 DEF Take, TypeOK
    <2>5. running' \in Nat
        BY <1>7 DEF Take, TypeOK, scheduling
    <2>6. up' \in BOOLEAN
        BY <1>7, Zenon DEF Take, TypeOK
    <2> QED
        BY <2>1, <2>2, <2>3, <2>4, <2>5, <2>6
           DEF TypeOK, RemoteTyped, QueuesTyped, RestTyped
<1>8. CASE Start
    <2>1. RemoteTyped'
        BY <1>8, SizeAssumption DEF Start, TypeOK, RemoteTyped, remote
    <2>2. QueuesTyped'
        BY <1>8 DEF Start, TypeOK, QueuesTyped, scheduling, retryVars
    <2>3. RestTyped'
        BY <1>8, SizeAssumption DEF Start, TypeOK, RestTyped, polling, retryVars
    <2>4. builds' \in Seq(Build)
        BY <1>8, StartAdds DEF Start, TypeOK
    <2>5. running' \in Nat
        BY <1>8 DEF Start, TypeOK, scheduling
    <2>6. up' \in BOOLEAN
        BY <1>8, Zenon DEF Start, TypeOK
    <2> QED
        BY <2>1, <2>2, <2>3, <2>4, <2>5, <2>6
           DEF TypeOK, RemoteTyped, QueuesTyped, RestTyped
<1>9. ASSUME NEW i \in Ids, Record(i) PROVE TypeOK'
    <2>1. RemoteTyped'
        BY <1>9, SizeAssumption DEF Record, TypeOK, RemoteTyped, remote
    <2>2. QueuesTyped'
        BY <1>9 DEF Record, TypeOK, QueuesTyped, scheduling, retryVars
    <2>3. RestTyped'
        BY <1>9, SizeAssumption
           DEF Record, TypeOK, RestTyped, polling, retryVars
    <2>4. builds' \in Seq(Build)
        BY <1>9, RowIsWritten
           DEF Record, TypeOK, Becomes, KeepsJobs, Unfinished, Finished
    <2>5. running' \in Nat
        BY <1>9 DEF Record, TypeOK, scheduling
    <2>6. up' \in BOOLEAN
        BY <1>9, Zenon DEF Record, TypeOK
    <2> QED
        BY <2>1, <2>2, <2>3, <2>4, <2>5, <2>6
           DEF TypeOK, RemoteTyped, QueuesTyped, RestTyped
<1>10. ASSUME NEW i \in Ids, RunSteps(i) PROVE TypeOK'
    <2>1. RemoteTyped'
        BY <1>10, SizeAssumption DEF RunSteps, TypeOK, RemoteTyped, remote
    <2>2. QueuesTyped'
        BY <1>10 DEF RunSteps, TypeOK, QueuesTyped, scheduling, retryVars
    <2>3. RestTyped'
        BY <1>10, SizeAssumption
           DEF RunSteps, TypeOK, RestTyped, polling, retryVars
    <2>4. builds' \in Seq(Build)
        BY <1>10, RowIsWritten
           DEF RunSteps, TypeOK, Becomes, KeepsJobs, Unfinished, Finished
    <2>5. running' \in Nat
        BY <1>10 DEF RunSteps, TypeOK, scheduling
    <2>6. up' \in BOOLEAN
        BY <1>10, Zenon DEF RunSteps, TypeOK
    <2> QED
        BY <2>1, <2>2, <2>3, <2>4, <2>5, <2>6
           DEF TypeOK, RemoteTyped, QueuesTyped, RestTyped
<1>11. ASSUME NEW i \in Ids, Conclude(i) PROVE TypeOK'
    <2>1. RemoteTyped'
        BY <1>11, SizeAssumption DEF Conclude, TypeOK, RemoteTyped, remote
    <2>2. QueuesTyped'
        BY <1>11 DEF Conclude, TypeOK, QueuesTyped, scheduling, retryVars
    <2>3. RestTyped'
        BY <1>11, SizeAssumption
           DEF Conclude, TypeOK, RestTyped, polling, retryVars
    <2>4. builds' \in Seq(Build)
        BY <1>11, RowIsWritten
           DEF Conclude, TypeOK, Becomes, KeepsJobs, Unfinished, Finished
    <2>5. running' \in Nat
        BY <1>11 DEF Conclude, TypeOK, scheduling
    <2>6. up' \in BOOLEAN
        BY <1>11, Zenon DEF Conclude, TypeOK
    <2> QED
        BY <2>1, <2>2, <2>3, <2>4, <2>5, <2>6
           DEF TypeOK, RemoteTyped, QueuesTyped, RestTyped
<1>12. ASSUME NEW i \in Ids, Return(i) PROVE TypeOK'
    <2>1. RemoteTyped'
        BY <1>12, SizeAssumption DEF Return, TypeOK, RemoteTyped, remote
    <2>2. QueuesTyped'
        BY <1>12 DEF Return, TypeOK, QueuesTyped, scheduling, retryVars
    <2>3. RestTyped'
        BY <1>12, SizeAssumption
           DEF Return, TypeOK, RestTyped, polling, retryVars
    <2>4. builds' \in Seq(Build)
        BY <1>12, GoroutineEnds DEF Return, TypeOK, Ends, KeepsJobs
    <2>5. running' \in Nat
        BY <1>12, LiveIsCounted DEF Return, TypeOK, RunningCounts
    <2>6. up' \in BOOLEAN
        BY <1>12, Zenon DEF Return, TypeOK
    <2> QED
        BY <2>1, <2>2, <2>3, <2>4, <2>5, <2>6
           DEF TypeOK, RemoteTyped, QueuesTyped, RestTyped
<1>13. ASSUME NEW i \in Ids, RecordFails(i) PROVE TypeOK'
    <2>1. RemoteTyped'
        BY <1>13, SizeAssumption DEF RecordFails, TypeOK, RemoteTyped, remote
    <2>2. QueuesTyped'
        BY <1>13 DEF RecordFails, TypeOK, QueuesTyped, scheduling, retryVars
    <2>3. RestTyped'
        <3>1. faults' \in 0..MaxFaults
            <4>1. faults < MaxFaults /\ faults' = faults + 1
                BY <1>13 DEF RecordFails
            <4>2. faults \in 0..MaxFaults
                BY DEF TypeOK
            <4> QED
                BY <4>1, <4>2, SizeAssumption
        <3>2. poller' = poller /\ todo' = todo /\ limit' = limit /\ retries' = retries
            BY <1>13 DEF RecordFails, polling, retryVars
        <3> QED
            BY <3>1, <3>2 DEF TypeOK, RestTyped
    <2>4. builds' \in Seq(Build)
        BY <1>13, GoroutineEnds DEF RecordFails, TypeOK, Ends, KeepsJobs
    <2>5. running' \in Nat
        BY <1>13, LiveIsCounted DEF RecordFails, TypeOK, RunningCounts
    <2>6. up' \in BOOLEAN
        BY <1>13, Zenon DEF RecordFails, TypeOK
    <2> QED
        BY <2>1, <2>2, <2>3, <2>4, <2>5, <2>6
           DEF TypeOK, RemoteTyped, QueuesTyped, RestTyped
<1>14. ASSUME NEW i \in Ids, RetryChecks(i) PROVE TypeOK'
    <2>1. RemoteTyped'
        BY <1>14, SizeAssumption DEF RetryChecks, TypeOK, RemoteTyped, remote
    <2>2. QueuesTyped'
        <3>1. retrying' \in Seq(Job)
            <4>1. PICK j \in Job : retrying' = Append(retrying, j)
                BY <1>14, RetryIsJob
            <4>2. retrying \in Seq(Job)
                BY DEF TypeOK
            <4> QED
                BY <4>1, <4>2, AppendProperties
        <3> QED
            BY <1>14, <3>1 DEF RetryChecks, TypeOK, QueuesTyped, scheduling
    <2>3. RestTyped'
        <3>1. retries' \in 0..MaxRetries
            <4>1. retries < MaxRetries /\ retries' = retries + 1
                BY <1>14 DEF RetryChecks
            <4>2. retries \in 0..MaxRetries
                BY DEF TypeOK
            <4> QED
                BY <4>1, <4>2, SizeAssumption
        <3>2. poller' = poller /\ todo' = todo /\ limit' = limit /\ faults' = faults
            BY <1>14 DEF RetryChecks, polling
        <3> QED
            BY <3>1, <3>2 DEF TypeOK, RestTyped
    <2>4. builds' \in Seq(Build)
        BY <1>14 DEF RetryChecks, TypeOK
    <2>5. running' \in Nat
        BY <1>14 DEF RetryChecks, TypeOK, scheduling
    <2>6. up' \in BOOLEAN
        BY <1>14, Zenon DEF RetryChecks, TypeOK
    <2> QED
        BY <2>1, <2>2, <2>3, <2>4, <2>5, <2>6
           DEF TypeOK, RemoteTyped, QueuesTyped, RestTyped
<1>15. CASE RetrySends
    <2>1. RemoteTyped'
        BY <1>15, SizeAssumption DEF RetrySends, TypeOK, RemoteTyped, remote
    <2>2. QueuesTyped'
        <3>1. PICK j \in Job : queue' = Append(queue, j)
            BY <1>15, RetryIsSent
        <3>2. retrying' \in Seq(Job)
            BY <1>15, RetryIsSent
        <3>3. Len(queue) < QueueCap /\ taken' = taken
            BY <1>15 DEF RetrySends, scheduling
        <3> QED
            BY <3>1, <3>2, <3>3, QueueAssumption, AppendProperties, LenProperties
               DEF TypeOK, QueuesTyped
    <2>3. RestTyped'
        BY <1>15, SizeAssumption
           DEF RetrySends, TypeOK, RestTyped, polling, retryVars
    <2>4. builds' \in Seq(Build)
        BY <1>15 DEF RetrySends, TypeOK
    <2>5. running' \in Nat
        BY <1>15 DEF RetrySends, TypeOK, scheduling
    <2>6. up' \in BOOLEAN
        BY <1>15, Zenon DEF RetrySends, TypeOK
    <2> QED
        BY <2>1, <2>2, <2>3, <2>4, <2>5, <2>6
           DEF TypeOK, RemoteTyped, QueuesTyped, RestTyped
<1>16. CASE Crash
    <2>1. RemoteTyped'
        BY <1>16, SizeAssumption DEF Crash, TypeOK, RemoteTyped, remote
    <2>2. QueuesTyped'
        BY <1>16, QueueAssumption
           DEF Crash, TypeOK, QueuesTyped, scheduling, retryVars
    <2>3. RestTyped'
        BY <1>16, SizeAssumption
           DEF Crash, TypeOK, RestTyped, polling, retryVars
    <2>4. builds' \in Seq(Build)
        BY <1>16, CrashEndsAll DEF Crash, TypeOK, KeepsJobs
    <2>5. running' \in Nat
        BY <1>16 DEF Crash, TypeOK, scheduling
    <2>6. up' \in BOOLEAN
        BY <1>16, Zenon DEF Crash, TypeOK
    <2> QED
        BY <2>1, <2>2, <2>3, <2>4, <2>5, <2>6
           DEF TypeOK, RemoteTyped, QueuesTyped, RestTyped
<1>17. CASE Restart
    <2>1. RemoteTyped'
        BY <1>17, SizeAssumption DEF Restart, TypeOK, RemoteTyped, remote
    <2>2. QueuesTyped'
        BY <1>17 DEF Restart, TypeOK, QueuesTyped, scheduling, retryVars
    <2>3. RestTyped'
        BY <1>17, SizeAssumption, LimitsAssumption
           DEF Restart, TypeOK, RestTyped, polling, retryVars
    <2>4. builds' \in Seq(Build)
        BY <1>17, RestartInterrupts DEF Restart, TypeOK, KeepsJobs
    <2>5. running' \in Nat
        BY <1>17 DEF Restart, TypeOK, scheduling
    <2>6. up' \in BOOLEAN
        BY <1>17, Zenon DEF Restart, TypeOK
    <2> QED
        BY <2>1, <2>2, <2>3, <2>4, <2>5, <2>6
           DEF TypeOK, RemoteTyped, QueuesTyped, RestTyped
<1>18. CASE UNCHANGED vars
    <2>1. RemoteTyped'
        BY <1>18, SizeAssumption DEF vars, TypeOK, RemoteTyped, remote
    <2>2. QueuesTyped'
        BY <1>18 DEF vars, TypeOK, QueuesTyped, scheduling, retryVars
    <2>3. RestTyped'
        BY <1>18, SizeAssumption DEF vars, TypeOK, RestTyped, polling, retryVars
    <2>4. builds' \in Seq(Build)
        BY <1>18 DEF vars, TypeOK
    <2>5. running' \in Nat
        BY <1>18 DEF vars, TypeOK, scheduling
    <2>6. up' \in BOOLEAN
        BY <1>18, Zenon DEF vars, TypeOK
    <2> QED
        BY <2>1, <2>2, <2>3, <2>4, <2>5, <2>6
           DEF TypeOK, RemoteTyped, QueuesTyped, RestTyped
<1> QED
    BY <1>1, <1>2, <1>3, <1>4, <1>5, <1>6, <1>7, <1>8, <1>9, <1>10, <1>11,
       <1>12, <1>13, <1>14, <1>15, <1>16, <1>17, <1>18
       DEF Next, BuildStep

\* Every step keeps the counter equal to the number of goroutines.
LEMMA CountStays == TypeOK /\ RunningCounts /\ [Next]_vars => RunningCounts'
<1> SUFFICES ASSUME TypeOK, RunningCounts, [Next]_vars PROVE RunningCounts'
    OBVIOUS
<1>1. ASSUME NEW r \in Refs, Push(r) PROVE RunningCounts'
    BY <1>1 DEF Push, RunningCounts, Live, Ids, scheduling
<1>2. CASE Reload
    BY <1>2 DEF Reload, RunningCounts, Live, Ids, scheduling
<1>3. CASE Scan
    BY <1>3 DEF Scan, RunningCounts, Live, Ids, scheduling
<1>4. CASE Send
    BY <1>4 DEF Send, RunningCounts, Live, Ids, scheduling
<1>5. CASE Advance
    BY <1>5 DEF Advance, RunningCounts, Live, Ids, scheduling
<1>6. CASE AdvanceFails
    BY <1>6 DEF AdvanceFails, RunningCounts, Live, Ids, scheduling
<1>7. CASE Take
    BY <1>7 DEF Take, RunningCounts, Live, Ids
<1>8. CASE Start
    <2>1. Live' = Live \cup {Len(builds) + 1} /\ Len(builds) + 1 \notin Live
        BY <1>8, StartAdds DEF Live
    <2>2. running' = running + 1
        BY <1>8 DEF Start
    <2> QED
        BY <2>1, <2>2, LiveIsCounted, FS_AddElement DEF RunningCounts
<1>9. ASSUME NEW i \in Ids, Record(i) PROVE RunningCounts'
    <2>1. Live' = Live /\ running' = running
        BY <1>9, RowIsWritten, JobsAreKept
           DEF Record, Becomes, Live, Unfinished, Finished, scheduling
    <2> QED
        BY <2>1 DEF RunningCounts
<1>10. ASSUME NEW i \in Ids, RunSteps(i) PROVE RunningCounts'
    <2>1. Live' = Live /\ running' = running
        BY <1>10, RowIsWritten, JobsAreKept
           DEF RunSteps, Becomes, Live, Unfinished, Finished, scheduling
    <2> QED
        BY <2>1 DEF RunningCounts
<1>11. ASSUME NEW i \in Ids, Conclude(i) PROVE RunningCounts'
    <2>1. Live' = Live /\ running' = running
        BY <1>11, RowIsWritten, JobsAreKept
           DEF Conclude, Becomes, Live, Unfinished, Finished, scheduling
    <2> QED
        BY <2>1 DEF RunningCounts
<1>12. ASSUME NEW i \in Ids, Return(i) PROVE RunningCounts'
    <2>1. i \in Live /\ running' = running - 1
        BY <1>12 DEF Return
    <2>2. Ends(i) /\ Ids' = Ids
        BY <1>12, GoroutineEnds, JobsAreKept DEF Return, Ends
    <2>3. Live' = Live \ {i}
        BY <2>2 DEF Ends, Live
    <2> QED
        BY <2>1, <2>3, LiveIsCounted, FS_RemoveElement DEF RunningCounts
<1>13. ASSUME NEW i \in Ids, RecordFails(i) PROVE RunningCounts'
    <2>1. i \in Live /\ running' = running - 1
        BY <1>13 DEF RecordFails
    <2>2. Ends(i) /\ Ids' = Ids
        BY <1>13, GoroutineEnds, JobsAreKept DEF RecordFails, Ends
    <2>3. Live' = Live \ {i}
        BY <2>2 DEF Ends, Live
    <2> QED
        BY <2>1, <2>3, LiveIsCounted, FS_RemoveElement DEF RunningCounts
<1>14. ASSUME NEW i \in Ids, RetryChecks(i) PROVE RunningCounts'
    BY <1>14 DEF RetryChecks, RunningCounts, Live, Ids, scheduling
<1>15. CASE RetrySends
    BY <1>15 DEF RetrySends, RunningCounts, Live, Ids, scheduling
<1>16. CASE Crash
    <2>1. Live' = {} /\ running' = 0
        BY <1>16, CrashEndsAll, JobsAreKept DEF Crash, Live
    <2> QED
        BY <2>1, FS_EmptySet DEF RunningCounts
<1>17. CASE Restart
    <2>1. Live' = Live /\ running' = running
        BY <1>17, RestartInterrupts, JobsAreKept DEF Restart, Live, scheduling
    <2> QED
        BY <2>1 DEF RunningCounts
<1>18. CASE UNCHANGED vars
    BY <1>18 DEF vars, RunningCounts, Live, Ids, scheduling
<1> QED
    BY <1>1, <1>2, <1>3, <1>4, <1>5, <1>6, <1>7, <1>8, <1>9, <1>10, <1>11,
       <1>12, <1>13, <1>14, <1>15, <1>16, <1>17, <1>18
       DEF Next, BuildStep

\* Every step leaves a goroutine to each unfinished row.
LEMMA UnfinishedStay ==
    TypeOK /\ UnfinishedIsLive /\ [Next]_vars => UnfinishedIsLive'
<1> SUFFICES ASSUME TypeOK, UnfinishedIsLive, [Next]_vars
             PROVE  UnfinishedIsLive'
    OBVIOUS
<1>1. ASSUME NEW r \in Refs, Push(r) PROVE UnfinishedIsLive'
    BY <1>1 DEF Push, UnfinishedIsLive, Live, Ids
<1>2. CASE Reload
    BY <1>2 DEF Reload, UnfinishedIsLive, Live, Ids
<1>3. CASE Scan
    BY <1>3 DEF Scan, UnfinishedIsLive, Live, Ids
<1>4. CASE Send
    BY <1>4 DEF Send, UnfinishedIsLive, Live, Ids
<1>5. CASE Advance
    BY <1>5 DEF Advance, UnfinishedIsLive, Live, Ids
<1>6. CASE AdvanceFails
    BY <1>6 DEF AdvanceFails, UnfinishedIsLive, Live, Ids
<1>7. CASE Take
    BY <1>7 DEF Take, UnfinishedIsLive, Live, Ids
<1>8. CASE Start
    <2>1. /\ up' = up /\ Ids' = Ids \cup {Len(builds) + 1}
          /\ \A k \in Ids : builds'[k] = builds[k]
        BY <1>8, StartAdds DEF Start
    <2>2. builds'[Len(builds) + 1].state = "absent"
        BY <1>8, StartAdds
    <2> QED
        BY <2>1, <2>2 DEF Unfinished, UnfinishedIsLive, Live
<1>9. ASSUME NEW i \in Ids, Record(i) PROVE UnfinishedIsLive'
    BY <1>9, RowIsWritten, JobsAreKept
       DEF Record, Becomes, UnfinishedIsLive, Live, Unfinished, Finished
<1>10. ASSUME NEW i \in Ids, RunSteps(i) PROVE UnfinishedIsLive'
    BY <1>10, RowIsWritten, JobsAreKept
       DEF RunSteps, Becomes, UnfinishedIsLive, Live, Unfinished, Finished
<1>11. ASSUME NEW i \in Ids, Conclude(i) PROVE UnfinishedIsLive'
    BY <1>11, RowIsWritten, JobsAreKept
       DEF Conclude, Becomes, UnfinishedIsLive, Live, Unfinished, Finished
<1>12. ASSUME NEW i \in Ids, Return(i) PROVE UnfinishedIsLive'
    <2>1. /\ Ids' = Ids /\ up' = up /\ builds[i].state \notin Unfinished
          /\ \A k \in Ids : /\ builds'[k].state = builds[k].state
                            /\ k # i => builds'[k].live = builds[k].live
        BY <1>12, GoroutineEnds, JobsAreKept
           DEF Return, Ends, Unfinished, Finished
    <2> QED
        BY <2>1 DEF UnfinishedIsLive, Live
<1>13. ASSUME NEW i \in Ids, RecordFails(i) PROVE UnfinishedIsLive'
    <2>1. /\ Ids' = Ids /\ up' = up /\ builds[i].state \notin Unfinished
          /\ \A k \in Ids : /\ builds'[k].state = builds[k].state
                            /\ k # i => builds'[k].live = builds[k].live
        BY <1>13, GoroutineEnds, JobsAreKept
           DEF RecordFails, Ends, Unfinished, Finished
    <2> QED
        BY <2>1 DEF UnfinishedIsLive, Live
<1>14. ASSUME NEW i \in Ids, RetryChecks(i) PROVE UnfinishedIsLive'
    BY <1>14 DEF RetryChecks, UnfinishedIsLive, Live, Ids
<1>15. CASE RetrySends
    BY <1>15 DEF RetrySends, UnfinishedIsLive, Live, Ids
<1>16. CASE Crash
    BY <1>16 DEF Crash, UnfinishedIsLive
<1>17. CASE Restart
    BY <1>17, RestartInterrupts, JobsAreKept DEF UnfinishedIsLive
<1>18. CASE UNCHANGED vars
    BY <1>18 DEF vars, UnfinishedIsLive, Live, Ids
<1> QED
    BY <1>1, <1>2, <1>3, <1>4, <1>5, <1>6, <1>7, <1>8, <1>9, <1>10, <1>11,
       <1>12, <1>13, <1>14, <1>15, <1>16, <1>17, <1>18
       DEF Next, BuildStep

\* Every step keeps the poller's jobs one per ref.
LEMMA TodoStays == TypeOK /\ TodoIsOrderly /\ [Next]_vars => TodoIsOrderly'
<1> SUFFICES ASSUME TypeOK, TodoIsOrderly, [Next]_vars PROVE TodoIsOrderly'
    OBVIOUS
<1>1. ASSUME NEW r \in Refs, Push(r) PROVE TodoIsOrderly'
    BY <1>1 DEF Push, TodoIsOrderly, polling
<1>2. CASE Reload
    BY <1>2 DEF Reload, TodoIsOrderly, polling
<1>3. CASE Scan
    BY <1>3 DEF Scan, TodoIsOrderly
<1>4. CASE Send
    BY <1>4 DEF Send, TodoIsOrderly
<1>5. CASE Advance
    BY <1>5 DEF Advance, TodoIsOrderly
<1>6. CASE AdvanceFails
    BY <1>6 DEF AdvanceFails, TodoIsOrderly
<1>7. CASE Take
    BY <1>7 DEF Take, TodoIsOrderly, polling
<1>8. CASE Start
    BY <1>8 DEF Start, TodoIsOrderly, polling
<1>9. ASSUME NEW i \in Ids, Record(i) PROVE TodoIsOrderly'
    BY <1>9 DEF Record, TodoIsOrderly, polling
<1>10. ASSUME NEW i \in Ids, RunSteps(i) PROVE TodoIsOrderly'
    BY <1>10 DEF RunSteps, TodoIsOrderly, polling
<1>11. ASSUME NEW i \in Ids, Conclude(i) PROVE TodoIsOrderly'
    BY <1>11 DEF Conclude, TodoIsOrderly, polling
<1>12. ASSUME NEW i \in Ids, Return(i) PROVE TodoIsOrderly'
    BY <1>12 DEF Return, TodoIsOrderly, polling
<1>13. ASSUME NEW i \in Ids, RecordFails(i) PROVE TodoIsOrderly'
    BY <1>13 DEF RecordFails, TodoIsOrderly, polling
<1>14. ASSUME NEW i \in Ids, RetryChecks(i) PROVE TodoIsOrderly'
    BY <1>14 DEF RetryChecks, TodoIsOrderly, polling
<1>15. CASE RetrySends
    BY <1>15 DEF RetrySends, TodoIsOrderly, polling
<1>16. CASE Crash
    BY <1>16 DEF Crash, TodoIsOrderly
<1>17. CASE Restart
    BY <1>17 DEF Restart, TodoIsOrderly, polling
<1>18. CASE UNCHANGED vars
    BY <1>18 DEF vars, TodoIsOrderly, polling
<1> QED
    BY <1>1, <1>2, <1>3, <1>4, <1>5, <1>6, <1>7, <1>8, <1>9, <1>10, <1>11,
       <1>12, <1>13, <1>14, <1>15, <1>16, <1>17, <1>18
       DEF Next, BuildStep

\* Every step leaves only retries with the retry handlers.
LEMMA MarksStay ==
    TypeOK /\ RetriesAreMarked /\ [Next]_vars => RetriesAreMarked'
<1> SUFFICES ASSUME TypeOK, RetriesAreMarked, [Next]_vars
             PROVE  RetriesAreMarked'
    OBVIOUS
<1>1. ASSUME NEW r \in Refs, Push(r) PROVE RetriesAreMarked'
    BY <1>1 DEF Push, RetriesAreMarked, retryVars
<1>2. CASE Reload
    BY <1>2 DEF Reload, RetriesAreMarked, retryVars
<1>3. CASE Scan
    BY <1>3 DEF Scan, RetriesAreMarked, retryVars
<1>4. CASE Send
    BY <1>4 DEF Send, RetriesAreMarked, retryVars
<1>5. CASE Advance
    BY <1>5 DEF Advance, RetriesAreMarked, retryVars
<1>6. CASE AdvanceFails
    BY <1>6 DEF AdvanceFails, RetriesAreMarked, retryVars
<1>7. CASE Take
    BY <1>7 DEF Take, RetriesAreMarked, retryVars
<1>8. CASE Start
    BY <1>8 DEF Start, RetriesAreMarked, retryVars
<1>9. ASSUME NEW i \in Ids, Record(i) PROVE RetriesAreMarked'
    BY <1>9 DEF Record, RetriesAreMarked, retryVars
<1>10. ASSUME NEW i \in Ids, RunSteps(i) PROVE RetriesAreMarked'
    BY <1>10 DEF RunSteps, RetriesAreMarked, retryVars
<1>11. ASSUME NEW i \in Ids, Conclude(i) PROVE RetriesAreMarked'
    BY <1>11 DEF Conclude, RetriesAreMarked, retryVars
<1>12. ASSUME NEW i \in Ids, Return(i) PROVE RetriesAreMarked'
    BY <1>12 DEF Return, RetriesAreMarked, retryVars
<1>13. ASSUME NEW i \in Ids, RecordFails(i) PROVE RetriesAreMarked'
    BY <1>13 DEF RecordFails, RetriesAreMarked, retryVars
<1>14. ASSUME NEW i \in Ids, RetryChecks(i) PROVE RetriesAreMarked'
    <2>1. PICK j \in Job : retrying' = Append(retrying, j) /\ j.by = "retry"
        BY <1>14, RetryIsJob
    <2> QED
        BY <2>1 DEF TypeOK, RetriesAreMarked
<1>15. CASE RetrySends
    BY <1>15, RetryIsSent DEF RetriesAreMarked
<1>16. CASE Crash
    BY <1>16 DEF Crash, RetriesAreMarked
<1>17. CASE Restart
    BY <1>17 DEF Restart, RetriesAreMarked, retryVars
<1>18. CASE UNCHANGED vars
    BY <1>18 DEF vars, RetriesAreMarked, retryVars
<1> QED
    BY <1>1, <1>2, <1>3, <1>4, <1>5, <1>6, <1>7, <1>8, <1>9, <1>10, <1>11,
       <1>12, <1>13, <1>14, <1>15, <1>16, <1>17, <1>18
       DEF Next, BuildStep

----------------------------------------------------------------------------
\* What has left the poller

LEMMA RangeOfAppend ==
    ASSUME NEW s \in Seq(Job), NEW j \in Job
    PROVE  Range(Append(s, j)) = Range(s) \cup {j}
<1> DEFINE t == Append(s, j)
<1>1. /\ Len(s) \in Nat /\ t[Len(s) + 1] = j /\ \A i \in 1..Len(s) : t[i] = s[i]
      /\ DOMAIN s = 1..Len(s) /\ DOMAIN t = 1..(Len(s) + 1)
    BY AppendProperties, LenProperties
<1> HIDE DEF t
<1>2. Range(t) = Range(s) \cup {j}
    BY <1>1 DEF Range
<1> QED
    BY <1>2 DEF t

LEMMA RangeOfTail ==
    ASSUME NEW s \in Seq(Job), s # <<>>
    PROVE  Range(s) = Range(Tail(s)) \cup {Head(s)}
<1> DEFINE t == Tail(s)
<1>1. /\ Len(s) \in Nat \ {0} /\ Len(t) = Len(s) - 1
      /\ DOMAIN s = 1..Len(s) /\ DOMAIN t = 1..Len(t)
      /\ \A i \in 1..Len(t) : t[i] = s[i + 1]
      /\ Head(s) = s[1]
    BY HeadTailProperties, LenProperties, EmptySeq
<1> HIDE DEF t
<1>2. \A i \in 1..Len(s) : s[i] \in Range(t) \cup {Head(s)}
    <2> SUFFICES ASSUME NEW i \in 1..Len(s)
                 PROVE  s[i] \in Range(t) \cup {Head(s)}
        OBVIOUS
    <2>1. CASE i = 1
        BY <1>1, <2>1
    <2>2. CASE i # 1
        <3>1. i - 1 \in 1..Len(t) /\ (i - 1) + 1 = i
            BY <1>1, <2>2
        <3> QED
            BY <1>1, <3>1 DEF Range
    <2> QED
        BY <2>1, <2>2
<1>3. \A i \in 1..Len(t) : i + 1 \in 1..Len(s)
    BY <1>1
<1>4. 1 \in 1..Len(s)
    BY <1>1
<1> QED
    BY <1>1, <1>2, <1>3, <1>4 DEF Range, t

LEMMA RangeOfOne ==
    ASSUME NEW j \in Job
    PROVE  Range(<<j>>) = {j}
<1>1. DOMAIN <<j>> = {1} /\ <<j>>[1] = j
    OBVIOUS
<1> QED
    BY <1>1 DEF Range

\* The jobs of the builds.
Jobs == {builds[i].job : i \in Ids}

LEMMA JobsOfKept ==
    ASSUME TypeOK, KeepsJobs
    PROVE  Jobs' = Jobs
BY JobsAreKept DEF KeepsJobs, Jobs

LEMMA JobsOfStart ==
    ASSUME TypeOK, Start
    PROVE  Jobs \cup {Head(taken)} = Jobs'
<1>1. /\ Ids' = Ids \cup {Len(builds) + 1}
      /\ \A i \in Ids : builds'[i] = builds[i]
      /\ builds'[Len(builds) + 1] =
             [job |-> Head(taken), state |-> "absent", live |-> TRUE]
    BY StartAdds
<1>2. builds'[Len(builds) + 1].job = Head(taken)
    BY <1>1
<1>3. \A i \in Ids : builds'[i].job = builds[i].job
    BY <1>1
<1> QED
    BY <1>1, <1>2, <1>3 DEF Jobs

LEMMA SentIsQueued == Sent = Range(queue) \cup Range(taken) \cup Jobs
BY DEF Sent, Jobs

\* Without faults nothing that left the poller is forgotten.
LEMMA SentGrows ==
    TypeOK /\ [Next]_vars /\ faults' = 0 => faults = 0 /\ Sent \subseteq Sent'
<1> SUFFICES ASSUME TypeOK, [Next]_vars, faults' = 0
             PROVE  faults = 0 /\ Sent \subseteq Sent'
    OBVIOUS
<1>1. ASSUME NEW r \in Refs, Push(r) PROVE faults = 0 /\ Sent \subseteq Sent'
    BY <1>1 DEF Push, Sent, Ids, Range, scheduling
<1>2. CASE Reload
    BY <1>2 DEF Reload, Sent, Ids, Range, scheduling
<1>3. CASE Scan
    BY <1>3 DEF Scan, Sent, Ids, Range, scheduling
<1>4. CASE Send
    <2>1. PICK j \in todo : queue' = Append(queue, j)
        BY <1>4 DEF Send
    <2>2. taken' = taken /\ builds' = builds /\ faults' = faults
        BY <1>4 DEF Send, scheduling
    <2>3. Range(queue') = Range(queue) \cup {j}
        BY <2>1, RangeOfAppend DEF TypeOK
    <2> QED
        BY <2>2, <2>3 DEF Sent, Ids, Range
<1>5. CASE Advance
    BY <1>5 DEF Advance, Sent, Ids, Range, scheduling
<1>6. CASE AdvanceFails
    BY <1>6 DEF AdvanceFails, TypeOK
<1>7. CASE Take
    <2>1. /\ taken = <<>> /\ taken' = <<Head(queue)>> /\ queue' = Tail(queue)
          /\ builds' = builds /\ faults' = faults
        BY <1>7 DEF Take
    <2>2. Range(queue) = Range(queue') \cup {Head(queue)} /\ Head(queue) \in Job
        BY <1>7, <2>1, RangeOfTail, HeadTailProperties DEF Take, TypeOK
    <2>3. Range(taken') = {Head(queue)} /\ Range(taken) = {}
        BY <2>1, <2>2, RangeOfOne DEF Range
    <2> QED
        BY <2>1, <2>2, <2>3 DEF Sent, Ids
<1>8. CASE Start
    <2>1. queue' = queue /\ taken' = <<>> /\ faults' = faults
        BY <1>8 DEF Start
    <2>2. Range(taken) = {Head(taken)}
        BY <1>8, StartAdds, RangeOfOne
    <2>3. Jobs' = Jobs \cup {Head(taken)}
        BY <1>8, JobsOfStart
    <2> QED
        BY <2>1, <2>2, <2>3 DEF Sent, Jobs, Range
<1>9. ASSUME NEW i \in Ids, Record(i) PROVE faults = 0 /\ Sent \subseteq Sent'
    <2>1. KeepsJobs
        BY <1>9, RowIsWritten DEF Record, Becomes, Ends, Unfinished, Finished
    <2>2. queue' = queue /\ taken' = taken /\ faults' = faults
        BY <1>9 DEF Record, scheduling
    <2> QED
        BY <2>1, <2>2, JobsOfKept, SentIsQueued DEF Sent, Jobs
<1>10. ASSUME NEW i \in Ids, RunSteps(i)
       PROVE  faults = 0 /\ Sent \subseteq Sent'
    <2>1. KeepsJobs
        BY <1>10, RowIsWritten DEF RunSteps, Becomes, Ends, Unfinished, Finished
    <2>2. queue' = queue /\ taken' = taken /\ faults' = faults
        BY <1>10 DEF RunSteps, scheduling
    <2> QED
        BY <2>1, <2>2, JobsOfKept, SentIsQueued DEF Sent, Jobs
<1>11. ASSUME NEW i \in Ids, Conclude(i)
       PROVE  faults = 0 /\ Sent \subseteq Sent'
    <2>1. KeepsJobs
        BY <1>11, RowIsWritten DEF Conclude, Becomes, Ends, Unfinished, Finished
    <2>2. queue' = queue /\ taken' = taken /\ faults' = faults
        BY <1>11 DEF Conclude, scheduling
    <2> QED
        BY <2>1, <2>2, JobsOfKept, SentIsQueued DEF Sent, Jobs
<1>12. ASSUME NEW i \in Ids, Return(i) PROVE faults = 0 /\ Sent \subseteq Sent'
    <2>1. KeepsJobs
        BY <1>12, GoroutineEnds DEF Return, Becomes, Ends, Unfinished, Finished
    <2>2. queue' = queue /\ taken' = taken /\ faults' = faults
        BY <1>12 DEF Return, scheduling
    <2> QED
        BY <2>1, <2>2, JobsOfKept, SentIsQueued DEF Sent, Jobs
<1>13. ASSUME NEW i \in Ids, RecordFails(i)
       PROVE  faults = 0 /\ Sent \subseteq Sent'
    BY <1>13 DEF RecordFails, TypeOK
<1>14. ASSUME NEW i \in Ids, RetryChecks(i)
       PROVE  faults = 0 /\ Sent \subseteq Sent'
    BY <1>14 DEF RetryChecks, Sent, Ids, Range, scheduling
<1>15. CASE RetrySends
    <2>1. PICK j \in Job : queue' = Append(queue, j)
        BY <1>15, RetryIsSent
    <2>2. taken' = taken /\ builds' = builds /\ faults' = faults
        BY <1>15 DEF RetrySends, scheduling
    <2>3. Range(queue') = Range(queue) \cup {j}
        BY <2>1, RangeOfAppend DEF TypeOK
    <2> QED
        BY <2>2, <2>3 DEF Sent, Ids, Range
<1>16. CASE Crash
    BY <1>16 DEF Crash, TypeOK
<1>17. CASE Restart
    <2>1. KeepsJobs
        BY <1>17, RestartInterrupts
           DEF Restart, Becomes, Ends, Unfinished, Finished
    <2>2. queue' = queue /\ taken' = taken /\ faults' = faults
        BY <1>17 DEF Restart, scheduling
    <2> QED
        BY <2>1, <2>2, JobsOfKept, SentIsQueued DEF Sent, Jobs
<1>18. CASE UNCHANGED vars
    BY <1>18 DEF vars, Sent, Ids, Range, scheduling
<1> QED
    BY <1>1, <1>2, <1>3, <1>4, <1>5, <1>6, <1>7, <1>8, <1>9, <1>10, <1>11,
       <1>12, <1>13, <1>14, <1>15, <1>16, <1>17, <1>18
       DEF Next, BuildStep

\* One job has its turn.
LEMMA TurnIsOne ==
    ASSUME TypeOK, TodoIsOrderly, NEW j \in todo, IsTurn(j)
    PROVE  \A k \in todo : IsTurn(k) <=> k = j
<1>1. \A k \in todo : k.ref \in Int
    BY DEF TypeOK, Job, Refs
<1>2. \A k \in todo : IsTurn(k) => k.ref = j.ref
    BY <1>1 DEF IsTurn
<1> QED
    BY <1>2 DEF TodoIsOrderly

\* Every step keeps a job sent until its ref is advanced.
LEMMA AdvancedStays ==
    TypeOK /\ TodoIsOrderly /\ AdvancedIsSent /\ [Next]_vars /\ faults' = 0
        => AdvancedIsSent'
<1> SUFFICES ASSUME TypeOK, TodoIsOrderly, AdvancedIsSent, [Next]_vars,
                    faults' = 0
             PROVE  AdvancedIsSent'
    OBVIOUS
<1>1. ASSUME NEW r \in Refs, Push(r) PROVE AdvancedIsSent'
    <2>1. poller' = poller /\ todo' = todo
        BY <1>1 DEF Push, polling
    <2> QED
        BY <2>1, SentGrows DEF AdvancedIsSent, IsTurn
<1>2. CASE Reload
    <2>1. poller' = poller /\ todo' = todo
        BY <1>2 DEF Reload, polling
    <2> QED
        BY <2>1, SentGrows DEF AdvancedIsSent, IsTurn
<1>3. CASE Scan
    BY <1>3 DEF Scan, AdvancedIsSent
<1>4. CASE Send
    <2>1. PICK j \in todo : IsTurn(j) /\ queue' = Append(queue, j)
        BY <1>4 DEF Send
    <2>2. todo' = todo /\ j \in Job
        BY <1>4 DEF Send, TypeOK
    <2>3. j \in Sent'
        <3>1. Range(queue') = Range(queue) \cup {j}
            BY <2>1, <2>2, RangeOfAppend DEF TypeOK
        <3> QED
            BY <3>1 DEF Sent, Range
    <2>4. \A k \in todo : IsTurn(k) => k = j
        BY <2>1, TurnIsOne
    <2> QED
        BY <2>2, <2>3, <2>4 DEF AdvancedIsSent, IsTurn
<1>5. CASE Advance
    BY <1>5 DEF Advance, AdvancedIsSent
<1>6. CASE AdvanceFails
    BY <1>6 DEF AdvanceFails, AdvancedIsSent
<1>7. CASE Take
    <2>1. poller' = poller /\ todo' = todo
        BY <1>7 DEF Take, polling
    <2> QED
        BY <2>1, SentGrows DEF AdvancedIsSent, IsTurn
<1>8. CASE Start
    <2>1. poller' = poller /\ todo' = todo
        BY <1>8 DEF Start, polling
    <2> QED
        BY <2>1, SentGrows DEF AdvancedIsSent, IsTurn
<1>9. ASSUME NEW i \in Ids, Record(i) PROVE AdvancedIsSent'
    <2>1. poller' = poller /\ todo' = todo
        BY <1>9 DEF Record, polling
    <2> QED
        BY <2>1, SentGrows DEF AdvancedIsSent, IsTurn
<1>10. ASSUME NEW i \in Ids, RunSteps(i) PROVE AdvancedIsSent'
    <2>1. poller' = poller /\ todo' = todo
        BY <1>10 DEF RunSteps, polling
    <2> QED
        BY <2>1, SentGrows DEF AdvancedIsSent, IsTurn
<1>11. ASSUME NEW i \in Ids, Conclude(i) PROVE AdvancedIsSent'
    <2>1. poller' = poller /\ todo' = todo
        BY <1>11 DEF Conclude, polling
    <2> QED
        BY <2>1, SentGrows DEF AdvancedIsSent, IsTurn
<1>12. ASSUME NEW i \in Ids, Return(i) PROVE AdvancedIsSent'
    <2>1. poller' = poller /\ todo' = todo
        BY <1>12 DEF Return, polling
    <2> QED
        BY <2>1, SentGrows DEF AdvancedIsSent, IsTurn
<1>13. ASSUME NEW i \in Ids, RecordFails(i) PROVE AdvancedIsSent'
    <2>1. poller' = poller /\ todo' = todo
        BY <1>13 DEF RecordFails, polling
    <2> QED
        BY <2>1, SentGrows DEF AdvancedIsSent, IsTurn
<1>14. ASSUME NEW i \in Ids, RetryChecks(i) PROVE AdvancedIsSent'
    <2>1. poller' = poller /\ todo' = todo
        BY <1>14 DEF RetryChecks, polling
    <2> QED
        BY <2>1, SentGrows DEF AdvancedIsSent, IsTurn
<1>15. CASE RetrySends
    <2>1. poller' = poller /\ todo' = todo
        BY <1>15 DEF RetrySends, polling
    <2> QED
        BY <2>1, SentGrows DEF AdvancedIsSent, IsTurn
<1>16. CASE Crash
    BY <1>16 DEF Crash, AdvancedIsSent
<1>17. CASE Restart
    <2>1. poller' = poller /\ todo' = todo
        BY <1>17 DEF Restart, polling
    <2> QED
        BY <2>1, SentGrows DEF AdvancedIsSent, IsTurn
<1>18. CASE UNCHANGED vars
    <2>1. poller' = poller /\ todo' = todo
        BY <1>18 DEF vars, polling
    <2> QED
        BY <2>1, SentGrows DEF AdvancedIsSent, IsTurn
<1> QED
    BY <1>1, <1>2, <1>3, <1>4, <1>5, <1>6, <1>7, <1>8, <1>9, <1>10, <1>11,
       <1>12, <1>13, <1>14, <1>15, <1>16, <1>17, <1>18
       DEF Next, BuildStep

\* Every step keeps the refs behind the queue.
LEMMA RefsStay ==
    TypeOK /\ AdvancedIsSent /\ RefsFollowQueue /\ [Next]_vars /\ faults' = 0
        => RefsFollowQueue'
<1> SUFFICES ASSUME TypeOK, AdvancedIsSent, RefsFollowQueue, [Next]_vars,
                    faults' = 0
             PROVE  RefsFollowQueue'
    OBVIOUS
<1>1. ASSUME NEW r \in Refs, Push(r) PROVE RefsFollowQueue'
    <2>1. refSHA' = refSHA
        BY <1>1 DEF Push
    <2> QED
        BY <2>1, SentGrows DEF RefsFollowQueue, Accounted
<1>2. CASE Reload
    <2>1. refSHA' = refSHA
        BY <1>2 DEF Reload
    <2> QED
        BY <2>1, SentGrows DEF RefsFollowQueue, Accounted
<1>3. CASE Scan
    <2>1. refSHA' = [r \in Refs |-> IF r \in Skipped THEN tip[r] ELSE refSHA[r]]
        BY <1>3 DEF Scan
    <2> QED
        BY <2>1, SentGrows DEF RefsFollowQueue, Accounted, Skipped
<1>4. CASE Send
    <2>1. refSHA' = refSHA
        BY <1>4 DEF Send
    <2> QED
        BY <2>1, SentGrows DEF RefsFollowQueue, Accounted
<1>5. CASE Advance
    <2>1. PICK j \in todo : IsTurn(j) /\ refSHA' = [refSHA EXCEPT ![j.ref] = j.sha]
        BY <1>5 DEF Advance
    <2>2. \E k \in Sent' : k.ref = j.ref /\ k.sha = j.sha
        BY <1>5, <2>1, SentGrows DEF Advance, AdvancedIsSent
    <2>3. \A r \in Refs : r # j.ref => refSHA'[r] = refSHA[r]
        BY <2>1 DEF TypeOK
    <2>4. j.ref \in Refs => refSHA'[j.ref] = j.sha
        BY <2>1 DEF TypeOK
    <2> QED
        BY <2>2, <2>3, <2>4, SentGrows DEF RefsFollowQueue, Accounted
<1>6. CASE AdvanceFails
    BY <1>6 DEF AdvanceFails, TypeOK
<1>7. CASE Take
    <2>1. refSHA' = refSHA
        BY <1>7 DEF Take
    <2> QED
        BY <2>1, SentGrows DEF RefsFollowQueue, Accounted
<1>8. CASE Start
    <2>1. refSHA' = refSHA
        BY <1>8 DEF Start
    <2> QED
        BY <2>1, SentGrows DEF RefsFollowQueue, Accounted
<1>9. ASSUME NEW i \in Ids, Record(i) PROVE RefsFollowQueue'
    <2>1. refSHA' = refSHA
        BY <1>9 DEF Record
    <2> QED
        BY <2>1, SentGrows DEF RefsFollowQueue, Accounted
<1>10. ASSUME NEW i \in Ids, RunSteps(i) PROVE RefsFollowQueue'
    <2>1. refSHA' = refSHA
        BY <1>10 DEF RunSteps
    <2> QED
        BY <2>1, SentGrows DEF RefsFollowQueue, Accounted
<1>11. ASSUME NEW i \in Ids, Conclude(i) PROVE RefsFollowQueue'
    <2>1. refSHA' = refSHA
        BY <1>11 DEF Conclude
    <2> QED
        BY <2>1, SentGrows DEF RefsFollowQueue, Accounted
<1>12. ASSUME NEW i \in Ids, Return(i) PROVE RefsFollowQueue'
    <2>1. refSHA' = refSHA
        BY <1>12 DEF Return
    <2> QED
        BY <2>1, SentGrows DEF RefsFollowQueue, Accounted
<1>13. ASSUME NEW i \in Ids, RecordFails(i) PROVE RefsFollowQueue'
    BY <1>13 DEF RecordFails, TypeOK
<1>14. ASSUME NEW i \in Ids, RetryChecks(i) PROVE RefsFollowQueue'
    <2>1. refSHA' = refSHA
        BY <1>14 DEF RetryChecks
    <2> QED
        BY <2>1, SentGrows DEF RefsFollowQueue, Accounted
<1>15. CASE RetrySends
    <2>1. refSHA' = refSHA
        BY <1>15 DEF RetrySends
    <2> QED
        BY <2>1, SentGrows DEF RefsFollowQueue, Accounted
<1>16. CASE Crash
    BY <1>16 DEF Crash, TypeOK
<1>17. CASE Restart
    <2>1. refSHA' = refSHA
        BY <1>17 DEF Restart
    <2> QED
        BY <2>1, SentGrows DEF RefsFollowQueue, Accounted
<1>18. CASE UNCHANGED vars
    <2>1. refSHA' = refSHA
        BY <1>18 DEF vars
    <2> QED
        BY <2>1, SentGrows DEF RefsFollowQueue, Accounted
<1> QED
    BY <1>1, <1>2, <1>3, <1>4, <1>5, <1>6, <1>7, <1>8, <1>9, <1>10, <1>11,
       <1>12, <1>13, <1>14, <1>15, <1>16, <1>17, <1>18
       DEF Next, BuildStep

----------------------------------------------------------------------------
\* Pushes and the poller's jobs

LEMMA RefsAreFinite ==
    ASSUME NEW S, S \subseteq Refs
    PROVE  IsFiniteSet(S) /\ Cardinality(S) \in Nat
<1>1. IsFiniteSet(Refs)
    BY SizeAssumption, FS_Interval DEF Refs
<1>2. IsFiniteSet(S)
    BY <1>1, FS_Subset
<1> QED
    BY <1>2, FS_CardinalityType

LEMMA PolledIsCounted ==
    ASSUME TypeOK
    PROVE  /\ ByPoll(queue) \in Nat /\ ByPoll(taken) \in Nat
           /\ ByPoll(JobsOf(builds)) \in Nat /\ Polled \in Nat
           /\ Cardinality(Waiting) \in Nat /\ Cardinality(Behind) \in Nat
           /\ pushes \in Nat /\ faults \in Nat
<1>1. /\ ByPoll(queue) \in Nat /\ ByPoll(taken) \in Nat
      /\ ByPoll(JobsOf(builds)) \in Nat
    BY PollsAreFinite, JobsAreJobs DEF TypeOK
<1>2. Waiting \subseteq Refs /\ Behind \subseteq Refs
    BY DEF Waiting, Behind
<1>3. Cardinality(Waiting) \in Nat /\ Cardinality(Behind) \in Nat
    BY <1>2, RefsAreFinite
<1>4. pushes \in Nat /\ faults \in Nat
    BY SizeAssumption DEF TypeOK
<1> QED
    BY <1>1, <1>3, <1>4 DEF Polled

\* A step that leaves the poller, the remote and the number of its jobs alone.
LEMMA NothingIsPaid ==
    ASSUME TypeOK, PushesPay, faults' \in {faults, faults + 1},
           polling' = polling, remote' = remote, refSHA' = refSHA,
           Polled' = Polled
    PROVE  PushesPay'
<1>1. todo' = todo /\ poller' = poller /\ tip' = tip /\ pushes' = pushes
    BY DEF polling, remote
<1>2. Waiting' = Waiting
    BY <1>1 DEF Waiting, IsTurn
<1>3. Behind' = Behind
    BY <1>1 DEF Behind
<1> QED
    BY <1>1, <1>2, <1>3, PolledIsCounted DEF PushesPay

\* A fault that ends the poller's round: of the refs that had a job, only the
\* one whose job was sent is looked at again without having been waiting.
LEMMA FaultsPay ==
    ASSUME TypeOK, TodoIsOrderly, PushesPay, faults' = faults + 1, todo' = {},
           remote' = remote, refSHA' = refSHA, Polled' \in Nat, Polled' <= Polled
    PROVE  PushesPay'
<1> DEFINE turn == {j.ref : j \in {k \in todo : IsTurn(k)}}
<1>1. tip' = tip /\ pushes' = pushes
    BY DEF remote
<1>2. Waiting' = {} /\ Behind' = {r \in Refs : refSHA[r] # tip[r]}
    BY <1>1 DEF Waiting, Behind
<1>3. Behind' \subseteq (Waiting \cup Behind) \cup turn
    <2> SUFFICES ASSUME NEW r \in Refs, refSHA[r] # tip[r], r \notin Behind,
                        r \notin turn
                 PROVE  r \in Waiting
        BY <1>2
    <2>1. PICK j \in todo : j.ref = r
        BY DEF Behind
    <2>2. ~IsTurn(j)
        BY <2>1
    <2> QED
        BY <2>1, <2>2 DEF Waiting
<1>4. \E r : turn \subseteq {r}
    <2>1. CASE turn = {}
        BY <2>1
    <2>2. CASE turn # {}
        <3>1. PICK j \in todo : IsTurn(j)
            BY <2>2
        <3>2. \A k \in todo : IsTurn(k) => k = j
            BY <3>1, TurnIsOne
        <3>3. turn \subseteq {j.ref}
            BY <3>2
        <3> QED
            BY <3>3
    <2> QED
        BY <2>1, <2>2
<1> HIDE DEF turn
<1>5. /\ IsFiniteSet(Waiting) /\ IsFiniteSet(Behind)
      /\ Cardinality(Waiting) \in Nat /\ Cardinality(Behind) \in Nat
      /\ Cardinality(Behind') \in Nat
    BY RefsAreFinite, <1>2 DEF Waiting, Behind
<1> DEFINE both == Waiting \cup Behind
<1>6. IsFiniteSet(both) /\ Cardinality(both) <= Cardinality(Waiting) + Cardinality(Behind)
    <2>1. /\ IsFiniteSet(both) /\ IsFiniteSet(Waiting \cap Behind)
          /\ Cardinality(both) = Cardinality(Waiting) + Cardinality(Behind)
                                    - Cardinality(Waiting \cap Behind)
        BY <1>5, FS_Union, FS_Intersection
    <2>2. Cardinality(Waiting \cap Behind) \in Nat
        BY <2>1, FS_CardinalityType
    <2> QED
        BY <1>5, <2>1, <2>2
<1>7. Cardinality(both) \in Nat
    BY <1>6, FS_CardinalityType
<1> HIDE DEF both
<1>8. Cardinality(Behind') <= Cardinality(both) + 1
    <2>1. PICK r : Behind' \subseteq both \cup {r}
        BY <1>3, <1>4 DEF both
    <2>2. /\ IsFiniteSet(both \cup {r})
          /\ \/ Cardinality(both \cup {r}) = Cardinality(both)
             \/ Cardinality(both \cup {r}) = Cardinality(both) + 1
        BY <1>6, FS_AddElement
    <2>3. Cardinality(Behind') <= Cardinality(both \cup {r})
        BY <2>1, <2>2, FS_Subset
    <2> QED
        BY <1>5, <1>7, <2>2, <2>3
<1>9. Cardinality(Waiting') = 0
    BY <1>2, FS_EmptySet
<1> QED
    BY <1>1, <1>5, <1>6, <1>7, <1>8, <1>9, PolledIsCounted DEF PushesPay

\* Every step is paid for by a push or a fault.
LEMMA PushesStayPaid ==
    TypeOK /\ TodoIsOrderly /\ RetriesAreMarked /\ PushesPay /\ [Next]_vars
        => PushesPay'
<1> SUFFICES ASSUME TypeOK, TodoIsOrderly, RetriesAreMarked, PushesPay,
                    [Next]_vars
             PROVE  PushesPay'
    OBVIOUS
<1>1. ASSUME NEW r \in Refs, Push(r) PROVE PushesPay'
    <2>1. /\ tip' \in [Refs -> Commits] /\ \A q \in Refs : q # r => tip'[q] = tip[q]
          /\ pushes' = pushes + 1 /\ poller' = poller /\ todo' = todo
          /\ refSHA' = refSHA /\ faults' = faults
          /\ queue' = queue /\ taken' = taken /\ builds' = builds
        BY <1>1 DEF Push, TypeOK, Commits, polling, scheduling
    <2>2. Polled' = Polled /\ Waiting' = Waiting
        BY <2>1 DEF Polled, JobsOf, Waiting, IsTurn
    <2>3. Behind' \subseteq Behind \cup {r}
        BY <2>1 DEF Behind
    <2>4. Cardinality(Behind') <= Cardinality(Behind) + 1 /\ Cardinality(Behind') \in Nat
        <3>1. Behind \subseteq Refs /\ Behind' \subseteq Refs
            BY DEF Behind
        <3>2. /\ IsFiniteSet(Behind)
              /\ Cardinality(Behind) \in Nat
              /\ Cardinality(Behind') \in Nat
            BY <3>1, RefsAreFinite
        <3>3. /\ IsFiniteSet(Behind \cup {r})
              /\ \/ Cardinality(Behind \cup {r}) = Cardinality(Behind)
                 \/ Cardinality(Behind \cup {r}) = Cardinality(Behind) + 1
            BY <3>2, FS_AddElement
        <3>4. Cardinality(Behind') <= Cardinality(Behind \cup {r})
            BY <2>3, <3>3, FS_Subset
        <3> QED
            BY <3>2, <3>3, <3>4
    <2> QED
        BY <2>1, <2>2, <2>4, PolledIsCounted DEF PushesPay
<1>2. CASE Reload
    <2>1. /\ queue' = queue /\ taken' = taken /\ builds' = builds /\ faults' = faults
          /\ polling' = polling /\ remote' = remote /\ refSHA' = refSHA
        BY <1>2 DEF Reload, scheduling
    <2>2. Polled' = Polled
        BY <2>1 DEF Polled, JobsOf
    <2> QED
        BY <2>1, <2>2, NothingIsPaid
<1>3. CASE Scan
    <2>1. /\ todo = {} /\ faults' = faults /\ pushes' = pushes /\ tip' = tip
          /\ queue' = queue /\ taken' = taken /\ builds' = builds
        BY <1>3 DEF Scan, TodoIsOrderly, remote, scheduling
    <2>2. /\ refSHA' = [r \in Refs |-> IF r \in Skipped THEN tip[r] ELSE refSHA[r]]
          /\ todo' = {[ref |-> r, sha |-> tip[r], by |-> "poll"] : r \in Moved \ Skipped}
        BY <1>3 DEF Scan
    <2>3. /\ \A j \in todo' : j.ref \in Moved /\ j.sha = tip[j.ref]
          /\ \A r \in Moved \ Skipped : \E j \in todo' : j.ref = r
        <3> DEFINE job(r) == [ref |-> r, sha |-> tip[r], by |-> "poll"]
        <3>1. \A r \in Moved : job(r).ref = r /\ job(r).sha = tip[r]
            OBVIOUS
        <3>2. todo' = {job(r) : r \in Moved \ Skipped}
            BY <2>2
        <3> HIDE DEF job
        <3> QED
            BY <3>1, <3>2
    <2>4. Waiting = {} /\ Behind = Moved
        BY <2>1 DEF Waiting, Behind, Moved
    <2>5. Waiting' \subseteq Moved
        BY <2>3 DEF Waiting
    <2>6. Behind' = {}
        <3>1. \A r \in Refs : r \notin Moved \ Skipped => refSHA'[r] = tip[r]
            BY <2>2 DEF Moved
        <3> QED
            BY <2>1, <2>3, <3>1 DEF Behind
    <2>7. Polled' = Polled
        BY <2>1 DEF Polled, JobsOf
    <2>8. Cardinality(Waiting') <= Cardinality(Behind)
        <3>1. IsFiniteSet(Moved)
            BY RefsAreFinite DEF Moved
        <3> QED
            BY <2>4, <2>5, <3>1, FS_Subset
    <2>9. Cardinality(Waiting) = 0 /\ Cardinality(Behind') = 0
        BY <2>4, <2>6, FS_EmptySet
    <2>10. Cardinality(Waiting') \in Nat
        BY RefsAreFinite DEF Waiting
    <2> QED
        BY <2>1, <2>7, <2>8, <2>9, <2>10, PolledIsCounted DEF PushesPay
<1>4. CASE Send
    <2>1. PICK j \in todo : IsTurn(j) /\ queue' = Append(queue, j)
        BY <1>4 DEF Send
    <2>2. /\ todo' = todo /\ faults' = faults /\ pushes' = pushes /\ tip' = tip
          /\ refSHA' = refSHA /\ taken' = taken /\ builds' = builds
          /\ poller = "send" /\ poller' = "advance"
        BY <1>4 DEF Send, remote, scheduling
    <2>3. j \in Job /\ j.by = "poll" /\ j.ref \in Refs
        BY DEF TypeOK, TodoIsOrderly, Job
    <2>4. ByPoll(queue') = ByPoll(queue) + 1
        BY <2>1, <2>3, PollsOfAppend DEF TypeOK, Counts
    <2>5. Polled' = Polled + 1
        BY <2>2, <2>4, PolledIsCounted DEF Polled, JobsOf
    <2>6. Behind' = Behind
        BY <2>2 DEF Behind
    <2>7. Waiting' = Waiting \ {j.ref} /\ j.ref \in Waiting
        <3>1. \A k \in todo : IsTurn(k) <=> k = j
            BY <2>1, TurnIsOne
        <3>2. Waiting = {r \in Refs : \E k \in todo : k.ref = r}
            BY <2>2 DEF Waiting
        <3>3. Waiting' = {r \in Refs : \E k \in todo : k.ref = r /\ k # j}
            BY <2>2, <3>1 DEF Waiting, IsTurn
        <3>4. \A k \in todo : k.ref = j.ref => k = j
            BY DEF TodoIsOrderly
        <3> QED
            BY <2>3, <3>2, <3>3, <3>4
    <2>8. Cardinality(Waiting') = Cardinality(Waiting) - 1
        <3>1. IsFiniteSet(Waiting)
            BY RefsAreFinite DEF Waiting
        <3> QED
            BY <2>7, <3>1, FS_RemoveElement
    <2> QED
        BY <2>2, <2>5, <2>6, <2>8, PolledIsCounted DEF PushesPay
<1>5. CASE Advance
    <2>1. PICK j \in todo : /\ IsTurn(j) /\ todo' = todo \ {j}
                           /\ refSHA' = [refSHA EXCEPT ![j.ref] = j.sha]
        BY <1>5 DEF Advance
    <2>2. /\ faults' = faults /\ pushes' = pushes /\ tip' = tip /\ queue' = queue
          /\ taken' = taken /\ builds' = builds
          /\ poller = "advance" /\ poller' # "advance"
        BY <1>5 DEF Advance, remote, scheduling
    <2>3. Polled' = Polled
        BY <2>2 DEF Polled, JobsOf
    <2>4. j.ref \in Refs /\ \A k \in todo : k.ref = j.ref => k = j
        BY DEF TypeOK, TodoIsOrderly, Job
    <2>5. Waiting' = Waiting
        <3>1. \A k \in todo : IsTurn(k) <=> k = j
            BY <2>1, TurnIsOne
        <3>2. Waiting = {r \in Refs : \E k \in todo : k.ref = r /\ k # j}
            BY <2>2, <3>1 DEF Waiting
        <3>3. Waiting' = {r \in Refs : \E k \in todo' : k.ref = r}
            BY <2>2 DEF Waiting
        <3> QED
            BY <2>1, <3>2, <3>3
    <2>6. refSHA'[j.ref] = j.sha /\ \A r \in Refs : r # j.ref => refSHA'[r] = refSHA[r]
        BY <2>1, <2>4 DEF TypeOK
    <2>7. Behind' = Behind
        BY <2>1, <2>2, <2>4, <2>6 DEF Behind
    <2> QED
        BY <2>2, <2>3, <2>5, <2>7 DEF PushesPay
<1>6. CASE AdvanceFails
    <2>1. /\ faults' = faults + 1 /\ todo' = {} /\ remote' = remote
          /\ refSHA' = refSHA
          /\ queue' = queue /\ taken' = taken /\ builds' = builds
        BY <1>6 DEF AdvanceFails, scheduling
    <2>2. Polled' = Polled
        BY <2>1 DEF Polled, JobsOf
    <2> QED
        BY <2>1, <2>2, FaultsPay, PolledIsCounted
<1>7. CASE Take
    <2>1. /\ taken = <<>> /\ taken' = <<Head(queue)>> /\ queue' = Tail(queue)
          /\ builds' = builds /\ faults' = faults /\ queue # <<>> /\ queue \in Seq(Job)
          /\ polling' = polling /\ remote' = remote /\ refSHA' = refSHA
        BY <1>7 DEF Take, TypeOK
    <2>2. /\ Head(queue) \in Job /\ ByPoll(queue) = ByPoll(queue') + Counts(Head(queue))
          /\ ByPoll(queue') \in Nat
        BY <2>1, HeadTailProperties, PollsOfTail, PollsAreFinite
    <2>3. ByPoll(taken) = 0 /\ ByPoll(taken') = Counts(Head(queue))
        BY <2>1, <2>2, NoPolls, PollsOfOne
    <2>4. Polled' = Polled
        BY <2>1, <2>2, <2>3, PolledIsCounted DEF Polled, JobsOf, Counts
    <2> QED
        BY <2>1, <2>4, NothingIsPaid
<1>8. CASE Start
    <2>1. /\ queue' = queue /\ taken' = <<>> /\ faults' = faults
          /\ polling' = polling /\ remote' = remote /\ refSHA' = refSHA
        BY <1>8 DEF Start
    <2>2. /\ Head(taken) \in Job
          /\ ByPoll(taken) = Counts(Head(taken))
          /\ ByPoll(taken') = 0
        BY <1>8, <2>1, StartAdds, PollsOfOne, NoPolls
    <2>3. ByPoll(JobsOf(builds)') = ByPoll(JobsOf(builds)) + Counts(Head(taken))
        BY <1>8, <2>2, JobIsAdded, JobsAreJobs, PollsOfAppend
    <2>4. Polled' = Polled
        BY <2>1, <2>2, <2>3, PolledIsCounted DEF Polled, Counts
    <2> QED
        BY <2>1, <2>4, NothingIsPaid
<1>9. ASSUME NEW i \in Ids, Record(i) PROVE PushesPay'
    <2>1. KeepsJobs
        BY <1>9, RowIsWritten DEF Record, Becomes, Ends, Unfinished, Finished
    <2>2. /\ queue' = queue /\ taken' = taken /\ faults' = faults
          /\ polling' = polling /\ remote' = remote /\ refSHA' = refSHA
        BY <1>9 DEF Record, scheduling
    <2>3. Polled' = Polled
        BY <2>1, <2>2, JobsAreKept DEF Polled
    <2> QED
        BY <2>2, <2>3, NothingIsPaid
<1>10. ASSUME NEW i \in Ids, RunSteps(i) PROVE PushesPay'
    <2>1. KeepsJobs
        BY <1>10, RowIsWritten DEF RunSteps, Becomes, Ends, Unfinished, Finished
    <2>2. /\ queue' = queue /\ taken' = taken /\ faults' = faults
          /\ polling' = polling /\ remote' = remote /\ refSHA' = refSHA
        BY <1>10 DEF RunSteps, scheduling
    <2>3. Polled' = Polled
        BY <2>1, <2>2, JobsAreKept DEF Polled
    <2> QED
        BY <2>2, <2>3, NothingIsPaid
<1>11. ASSUME NEW i \in Ids, Conclude(i) PROVE PushesPay'
    <2>1. KeepsJobs
        BY <1>11, RowIsWritten DEF Conclude, Becomes, Ends, Unfinished, Finished
    <2>2. /\ queue' = queue /\ taken' = taken /\ faults' = faults
          /\ polling' = polling /\ remote' = remote /\ refSHA' = refSHA
        BY <1>11 DEF Conclude, scheduling
    <2>3. Polled' = Polled
        BY <2>1, <2>2, JobsAreKept DEF Polled
    <2> QED
        BY <2>2, <2>3, NothingIsPaid
<1>12. ASSUME NEW i \in Ids, Return(i) PROVE PushesPay'
    <2>1. KeepsJobs
        BY <1>12, GoroutineEnds DEF Return, Becomes, Ends, Unfinished, Finished
    <2>2. /\ queue' = queue /\ taken' = taken /\ faults' = faults
          /\ polling' = polling /\ remote' = remote /\ refSHA' = refSHA
        BY <1>12 DEF Return, scheduling
    <2>3. Polled' = Polled
        BY <2>1, <2>2, JobsAreKept DEF Polled
    <2> QED
        BY <2>2, <2>3, NothingIsPaid
<1>13. ASSUME NEW i \in Ids, RecordFails(i) PROVE PushesPay'
    <2>1. KeepsJobs
        BY <1>13, GoroutineEnds DEF RecordFails, Ends
    <2>2. /\ queue' = queue /\ taken' = taken /\ faults' = faults + 1
          /\ polling' = polling /\ remote' = remote /\ refSHA' = refSHA
        BY <1>13 DEF RecordFails
    <2>3. Polled' = Polled
        BY <2>1, <2>2, JobsAreKept DEF Polled
    <2> QED
        BY <2>2, <2>3, NothingIsPaid
<1>14. ASSUME NEW i \in Ids, RetryChecks(i) PROVE PushesPay'
    <2>1. /\ queue' = queue /\ taken' = taken /\ builds' = builds /\ faults' = faults
          /\ polling' = polling /\ remote' = remote /\ refSHA' = refSHA
        BY <1>14 DEF RetryChecks, scheduling
    <2>2. Polled' = Polled
        BY <2>1 DEF Polled, JobsOf
    <2> QED
        BY <2>1, <2>2, NothingIsPaid
<1>15. CASE RetrySends
    <2>1. /\ taken' = taken /\ builds' = builds /\ faults' = faults
          /\ polling' = polling /\ remote' = remote /\ refSHA' = refSHA
        BY <1>15 DEF RetrySends, scheduling
    <2>2. PICK j \in Job : queue' = Append(queue, j) /\ j.by = "retry"
        BY <1>15, RetryIsSent DEF RetriesAreMarked
    <2>3. ByPoll(queue') = ByPoll(queue)
        <3>1. Counts(j) = 0
            BY <2>2 DEF Counts
        <3>2. ByPoll(queue') = ByPoll(queue) + Counts(j)
            BY <2>2, PollsOfAppend DEF TypeOK
        <3> QED
            BY <3>1, <3>2, PolledIsCounted
    <2>4. Polled' = Polled
        BY <2>1, <2>3 DEF Polled, JobsOf
    <2> QED
        BY <2>1, <2>4, NothingIsPaid
<1>16. CASE Crash
    <2>1. KeepsJobs
        BY <1>16, CrashEndsAll
    <2>2. /\ queue' = <<>> /\ taken' = <<>> /\ todo' = {}
          /\ faults' = faults + 1 /\ remote' = remote /\ refSHA' = refSHA
        BY <1>16 DEF Crash
    <2>3. Polled' = ByPoll(JobsOf(builds))
        <3>1. JobsOf(builds)' = JobsOf(builds)
            BY <2>1, JobsAreKept
        <3> QED
            BY <2>2, <3>1, NoPolls, PolledIsCounted DEF Polled
    <2>4. Polled' \in Nat /\ Polled' <= Polled
        BY <2>3, PolledIsCounted DEF Polled
    <2> QED
        BY <2>2, <2>4, FaultsPay
<1>17. CASE Restart
    <2>1. KeepsJobs
        BY <1>17, RestartInterrupts
           DEF Restart, Becomes, Ends, Unfinished, Finished
    <2>2. /\ queue' = queue /\ taken' = taken /\ faults' = faults
          /\ polling' = polling /\ remote' = remote /\ refSHA' = refSHA
        BY <1>17 DEF Restart, scheduling
    <2>3. Polled' = Polled
        BY <2>1, <2>2, JobsAreKept DEF Polled
    <2> QED
        BY <2>2, <2>3, NothingIsPaid
<1>18. CASE UNCHANGED vars
    <2>1. /\ queue' = queue /\ taken' = taken /\ builds' = builds /\ faults' = faults
          /\ polling' = polling /\ remote' = remote /\ refSHA' = refSHA
        BY <1>18 DEF vars, scheduling
    <2>2. Polled' = Polled
        BY <2>1 DEF Polled, JobsOf
    <2> QED
        BY <2>1, <2>2, NothingIsPaid
<1> QED
    BY <1>1, <1>2, <1>3, <1>4, <1>5, <1>6, <1>7, <1>8, <1>9, <1>10, <1>11,
       <1>12, <1>13, <1>14, <1>15, <1>16, <1>17, <1>18
       DEF Next, BuildStep

----------------------------------------------------------------------------
\* The requests

LEMMA RetriedIsCounted ==
    ASSUME TypeOK
    PROVE  /\ ByRetry(queue) \in Nat /\ ByRetry(taken) \in Nat
           /\ ByRetry(JobsOf(builds)) \in Nat
           /\ Len(retrying) \in Nat /\ retries \in Nat
<1>1. /\ ByRetry(queue) \in Nat /\ ByRetry(taken) \in Nat
      /\ ByRetry(JobsOf(builds)) \in Nat
    BY RetriesAreTheRest, JobsAreJobs DEF TypeOK
<1>2. Len(retrying) \in Nat
    BY LenProperties DEF TypeOK
<1>3. retries \in Nat
    BY SizeAssumption DEF TypeOK
<1> QED
    BY <1>1, <1>2, <1>3

\* A step that leaves the handlers and the number of their jobs alone.
LEMMA NoRequestPays ==
    ASSUME RetriesPay, retryVars' = retryVars, Retried' = Retried
    PROVE  RetriesPay'
BY DEF RetriesPay, retryVars

\* ... because it touches neither the queue nor the table's jobs.
LEMMA NoJobMoves ==
    ASSUME TypeOK, RetriesPay, retryVars' = retryVars, queue' = queue,
           taken' = taken, builds' = builds \/ KeepsJobs
    PROVE  RetriesPay'
<1>1. JobsOf(builds)' = JobsOf(builds)
    <2>1. CASE builds' = builds
        BY <2>1 DEF JobsOf
    <2>2. CASE KeepsJobs
        BY <2>2, JobsAreKept
    <2> QED
        BY <2>1, <2>2
<1> QED
    BY <1>1, NoRequestPays DEF Retried

\* Every step is paid for by a request.
LEMMA RetriesStayPaid ==
    TypeOK /\ TodoIsOrderly /\ RetriesPay /\ [Next]_vars => RetriesPay'
<1> SUFFICES ASSUME TypeOK, TodoIsOrderly, RetriesPay, [Next]_vars
             PROVE  RetriesPay'
    OBVIOUS
<1>1. ASSUME NEW r \in Refs, Push(r) PROVE RetriesPay'
    BY <1>1, NoJobMoves DEF Push, scheduling
<1>2. CASE Reload
    BY <1>2, NoJobMoves DEF Reload, scheduling
<1>3. CASE Scan
    BY <1>3, NoJobMoves DEF Scan, scheduling
<1>4. CASE Send
    <2>1. PICK j \in todo : queue' = Append(queue, j)
        BY <1>4 DEF Send
    <2>2. j \in Job /\ Counts(j) = 1
        BY DEF TypeOK, TodoIsOrderly, Counts
    <2>3. ByRetry(queue') = ByRetry(queue)
        <3>1. ByRetry(queue') = ByRetry(queue) + 1 - Counts(j)
            BY <2>1, <2>2, RetriesOfAppend DEF TypeOK
        <3> QED
            BY <2>2, <3>1, RetriedIsCounted
    <2>4. retryVars' = retryVars /\ taken' = taken /\ builds' = builds
        BY <1>4 DEF Send, scheduling
    <2> QED
        BY <2>3, <2>4, NoRequestPays DEF Retried, JobsOf
<1>5. CASE Advance
    BY <1>5, NoJobMoves DEF Advance, scheduling
<1>6. CASE AdvanceFails
    BY <1>6, NoJobMoves DEF AdvanceFails, scheduling
<1>7. CASE Take
    <2>1. /\ taken = <<>> /\ taken' = <<Head(queue)>> /\ queue' = Tail(queue)
          /\ builds' = builds /\ queue # <<>> /\ queue \in Seq(Job)
          /\ retryVars' = retryVars
        BY <1>7 DEF Take, TypeOK
    <2>2. Head(queue) \in Job /\ Tail(queue) \in Seq(Job)
        BY <2>1, HeadTailProperties
    <2>3. /\ ByRetry(queue) = ByRetry(queue') + 1 - Counts(Head(queue))
          /\ ByRetry(queue') \in Nat
        BY <2>1, <2>2, RetriesOfTail, RetriesAreTheRest
    <2>4. ByRetry(taken) = 0 /\ ByRetry(taken') = 1 - Counts(Head(queue))
        BY <2>1, <2>2, NoRetries, RetriesOfOne
    <2>5. Retried' = Retried
        BY <2>1, <2>3, <2>4, RetriedIsCounted DEF Retried, JobsOf, Counts
    <2> QED
        BY <2>1, <2>5, NoRequestPays
<1>8. CASE Start
    <2>1. queue' = queue /\ taken' = <<>> /\ retryVars' = retryVars
        BY <1>8 DEF Start
    <2>2. /\ Head(taken) \in Job
          /\ ByRetry(taken) = 1 - Counts(Head(taken))
          /\ ByRetry(taken') = 0
        BY <1>8, <2>1, StartAdds, RetriesOfOne, NoRetries
    <2>3. ByRetry(JobsOf(builds)') = ByRetry(JobsOf(builds)) + 1 - Counts(Head(taken))
        BY <1>8, <2>2, JobIsAdded, JobsAreJobs, RetriesOfAppend
    <2>4. Retried' = Retried
        BY <2>1, <2>2, <2>3, RetriedIsCounted DEF Retried, Counts
    <2> QED
        BY <2>1, <2>4, NoRequestPays
<1>9. ASSUME NEW i \in Ids, Record(i) PROVE RetriesPay'
    <2>1. KeepsJobs
        BY <1>9, RowIsWritten DEF Record, Becomes, Unfinished, Finished
    <2> QED
        BY <1>9, <2>1, NoJobMoves DEF Record, scheduling
<1>10. ASSUME NEW i \in Ids, RunSteps(i) PROVE RetriesPay'
    <2>1. KeepsJobs
        BY <1>10, RowIsWritten DEF RunSteps, Becomes, Unfinished, Finished
    <2> QED
        BY <1>10, <2>1, NoJobMoves DEF RunSteps, scheduling
<1>11. ASSUME NEW i \in Ids, Conclude(i) PROVE RetriesPay'
    <2>1. KeepsJobs
        BY <1>11, RowIsWritten DEF Conclude, Becomes, Unfinished, Finished
    <2> QED
        BY <1>11, <2>1, NoJobMoves DEF Conclude, scheduling
<1>12. ASSUME NEW i \in Ids, Return(i) PROVE RetriesPay'
    <2>1. KeepsJobs
        BY <1>12, GoroutineEnds DEF Return, Ends
    <2> QED
        BY <1>12, <2>1, NoJobMoves DEF Return, scheduling
<1>13. ASSUME NEW i \in Ids, RecordFails(i) PROVE RetriesPay'
    <2>1. KeepsJobs
        BY <1>13, GoroutineEnds DEF RecordFails, Ends
    <2> QED
        BY <1>13, <2>1, NoJobMoves DEF RecordFails, scheduling
<1>14. ASSUME NEW i \in Ids, RetryChecks(i) PROVE RetriesPay'
    <2>1. /\ queue' = queue /\ taken' = taken /\ builds' = builds
          /\ retries' = retries + 1
        BY <1>14 DEF RetryChecks, scheduling
    <2>2. Len(retrying') = Len(retrying) + 1
        BY <1>14, RetryIsJob, AppendProperties DEF TypeOK
    <2>3. Retried' = Retried /\ Retried \in Nat
        BY <2>1, RetriedIsCounted DEF Retried, JobsOf
    <2> QED
        BY <2>1, <2>2, <2>3, RetriedIsCounted DEF RetriesPay
<1>15. CASE RetrySends
    <2>1. retries' = retries /\ taken' = taken /\ builds' = builds
        BY <1>15 DEF RetrySends, scheduling
    <2>2. PICK j \in Job : queue' = Append(queue, j)
        BY <1>15, RetryIsSent
    <2>3. Len(retrying') = Len(retrying) - 1
        BY <1>15, RetryIsSent
    <2>4. ByRetry(queue') = ByRetry(queue) + 1 - Counts(j)
        BY <2>2, RetriesOfAppend DEF TypeOK
    <2>5. Retried' = Retried + 1 - Counts(j) /\ Retried \in Nat
        BY <2>1, <2>4, RetriedIsCounted DEF Retried, JobsOf, Counts
    <2> QED
        BY <2>1, <2>3, <2>5, RetriedIsCounted DEF RetriesPay, Counts
<1>16. CASE Crash
    <2>1. /\ queue' = <<>> /\ taken' = <<>> /\ retrying' = <<>>
          /\ retries' = retries
        BY <1>16 DEF Crash
    <2>2. JobsOf(builds)' = JobsOf(builds)
        BY <1>16, CrashEndsAll, JobsAreKept
    <2>3. Retried' = ByRetry(JobsOf(builds)) /\ Len(retrying') = 0
        BY <2>1, <2>2, NoRetries, EmptySeq, RetriedIsCounted DEF Retried
    <2> QED
        BY <2>1, <2>3, RetriedIsCounted DEF RetriesPay, Retried
<1>17. CASE Restart
    BY <1>17, RestartInterrupts, NoJobMoves DEF Restart, scheduling
<1>18. CASE UNCHANGED vars
    BY <1>18, NoJobMoves DEF vars, scheduling
<1> QED
    BY <1>1, <1>2, <1>3, <1>4, <1>5, <1>6, <1>7, <1>8, <1>9, <1>10,
       <1>11, <1>12, <1>13, <1>14, <1>15, <1>16, <1>17, <1>18
       DEF Next, BuildStep

----------------------------------------------------------------------------
\* The limit

Within == Cardinality(Live') > Cardinality(Live) => Cardinality(Live') <= limit

LEMMA LessAreNoMore ==
    ASSUME TypeOK, Live' \subseteq Live
    PROVE  Within
<1>1. Cardinality(Live') <= Cardinality(Live)
    BY LiveIsCounted, FS_Subset
<1>2. IsFiniteSet(Live') /\ IsFiniteSet(Live)
    BY LiveIsCounted, FS_Subset
<1>3. Cardinality(Live') \in Nat /\ Cardinality(Live) \in Nat
    BY <1>2, FS_CardinalityType
<1> QED
    BY <1>1, <1>3 DEF Within

\* Only Start adds a goroutine, and it compares first.
LEMMA StartsAreWithin == TypeOK /\ RunningCounts /\ [Next]_vars => Within
<1> SUFFICES ASSUME TypeOK, RunningCounts, [Next]_vars PROVE Within
    OBVIOUS
<1>1. ASSUME NEW r \in Refs, Push(r) PROVE Within
    <2>1. Live' \subseteq Live
        BY <1>1 DEF Push, Live, Ids
    <2> QED
        BY <2>1, LessAreNoMore
<1>2. CASE Reload
    <2>1. Live' \subseteq Live
        BY <1>2 DEF Reload, Live, Ids
    <2> QED
        BY <2>1, LessAreNoMore
<1>3. CASE Scan
    <2>1. Live' \subseteq Live
        BY <1>3 DEF Scan, Live, Ids
    <2> QED
        BY <2>1, LessAreNoMore
<1>4. CASE Send
    <2>1. Live' \subseteq Live
        BY <1>4 DEF Send, Live, Ids
    <2> QED
        BY <2>1, LessAreNoMore
<1>5. CASE Advance
    <2>1. Live' \subseteq Live
        BY <1>5 DEF Advance, Live, Ids
    <2> QED
        BY <2>1, LessAreNoMore
<1>6. CASE AdvanceFails
    <2>1. Live' \subseteq Live
        BY <1>6 DEF AdvanceFails, Live, Ids
    <2> QED
        BY <2>1, LessAreNoMore
<1>7. CASE Take
    <2>1. Live' \subseteq Live
        BY <1>7 DEF Take, Live, Ids
    <2> QED
        BY <2>1, LessAreNoMore
<1>8. CASE Start
    <2>1. Live' = Live \cup {Len(builds) + 1} /\ Len(builds) + 1 \notin Live
        BY <1>8, StartAdds DEF Live
    <2>2. Cardinality(Live') = running + 1
        BY <2>1, LiveIsCounted, FS_AddElement DEF RunningCounts
    <2>3. running < limit /\ running \in Nat /\ limit \in Nat
        BY <1>8, LimitsAssumption DEF Start, TypeOK
    <2> QED
        BY <2>2, <2>3 DEF Within
<1>9. ASSUME NEW i \in Ids, Record(i) PROVE Within
    <2>1. Live' \subseteq Live
        BY <1>9, RowIsWritten, JobsAreKept
           DEF Record, Becomes, Unfinished, Finished, Live
    <2> QED
        BY <2>1, LessAreNoMore
<1>10. ASSUME NEW i \in Ids, RunSteps(i) PROVE Within
    <2>1. Live' \subseteq Live
        BY <1>10, RowIsWritten, JobsAreKept
           DEF RunSteps, Becomes, Unfinished, Finished, Live
    <2> QED
        BY <2>1, LessAreNoMore
<1>11. ASSUME NEW i \in Ids, Conclude(i) PROVE Within
    <2>1. Live' \subseteq Live
        BY <1>11, RowIsWritten, JobsAreKept
           DEF Conclude, Becomes, Unfinished, Finished, Live
    <2> QED
        BY <2>1, LessAreNoMore
<1>12. ASSUME NEW i \in Ids, Return(i) PROVE Within
    <2>1. Live' \subseteq Live
        BY <1>12, GoroutineEnds, JobsAreKept DEF Return, Ends, Live
    <2> QED
        BY <2>1, LessAreNoMore
<1>13. ASSUME NEW i \in Ids, RecordFails(i) PROVE Within
    <2>1. Live' \subseteq Live
        BY <1>13, GoroutineEnds, JobsAreKept DEF RecordFails, Ends, Live
    <2> QED
        BY <2>1, LessAreNoMore
<1>14. ASSUME NEW i \in Ids, RetryChecks(i) PROVE Within
    <2>1. Live' \subseteq Live
        BY <1>14 DEF RetryChecks, Live, Ids
    <2> QED
        BY <2>1, LessAreNoMore
<1>15. CASE RetrySends
    <2>1. Live' \subseteq Live
        BY <1>15 DEF RetrySends, Live, Ids
    <2> QED
        BY <2>1, LessAreNoMore
<1>16. CASE Crash
    <2>1. Live' \subseteq Live
        BY <1>16, CrashEndsAll, JobsAreKept DEF Live
    <2> QED
        BY <2>1, LessAreNoMore
<1>17. CASE Restart
    <2>1. Live' \subseteq Live
        BY <1>17, RestartInterrupts, JobsAreKept DEF Live
    <2> QED
        BY <2>1, LessAreNoMore
<1>18. CASE UNCHANGED vars
    <2>1. Live' \subseteq Live
        BY <1>18 DEF vars, Live, Ids
    <2> QED
        BY <2>1, LessAreNoMore
<1> QED
    BY <1>1, <1>2, <1>3, <1>4, <1>5, <1>6, <1>7, <1>8, <1>9, <1>10, <1>11,
       <1>12, <1>13, <1>14, <1>15, <1>16, <1>17, <1>18
       DEF Next, BuildStep

----------------------------------------------------------------------------
\* The invariant and what follows

LEMMA InitHolds == Init => IInv
<1> SUFFICES ASSUME Init PROVE IInv
    OBVIOUS
<1>1. /\ tip = [r \in Refs |-> 0] /\ refSHA = tip /\ builds = <<>> /\ queue = <<>>
      /\ taken = <<>> /\ retrying = <<>> /\ todo = {} /\ poller = "idle"
      /\ running = 0 /\ faults = 0 /\ pushes = 0
    BY DEF Init
<1>2. TypeOK
    <2>1. RemoteTyped
        BY <1>1, SizeAssumption DEF RemoteTyped, Commits
    <2>2. QueuesTyped
        BY <1>1, EmptySeq, QueueAssumption DEF QueuesTyped
    <2>3. RestTyped
        BY SizeAssumption DEF Init, RestTyped
    <2>4. builds \in Seq(Build) /\ running \in Nat
        BY <1>1, EmptySeq
    <2>5. up \in BOOLEAN
        BY Zenon DEF Init
    <2> QED
        BY <2>1, <2>2, <2>3, <2>4, <2>5
           DEF TypeOK, RemoteTyped, QueuesTyped, RestTyped
<1>3. Ids = {}
    BY <1>1 DEF Ids
<1>4. RunningCounts
    <2>1. Live = {}
        BY <1>3 DEF Live
    <2> QED
        BY <1>1, <2>1, FS_EmptySet DEF RunningCounts
<1>5. UnfinishedIsLive /\ TodoIsOrderly /\ AdvancedIsSent
    BY <1>1, <1>3 DEF UnfinishedIsLive, TodoIsOrderly, AdvancedIsSent
<1>6. RefsFollowQueue /\ RetriesAreMarked
    BY <1>1 DEF RefsFollowQueue, Accounted, RetriesAreMarked
<1>7. JobsOf(builds) = <<>>
    <2>1. JobsOf(builds) \in Seq(Job) /\ DOMAIN JobsOf(builds) = {}
        BY <1>2, <1>3, JobsAreJobs DEF JobsOf, Ids
    <2>2. Len(JobsOf(builds)) \in Nat /\ 1..Len(JobsOf(builds)) = {}
        BY <2>1, LenProperties
    <2>3. Len(JobsOf(builds)) = 0
        BY <2>2
    <2> QED
        BY <2>1, <2>3, EmptySeq
<1>8. PushesPay
    <2>1. Waiting = {} /\ Behind = {}
        BY <1>1 DEF Waiting, Behind
    <2>2. Polled = 0
        BY <1>1, <1>7, NoPolls DEF Polled
    <2> QED
        BY <1>1, <2>1, <2>2, FS_EmptySet DEF PushesPay
<1>9. RetriesPay
    <2>1. Retried = 0
        BY <1>1, <1>7, NoRetries DEF Retried
    <2>2. Len(retrying) = 0 /\ retries = 0
        BY <1>1 DEF Init
    <2> QED
        BY <2>1, <2>2 DEF RetriesPay
<1> QED
    BY <1>2, <1>4, <1>5, <1>6, <1>8, <1>9 DEF IInv

LEMMA StepHolds == IInv /\ [Next]_vars => IInv'
<1> SUFFICES ASSUME IInv, [Next]_vars PROVE IInv'
    OBVIOUS
<1>1. /\ TypeOK'
      /\ RunningCounts'
      /\ UnfinishedIsLive'
      /\ TodoIsOrderly'
      /\ RetriesAreMarked'
    BY TypesStay, CountStays, UnfinishedStay, TodoStays, MarksStay DEF IInv
<1>2. AdvancedIsSent'
    BY AdvancedStays DEF IInv, AdvancedIsSent
<1>3. RefsFollowQueue'
    BY RefsStay DEF IInv, RefsFollowQueue
<1>4. PushesPay'
    BY PushesStayPaid DEF IInv, PushesPay
<1>5. RetriesPay'
    BY RetriesStayPaid DEF IInv
<1> QED
    BY <1>1, <1>2, <1>3, <1>4, <1>5 DEF IInv

LEMMA Always == Spec => []IInv
BY InitHolds, StepHolds, PTL DEF Spec

\* Types: in particular the channel never holds more than its capacity, and the
\* scheduler and the retry handlers at most one job each.
THEOREM TypesAreKept == Spec => []TypeOK
<1>1. IInv => TypeOK
    BY DEF IInv
<1> QED
    BY <1>1, Always, PTL

\* While the daemon serves, every row that says pending or running has a
\* goroutine, for any number of builds and crashes.
THEOREM UnfinishedIsWorkedOn == Spec => []UnfinishedIsLive
<1>1. IInv => UnfinishedIsLive
    BY DEF IInv
<1> QED
    BY <1>1, Always, PTL

\* Without a crash or a failed write no buildable commit is passed over,
\* whatever is pushed between the scan, the send and SetRefSHA.
THEOREM NothingIsPassedOver == Spec => []RefsFollowQueue
<1>1. IInv => RefsFollowQueue
    BY DEF IInv
<1> QED
    BY <1>1, Always, PTL

\* What has been paid for covers each of its parts.
LEMMA EnoughPaid ==
    ASSUME TypeOK, PushesPay, RetriesPay
    PROVE  /\ ByPoll(queue) + ByPoll(taken) + ByPoll(JobsOf(builds)) <= pushes + faults
           /\ ByRetry(queue) + ByRetry(taken) + ByRetry(JobsOf(builds)) <= retries
           /\ ByPoll(JobsOf(builds)) <= pushes + faults
           /\ ByRetry(JobsOf(builds)) <= retries
<1> DEFINE p == ByPoll(queue)
           q == ByPoll(taken)
           o == ByPoll(JobsOf(builds))
           w == Cardinality(Waiting)
           v == Cardinality(Behind)
<1>1. /\ p \in Nat /\ q \in Nat /\ o \in Nat /\ w \in Nat /\ v \in Nat
      /\ pushes \in Nat /\ faults \in Nat
    BY PolledIsCounted
<1>2. p + q + o + w + v <= pushes + faults
    BY DEF PushesPay, Polled
<1> DEFINE k == ByRetry(queue)
           l == ByRetry(taken)
           m == ByRetry(JobsOf(builds))
           n == Len(retrying)
<1>3. k \in Nat /\ l \in Nat /\ m \in Nat /\ n \in Nat /\ retries \in Nat
    BY RetriedIsCounted
<1>4. k + l + m + n <= retries
    BY DEF RetriesPay, Retried
<1> HIDE DEF p, q, o, w, v, k, l, m, n
<1>5. p + q + o <= pushes + faults /\ o <= pushes + faults
    BY <1>1, <1>2
<1>6. k + l + m <= retries /\ m <= retries
    BY <1>3, <1>4
<1> QED
    BY <1>5, <1>6 DEF p, q, o, k, l, m

\* The poller starts no more builds than there were pushes and, wherever they
\* happen, faults, however long it waits at a full queue; the retry requests
\* no more than one each.
THEOREM PushesAreBuiltOnce == Spec => []OneBuildPerPush
<1>1. IInv => OneBuildPerPush
    BY EnoughPaid DEF IInv, OneBuildPerPush
<1> QED
    BY <1>1, Always, PTL

\* So the builds are bounded, and the fairness of FairSpec, which is stated of
\* the builds up to MaxBuilds, leaves none out.
THEOREM BuildsAreBounded == Spec => [](Ids \subseteq 1..MaxBuilds)
<1>1. ASSUME IInv
      PROVE  Ids \subseteq 1..MaxBuilds
    <2>1. /\ ByPoll(JobsOf(builds)) <= pushes + faults
          /\ ByRetry(JobsOf(builds)) <= retries
        BY <1>1, EnoughPaid DEF IInv
    <2>2. Len(builds) = ByPoll(JobsOf(builds)) + ByRetry(JobsOf(builds))
        <3>1. JobsOf(builds) \in Seq(Job) /\ DOMAIN JobsOf(builds) = Ids
            BY <1>1, JobsAreJobs DEF IInv, JobsOf, Ids
        <3>2. /\ Len(builds) \in Nat /\ Len(JobsOf(builds)) \in Nat
              /\ 1..Len(JobsOf(builds)) = 1..Len(builds)
            BY <1>1, <3>1, IdsAreNumbers, LenProperties DEF IInv
        <3>3. Len(JobsOf(builds)) = Len(builds)
            BY <3>2
        <3>4. ByRetry(JobsOf(builds)) = Len(JobsOf(builds)) - ByPoll(JobsOf(builds))
            BY <3>1, RetriesAreTheRest
        <3> QED
            BY <1>1, <3>2, <3>3, <3>4, PolledIsCounted DEF IInv
    <2>3. /\ pushes \in 0..MaxPushes /\ faults \in 0..MaxFaults
          /\ retries \in 0..MaxRetries
        BY <1>1 DEF IInv, TypeOK
    <2>4. ByPoll(JobsOf(builds)) \in Nat /\ ByRetry(JobsOf(builds)) \in Nat
        BY <1>1, PolledIsCounted, RetriedIsCounted DEF IInv
    <2>5. Ids = 1..Len(builds) /\ Len(builds) \in Nat
        BY <1>1, IdsAreNumbers DEF IInv
    <2>6. MaxBuilds \in Nat /\ Len(builds) <= MaxBuilds
        <3> DEFINE p == ByPoll(JobsOf(builds))
                   q == ByRetry(JobsOf(builds))
        <3>1. /\ p \in Nat /\ q \in Nat /\ Len(builds) = p + q
              /\ p <= pushes + faults /\ q <= retries
            BY <2>1, <2>2, <2>4
        <3> HIDE DEF p, q
        <3> QED
            BY <2>3, <3>1, SizeAssumption DEF MaxBuilds
    <2> QED
        BY <2>5, <2>6
<1> QED
    BY <1>1, Always, PTL

\* Whatever the limits, reloads, crashes and ways out of a build: a build that
\* starts is within the limit in force.
THEOREM LimitIsKept == Spec => StartsWithinLimit
<1>1. IInv /\ [Next]_vars =>
          [LET atWork == Cardinality(Live)
               then == Cardinality(Live')
           IN  then > atWork => then <= limit]_vars
    BY StartsAreWithin DEF IInv, Within
<1> QED
    BY <1>1, Always, PTL DEF Spec, StartsWithinLimit

----------------------------------------------------------------------------
\* Refinement of BuildGoroutine

\* A daemon that is down has nothing to start and no goroutine, and no
\* goroutine works on a row that recovery interrupted.
GoroutinesServe ==
    /\ ~up => taken = <<>> /\ \A k \in Ids : ~builds[k].live
    /\ \A k \in Ids : builds[k].live => builds[k].state # "interrupted"

LEMMA ServeStays ==
    TypeOK /\ GoroutinesServe /\ [Next]_vars => GoroutinesServe'
<1> SUFFICES ASSUME TypeOK, GoroutinesServe, [Next]_vars
             PROVE  GoroutinesServe'
    OBVIOUS
<1>1. CASE UNCHANGED <<builds, taken, up>>
    BY <1>1 DEF GoroutinesServe, Ids
<1>2. CASE Reload \/ Scan
    BY <1>1, <1>2 DEF Reload, Scan, scheduling
<1>3. CASE Send \/ Advance \/ AdvanceFails
    BY <1>1, <1>3 DEF Send, Advance, AdvanceFails, scheduling
<1>4. CASE RetrySends \/ UNCHANGED vars
    BY <1>1, <1>4 DEF RetrySends, vars, scheduling
<1>5. ASSUME NEW r \in Refs, Push(r) PROVE GoroutinesServe'
    BY <1>1, <1>5 DEF Push, scheduling
<1>6. ASSUME NEW i \in Ids, RetryChecks(i) PROVE GoroutinesServe'
    BY <1>1, <1>6 DEF RetryChecks, scheduling
<1>7. CASE Take
    BY <1>7 DEF Take, GoroutinesServe, Ids
<1>8. CASE Start
    <2>1. /\ up' = up /\ Ids' = Ids \cup {Len(builds) + 1}
          /\ \A k \in Ids : builds'[k] = builds[k]
          /\ taken # <<>>
        BY <1>8, StartAdds DEF Start
    <2>2. builds'[Len(builds) + 1].state = "absent"
        BY <1>8, StartAdds
    <2>3. up
        BY <2>1 DEF GoroutinesServe
    <2> QED
        BY <2>1, <2>2, <2>3 DEF GoroutinesServe
<1>9. ASSUME NEW i \in Ids, Record(i) \/ RunSteps(i) \/ Conclude(i)
      PROVE  GoroutinesServe'
    <2>1. PICK s \in Unfinished \cup {"finished"} : Row(i, s)
        BY <1>9 DEF Record, RunSteps, Conclude, Unfinished
    <2>2. taken' = taken /\ up' = up
        BY <1>9 DEF Record, RunSteps, Conclude, scheduling
    <2>3. Becomes(i, s)
        BY <2>1, RowIsWritten DEF Finished
    <2>4. Ids' = Ids
        BY <2>3, JobsAreKept DEF Becomes
    <2>5. s # "interrupted"
        BY DEF Unfinished
    <2> QED
        BY <2>2, <2>3, <2>4, <2>5 DEF GoroutinesServe, Becomes
<1>10. ASSUME NEW i \in Ids, Return(i) \/ RecordFails(i)
       PROVE  GoroutinesServe'
    <2>1. /\ Ids' = Ids /\ taken' = taken /\ up' = up /\ ~builds'[i].live
          /\ \A k \in Ids : /\ builds'[k].state = builds[k].state
                            /\ k # i => builds'[k].live = builds[k].live
        BY <1>10, GoroutineEnds, JobsAreKept DEF Return, RecordFails, Ends
    <2> QED
        BY <2>1 DEF GoroutinesServe
<1>11. CASE Crash
    <2>1. Ids' = Ids /\ taken' = <<>> /\ \A k \in Ids : ~builds'[k].live
        BY <1>11, CrashEndsAll, JobsAreKept DEF Crash
    <2> QED
        BY <2>1 DEF GoroutinesServe
<1>12. CASE Restart
    <2>1. /\ Ids' = Ids /\ ~up /\ up'
          /\ \A k \in Ids : builds'[k].live = builds[k].live
        BY <1>12, RestartInterrupts, JobsAreKept DEF Restart
    <2> QED
        BY <2>1 DEF GoroutinesServe
<1>13. ASSUME NEW i \in Ids, BuildStep(i)
       PROVE  GoroutinesServe'
    BY <1>9, <1>10, <1>13 DEF BuildStep
<1> QED
    BY <1>2, <1>3, <1>4, <1>5, <1>6, <1>7, <1>8, <1>11, <1>12, <1>13 DEF Next

\* The builds stay, and nothing of build i changes.
Idle(i) ==
    /\ up' = up
    /\ Ids' = Ids
    /\ i \in Ids => /\ builds'[i].state = builds[i].state
                    /\ builds'[i].live = builds[i].live

LEMMA IdleStutters ==
    ASSUME NEW CONSTANT i \in Nat, Idle(i)
    PROVE  UNCHANGED Goroutine(i)!goroutineVars
BY DEF Idle, Goroutine!goroutineVars

\* The steps of the builds themselves.
LEMMA OwnStepRefines ==
    ASSUME TypeOK, GoroutinesServe, NEW CONSTANT i \in Nat, NEW k \in Ids, BuildStep(k)
    PROVE  [Goroutine(i)!GoroutineNext]_(Goroutine(i)!goroutineVars)
<1>1. up' = up
    BY DEF BuildStep, Record, RunSteps, Conclude, Return, RecordFails
<1>2. CASE Record(k) \/ RunSteps(k) \/ Conclude(k)
    <2>1. PICK s \in Unfinished \cup {"finished"} :
              /\ Row(k, s)
              /\ \/ s = "pending" /\ builds[k].state = "absent"
                 \/ s = "running" /\ builds[k].state = "pending"
                 \/ s = "finished" /\ builds[k].state \in Unfinished
        BY <1>2 DEF Record, RunSteps, Conclude, Unfinished
    <2>2. Becomes(k, s)
        BY <2>1, RowIsWritten DEF Finished
    <2>3. Ids' = Ids
        BY <2>2, JobsAreKept DEF Becomes
    <2>4. builds[k].live
        BY <1>2 DEF Record, RunSteps, Conclude, Live
    <2>5. CASE i # k
        BY <1>1, <2>2, <2>3, <2>5, IdleStutters DEF Becomes, Idle
    <2>6. CASE i = k
        <3>1. /\ i \in Ids /\ i \in Ids' /\ builds[i].live
              /\ builds'[i].state = s /\ builds'[i].live = builds[i].live
            BY <2>2, <2>3, <2>4, <2>6 DEF Becomes
        <3>2. Goroutine(i)!Record \/ Goroutine(i)!RunSteps \/ Goroutine(i)!Conclude
            BY <1>1, <2>1, <2>6, <3>1
               DEF Goroutine!Record, Goroutine!RunSteps, Goroutine!Conclude,
                   Goroutine!Unfinished, Unfinished
        <3> QED
            BY <3>2 DEF Goroutine!GoroutineNext
    <2> QED
        BY <2>5, <2>6
<1>3. CASE Return(k) \/ RecordFails(k)
    <2>1. /\ Ends(k) /\ Ids' = Ids /\ builds[k].live
          /\ builds[k].state \in {"absent"} \cup Finished
        BY <1>3, GoroutineEnds, JobsAreKept DEF Return, RecordFails, Ends, Live
    <2>2. CASE i # k
        BY <1>1, <2>1, <2>2, IdleStutters DEF Ends, Idle
    <2>3. CASE i = k
        <3>1. /\ i \in Ids /\ i \in Ids' /\ builds[i].live /\ ~builds'[i].live
              /\ builds'[i].state = builds[i].state
              /\ builds[i].state \in {"absent", "finished"}
            BY <2>1, <2>3 DEF Ends, GoroutinesServe, Finished
        <3>2. Goroutine(i)!Return
            BY <1>1, <3>1 DEF Goroutine!Return
        <3> QED
            BY <3>2 DEF Goroutine!GoroutineNext
    <2> QED
        BY <2>2, <2>3
<1> QED
    BY <1>2, <1>3 DEF BuildStep

LEMMA GoroutineStep ==
    ASSUME TypeOK, GoroutinesServe, NEW CONSTANT i \in Nat, [Next]_vars
    PROVE  [Goroutine(i)!GoroutineNext]_(Goroutine(i)!goroutineVars)
<1>1. CASE UNCHANGED <<builds, up>>
    BY <1>1 DEF Goroutine!goroutineVars, Ids
<1>2. CASE Reload \/ Scan \/ Send
    BY <1>1, <1>2 DEF Reload, Scan, Send
<1>3. CASE Advance \/ AdvanceFails \/ Take
    BY <1>1, <1>3 DEF Advance, AdvanceFails, Take
<1>4. CASE RetrySends \/ UNCHANGED vars
    BY <1>1, <1>4 DEF RetrySends, vars
<1>5. ASSUME NEW r \in Refs, Push(r)
      PROVE  [Goroutine(i)!GoroutineNext]_(Goroutine(i)!goroutineVars)
    BY <1>1, <1>5 DEF Push
<1>6. ASSUME NEW k \in Ids, RetryChecks(k)
      PROVE  [Goroutine(i)!GoroutineNext]_(Goroutine(i)!goroutineVars)
    BY <1>1, <1>6 DEF RetryChecks
<1>7. ASSUME NEW k \in Ids, BuildStep(k)
      PROVE  [Goroutine(i)!GoroutineNext]_(Goroutine(i)!goroutineVars)
    BY <1>7, OwnStepRefines
<1>8. CASE Start
    <2> DEFINE n == Len(builds) + 1
    <2>1. /\ up' = up /\ Ids' = Ids \cup {n} /\ n \notin Ids
          /\ \A k \in Ids : builds'[k] = builds[k]
          /\ taken # <<>>
        BY <1>8, StartAdds DEF Start
    <2>2. builds'[n].state = "absent" /\ builds'[n].live
        BY <1>8, StartAdds
    <2>3. up
        BY <2>1 DEF GoroutinesServe
    <2> HIDE DEF n
    <2>4. CASE i # n
        <3>1. UNCHANGED Goroutine(i)!goroutineVars
            BY <2>1, <2>4 DEF Goroutine!goroutineVars
        <3> QED
            BY <3>1
    <2>5. CASE i = n
        <3>1. Goroutine(i)!StartBuild
            BY <2>1, <2>2, <2>3, <2>5 DEF Goroutine!StartBuild
        <3> QED
            BY <3>1 DEF Goroutine!GoroutineNext
    <2> QED
        BY <2>4, <2>5
<1>9. CASE Crash
    <2>1. /\ Ids' = Ids /\ up /\ ~up'
          /\ \A k \in Ids : ~builds'[k].live /\ builds'[k].state = builds[k].state
        BY <1>9, CrashEndsAll, JobsAreKept DEF Crash
    <2>2. Goroutine(i)!Die
        BY <2>1 DEF Goroutine!Die
    <2> QED
        BY <2>2 DEF Goroutine!GoroutineNext
<1>10. CASE Restart
    <2>1. /\ Ids' = Ids /\ ~up /\ up'
          /\ \A k \in Ids : /\ builds'[k].live = builds[k].live
                            /\ builds'[k].state = IF builds[k].state \in Unfinished
                                                  THEN "interrupted"
                                                  ELSE builds[k].state
        BY <1>10, RestartInterrupts, JobsAreKept DEF Restart
    <2>2. Goroutine(i)!Restart
        BY <2>1 DEF Goroutine!Restart, Goroutine!Unfinished, Unfinished
    <2> QED
        BY <2>2 DEF Goroutine!GoroutineNext
<1> QED
    BY <1>2, <1>3, <1>4, <1>5, <1>6, <1>7, <1>8, <1>9, <1>10 DEF Next

\* Every build of the daemon, from before it is queued to its end, behaves as
\* BuildGoroutine promises, as Builder does (Builder!ImplementsGoroutine):
\* Dispatch takes nothing for granted that runBuild does not do.
THEOREM BuildsAreGoroutines ==
    ASSUME NEW CONSTANT i \in Nat
    PROVE  Spec => Goroutine(i)!GoroutineSpec
<1>1. Init => GoroutinesServe
    BY DEF Init, GoroutinesServe, Ids
<1>2. Init => Goroutine(i)!GoroutineInit
    BY DEF Init, Goroutine!GoroutineInit, Ids
<1>3. TypeOK /\ GoroutinesServe /\ [Next]_vars =>
          [Goroutine(i)!GoroutineNext]_(Goroutine(i)!goroutineVars)
    BY GoroutineStep
<1> QED
    BY <1>1, <1>2, <1>3, ServeStays, TypesAreKept, PTL
       DEF Spec, Goroutine!GoroutineSpec

====

---- MODULE ReportingProofs ----
(***************************************************************************)
(* Proofs about Reporting, for every set of builds, number of steps, set   *)
(* of credentials and number of troubles.                                  *)
(*                                                                         *)
(* The inductive invariant says which calls a build may still have to make *)
(* at each place of runBuild (CallsFit), what its check runs may show      *)
(* there (RunsFit), and, as long as nothing went wrong, that whatever is   *)
(* still open on GitHub has a call waiting that closes it (OpenRunsFit)    *)
(* and that the last call waiting says the outcome (LastWordFits).  These  *)
(* speak of the state that runBuild came to; RowsInv says what the         *)
(* database has of it when writes fail.                                    *)
(***************************************************************************)
EXTENDS Reporting, TLAPS

Underway == {"inspect", "prepare", "filter", "begin", "run", "next"}

StepUpdate(c) == c.op = "update" /\ c.i # 0

\* The state and the step that runBuild has come to.
PlaceFits(b) ==
    /\ at[b] = "new" => verdict[b] = "absent"
    /\ at[b] \in Underway => verdict[b] \in {"pending", "running"}
    /\ at[b] = "over" => verdict[b] \in Conclusions
    /\ at[b] \in {"new", "inspect", "prepare", "filter"} => step[b] = 0
    /\ at[b] \in {"begin", "run", "next"} => step[b] # 0
    /\ at[b] \in {"new", "begin", "silent"} => todo[b] = <<>>

\* A call that waits: it creates a check run that does not exist yet, or
\* concludes one with the outcome of the build, or of the step that passed.
CallFits(b, c) ==
    /\ c.aborts => c.op = "update"
    /\ c.op = "create" => /\ c.i \in {0, step[b]}
                          /\ runs[<<b, c.i>>] = "absent"
    /\ c.op = "update" => at[b] \in Underway \cup {"over"}
    /\ c.op = "update" /\ c.i = 0 =>
           c.to = IF at[b] \in Underway THEN "in_progress" ELSE verdict[b]
    /\ StepUpdate(c) => /\ c.i = step[b]
                        /\ at[b] \in {"next", "over"}
                        /\ runs[<<b, c.i>>] \notin Conclusions
                        /\ c.to = IF at[b] = "next" THEN "success" ELSE verdict[b]

\* Only the first call creates, and only one is about the check run of a step.
CallsFit(b) ==
    \A k \in 1..Len(todo[b]) :
        /\ CallFits(b, todo[b][k])
        /\ k # 1 => todo[b][k].op # "create"
        /\ StepUpdate(todo[b][k]) =>
               \A j \in 1..Len(todo[b]) : StepUpdate(todo[b][j]) => j = k

\* The check runs: those of later steps do not exist, a conclusion is
\* the state that runBuild came to.
RunsFit(b) ==
    \A i \in Indices :
        /\ i > step[b] \/ at[b] = "new" \/ (at[b] = "begin" /\ i = step[b])
           => runs[<<b, i>>] = "absent"
        /\ at[b] = "run" /\ i = step[b] => runs[<<b, i>>] \notin Conclusions
        /\ i = 0 /\ runs[<<b, i>>] \in Conclusions => verdict[b] = runs[<<b, i>>]
        /\ runs[<<b, i>>] \in Conclusions \ {"success"} => verdict[b] = runs[<<b, i>>]

KeysFit == \A k \in CheckRun : checkRuns[k] \in {<<>>, k}

BuildInv(b) == PlaceFits(b) /\ CallsFit(b) /\ RunsFit(b)
Inv == TypeOK /\ KeysFit /\ \A b \in Builds : BuildInv(b)

----------------------------------------------------------------------------
TokenFor(c) == IF c.op = "create" THEN AppToken ELSE ApiToken
Awaits(b, i, op) == \E k \in 1..Len(todo[b]) : todo[b][k].op = op /\ todo[b][k].i = i

\* The check runs that runBuild has left behind.
LeftBehind(b, i) ==
    \/ at[b] = "over"
    \/ at[b] \in Underway /\ i # 0 /\ i < step[b]
    \/ at[b] = "next" /\ i = step[b]

OpenRunsFit(b) ==
    \A i \in Indices :
        LeftBehind(b, i) /\ (runs[<<b, i>>] = "in_progress" \/ Awaits(b, i, "create"))
        => Awaits(b, i, "update")

Outcome(v) == IF v \in {"success", "failure"} THEN v ELSE "error"

LastWordFits(b) ==
    at[b] = "over" =>
        IF todo[b] = <<>> THEN status.by = {b} => status.state = Outcome(verdict[b])
        ELSE /\ todo[b][Len(todo[b])].op # "create"
             /\ todo[b][Len(todo[b])].says = Outcome(verdict[b])

TokenFits(b) ==
    token[b] # "unset" => todo[b] # <<>> /\ token[b] = TokenFor(todo[b][1])

\* A check run exists only if the app is configured, and then it is known.
RunsKnown ==
    \A k \in CheckRun : runs[k] # "absent" => cfg.app = "on" /\ checkRuns[k] = k

StatusKnown == status.by # {} => ApiToken # "none"

SmoothBuild(b) == at[b] # "gone" /\ TokenFits(b) /\ OpenRunsFit(b) /\ LastWordFits(b)

SmoothInv == Smooth => RunsKnown /\ StatusKnown /\ \A b \in Builds : SmoothBuild(b)

----------------------------------------------------------------------------
\* Sequences of calls

\* The first call is carried out and leaves the others.
LEMMA TailFacts ==
    ASSUME NEW S, NEW s \in Seq(S), s # <<>>
    PROVE  /\ 1 \in 1..Len(s) /\ Head(s) = s[1] /\ Head(s) \in S
           /\ Tail(s) \in Seq(S) /\ Len(Tail(s)) = Len(s) - 1
           /\ \A k \in 1..Len(Tail(s)) :
                  k + 1 \in 2..Len(s) /\ Tail(s)[k] = s[k + 1]
OBVIOUS

\* The first call is replaced by another.
LEMMA SwapFacts ==
    ASSUME NEW S, NEW s \in Seq(S), s # <<>>, NEW x \in S
    PROVE  /\ <<x>> \o Tail(s) \in Seq(S)
           /\ Len(<<x>> \o Tail(s)) = Len(s)
           /\ (<<x>> \o Tail(s))[1] = x
           /\ \A k \in 2..Len(s) : (<<x>> \o Tail(s))[k] = s[k]
OBVIOUS

LEMMA ConcatFacts ==
    ASSUME NEW S, NEW s \in Seq(S), NEW t \in Seq(S)
    PROVE  /\ s \o t \in Seq(S) /\ Len(s \o t) = Len(s) + Len(t)
           /\ \A k \in 1..Len(s) : (s \o t)[k] = s[k]
           /\ \A k \in (Len(s) + 1)..(Len(s) + Len(t)) :
                  (s \o t)[k] = t[k - Len(s)]
OBVIOUS

LEMMA TwoAndTwo ==
    ASSUME NEW s \in Seq(Call), NEW t \in Seq(Call), Len(s) = 2, Len(t) = 2
    PROVE  /\ s \o t \in Seq(Call) /\ Len(s \o t) = 4
           /\ (s \o t)[1] = s[1] /\ (s \o t)[2] = s[2]
           /\ (s \o t)[3] = t[1] /\ (s \o t)[4] = t[2]
<1> DEFINE q == s \o t
<1>1. q \in Seq(Call)
  BY ConcatFacts
<1>2. Len(q) = Len(s) + Len(t)
  BY ConcatFacts
<1>3. \A k \in 1..Len(s) : q[k] = s[k]
  BY ConcatFacts
<1>4. \A k \in (Len(s) + 1)..(Len(s) + Len(t)) : q[k] = t[k - Len(s)]
  BY ConcatFacts
<1> HIDE DEF q
<1>5. Len(q) = 4 /\ 3 - Len(s) = 1 /\ 4 - Len(s) = 2
  BY <1>2
<1>6. q[1] = s[1] /\ q[2] = s[2]
  BY <1>3
<1>7. q[3] = t[3 - Len(s)] /\ q[4] = t[4 - Len(s)]
  BY <1>4
<1> QED
  BY <1>1, <1>5, <1>6, <1>7 DEF q

\* What StateFromConclusion makes of an outcome is a commit state.
LEMMA StateFromConclusionType ==
    ASSUME NEW v
    PROVE  /\ StateFromConclusion(v) \in CommitState \ {"none"}
           /\ v \in Conclusions => StateFromConclusion(v) = Outcome(v)
BY DEF StateFromConclusion, CommitState, Conclusions, Outcome

IsCreate(c, i) == c.op = "create" /\ c.i = i /\ c.aborts = FALSE
IsPost(c, says) == c.op = "post" /\ c.says = says /\ c.aborts = FALSE
IsUpdate(c, i, to, says) == c.op = "update" /\ c.i = i /\ c.to = to /\ c.says = says

LEMMA PostType ==
    ASSUME NEW s \in CommitState
    PROVE  Post(s) \in Call /\ IsPost(Post(s), s)
BY BoundsAssumption DEF Post, Call, Indices, RunState, IsPost

LEMMA CreateCalls ==
    ASSUME NEW i \in Indices
    PROVE  /\ Create(i) \in Seq(Call) /\ Len(Create(i)) = 2
           /\ IsCreate(Create(i)[1], i) /\ IsPost(Create(i)[2], "pending")
<1> DEFINE u == [op |-> "create", i |-> i, to |-> "in_progress",
                 says |-> "none", aborts |-> FALSE]
           w == Post("pending")
<1>1. u \in Call /\ IsCreate(u, i)
  BY DEF Call, RunState, CommitState, IsCreate
<1>2. w \in Call /\ IsPost(w, "pending")
  BY PostType DEF CommitState
<1>3. Create(i) = <<u, w>>
  BY DEF Create
<1> HIDE DEF u, w
<1> QED
  BY <1>1, <1>2, <1>3

LEMMA UpdateCalls ==
    ASSUME NEW i \in Indices, NEW to \in RunState
    PROVE  /\ Update(i, to) \in Seq(Call) /\ Len(Update(i, to)) = 1
           /\ IsUpdate(Update(i, to)[1], i, to, StateFromConclusion(to))
<1> DEFINE u == [op |-> "update", i |-> i, to |-> to,
                 says |-> StateFromConclusion(to), aborts |-> FALSE]
<1>1. u \in Call /\ IsUpdate(u, i, to, StateFromConclusion(to))
  BY StateFromConclusionType DEF Call, IsUpdate
<1>2. Update(i, to) = <<u>>
  BY DEF Update
<1> HIDE DEF u
<1> QED
  BY <1>1, <1>2

LEMMA QuietCalls ==
    ASSUME NEW i \in Indices, NEW to \in RunState
    PROVE  /\ UpdateQuietly(i, to) \in Seq(Call) /\ Len(UpdateQuietly(i, to)) = 1
           /\ IsUpdate(UpdateQuietly(i, to)[1], i, to, "none")
<1> DEFINE u == [op |-> "update", i |-> i, to |-> to, says |-> "none",
                 aborts |-> FALSE]
<1>1. u \in Call /\ IsUpdate(u, i, to, "none")
  BY DEF Call, CommitState, IsUpdate
<1>2. UpdateQuietly(i, to) = <<u>>
  BY DEF UpdateQuietly
<1> HIDE DEF u
<1> QED
  BY <1>1, <1>2

LEMMA OneAndOne ==
    ASSUME NEW s \in Seq(Call), NEW t \in Seq(Call), Len(s) = 1, Len(t) = 1
    PROVE  /\ s \o t \in Seq(Call) /\ Len(s \o t) = 2
           /\ (s \o t)[1] = s[1] /\ (s \o t)[2] = t[1]
<1> DEFINE q == s \o t
<1>1. q \in Seq(Call)
  BY ConcatFacts
<1>2. Len(q) = Len(s) + Len(t)
  BY ConcatFacts
<1>3. \A k \in 1..Len(s) : q[k] = s[k]
  BY ConcatFacts
<1>4. \A k \in (Len(s) + 1)..(Len(s) + Len(t)) : q[k] = t[k - Len(s)]
  BY ConcatFacts
<1> HIDE DEF q
<1>5. Len(q) = 2 /\ q[1] = s[1] /\ q[2] = t[1]
  BY <1>2, <1>3, <1>4
<1> QED
  BY <1>1, <1>5 DEF q

\* A step that was cancelled or timed out.
LEMMA VerdictCalls ==
    ASSUME NEW i \in Indices, NEW v \in Conclusions
    PROVE  /\ Update(i, v) \o Update(0, v) \in Seq(Call)
           /\ Len(Update(i, v) \o Update(0, v)) = 2
           /\ IsUpdate((Update(i, v) \o Update(0, v))[1], i, v, Outcome(v))
           /\ IsUpdate((Update(i, v) \o Update(0, v))[2], 0, v, Outcome(v))
<1>1. 0 \in Indices /\ v \in RunState
  BY BoundsAssumption DEF Indices, RunState
<1>2. /\ Update(i, v) \in Seq(Call) /\ Len(Update(i, v)) = 1
      /\ Update(0, v) \in Seq(Call) /\ Len(Update(0, v)) = 1
      /\ IsUpdate(Update(i, v)[1], i, v, StateFromConclusion(v))
      /\ IsUpdate(Update(0, v)[1], 0, v, StateFromConclusion(v))
      /\ StateFromConclusion(v) = Outcome(v)
  BY <1>1, UpdateCalls, StateFromConclusionType
<1> QED
  BY <1>2, OneAndOne, Zenon

LEMMA FailureCalls ==
    ASSUME NEW i \in Indices
    PROVE  /\ PostStepFailure(i) \in Seq(Call) /\ Len(PostStepFailure(i)) = 2
           /\ IsUpdate(PostStepFailure(i)[1], i, "failure", "failure")
           /\ IsUpdate(PostStepFailure(i)[2], 0, "failure", "failure")
<1>1. /\ 0 \in Indices
      /\ "failure" \in RunState /\ "failure" \in Conclusions
      /\ Outcome("failure") = "failure"
  BY BoundsAssumption DEF Indices, RunState, Conclusions, Outcome
<1>2. /\ Update(0, "failure") \in Seq(Call) /\ Len(Update(0, "failure")) = 1
      /\ IsUpdate(Update(0, "failure")[1], 0, "failure", "failure")
  BY <1>1, UpdateCalls, StateFromConclusionType
<1> DEFINE u == [op |-> "update", i |-> i, to |-> "failure",
                 says |-> "failure", aborts |-> TRUE]
<1>3. u \in Call /\ IsUpdate(u, i, "failure", "failure")
  BY <1>1 DEF Call, CommitState, IsUpdate
<1>4. PostStepFailure(i) = <<u>> \o Update(0, "failure")
  BY DEF PostStepFailure
<1> HIDE DEF u
<1>5. <<u>> \in Seq(Call) /\ Len(<<u>>) = 1 /\ <<u>>[1] = u
  BY <1>3
<1> DEFINE q == <<u>> \o Update(0, "failure")
<1>6. /\ q \in Seq(Call) /\ Len(q) = 2
      /\ q[1] = <<u>>[1] /\ q[2] = Update(0, "failure")[1]
  BY <1>2, <1>5, OneAndOne, Zenon
<1> HIDE DEF q
<1>7. PostStepFailure(i) = q
  BY <1>4 DEF q
<1> QED
  BY <1>2, <1>3, <1>5, <1>6, <1>7, Zenon

\* A step whose check run is created and that cannot be started.
LEMMA CreateFailureCalls ==
    ASSUME NEW i \in Indices
    PROVE  /\ Create(i) \o PostStepFailure(i) \in Seq(Call)
           /\ Len(Create(i) \o PostStepFailure(i)) = 4
           /\ (Create(i) \o PostStepFailure(i))[1] = Create(i)[1]
           /\ (Create(i) \o PostStepFailure(i))[2] = Create(i)[2]
           /\ (Create(i) \o PostStepFailure(i))[3] = PostStepFailure(i)[1]
           /\ (Create(i) \o PostStepFailure(i))[4] = PostStepFailure(i)[2]
<1>1. /\ Create(i) \in Seq(Call) /\ Len(Create(i)) = 2
      /\ PostStepFailure(i) \in Seq(Call) /\ Len(PostStepFailure(i)) = 2
  BY CreateCalls, FailureCalls
<1> QED
  BY <1>1, TwoAndTwo, Zenon

----------------------------------------------------------------------------
\* Whose state a step changes

\* What BuildInv says of a build depends on that build's state alone.
LEMMA OthersKeep ==
    ASSUME TypeOK, NEW b \in Builds, BuildInv(b), at'[b] = at[b], verdict'[b] = verdict[b],
           step'[b] = step[b], todo'[b] = todo[b],
           \A i \in Indices : runs'[<<b, i>>] = runs[<<b, i>>]
    PROVE  BuildInv(b)'
<1>1. PlaceFits(b)'
  BY DEF BuildInv, PlaceFits
<1>2. \A k \in 1..Len(todo[b]) : todo[b][k] \in Call
  BY DEF TypeOK
<1>3. CallsFit(b)'
  <2> SUFFICES ASSUME NEW k \in 1..Len(todo[b])
               PROVE  /\ CallFits(b, todo[b][k])'
                      /\ k # 1 => todo[b][k].op # "create"
                      /\ StepUpdate(todo[b][k]) =>
                            \A j \in 1..Len(todo[b]) :
                                StepUpdate(todo[b][j]) => j = k
    BY DEF CallsFit, CallFits, StepUpdate
  <2>1. CallFits(b, todo[b][k])
    BY DEF BuildInv, CallsFit
  <2>2. todo[b][k].i \in Indices
    BY <1>2 DEF Call
  <2>3. CallFits(b, todo[b][k])'
    BY <2>1, <2>2 DEF CallFits
  <2> QED
    BY <2>3 DEF BuildInv, CallsFit
<1>4. RunsFit(b)'
  BY DEF BuildInv, RunsFit
<1> QED
  BY <1>1, <1>3, <1>4 DEF BuildInv

\* A step of runBuild leaves GitHub alone.  What it does to the database is said
\* below (RowsInv): runBuild does not look back at it.
Ledger ==
    row \in [Builds -> RowState] /\ unwritten \subseteq Builds /\ troubles \in 0..MaxTroubles
Still == UNCHANGED <<cfg, token, checkRuns, github>> /\ Ledger'

\* runBuild of b moves on: nothing of another build changes, nor GitHub.
Moves(b, r, p, n, q) ==
    /\ r \in RowState /\ p \in Place /\ n \in Indices
    /\ q \in Seq(Call) /\ Len(q) <= 4
    /\ verdict' = [verdict EXCEPT ![b] = r]
    /\ at' = [at EXCEPT ![b] = p]
    /\ step' = [step EXCEPT ![b] = n]
    /\ todo' = [todo EXCEPT ![b] = q]
    /\ Still

LEMMA MovesType ==
    ASSUME TypeOK, NEW b \in Builds, NEW r, NEW p, NEW n, NEW q, Moves(b, r, p, n, q)
    PROVE  /\ TypeOK'
           /\ verdict'[b] = r /\ at'[b] = p /\ step'[b] = n /\ todo'[b] = q
           /\ runs' = runs /\ checkRuns' = checkRuns
           /\ \A c \in Builds \ {b} : /\ at'[c] = at[c] /\ verdict'[c] = verdict[c]
                                      /\ step'[c] = step[c] /\ todo'[c] = todo[c]
<1>1. /\ verdict'[b] = r /\ at'[b] = p /\ step'[b] = n /\ todo'[b] = q
      /\ runs' = runs /\ checkRuns' = checkRuns
  BY DEF TypeOK, Moves, Still, github
<1>2. \A c \in Builds \ {b} : /\ at'[c] = at[c] /\ verdict'[c] = verdict[c]
                             /\ step'[c] = step[c] /\ todo'[c] = todo[c]
  BY DEF TypeOK, Moves
<1>3. /\ verdict' \in [Builds -> RowState] /\ at' \in [Builds -> Place]
      /\ step' \in [Builds -> Indices] /\ todo' \in [Builds -> Seq(Call)]
  BY DEF TypeOK, Moves
<1>4. \A c \in Builds : Len(todo'[c]) <= 4
  BY <1>1, <1>2 DEF TypeOK, Moves
<1> QED
  BY <1>1, <1>2, <1>3, <1>4 DEF TypeOK, Moves, Still, Ledger, github

LEMMA MovesInv ==
    ASSUME Inv, NEW b \in Builds, NEW r, NEW p, NEW n, NEW q, Moves(b, r, p, n, q),
           PlaceFits(b)', CallsFit(b)', RunsFit(b)'
    PROVE  Inv'
<1>1. TypeOK'
  BY MovesType DEF Inv
<1>2. KeysFit'
  BY DEF Inv, KeysFit, Moves, Still
<1>3. \A c \in Builds : BuildInv(c)'
  BY MovesType, OthersKeep DEF Inv, BuildInv
<1> QED
  BY <1>1, <1>2, <1>3 DEF Inv

\* Until the outcome is recorded nothing is concluded but steps that passed.
LEMMA NothingConcluded ==
    ASSUME NEW b \in Builds, PlaceFits(b), RunsFit(b), at[b] \in Underway \cup {"new"}
    PROVE  /\ runs[<<b, 0>>] \notin Conclusions
           /\ \A i \in Indices : runs[<<b, i>>] \notin Conclusions \ {"success"}
BY BoundsAssumption DEF PlaceFits, RunsFit, Underway, Conclusions, Indices

LEMMA NoCallsFit ==
    ASSUME NEW b \in Builds, todo'[b] = <<>>
    PROVE  CallsFit(b)'
BY DEF CallsFit

\* createBuildCheckRun and createStepCheckRun are called for a check run that
\* does not exist.
LEMMA CreateFits ==
    ASSUME NEW b \in Builds, NEW i, NEW q, todo'[b] = q, Len(q) = 2,
           IsCreate(q[1], i), IsPost(q[2], "pending"),
           i \in {0, step'[b]}, runs'[<<b, i>>] = "absent"
    PROVE  CallsFit(b)'
BY DEF CallsFit, CallFits, StepUpdate, IsCreate, IsPost

\* An update of the check run of the build.
LEMMA UpdateFits ==
    ASSUME NEW b \in Builds, NEW to, NEW says, NEW q, todo'[b] = q, Len(q) = 1,
           IsUpdate(q[1], 0, to, says), at'[b] \in Underway \cup {"over"},
           to = IF at'[b] \in Underway THEN "in_progress" ELSE verdict'[b]
    PROVE  CallsFit(b)'
BY DEF CallsFit, CallFits, StepUpdate, IsUpdate

\* The report of a step that passed.
LEMMA PassFits ==
    ASSUME NEW b \in Builds, NEW i, NEW q, todo'[b] = q, Len(q) = 1,
           IsUpdate(q[1], i, "success", "none"), at'[b] = "next",
           i = step'[b], i # 0, runs'[<<b, i>>] \notin Conclusions
    PROVE  CallsFit(b)'
BY DEF CallsFit, CallFits, StepUpdate, IsUpdate, Underway

\* The reports of a step that ended the build, on both check runs.
LEMMA VerdictFits ==
    ASSUME NEW b \in Builds, NEW i, NEW v, NEW says, NEW q, todo'[b] = q, Len(q) = 2,
           IsUpdate(q[1], i, v, says), IsUpdate(q[2], 0, v, says),
           at'[b] = "over", verdict'[b] = v,
           i = step'[b], i # 0, runs'[<<b, i>>] \notin Conclusions
    PROVE  CallsFit(b)'
BY DEF CallsFit, CallFits, StepUpdate, IsUpdate, Underway

\* The same after the creation of the check run of the step.
LEMMA CreateVerdictFits ==
    ASSUME NEW b \in Builds, NEW i, NEW v, NEW says, NEW q, todo'[b] = q, Len(q) = 4,
           IsCreate(q[1], i), IsPost(q[2], "pending"),
           IsUpdate(q[3], i, v, says), IsUpdate(q[4], 0, v, says),
           at'[b] = "over", verdict'[b] = v,
           i = step'[b], i # 0, runs'[<<b, i>>] = "absent"
    PROVE  CallsFit(b)'
BY DEF CallsFit, CallFits, StepUpdate, IsCreate, IsPost, IsUpdate, Underway,
       Conclusions

----------------------------------------------------------------------------
\* Each step of runBuild keeps the invariant

LEMMA ConcludeMoves ==
    ASSUME TypeOK, NEW b \in Builds, NEW v \in Conclusions, NEW q \in Seq(Call),
           Len(q) <= 4, Conclude(b, v, q), UNCHANGED step,
           Still
    PROVE  Moves(b, v, "over", step[b], q)
BY DEF Conclude, Record, Goto, Moves, TypeOK, RowState, Place

LEMMA GoMoves ==
    ASSUME TypeOK, NEW b \in Builds, NEW p \in Place, NEW q \in Seq(Call),
           Len(q) <= 4, Goto(b, p, q), UNCHANGED step, Still,
           UNCHANGED verdict \/ verdict' = [verdict EXCEPT ![b] = "running"]
    PROVE  \E r \in {verdict[b], "running"} : Moves(b, r, p, step[b], q)
<1>1. CASE UNCHANGED verdict
  <2>1. Moves(b, verdict[b], p, step[b], q)
    BY <1>1 DEF Goto, Moves, TypeOK
  <2> QED
    BY <2>1
<1>2. CASE verdict' = [verdict EXCEPT ![b] = "running"]
  <2>1. Moves(b, "running", p, step[b], q)
    BY <1>2 DEF Goto, Moves, TypeOK, RowState
  <2> QED
    BY <2>1
<1> QED
  BY <1>1, <1>2

LEMMA RunsFitOn ==
    ASSUME TypeOK, NEW b \in Builds, PlaceFits(b), RunsFit(b),
           at[b] \in Underway \cup {"new"}, runs' = runs,
           at'[b] # "new", step'[b] \in Indices, step'[b] >= step[b],
           at'[b] = "begin" => step'[b] > step[b],
           at'[b] = "run" => at[b] = "begin" /\ step'[b] = step[b]
    PROVE  RunsFit(b)'
<1>1. step[b] \in Nat /\ step'[b] \in Nat
  BY BoundsAssumption DEF TypeOK, Indices
<1> SUFFICES ASSUME NEW i \in Indices
             PROVE  /\ i > step'[b] \/ at'[b] = "new" \/ (at'[b] = "begin" /\ i = step'[b])
                           => runs[<<b, i>>] = "absent"
                    /\ at'[b] = "run" /\ i = step'[b] => runs[<<b, i>>] \notin Conclusions
                    /\ i = 0 => runs[<<b, i>>] \notin Conclusions
                    /\ runs[<<b, i>>] \notin Conclusions \ {"success"}
  BY DEF RunsFit
<1>2. i \in Nat
  BY BoundsAssumption DEF Indices
<1>3. i > step[b] => runs[<<b, i>>] = "absent"
  BY DEF RunsFit
<1>4. at'[b] = "run" /\ i = step'[b] => runs[<<b, i>>] = "absent"
  BY DEF RunsFit
<1>5. i > step'[b] \/ (at'[b] = "begin" /\ i = step'[b]) => runs[<<b, i>>] = "absent"
  BY <1>1, <1>2, <1>3
<1>6. runs[<<b, i>>] = "absent" => runs[<<b, i>>] \notin Conclusions
  BY DEF Conclusions
<1> QED
  BY <1>4, <1>5, <1>6, NothingConcluded

\* What is left to show of a step of runBuild.
LEMMA MovesOn ==
    ASSUME Inv, NEW b \in Builds, NEW r, NEW p, NEW n, NEW q, Moves(b, r, p, n, q),
           at[b] \in Underway \cup {"new"}, p # "new", n >= step[b],
           p = "begin" => n > step[b],
           p = "run" => at[b] = "begin" /\ n = step[b],
           PlaceFits(b)', CallsFit(b)'
    PROVE  Inv'
<1>1. TypeOK /\ PlaceFits(b) /\ RunsFit(b)
  BY DEF Inv, BuildInv
<1>2. /\ verdict'[b] = r /\ at'[b] = p /\ step'[b] = n
      /\ todo'[b] = q /\ runs' = runs
  BY <1>1, MovesType
<1>a. n \in Indices
  BY DEF Moves
<1>3. RunsFit(b)'
  BY <1>1, <1>a, <1>2, RunsFitOn
<1> QED
  BY <1>3, MovesInv, Zenon

\* An outcome that is recorded and reported.
LEMMA ConcludeInv ==
    ASSUME Inv, NEW b \in Builds, at[b] \in Underway, NEW v \in Conclusions,
           NEW q \in Seq(Call), Len(q) <= 4, Conclude(b, v, q), UNCHANGED step,
           Still,
           at'[b] = "over" /\ verdict'[b] = v /\ step'[b] = step[b] /\ todo'[b] = q
               /\ runs' = runs => CallsFit(b)'
    PROVE  Inv'
<1>1. TypeOK /\ step[b] >= step[b]
  BY BoundsAssumption DEF Inv, TypeOK, Indices
<1>2. Moves(b, v, "over", step[b], q)
  BY <1>1, ConcludeMoves
<1>3. /\ verdict'[b] = v /\ at'[b] = "over" /\ step'[b] = step[b]
      /\ todo'[b] = q /\ runs' = runs
  BY <1>1, <1>2, MovesType
<1>4. PlaceFits(b)'
  BY <1>3 DEF PlaceFits, Underway
<1> QED
  BY <1>1, <1>2, <1>3, <1>4, MovesOn

\* runBuild goes on from one place to the next, with or without a report.
LEMMA GoInv ==
    ASSUME Inv, NEW b \in Builds, at[b] \in Underway, NEW p \in Underway,
           NEW q \in Seq(Call), Len(q) <= 4, Goto(b, p, q), UNCHANGED step, Still,
           UNCHANGED verdict \/ verdict' = [verdict EXCEPT ![b] = "running"],
           p # "begin", p = "run" => at[b] = "begin", p = "next" => at[b] = "run",
           p = "prepare" => at[b] = "inspect", p # "inspect", p # "filter",
           at'[b] = p /\ step'[b] = step[b] /\ todo'[b] = q /\ runs' = runs
               => CallsFit(b)'
    PROVE  Inv'
<1>1. TypeOK /\ step[b] >= step[b] /\ p \in Place
  BY BoundsAssumption DEF Inv, TypeOK, Indices, Underway, Place
<1>2. PICK r \in {verdict[b], "running"} : Moves(b, r, p, step[b], q)
  BY <1>1, GoMoves
<1>3. /\ verdict'[b] = r /\ at'[b] = p /\ step'[b] = step[b]
      /\ todo'[b] = q /\ runs' = runs
  BY <1>1, <1>2, MovesType
<1>4. PlaceFits(b)
  BY DEF Inv, BuildInv
<1>5. PlaceFits(b)'
  BY <1>3, <1>4 DEF PlaceFits, Underway
<1>6. p # "new"
  BY DEF Underway
<1>7. /\ p = "begin" => step[b] > step[b]
      /\ p = "run" => at[b] = "begin" /\ step[b] = step[b]
      /\ at[b] \in Underway \cup {"new"}
      /\ CallsFit(b)'
  BY <1>3
<1> QED
  BY <1>1, <1>2, <1>5, <1>6, <1>7, MovesOn, Zenon

LEMMA BuildUpdateCalls ==
    ASSUME NEW to \in Conclusions \cup {"in_progress"}
    PROVE  /\ Update(0, to) \in Seq(Call) /\ Len(Update(0, to)) = 1
           /\ Len(Update(0, to)) <= 4
           /\ IsUpdate(Update(0, to)[1], 0, to, StateFromConclusion(to))
<1>1. 0 \in Indices /\ to \in RunState
  BY BoundsAssumption DEF Indices, RunState
<1>2. /\ Update(0, to) \in Seq(Call) /\ Len(Update(0, to)) = 1
      /\ IsUpdate(Update(0, to)[1], 0, to, StateFromConclusion(to))
  BY <1>1, UpdateCalls
<1>3. \A n : n = 1 => n <= 4
  OBVIOUS
<1> QED
  BY <1>2, <1>3, Zenon

\* The outcome of the build alone: postBuildFailure, and the end of runBuild.
LEMMA ReportInv ==
    ASSUME Inv, NEW b \in Builds, at[b] \in Underway, NEW v \in Conclusions,
           Conclude(b, v, Update(0, v)), UNCHANGED step,
           Still
    PROVE  Inv'
<1>1. ASSUME at'[b] = "over", verdict'[b] = v, todo'[b] = Update(0, v)
      PROVE  CallsFit(b)'
  BY <1>1, BuildUpdateCalls, UpdateFits DEF Underway
<1> QED
  BY <1>1, BuildUpdateCalls, ConcludeInv

\* Up to the first step.
LEMMA AnnounceInv ==
    ASSUME Inv, NEW b \in Builds, Announce(b), Still
    PROVE  Inv'
<1> DEFINE q == Create(0)
<1>1. /\ TypeOK /\ PlaceFits(b) /\ RunsFit(b)
      /\ 0 \in Indices /\ step[b] = 0 /\ step[b] >= step[b]
  BY BoundsAssumption DEF Inv, BuildInv, PlaceFits, Announce, Indices
<1>2. /\ q \in Seq(Call) /\ Len(q) = 2
      /\ IsCreate(q[1], 0) /\ IsPost(q[2], "pending")
  BY <1>1, CreateCalls
<1>a. Goto(b, "inspect", q)
  BY DEF Announce
<1> HIDE DEF q
<1>b. Len(q) <= 4
  BY <1>2
<1>3. Moves(b, "pending", "inspect", step[b], q)
  BY <1>1, <1>2, <1>a, <1>b
     DEF Announce, Goto, Moves, TypeOK, RowState, Place
<1>4. /\ verdict'[b] = "pending" /\ at'[b] = "inspect" /\ step'[b] = step[b]
      /\ todo'[b] = q /\ runs' = runs
  BY <1>1, <1>3, MovesType
<1>5. PlaceFits(b)'
  BY <1>1, <1>4 DEF PlaceFits, Underway
<1>6. runs[<<b, 0>>] = "absent"
  BY <1>1 DEF RunsFit, Announce
<1>7. CallsFit(b)'
  BY <1>2, <1>4, <1>6, CreateFits
<1>8. at[b] \in Underway \cup {"new"}
  BY DEF Announce
<1> QED
  BY <1>1, <1>3, <1>5, <1>7, <1>8, MovesOn

LEMMA InspectInv ==
    ASSUME Inv, NEW b \in Builds, InspectSilently(b) \/ Inspect(b), Still
    PROVE  Inv'
<1>1. /\ TypeOK /\ PlaceFits(b) /\ at[b] \in Underway
      /\ step[b] >= step[b]
  BY BoundsAssumption
     DEF Inv, BuildInv, TypeOK, Indices, InspectSilently, Inspect, Underway
<1>2. ASSUME InspectSilently(b)
      PROVE  Inv'
  <2>1. PICK v \in {"success", "failure"} : verdict' = [verdict EXCEPT ![b] = v]
    BY <1>2 DEF InspectSilently, Record
  <2>2. Moves(b, v, "silent", step[b], <<>>)
    BY <1>1, <1>2, <2>1
       DEF InspectSilently, Goto, Moves, TypeOK, RowState, Place,
           Conclusions
  <2>3. /\ verdict'[b] = v /\ at'[b] = "silent" /\ step'[b] = step[b] /\ todo'[b] = <<>>
    BY <1>1, <2>2, MovesType
  <2>4. PlaceFits(b)'
    BY <2>3 DEF PlaceFits, Underway
  <2>5. CallsFit(b)'
    BY <2>3, NoCallsFit
  <2> QED
    BY <1>1, <2>2, <2>4, <2>5, MovesOn
<1>3. ASSUME Inspect(b), BuildFails(b)
      PROVE  Inv'
  BY <1>1, <1>3, ReportInv DEF Inspect, BuildFails, Conclusions
<1>4. ASSUME Inspect(b), Goto(b, "prepare", Update(0, "in_progress")), UNCHANGED verdict
      PROVE  Inv'
  <2>1. ASSUME at'[b] = "prepare", todo'[b] = Update(0, "in_progress")
        PROVE  CallsFit(b)'
    BY <2>1, BuildUpdateCalls, UpdateFits DEF Underway
  <2> QED
    BY <1>1, <1>4, <2>1, BuildUpdateCalls, GoInv DEF Inspect, Underway
<1> QED
  BY <1>2, <1>3, <1>4 DEF Inspect, RecordNothing, ledger

LEMMA PrepareInv ==
    ASSUME Inv, NEW b \in Builds, Prepare(b), Still
    PROVE  Inv'
<1>1. /\ TypeOK /\ PlaceFits(b) /\ at[b] = "prepare" /\ at[b] \in Underway
      /\ step[b] >= step[b]
  BY BoundsAssumption DEF Inv, BuildInv, TypeOK, Indices, Prepare, Underway
<1>2. ASSUME BuildFails(b)
      PROVE  Inv'
  BY <1>1, <1>2, ReportInv DEF Prepare, BuildFails, Conclusions
<1>3. ASSUME verdict' = [verdict EXCEPT ![b] = "running"],
             Goto(b, "filter", Update(0, "in_progress"))
      PROVE  Inv'
  <2> DEFINE q == Update(0, "in_progress")
  <2>1. /\ q \in Seq(Call) /\ Len(q) = 1 /\ Len(q) <= 4
        /\ IsUpdate(q[1], 0, "in_progress", StateFromConclusion("in_progress"))
    BY BuildUpdateCalls
  <2> HIDE DEF q
  <2>2. Moves(b, "running", "filter", step[b], q)
    BY <1>1, <1>3, <2>1
       DEF Prepare, Goto, Moves, TypeOK, RowState, Place, q
  <2>3. /\ verdict'[b] = "running" /\ at'[b] = "filter" /\ step'[b] = step[b]
        /\ todo'[b] = q
    BY <1>1, <2>2, MovesType
  <2>4. PlaceFits(b)'
    BY <1>1, <2>3 DEF PlaceFits, Underway
  <2>5. CallsFit(b)'
    BY <2>1, <2>3, UpdateFits DEF Underway
  <2> QED
    BY <1>1, <2>2, <2>4, <2>5, MovesOn
<1> QED
  BY <1>2, <1>3 DEF Prepare, Record

\* The next step begins: the first one, or the one after a step that passed.
LEMMA NextStepInv ==
    ASSUME Inv, NEW b \in Builds, at[b] \in {"filter", "next"}, step[b] < MaxSteps,
           step' = [step EXCEPT ![b] = step[b] + 1], Goto(b, "begin", <<>>),
           UNCHANGED verdict, Still
    PROVE  Inv'
<1>1. /\ TypeOK /\ PlaceFits(b) /\ at[b] \in Underway /\ step[b] \in Indices
  BY DEF Inv, BuildInv, TypeOK, Underway
<1>2. /\ step[b] + 1 \in Indices /\ step[b] + 1 > step[b] /\ step[b] + 1 >= step[b]
      /\ step[b] + 1 # 0
  BY <1>1, BoundsAssumption DEF Indices
<1>3. Moves(b, verdict[b], "begin", step[b] + 1, <<>>)
  BY <1>1, <1>2 DEF Goto, Moves, TypeOK, Place
<1>4. /\ verdict'[b] = verdict[b] /\ at'[b] = "begin" /\ step'[b] = step[b] + 1
      /\ todo'[b] = <<>>
  BY <1>1, <1>3, MovesType
<1>5. PlaceFits(b)'
  BY <1>1, <1>2, <1>4 DEF PlaceFits, Underway
<1>6. CallsFit(b)'
  BY <1>4, NoCallsFit
<1> QED
  BY <1>1, <1>2, <1>3, <1>5, <1>6, MovesOn

LEMMA FilterInv ==
    ASSUME Inv, NEW b \in Builds, Filter(b), Still
    PROVE  Inv'
<1>1. at[b] = "filter" /\ at[b] \in Underway /\ step[b] = 0
  BY DEF Inv, BuildInv, PlaceFits, Filter, Underway
<1>2. ASSUME BuildFails(b), UNCHANGED step
      PROVE  Inv'
  BY <1>1, <1>2, ReportInv DEF BuildFails, Conclusions
<1>3. ASSUME Conclude(b, "success", Update(0, "success")), UNCHANGED step
      PROVE  Inv'
  BY <1>1, <1>3, ReportInv DEF Conclusions
<1>4. ASSUME MaxSteps > 0, step' = [step EXCEPT ![b] = 1], Goto(b, "begin", <<>>),
             UNCHANGED verdict
      PROVE  Inv'
  <2>1. step[b] < MaxSteps /\ step[b] + 1 = 1
    BY <1>1, <1>4
  <2> QED
    BY <1>1, <1>4, <2>1, NextStepInv
<1> QED
  BY <1>2, <1>3, <1>4 DEF Filter, RecordNothing, ledger

\* Before the steps run, a build has no check run for the step it begins, and
\* an unconcluded one while the step runs.
LEMMA BeginInv ==
    ASSUME Inv, NEW b \in Builds, Begin(b), Still
    PROVE  Inv'
<1> DEFINE i == step[b]
<1>1. /\ at[b] = "begin" /\ at[b] \in Underway /\ i \in Indices /\ i # 0
      /\ runs[<<b, i>>] = "absent" /\ runs[<<b, i>>] \notin Conclusions
  BY DEF Inv, BuildInv, PlaceFits, RunsFit, TypeOK, Begin, Underway, Conclusions
<1>2. UNCHANGED step /\ "failure" \in Conclusions
  BY DEF Begin, Conclusions
<1> HIDE DEF i
<1>3. ASSUME Goto(b, "run", Create(i)), verdict' = [verdict EXCEPT ![b] = "running"]
      PROVE  Inv'
  <2> DEFINE q == Create(i)
  <2>1. /\ q \in Seq(Call) /\ Len(q) = 2
        /\ IsCreate(q[1], i) /\ IsPost(q[2], "pending")
    BY <1>1, CreateCalls
  <2> HIDE DEF q
  <2>2. Len(q) <= 4 /\ Goto(b, "run", q) /\ "run" \in Underway
    BY <1>3, <2>1 DEF q, Underway
  <2>3. ASSUME step'[b] = step[b], todo'[b] = q, runs' = runs
        PROVE  CallsFit(b)'
    BY <1>1, <2>1, <2>3, CreateFits DEF i
  <2> QED
    BY <1>1, <1>2, <1>3, <2>1, <2>2, <2>3, GoInv
<1>4. ASSUME Goto(b, "run", <<>>), verdict' = [verdict EXCEPT ![b] = "running"]
      PROVE  Inv'
  <2>1. <<>> \in Seq(Call) /\ Len(<<>>) <= 4 /\ "run" \in Underway
    BY DEF Underway
  <2>2. ASSUME todo'[b] = <<>>
        PROVE  CallsFit(b)'
    BY <2>2, NoCallsFit
  <2> QED
    BY <1>1, <1>2, <1>4, <2>1, <2>2, GoInv
<1>5. ASSUME Conclude(b, "failure", Create(i) \o PostStepFailure(i))
      PROVE  Inv'
  <2> DEFINE q == Create(i) \o PostStepFailure(i)
  <2>1. /\ q \in Seq(Call) /\ Len(q) = 4
        /\ IsCreate(q[1], i) /\ IsPost(q[2], "pending")
        /\ IsUpdate(q[3], i, "failure", "failure")
        /\ IsUpdate(q[4], 0, "failure", "failure")
    BY <1>1, CreateCalls, FailureCalls, CreateFailureCalls, Zenon
  <2> HIDE DEF q
  <2>2. Len(q) <= 4 /\ Conclude(b, "failure", q)
    BY <1>5, <2>1 DEF q
  <2>3. ASSUME at'[b] = "over", verdict'[b] = "failure", step'[b] = step[b],
               todo'[b] = q, runs' = runs
        PROVE  CallsFit(b)'
    BY <1>1, <2>1, <2>3, CreateVerdictFits DEF i
  <2> QED
    BY <1>1, <1>2, <2>1, <2>2, <2>3, ConcludeInv
<1>6. ASSUME Conclude(b, "failure", <<>> \o PostStepFailure(i))
      PROVE  Inv'
  <2> DEFINE q == PostStepFailure(i)
  <2>1. /\ q \in Seq(Call) /\ Len(q) = 2
        /\ IsUpdate(q[1], i, "failure", "failure")
        /\ IsUpdate(q[2], 0, "failure", "failure")
    BY <1>1, FailureCalls
  <2>2. <<>> \o q = q
    BY <2>1
  <2> HIDE DEF q
  <2>3. Len(q) <= 4 /\ Conclude(b, "failure", q)
    BY <1>6, <2>1, <2>2 DEF q
  <2>4. ASSUME at'[b] = "over", verdict'[b] = "failure", step'[b] = step[b],
               todo'[b] = q, runs' = runs
        PROVE  CallsFit(b)'
    BY <1>1, <2>1, <2>4, VerdictFits DEF i
  <2> QED
    BY <1>1, <1>2, <2>1, <2>3, <2>4, ConcludeInv
<1> QED
  BY <1>3, <1>4, <1>5, <1>6 DEF Begin, CreateStep, Record, i

LEMMA RunInv ==
    ASSUME Inv, NEW b \in Builds, Run(b), Still
    PROVE  Inv'
<1> DEFINE i == step[b]
<1>1. /\ at[b] = "run" /\ at[b] \in Underway /\ i \in Indices /\ i # 0
      /\ runs[<<b, i>>] \notin Conclusions
  BY DEF Inv, BuildInv, PlaceFits, RunsFit, TypeOK, Run, Underway
<1>2. UNCHANGED step
  BY DEF Run
<1> HIDE DEF i
<1>3. ASSUME Conclude(b, "failure", PostStepFailure(i))
      PROVE  Inv'
  <2> DEFINE q == PostStepFailure(i)
  <2>1. /\ q \in Seq(Call) /\ Len(q) = 2
        /\ IsUpdate(q[1], i, "failure", "failure")
        /\ IsUpdate(q[2], 0, "failure", "failure")
    BY <1>1, FailureCalls
  <2> HIDE DEF q
  <2>2. Len(q) <= 4 /\ Conclude(b, "failure", q) /\ "failure" \in Conclusions
    BY <1>3, <2>1 DEF q, Conclusions
  <2>3. ASSUME at'[b] = "over", verdict'[b] = "failure", step'[b] = step[b],
               todo'[b] = q, runs' = runs
        PROVE  CallsFit(b)'
    BY <1>1, <2>1, <2>3, VerdictFits DEF i
  <2> QED
    BY <1>1, <1>2, <2>1, <2>2, <2>3, ConcludeInv
<1>4. ASSUME NEW v \in {"cancelled", "timed_out"},
             Conclude(b, v, Update(i, v) \o Update(0, v))
      PROVE  Inv'
  <2> DEFINE q == Update(i, v) \o Update(0, v)
  <2>a. v \in Conclusions
    BY DEF Conclusions
  <2>1. /\ q \in Seq(Call) /\ Len(q) = 2
        /\ IsUpdate(q[1], i, v, Outcome(v)) /\ IsUpdate(q[2], 0, v, Outcome(v))
    BY <1>1, <2>a, VerdictCalls
  <2> HIDE DEF q
  <2>2. Len(q) <= 4 /\ Conclude(b, v, q)
    BY <1>4, <2>1 DEF q
  <2>3. ASSUME at'[b] = "over", verdict'[b] = v, step'[b] = step[b],
               todo'[b] = q, runs' = runs
        PROVE  CallsFit(b)'
    BY <1>1, <2>1, <2>3, VerdictFits DEF i
  <2> QED
    BY <1>1, <1>2, <2>a, <2>1, <2>2, <2>3, ConcludeInv
<1>5. ASSUME Goto(b, "next", UpdateQuietly(i, "success")), UNCHANGED verdict
      PROVE  Inv'
  <2> DEFINE q == UpdateQuietly(i, "success")
  <2>1. /\ q \in Seq(Call) /\ Len(q) = 1
        /\ IsUpdate(q[1], i, "success", "none")
    BY <1>1, QuietCalls DEF RunState, Conclusions
  <2> HIDE DEF q
  <2>a. Goto(b, "next", q)
    BY <1>5 DEF q
  <2>2. Len(q) <= 4 /\ Goto(b, "next", q) /\ "next" \in Underway
    BY <2>a, <2>1 DEF Underway
  <2>3. ASSUME at'[b] = "next", step'[b] = step[b], todo'[b] = q, runs' = runs
        PROVE  CallsFit(b)'
    BY <1>1, <2>1, <2>3, PassFits DEF i
  <2> QED
    BY <1>1, <1>2, <1>5, <2>1, <2>2, <2>3, GoInv
<1> QED
  BY <1>3, <1>4, <1>5 DEF Run, RecordNothing, ledger, i

LEMMA TroublesType ==
    ASSUME TypeOK, troubles' = troubles \/ Trouble
    PROVE  troubles' \in 0..MaxTroubles /\ (troubles' = 0 => troubles = 0)
BY BoundsAssumption DEF TypeOK, Trouble

\* A step of runBuild writes one row, fails to, or leaves the database alone.
LEMMA BuildStepWrites ==
    ASSUME NEW b \in Builds, BuildStep(b)
    PROVE  \/ RecordNothing
           \/ verdict' = [verdict EXCEPT ![b] = "pending"] /\ Write(b, "pending")
           \/ at[b] \in Underway /\ \E v \in RowState : Record(b, v)
<1> DEFINE Records == \E v \in RowState : Record(b, v)
<1>1. \A v \in {"running"} \cup Conclusions : Record(b, v) => Records
  BY DEF RowState
<1>2. \A v \in Conclusions : \A q : Conclude(b, v, q) => Records
  BY <1>1 DEF Conclude
<1>3. BuildFails(b) => Records
  BY <1>2 DEF BuildFails, Conclusions
<1> HIDE DEF Records
<1>4. Announce(b) =>
          verdict' = [verdict EXCEPT ![b] = "pending"] /\ Write(b, "pending")
  BY DEF Announce
<1>5. InspectSilently(b) \/ Inspect(b) \/ Prepare(b) => RecordNothing \/ Records
  BY <1>1, <1>3 DEF InspectSilently, Inspect, Prepare, Conclusions
<1>6. Filter(b) \/ NextStep(b) \/ Succeed(b) => RecordNothing \/ Records
  BY <1>2, <1>3 DEF Filter, NextStep, Succeed, Conclusions
<1>7. Begin(b) \/ Run(b) => RecordNothing \/ Records
  BY <1>1, <1>2 DEF Begin, Run, Conclusions
<1>8. ~Announce(b) => at[b] \in Underway
  BY DEF BuildStep, InspectSilently, Inspect, Prepare, Filter, Begin, Run,
         NextStep, Succeed, Underway
<1> QED
  BY <1>4, <1>5, <1>6, <1>7, <1>8 DEF BuildStep, Records

LEMMA BuildStepStill ==
    ASSUME TypeOK, NEW b \in Builds, BuildStep(b)
    PROVE  Still /\ (troubles' = troubles \/ Trouble)
<1>1. troubles' = troubles \/ Trouble
  BY BuildStepWrites DEF RecordNothing, Write, Record
<1>2. troubles' \in 0..MaxTroubles
  BY <1>1, TroublesType
<1>3. row' \in [Builds -> RowState] /\ unwritten' \subseteq Builds
  <2>1. CASE RecordNothing
    BY <2>1 DEF TypeOK, RecordNothing, ledger
  <2>2. ASSUME NEW v \in RowState, Write(b, v)
        PROVE  row' \in [Builds -> RowState] /\ unwritten' \subseteq Builds
    BY <2>2 DEF TypeOK, Write
  <2>3. CASE Write(b, "pending")
    BY <2>2, <2>3 DEF RowState
  <2>4. ASSUME NEW v \in RowState, Record(b, v)
        PROVE  row' \in [Builds -> RowState] /\ unwritten' \subseteq Builds
    BY <2>2, <2>4 DEF TypeOK, Record
  <2> QED
    BY <2>1, <2>3, <2>4, BuildStepWrites
<1> QED
  BY <1>1, <1>2, <1>3 DEF BuildStep, Still, Ledger

LEMMA BuildStepInv ==
    ASSUME Inv, NEW b \in Builds, BuildStep(b)
    PROVE  Inv'
<1>1. Still
  BY BuildStepStill DEF Inv
<1>2. ASSUME NextStep(b)
      PROVE  Inv'
  BY <1>1, <1>2, NextStepInv DEF NextStep, RecordNothing, ledger
<1>3. ASSUME Succeed(b)
      PROVE  Inv'
  BY <1>1, <1>3, ReportInv DEF Succeed, Underway, Conclusions
<1> QED
  BY <1>1, <1>2, <1>3, AnnounceInv, InspectInv, PrepareInv, FilterInv, BeginInv,
     RunInv
     DEF BuildStep

----------------------------------------------------------------------------
\* Each call keeps the invariant

\* The first call of b is carried out on GitHub, or is not.
Carries(b, h) ==
    \A i \in Indices :
        \/ runs'[<<b, i>>] = runs[<<b, i>>]
        \/ i = h.i /\ h.op = "create" /\ runs'[<<b, i>>] = "in_progress"
        \/ i = h.i /\ h.op = "update" /\ runs'[<<b, i>>] = h.to

\* The calls that are left behind it are as they were, or all moved up by one;
\* only the first may be new, and is a post.
InStep(b, q) ==
    \E d \in {0, 1} :
        \A k \in 1..Len(q) :
            \/ k = 1 /\ q[k].op = "post" /\ ~q[k].aborts
            \/ k + d \in 2..Len(todo[b]) /\ q[k] = todo[b][k + d]

\* The call that waits behind the first one fits as it did.
LEMMA LaterFits ==
    ASSUME TypeOK, NEW b \in Builds, BuildInv(b), UNCHANGED flow,
           Carries(b, todo[b][1]), NEW j \in 2..Len(todo[b]), NEW c, c = todo[b][j]
    PROVE  CallFits(b, c)' /\ c.op # "create"
<1> DEFINE h == todo[b][1]
<1>1. /\ j \in 1..Len(todo[b]) /\ 1 \in 1..Len(todo[b]) /\ j # 1
      /\ h \in Call /\ c \in Call
  BY DEF TypeOK
<1>2. /\ CallFits(b, c) /\ c.op # "create"
      /\ ~(StepUpdate(c) /\ StepUpdate(h))
  BY <1>1 DEF BuildInv, CallsFit
<1> HIDE DEF h
<1>3. c.i \in Indices
  BY <1>1 DEF Call
<1>4. ASSUME StepUpdate(c)
      PROVE  runs'[<<b, c.i>>] \notin Conclusions
  <2>1. runs[<<b, c.i>>] \notin Conclusions
    BY <1>2, <1>4 DEF CallFits
  <2>2. CASE runs'[<<b, c.i>>] = runs[<<b, c.i>>]
    BY <2>1, <2>2
  <2>3. CASE runs'[<<b, c.i>>] = "in_progress"
    BY <2>3 DEF Conclusions
  <2>4. CASE c.i = h.i /\ h.op = "update"
    BY <1>2, <1>4, <2>4 DEF StepUpdate
  <2> QED
    BY <1>3, <2>2, <2>3, <2>4 DEF Carries, h
<1> QED
  BY <1>2, <1>4 DEF CallFits, flow, ledger, StepUpdate

LEMMA LeftCallsFit ==
    ASSUME TypeOK, NEW b \in Builds, BuildInv(b), UNCHANGED flow,
           Carries(b, todo[b][1]), NEW q, todo'[b] = q, InStep(b, q)
    PROVE  CallsFit(b)'
<1>1. PICK d \in {0, 1} :
          \A k \in 1..Len(q) :
              \/ k = 1 /\ q[k].op = "post" /\ ~q[k].aborts
              \/ k + d \in 2..Len(todo[b]) /\ q[k] = todo[b][k + d]
  BY DEF InStep
<1> SUFFICES ASSUME NEW k \in 1..Len(q), NEW c, c = q[k]
             PROVE  /\ CallFits(b, c)'
                    /\ k # 1 => c.op # "create"
                    /\ StepUpdate(c) =>
                          \A j \in 1..Len(q) : StepUpdate(q[j]) => j = k
  BY DEF CallsFit, CallFits, StepUpdate
<1>2. CASE k = 1 /\ c.op = "post" /\ ~c.aborts
  BY <1>2 DEF CallFits, StepUpdate
<1>3. CASE k + d \in 2..Len(todo[b]) /\ c = todo[b][k + d]
  <2>1. CallFits(b, c)' /\ c.op # "create"
    BY <1>3, LaterFits
  <2>2. ASSUME StepUpdate(c), NEW j \in 1..Len(q), StepUpdate(q[j])
        PROVE  j = k
    <3>1. j + d \in 2..Len(todo[b]) /\ q[j] = todo[b][j + d]
      BY <1>1, <2>2 DEF StepUpdate
    <3>2. \A m, n \in 1..Len(todo[b]) :
              StepUpdate(todo[b][m]) /\ StepUpdate(todo[b][n]) => m = n
      BY DEF BuildInv, CallsFit
    <3>3. Len(todo[b]) \in Nat
      BY DEF TypeOK
    <3>4. k + d = j + d
      BY <1>3, <2>2, <3>1, <3>2, <3>3
    <3> QED
      BY <3>4
  <2> QED
    BY <2>1, <2>2
<1> QED
  BY <1>1, <1>2, <1>3

\* What the check runs show still fits, and what was concluded stays.
LEMMA CarriedFits ==
    ASSUME TypeOK, NEW b \in Builds, BuildInv(b), UNCHANGED flow,
           todo[b] # <<>>, Carries(b, todo[b][1])
    PROVE  /\ RunsFit(b)'
           /\ \A i \in Indices : runs[<<b, i>>] \in Conclusions =>
                                     runs'[<<b, i>>] = runs[<<b, i>>]
<1> DEFINE h == todo[b][1]
<1>1. h \in Call /\ CallFits(b, h) /\ PlaceFits(b) /\ RunsFit(b)
  <2>1. todo[b] \in Seq(Call)
    BY DEF TypeOK
  <2>2. 1 \in 1..Len(todo[b]) /\ h \in Call
    BY <2>1
  <2> QED
    BY <2>2 DEF BuildInv, CallsFit
<1>2. step[b] \in Nat /\ at[b] \notin {"new", "begin"}
  BY <1>1, BoundsAssumption DEF TypeOK, Indices, PlaceFits
<1> HIDE DEF h
<1> SUFFICES ASSUME NEW i \in Indices
             PROVE  /\ i > step[b] => runs'[<<b, i>>] = "absent"
                    /\ at[b] = "run" /\ i = step[b] => runs'[<<b, i>>] \notin Conclusions
                    /\ i = 0 /\ runs'[<<b, i>>] \in Conclusions =>
                          verdict[b] = runs'[<<b, i>>]
                    /\ runs'[<<b, i>>] \in Conclusions \ {"success"} =>
                          verdict[b] = runs'[<<b, i>>]
                    /\ runs[<<b, i>>] \in Conclusions => runs'[<<b, i>>] = runs[<<b, i>>]
  BY <1>2 DEF RunsFit, flow, ledger
<1>3. i \in Nat
  BY BoundsAssumption DEF Indices
<1>4. CASE runs'[<<b, i>>] = runs[<<b, i>>]
  BY <1>1, <1>4 DEF RunsFit
<1>5. CASE i = h.i /\ h.op = "create" /\ runs'[<<b, i>>] = "in_progress"
  <2>1. i \in {0, step[b]} /\ runs[<<b, i>>] = "absent"
    BY <1>1, <1>5 DEF CallFits
  <2> QED
    BY <1>2, <1>3, <1>5, <2>1 DEF Conclusions
<1>6. CASE i = h.i /\ h.op = "update" /\ runs'[<<b, i>>] = h.to
  <2>1. CASE i = 0
    <3>1. h.to = IF at[b] \in Underway THEN "in_progress" ELSE verdict[b]
      BY <1>1, <1>6, <2>1 DEF CallFits
    <3>2. /\ at[b] \in Underway => verdict[b] \in {"pending", "running"}
          /\ at[b] \in {"begin", "run", "next"} => step[b] # 0
          /\ runs[<<b, i>>] \in Conclusions => verdict[b] = runs[<<b, i>>]
      BY <1>1, <2>1 DEF PlaceFits, RunsFit
    <3> QED
      BY <1>2, <1>3, <1>6, <2>1, <3>1, <3>2 DEF Conclusions
  <2>2. CASE i # 0
    <3>1. /\ i = step[b] /\ at[b] \in {"next", "over"}
          /\ runs[<<b, i>>] \notin Conclusions
          /\ h.to = IF at[b] = "next" THEN "success" ELSE verdict[b]
      BY <1>1, <1>6, <2>2 DEF CallFits, StepUpdate
    <3> QED
      BY <1>2, <1>3, <1>6, <2>2, <3>1
  <2> QED
    BY <2>1, <2>2
<1> QED
  BY <1>4, <1>5, <1>6 DEF Carries, h

ConclusionsKeep ==
    \A k \in CheckRun : runs[k] \in Conclusions => runs'[k] = runs[k]

\* What is left to show of a call.
LEMMA CallInv ==
    ASSUME Inv, NEW b \in Builds, TypeOK', KeysFit', UNCHANGED flow,
           todo[b] # <<>>, Carries(b, todo[b][1]), InStep(b, todo'[b]),
           \A c \in Builds \ {b} :
               /\ todo'[c] = todo[c]
               /\ \A i \in Indices : runs'[<<c, i>>] = runs[<<c, i>>]
    PROVE  Inv' /\ ConclusionsKeep
<1>1. TypeOK /\ BuildInv(b) /\ PlaceFits(b)
  BY DEF Inv, BuildInv
<1>2. PlaceFits(b)'
  BY <1>1 DEF PlaceFits, flow, ledger
<1>3. CallsFit(b)'
  BY <1>1, LeftCallsFit
<1>4. /\ RunsFit(b)'
      /\ \A i \in Indices : runs[<<b, i>>] \in Conclusions =>
                                runs'[<<b, i>>] = runs[<<b, i>>]
  BY <1>1, CarriedFits
<1>5. ASSUME NEW c \in Builds \ {b}
      PROVE  BuildInv(c)'
  BY <1>1, <1>5, OthersKeep DEF Inv, flow, ledger
<1>6. ConclusionsKeep
  BY <1>4 DEF ConclusionsKeep, CheckRun
<1> QED
  BY <1>2, <1>3, <1>4, <1>5, <1>6 DEF Inv, BuildInv

\* A step that leaves the builds and their calls alone.
LEMMA AsideInv ==
    ASSUME Inv, TypeOK', KeysFit', UNCHANGED <<flow, todo, runs>>
    PROVE  Inv' /\ ConclusionsKeep
<1>1. ASSUME NEW c \in Builds
      PROVE  BuildInv(c)'
  BY <1>1, OthersKeep DEF Inv, flow, ledger
<1> QED
  BY <1>1 DEF Inv, ConclusionsKeep

\* The first call is over: the others move up.
LEMMA DoneLeaves ==
    ASSUME TypeOK, NEW b \in Builds, todo[b] # <<>>, Done(b)
    PROVE  /\ todo' \in [Builds -> Seq(Call)]
           /\ \A c \in Builds : Len(todo'[c]) <= 4
           /\ token' \in [Builds -> {"unset", "none", "app", "pat"}]
           /\ todo'[b] = Tail(todo[b]) /\ token'[b] = "unset"
           /\ \A c \in Builds \ {b} : todo'[c] = todo[c] /\ token'[c] = token[c]
           /\ InStep(b, todo'[b])
<1>1. /\ todo[b] \in Seq(Call) /\ Len(todo[b]) \in Nat /\ Len(todo[b]) <= 4
      /\ Tail(todo[b]) \in Seq(Call) /\ Len(Tail(todo[b])) = Len(todo[b]) - 1
      /\ \A k \in 1..Len(Tail(todo[b])) :
            k + 1 \in 2..Len(todo[b]) /\ Tail(todo[b])[k] = todo[b][k + 1]
  BY TailFacts DEF TypeOK
<1>2. /\ todo'[b] = Tail(todo[b]) /\ token'[b] = "unset"
      /\ \A c \in Builds \ {b} : todo'[c] = todo[c] /\ token'[c] = token[c]
  BY DEF Done, TypeOK
<1>3. /\ todo' \in [Builds -> Seq(Call)]
      /\ token' \in [Builds -> {"unset", "none", "app", "pat"}]
  BY <1>1 DEF Done, TypeOK
<1>4. InStep(b, todo'[b])
  BY <1>1, <1>2 DEF InStep
<1>5. \A c \in Builds : Len(todo'[c]) <= 4
  BY <1>1, <1>2 DEF TypeOK
<1> QED
  BY <1>2, <1>3, <1>4, <1>5

LEMMA FetchTokenInv ==
    ASSUME Inv, NEW b \in Builds, FetchToken(b)
    PROVE  Inv' /\ ConclusionsKeep
<1>1. {AppToken, ApiToken} \subseteq {"unset", "none", "app", "pat"}
  BY DEF AppToken, ApiToken
<1>a. /\ token' \in [Builds -> {"unset", "none", "app", "pat"}]
      /\ troubles' = troubles \/ Trouble
      /\ UNCHANGED <<cfg, flow, todo, checkRuns, github>>
  BY <1>1 DEF Inv, TypeOK, FetchToken
<1>b. troubles' \in 0..MaxTroubles
  BY <1>a, TroublesType DEF Inv
<1>2. TypeOK'
  BY <1>a, <1>b DEF Inv, TypeOK, flow, ledger, github
<1>3. KeysFit' /\ UNCHANGED <<flow, todo, runs>>
  BY DEF Inv, KeysFit, FetchToken, github
<1> QED
  BY <1>2, <1>3, AsideInv

LEMMA NoTokenInv ==
    ASSUME Inv, NEW b \in Builds, NoToken(b)
    PROVE  Inv' /\ ConclusionsKeep
<1>1. /\ TypeOK /\ todo[b] # <<>> /\ UNCHANGED <<cfg, flow, checkRuns, runs, status, troubles>>
      /\ KeysFit' /\ Carries(b, todo[b][1])
  BY DEF Inv, NoToken, KeysFit, Carries, github
<1>2. ASSUME Done(b)
      PROVE  Inv' /\ ConclusionsKeep
  <2>1. /\ todo' \in [Builds -> Seq(Call)]
        /\ \A c \in Builds : Len(todo'[c]) <= 4
        /\ token' \in [Builds -> {"unset", "none", "app", "pat"}]
        /\ InStep(b, todo'[b])
        /\ \A c \in Builds \ {b} : todo'[c] = todo[c]
    BY <1>1, <1>2, DoneLeaves
  <2>2. TypeOK'
    BY <1>1, <2>1 DEF TypeOK, flow, ledger
  <2> QED
    BY <1>1, <2>1, <2>2, CallInv
<1>3. ASSUME todo' = [todo EXCEPT ![b] = <<>>], token' = [token EXCEPT ![b] = "unset"]
      PROVE  Inv' /\ ConclusionsKeep
  <2>1. /\ todo'[b] = <<>> /\ InStep(b, <<>>)
        /\ \A c \in Builds \ {b} : todo'[c] = todo[c]
    BY <1>1, <1>3 DEF TypeOK, InStep
  <2>2. TypeOK'
    BY <1>1, <1>3, <2>1 DEF TypeOK, flow, ledger
  <2> QED
    BY <1>1, <2>1, <2>2, CallInv
<1> QED
  BY <1>2, <1>3 DEF NoToken

\* One check run is changed, or none.
LEMMA OneChanges ==
    ASSUME NEW S, NEW T, NEW f \in [S -> T], NEW x \in S, NEW y \in T,
           NEW g, g = f \/ g = [f EXCEPT ![x] = y]
    PROVE  /\ g \in [S -> T]
           /\ \A k \in S : g[k] = f[k] \/ (k = x /\ g[k] = y)
OBVIOUS

LEMMA CreateCheckRunInv ==
    ASSUME Inv, NEW b \in Builds, CreateCheckRun(b)
    PROVE  Inv' /\ ConclusionsKeep
<1> DEFINE h == todo[b][1]
           created == [runs EXCEPT ![<<b, h.i>>] = "in_progress"]
<1>1. /\ TypeOK /\ todo[b] # <<>> /\ Head(todo[b]) = h /\ h \in Call /\ h.op = "create"
      /\ UNCHANGED <<cfg, flow, status>> /\ Done(b)
  BY TailFacts DEF Inv, TypeOK, CreateCheckRun, Calls
<1>2. h.i \in Indices /\ <<b, h.i>> \in CheckRun
  BY <1>1 DEF Call, CheckRun
<1>3. \/ runs' = created /\ troubles' = troubles
         /\ checkRuns' = [checkRuns EXCEPT ![<<b, h.i>>] = <<b, h.i>>]
      \/ (runs' = runs \/ runs' = created) /\ Trouble /\ checkRuns' = checkRuns
  BY <1>1 DEF CreateCheckRun, CheckRunKey
<1> HIDE DEF created
<1> HIDE DEF h
<1>4. /\ runs' \in [CheckRun -> RunState]
      /\ \A k \in CheckRun : \/ runs'[k] = runs[k]
                             \/ k = <<b, h.i>> /\ runs'[k] = "in_progress"
  <2>1. "in_progress" \in RunState /\ runs \in [CheckRun -> RunState]
    BY <1>1 DEF TypeOK, RunState
  <2> DEFINE key == <<b, h.i>>
  <2>2. runs' = runs \/ runs' = [runs EXCEPT ![key] = "in_progress"]
    BY <1>3, Zenon DEF created
  <2>3. key \in CheckRun
    BY <1>2
  <2> HIDE DEF key
  <2>4. /\ runs' \in [CheckRun -> RunState]
        /\ \A k \in CheckRun : \/ runs'[k] = runs[k]
                               \/ k = key /\ runs'[k] = "in_progress"
    BY <2>1, <2>2, <2>3, OneChanges
  <2> QED
    BY <2>4 DEF key
<1>5. checkRuns' \in [CheckRun -> CheckRun \cup {<<>>}] /\ KeysFit'
  <2>1. /\ <<b, h.i>> \in CheckRun \cup {<<>>}
        /\ checkRuns \in [CheckRun -> CheckRun \cup {<<>>}]
    BY <1>1, <1>2
       DEF TypeOK
  <2>a. \/ checkRuns' = checkRuns
        \/ checkRuns' = [checkRuns EXCEPT ![<<b, h.i>>] = <<b, h.i>>]
    BY <1>3
  <2>2. /\ checkRuns' \in [CheckRun -> CheckRun \cup {<<>>}]
        /\ \A k \in CheckRun : \/ checkRuns'[k] = checkRuns[k]
                               \/ k = <<b, h.i>> /\ checkRuns'[k] = <<b, h.i>>
    <3> DEFINE key == <<b, h.i>>
    <3>1. key \in CheckRun /\ key \in CheckRun \cup {<<>>}
      BY <1>2
    <3>2. checkRuns' = checkRuns \/ checkRuns' = [checkRuns EXCEPT ![key] = key]
      BY <2>a
    <3> HIDE DEF key
    <3>3. /\ checkRuns' \in [CheckRun -> CheckRun \cup {<<>>}]
          /\ \A k \in CheckRun : \/ checkRuns'[k] = checkRuns[k]
                                 \/ k = key /\ checkRuns'[k] = key
      BY <2>1, <3>1, <3>2, OneChanges
    <3> QED
      BY <3>3 DEF key
  <2> QED
    BY <2>2 DEF Inv, KeysFit
<1>6. /\ todo' \in [Builds -> Seq(Call)]
      /\ \A c \in Builds : Len(todo'[c]) <= 4
      /\ token' \in [Builds -> {"unset", "none", "app", "pat"}]
      /\ InStep(b, todo'[b])
      /\ \A c \in Builds \ {b} : todo'[c] = todo[c]
  BY <1>1, DoneLeaves
<1>7. troubles' \in 0..MaxTroubles
  BY <1>1, <1>3, TroublesType
<1>8. TypeOK'
  BY <1>1, <1>4, <1>5, <1>6, <1>7 DEF TypeOK, flow, ledger
<1>9. Carries(b, h)
  BY <1>1, <1>4 DEF Carries, CheckRun
<1>10. \A c \in Builds \ {b}, i \in Indices : runs'[<<c, i>>] = runs[<<c, i>>]
  BY <1>4 DEF CheckRun
<1> QED
  BY <1>1, <1>5, <1>6, <1>8, <1>9, <1>10, CallInv DEF h

\* The check run found under the key is the one of the build and the step.
LEMMA UpdateCheckRunInv ==
    ASSUME Inv, NEW b \in Builds, UpdateCheckRun(b)
    PROVE  Inv' /\ ConclusionsKeep
<1> DEFINE h == todo[b][1]
           updated == [runs EXCEPT ![<<b, h.i>>] = h.to]
<1>1. /\ TypeOK /\ todo[b] # <<>> /\ Head(todo[b]) = h /\ h \in Call /\ h.op = "update"
      /\ UNCHANGED <<cfg, flow, status, checkRuns>>
  BY TailFacts DEF Inv, TypeOK, UpdateCheckRun, Calls
<1>2. h.i \in Indices /\ h.to \in RunState /\ h.says \in CommitState
      /\ <<b, h.i>> \in CheckRun
  BY <1>1 DEF Call, CheckRun
<1>3. checkRuns[<<b, h.i>>] \in {<<>>, <<b, h.i>>}
  BY <1>2 DEF Inv, KeysFit
<1>4. (runs' = runs \/ runs' = updated) /\ (troubles' = troubles \/ Trouble)
  BY <1>1, <1>3 DEF UpdateCheckRun, CheckRunKey
<1>5. \/ Done(b)
      \/ /\ h.says # "none" /\ UNCHANGED token
         /\ todo' = [todo EXCEPT ![b] = <<Post(h.says)>> \o Tail(todo[b])]
  BY <1>1 DEF UpdateCheckRun
<1> HIDE DEF h
<1>6. /\ runs' \in [CheckRun -> RunState]
      /\ \A k \in CheckRun : \/ runs'[k] = runs[k]
                             \/ k = <<b, h.i>> /\ runs'[k] = h.to
  <2>1. runs \in [CheckRun -> RunState]
    BY <1>1 DEF TypeOK
  <2> DEFINE key == <<b, h.i>>
             to == h.to
  <2>2. runs' = runs \/ runs' = [runs EXCEPT ![key] = to]
    BY <1>4, Zenon
  <2>3. key \in CheckRun /\ to \in RunState
    BY <1>2
  <2> HIDE DEF key, to
  <2>4. /\ runs' \in [CheckRun -> RunState]
        /\ \A k \in CheckRun : runs'[k] = runs[k] \/ (k = key /\ runs'[k] = to)
    BY <2>1, <2>2, <2>3, OneChanges
  <2> QED
    BY <2>4 DEF key, to
<1>7. KeysFit'
  BY <1>1 DEF Inv, KeysFit
<1>8. /\ todo' \in [Builds -> Seq(Call)]
      /\ \A c \in Builds : Len(todo'[c]) <= 4
      /\ token' \in [Builds -> {"unset", "none", "app", "pat"}]
      /\ InStep(b, todo'[b])
      /\ \A c \in Builds \ {b} : todo'[c] = todo[c]
  <2>1. CASE Done(b)
    BY <1>1, <2>1, DoneLeaves
  <2>2. CASE /\ UNCHANGED token
             /\ todo' = [todo EXCEPT ![b] = <<Post(h.says)>> \o Tail(todo[b])]
    <3> DEFINE p == Post(h.says)
               q == <<p>> \o Tail(todo[b])
    <3>1. p \in Call /\ p.op = "post" /\ p.aborts = FALSE
      BY <1>2, PostType DEF IsPost
    <3> HIDE DEF p
    <3>2. /\ q \in Seq(Call) /\ Len(q) = Len(todo[b]) /\ q[1] = p
          /\ \A k \in 2..Len(todo[b]) : q[k] = todo[b][k]
      BY <1>1, <3>1, SwapFacts DEF TypeOK
    <3> HIDE DEF q
    <3>3. /\ todo' = [todo EXCEPT ![b] = q] /\ todo'[b] = q
          /\ \A c \in Builds \ {b} : todo'[c] = todo[c]
      BY <1>1, <2>2 DEF TypeOK, p, q
    <3>4. InStep(b, q)
      <4> DEFINE n == Len(todo[b])
      <4>1. n \in Nat /\ Len(q) = n
        BY <1>1, <3>2 DEF TypeOK
      <4> HIDE DEF n
      <4>2. \A k \in 1..n : k + 0 = k /\ (k = 1 \/ k \in 2..n)
        BY <4>1
      <4>3. \A k \in 2..n : q[k] = todo[b][k]
        BY <3>2 DEF n
      <4> QED
        BY <3>1, <3>2, <4>1, <4>2, <4>3 DEF InStep, n
    <3> QED
      BY <1>1, <2>2, <3>2, <3>3, <3>4 DEF TypeOK
  <2> QED
    BY <1>5, <2>1, <2>2
<1>9. troubles' \in 0..MaxTroubles
  BY <1>1, <1>4, TroublesType
<1>10. TypeOK'
  BY <1>1, <1>6, <1>8, <1>9 DEF TypeOK, flow, ledger
<1>11. Carries(b, h)
  BY <1>1, <1>6 DEF Carries, CheckRun
<1>12. \A c \in Builds \ {b}, i \in Indices : runs'[<<c, i>>] = runs[<<c, i>>]
  BY <1>6 DEF CheckRun
<1> QED
  BY <1>1, <1>7, <1>8, <1>10, <1>11, <1>12, CallInv DEF h

LEMMA PostStatusInv ==
    ASSUME Inv, NEW b \in Builds, PostStatus(b)
    PROVE  Inv' /\ ConclusionsKeep
<1>1. /\ TypeOK /\ todo[b] # <<>> /\ Head(todo[b]) \in Call
      /\ UNCHANGED <<cfg, flow, checkRuns, runs>> /\ Done(b)
      /\ KeysFit' /\ Carries(b, todo[b][1])
  BY TailFacts DEF Inv, TypeOK, PostStatus, Calls, KeysFit, Carries
<1>2. /\ status' \in [state : CommitState, by : SUBSET Builds]
      /\ troubles' = troubles \/ Trouble
  BY <1>1 DEF TypeOK, PostStatus, Call
<1>3. /\ todo' \in [Builds -> Seq(Call)]
      /\ \A c \in Builds : Len(todo'[c]) <= 4
      /\ token' \in [Builds -> {"unset", "none", "app", "pat"}]
      /\ InStep(b, todo'[b])
      /\ \A c \in Builds \ {b} : todo'[c] = todo[c]
  BY <1>1, DoneLeaves
<1>4. TypeOK'
  BY <1>1, <1>2, <1>3, TroublesType DEF TypeOK, flow, ledger
<1> QED
  BY <1>1, <1>3, <1>4, CallInv

LEMMA CallStepInv ==
    ASSUME Inv, NEW b \in Builds, CallStep(b)
    PROVE  Inv' /\ ConclusionsKeep
BY FetchTokenInv, NoTokenInv, CreateCheckRunInv, UpdateCheckRunInv,
   PostStatusInv
   DEF CallStep

----------------------------------------------------------------------------
\* Reloads, the death of the daemon and recovery keep the invariant

LEMMA ReloadInv ==
    ASSUME Inv, Reload
    PROVE  Inv' /\ ConclusionsKeep
<1>1. /\ troubles' = troubles \/ Trouble
      /\ cfg' \in Configs /\ UNCHANGED <<flow, todo, token, checkRuns, runs, status>>
  BY DEF Reload, github
<1>2. TypeOK'
  BY <1>1, TroublesType DEF Inv, TypeOK, flow, ledger
<1>3. KeysFit'
  BY <1>1 DEF Inv, KeysFit
<1> QED
  BY <1>1, <1>2, <1>3, AsideInv

LEMMA CrashInv ==
    ASSUME Inv, Crash
    PROVE  Inv' /\ ConclusionsKeep
<1>1. /\ troubles' = troubles \/ Trouble
      /\ at' = [b \in Builds |-> IF at[b] = "new" THEN "new" ELSE "gone"]
      /\ todo' = [b \in Builds |-> <<>>]
      /\ token' = [b \in Builds |-> "unset"]
      /\ checkRuns' = [k \in CheckRun |-> <<>>]
      /\ UNCHANGED <<cfg, row, verdict, unwritten, step, runs, status>>
  BY DEF Crash, github, ledger
<1>2. TypeOK /\ \A b \in Builds : BuildInv(b)
  BY DEF Inv
<1>3. TypeOK'
  <2>1. at' \in [Builds -> Place]
    BY <1>1 DEF Place
  <2>2. /\ todo' \in [Builds -> Seq(Call)]
        /\ \A b \in Builds : Len(todo'[b]) <= 4
    BY <1>1
  <2>3. checkRuns' \in [CheckRun -> CheckRun \cup {<<>>}]
    BY <1>1
  <2>4. token' \in [Builds -> {"unset", "none", "app", "pat"}]
    BY <1>1
  <2> QED
    BY <1>1, <1>2, <2>1, <2>2, <2>3, <2>4, TroublesType DEF TypeOK
<1>4. KeysFit'
  BY <1>1 DEF KeysFit
<1>5. ASSUME NEW b \in Builds
      PROVE  BuildInv(b)'
  <2>1. /\ at'[b] \in {"new", "gone"} /\ (at'[b] = "new" => at[b] = "new")
        /\ todo'[b] = <<>> /\ verdict'[b] = verdict[b] /\ step'[b] = step[b]
    BY <1>1
  <2>2. PlaceFits(b) /\ RunsFit(b)
    BY <1>2 DEF BuildInv
  <2>3. PlaceFits(b)'
    BY <2>1, <2>2 DEF PlaceFits, Underway
  <2>4. CallsFit(b)'
    BY <2>1, NoCallsFit
  <2>5. RunsFit(b)'
    BY <1>1, <2>1, <2>2 DEF RunsFit
  <2> QED
    BY <2>3, <2>4, <2>5 DEF BuildInv
<1> QED
  BY <1>1, <1>3, <1>4, <1>5 DEF Inv, ConclusionsKeep

LEMMA RecoverInv ==
    ASSUME Inv, NEW b \in Builds, Recover(b)
    PROVE  Inv' /\ ConclusionsKeep
<1> DEFINE q == IF cfg.pat THEN <<Post("error")>> ELSE <<>>
<1>1. /\ at[b] = "gone" /\ row[b] \in {"pending", "running"}
      /\ UNCHANGED <<cfg, verdict, unwritten, step, token, checkRuns, runs, status>>
      /\ troubles' = troubles \/ Trouble
  BY DEF Recover, github
<1>a. \/ /\ row' = [row EXCEPT ![b] = "interrupted"]
         /\ todo' = [todo EXCEPT ![b] = q] /\ at' = at
      \/ /\ row' = row /\ todo' = [todo EXCEPT ![b] = <<>>]
         /\ at' = [at EXCEPT ![b] = "silent"]
  BY DEF Recover, Goto
<1>2. TypeOK /\ PlaceFits(b) /\ RunsFit(b) /\ \A c \in Builds : BuildInv(c)
  BY DEF Inv, BuildInv
<1>3. /\ q \in Seq(Call) /\ Len(q) <= 4
      /\ \A k \in 1..Len(q) : q[k].op = "post" /\ q[k].aborts = FALSE
  <2> DEFINE p == Post("error")
  <2>1. p \in Call /\ p.op = "post" /\ p.aborts = FALSE
    BY PostType DEF CommitState, IsPost
  <2> HIDE DEF p
  <2>2. /\ <<p>> \in Seq(Call) /\ Len(<<p>>) = 1 /\ <<p>>[1] = p
        /\ <<>> \in Seq(Call) /\ Len(<<>>) = 0
    BY <2>1
  <2> HIDE DEF q
  <2>3. q = <<p>> \/ q = <<>>
    BY DEF q, p
  <2>4. CASE q = <<p>>
    BY <2>1, <2>2, <2>4
  <2>5. CASE q = <<>>
    BY <2>2, <2>5
  <2> QED
    BY <2>3, <2>4, <2>5
<1> HIDE DEF q
<1>4. /\ \/ at'[b] = "gone" /\ todo'[b] = q
         \/ at'[b] = "silent" /\ todo'[b] = <<>>
      /\ \A c \in Builds \ {b} : at'[c] = at[c] /\ todo'[c] = todo[c]
  BY <1>1, <1>a, <1>2 DEF TypeOK
<1>5. TypeOK'
  <2>1. /\ row' \in [Builds -> RowState] /\ at' \in [Builds -> Place]
        /\ todo' \in [Builds -> Seq(Call)]
    <3>1. /\ row \in [Builds -> RowState] /\ at \in [Builds -> Place]
          /\ todo \in [Builds -> Seq(Call)]
      BY <1>2 DEF TypeOK
    <3>2. "interrupted" \in RowState /\ "silent" \in Place
      BY DEF RowState, Place
    <3>3. q \in Seq(Call) /\ <<>> \in Seq(Call)
      BY <1>3
    <3> QED
      BY <1>a, <3>1, <3>2, <3>3
  <2>2. \A c \in Builds : Len(todo'[c]) <= 4
    <3>1. Len(todo'[b]) <= 4
      BY <1>3, <1>4
    <3>2. ASSUME NEW c \in Builds \ {b}
          PROVE  Len(todo'[c]) <= 4
      <4>1. Len(todo[c]) <= 4
        BY <1>2 DEF TypeOK
      <4>2. todo'[c] = todo[c]
        BY <1>4
      <4> QED
        BY <4>1, <4>2
    <3> QED
      BY <3>1, <3>2
  <2>3. troubles' \in 0..MaxTroubles
    BY <1>1, <1>2, TroublesType
  <2> QED
    BY <1>1, <1>2, <2>1, <2>2, <2>3 DEF TypeOK
<1>6. KeysFit'
  BY <1>1 DEF Inv, KeysFit
<1>7. ASSUME NEW c \in Builds \ {b}
      PROVE  BuildInv(c)'
  BY <1>1, <1>2, <1>4, OthersKeep
<1>8. PlaceFits(b)'
  BY <1>4 DEF PlaceFits, Underway
<1>9. CallsFit(b)'
  BY <1>3, <1>4 DEF CallsFit, CallFits, StepUpdate
<1>10. RunsFit(b)'
  BY <1>1, <1>2, <1>4 DEF RunsFit, Conclusions
<1> QED
  BY <1>1, <1>5, <1>6, <1>7, <1>8, <1>9, <1>10
     DEF Inv, BuildInv, ConclusionsKeep

LEMMA InitInv == Init => Inv
<1> SUFFICES ASSUME Init
             PROVE  Inv
  OBVIOUS
<1>1. TypeOK
  BY ConfigsAssumption, BoundsAssumption
     DEF Init, TypeOK, RowState, Place, Indices, RunState, CommitState
<1>2. KeysFit
  BY DEF Init, KeysFit
<1>3. ASSUME NEW b \in Builds
      PROVE  BuildInv(b)
  BY DEF Init, BuildInv, PlaceFits, CallsFit, RunsFit, Underway, Conclusions,
         CheckRun
<1> QED
  BY <1>1, <1>2, <1>3 DEF Inv

LEMMA StepInv ==
    ASSUME Inv, [Next]_vars
    PROVE  Inv' /\ ConclusionsKeep
<1>1. ASSUME NEW b \in Builds, BuildStep(b)
      PROVE  Inv' /\ ConclusionsKeep
  BY <1>1, BuildStepInv DEF BuildStep, ConclusionsKeep, github
<1>2. CASE UNCHANGED vars
  <2>1. UNCHANGED <<cfg, flow, todo, token, checkRuns, runs, status, troubles>>
    BY <1>2 DEF vars, github
  <2>2. TypeOK'
    BY <2>1 DEF Inv, TypeOK, flow, ledger
  <2>3. KeysFit'
    BY <2>1 DEF Inv, KeysFit
  <2> QED
    BY <2>1, <2>2, <2>3, AsideInv
<1>3. ASSUME NEW b \in Builds, CallStep(b) \/ Recover(b)
      PROVE  Inv' /\ ConclusionsKeep
  BY <1>3, CallStepInv, RecoverInv
<1>4. CASE Reload \/ Crash
  BY <1>4, ReloadInv, CrashInv
<1> QED
  BY <1>1, <1>2, <1>3, <1>4 DEF Next

----------------------------------------------------------------------------
\* As long as nothing goes wrong

\* What SmoothBuild says of a build depends on its own state, on the
\* credentials, and on whether the last word is its own.
LEMMA OthersStaySmooth ==
    ASSUME TypeOK, NEW b \in Builds, SmoothBuild(b), at'[b] = at[b], verdict'[b] = verdict[b],
           step'[b] = step[b], todo'[b] = todo[b], token'[b] = token[b], cfg' = cfg,
           \A i \in Indices : runs'[<<b, i>>] = runs[<<b, i>>],
           status' = status \/ status'.by # {b}
    PROVE  SmoothBuild(b)'
<1>1. TokenFits(b)'
  BY DEF SmoothBuild, TokenFits, TokenFor, AppToken, ApiToken
<1>2. OpenRunsFit(b)'
  BY DEF SmoothBuild, OpenRunsFit, LeftBehind, Awaits
<1>3. LastWordFits(b)'
  BY DEF SmoothBuild, LastWordFits
<1> QED
  BY <1>1, <1>2, <1>3 DEF SmoothBuild

\* Nothing that runBuild has left behind is open when it has no call to make.
LEMMA NothingOpen ==
    ASSUME NEW b \in Builds, OpenRunsFit(b), todo[b] = <<>>, NEW i \in Indices,
           LeftBehind(b, i)
    PROVE  runs[<<b, i>>] # "in_progress"
BY DEF OpenRunsFit, Awaits

\* Where a step of runBuild leads to.
Route(b, p, n) ==
    \/ p \in {"inspect", "prepare", "filter", "silent"} /\ n = step[b] /\ step[b] = 0
    \/ p = "begin" /\ n = step[b] + 1 /\ at[b] \in {"filter", "next"}
    \/ p = "run" /\ n = step[b] /\ at[b] = "begin"
    \/ p = "next" /\ n = step[b] /\ at[b] = "run"
    \/ p = "over" /\ n = step[b] /\ at[b] \in Underway

\* What it must provide for: what it leaves open gets closed, and the last
\* call says the outcome.
Closes(q, i) == \E k \in 1..Len(q) : q[k].op = "update" /\ q[k].i = i
Opens(q, i) == \E k \in 1..Len(q) : q[k].op = "create" /\ q[k].i = i

Provides(b, p, q, says) ==
    /\ p = "over" => /\ Closes(q, 0)
                     /\ at[b] \in {"begin", "run"} => Closes(q, step[b])
                     /\ q # <<>> /\ q[Len(q)].op = "update" /\ q[Len(q)].says = says
    /\ p = "next" => Closes(q, step[b])
    /\ p \in {"begin", "next"} => \A i \in Indices : ~Opens(q, i)
    /\ p \in {"run", "over"} => \A i \in Indices : Opens(q, i) =>
                                  i = step[b] /\ at[b] \in {"begin", "run"}

LEMMA MovedSmooth ==
    ASSUME Inv, NEW b \in Builds, SmoothBuild(b), todo[b] = <<>>, Still,
           NEW p, at'[b] = p, NEW n, step'[b] = n, NEW q, todo'[b] = q,
           Route(b, p, n), Provides(b, p, q, Outcome(verdict'[b]))
    PROVE  SmoothBuild(b)'
<1>1. /\ TypeOK /\ PlaceFits(b) /\ RunsFit(b) /\ TokenFits(b) /\ OpenRunsFit(b)
      /\ runs' = runs /\ token' = token
  BY DEF Inv, BuildInv, SmoothBuild, Still, github
<1>2. step[b] \in Nat
  BY <1>1, BoundsAssumption DEF TypeOK, Indices
<1>3. p # "gone"
  BY DEF Route
<1>4. TokenFits(b)'
  BY <1>1 DEF TokenFits
<1>5. LastWordFits(b)'
  BY DEF LastWordFits, Provides
<1>6. ASSUME NEW i \in Indices, LeftBehind(b, i)',
             runs[<<b, i>>] = "in_progress" \/ Opens(q, i)
      PROVE  Closes(q, i)
  <2>1. i \in Nat /\ (i > step[b] => runs[<<b, i>>] = "absent")
    BY <1>1, BoundsAssumption DEF Indices, RunsFit
  <2>2. LeftBehind(b, i) => runs[<<b, i>>] # "in_progress"
    BY <1>1, NothingOpen
  <2>3. \/ p = "over" /\ n = step[b] /\ at[b] \in Underway
        \/ /\ p \in Underway /\ i # 0 /\ i < n
        \/ p = "next" /\ n = step[b] /\ at[b] = "run" /\ i = n
    BY <1>6 DEF LeftBehind, Route, Underway
  <2>4. CASE p = "over" /\ n = step[b] /\ at[b] \in Underway
    <3>1. CASE i = 0
      BY <2>4, <3>1 DEF Provides
    <3>2. CASE i # 0 /\ i < step[b]
      BY <1>6, <2>2, <2>4, <3>2 DEF LeftBehind, Provides
    <3>3. CASE i = step[b] /\ at[b] \in {"begin", "run"}
      BY <2>4, <3>3 DEF Provides
    <3>4. CASE i # 0 /\ i = step[b] /\ at[b] \notin {"begin", "run"}
      <4>1. at[b] = "next"
        BY <1>1, <2>4, <3>4 DEF PlaceFits, Underway
      <4> QED
        BY <1>6, <2>2, <2>4, <3>4, <4>1 DEF LeftBehind, Provides
    <3>5. CASE i > step[b]
      BY <1>2, <1>6, <2>1, <2>4, <3>5 DEF Provides
    <3> QED
      BY <1>2, <2>1, <3>1, <3>2, <3>3, <3>4, <3>5
  <2>5. CASE p \in Underway /\ i # 0 /\ i < n
    <3>1. CASE p \in {"inspect", "prepare", "filter", "silent"} /\ n = step[b] /\ step[b] = 0
      BY <2>1, <2>5, <3>1
    <3>2. CASE p = "begin" /\ n = step[b] + 1 /\ at[b] \in {"filter", "next"}
      <4>1. at[b] = "next" /\ (i < step[b] \/ i = step[b])
        BY <1>1, <1>2, <2>1, <2>5, <3>2 DEF PlaceFits
      <4> QED
        BY <1>6, <2>2, <2>5, <3>2, <4>1 DEF LeftBehind, Provides, Underway
    <3>3. CASE p \in {"run", "next"} /\ n = step[b] /\ at[b] \in {"begin", "run"}
      <4>1. LeftBehind(b, i) /\ i # step[b]
        BY <1>2, <2>1, <2>5, <3>3 DEF LeftBehind, Underway
      <4> QED
        BY <1>6, <2>2, <3>3, <4>1 DEF Provides
    <3> QED
      BY <2>5, <3>1, <3>2, <3>3 DEF Route, Underway
  <2>6. CASE p = "next" /\ n = step[b] /\ at[b] = "run" /\ i = n
    BY <2>6 DEF Provides
  <2> QED
    BY <2>3, <2>4, <2>5, <2>6
<1>7. OpenRunsFit(b)'
  BY <1>1, <1>6 DEF OpenRunsFit, Awaits, Opens, Closes
<1> QED
  BY <1>3, <1>4, <1>5, <1>7 DEF SmoothBuild

Says(q, says) == q # <<>> /\ q[Len(q)].op = "update" /\ q[Len(q)].says = says

LEMMA UpdateCloses ==
    ASSUME NEW q, NEW k \in 1..Len(q), NEW i, NEW to, NEW says,
           IsUpdate(q[k], i, to, says)
    PROVE  Closes(q, i)
BY DEF IsUpdate, Closes

LEMMA UpdateProvides ==
    ASSUME NEW q, Len(q) = 1, NEW i, NEW to, NEW says, IsUpdate(q[1], i, to, says)
    PROVE  /\ Closes(q, i) /\ Says(q, says)
           /\ \A j \in Indices : ~Opens(q, j)
BY DEF IsUpdate, Closes, Opens, Says

LEMMA VerdictProvides ==
    ASSUME NEW q, Len(q) = 2, NEW i, NEW to, NEW says,
           IsUpdate(q[1], i, to, says), IsUpdate(q[2], 0, to, says)
    PROVE  /\ Closes(q, i) /\ Closes(q, 0) /\ Says(q, says)
           /\ \A j \in Indices : ~Opens(q, j)
<1>1. Closes(q, i)
  BY 1 \in 1..Len(q), UpdateCloses
<1>a. 2 \in 1..Len(q)
  OBVIOUS
<1>2. Closes(q, 0)
  BY <1>a DEF IsUpdate, Closes
<1>b. q # <<>> /\ IsUpdate(q[Len(q)], 0, to, says)
  OBVIOUS
<1>3. Says(q, says)
  BY <1>b DEF IsUpdate, Says
<1>4. \A j \in Indices : ~Opens(q, j)
  BY DEF IsUpdate, Opens
<1> QED
  BY <1>1, <1>2, <1>3, <1>4

LEMMA CreateProvides ==
    ASSUME NEW q, Len(q) = 2, NEW i, IsCreate(q[1], i), IsPost(q[2], "pending")
    PROVE  \A j \in Indices : Opens(q, j) => j = i
BY DEF IsCreate, IsPost, Opens

LEMMA CreateFailureProvides ==
    ASSUME NEW q, Len(q) = 4, NEW i, NEW to, NEW says,
           IsCreate(q[1], i), IsPost(q[2], "pending"),
           IsUpdate(q[3], i, to, says), IsUpdate(q[4], 0, to, says)
    PROVE  /\ Closes(q, i) /\ Closes(q, 0) /\ Says(q, says)
           /\ \A j \in Indices : Opens(q, j) => j = i
<1>1. Closes(q, i)
  BY 3 \in 1..Len(q), UpdateCloses
<1>a. 4 \in 1..Len(q)
  OBVIOUS
<1>2. Closes(q, 0)
  BY <1>a DEF IsUpdate, Closes
<1>b. q # <<>> /\ IsUpdate(q[Len(q)], 0, to, says)
  OBVIOUS
<1>3. Says(q, says)
  BY <1>b DEF IsUpdate, Says
<1>4. \A j \in Indices : Opens(q, j) => j = i
  BY DEF IsCreate, IsPost, IsUpdate, Opens
<1> QED
  BY <1>1, <1>2, <1>3, <1>4

\* An outcome that is recorded, and the calls that report it.
LEMMA ConcludeSmooth ==
    ASSUME Inv, NEW b \in Builds, SmoothBuild(b), todo[b] = <<>>, at[b] \in Underway,
           Still, UNCHANGED step, NEW v, NEW q, Conclude(b, v, q),
           Closes(q, 0), Says(q, Outcome(v)),
           at[b] \in {"begin", "run"} => Closes(q, step[b]),
           \A i \in Indices : Opens(q, i) => i = step[b] /\ at[b] \in {"begin", "run"}
    PROVE  SmoothBuild(b)'
<1>1. at'[b] = "over" /\ step'[b] = step[b] /\ verdict'[b] = v /\ todo'[b] = q
  BY DEF Inv, TypeOK, Conclude, Record, Goto
<1>2. Route(b, "over", step[b])
  BY DEF Route
<1>3. Provides(b, "over", q, Outcome(verdict'[b]))
  BY <1>1 DEF Provides, Says
<1> QED
  BY <1>1, <1>2, <1>3, MovedSmooth

\* A step of runBuild that reports no outcome.
LEMMA GoSmooth ==
    ASSUME Inv, NEW b \in Builds, SmoothBuild(b), todo[b] = <<>>, Still,
           NEW p, NEW q, Goto(b, p, q), NEW n, step'[b] = n, Route(b, p, n), p # "over",
           p = "next" => Closes(q, step[b]),
           p \in {"begin", "next"} => \A i \in Indices : ~Opens(q, i),
           p = "run" => \A i \in Indices : Opens(q, i) => i = step[b]
    PROVE  SmoothBuild(b)'
<1>1. at'[b] = p /\ todo'[b] = q
  BY DEF Inv, TypeOK, Goto
<1>2. p = "run" => at[b] \in {"begin", "run"}
  BY DEF Route
<1>3. Provides(b, p, q, Outcome(verdict'[b]))
  BY <1>2 DEF Provides
<1> QED
  BY <1>1, <1>3, MovedSmooth

LEMMA ReportSmooth ==
    ASSUME Inv, NEW b \in Builds, SmoothBuild(b), todo[b] = <<>>,
           at[b] \in Underway \ {"begin", "run"}, Still, UNCHANGED step,
           NEW v \in Conclusions, Conclude(b, v, Update(0, v))
    PROVE  SmoothBuild(b)'
<1> DEFINE q == Update(0, v)
<1>1. Len(q) = 1 /\ IsUpdate(q[1], 0, v, Outcome(v))
  BY BuildUpdateCalls, StateFromConclusionType
<1> HIDE DEF q
<1>2. Closes(q, 0) /\ Says(q, Outcome(v)) /\ \A i \in Indices : ~Opens(q, i)
  BY <1>1, UpdateProvides
<1>3. Conclude(b, v, q)
  BY DEF q
<1> QED
  BY <1>2, <1>3, ConcludeSmooth

LEMMA FirstStepsSmooth ==
    ASSUME Inv, NEW b \in Builds, SmoothBuild(b), todo[b] = <<>>, Still,
           Announce(b) \/ InspectSilently(b) \/ Inspect(b) \/ Prepare(b)
    PROVE  SmoothBuild(b)'
<1>1. /\ TypeOK /\ PlaceFits(b) /\ at[b] \in {"new", "inspect", "prepare"}
      /\ step'[b] = step[b] /\ UNCHANGED step
  BY DEF Inv, BuildInv, Announce, InspectSilently, Inspect, Prepare
<1>2. \A p \in {"inspect", "prepare", "filter", "silent"} : Route(b, p, step[b])
  BY <1>1 DEF Route, PlaceFits
<1>3. ASSUME BuildFails(b), at[b] \in {"inspect", "prepare"}
      PROVE  SmoothBuild(b)'
  BY <1>1, <1>3, ReportSmooth DEF BuildFails, Conclusions, Underway
<1>4. ASSUME NEW p \in {"inspect", "prepare", "filter", "silent"}, NEW q, Goto(b, p, q)
      PROVE  SmoothBuild(b)'
  BY <1>1, <1>2, <1>4, GoSmooth
<1> QED
  BY <1>3, <1>4 DEF Announce, InspectSilently, Inspect, Prepare

\* The filter, the next step, and the end.
LEMMA LoopSmooth ==
    ASSUME Inv, NEW b \in Builds, SmoothBuild(b), todo[b] = <<>>, Still,
           Filter(b) \/ NextStep(b) \/ Succeed(b)
    PROVE  SmoothBuild(b)'
<1>1. /\ TypeOK /\ PlaceFits(b) /\ at[b] \in {"filter", "next"}
      /\ at[b] \in Underway \ {"begin", "run"} /\ step[b] \in Nat
      /\ at[b] = "filter" => step[b] = 0
  BY BoundsAssumption
     DEF Inv, BuildInv, PlaceFits, TypeOK, Indices, Filter, NextStep, Succeed,
         Underway
<1>2. ASSUME NEW v \in {"success", "failure"}, Conclude(b, v, Update(0, v)), UNCHANGED step
      PROVE  SmoothBuild(b)'
  <2>1. v \in Conclusions
    BY DEF Conclusions
  <2> QED
    BY <1>1, <1>2, <2>1, ReportSmooth
<1>3. ASSUME step'[b] = step[b] + 1, Goto(b, "begin", <<>>)
      PROVE  SmoothBuild(b)'
  <2>1. Route(b, "begin", step[b] + 1)
    BY <1>1 DEF Route
  <2>2. \A i \in Indices : ~Opens(<<>>, i)
    BY DEF Opens
  <2> QED
    BY <1>3, <2>1, <2>2, GoSmooth
<1>4. ASSUME Filter(b)
      PROVE  SmoothBuild(b)'
  <2>1. CASE BuildFails(b) /\ UNCHANGED step
    BY <1>2, <2>1 DEF BuildFails
  <2>2. CASE Conclude(b, "success", Update(0, "success")) /\ UNCHANGED step
    BY <1>2, <2>2
  <2>3. CASE step' = [step EXCEPT ![b] = 1] /\ Goto(b, "begin", <<>>)
    <3>1. step'[b] = step[b] + 1
      BY <1>1, <1>4, <2>3 DEF TypeOK, Filter, PlaceFits
    <3> QED
      BY <1>3, <2>3, <3>1
  <2> QED
    BY <1>4, <2>1, <2>2, <2>3 DEF Filter
<1>5. ASSUME NextStep(b)
      PROVE  SmoothBuild(b)'
  BY <1>1, <1>3, <1>5 DEF TypeOK, NextStep
<1>6. ASSUME Succeed(b)
      PROVE  SmoothBuild(b)'
  BY <1>2, <1>6 DEF Succeed
<1> QED
  BY <1>4, <1>5, <1>6

LEMMA BeginSmooth ==
    ASSUME Inv, NEW b \in Builds, SmoothBuild(b), todo[b] = <<>>, Begin(b), Still
    PROVE  SmoothBuild(b)'
<1> DEFINE i == step[b]
<1>1. /\ at[b] = "begin" /\ at[b] \in Underway /\ i \in Indices
      /\ step'[b] = i /\ UNCHANGED step /\ Outcome("failure") = "failure"
  BY DEF Inv, TypeOK, Begin, Underway, Outcome
<1>2. Route(b, "run", i)
  BY <1>1 DEF Route
<1> HIDE DEF i
<1>3. ASSUME Goto(b, "run", Create(i))
      PROVE  SmoothBuild(b)'
  <2> DEFINE q == Create(i)
  <2>1. Len(q) = 2 /\ IsCreate(q[1], i) /\ IsPost(q[2], "pending")
    BY <1>1, CreateCalls
  <2> HIDE DEF q
  <2>2. \A j \in Indices : Opens(q, j) => j = i
    BY <2>1, CreateProvides
  <2>3. Goto(b, "run", q)
    BY <1>3 DEF q
  <2> QED
    BY <1>1, <1>2, <2>2, <2>3, GoSmooth DEF i
<1>4. ASSUME Goto(b, "run", <<>>)
      PROVE  SmoothBuild(b)'
  <2>1. \A j \in Indices : Opens(<<>>, j) => j = i
    BY DEF Opens
  <2> QED
    BY <1>1, <1>2, <1>4, <2>1, GoSmooth DEF i
<1>5. ASSUME Conclude(b, "failure", Create(i) \o PostStepFailure(i))
      PROVE  SmoothBuild(b)'
  <2> DEFINE q == Create(i) \o PostStepFailure(i)
  <2>1. /\ Len(q) = 4
        /\ IsCreate(q[1], i) /\ IsPost(q[2], "pending")
        /\ IsUpdate(q[3], i, "failure", "failure")
        /\ IsUpdate(q[4], 0, "failure", "failure")
    BY <1>1, CreateCalls, FailureCalls, CreateFailureCalls, Zenon
  <2> HIDE DEF q
  <2>2. /\ Closes(q, i) /\ Closes(q, 0) /\ Says(q, "failure")
        /\ \A j \in Indices : Opens(q, j) => j = i
    BY <2>1, CreateFailureProvides
  <2>3. Conclude(b, "failure", q)
    BY <1>5 DEF q
  <2> QED
    BY <1>1, <2>2, <2>3, ConcludeSmooth DEF i
<1>6. ASSUME Conclude(b, "failure", <<>> \o PostStepFailure(i))
      PROVE  SmoothBuild(b)'
  <2> DEFINE q == PostStepFailure(i)
  <2>1. /\ q \in Seq(Call) /\ Len(q) = 2
        /\ IsUpdate(q[1], i, "failure", "failure")
        /\ IsUpdate(q[2], 0, "failure", "failure")
    BY <1>1, FailureCalls
  <2>2. <<>> \o q = q
    BY <2>1
  <2> HIDE DEF q
  <2>3. /\ Closes(q, i) /\ Closes(q, 0) /\ Says(q, "failure")
        /\ \A j \in Indices : ~Opens(q, j)
    BY <2>1, VerdictProvides
  <2>4. Conclude(b, "failure", q)
    BY <1>6, <2>2 DEF q
  <2> QED
    BY <1>1, <2>3, <2>4, ConcludeSmooth DEF i
<1> QED
  BY <1>3, <1>4, <1>5, <1>6 DEF Begin, CreateStep, i

LEMMA RunSmooth ==
    ASSUME Inv, NEW b \in Builds, SmoothBuild(b), todo[b] = <<>>, Run(b), Still
    PROVE  SmoothBuild(b)'
<1> DEFINE i == step[b]
<1>1. /\ at[b] = "run" /\ at[b] \in Underway /\ i \in Indices
      /\ step'[b] = i /\ UNCHANGED step /\ Outcome("failure") = "failure"
  BY DEF Inv, TypeOK, Run, Underway, Outcome
<1>2. Route(b, "next", i)
  BY <1>1 DEF Route
<1> HIDE DEF i
<1>3. ASSUME NEW v, NEW q, Len(q) = 2, Conclude(b, v, q),
             IsUpdate(q[1], i, v, Outcome(v)), IsUpdate(q[2], 0, v, Outcome(v))
      PROVE  SmoothBuild(b)'
  <2>1. /\ Closes(q, i) /\ Closes(q, 0) /\ Says(q, Outcome(v))
        /\ \A j \in Indices : ~Opens(q, j)
    BY <1>3, VerdictProvides
  <2> QED
    BY <1>1, <1>3, <2>1, ConcludeSmooth DEF i
<1>4. ASSUME Conclude(b, "failure", PostStepFailure(i))
      PROVE  SmoothBuild(b)'
  BY <1>1, <1>3, <1>4, FailureCalls
<1>5. ASSUME NEW v \in {"cancelled", "timed_out"},
             Conclude(b, v, Update(i, v) \o Update(0, v))
      PROVE  SmoothBuild(b)'
  <2>1. v \in Conclusions
    BY DEF Conclusions
  <2> QED
    BY <1>1, <1>3, <1>5, <2>1, VerdictCalls
<1>6. ASSUME Goto(b, "next", UpdateQuietly(i, "success"))
      PROVE  SmoothBuild(b)'
  <2> DEFINE q == UpdateQuietly(i, "success")
  <2>1. Len(q) = 1 /\ IsUpdate(q[1], i, "success", "none")
    BY <1>1, QuietCalls DEF RunState, Conclusions
  <2> HIDE DEF q
  <2>2. Closes(q, i) /\ \A j \in Indices : ~Opens(q, j)
    BY <2>1, UpdateProvides
  <2>3. Goto(b, "next", q)
    BY <1>6 DEF q
  <2> QED
    BY <1>1, <1>2, <2>2, <2>3, GoSmooth DEF i
<1> QED
  BY <1>4, <1>5, <1>6 DEF Run, i

LEMMA BuildStepSmooth ==
    ASSUME Inv, NEW b \in Builds, SmoothBuild(b), BuildStep(b)
    PROVE  SmoothBuild(b)'
<1>1. Still /\ todo[b] = <<>>
  BY BuildStepStill DEF Inv, BuildStep
<1> QED
  BY <1>1, FirstStepsSmooth, LoopSmooth, BeginSmooth, RunSmooth DEF BuildStep

\* The first call is carried out; a commit status may still be to post.
Advances(b, q) ==
    \/ q = Tail(todo[b])
    \/ \E s \in CommitState : q = <<Post(s)>> \o Tail(todo[b])

LEMMA AdvanceFacts ==
    ASSUME TypeOK, NEW b \in Builds, todo[b] # <<>>, NEW q, Advances(b, q)
    PROVE  \E d \in {0, 1} :
               /\ Len(q) + d = Len(todo[b]) /\ Len(q) \in Nat
               /\ d = 0 => q[1].op = "post"
               /\ \A k \in 1..Len(q) :
                     (k = 1 /\ d = 0) \/ (k + d \in 2..Len(todo[b]) /\ q[k] = todo[b][k + d])
<1>1. todo[b] \in Seq(Call) /\ Len(todo[b]) \in Nat /\ Len(todo[b]) # 0
  BY DEF TypeOK
<1>2. CASE q = Tail(todo[b])
  <2>1. /\ Len(q) + 1 = Len(todo[b]) /\ Len(q) \in Nat
        /\ \A k \in 1..Len(q) :
              k + 1 \in 2..Len(todo[b]) /\ q[k] = todo[b][k + 1]
    BY <1>1, <1>2, TailFacts
  <2> QED
    BY <2>1
<1>3. ASSUME NEW s \in CommitState, q = <<Post(s)>> \o Tail(todo[b])
      PROVE  /\ Len(q) + 0 = Len(todo[b]) /\ Len(q) \in Nat
             /\ q[1].op = "post"
             /\ \A k \in 2..Len(todo[b]) : q[k] = todo[b][k]
  <2> DEFINE p == Post(s)
  <2>1. p \in Call /\ p.op = "post"
    BY PostType DEF IsPost
  <2>2. q = <<p>> \o Tail(todo[b])
    BY <1>3
  <2> HIDE DEF p
  <2>3. /\ Len(q) = Len(todo[b]) /\ q[1] = p
        /\ \A k \in 2..Len(todo[b]) : q[k] = todo[b][k]
    BY <1>1, <2>1, <2>2, SwapFacts
  <2> QED
    BY <1>1, <2>1, <2>3
<1>4. CASE \E s \in CommitState : q = <<Post(s)>> \o Tail(todo[b])
  <2>1. /\ Len(q) + 0 = Len(todo[b]) /\ Len(q) \in Nat
        /\ q[1].op = "post"
        /\ \A k \in 2..Len(todo[b]) : q[k] = todo[b][k]
    BY <1>3, <1>4
  <2>2. \A k \in 1..Len(q) : k = 1 \/ (k + 0 \in 2..Len(todo[b]) /\ q[k] = todo[b][k + 0])
    BY <1>1, <2>1
  <2> QED
    BY <2>1, <2>2
<1> QED
  BY <1>2, <1>4 DEF Advances

\* What is still awaited, and what is not any more.
LEMMA AwaitsOn ==
    ASSUME TypeOK, NEW b \in Builds, todo[b] # <<>>, Advances(b, todo'[b]),
           NEW i, NEW op, op # "post", Awaits(b, i, op)
    PROVE  Awaits(b, i, op)' \/ (todo[b][1].op = op /\ todo[b][1].i = i)
<1>1. PICK k \in 1..Len(todo[b]) : todo[b][k].op = op /\ todo[b][k].i = i
  BY DEF Awaits
<1>2. PICK d \in {0, 1} :
          /\ Len(todo'[b]) + d = Len(todo[b]) /\ Len(todo'[b]) \in Nat
          /\ \A j \in 1..Len(todo'[b]) :
                (j = 1 /\ d = 0)
                \/ (j + d \in 2..Len(todo[b]) /\ todo'[b][j] = todo[b][j + d])
  BY AdvanceFacts
<1>3. CASE k # 1
  <2>1. k - d \in 1..Len(todo'[b]) /\ (k - d) + d = k /\ ~(k - d = 1 /\ d = 0)
    BY <1>2, <1>3
  <2>2. todo'[b][k - d] = todo[b][k]
    BY <1>2, <2>1
  <2> QED
    BY <1>1, <2>1, <2>2 DEF Awaits
<1> QED
  BY <1>1, <1>3

LEMMA CreatesAreOver ==
    ASSUME TypeOK, NEW b \in Builds, CallsFit(b), todo[b] # <<>>,
           Advances(b, todo'[b]), NEW i
    PROVE  ~Awaits(b, i, "create")'
<1>1. PICK d \in {0, 1} :
          /\ d = 0 => todo'[b][1].op = "post"
          /\ \A j \in 1..Len(todo'[b]) :
                (j = 1 /\ d = 0)
                \/ (j + d \in 2..Len(todo[b]) /\ todo'[b][j] = todo[b][j + d])
  BY AdvanceFacts
<1>2. \A j \in 2..Len(todo[b]) : todo[b][j].op # "create"
  BY DEF CallsFit, TypeOK
<1> QED
  BY <1>1, <1>2 DEF Awaits

\* A conclusion is what closes the check runs that were left behind.
LEMMA UpdateConcludes ==
    ASSUME NEW b \in Builds, PlaceFits(b), todo[b] # <<>>, CallFits(b, todo[b][1]),
           todo[b][1].op = "update", LeftBehind(b, todo[b][1].i)
    PROVE  todo[b][1].to \in Conclusions
BY DEF PlaceFits, CallFits, StepUpdate, LeftBehind, Underway, Conclusions

LEMMA OpenSmooth ==
    ASSUME Inv, NEW b \in Builds, SmoothBuild(b), todo[b] # <<>>, UNCHANGED flow,
           Advances(b, todo'[b]), NEW h, h = todo[b][1],
           \A i \in Indices : i # h.i => runs'[<<b, i>>] = runs[<<b, i>>],
           h.op = "post" => runs'[<<b, h.i>>] = runs[<<b, h.i>>],
           h.op = "create" => \/ runs'[<<b, h.i>>] = runs[<<b, h.i>>]
                              \/ runs'[<<b, h.i>>] = "in_progress",
           h.op = "update" => runs'[<<b, h.i>>] \in {"absent", h.to}
    PROVE  OpenRunsFit(b)'
<1>1. /\ TypeOK /\ PlaceFits(b) /\ CallsFit(b) /\ OpenRunsFit(b)
      /\ h \in Call /\ CallFits(b, h)
  <2>1. /\ TypeOK /\ PlaceFits(b) /\ CallsFit(b) /\ OpenRunsFit(b)
        /\ todo[b] \in Seq(Call)
    BY DEF Inv, BuildInv, SmoothBuild, TypeOK
  <2>2. h \in Call /\ 1 \in 1..Len(todo[b])
    BY <2>1
  <2> QED
    BY <2>1, <2>2 DEF CallsFit
<1>2. \A i \in Indices : LeftBehind(b, i)' => LeftBehind(b, i)
  BY DEF LeftBehind, flow, ledger
<1>3. ASSUME NEW i \in Indices, LeftBehind(b, i), runs'[<<b, i>>] = "in_progress"
      PROVE  Awaits(b, i, "update")'
  <2>1. ASSUME ~(h.op = "update" /\ h.i = i), Awaits(b, i, "update")
        PROVE  Awaits(b, i, "update")'
    BY <1>1, <2>1, AwaitsOn
  <2>2. CASE h.op = "update" /\ h.i = i
    BY <1>1, <1>3, <2>2, UpdateConcludes DEF Conclusions
  <2>3. CASE h.op = "create" /\ h.i = i
    <3>1. Awaits(b, i, "create")
      BY <1>1, <2>3, TailFacts DEF Awaits, TypeOK
    <3> QED
      BY <1>1, <1>3, <2>1, <2>3, <3>1 DEF OpenRunsFit
  <2>4. CASE runs[<<b, i>>] = "in_progress" /\ ~(h.op = "update" /\ h.i = i)
    BY <1>1, <1>3, <2>1, <2>4 DEF OpenRunsFit
  <2> QED
    BY <1>1, <1>3, <2>2, <2>3, <2>4 DEF Call
<1>4. \A i \in Indices : ~Awaits(b, i, "create")'
  BY <1>1, CreatesAreOver
<1> QED
  BY <1>2, <1>3, <1>4 DEF OpenRunsFit

\* The last call stays the last word, until it is said.
LEMMA LastWordSmooth ==
    ASSUME TypeOK, NEW b \in Builds, LastWordFits(b), todo[b] # <<>>, UNCHANGED flow,
           todo'[b] = Tail(todo[b]),
           at[b] = "over" /\ Len(todo[b]) = 1 => 
               (status'.by = {b} => status'.state = Outcome(verdict[b]))
    PROVE  LastWordFits(b)'
<1> DEFINE s == todo[b]
           q == Tail(s)
<1>1. /\ s \in Seq(Call) /\ Len(s) \in Nat /\ Len(s) # 0 /\ q \in Seq(Call)
      /\ Len(q) = Len(s) - 1
      /\ \A k \in 1..Len(q) : q[k] = s[k + 1]
  BY TailFacts DEF TypeOK
<1>2. todo'[b] = q /\ at'[b] = at[b] /\ verdict'[b] = verdict[b]
  BY DEF flow, ledger
<1> HIDE DEF q, s
<1>3. CASE Len(s) = 1
  <2>1. q = <<>>
    BY <1>1, <1>3
  <2> QED
    BY <1>2, <1>3, <2>1 DEF LastWordFits, s
<1>4. CASE Len(s) # 1
  <2>a. /\ Len(s) \in Nat /\ Len(s) # 0 /\ Len(q) = Len(s) - 1
    BY <1>1
  <2>1. Len(q) \in 1..Len(q) /\ Len(q) + 1 = Len(s) /\ Len(q) # 0
    BY <2>a, <1>4
  <2>2. q[Len(q)] = s[Len(s)]
    BY <1>1, <2>1
  <2>3. q # <<>>
    BY <2>1
  <2> QED
    BY <1>2, <2>2, <2>3 DEF LastWordFits, s
<1> QED
  BY <1>3, <1>4

\* What the token of a call says of GitHub: without the app there is no check
\* run, and without any token no commit status.
LEMMA TokenSays ==
    ASSUME NEW b \in Builds, TokenFits(b), RunsKnown, StatusKnown, token[b] # "unset"
    PROVE  /\ todo[b] # <<>>
           /\ token[b] = "app" => cfg.app = "on" /\ ApiToken = "app"
           /\ token[b] # "app" => \A k \in CheckRun : runs[k] = "absent"
           /\ token[b] = "none" /\ todo[b][1].op # "create" => status.by = {}
           /\ todo[b][1].op # "create" => token[b] = ApiToken
<1>1. todo[b] # <<>> /\ token[b] = TokenFor(todo[b][1])
  BY DEF TokenFits
<1>2. CASE todo[b][1].op = "create"
  BY <1>1, <1>2 DEF TokenFor, AppToken, ApiToken, RunsKnown
<1>3. CASE todo[b][1].op # "create"
  BY <1>1, <1>3 DEF TokenFor, AppToken, ApiToken, RunsKnown, StatusKnown
<1> QED
  BY <1>1, <1>2, <1>3

\* What is shown of each call: Quiet says what holds of GitHub as a whole.
Quiet == RunsKnown /\ StatusKnown

LEMMA FetchTokenSmooth ==
    ASSUME Inv, Quiet, NEW b \in Builds, SmoothBuild(b), FetchToken(b), UNCHANGED troubles,
           troubles = 0
    PROVE  Quiet' /\ SmoothBuild(b)'
<1>1. todo[b] # <<>> /\ Head(todo[b]) = todo[b][1]
  BY TailFacts DEF Inv, TypeOK, FetchToken
<1>2. /\ token' = [token EXCEPT ![b] = TokenFor(todo[b][1])]
      /\ UNCHANGED <<cfg, flow, todo, checkRuns, runs, status>>
  BY <1>1 DEF FetchToken, Trouble, TokenFor, github
<1>3. Quiet'
  BY <1>2 DEF Quiet, RunsKnown, StatusKnown, ApiToken, AppToken
<1>4. TokenFits(b)'
  BY <1>1, <1>2 DEF TokenFits, TokenFor, ApiToken, AppToken, Inv, TypeOK
<1>5. OpenRunsFit(b)'
  BY <1>2 DEF SmoothBuild, OpenRunsFit, LeftBehind, Awaits, flow, ledger
<1>6. LastWordFits(b)'
  BY <1>2 DEF SmoothBuild, LastWordFits, flow, ledger
<1>7. at'[b] # "gone"
  BY <1>2 DEF SmoothBuild, flow, ledger
<1> QED
  BY <1>3, <1>4, <1>5, <1>6, <1>7 DEF SmoothBuild

LEMMA NoTokenSmooth ==
    ASSUME Inv, Quiet, NEW b \in Builds, SmoothBuild(b), NoToken(b)
    PROVE  Quiet' /\ SmoothBuild(b)'
<1>1. /\ TypeOK /\ CallsFit(b) /\ todo[b] # <<>> /\ todo[b][1] = Head(todo[b])
      /\ todo[b] \in Seq(Call) /\ CallFits(b, todo[b][1])
  <2>1. TypeOK /\ CallsFit(b) /\ todo[b] # <<>> /\ todo[b] \in Seq(Call)
    BY DEF Inv, BuildInv, TypeOK, NoToken
  <2>2. 1 \in 1..Len(todo[b]) /\ todo[b][1] = Head(todo[b])
    BY <2>1
  <2> QED
    BY <2>1, <2>2 DEF CallsFit
<1>2. /\ UNCHANGED <<cfg, flow, checkRuns, runs, status>>
      /\ token'[b] = "unset" /\ todo'[b] \in {<<>>, Tail(todo[b])}
      /\ ~todo[b][1].aborts => todo'[b] = Tail(todo[b])
  BY <1>1 DEF NoToken, Done, TypeOK, github
<1>3. /\ \A k \in CheckRun : runs[k] = "absent"
      /\ todo[b][1].op # "create" => status.by = {}
  BY TokenSays DEF NoToken, SmoothBuild, Quiet
<1>4. Quiet'
  BY <1>2 DEF Quiet, RunsKnown, StatusKnown, ApiToken, AppToken
<1>5. TokenFits(b)'
  BY <1>2 DEF TokenFits
<1>6. OpenRunsFit(b)'
  <2>1. \A i \in Indices : ~Awaits(b, i, "create")'
    <3>1. CASE todo'[b] = <<>>
      BY <3>1 DEF Awaits
    <3>2. CASE todo'[b] = Tail(todo[b])
      BY <1>1, <3>2, CreatesAreOver DEF Advances
    <3> QED
      BY <1>2, <3>1, <3>2
  <2>2. \A i \in Indices : runs'[<<b, i>>] = "absent"
    BY <1>2, <1>3 DEF CheckRun
  <2> QED
    BY <2>1, <2>2 DEF OpenRunsFit
<1>7. LastWordFits(b)'
  <2>1. CASE todo[b][1].op # "create" /\ todo'[b] = <<>>
    BY <1>2, <1>3, <2>1 DEF LastWordFits
  <2>2. CASE todo'[b] = Tail(todo[b])
    <3>1. at[b] = "over" /\ Len(todo[b]) = 1 => todo[b][1].op # "create"
      BY <1>1 DEF SmoothBuild, LastWordFits
    <3>2. at[b] = "over" /\ Len(todo[b]) = 1 =>
              (status'.by = {b} => status'.state = Outcome(verdict[b]))
      BY <1>2, <1>3, <3>1
    <3> QED
      BY <1>1, <1>2, <2>2, <3>2, LastWordSmooth DEF SmoothBuild
  <2>3. todo[b][1].aborts => todo[b][1].op # "create"
    BY <1>1 DEF CallFits
  <2> QED
    BY <1>2, <2>1, <2>2, <2>3
<1>8. at'[b] # "gone"
  BY <1>2 DEF SmoothBuild, flow, ledger
<1> QED
  BY <1>4, <1>5, <1>6, <1>7, <1>8 DEF SmoothBuild

LEMMA CreateCheckRunSmooth ==
    ASSUME Inv, Quiet, NEW b \in Builds, SmoothBuild(b), CreateCheckRun(b), troubles' = 0
    PROVE  Quiet' /\ SmoothBuild(b)'
<1> DEFINE h == todo[b][1]
           key == <<b, h.i>>
<1>1. /\ TypeOK /\ todo[b] # <<>> /\ Head(todo[b]) = h /\ h \in Call
      /\ h.op = "create" /\ token[b] = "app" /\ Done(b)
      /\ UNCHANGED <<cfg, flow, status>>
  BY TailFacts DEF Inv, TypeOK, CreateCheckRun, Calls
<1>2. key \in CheckRun /\ h.i \in Indices
  BY <1>1 DEF Call, CheckRun
<1>3. /\ runs' = [runs EXCEPT ![key] = "in_progress"]
      /\ checkRuns' = [checkRuns EXCEPT ![key] = key]
  <2>1. ~Trouble
    BY <1>1 DEF Trouble, TypeOK
  <2> QED
    BY <1>1, <2>1 DEF CreateCheckRun, CheckRunKey
<1>4. todo'[b] = Tail(todo[b]) /\ token'[b] = "unset"
  BY <1>1, DoneLeaves
<1>5. cfg.app = "on"
  BY <1>1, TokenSays DEF SmoothBuild, Quiet
<1> HIDE DEF key
<1>6. \A k \in CheckRun : /\ k # key => runs'[k] = runs[k] /\ checkRuns'[k] = checkRuns[k]
                          /\ k = key => runs'[k] = "in_progress" /\ checkRuns'[k] = key
  BY <1>1, <1>2, <1>3 DEF TypeOK
<1>7. Quiet'
  BY <1>1, <1>5, <1>6 DEF Quiet, RunsKnown, StatusKnown, ApiToken, AppToken
<1>8. TokenFits(b)'
  BY <1>4 DEF TokenFits
<1>9. /\ \A i \in Indices : i # h.i => runs'[<<b, i>>] = runs[<<b, i>>]
      /\ runs'[<<b, h.i>>] = "in_progress"
  BY <1>2, <1>6 DEF CheckRun, key
<1> HIDE DEF h
<1>10. OpenRunsFit(b)'
  BY <1>1, <1>4, <1>9, OpenSmooth DEF Advances, h
<1>11. LastWordFits(b)'
  <2>1. at[b] = "over" => Len(todo[b]) # 1
    BY <1>1 DEF SmoothBuild, LastWordFits, h
  <2> QED
    BY <1>1, <1>4, <2>1, LastWordSmooth DEF SmoothBuild
<1>12. at'[b] # "gone"
  BY <1>1 DEF SmoothBuild, flow, ledger
<1> QED
  BY <1>7, <1>8, <1>10, <1>11, <1>12 DEF SmoothBuild

LEMMA UpdateCheckRunSmooth ==
    ASSUME Inv, Quiet, NEW b \in Builds, SmoothBuild(b), UpdateCheckRun(b), troubles' = 0
    PROVE  Quiet' /\ SmoothBuild(b)'
<1> DEFINE h == todo[b][1]
           key == <<b, h.i>>
           to == h.to
<1>1. /\ TypeOK /\ todo[b] # <<>> /\ Head(todo[b]) = h /\ h \in Call
      /\ h.op = "update" /\ token[b] # "none" /\ token[b] # "unset"
      /\ todo[b] \in Seq(Call) /\ UNCHANGED <<cfg, flow, checkRuns, status>>
  BY TailFacts DEF Inv, TypeOK, UpdateCheckRun, Calls
<1>2. key \in CheckRun /\ h.i \in Indices /\ to \in RunState /\ h.says \in CommitState
  BY <1>1 DEF Call, CheckRun
<1>3. checkRuns[key] \in {<<>>, key} /\ key # <<>>
  BY <1>2 DEF Inv, KeysFit
<1>4. runs' = IF checkRuns[key] # <<>> /\ token[b] = "app"
              THEN [runs EXCEPT ![key] = to] ELSE runs
  <2>1. ~Trouble
    BY <1>1 DEF Trouble, TypeOK
  <2> QED
    BY <1>1, <1>3, <2>1 DEF UpdateCheckRun, CheckRunKey
<1>5. \/ /\ h.says # "none" /\ token'[b] = token[b]
         /\ todo'[b] = <<Post(h.says)>> \o Tail(todo[b])
      \/ /\ h.says = "none" /\ token'[b] = "unset"
         /\ todo'[b] = Tail(todo[b])
  BY <1>1 DEF UpdateCheckRun, Done, TypeOK
<1>6. /\ token[b] = "app" => cfg.app = "on"
      /\ token[b] # "app" => \A k \in CheckRun : runs[k] = "absent"
      /\ token[b] = ApiToken
      /\ RunsKnown /\ StatusKnown
  BY <1>1, TokenSays DEF SmoothBuild, Quiet
<1> HIDE DEF key, to
<1>7. \A k \in CheckRun :
          /\ k # key => runs'[k] = runs[k]
          /\ k = key => \/ runs'[k] = "absent"
                        \/ runs'[k] = to /\ cfg.app = "on" /\ checkRuns[k] = k
  <2>1. CASE checkRuns[key] # <<>> /\ token[b] = "app"
    <3>1. runs \in [CheckRun -> RunState]
      BY <1>1 DEF TypeOK
    <3>2. runs' = [runs EXCEPT ![key] = to] /\ checkRuns[key] = key
      BY <1>3, <1>4, <2>1
    <3> QED
      BY <1>2, <1>6, <2>1, <3>1, <3>2
  <2>2. CASE ~(checkRuns[key] # <<>> /\ token[b] = "app")
    <3>1. runs' = runs
      BY <1>4, <2>2
    <3>2. runs[key] = "absent"
      BY <1>2, <1>3, <1>6, <2>2 DEF RunsKnown
    <3> QED
      BY <3>1, <3>2
  <2> QED
    BY <2>1, <2>2
<1>8. Quiet'
  BY <1>1, <1>6, <1>7 DEF Quiet, RunsKnown, StatusKnown, ApiToken, AppToken
<1>9. /\ \A i \in Indices : i # h.i => runs'[<<b, i>>] = runs[<<b, i>>]
      /\ runs'[<<b, h.i>>] \in {"absent", h.to}
  BY <1>2, <1>7 DEF CheckRun, key, to
<1> HIDE DEF h
<1>10. Advances(b, todo'[b])
  BY <1>2, <1>5 DEF Advances
<1>11. OpenRunsFit(b)'
  BY <1>1, <1>9, <1>10, OpenSmooth DEF h
<1>12. at'[b] # "gone" /\ at'[b] = at[b] /\ verdict'[b] = verdict[b] /\ LastWordFits(b)
  BY <1>1 DEF SmoothBuild, flow, ledger
<1>13. CASE h.says = "none"
  <2>1. TokenFits(b)'
    BY <1>5, <1>13 DEF TokenFits
  <2>2. at[b] = "over" => Len(todo[b]) # 1
    BY <1>1, <1>12, <1>13 DEF LastWordFits, Outcome, h
  <2>3. LastWordFits(b)'
    BY <1>1, <1>5, <1>12, <1>13, <2>2, LastWordSmooth
  <2> QED
    BY <1>8, <1>11, <1>12, <2>1, <2>3 DEF SmoothBuild
<1>14. CASE h.says # "none"
  <2> DEFINE p == Post(h.says)
             q == <<p>> \o Tail(todo[b])
             n == Len(todo[b])
  <2>1. p \in Call /\ p.op = "post" /\ p.says = h.says
    BY <1>2, PostType DEF IsPost
  <2>2. todo'[b] = q /\ token'[b] = token[b]
    BY <1>5, <1>14
  <2> HIDE DEF p
  <2>3. /\ Len(q) = n /\ q[1] = p /\ n \in Nat /\ n # 0
        /\ \A k \in 2..n : q[k] = todo[b][k]
    BY <1>1, <2>1, SwapFacts
  <2> HIDE DEF q, n
  <2>4. q # <<>>
    BY <2>3
  <2>5. TokenFits(b)'
    BY <1>1, <1>6, <2>1, <2>2, <2>3, <2>4
       DEF TokenFits, TokenFor, ApiToken, AppToken
  <2>6. /\ q[n].op = todo[b][n].op \/ q[n].op = "post"
        /\ q[n].says = todo[b][n].says
    <3>1. CASE n = 1
      <4>1. q[n] = p
        BY <2>3, <3>1
      <4>2. todo[b][n] = h
        BY <3>1 DEF h, n
      <4> QED
        BY <2>1, <4>1, <4>2
    <3>2. CASE n # 1
      <4>1. n \in 2..n
        BY <2>3, <3>2
      <4>2. q[n] = todo[b][n]
        BY <2>3, <4>1
      <4> QED
        BY <4>2
    <3> QED
      BY <3>1, <3>2
  <2>7. LastWordFits(b)'
    BY <1>1, <1>12, <2>2, <2>3, <2>4, <2>6 DEF LastWordFits, n
  <2> QED
    BY <1>8, <1>11, <1>12, <2>5, <2>7 DEF SmoothBuild
<1> QED
  BY <1>13, <1>14

LEMMA PostStatusSmooth ==
    ASSUME Inv, Quiet, NEW b \in Builds, SmoothBuild(b), PostStatus(b), troubles' = 0
    PROVE  /\ Quiet' /\ SmoothBuild(b)'
           /\ status'.by = {b}
<1> DEFINE h == todo[b][1]
<1>1. /\ TypeOK /\ todo[b] # <<>> /\ Head(todo[b]) = h /\ h \in Call
      /\ h.op = "post" /\ token[b] # "none" /\ token[b] # "unset" /\ Done(b)
      /\ todo[b] \in Seq(Call) /\ UNCHANGED <<cfg, flow, checkRuns, runs>>
  BY TailFacts DEF Inv, TypeOK, PostStatus, Calls
<1>2. status' = [state |-> h.says, by |-> {b}]
  <2>1. ~Trouble
    BY <1>1 DEF Trouble, TypeOK
  <2> QED
    BY <1>1, <2>1 DEF PostStatus
<1>3. todo'[b] = Tail(todo[b]) /\ token'[b] = "unset"
  BY <1>1, DoneLeaves
<1>4. token[b] = ApiToken
  BY <1>1, TokenSays DEF SmoothBuild, Quiet
<1>5. Quiet'
  BY <1>1, <1>4 DEF Quiet, RunsKnown, StatusKnown, ApiToken, AppToken
<1>6. TokenFits(b)'
  BY <1>3 DEF TokenFits
<1>7. LastWordFits(b)'
  <2>1. at[b] = "over" /\ Len(todo[b]) = 1 => h.says = Outcome(verdict[b])
    BY <1>1 DEF SmoothBuild, LastWordFits
  <2> HIDE DEF h
  <2>2. at[b] = "over" /\ Len(todo[b]) = 1 =>
            (status'.by = {b} => status'.state = Outcome(verdict[b]))
    BY <1>2, <2>1
  <2> QED
    BY <1>1, <1>3, <2>2, LastWordSmooth DEF SmoothBuild
<1> HIDE DEF h
<1>8. OpenRunsFit(b)'
  BY <1>1, <1>3, OpenSmooth DEF Advances, h
<1>9. at'[b] # "gone"
  BY <1>1 DEF SmoothBuild, flow, ledger
<1> QED
  BY <1>2, <1>5, <1>6, <1>7, <1>8, <1>9 DEF SmoothBuild

----------------------------------------------------------------------------
\* The steps of one build leave the others smooth

LEMMA BuildStepOthers ==
    ASSUME TypeOK, NEW b \in Builds, BuildStep(b), NEW c \in Builds \ {b}
    PROVE  /\ at'[c] = at[c] /\ verdict'[c] = verdict[c] /\ step'[c] = step[c]
           /\ todo'[c] = todo[c]
<1>1. \A p, q : Goto(b, p, q) => at'[c] = at[c] /\ todo'[c] = todo[c]
  BY DEF TypeOK, Goto
<1>a. /\ \A v : Record(b, v) => verdict'[c] = verdict[c]
      /\ RecordNothing => verdict'[c] = verdict[c]
  BY DEF TypeOK, Record, RecordNothing, ledger
<1>2. \A v, q : Conclude(b, v, q) =>
          at'[c] = at[c] /\ todo'[c] = todo[c] /\ verdict'[c] = verdict[c]
  BY <1>1, <1>a DEF Conclude
<1>3. Announce(b) \/ InspectSilently(b) \/ Inspect(b) \/ Prepare(b) =>
          /\ at'[c] = at[c] /\ verdict'[c] = verdict[c] /\ step'[c] = step[c]
          /\ todo'[c] = todo[c]
  BY <1>1, <1>a, <1>2
     DEF TypeOK, Announce, InspectSilently, Inspect, Prepare, BuildFails
<1>4. Filter(b) \/ NextStep(b) \/ Succeed(b) =>
          /\ at'[c] = at[c] /\ verdict'[c] = verdict[c] /\ step'[c] = step[c]
          /\ todo'[c] = todo[c]
  BY <1>1, <1>a, <1>2 DEF TypeOK, Filter, NextStep, Succeed, BuildFails
<1>5. Begin(b) \/ Run(b) =>
          /\ at'[c] = at[c] /\ verdict'[c] = verdict[c] /\ step'[c] = step[c]
          /\ todo'[c] = todo[c]
  BY <1>1, <1>a, <1>2 DEF Begin, Run
<1> QED
  BY <1>3, <1>4, <1>5 DEF BuildStep

LEMMA CallStepOthers ==
    ASSUME Inv, NEW b \in Builds, CallStep(b), NEW c \in Builds \ {b}
    PROVE  /\ UNCHANGED <<cfg, flow>>
           /\ todo'[c] = todo[c] /\ token'[c] = token[c]
           /\ \A i \in Indices : runs'[<<c, i>>] = runs[<<c, i>>]
<1>1. TypeOK /\ KeysFit /\ (todo[b] # <<>> => Head(todo[b]) \in Call)
  BY TailFacts DEF Inv, TypeOK
<1>2. UNCHANGED <<cfg, flow>>
  BY DEF CallStep, FetchToken, NoToken, CreateCheckRun, UpdateCheckRun,
         PostStatus
<1>3. todo'[c] = todo[c] /\ token'[c] = token[c]
  BY <1>1
     DEF TypeOK, CallStep, FetchToken, NoToken, CreateCheckRun, UpdateCheckRun,
         PostStatus, Done
<1>4. \A i \in Indices : runs'[<<c, i>>] = runs[<<c, i>>]
  <2>1. CASE runs' = runs
    BY <2>1
  <2>2. CASE CreateCheckRun(b)
    BY <1>1, <2>2 DEF TypeOK, CreateCheckRun, CheckRun
  <2>3. CASE UpdateCheckRun(b)
    <3> DEFINE h == Head(todo[b])
               key == <<b, h.i>>
    <3>1. key \in CheckRun
      BY <1>1, <2>3 DEF Call, CheckRun, UpdateCheckRun, Calls
    <3>2. checkRuns[key] \in {<<>>, key}
      BY <1>1, <3>1 DEF KeysFit
    <3>3. runs' = runs \/ runs' = [runs EXCEPT ![key] = h.to]
      BY <2>3, <3>2 DEF UpdateCheckRun, CheckRunKey
    <3>4. \A i \in Indices : <<c, i>> # key /\ <<c, i>> \in CheckRun
      BY DEF CheckRun
    <3> DEFINE to == h.to
    <3>5. runs' = runs \/ runs' = [runs EXCEPT ![key] = to]
      BY <3>3
    <3> HIDE DEF key, to, h
    <3> QED
      BY <1>1, <3>4, <3>5 DEF TypeOK
  <2> QED
    BY <2>1, <2>2, <2>3 DEF CallStep, FetchToken, NoToken, PostStatus, github
<1> QED
  BY <1>2, <1>3, <1>4

LEMMA CallStepSmooth ==
    ASSUME Inv, Quiet, NEW b \in Builds, \A c \in Builds : SmoothBuild(c), CallStep(b),
           troubles = 0, troubles' = 0
    PROVE  Quiet' /\ \A c \in Builds : SmoothBuild(c)'
<1>1. Quiet' /\ SmoothBuild(b)' /\ (status' = status \/ status'.by = {b})
  <2>1. CASE FetchToken(b)
    BY <2>1, FetchTokenSmooth DEF FetchToken, github
  <2>2. CASE NoToken(b)
    BY <2>2, NoTokenSmooth DEF NoToken, github
  <2>3. CASE CreateCheckRun(b)
    BY <2>3, CreateCheckRunSmooth DEF CreateCheckRun
  <2>4. CASE UpdateCheckRun(b)
    BY <2>4, UpdateCheckRunSmooth DEF UpdateCheckRun
  <2>5. CASE PostStatus(b)
    BY <2>5, PostStatusSmooth
  <2> QED
    BY <2>1, <2>2, <2>3, <2>4, <2>5 DEF CallStep
<1>2. ASSUME NEW c \in Builds \ {b}
      PROVE  SmoothBuild(c)'
  <2>1. TypeOK /\ (status' = status \/ status'.by # {c})
    BY <1>1 DEF Inv
  <2>2. /\ at'[c] = at[c] /\ verdict'[c] = verdict[c] /\ step'[c] = step[c] /\ cfg' = cfg
        /\ todo'[c] = todo[c] /\ token'[c] = token[c]
        /\ \A i \in Indices : runs'[<<c, i>>] = runs[<<c, i>>]
    BY <1>2, CallStepOthers DEF flow, ledger
  <2> QED
    BY <2>1, <2>2, OthersStaySmooth
<1> QED
  BY <1>1, <1>2

LEMMA StepSmooth ==
    ASSUME Inv, SmoothInv, [Next]_vars
    PROVE  SmoothInv'
<1> SUFFICES ASSUME troubles' = 0
             PROVE  Quiet' /\ \A b \in Builds : SmoothBuild(b)'
  BY DEF SmoothInv, Smooth, Quiet
<1>1. troubles \in Nat /\ ~Trouble
  BY DEF Inv, TypeOK, Trouble
<1>2. ASSUME troubles = 0
      PROVE  Quiet /\ \A b \in Builds : SmoothBuild(b)
  BY <1>2 DEF SmoothInv, Smooth, Quiet
<1>3. ASSUME NEW b \in Builds, BuildStep(b)
      PROVE  Quiet' /\ \A c \in Builds : SmoothBuild(c)'
  <2>a. troubles = 0
    BY <1>1, <1>3, BuildStepStill DEF Inv
  <2>1. /\ UNCHANGED <<cfg, token, checkRuns, runs, status>>
        /\ Quiet /\ \A c \in Builds : SmoothBuild(c)
    BY <1>2, <1>3, <2>a DEF BuildStep, github
  <2>2. Quiet'
    BY <2>1 DEF Quiet, RunsKnown, StatusKnown, ApiToken, AppToken
  <2>3. SmoothBuild(b)'
    BY <1>3, <2>1, BuildStepSmooth
  <2>4. ASSUME NEW c \in Builds \ {b}
        PROVE  SmoothBuild(c)'
    BY <1>3, <2>1, <2>4, BuildStepOthers, OthersStaySmooth DEF Inv
  <2> QED
    BY <2>2, <2>3, <2>4
<1>4. ASSUME NEW b \in Builds, CallStep(b)
      PROVE  Quiet' /\ \A c \in Builds : SmoothBuild(c)'
  <2>1. troubles = 0
    BY <1>1, <1>4
       DEF CallStep, FetchToken, NoToken, CreateCheckRun, UpdateCheckRun,
           PostStatus
  <2> QED
    BY <1>2, <1>4, <2>1, CallStepSmooth
<1>5. ASSUME NEW b \in Builds, Recover(b)
      PROVE  FALSE
  BY <1>1, <1>2, <1>5 DEF Recover, SmoothBuild
<1>6. ~(Reload \/ Crash)
  BY <1>1 DEF Reload, Crash
<1>7. CASE UNCHANGED vars
  BY <1>2, <1>7
     DEF vars, flow, ledger, github, Quiet, RunsKnown, StatusKnown, ApiToken, AppToken,
         SmoothBuild, TokenFits, TokenFor, OpenRunsFit, LeftBehind, Awaits,
         LastWordFits
<1> QED
  BY <1>3, <1>4, <1>5, <1>6, <1>7 DEF Next

LEMMA InitSmooth == Init => SmoothInv
<1> SUFFICES ASSUME Init
             PROVE  Quiet /\ \A b \in Builds : SmoothBuild(b)
  BY DEF SmoothInv, Quiet
<1>1. Quiet
  BY DEF Init, Quiet, RunsKnown, StatusKnown
<1>2. ASSUME NEW b \in Builds
      PROVE  SmoothBuild(b)
  BY DEF Init, SmoothBuild, TokenFits, OpenRunsFit, LeftBehind, LastWordFits,
         Underway
<1> QED
  BY <1>1, <1>2

----------------------------------------------------------------------------
\* The rows

\* A row is the state that runBuild last came to, unless the write of that
\* state failed, or recovery was there.
RowFits(b) ==
    IF b \in unwritten THEN row[b] \notin Conclusions
    ELSE \/ row[b] = verdict[b]
         \/ row[b] = "interrupted" /\ verdict[b] \notin Conclusions

RowsInv == (\A b \in Builds : RowFits(b)) /\ (Smooth => unwritten = {})

LEMMA RowsStill ==
    ASSUME RowsInv, UNCHANGED ledger, troubles' = troubles \/ Trouble, TypeOK
    PROVE  RowsInv'
<1>1. troubles' = 0 => troubles = 0
  BY TroublesType
<1> QED
  BY <1>1 DEF RowsInv, RowFits, ledger, Smooth

\* Before its outcome is recorded a build has none in the database, and it does
\* not get one from a write that fails.
LEMMA BuildStepRows ==
    ASSUME Inv, RowsInv, NEW b \in Builds, BuildStep(b)
    PROVE  RowsInv'
<1>1. TypeOK /\ PlaceFits(b) /\ RowFits(b)
  BY DEF Inv, BuildInv, RowsInv
<1>2. CASE RecordNothing
  BY <1>1, <1>2, RowsStill DEF RecordNothing
<1>3. ASSUME NEW v, verdict' = [verdict EXCEPT ![b] = v], Write(b, v)
      PROVE  RowsInv'
  <2>1. RowFits(b)'
    BY <1>1, <1>3 DEF TypeOK, Write, RowFits
  <2>2. \A c \in Builds \ {b} : RowFits(c)'
    BY <1>1, <1>3 DEF TypeOK, Write, RowFits, RowsInv
  <2>3. Smooth' => unwritten' = {}
    BY <1>3 DEF Write, Smooth, RowsInv
  <2> QED
    BY <2>1, <2>2, <2>3 DEF RowsInv
<1>4. ASSUME NEW v, verdict' = [verdict EXCEPT ![b] = v], at[b] \in Underway, Trouble,
             unwritten' = unwritten \cup {b}, UNCHANGED row
      PROVE  RowsInv'
  <2>1. row[b] \notin Conclusions
    BY <1>1, <1>4 DEF PlaceFits, RowFits, Conclusions
  <2>2. RowFits(b)'
    BY <1>4, <2>1 DEF RowFits
  <2>3. \A c \in Builds \ {b} : RowFits(c)'
    BY <1>1, <1>4 DEF TypeOK, RowFits, RowsInv
  <2>4. ~Smooth'
    BY <1>1, <1>4 DEF TypeOK, Trouble, Smooth
  <2> QED
    BY <2>2, <2>3, <2>4 DEF RowsInv
<1> QED
  BY <1>2, <1>3, <1>4, BuildStepWrites DEF Record

\* Recovery does not touch an outcome.
LEMMA RecoverRows ==
    ASSUME Inv, RowsInv, NEW b \in Builds, Recover(b)
    PROVE  RowsInv'
<1>1. /\ TypeOK /\ row[b] \in {"pending", "running"}
      /\ UNCHANGED <<verdict, unwritten>>
      /\ row' = row \/ row' = [row EXCEPT ![b] = "interrupted"]
      /\ troubles' = troubles \/ Trouble
  BY DEF Inv, Recover
<1>2. troubles' = 0 => troubles = 0
  BY <1>1, TroublesType
<1>3. \A c \in Builds \ {b} : row'[c] = row[c]
  BY <1>1 DEF TypeOK
<1>4. row'[b] = row[b] \/ row'[b] = "interrupted"
  BY <1>1 DEF TypeOK
<1>5. RowFits(b)'
  BY <1>1, <1>4 DEF RowsInv, RowFits, Conclusions
<1>6. \A c \in Builds \ {b} : RowFits(c)'
  BY <1>1, <1>3 DEF RowsInv, RowFits
<1> QED
  BY <1>1, <1>2, <1>5, <1>6 DEF RowsInv, Smooth

LEMMA StepRows ==
    ASSUME Inv, RowsInv, [Next]_vars
    PROVE  RowsInv'
<1>1. ASSUME NEW b \in Builds, CallStep(b)
      PROVE  RowsInv'
  <2>1. UNCHANGED ledger /\ (troubles' = troubles \/ Trouble)
    BY <1>1
       DEF CallStep, FetchToken, NoToken, CreateCheckRun, UpdateCheckRun,
           PostStatus, flow
  <2> QED
    BY <2>1, RowsStill DEF Inv
<1>2. CASE Reload \/ Crash
  BY <1>2, RowsStill DEF Inv, Reload, Crash, flow
<1>3. CASE UNCHANGED vars
  BY <1>3, RowsStill DEF Inv, vars, flow
<1> QED
  BY <1>1, <1>2, <1>3, BuildStepRows, RecoverRows DEF Next

LEMMA InitRows == Init => RowsInv
BY DEF Init, RowsInv, RowFits

----------------------------------------------------------------------------
\* The theorems

LEMMA InvariantHolds == Spec => []Inv
<1>1. Inv /\ [Next]_vars => Inv'
  BY StepInv
<1> QED
  BY <1>1, InitInv, PTL DEF Spec

\* Type correctness: every state of the reports is of its type.
THEOREM TypeCorrect == Spec => []TypeOK
<1>1. Inv => TypeOK
  BY DEF Inv
<1> QED
  BY <1>1, InvariantHolds, PTL

LEMMA RowsHold == Spec => []RowsInv
<1>1. Inv /\ RowsInv /\ [Next]_vars => RowsInv'
  BY StepRows
<1> QED
  BY <1>1, InitRows, InvariantHolds, PTL DEF Spec

\* GitHub's conclusion of a build is the outcome that runBuild came to, and the
\* one in the database unless its write failed, when the database has none:
\* whatever was lost, reloaded or crashed, and however many builds report at once.
THEOREM ConclusionsFollowTheRow == Spec => []ConclusionFollowsRow
<1>1. ASSUME Inv, NEW b \in Builds
      PROVE  /\ runs[<<b, 0>>] \in Conclusions => verdict[b] = runs[<<b, 0>>]
             /\ \A i \in Indices :
                   runs[<<b, i>>] \in Conclusions \ {"success"} =>
                       verdict[b] = runs[<<b, i>>]
  <2>1. RunsFit(b) /\ 0 \in Indices
    BY <1>1, BoundsAssumption DEF Inv, BuildInv, Indices
  <2> QED
    BY <2>1 DEF RunsFit
<1>2. ASSUME RowsInv, NEW b \in Builds, verdict[b] \in Conclusions
      PROVE  IF b \in unwritten THEN row[b] \notin Conclusions
             ELSE row[b] = verdict[b]
  BY <1>2 DEF RowsInv, RowFits
<1>3. ASSUME Inv, RowsInv
      PROVE  ConclusionFollowsRow
  <2> SUFFICES ASSUME NEW b \in Builds, NEW i \in Indices,
                      runs[<<b, i>>] \in (IF i = 0 THEN Conclusions
                                         ELSE Conclusions \ {"success"})
               PROVE  /\ verdict[b] = runs[<<b, i>>]
                      /\ IF b \in unwritten THEN row[b] \notin Conclusions
                         ELSE row[b] = verdict[b]
    BY DEF ConclusionFollowsRow
  <2>1. verdict[b] = runs[<<b, i>>]
    BY <1>1, <1>3
  <2> QED
    BY <1>2, <1>3, <2>1
<1>4. Inv /\ RowsInv => ConclusionFollowsRow
  BY <1>3
<1> QED
  BY <1>4, InvariantHolds, RowsHold, PTL

\* A check run that is concluded keeps its conclusion.
THEOREM ConclusionsAreFinal == Spec => ConclusionIsFinal
<1>1. Inv /\ [Next]_vars =>
          [\A k \in CheckRun : runs[k] \in Conclusions => runs'[k] = runs[k]]_vars
  BY StepInv DEF ConclusionsKeep
<1> QED
  BY <1>1, InvariantHolds, PTL DEF Spec, ConclusionIsFinal

LEMMA SmoothInvariantHolds == Spec => []SmoothInv
<1>1. Inv /\ SmoothInv /\ [Next]_vars => SmoothInv'
  BY StepSmooth
<1> QED
  BY <1>1, InitSmooth, InvariantHolds, PTL DEF Spec

\* As long as every call is answered and nothing is reloaded, a build that has
\* reported its outcome leaves none of its check runs open.
THEOREM RunsGetClosed == Spec => []RunsAreClosed
<1>1. ASSUME SmoothInv, Smooth, NEW b \in Builds, Reported(b), NEW i \in Indices
      PROVE  runs[<<b, i>>] # "in_progress"
  <2>1. SmoothBuild(b) /\ LeftBehind(b, i) /\ todo[b] = <<>>
    BY <1>1 DEF SmoothInv, Reported, LeftBehind
  <2> QED
    BY <2>1, NothingOpen DEF SmoothBuild
<1>2. SmoothInv => RunsAreClosed
  BY <1>1 DEF RunsAreClosed
<1> QED
  BY <1>2, SmoothInvariantHolds, PTL

\* ... and the last thing it said of the commit is its outcome.
THEOREM LastWordsAreOutcomes == Spec => []LastWordIsOutcome
<1>1. ASSUME Inv, RowsInv, SmoothInv, Smooth, NEW b \in Builds, Reported(b),
             status.by = {b}
      PROVE  status.state = Outcome(row[b])
  <2>1. LastWordFits(b)
    BY <1>1 DEF SmoothInv, SmoothBuild
  <2>2. status.state = Outcome(verdict[b])
    BY <1>1, <2>1 DEF LastWordFits, Reported
  <2>3. row[b] = verdict[b]
    BY <1>1 DEF Inv, BuildInv, PlaceFits, Reported, RowsInv, RowFits
  <2> QED
    BY <2>2, <2>3
<1>2. Inv /\ RowsInv /\ SmoothInv => LastWordIsOutcome
  BY <1>1 DEF LastWordIsOutcome, Outcome
<1> QED
  BY <1>2, InvariantHolds, RowsHold, SmoothInvariantHolds, PTL

====

---- MODULE FunctionProofs ----
(***************************************************************************)
(* Proofs about the functions that have no state, for every input: ref     *)
(* filters, the names of builds, the limits of texts.                      *)
(***************************************************************************)
EXTENDS PureFunctions, TLAPS

----------------------------------------------------------------------------
\* Ref filters

LEMMA ValidListsDoNotFail ==
    ASSUME NEW s, NEW globs, AllValid(globs)
    PROVE  MatchAnyGlob(s, globs) \in {"yes", "no"}
    BY DEF AllValid, MatchAnyGlob

LEMMA AcceptedFiltersMatch ==
    ASSUME NEW n, NEW s, NEW emptyMeansAll \in BOOLEAN, Accepted(n)
    PROVE  Match(Unmarshal(n), s, emptyMeansAll) \in {"yes", "no"}
<1> DEFINE f == Unmarshal(n)
<1>1. f.kind # "invalid"
    BY DEF Accepted
<1>2. AllValid(f.legacy) /\ AllValid(f.include) /\ AllValid(f.exclude)
    <2>1. AllValid(<<>>)
        BY DEF AllValid
    <2>2. CASE f = Unset
        BY <2>1, <2>2 DEF Unset
    <2>3. CASE ValidateGlobs(n.items) /\ f = [Unset EXCEPT !.kind = "legacy", !.legacy = n.items]
        BY <2>1, <2>3 DEF Unset, ValidateGlobs
    <2>4. CASE /\ ValidateGlobs(Value(n, "include")) /\ ValidateGlobs(Value(n, "exclude"))
               /\ f = [Unset EXCEPT !.kind = "mapping", !.include = Value(n, "include"),
                                    !.exclude = Value(n, "exclude")]
        BY <2>1, <2>4 DEF Unset, ValidateGlobs
    <2>5. f = Invalid => f.kind = "invalid"
        BY DEF Invalid
    <2> QED
        BY <1>1, <2>2, <2>3, <2>4, <2>5 DEF Unmarshal
<1> HIDE DEF f
<1>3. /\ MatchAnyGlob(s, f.legacy) \in {"yes", "no"}
      /\ MatchAnyGlob(s, f.include) \in {"yes", "no"}
      /\ MatchAnyGlob(s, f.exclude) \in {"yes", "no"}
    BY <1>2, ValidListsDoNotFail
<1>4. Match(f, s, emptyMeansAll) \in {"yes", "no"}
    BY <1>3 DEF Match
<1> QED
    BY <1>4 DEF f

\* NoLateError, for every set of names and globs, all nodes and refs.
THEOREM ErrorsAreEarly ==
    ASSUME NEW b, NEW t, NEW ref
    PROVE  NoLateError(b, t, ref)
<1> SUFFICES ASSUME Accepted(b), Accepted(t)
             PROVE  /\ ShouldBuildRef(Unmarshal(b), Unmarshal(t), ref) # "error"
                    /\ ShouldRunRef(Unmarshal(b), Unmarshal(t), ref) # "error"
    BY DEF NoLateError
<1>1. /\ Match(Unmarshal(b), ref.name, TRUE) \in {"yes", "no"}
      /\ Match(Unmarshal(t), ref.name, FALSE) \in {"yes", "no"}
    BY AcceptedFiltersMatch
<1> QED
    BY <1>1 DEF ShouldBuildRef, ShouldRunRef

\* What a node that is accepted becomes.
LEMMA UnmarshalFacts ==
    ASSUME NEW n, Accepted(n)
    PROVE  LET f == Unmarshal(n) IN
           \/ n.kind = "absent" /\ f = Unset
           \/ /\ n.kind = "list" /\ f.kind = "legacy" /\ f.legacy = n.items
              /\ AllValid(f.legacy)
           \/ /\ n.kind = "map" /\ f.kind = "mapping"
              /\ f.include = Value(n, "include") /\ f.exclude = Value(n, "exclude")
              /\ AllValid(f.include) /\ AllValid(f.exclude)
<1> DEFINE f == Unmarshal(n)
           legacy == [Unset EXCEPT !.kind = "legacy", !.legacy = n.items]
           mapping == [Unset EXCEPT !.kind = "mapping", !.include = Value(n, "include"),
                                    !.exclude = Value(n, "exclude")]
<1>1. f # Invalid
    BY DEF Accepted, Invalid
<1>2. \/ n.kind = "absent" /\ f = Unset
      \/ n.kind = "list" /\ AllValid(n.items) /\ f = legacy
      \/ /\ n.kind = "map" /\ f = mapping
         /\ AllValid(Value(n, "include")) /\ AllValid(Value(n, "exclude"))
    BY <1>1 DEF Unmarshal, ValidateGlobs, IsList
<1>3. /\ legacy.kind = "legacy" /\ legacy.legacy = n.items
      /\ mapping.kind = "mapping" /\ mapping.include = Value(n, "include")
      /\ mapping.exclude = Value(n, "exclude")
    BY DEF Unset
<1> HIDE DEF f, legacy, mapping
<1>4. \/ n.kind = "absent" /\ f = Unset
      \/ n.kind = "list" /\ f.kind = "legacy" /\ f.legacy = n.items /\ AllValid(f.legacy)
      \/ /\ n.kind = "map" /\ f.kind = "mapping"
         /\ f.include = Value(n, "include") /\ f.exclude = Value(n, "exclude")
         /\ AllValid(f.include) /\ AllValid(f.exclude)
    BY <1>2, <1>3
<1> QED
    BY <1>4 DEF f

LEMMA ValidListsDecide ==
    ASSUME NEW s, NEW globs, AllValid(globs)
    PROVE  MatchAnyGlob(s, globs) = "yes"
               <=> \E k \in DOMAIN globs : <<globs[k], s>> \in Matches
    BY DEF AllValid, MatchAnyGlob

\* A filter that is set matches what its node selects.
LEMMA SetFiltersDecide ==
    ASSUME NEW n, NEW s, NEW emptyMeansAll \in BOOLEAN, Accepted(n), n.kind # "absent"
    PROVE  /\ Unmarshal(n) # Unset
           /\ Match(Unmarshal(n), s, emptyMeansAll) = "yes"
                  <=> Selects(n, s) \/ (IsEmpty(n) /\ emptyMeansAll)
<1> DEFINE f == Unmarshal(n)
           in == MatchAnyGlob(s, f.include)
           ex == MatchAnyGlob(s, f.exclude)
<1>1. \/ /\ n.kind = "list" /\ f.kind = "legacy" /\ f.legacy = n.items
         /\ AllValid(f.legacy)
      \/ /\ n.kind = "map" /\ f.kind = "mapping"
         /\ f.include = Value(n, "include") /\ f.exclude = Value(n, "exclude")
         /\ AllValid(f.include) /\ AllValid(f.exclude)
    BY UnmarshalFacts
<1> HIDE DEF f
<1>2. f # Unset
    BY <1>1 DEF Unset
<1>3. CASE n.kind = "list" /\ f.kind = "legacy" /\ f.legacy = n.items /\ AllValid(f.legacy)
    <2>1. Selects(n, s) <=> \E k \in DOMAIN f.legacy : <<f.legacy[k], s>> \in Matches
        BY <1>3 DEF Selects
    <2>2. MatchAnyGlob(s, f.legacy) = "yes" <=> Selects(n, s)
        BY <1>3, <2>1, ValidListsDecide
    <2>3. IsEmpty(n) <=> f.legacy = <<>>
        BY <1>3 DEF IsEmpty
    <2>4. f.legacy = <<>> => ~Selects(n, s)
        BY <2>1
    <2>5. Match(f, s, emptyMeansAll) =
              IF f.legacy = <<>> THEN IF emptyMeansAll THEN "yes" ELSE "no"
              ELSE MatchAnyGlob(s, f.legacy)
        BY <1>3 DEF Match
    <2> QED
        BY <1>2, <2>2, <2>3, <2>4, <2>5 DEF f
<1>4. CASE /\ n.kind = "map" /\ f.kind = "mapping"
           /\ f.include = Value(n, "include") /\ f.exclude = Value(n, "exclude")
           /\ AllValid(f.include) /\ AllValid(f.exclude)
    <2>1. /\ in = "yes" <=> \E k \in DOMAIN f.include : <<f.include[k], s>> \in Matches
          /\ ex = "yes" <=> \E k \in DOMAIN f.exclude : <<f.exclude[k], s>> \in Matches
        BY <1>4, ValidListsDecide
    <2>2. ex \in {"yes", "no"}
        BY <1>4, ValidListsDoNotFail
    <2>3. Selects(n, s) <=> in = "yes" /\ ex # "yes"
        BY <1>4, <2>1 DEF Selects
    <2>4. Match(f, s, emptyMeansAll) =
              IF in # "yes" THEN in
              ELSE IF ex = "error" THEN ex ELSE IF ex = "yes" THEN "no" ELSE "yes"
        BY <1>4 DEF Match
    <2>5. ~IsEmpty(n)
        BY <1>4 DEF IsEmpty
    <2> QED
        BY <1>2, <2>2, <2>3, <2>4, <2>5 DEF f
<1> QED
    BY <1>1, <1>3, <1>4

\* BuildsWhatIsMeant and RunsWhatIsMeant, for every set of names and globs,
\* all nodes and refs: ShouldBuildRef and ShouldRunRef, with their defaults,
\* legacy lists and mappings, decide as README.md and the comments say.
THEOREM FiltersAreMeant ==
    ASSUME NEW b, NEW t, NEW ref
    PROVE  BuildsWhatIsMeant(b, t, ref) /\ RunsWhatIsMeant(b, t, ref)
<1> SUFFICES ASSUME Accepted(b), Accepted(t)
             PROVE  BuildsWhatIsMeant(b, t, ref) /\ RunsWhatIsMeant(b, t, ref)
    BY DEF BuildsWhatIsMeant, RunsWhatIsMeant
<1> DEFINE branches == Unmarshal(b)
           tags == Unmarshal(t)
<1>1. /\ branches = Unset <=> b.kind = "absent"
      /\ tags = Unset <=> t.kind = "absent"
    BY UnmarshalFacts, SetFiltersDecide
<1>2. /\ b.kind # "absent" => (Match(branches, ref.name, TRUE) = "yes"
                                   <=> Selects(b, ref.name) \/ IsEmpty(b))
      /\ t.kind # "absent" => (Match(tags, ref.name, FALSE) = "yes"
                                   <=> Selects(t, ref.name))
    BY SetFiltersDecide
<1>3. /\ b.kind = "absent" => ~Selects(b, ref.name) /\ ~IsEmpty(b)
      /\ t.kind = "absent" => ~Selects(t, ref.name)
    BY DEF Selects, IsEmpty
<1> HIDE DEF branches, tags
<1>4. ShouldBuildRef(branches, tags, ref) = "yes" <=>
          \/ /\ ref.kind = "branch" /\ ref.name # HEAD
             /\ b.kind = "absent" \/ IsEmpty(b) \/ Selects(b, ref.name)
          \/ ref.kind = "tag" /\ Selects(t, ref.name)
    BY <1>1, <1>2, <1>3 DEF ShouldBuildRef
<1>5. ShouldRunRef(branches, tags, ref) = "yes" <=>
          \/ b.kind = "absent" /\ t.kind = "absent"
          \/ /\ ref.kind = "branch" /\ ref.name # HEAD
             /\ IsEmpty(b) \/ Selects(b, ref.name)
          \/ ref.kind = "tag" /\ Selects(t, ref.name)
    BY <1>1, <1>2, <1>3 DEF ShouldRunRef
<1> QED
    BY <1>4, <1>5 DEF BuildsWhatIsMeant, RunsWhatIsMeant, branches, tags

----------------------------------------------------------------------------
\* The names of builds

\* NamesNoOther, for every table, argument and new build.
THEOREM IdsNameNoOther ==
    ASSUME NEW table, NEW s, NEW new
    PROVE  NamesNoOther(table, s, new)
<1> DEFINE Found(t) == {b \in t : Like(b.id, s)}
           after == table \cup {new}
<1> SUFFICES ASSUME NEW x \in ResolveBuildID(table, s) \ Errors,
                    NEW y \in ResolveBuildID(after, s)
             PROVE  y \in {x, Ambiguous} \/ (new.id = s /\ y = s)
    BY DEF NamesNoOther
<1>1. s # <<>>
    BY DEF ResolveBuildID, Errors
<1>2. CASE \E b \in table : b.id = s
    <2>1. x = s /\ y = s
        BY <1>1, <1>2 DEF ResolveBuildID
    <2> QED BY <2>1
<1>3. CASE ~\E b \in table : b.id = s
    <2>1. PICK b \in Found(table) : Found(table) = {b} /\ x = b.id
        BY <1>1, <1>3 DEF ResolveBuildID, Errors
    <2>2. ~(Len(s) < MinLen)
        BY <1>1, <1>3 DEF ResolveBuildID, Errors
    <2>3. CASE new.id = s
        BY <1>1, <2>3 DEF ResolveBuildID
    <2>4. CASE new.id # s
        <3>1. Found(after) = {b} \/ Found(after) = {b, new}
            BY <2>1
        <3>2. ~\E c \in after : c.id = s
            BY <1>3, <2>4
        <3>3. CASE Found(after) = {b}
            <4>1. y = b.id
                BY <1>1, <2>2, <3>2, <3>3 DEF ResolveBuildID
            <4> QED BY <4>1, <2>1
        <3>4. CASE Found(after) = {b, new} /\ b # new
            <4>1. y = Ambiguous
                BY <1>1, <2>2, <3>2, <3>4 DEF ResolveBuildID
            <4> QED BY <4>1
        <3> QED BY <3>1, <3>3, <3>4
    <2> QED BY <2>3, <2>4
<1> QED BY <1>2, <1>3

\* The lower case of a text, letter by letter.
LEMMA LowerFacts ==
    ASSUME NEW s \in Text
    PROVE  /\ ToLower(s) \in Text /\ Len(ToLower(s)) = Len(s) /\ Len(s) \in Nat
           /\ DOMAIN s = 1..Len(s)
           /\ \A k \in 1..Len(s) : s[k] \in DOMAIN Lower /\ ToLower(s)[k] = Lower[s[k]]
           /\ ToLower(ToLower(s)) = ToLower(s)
           /\ IsHexString(s) => IsHexString(ToLower(s))
<1>1. /\ Len(s) \in Nat /\ DOMAIN s = 1..Len(s)
      /\ \A k \in 1..Len(s) : s[k] \in DOMAIN Lower
    BY DEF Text
<1>2. \A k \in 1..Len(s) : Lower[s[k]] \in DOMAIN Lower
    BY <1>1, HexAssumption
<1>3. ToLower(s) = [k \in 1..Len(s) |-> Lower[s[k]]]
    BY <1>1 DEF ToLower
<1>4. ToLower(s) \in Seq(DOMAIN Lower) /\ Len(ToLower(s)) = Len(s)
    BY <1>1, <1>2, <1>3
<1>5. DOMAIN ToLower(s) = 1..Len(s) /\ \A k \in 1..Len(s) : ToLower(s)[k] = Lower[s[k]]
    BY <1>3
<1>6. ToLower(ToLower(s)) = ToLower(s)
  <2>1. ToLower(ToLower(s)) = [k \in 1..Len(s) |-> Lower[ToLower(s)[k]]]
      BY <1>5 DEF ToLower
  <2>2. \A k \in 1..Len(s) : Lower[ToLower(s)[k]] = Lower[s[k]]
      BY <1>1, <1>5, HexAssumption
  <2> QED
      BY <1>3, <2>1, <2>2
<1>7. ASSUME IsHexString(s)
      PROVE  IsHexString(ToLower(s))
  <2>1. Len(s) # 0 /\ \A k \in 1..Len(s) : s[k] \in Hex
      BY <1>1, <1>7 DEF IsHexString, Text
  <2>2. \A k \in 1..Len(s) : ToLower(s)[k] \in Hex
      BY <1>5, <2>1, HexAssumption
  <2>3. ToLower(s) # <<>>
      BY <1>4, <2>1
  <2> QED
      BY <1>5, <2>2, <2>3 DEF IsHexString
<1> QED
    BY <1>1, <1>4, <1>5, <1>6, <1>7 DEF Text

\* A text begins with another of the same letters.
LEMMA BeginsWith ==
    ASSUME NEW x \in Text, NEW s \in Text
    PROVE  StartsWith(x, s) <=>
               Len(s) <= Len(x) /\ \A k \in 1..Len(s) : s[k] = x[k]
<1>1. /\ x \in Seq(DOMAIN Lower) /\ s \in Seq(DOMAIN Lower)
      /\ Len(x) \in Nat /\ Len(s) \in Nat
    BY DEF Text
<1>2. CASE Len(s) <= Len(x)
  <2> DEFINE y == SubSeq(x, 1, Len(s))
  <2>1. /\ y \in Seq(DOMAIN Lower) /\ Len(y) = Len(s)
        /\ \A k \in 1..Len(s) : y[k] = x[k]
      BY <1>1, <1>2
  <2> HIDE DEF y
  <2>2. y = s <=> \A k \in 1..Len(s) : s[k] = y[k]
      BY <1>1, <2>1
  <2> QED
      BY <1>2, <2>1, <2>2 DEF StartsWith, y
<1>3. CASE ~(Len(s) <= Len(x))
    BY <1>3 DEF StartsWith
<1> QED
    BY <1>2, <1>3

\* LIKE with a hexadecimal pattern means what it should: no wildcard is in it.
LEMMA LikeIsPrefix ==
    ASSUME NEW x \in Text, NEW s \in Text, IsHexString(s)
    PROVE  Like(x, s) <=> StartsWith(ToLower(x), ToLower(s))
<1>1. \A k \in 1..Len(s) : s[k] # "_"
  <2>1. DOMAIN s = 1..Len(s)
      BY LowerFacts
  <2>2. \A k \in DOMAIN s : s[k] \in Hex
      BY DEF IsHexString
  <2> QED
      BY <2>1, <2>2, HexAssumption
<1>2. Like(x, s) <=> Len(s) <= Len(x) /\ \A k \in 1..Len(s) : Lower[s[k]] = Lower[x[k]]
    BY <1>1, LowerFacts DEF Like
<1>3. Len(s) <= Len(x) => \A k \in 1..Len(s) : k \in 1..Len(x)
    BY LowerFacts
<1>4. /\ \A k \in 1..Len(s) : ToLower(s)[k] = Lower[s[k]]
      /\ \A k \in 1..Len(x) : ToLower(x)[k] = Lower[x[k]]
    BY LowerFacts
<1>5. StartsWith(ToLower(x), ToLower(s)) <=>
          Len(s) <= Len(x) /\ \A k \in 1..Len(s) : ToLower(s)[k] = ToLower(x)[k]
    BY LowerFacts, BeginsWith
<1> QED
    BY <1>2, <1>3, <1>4, <1>5

LEMMA LikeOfLower ==
    ASSUME NEW x \in Text, NEW s \in Text, IsHexString(s)
    PROVE  Like(ToLower(x), ToLower(s)) <=> StartsWith(ToLower(x), ToLower(s))
    BY LowerFacts, LikeIsPrefix

LEMMA LikeItself ==
    ASSUME NEW s \in Text
    PROVE  Like(s, s)
    BY LowerFacts DEF Like

\* A text is no error.
LEMMA TextsAreAnswers ==
    ASSUME NEW s \in Text
    PROVE  s \notin Errors
<1>1. ASSUME NEW w, w \notin DOMAIN Lower
      PROVE  s # <<w>>
  <2>1. SUFFICES ASSUME s = <<w>>
                 PROVE  FALSE
      OBVIOUS
  <2>2. Len(s) = 1 /\ s[1] = w
      BY <2>1
  <2>3. \A k \in 1..Len(s) : s[k] \in DOMAIN Lower
      BY LowerFacts
  <2>4. 1 \in 1..Len(s)
      BY <2>2
  <2> QED
      BY <1>1, <2>2, <2>3, <2>4
<1>2. /\ "missing" \notin DOMAIN Lower
      /\ "unknown" \notin DOMAIN Lower
      /\ "ambiguous" \notin DOMAIN Lower
    BY HexAssumption
<1> QED
    BY <1>1, <1>2 DEF Errors, Missing, Unknown, Ambiguous

LEMMA LatestAnswers ==
    ASSUME NEW builds, NEW x \in Latest(builds)
    PROVE  \E b \in builds : b.id = x
    BY DEF Latest

\* The type of a table.
IsTable(table) == \A b \in table : b.id \in Text /\ b.sha \in Text

\* What an id or its prefix comes to.
LEMMA IdsAreFound ==
    ASSUME NEW table, IsTable(table), NEW s \in Text, IsHexString(s)
    PROVE  /\ \A x \in ResolveBuildID(table, s) \ Errors :
                  \E b \in table : b.id = x /\ Named(b, s)
           /\ ResolveBuildID(table, s) = {Unknown} \/ Unknown \notin ResolveBuildID(table, s)
           /\ ResolveBuildID(table, s) = {Unknown} =>
                  \A b \in table : b.id # s /\ (Len(s) < MinLen \/ ~Like(b.id, s))
<1> DEFINE found == {b \in table : Like(b.id, s)}
           answers == ResolveBuildID(table, s)
<1>1. s # <<>> /\ s \notin Errors /\ \A b \in table : b.id \notin Errors /\ b.id \in Text
    BY TextsAreAnswers DEF IsHexString, IsTable
<1>2. \/ answers = {s} /\ \E b \in table : b.id = s
      \/ /\ answers = {Unknown} /\ ~\E b \in table : b.id = s
         /\ Len(s) < MinLen \/ found = {}
      \/ answers = {Ambiguous}
      \/ \E b \in table : Like(b.id, s) /\ answers = {b.id}
    BY <1>1 DEF ResolveBuildID
<1>3. \A b \in table : b.id = s \/ Like(b.id, s) => Named(b, s)
  <2>1. \A b \in table : b.id = s => Like(b.id, s)
      BY LikeItself
  <2> QED
      BY <1>1, <2>1, LikeIsPrefix DEF Named
<1>4. Unknown \in Errors /\ Ambiguous \in Errors /\ Ambiguous # Unknown
    BY DEF Errors, Unknown, Ambiguous
<1> QED
    BY <1>1, <1>2, <1>3, <1>4

\* LogsFindNamed and CancelFindsRunning, for every table of builds and every
\* argument: ResolveLogsTarget and ResolveCancelTarget find what the argument
\* names, by id, prefix or SHA, and cancel the running build of a commit.
THEOREM TargetsFound ==
    ASSUME NEW table, IsTable(table), NEW s \in Text
    PROVE  LogsFindNamed(table, s) /\ CancelFindsRunning(table, s)
<1> DEFINE low == ToLower(s)
           exact(builds) == {b \in builds : ToLower(b.sha) = low}
           begun(builds) == {b \in builds : Like(ToLower(b.sha), low)}
<1>1. ASSUME IsHexString(s)
      PROVE  LogsFindNamed(table, s)
  <2>1. \A b \in table : /\ ToLower(b.sha) = low => StartsWith(ToLower(b.sha), low)
                         /\ Like(ToLower(b.sha), low) <=> StartsWith(ToLower(b.sha), low)
    <3>1. \A b \in table : b.sha \in Text /\ Len(ToLower(b.sha)) = Len(b.sha)
        BY LowerFacts DEF IsTable
    <3>2. low \in Text /\ StartsWith(low, low)
        BY LowerFacts, BeginsWith
    <3> QED
        BY <1>1, <3>1, <3>2, LikeOfLower
  <2>2. ASSUME NEW x \in ResolveLogsTarget(table, s) \ Errors
        PROVE  \E b \in table : b.id = x /\ Named(b, s)
    <3>1. CASE x \in ResolveBuildID(table, s)
        BY <1>1, <2>2, <3>1, IdsAreFound
    <3>2. CASE x \in Latest(exact(table)) \cup Latest(begun(table))
      <4>1. \E b \in table : b.id = x /\ StartsWith(ToLower(b.sha), low)
          BY <2>1, <3>2, LatestAnswers
      <4> QED
          BY <4>1 DEF Named
    <3>3. x # Unknown
        BY <2>2 DEF Errors
    <3> QED
        BY <2>2, <3>1, <3>2, <3>3
           DEF ResolveLogsTarget, ResolveAmong, LatestByCommitSHA
  <2>3. ASSUME Unknown \in ResolveLogsTarget(table, s), NEW b \in table, Named(b, s)
        PROVE  Len(s) < MinLen /\ b.id # s
    <3>1. ResolveBuildID(table, s) = {Unknown}
        BY <1>1, <2>3, IdsAreFound DEF ResolveLogsTarget, ResolveAmong
    <3>2. b.id # s /\ (Len(s) < MinLen \/ ~Like(b.id, s))
        BY <1>1, <3>1, IdsAreFound
    <3>3. ASSUME ~(Len(s) < MinLen)
          PROVE  FALSE
      <4>1. Unknown \in LatestByCommitSHA(table, low)
          BY <1>1, <2>3, <3>1, <3>3 DEF ResolveLogsTarget, ResolveAmong
      <4>2. \A x \in Latest(exact(table)) \cup Latest(begun(table)) : x # Unknown
        <5>1. \A c \in table : c.id # Unknown
            BY TextsAreAnswers DEF IsTable, Errors
        <5> QED
            BY <5>1, LatestAnswers
      <4>3. begun(table) = {}
          BY <4>1, <4>2 DEF LatestByCommitSHA
      <4>4. ~StartsWith(ToLower(b.sha), low)
          BY <2>1, <4>3
      <4>5. ~StartsWith(ToLower(b.id), low)
          BY <1>1, <3>2, <3>3, LikeIsPrefix DEF IsTable
      <4> QED
          BY <2>3, <4>4, <4>5 DEF Named
    <3> QED
        BY <3>2, <3>3
  <2> QED
      BY <2>2, <2>3 DEF LogsFindNamed
<1>2. LogsFindNamed(table, s)
    BY <1>1 DEF LogsFindNamed
<1>3. CancelFindsRunning(table, s)
  <2> DEFINE running == {b \in table : b.running}
  <2> SUFFICES ASSUME IsHexString(s), Len(s) >= MinLen, \A b \in table : ~Like(b.id, s),
                      \E b \in running : ToLower(b.sha) = low,
                      NEW x \in ResolveCancelTarget(table, s)
               PROVE  \E b \in table : b.id = x /\ b.running /\ ToLower(b.sha) = low
      BY DEF CancelFindsRunning
  <2>1. Len(s) \in Nat /\ ~(Len(s) < MinLen) /\ s # <<>>
      BY LowerFacts, MinLenAssumption DEF IsHexString
  <2>2. ~\E b \in table : b.id = s
    <3>1. Like(s, s)
        BY LikeItself
    <3> QED
        BY <3>1
  <2>3. ResolveBuildID(table, s) = {Unknown}
      BY <2>1, <2>2 DEF ResolveBuildID
  <2>4. x \in LatestByCommitSHA(running, low)
      BY <2>1, <2>3 DEF ResolveCancelTarget, ResolveAmong
  <2>5. x \in Latest(exact(running))
      BY <2>4 DEF LatestByCommitSHA
  <2> QED
      BY <2>5, LatestAnswers
<1> QED
    BY <1>2, <1>3

----------------------------------------------------------------------------
\* The limits of texts

\* DescriptionFits, for every length and every limit.
THEOREM DescriptionsFit ==
    ASSUME NEW name \in Nat, NEW err \in Nat, NEW id \in Nat
    PROVE  DescriptionFits(name, err, id)
<1> DEFINE body == (IF name = 0 THEN 4 ELSE name) + 2
                   + (IF err = 0 THEN NoErrorText ELSE err)
<1>1. body \in Nat
    BY LimitsAssumption
<1>2. ASSUME NEW b \in Nat
      PROVE  LET d == WithLogsHint(b, id) IN
             /\ d.body + d.hint <= MaxDescription
             /\ id > 0 /\ HintLength + id + 8 <= MaxDescription
                    => d.hint = HintLength + id
    BY LimitsAssumption DEF WithLogsHint, Truncate, AtMost, Minus
<1> HIDE DEF body
<1>3. StepFailure(name, err, id) = WithLogsHint(body, id)
    BY DEF StepFailure, body
<1> QED
    BY <1>1, <1>2, <1>3 DEF DescriptionFits

\* FenceIsClosed, for every length and every limit.
THEOREM FencesAreClosed ==
    ASSUME NEW head \in Nat, NEW tail \in Nat, NEW skip \in Nat,
           NEW newline \in 0..1
    PROVE  FenceIsClosed(head, tail, skip, newline)
<1> SUFFICES ASSUME Budget(head) > 0
             PROVE  FailureText(head, tail, skip, newline) <= MaxText
    BY DEF FenceIsClosed
<1>1. Budget(head) = MaxText - (head + 10) /\ Budget(head) \in Nat
    BY LimitsAssumption DEF Budget, Minus
<1>2. LogLength(head, tail, skip) \in 0..Budget(head)
    BY <1>1 DEF LogLength, Minus
<1> QED
    BY <1>1, <1>2, LimitsAssumption DEF FailureText

----------------------------------------------------------------------------
\* The specification: whatever is picked, the properties hold of it.

InputFits ==
    /\ input.about = "target" => IsTable(input.table) /\ input.s \in Text
    /\ input.about = "description" =>
           input.name \in Nat /\ input.err \in Nat /\ input.id \in Nat
    /\ input.about = "text" =>
           /\ input.head \in Nat /\ input.tail \in Nat /\ input.skip \in Nat
           /\ input.newline \in 0..1

LEMMA InputsFit == Spec => []InputFits
<1>1. Init => InputFits
    BY DEF Init, InputFits
<1>2. InputFits /\ [Next]_input => InputFits'
  <2> SUFFICES ASSUME InputFits, [Next]_input
               PROVE  InputFits'
      OBVIOUS
  <2>1. CASE PickFilter
      BY <2>1 DEF PickFilter, InputFits
  <2>2. CASE PickTarget
      BY <2>2, TablesAssumption DEF PickTarget, InputFits, IsTable
  <2>3. CASE PickDescription
      BY <2>3, LengthsAssumption DEF PickDescription, InputFits
  <2>4. CASE PickText
      BY <2>4, LengthsAssumption DEF PickText, InputFits
  <2>5. CASE UNCHANGED input
      BY <2>5 DEF InputFits
  <2> QED
      BY <2>1, <2>2, <2>3, <2>4, <2>5 DEF Next
<1> QED
    BY <1>1, <1>2, PTL DEF Spec

\* FiltersDecideAsMeant: ShouldBuildRef and ShouldRunRef decide as the
\* documentation says, whichever nodes and refs the specification asks about.
THEOREM FiltersDecide == Spec => []FiltersDecideAsMeant
<1>1. FiltersDecideAsMeant
    BY FiltersAreMeant, ErrorsAreEarly DEF FiltersDecideAsMeant
<1> QED
    BY <1>1, PTL

\* PrefixesAreStable: no new build takes over an argument that ResolveBuildID
\* resolved to another, whichever tables, arguments and newcomers there are.
THEOREM PrefixesStayStable == Spec => []PrefixesAreStable
<1>1. PrefixesAreStable
    BY IdsNameNoOther DEF PrefixesAreStable
<1> QED
    BY <1>1, PTL

\* TargetsAreFound: logs, retry and cancel find what their argument names,
\* whichever tables and arguments there are.
THEOREM TargetsGetFound == Spec => []TargetsAreFound
<1>1. InputFits => TargetsAreFound
    BY TargetsFound DEF InputFits, TargetsAreFound
<1> QED
    BY <1>1, InputsFit, PTL

\* TextsFit: no description and no text exceeds GitHub's limits, whichever
\* lengths their parts have.
THEOREM TextsAlwaysFit == Spec => []TextsFit
<1>1. InputFits => TextsFit
    BY DescriptionsFit, FencesAreClosed DEF InputFits, TextsFit
<1> QED
    BY <1>1, InputsFit, PTL

====

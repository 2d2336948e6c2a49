---- MODULE BuildTargets ----
(***************************************************************************)
(* How an argument of `shitty-ci logs`, `cancel` and `retry` names a build *)
(* (internal/db/resolve_build.go, resolve_target.go): by its id, a prefix  *)
(* of it, a commit SHA or a prefix of that.  Strings are sequences of      *)
(* characters; a table is a set of builds with different ids.              *)
(***************************************************************************)
EXTENDS Naturals, Sequences

CONSTANTS
    Hex,        \* characters that isHexString accepts
    Lower,      \* the lower case of each character
    MinLen      \* minBuildIDPrefixLen and minHexQueryLen, both 4

\* The lower case of a hexadecimal digit is one, and its own lower case; no
\* character is one of the words that stand for errors below.
ASSUME HexAssumption ==
    /\ Hex \subseteq DOMAIN Lower /\ "_" \notin Hex
    /\ Lower \in [DOMAIN Lower -> DOMAIN Lower]
    /\ \A c \in DOMAIN Lower : Lower[Lower[c]] = Lower[c]
    /\ \A c \in Hex : Lower[c] \in Hex
    /\ {"missing", "unknown", "ambiguous"} \cap DOMAIN Lower = {}
ASSUME MinLenAssumption == MinLen \in Nat \ {0}

Text == Seq(DOMAIN Lower)

ToLower(s) == [k \in DOMAIN s |-> Lower[s[k]]]
IsHexString(s) == s # <<>> /\ \A k \in DOMAIN s : s[k] \in Hex

\* SQLite's x LIKE s||'%': "_" stands for any character, case is ignored.
Like(x, s) ==
    /\ Len(s) <= Len(x)
    /\ \A k \in DOMAIN s : s[k] = "_" \/ Lower[s[k]] = Lower[x[k]]

\* Answers: an id, or one of the errors.
Missing == <<"missing">>
Unknown == <<"unknown">>
Ambiguous == <<"ambiguous">>

\* Bug: LIMIT 1 on the query of the prefix.
ResolveFirstBuildID(table, s) ==
    LET found == {b \in table : Like(b.id, s)} IN
    IF s = <<>> THEN {Missing}
    ELSE IF \E b \in table : b.id = s THEN {s}
    ELSE IF Len(s) < MinLen \/ found = {} THEN {Unknown}
    ELSE {b.id : b \in found}

ResolveBuildID(table, s) ==
    LET found == {b \in table : Like(b.id, s)} IN
    IF s = <<>> THEN {Missing}
    ELSE IF \E b \in table : b.id = s THEN {s}
    ELSE IF Len(s) < MinLen \/ found = {} THEN {Unknown}
    ELSE IF \E b \in found : found = {b} THEN {b.id : b \in found}
    ELSE {Ambiguous}

\* ORDER BY created_at DESC LIMIT 1: seconds, so ties are likely, and either
\* may come out.
Latest(builds) == {b.id : b \in {c \in builds : \A d \in builds : d.at <= c.at}}

\* The whole SHA is preferred to a prefix.
LatestByCommitSHA(builds, s) ==
    LET exact == {b \in builds : ToLower(b.sha) = s}
        begun == {b \in builds : Like(ToLower(b.sha), s)}
    IN  IF exact # {} THEN Latest(exact)
        ELSE IF begun # {} THEN Latest(begun) ELSE {Unknown}

\* The answers of a SHA are those of the builds; an id rules them out.
ResolveAmong(table, builds, s) ==
    IF ResolveBuildID(table, s) # {Unknown} THEN ResolveBuildID(table, s)
    ELSE IF ~IsHexString(s) \/ Len(s) < MinLen THEN {Unknown}
    ELSE LatestByCommitSHA(builds, ToLower(s))

ResolveLogsTarget(table, s) == ResolveAmong(table, table, s)

\* Bug: the state of the build is not part of the query.
ResolveCancelAny(table, s) == ResolveAmong(table, table, s)

ResolveCancelTarget(table, s) ==
    ResolveAmong(table, {b \in table : b.running}, s)

----------------------------------------------------------------------------
\* Properties, of a table and an argument

StartsWith(x, s) == Len(s) <= Len(x) /\ SubSeq(x, 1, Len(s)) = s
Named(b, s) == \E x \in {b.id, b.sha} : StartsWith(ToLower(x), ToLower(s))
Errors == {Missing, Unknown, Ambiguous}

\* An argument that named a build by id never comes to name another one: when
\* a build is added it still names the old one, or is ambiguous, or is the
\* new one's whole id.
NamesNoOther(table, s, new) ==
    \A x \in ResolveBuildID(table, s) \ Errors :
        ResolveBuildID(table \cup {new}, s) \subseteq
            {x, Ambiguous} \cup (IF new.id = s THEN {s} ELSE {})

\* A hexadecimal argument only ever leads to a build it names, and is called
\* unknown only if it names none, or is too short and no id.
LogsFindNamed(table, s) ==
    IsHexString(s) =>
        /\ \A x \in ResolveLogsTarget(table, s) \ Errors :
               \E b \in table : b.id = x /\ Named(b, s)
        /\ Unknown \in ResolveLogsTarget(table, s) =>
               \A b \in table : Named(b, s) => Len(s) < MinLen /\ b.id # s

\* If cancel is given the SHA of a running build, and no id begins like it,
\* it finds a running build of that SHA, however many builds of the commit
\* are over, and however new they are (a retry makes several per commit).
CancelFindsRunning(table, s) ==
    /\ IsHexString(s) /\ Len(s) >= MinLen
    /\ \A b \in table : ~Like(b.id, s)
    /\ \E b \in table : b.running /\ ToLower(b.sha) = ToLower(s)
    => \A x \in ResolveCancelTarget(table, s) :
           \E b \in table : b.id = x /\ b.running /\ ToLower(b.sha) = ToLower(s)

====

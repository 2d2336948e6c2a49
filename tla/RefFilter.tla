---- MODULE RefFilter ----
(***************************************************************************)
(* The filters branches: and tags: of .shitty-ci.yml and of its steps      *)
(* (internal/shittyyml/shittyyml.go): from a YAML node to a decision about *)
(* a ref.  YAML itself and the doublestar globs are external: a node is    *)
(* given after aliases are resolved, and which glob matches which name is  *)
(* a constant.                                                             *)
(***************************************************************************)
EXTENDS Naturals, Sequences

CONSTANTS
    Names,      \* names of branches and tags, without the prefix of the ref
    HEAD,       \* the one name under refs/remotes/origin/ that is no branch
    Globs,      \* strings in a list
    Nested,     \* an element of a list that is no string
    Valid,      \* globs that doublestar.ValidatePattern accepts
    Matches     \* pairs <<g, s>>: doublestar.Match(g, s) for a valid g

ASSUME GlobsAssumption ==
    Valid \subseteq Globs /\ Nested \notin Globs /\ Matches \subseteq Valid \X Names

\* A node: "absent" is a missing key, or null, which leaves the pointer nil.
IsList(n) == n.kind = "list" /\ \A k \in DOMAIN n.items : n.items[k] \in Globs
AllValid(globs) == \A k \in DOMAIN globs : globs[k] \in Valid

Unset == [kind |-> "unset", legacy |-> <<>>, include |-> <<>>, exclude |-> <<>>]
Invalid == [kind |-> "invalid", legacy |-> <<>>, include |-> <<>>, exclude |-> <<>>]

ValidateGlobs(globs) == AllValid(globs)

\* The value of a key, of its last occurrence; null stands for no globs.
Value(n, key) ==
    LET ks == {k \in DOMAIN n.pairs : n.pairs[k].key = key}
        v == n.pairs[CHOOSE k \in ks : \A j \in ks : j <= k].value
    IN  IF ks = {} \/ v.kind = "null" THEN <<>> ELSE v.items

\* Every occurrence of a key has to be well formed, include has to be there.
MappingOK(n) ==
    /\ \A k \in DOMAIN n.pairs :
           \/ n.pairs[k].key \in {"include", "exclude"} /\ IsList(n.pairs[k].value)
           \/ n.pairs[k].key = "exclude" /\ n.pairs[k].value.kind = "null"
    /\ \E k \in DOMAIN n.pairs : n.pairs[k].key = "include"

\* refFilterUnmarshal
Unmarshal(n) ==
    IF n.kind = "absent" THEN Unset
    ELSE IF IsList(n) /\ ValidateGlobs(n.items)
         THEN [Unset EXCEPT !.kind = "legacy", !.legacy = n.items]
    ELSE IF n.kind = "map" /\ MappingOK(n)
            /\ ValidateGlobs(Value(n, "include")) /\ ValidateGlobs(Value(n, "exclude"))
         THEN [Unset EXCEPT !.kind = "mapping", !.include = Value(n, "include"),
                            !.exclude = Value(n, "exclude")]
    ELSE Invalid

\* Whether a glob of the list matches s; an invalid one met first is an error.
MatchAnyGlob(s, globs) ==
    LET Hit(k) == <<globs[k], s>> \in Matches IN
    IF \E k \in DOMAIN globs :
           globs[k] \notin Valid /\ \A j \in DOMAIN globs : j < k => ~Hit(j)
    THEN "error"
    ELSE IF \E k \in DOMAIN globs : Hit(k) THEN "yes" ELSE "no"

\* Bug: exclude is looked at only when include is empty.
MatchIncludeFirst(f, s, emptyMeansAll) ==
    IF f.kind = "mapping"
    THEN IF f.include # <<>> THEN MatchAnyGlob(s, f.include)
         ELSE IF MatchAnyGlob(s, f.exclude) = "yes" THEN "no" ELSE "yes"
    ELSE IF f.legacy = <<>> THEN IF emptyMeansAll THEN "yes" ELSE "no"
    ELSE MatchAnyGlob(s, f.legacy)

Match(f, s, emptyMeansAll) ==
    IF f.kind = "mapping"
    THEN LET in == MatchAnyGlob(s, f.include)
             ex == MatchAnyGlob(s, f.exclude)
         IN  IF in # "yes" THEN in
             ELSE IF ex = "error" THEN ex
             ELSE IF ex = "yes" THEN "no" ELSE "yes"
    ELSE IF f.legacy = <<>> THEN IF emptyMeansAll THEN "yes" ELSE "no"
    ELSE MatchAnyGlob(s, f.legacy)

\* ref.kind is "branch" (refs/remotes/origin/), "tag" (refs/tags/) or "other".
ShouldBuildRef(branches, tags, ref) ==
    IF ref.kind = "branch" /\ ref.name # HEAD
    THEN IF branches = Unset THEN "yes" ELSE Match(branches, ref.name, TRUE)
    ELSE IF ref.kind = "tag" /\ tags # Unset THEN Match(tags, ref.name, FALSE)
    ELSE "no"

ShouldRunRef(branches, tags, ref) ==
    IF branches = Unset /\ tags = Unset THEN "yes"
    ELSE IF ref.kind = "branch" /\ ref.name # HEAD /\ branches # Unset
         THEN Match(branches, ref.name, TRUE)
    ELSE IF ref.kind = "tag" /\ tags # Unset THEN Match(tags, ref.name, FALSE)
    ELSE "no"

----------------------------------------------------------------------------
\* Properties, of the nodes b and t of branches: and tags: and of a ref

Accepted(n) == Unmarshal(n).kind # "invalid"

\* What README.md:161-162 says of a node, without its errors.
Selects(n, s) ==
    \/ n.kind = "list" /\ \E k \in DOMAIN n.items : <<n.items[k], s>> \in Matches
    \/ /\ n.kind = "map"
       /\ \E k \in DOMAIN Value(n, "include") : <<Value(n, "include")[k], s>> \in Matches
       /\ \A k \in DOMAIN Value(n, "exclude") : <<Value(n, "exclude")[k], s>> \notin Matches
IsEmpty(n) == n.kind = "list" /\ n.items = <<>>

\* A file that parses builds the refs README.md:161-162 says: all branches or
\* the selected ones, no tags or the selected ones, and never HEAD.
BuildsWhatIsMeant(b, t, ref) ==
    Accepted(b) /\ Accepted(t) =>
        (ShouldBuildRef(Unmarshal(b), Unmarshal(t), ref) = "yes" <=>
            \/ /\ ref.kind = "branch" /\ ref.name # HEAD
               /\ b.kind = "absent" \/ IsEmpty(b) \/ Selects(b, ref.name)
            \/ ref.kind = "tag" /\ Selects(t, ref.name))

\* A step without filters always runs; one with filters runs on what they
\* select, so one with tags: alone never runs on a branch, nor the other way
\* round (the comment of ShouldRunRef).
RunsWhatIsMeant(b, t, ref) ==
    Accepted(b) /\ Accepted(t) =>
        (ShouldRunRef(Unmarshal(b), Unmarshal(t), ref) = "yes" <=>
            \/ b.kind = "absent" /\ t.kind = "absent"
            \/ /\ ref.kind = "branch" /\ ref.name # HEAD
               /\ IsEmpty(b) \/ Selects(b, ref.name)
            \/ ref.kind = "tag" /\ Selects(t, ref.name))

\* A file that parses never fails on a ref later: a glob that doublestar
\* rejects is found when the commit's file is read, not in the middle of a
\* build (builder.go has error paths for both).
NoLateError(b, t, ref) ==
    Accepted(b) /\ Accepted(t) =>
        /\ ShouldBuildRef(Unmarshal(b), Unmarshal(t), ref) # "error"
        /\ ShouldRunRef(Unmarshal(b), Unmarshal(t), ref) # "error"

====

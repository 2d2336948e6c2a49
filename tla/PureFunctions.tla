---- MODULE PureFunctions ----
(***************************************************************************)
(* The functions that have no state of their own, asked about any input: a *)
(* step picks one, and the properties are about the one at hand.           *)
(***************************************************************************)
EXTENDS RefFilter, BuildTargets, ReportText

CONSTANTS
    Nodes, FewNodes,    \* nodes of branches: and tags: (one is of FewNodes)
    Refs,               \* refs of a repository
    Tables,             \* tables of builds
    Arguments,          \* arguments of logs, cancel and retry
    Newcomers,          \* builds that a table may gain
    NameLengths, ErrorLengths, IdLengths,   \* parts of a description
    HeadLengths, TailLengths, SkipLengths   \* parts of the text of a check run

ASSUME TablesAssumption ==
    /\ Arguments \subseteq Text
    /\ \A table \in Tables : \A b \in table : b.id \in Text /\ b.sha \in Text
ASSUME LengthsAssumption ==
    NameLengths \cup ErrorLengths \cup IdLengths
        \cup HeadLengths \cup TailLengths \cup SkipLengths \subseteq Nat

VARIABLE input

----------------------------------------------------------------------------
Init == input = [about |-> "nothing"]

PickFilter ==
    \E b \in Nodes, t \in FewNodes, swap \in BOOLEAN, ref \in Refs :
        input' = [about |-> "filter", b |-> IF swap THEN t ELSE b,
                  t |-> IF swap THEN b ELSE t, ref |-> ref]

PickTarget ==
    \E table \in Tables, s \in Arguments :
        /\ \A b, c \in table : b.id = c.id => b = c
        /\ input' = [about |-> "target", table |-> table, s |-> s]

PickDescription ==
    \E name \in NameLengths, err \in ErrorLengths, id \in IdLengths :
        input' = [about |-> "description", name |-> name, err |-> err, id |-> id]

PickText ==
    \E head \in HeadLengths, tail \in TailLengths, skip \in SkipLengths, n \in 0..1 :
        input' = [about |-> "text", head |-> head, tail |-> tail, skip |-> skip,
                  newline |-> n]

Next ==
    /\ input.about = "nothing"
    /\ PickFilter \/ PickTarget \/ PickDescription \/ PickText

Spec == Init /\ [][Next]_input

----------------------------------------------------------------------------
\* The properties of the functions, of the input at hand

\* BuildsWhatIsMeant, RunsWhatIsMeant, NoLateError: which refs a file builds
\* (README.md:161-162) and a step runs on, and that no glob of a file that
\* parses fails during a build.
FiltersDecideAsMeant ==
    input.about = "filter" =>
        /\ BuildsWhatIsMeant(input.b, input.t, input.ref)
        /\ RunsWhatIsMeant(input.b, input.t, input.ref)
        /\ NoLateError(input.b, input.t, input.ref)

\* NamesNoOther: a new build never takes over a prefix that named another.
PrefixesAreStable ==
    input.about = "target" =>
        \A new \in Newcomers : NamesNoOther(input.table, input.s, new)

\* LogsFindNamed, CancelFindsRunning: logs and retry find what the argument
\* names, and cancel the running build of a commit.
TargetsAreFound ==
    input.about = "target" =>
        /\ LogsFindNamed(input.table, input.s)
        /\ CancelFindsRunning(input.table, input.s)

\* DescriptionFits, FenceIsClosed: the description of a commit status and its
\* hint, and the text of a failed build's check run.
TextsFit ==
    /\ input.about = "description" => DescriptionFits(input.name, input.err, input.id)
    /\ input.about = "text" =>
           FenceIsClosed(input.head, input.tail, input.skip, input.newline)

====

---- MODULE MCFunctions ----
(***************************************************************************)
(* PureFunctions over every input of bounded size.                         *)
(***************************************************************************)
EXTENDS PureFunctions, TLC

----------------------------------------------------------------------------
\* Nodes of .shitty-ci.yml: lists of up to two elements, mappings of up to
\* two keys (also twice the same one) with lists of up to one element.
MCNames == {"main", "v1"}
MCGlobs == {"m*", "**", "["}
MCValid == {"m*", "**"}
MCMatches == {<<"m*", "main">>, <<"**", "main">>, <<"**", "v1">>}

SeqsUpTo(S, n) == UNION {[1..k -> S] : k \in 0..n}
Node(kind, items, pairs) == [kind |-> kind, items |-> items, pairs |-> pairs]
Leaf(kind) == Node(kind, <<>>, <<>>)
List(n) == {Node("list", items, <<>>) : items \in SeqsUpTo(MCGlobs \cup {Nested}, n)}
Pair == [key : {"include", "exclude", "only"},
         value : List(1) \cup {Leaf("null"), Leaf("scalar")}]
MCNodes == List(2) \cup {Leaf("absent"), Leaf("scalar")}
         \cup {Node("map", <<>>, pairs) : pairs \in SeqsUpTo(Pair, 2)}
MCFewNodes == {Leaf("absent"), Node("list", <<"m*">>, <<>>)}
MCRefs == [kind : {"branch", "tag", "other"}, name : MCNames \cup {HEAD}]

----------------------------------------------------------------------------
\* Tables of two builds with ids of three characters and two commits.
MCHex == {"a", "A", "b"}
MCLower == [c \in {"a", "A", "b", "_"} |-> IF c = "A" THEN "a" ELSE c]

Builds == [id : [1..3 -> {"a", "b"}], sha : {<<"a", "b", "b">>, <<"b", "b", "a">>},
           at : 1..2, running : BOOLEAN]
MCTables == {{}} \cup {{b} : b \in Builds}
          \cup {{b, c} : b \in {d \in Builds : d.at = 1}, c \in Builds}
MCArguments == SeqsUpTo({"a", "A", "_"}, 3) \cup SeqsUpTo({"a", "b"}, 3)
MCNewcomers == {b \in Builds : b.at = 2 /\ b.running}

----------------------------------------------------------------------------
\* Lengths around the limits: 140 runes with a hint of 18 and an id of 32, a
\* text of 65535 bytes of which ten are reserved.
MCNameLengths == {0, 1, 4, 40, 88, 89, 90, 91, 139, 140, 141}
MCErrorLengths == {0, 1, 15, 73, 84, 85, 86, 200}
MCIdLengths == {0, 8, 32, 113, 114, 115, 122, 123}
MCHeadLengths == {0, 200, 2300, 65524, 65525, 65526, 70000}
MCTailLengths == {0, 1, 48000, 63225, 63226, 65335, 65536}
MCSkipLengths == {0, 1, 80, 65535}

====

----------------------------- MODULE MCWebPages -----------------------------
(***************************************************************************)
(* An instance of WebPages for TLC.                                        *)
(***************************************************************************)
EXTENDS WebPages, TLC

\* Two files that can be selected together, and a folder beside them that
\* holds a file of each name.
MCPlaces == {<<"b">>, <<"c">>, <<"d">>, <<"d", "b">>, <<"d", "c">>, <<"b copy">>, <<"c copy">>}
MCTree == [p \in MCPlaces |-> CASE p = <<"d">> -> "dir"
                                [] p \in {<<"b copy">>, <<"c copy">>} -> Nothing
                                [] OTHER -> "file"]
B == [path |-> <<"b">>, dir |-> FALSE]
C == [path |-> <<"c">>, dir |-> FALSE]
D == [path |-> <<"d">>, dir |-> TRUE]
MCSelections == {<<B, C>>, <<D>>}
MCTyped == {<<"d">>, <<"c">>, <<>>}
MCCopies == [n \in {"b", "c", "d"} |-> CASE n = "b" -> <<"b copy">>
                                         [] n = "c" -> <<"c copy">>
                                         [] n = "d" -> <<>>]
Slot == Permutations(Mutations)

\* A file and one that is not there yet.
MCFirstText == [x \in {"f", "g"} |-> IF x = "f" THEN "t1" ELSE Nothing]

\* Short texts with matches that touch, overlap and cross a line, in either case; one
\* whose lines end with two characters, and a character that is two in lower case;
\* fields with every character the table format treats apart.
MCLower == [c \in {"A", "I"} |-> IF c = "A" THEN <<"a">> ELSE <<"i", "a">>]
MCSources ==
  {[raw |-> <<"a", "A", "a", "b">>, rendered |-> <<"a", "b", "A">>],
   [raw |-> <<"b", "a", "\n", "a", "A">>, rendered |-> <<"a", "a", "A", "a">>],
   [raw |-> <<"a", "\r", "\n", "a", "A">>, rendered |-> <<"I", "a", "a">>],
   [raw |-> <<"a", "I", "a">>, rendered |-> <<"b", "a", "a">>]}
Odd == {<<>>, <<",">>, <<"\"">>, <<"\n", "x">>}
MCRows ==
  {<<f>> : f \in Odd \cup {<<"x">>, <<";">>}} \cup {<<f, g>> : f \in Odd, g \in {<<"x">>, <<";">>}}
  \cup {<< <<"x", "x", "x">> >>, << <<"x">>, <<>>, <<"x">> >>}

MCNeedles == {<<>>, <<"A">>, <<"a", "A">>, <<"I">>}

\* A folder and one beneath it; the first has a hidden entry that is neither file nor
\* folder, and both have one that a search of the first finds.
MCBelow == [x \in {"p", "q"} |-> IF x = "p" THEN {"p", "q"} ELSE {"q"}]
MCOrder == <<<<"p", "a">>, <<"q", "a">>, <<"p", "b">>, <<"p", "s">>>>
MCListed == ToSet(MCOrder)

\* Of two paths that can be favourites, one is.
MCSettings == [theme |-> "light", rest |-> "r1", favorites |-> {"a"}, labels |-> {"a"}]
=============================================================================

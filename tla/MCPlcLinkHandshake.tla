------------------------- MODULE MCPlcLinkHandshake -------------------------
(***************************************************************************)
(* Instances of PlcLinkHandshake for TLC.                                  *)
(***************************************************************************)
EXTENDS PlcLinkHandshake, TLC

CONSTANTS a, b, i, j, s1, s2

OneSequence == {s1}
TwoSequences == {s1, s2}

\* Plain and ignored commands are interchangeable within their kind; the
\* sequences always are.
TwoCommands == {a, i}
ThreeCommands == {a, b, i}
FourCommands == {a, b, i, j}
OneIgnored == {i}
TwoIgnored == {i, j}
Symmetric == Permutations({a, b}) \cup Permutations({i, j})
             \cup Permutations({s1, s2})
=============================================================================

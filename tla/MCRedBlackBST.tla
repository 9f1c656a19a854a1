--------------------------- MODULE MCRedBlackBST ---------------------------
(* Trees of up to MaxKeys keys: three levels of nodes, and so many keys that *)
(* an ArrayDeque grows twice, and shrinks when they are taken out. A key is  *)
(* the number of a text; the texts are compared by strCmp, in an order that  *)
(* is not that of their numbers.                                             *)
EXTENDS RedBlackBST

CONSTANT MaxKeys

MCKeys == 1 .. MaxKeys

Texts == << <<2>>, <<1, 2>>, <<>>, <<2, 1>>, <<1>>, <<1, 1, 1>>, <<2, 2>> >>

Order == [a \in MCKeys |-> [b \in MCKeys |-> strCmp(Texts[a], Texts[b])]]

\* The tree never looks at a value.
MCSymmetry == Permutations(Vals)

MCCompare(a, b) == Order[a][b]

\* Any texts of up to three bytes, and any identifiers.
ASSUME StrCmpIsAnOrder == IsOrderOf(strCmp, UNION {[1 .. n -> 1 .. 2] : n \in 0 .. 3})
ASSUME IntCmpIsAnOrder == IsOrderOf(IntCmp, 0 .. 9)

=============================================================================

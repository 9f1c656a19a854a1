------------------------------ MODULE KeyOrders ------------------------------
(***************************************************************************)
(* The functions that trees and sorted arrays compare their elements with: *)
(* strCmp of util/util.cpp (names, labels, and through filterCmp the texts *)
(* of filters) and IntCmp of dnsQueue.h (identifiers). A text is a         *)
(* sequence of numbers, its bytes before the one that ends it.             *)
(***************************************************************************)
EXTENDS Integers, Sequences

\* Faulty variant of strCmp: texts of different lengths are compared as far as
\* the shorter one goes.
strCmpPrefix(a, b) ==
    LET differ == {i \in (DOMAIN a) \cap (DOMAIN b) : a[i] # b[i]} IN
    IF differ = {} THEN 0
    ELSE LET i == CHOOSE i \in differ : \A j \in differ : i <= j
         IN  IF a[i] < b[i] THEN -1 ELSE 1

\* Shorter texts first; the first byte that differs decides between equally
\* long ones.
strCmp(a, b) ==
    LET differ == {i \in (DOMAIN a) \cap (DOMAIN b) : a[i] # b[i]}
    IN  CASE Len(a) # Len(b) -> IF Len(a) < Len(b) THEN -1 ELSE 1
          [] Len(a) = Len(b) /\ differ = {} -> 0
          [] OTHER -> LET i == CHOOSE i \in differ : \A j \in differ : i <= j
                      IN  IF a[i] < b[i] THEN -1 ELSE 1

filterCmp(pA, pB) == strCmp(pA.m_pText, pB.m_pText)

IntCmp(a, b) == IF a < b THEN -1 ELSE IF a = b THEN 0 ELSE 1

\* What a tree needs of the function it is constructed with: only an element
\* and itself are equal, and the others are in one line.
IsOrderOf(cmp(_, _), S) ==
    \A a, b \in S :
        /\ (cmp(a, b) = 0) = (a = b)
        /\ (cmp(a, b) < 0) = (cmp(b, a) > 0)
        /\ \A c \in S : cmp(a, b) < 0 /\ cmp(b, c) < 0 => cmp(a, c) < 0

=============================================================================

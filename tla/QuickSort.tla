------------------------------ MODULE QuickSort ------------------------------
(***************************************************************************)
(* mlib/quicksort.h, with which the filter lists are sorted. An array is a *)
(* sequence of elements that comparator puts in an order.                  *)
(***************************************************************************)
EXTENDS Integers, Sequences, SequencesExt, FiniteSetsExt

CONSTANT comparator(_, _)    \* < 0, 0 or > 0

\* The partition: from both ends to the next elements that are on the wrong
\* side of the pivot, which trade places.
RECURSIVE Partition(_, _, _, _)
Partition(arr, i, j, pivot) ==
    IF i > j THEN [arr |-> arr, i |-> i, j |-> j]
    ELSE LET up == Min({k \in i .. Len(arr) : comparator(arr[k], pivot) >= 0})
             down == Max({k \in 1 .. j : comparator(arr[k], pivot) <= 0})
         IN  IF up > down THEN [arr |-> arr, i |-> up, j |-> down]
             ELSE Partition([arr EXCEPT ![up] = arr[down], ![down] = arr[up]],
                            up + 1, down - 1, pivot)

\* Positions are 1-based, so that the middle is rounded down from one less.
RECURSIVE quickSort(_, _, _)
quickSort(arr, left, right) ==
    LET p == Partition(arr, left, right, arr[1 + (left + right - 2) \div 2])
        lower == IF left < p.j THEN quickSort(p.arr, left, p.j) ELSE p.arr
    IN  IF p.i < right THEN quickSort(lower, p.i, right) ELSE lower

\* The same elements, in order. (An index that left the array would be an error
\* of evaluation.)
Sorts(arrays) ==
    \A arr \in arrays :
        LET sorted == quickSort(arr, 1, Len(arr)) IN
        /\ ToBag(sorted) = ToBag(arr)
        /\ \A k \in 1 .. Len(arr) - 1 : comparator(sorted[k], sorted[k + 1]) <= 0

=============================================================================

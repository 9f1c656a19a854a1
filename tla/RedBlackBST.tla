----------------------------- MODULE RedBlackBST -----------------------------
(***************************************************************************)
(* mlib/RedBlackBST.h, the left-leaning red-black tree that holds pending  *)
(* queries, cached answers, local records and the offsets of labels, and   *)
(* the way it is swept: the keys that are to go are first collected in an  *)
(* ArrayDeque, then deleted one by one. CCache::RemoveExpired reads them   *)
(* one after the other, CDnsQueue::ForEachExpired takes them out.          *)
(*                                                                         *)
(* A node is a record and a pointer the node it points to; no node has two *)
(* pointers to it.                                                         *)
(***************************************************************************)
EXTENDS KeyOrders, SequencesExt

CONSTANTS Keys, Vals,
    compare(_, _),    \* < 0, 0 or > 0: what the tree is constructed with
    MIN_ARRAY_SIZE    \* 4 in the code; a power of two

\* The pointer 0.
NIL == <<>>

ASSUME TreeConstants ==
    /\ IsFiniteSet(Keys)
    /\ \A a, b \in Keys : compare(a, b) \in Int
    /\ IsOrderOf(compare, Keys)
    /\ MIN_ARRAY_SIZE \in Nat \ {0}
    /\ NIL \notin Vals

VARIABLE m_pRoot

\* No way down is longer than there are keys.
MaxDepth == Cardinality(Keys)

\* The trees of at most n levels.
Trees[n \in 0 .. MaxDepth] ==
    IF n = 0 THEN {NIL}
    ELSE LET below == Trees[n - 1] IN
         {NIL} \cup [m_Key : Keys, m_Val : Vals, m_pLeft : below, m_pRight : below,
                     m_Color : BOOLEAN, m_N : Nat]

\* What a function of the code that calls itself for a node below, or a loop
\* that goes on with one, comes to at h: atNil where no node is left, and
\* Step(x, below) at the node x, where below[y] is what it comes to at y.
Walk(h, atNil, Step(_, _)) ==
    LET call[n \in 0 .. MaxDepth] ==
            [x \in Trees[n] |-> IF x = NIL THEN atNil ELSE Step(x, call[n - 1])]
    IN  call[MaxDepth][h]

IsRed(x) == x # NIL /\ x.m_Color
Size(x) == IF x = NIL THEN 0 ELSE x.m_N
NewNode(key, val) ==
    [m_Key |-> key, m_Val |-> val, m_pLeft |-> NIL, m_pRight |-> NIL, m_Color |-> TRUE, m_N |-> 1]

GetNode(n, key) ==
    Walk(n, NIL, LAMBDA x, get :
        LET cmp == compare(key, x.m_Key) IN
        IF cmp = 0 THEN x ELSE get[IF cmp < 0 THEN x.m_pLeft ELSE x.m_pRight])

ContainsKey(x, key) == GetNode(x, key) # NIL

\* NIL, the 0 of the code, when the key is not there.
Get(x, key) == LET n == GetNode(x, key) IN IF n = NIL THEN NIL ELSE n.m_Val

\* Faulty variant of Counted: leaves the count as it was.
CountedBefore(h) == h

Counted(h) == [h EXCEPT !.m_N = Size(h.m_pLeft) + Size(h.m_pRight) + 1]

RotateRight(h) ==
    LET x == h.m_pLeft IN
    [x EXCEPT !.m_pRight = Counted([h EXCEPT !.m_pLeft = x.m_pRight, !.m_Color = TRUE]),
              !.m_Color = h.m_Color, !.m_N = h.m_N]

RotateLeft(h) ==
    LET x == h.m_pRight IN
    [x EXCEPT !.m_pLeft = Counted([h EXCEPT !.m_pRight = x.m_pLeft, !.m_Color = TRUE]),
              !.m_Color = h.m_Color, !.m_N = h.m_N]

FlipColors(h) ==
    [h EXCEPT !.m_Color = ~@, !.m_pLeft.m_Color = ~@, !.m_pRight.m_Color = ~@]

-----------------------------------------------------------------------------
(* Put and Balance: the same three corrections, on the way up              *)

LeanLeft(h) == IF IsRed(h.m_pRight) THEN RotateLeft(h) ELSE h

\* Faulty variant of NoTwoReds: looks at the wrong side.
NoTwoRedsRight(h) == IF IsRed(h.m_pLeft) /\ IsRed(h.m_pLeft.m_pRight) THEN RotateRight(h) ELSE h

NoTwoReds(h) == IF IsRed(h.m_pLeft) /\ IsRed(h.m_pLeft.m_pLeft) THEN RotateRight(h) ELSE h

NoRedTwins(h) == IF IsRed(h.m_pLeft) /\ IsRed(h.m_pRight) THEN FlipColors(h) ELSE h

Balance(h) == Counted(NoRedTwins(NoTwoReds(LeanLeft(h))))

\* PutInNode, unlike Balance, does not rotate a red right child with a red twin.
BalancePut(h) ==
    Counted(NoRedTwins(NoTwoReds(IF IsRed(h.m_pLeft) THEN h ELSE LeanLeft(h))))

PutInNode(h, key, val) ==
    Walk(h, NewNode(key, val), LAMBDA x, put :
        LET cmp == compare(key, x.m_Key) IN
        BalancePut(IF cmp > 0 THEN [x EXCEPT !.m_pRight = put[@]]
                   ELSE IF cmp < 0 THEN [x EXCEPT !.m_pLeft = put[@]]
                   ELSE [x EXCEPT !.m_Val = val]))

Blackened(h) == IF h = NIL THEN NIL ELSE [h EXCEPT !.m_Color = FALSE]

-----------------------------------------------------------------------------
(* DeleteKey                                                               *)

MoveRedRight(h) ==
    LET f == FlipColors(h) IN
    IF IsRed(f.m_pLeft.m_pLeft) THEN FlipColors(RotateRight(f)) ELSE f

MoveRedLeft(h) ==
    LET f == FlipColors(h) IN
    IF IsRed(f.m_pRight.m_pLeft)
    THEN FlipColors(RotateLeft([f EXCEPT !.m_pRight = RotateRight(@)]))
    ELSE f

\* No red link on the way to the left, or to the right, of h.
NoRedLeft(h) == ~IsRed(h.m_pLeft) /\ ~IsRed(h.m_pLeft.m_pLeft)
NoRedRight(h) == ~IsRed(h.m_pRight) /\ ~IsRed(h.m_pRight.m_pLeft)

\* x with a red link on its left, if it was not red nor the one below it.
ReadyLeft(x) == IF NoRedLeft(x) THEN MoveRedLeft(x) ELSE x
ReadyRight(x) == IF NoRedRight(x) THEN MoveRedRight(x) ELSE x

\* These two are called with a node.
MinNode(n) ==
    Walk(n, NIL, LAMBDA x, min : IF x.m_pLeft = NIL THEN x ELSE min[x.m_pLeft])

DeleteMin(h) ==
    Walk(h, NIL, LAMBDA x, delete :
        IF x.m_pLeft = NIL THEN NIL ELSE Balance([ReadyLeft(x) EXCEPT !.m_pLeft = delete[@]]))

\* Faulty variant of TakeOver: the value stays.
TakeOverKey(h, x) == [h EXCEPT !.m_Key = x.m_Key]

TakeOver(h, x) == [h EXCEPT !.m_Key = x.m_Key, !.m_Val = x.m_Val]

\* The key is below h: DeleteKey has looked.
DeleteKeyFromNode(h, key) ==
    Walk(h, NIL, LAMBDA x, delete :
        IF compare(key, x.m_Key) < 0
        THEN Balance([ReadyLeft(x) EXCEPT !.m_pLeft = delete[@]])
        ELSE LET r == IF IsRed(x.m_pLeft) THEN RotateRight(x) ELSE x
                 m == ReadyRight(r)
             IN  IF compare(key, r.m_Key) = 0 /\ r.m_pRight = NIL THEN NIL
                 ELSE IF compare(key, m.m_Key) = 0
                 THEN Balance([TakeOver(m, MinNode(m.m_pRight)) EXCEPT !.m_pRight = DeleteMin(@)])
                 ELSE Balance([m EXCEPT !.m_pRight = delete[@]]))

Delete(root, key) ==
    IF ~ContainsKey(root, key) THEN root
    ELSE LET red == ~IsRed(root.m_pLeft) /\ ~IsRed(root.m_pRight) IN
         Blackened(DeleteKeyFromNode([root EXCEPT !.m_Color = @ \/ red], key))

-----------------------------------------------------------------------------
(* ArrayDeque, as far as it is used: Add, At and Dequeue                   *)

NewDeque == [m_pArray |-> [i \in 0 .. MIN_ARRAY_SIZE - 1 |-> NIL], m_ArraySize |-> MIN_ARRAY_SIZE,
             m_First |-> 0, m_Size |-> 0]

\* The place of the item i of the deque in the array.
Place(d, i) == LET p == d.m_First + i IN IF p >= d.m_ArraySize THEN p - d.m_ArraySize ELSE p

Resize(d, size) ==
    IF size <= MIN_ARRAY_SIZE \/ size = d.m_ArraySize THEN d
    ELSE [d EXCEPT !.m_pArray = [i \in 0 .. size - 1 |-> IF i < d.m_Size THEN d.m_pArray[Place(d, i)]
                                                         ELSE NIL],
                   !.m_ArraySize = size, !.m_First = 0]

Enqueue(d, item) ==
    LET e == [d EXCEPT !.m_pArray[Place(d, d.m_Size)] = item, !.m_Size = @ + 1]
    IN  IF e.m_Size = e.m_ArraySize THEN Resize(e, 2 * e.m_ArraySize) ELSE e

FrontOf(d) == d.m_pArray[d.m_First]
Dequeue(d) ==
    LET e == [d EXCEPT !.m_Size = @ - 1,
                       !.m_First = IF @ + 1 >= d.m_ArraySize THEN 0 ELSE @ + 1]
    IN  IF e.m_Size < e.m_ArraySize \div 4 THEN Resize(e, e.m_ArraySize \div 2) ELSE e

\* Reads m_pArray[i], not the place of i: m_First is 0 where nothing is taken out.
At(d, i) == IF i > d.m_Size THEN NIL ELSE d.m_pArray[i]

-----------------------------------------------------------------------------

\* The keys a consumer is called with by ForEach, in the order of the calls.
Consume(n) ==
    Walk(n, <<>>, LAMBDA x, keys : keys[x.m_pLeft] \o <<x.m_Key>> \o keys[x.m_pRight])

\* The keys in K that the tree holds, added from the right to the left.
Collect(root, K) ==
    LET keys == Consume(root)
        list[i \in 0 .. Len(keys)] ==
            IF i = 0 THEN NewDeque
            ELSE LET key == keys[Len(keys) - i + 1]
                     before == list[i - 1]
                 IN  IF key \in K THEN Enqueue(before, key) ELSE before
    IN  list[Len(keys)]

PutRoot(root, key, val) == Blackened(PutInNode(root, key, val))

\* The keys collected are deleted one by one.
Sweep(root, K) ==
    LET list == Collect(root, K)
        swept[i \in 0 .. list.m_Size] ==
            IF i = 0 THEN root ELSE Delete(swept[i - 1], At(list, i - 1))
    IN  swept[list.m_Size]

\* They are taken out of the list one by one, until it is empty, and deleted.
SweepOut(root, K) ==
    LET list == Collect(root, K)
        swept[i \in 0 .. list.m_Size] ==
            IF i = 0 THEN [tree |-> root, list |-> list]
            ELSE LET s == swept[i - 1] IN
                 [tree |-> Delete(s.tree, FrontOf(s.list)), list |-> Dequeue(s.list)]
    IN  swept[list.m_Size].tree

TreeInit == m_pRoot = NIL

Put(key, val) == m_pRoot' = PutRoot(m_pRoot, key, val)
DeleteKey(key) == m_pRoot' = Delete(m_pRoot, key)
RemoveExpired(K) == m_pRoot' = Sweep(m_pRoot, K)
ForEachExpired(K) == m_pRoot' = SweepOut(m_pRoot, K)
Clear == m_pRoot' = NIL

NodesOf(n) == Walk(n, {}, LAMBDA x, nodes : {x} \cup nodes[x.m_pLeft] \cup nodes[x.m_pRight])

KeysOf(x) == {n.m_Key : n \in NodesOf(x)}

TreeNext ==
    \/ \E key \in Keys, val \in Vals : Put(key, val)
    \/ \E key \in Keys : DeleteKey(key)
    \/ \E K \in SUBSET KeysOf(m_pRoot) : RemoveExpired(K)
    \/ \E K \in SUBSET KeysOf(m_pRoot) : ForEachExpired(K)
    \/ Clear

TreeSpec == TreeInit /\ [][TreeNext]_m_pRoot

-----------------------------------------------------------------------------

\* Numbers of black links on the ways from x to a NIL.
BlackHeights(n) ==
    Walk(n, {0}, LAMBDA x, heights :
        {(IF x.m_Color THEN 0 ELSE 1) + b : b \in heights[x.m_pLeft] \cup heights[x.m_pRight]})

\* Every node counts the nodes below it, itself included: Size(root), which
\* CDnsQueue::Enqueue compares with MAX_QUEUE_SIZE, is how many keys there are.
TreeTypeOK ==
    \A n \in NodesOf(m_pRoot) :
        /\ n.m_Key \in Keys /\ n.m_Val \in Vals /\ n.m_Color \in BOOLEAN
        /\ n.m_N = Cardinality(KeysOf(n))

\* After any sequence of Put, DeleteKey and sweeps the tree is a left-leaning
\* red-black tree, so that no way to a key is long: red links lean left, no two
\* follow each other, and all ways down have equally many black ones.
Balanced ==
    /\ ~IsRed(m_pRoot)
    /\ Cardinality(BlackHeights(m_pRoot)) = 1
    /\ \A n \in NodesOf(m_pRoot) : ~IsRed(n.m_pRight) /\ ~(IsRed(n) /\ IsRed(n.m_pLeft))

\* What Get finds.
Contents(root) == [key \in Keys |-> Get(root, key)]

\* The tree is the map that its users take it for: what Get finds for a key is
\* what was put last and not deleted since, whatever other keys were deleted,
\* moved to another node, or swept together with it; and ForEach comes to every
\* key once, in the order of compare (RedBlackBST.h and ArrayDeque.h).
IsMap ==
    LET map == Contents(m_pRoot)
        visited == Consume(m_pRoot)
    IN
    /\ ToSet(visited) = {key \in Keys : map[key] # NIL}
    /\ \A i \in 1 .. Len(visited) - 1 : compare(visited[i], visited[i + 1]) < 0
    /\ \A key \in Keys, val \in Vals : Contents(PutRoot(m_pRoot, key, val)) = [map EXCEPT ![key] = val]
    /\ \A key \in Keys : Contents(Delete(m_pRoot, key)) = [map EXCEPT ![key] = NIL]
    /\ \A K \in SUBSET KeysOf(m_pRoot) :
           LET rest == [key \in Keys |-> IF key \in K THEN NIL ELSE map[key]] IN
           Contents(Sweep(m_pRoot, K)) = rest /\ Contents(SweepOut(m_pRoot, K)) = rest

=============================================================================

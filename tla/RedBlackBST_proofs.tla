------------------------- MODULE RedBlackBST_proofs -------------------------
(***************************************************************************)
(* Proofs about RedBlackBST: whatever the keys, the values and their order *)
(* are, a tree of any size stays a left-leaning red-black tree that counts *)
(* its nodes, and is the map its users take it for.                        *)
(*                                                                         *)
(* The inductive invariant, TreeInv, says that m_pRoot is a Tree of some   *)
(* entries, with as many black links on every way down, and is black. The  *)
(* functions of the code that call themselves are Walks: their values for  *)
(* the trees of n levels are made from those for trees of n - 1, so what   *)
(* one step of each does, if the steps below it did it, holds by induction *)
(* on the levels (UpTo, applied to a set of numbers).                      *)
(***************************************************************************)
EXTENDS RedBlackBST, Library_proofs, TLAPS

-----------------------------------------------------------------------------
(* Levels of trees, and the functions that Walk makes of steps             *)

\* The nodes whose children are in T.
NodesOver(T) ==
    [m_Key : Keys, m_Val : Vals, m_pLeft : T, m_pRight : T, m_Color : BOOLEAN, m_N : Nat]

\* The node with these fields.
Mk(key, val, left, right, color, n) ==
    [m_Key |-> key, m_Val |-> val, m_pLeft |-> left, m_pRight |-> right, m_Color |-> color, m_N |-> n]

\* The keys are finitely many.
LEMMA DepthNat == MaxDepth \in Nat
BY TreeConstants, FS_CardinalityType DEF MaxDepth

\* No node is NIL.
LEMMA MkNotNil ==
    ASSUME NEW k, NEW v, NEW l, NEW r, NEW c, NEW n
    PROVE  Mk(k, v, l, r, c, n) # NIL
BY DEF Mk, NIL

\* A node is what its fields say.
LEMMA NodeFields ==
    ASSUME NEW T, NEW x \in NodesOver(T)
    PROVE  /\ x # NIL
           /\ x.m_Key \in Keys /\ x.m_Val \in Vals /\ x.m_pLeft \in T /\ x.m_pRight \in T
           /\ x.m_Color \in BOOLEAN /\ x.m_N \in Nat
           /\ x = Mk(x.m_Key, x.m_Val, x.m_pLeft, x.m_pRight, x.m_Color, x.m_N)
<1>1. /\ x.m_Key \in Keys /\ x.m_Val \in Vals /\ x.m_pLeft \in T /\ x.m_pRight \in T
      /\ x.m_Color \in BOOLEAN /\ x.m_N \in Nat
  BY DEF NodesOver
<1>2. x = Mk(x.m_Key, x.m_Val, x.m_pLeft, x.m_pRight, x.m_Color, x.m_N)
  BY DEF NodesOver, Mk
<1> QED  BY <1>1, <1>2, MkNotNil

\* f has the levels 0 .. k of Trees.
TreeLevels(f, k) ==
    f = [n \in 0 .. k |-> IF n = 0 THEN {NIL}
                          ELSE LET below == f[n - 1] IN
                               {NIL} \cup [m_Key : Keys, m_Val : Vals, m_pLeft : below, m_pRight : below,
                                           m_Color : BOOLEAN, m_N : Nat]]

\* g is a function on 0 .. k + 1: f, and z at k + 1.
Longer(g, f, z, k) ==
    /\ g = [n \in 0 .. k + 1 |-> g[n]]
    /\ g[k + 1] = z
    /\ \A n \in 0 .. k : g[n] = f[n]

\* A function on 0 .. k and one more value.
LEMMA OneMoreLevel ==
    ASSUME NEW k \in Nat, NEW f, NEW z
    PROVE  \E g : Longer(g, f, z, k)
<1>1. PICK g : g = [n \in 0 .. k + 1 |-> IF n = k + 1 THEN z ELSE f[n]]
  OBVIOUS
<1>2. g[k + 1] = z /\ \A n \in 0 .. k : g[n] = f[n]
  BY <1>1
<1>3. g = [n \in 0 .. k + 1 |-> g[n]]
  BY <1>1
<1> QED  BY <1>2, <1>3 DEF Longer

\* Trees is defined on all its levels.
LEMMA TreesExist == \E f : TreeLevels(f, MaxDepth)
<1> DEFINE T == {k \in 0 .. MaxDepth : \E f : TreeLevels(f, k)}
<1>1. 0 \in T
  <2>1. PICK f : f = [n \in 0 .. 0 |-> {NIL}]
    OBVIOUS
  <2>2. TreeLevels(f, 0)
    BY <2>1 DEF TreeLevels
  <2> QED  BY <2>2, DepthNat
<1>2. ASSUME NEW k \in 0 .. MaxDepth - 1, k \in T PROVE k + 1 \in T
  <2>0. k \in Nat /\ k + 1 \in 0 .. MaxDepth
    BY DepthNat
  <2>1. PICK f : TreeLevels(f, k)
    BY <1>2
  <2>2. \A n \in 0 .. k : f[n] = IF n = 0 THEN {NIL} ELSE {NIL} \cup NodesOver(f[n - 1])
    BY <2>1 DEF TreeLevels, NodesOver
  <2>3. PICK g : Longer(g, f, {NIL} \cup NodesOver(f[k]), k)
    BY <2>0, OneMoreLevel
  <2>7. g[k + 1] = {NIL} \cup NodesOver(f[k]) /\ \A n \in 0 .. k : g[n] = f[n]
    BY <2>3 DEF Longer
  <2>8. g = [n \in 0 .. k + 1 |-> g[n]]
    BY <2>3 DEF Longer
  <2>4. ASSUME NEW n \in 0 .. k + 1
        PROVE  g[n] = IF n = 0 THEN {NIL} ELSE {NIL} \cup NodesOver(g[n - 1])
    <3>1. CASE n = k + 1
      <4>1. n - 1 = k /\ n # 0 /\ g[k] = f[k]
        BY <3>1, <2>0, <2>7
      <4> QED  BY <3>1, <4>1, <2>7
    <3>2. CASE n = 0
      <4>1. 0 \in 0 .. k
        BY <2>0
      <4>2. g[0] = f[0] /\ f[0] = {NIL}
        BY <4>1, <2>2, <2>7
      <4> QED  BY <3>2, <4>2
    <3>3. CASE n \in 1 .. k
      <4>1. n \in 0 .. k /\ n - 1 \in 0 .. k /\ n # 0
        BY <3>3, <2>0
      <4> QED  BY <4>1, <2>2, <2>7
    <3> QED  BY <3>1, <3>2, <3>3, <2>0
  <2>5. g = [n \in 0 .. k + 1 |-> IF n = 0 THEN {NIL} ELSE {NIL} \cup NodesOver(g[n - 1])]
    BY <2>8, <2>4
  <2>6. TreeLevels(g, k + 1)
    BY <2>5 DEF TreeLevels, NodesOver
  <2> QED  BY <2>0, <2>6
<1>3. \A k \in 0 .. MaxDepth : k \in T
  <2> HIDE DEF T
  <2> QED  BY <1>1, <1>2, UpTo, DepthNat
<1> QED  BY <1>3, DepthNat

\* The levels of Trees.
LEMMA TreesIs ==
    /\ Trees[0] = {NIL}
    /\ \A n \in 1 .. MaxDepth : Trees[n] = {NIL} \cup NodesOver(Trees[n - 1])
<1> DEFINE f == CHOOSE f : TreeLevels(f, MaxDepth)
<1>1. TreeLevels(f, MaxDepth)
  BY TreesExist
<1>2. Trees = f
  BY Zenon DEF Trees, TreeLevels
<1>3. TreeLevels(Trees, MaxDepth)
  BY <1>1, <1>2
<1>6. PICK t : t = Trees
  OBVIOUS
<1>5. TreeLevels(t, MaxDepth)
  BY <1>3, <1>6
<1>4. \A n \in 0 .. MaxDepth : t[n] = IF n = 0 THEN {NIL} ELSE {NIL} \cup NodesOver(t[n - 1])
  BY <1>5 DEF TreeLevels, NodesOver
<1>7. t[0] = {NIL}
  <2>1. 0 \in 0 .. MaxDepth
    BY DepthNat
  <2> QED  BY <2>1, <1>4
<1>8. ASSUME NEW n \in 1 .. MaxDepth PROVE t[n] = {NIL} \cup NodesOver(t[n - 1])
  <2>1. n \in 0 .. MaxDepth /\ n # 0
    BY DepthNat
  <2> QED  BY <2>1, <1>4
<1> QED  BY <1>6, <1>7, <1>8

\* A tree has as many levels, or more.
LEMMA TreesGrow ==
    ASSUME NEW n \in 0 .. MaxDepth, NEW m \in 0 .. n
    PROVE  Trees[m] \subseteq Trees[n]
<1> DEFINE T == {k \in 0 .. MaxDepth : NIL \in Trees[k] /\ (k < MaxDepth => Trees[k] \subseteq Trees[k + 1])}
<1>1. 0 \in T
  BY TreesIs, DepthNat
<1>2. ASSUME NEW k \in 0 .. MaxDepth - 1, k \in T PROVE k + 1 \in T
  <2>0. k + 1 \in 1 .. MaxDepth /\ (k + 1) - 1 = k /\ (k + 1 < MaxDepth => k + 2 \in 1 .. MaxDepth)
        /\ (k + 2) - 1 = k + 1 /\ (k + 1) + 1 = k + 2
    BY DepthNat
  <2>1. Trees[k + 1] = {NIL} \cup NodesOver(Trees[k])
    BY <2>0, TreesIs
  <2>2. Trees[k] \subseteq Trees[k + 1]
    BY <1>2, DepthNat
  <2>3. NodesOver(Trees[k]) \subseteq NodesOver(Trees[k + 1])
    BY <2>2 DEF NodesOver
  <2>4. CASE k + 1 < MaxDepth
    <3>1. Trees[k + 2] = {NIL} \cup NodesOver(Trees[k + 1])
      BY <2>0, <2>4, TreesIs
    <3>2. Trees[k + 1] \subseteq Trees[k + 2]
      BY <3>1, <2>1, <2>3
    <3> QED  BY <3>2, <2>0, <2>1
  <2> QED  BY <2>0, <2>1, <2>4
<1>3. \A k \in 0 .. MaxDepth : k \in T
  <2> HIDE DEF T
  <2> QED  BY <1>1, <1>2, UpTo, DepthNat
<1> DEFINE U == {k \in 0 .. MaxDepth : m <= k => Trees[m] \subseteq Trees[k]}
<1>4. 0 \in U
  BY DepthNat
<1>5. ASSUME NEW k \in 0 .. MaxDepth - 1, k \in U PROVE k + 1 \in U
  <2>1. Trees[k] \subseteq Trees[k + 1]
    BY <1>3, DepthNat
  <2>2. CASE m <= k
    BY <2>1, <2>2, <1>5, DepthNat
  <2>3. CASE m = k + 1
    BY <2>3, DepthNat
  <2>4. CASE m > k + 1
    BY <2>4, DepthNat
  <2> QED  BY <2>2, <2>3, <2>4, DepthNat
<1>6. \A k \in 0 .. MaxDepth : k \in U
  <2> HIDE DEF U
  <2> QED  BY <1>4, <1>5, UpTo, DepthNat
<1> QED  BY <1>6

\* The step of NodesOf(h) at the node x.
NodesStep(x, below) ==
    {x} \cup below[x.m_pLeft] \cup below[x.m_pRight]

\* The values of NodesOf(h) for trees of n levels, from those for trees of fewer.
NodesLevel(below, n) ==
    [x \in Trees[n] |-> IF x = NIL THEN {} ELSE NodesStep(x, below)]

\* f has the values of NodesOf(h) for trees of 0, 1, .., k levels.
NodesLevels(f, k) == f = [n \in 0 .. k |-> NodesLevel(f[n - 1], n)]

\* NodesOf(h) is defined for trees of all levels.
LEMMA NodesExists ==
    \E f : NodesLevels(f, MaxDepth)
<1> DEFINE T == {k \in 0 .. MaxDepth : \E f : NodesLevels(f, k)}
<1>1. 0 \in T
  <2>1. \A g, h : NodesLevel(g, 0) = NodesLevel(h, 0)
    BY TreesIs DEF NodesLevel
  <2>2. PICK f : f = [n \in 0 .. 0 |-> NodesLevel(NIL, 0)]
    OBVIOUS
  <2>3. \A n \in 0 .. 0 : n = 0
    OBVIOUS
  <2>4. \A n \in 0 .. 0 : NodesLevel(NIL, 0) = NodesLevel(f[n - 1], n)
    BY <2>1, <2>3, Zenon
  <2>5. NodesLevels(f, 0)
    BY <2>2, <2>4 DEF NodesLevels
  <2> QED  BY <2>5, DepthNat
<1>2. ASSUME NEW k \in 0 .. MaxDepth - 1, k \in T PROVE k + 1 \in T
  <2>0. k \in Nat /\ k + 1 \in 0 .. MaxDepth
    BY DepthNat
  <2>1. PICK f : NodesLevels(f, k)
    BY <1>2
  <2>2. \A n \in 0 .. k : f[n] = NodesLevel(f[n - 1], n)
    BY <2>1 DEF NodesLevels
  <2>3. PICK g : Longer(g, f, NodesLevel(f[k], k + 1), k)
    BY <2>0, OneMoreLevel
  <2>4. g[k + 1] = NodesLevel(f[k], k + 1) /\ \A n \in 0 .. k : g[n] = f[n]
    BY <2>3 DEF Longer
  <2>5. ASSUME NEW n \in 0 .. k + 1
        PROVE  g[n] = NodesLevel(g[n - 1], n)
    <3>1. CASE n = k + 1
      <4>1. n - 1 = k /\ g[k] = f[k]
        BY <3>1, <2>0, <2>4
      <4> QED  BY <3>1, <4>1, <2>4
    <3>2. CASE n = 0
      <4>1. NodesLevel(f[0 - 1], 0) = NodesLevel(g[0 - 1], 0)
        BY TreesIs DEF NodesLevel
      <4>2. 0 \in 0 .. k
        BY <2>0
      <4>3. g[0] = f[0] /\ f[0] = NodesLevel(f[0 - 1], 0)
        BY <4>2, <2>2, <2>4
      <4> QED  BY <3>2, <4>1, <4>3
    <3>3. CASE n \in 1 .. k
      <4>1. n \in 0 .. k /\ n - 1 \in 0 .. k
        BY <3>3, <2>0
      <4> QED  BY <4>1, <2>2, <2>4
    <3> QED  BY <3>1, <3>2, <3>3, <2>0
  <2>6. g = [n \in 0 .. k + 1 |-> g[n]]
    BY <2>3 DEF Longer
  <2>7. NodesLevels(g, k + 1)
    BY <2>5, <2>6 DEF NodesLevels
  <2> QED  BY <2>0, <2>7
<1>3. \A k \in 0 .. MaxDepth : k \in T
  <2> HIDE DEF T
  <2> QED  BY <1>1, <1>2, UpTo, DepthNat
<1> QED  BY <1>3, DepthNat

\* NodesOf(h), as the last of its levels.
LEMMA NodesIs ==
    \E f : /\ \A h : NodesOf(h) = f[MaxDepth][h]
         /\ \A n \in 0 .. MaxDepth : \A x \in Trees[n] :
                f[n][x] = IF x = NIL THEN {} ELSE NodesStep(x, f[n - 1])
<1> DEFINE f == CHOOSE f : NodesLevels(f, MaxDepth)
<1>1. NodesLevels(f, MaxDepth)
  BY NodesExists
<1>2. \A h : NodesOf(h) = f[MaxDepth][h]
  BY Zenon DEF NodesOf, Walk, NodesLevels, NodesLevel, NodesStep
<1>3. PICK w : w = f
  OBVIOUS
<1> HIDE DEF f
<1>4. NodesLevels(w, MaxDepth)
  BY <1>1, <1>3
<1>5. \A n \in 0 .. MaxDepth : w[n] = NodesLevel(w[n - 1], n)
  BY <1>4 DEF NodesLevels
<1>6. \A n \in 0 .. MaxDepth : \A x \in Trees[n] :
        w[n][x] = IF x = NIL THEN {} ELSE NodesStep(x, w[n - 1])
  BY <1>5 DEF NodesLevel
<1> QED  BY <1>2, <1>3, <1>6

\* The step of BlackHeights(h) at the node x.
HeightsStep(x, below) ==
    {(IF x.m_Color THEN 0 ELSE 1) + b : b \in below[x.m_pLeft] \cup below[x.m_pRight]}

\* The values of BlackHeights(h) for trees of n levels, from those for trees of fewer.
HeightsLevel(below, n) ==
    [x \in Trees[n] |-> IF x = NIL THEN {0} ELSE HeightsStep(x, below)]

\* f has the values of BlackHeights(h) for trees of 0, 1, .., k levels.
HeightsLevels(f, k) == f = [n \in 0 .. k |-> HeightsLevel(f[n - 1], n)]

\* BlackHeights(h) is defined for trees of all levels.
LEMMA HeightsExists ==
    \E f : HeightsLevels(f, MaxDepth)
<1> DEFINE T == {k \in 0 .. MaxDepth : \E f : HeightsLevels(f, k)}
<1>1. 0 \in T
  <2>1. \A g, h : HeightsLevel(g, 0) = HeightsLevel(h, 0)
    BY TreesIs DEF HeightsLevel
  <2>2. PICK f : f = [n \in 0 .. 0 |-> HeightsLevel(NIL, 0)]
    OBVIOUS
  <2>3. \A n \in 0 .. 0 : n = 0
    OBVIOUS
  <2>4. \A n \in 0 .. 0 : HeightsLevel(NIL, 0) = HeightsLevel(f[n - 1], n)
    BY <2>1, <2>3, Zenon
  <2>5. HeightsLevels(f, 0)
    BY <2>2, <2>4 DEF HeightsLevels
  <2> QED  BY <2>5, DepthNat
<1>2. ASSUME NEW k \in 0 .. MaxDepth - 1, k \in T PROVE k + 1 \in T
  <2>0. k \in Nat /\ k + 1 \in 0 .. MaxDepth
    BY DepthNat
  <2>1. PICK f : HeightsLevels(f, k)
    BY <1>2
  <2>2. \A n \in 0 .. k : f[n] = HeightsLevel(f[n - 1], n)
    BY <2>1 DEF HeightsLevels
  <2>3. PICK g : Longer(g, f, HeightsLevel(f[k], k + 1), k)
    BY <2>0, OneMoreLevel
  <2>4. g[k + 1] = HeightsLevel(f[k], k + 1) /\ \A n \in 0 .. k : g[n] = f[n]
    BY <2>3 DEF Longer
  <2>5. ASSUME NEW n \in 0 .. k + 1
        PROVE  g[n] = HeightsLevel(g[n - 1], n)
    <3>1. CASE n = k + 1
      <4>1. n - 1 = k /\ g[k] = f[k]
        BY <3>1, <2>0, <2>4
      <4> QED  BY <3>1, <4>1, <2>4
    <3>2. CASE n = 0
      <4>1. HeightsLevel(f[0 - 1], 0) = HeightsLevel(g[0 - 1], 0)
        BY TreesIs DEF HeightsLevel
      <4>2. 0 \in 0 .. k
        BY <2>0
      <4>3. g[0] = f[0] /\ f[0] = HeightsLevel(f[0 - 1], 0)
        BY <4>2, <2>2, <2>4
      <4> QED  BY <3>2, <4>1, <4>3
    <3>3. CASE n \in 1 .. k
      <4>1. n \in 0 .. k /\ n - 1 \in 0 .. k
        BY <3>3, <2>0
      <4> QED  BY <4>1, <2>2, <2>4
    <3> QED  BY <3>1, <3>2, <3>3, <2>0
  <2>6. g = [n \in 0 .. k + 1 |-> g[n]]
    BY <2>3 DEF Longer
  <2>7. HeightsLevels(g, k + 1)
    BY <2>5, <2>6 DEF HeightsLevels
  <2> QED  BY <2>0, <2>7
<1>3. \A k \in 0 .. MaxDepth : k \in T
  <2> HIDE DEF T
  <2> QED  BY <1>1, <1>2, UpTo, DepthNat
<1> QED  BY <1>3, DepthNat

\* BlackHeights(h), as the last of its levels.
LEMMA HeightsIs ==
    \E f : /\ \A h : BlackHeights(h) = f[MaxDepth][h]
         /\ \A n \in 0 .. MaxDepth : \A x \in Trees[n] :
                f[n][x] = IF x = NIL THEN {0} ELSE HeightsStep(x, f[n - 1])
<1> DEFINE f == CHOOSE f : HeightsLevels(f, MaxDepth)
<1>1. HeightsLevels(f, MaxDepth)
  BY HeightsExists
<1>2. \A h : BlackHeights(h) = f[MaxDepth][h]
  BY Zenon DEF BlackHeights, Walk, HeightsLevels, HeightsLevel, HeightsStep
<1>3. PICK w : w = f
  OBVIOUS
<1> HIDE DEF f
<1>4. HeightsLevels(w, MaxDepth)
  BY <1>1, <1>3
<1>5. \A n \in 0 .. MaxDepth : w[n] = HeightsLevel(w[n - 1], n)
  BY <1>4 DEF HeightsLevels
<1>6. \A n \in 0 .. MaxDepth : \A x \in Trees[n] :
        w[n][x] = IF x = NIL THEN {0} ELSE HeightsStep(x, w[n - 1])
  BY <1>5 DEF HeightsLevel
<1> QED  BY <1>2, <1>3, <1>6

\* The step of GetNode(h, key) at the node x.
GetStep(x, below, key) ==
    LET cmp == compare(key, x.m_Key) IN
    IF cmp = 0 THEN x ELSE below[IF cmp < 0 THEN x.m_pLeft ELSE x.m_pRight]

\* The values of GetNode(h, key) for trees of n levels, from those for trees of fewer.
GetLevel(below, n, key) ==
    [x \in Trees[n] |-> IF x = NIL THEN NIL ELSE GetStep(x, below, key)]

\* f has the values of GetNode(h, key) for trees of 0, 1, .., k levels.
GetLevels(f, k, key) == f = [n \in 0 .. k |-> GetLevel(f[n - 1], n, key)]

\* GetNode(h, key) is defined for trees of all levels.
LEMMA GetExists ==
    ASSUME NEW key
    PROVE  \E f : GetLevels(f, MaxDepth, key)
<1> DEFINE T == {k \in 0 .. MaxDepth : \E f : GetLevels(f, k, key)}
<1>1. 0 \in T
  <2>1. \A g, h : GetLevel(g, 0, key) = GetLevel(h, 0, key)
    BY TreesIs DEF GetLevel
  <2>2. PICK f : f = [n \in 0 .. 0 |-> GetLevel(NIL, 0, key)]
    OBVIOUS
  <2>3. \A n \in 0 .. 0 : n = 0
    OBVIOUS
  <2>4. \A n \in 0 .. 0 : GetLevel(NIL, 0, key) = GetLevel(f[n - 1], n, key)
    BY <2>1, <2>3, Zenon
  <2>5. GetLevels(f, 0, key)
    BY <2>2, <2>4 DEF GetLevels
  <2> QED  BY <2>5, DepthNat
<1>2. ASSUME NEW k \in 0 .. MaxDepth - 1, k \in T PROVE k + 1 \in T
  <2>0. k \in Nat /\ k + 1 \in 0 .. MaxDepth
    BY DepthNat
  <2>1. PICK f : GetLevels(f, k, key)
    BY <1>2
  <2>2. \A n \in 0 .. k : f[n] = GetLevel(f[n - 1], n, key)
    BY <2>1 DEF GetLevels
  <2>3. PICK g : Longer(g, f, GetLevel(f[k], k + 1, key), k)
    BY <2>0, OneMoreLevel
  <2>4. g[k + 1] = GetLevel(f[k], k + 1, key) /\ \A n \in 0 .. k : g[n] = f[n]
    BY <2>3 DEF Longer
  <2>5. ASSUME NEW n \in 0 .. k + 1
        PROVE  g[n] = GetLevel(g[n - 1], n, key)
    <3>1. CASE n = k + 1
      <4>1. n - 1 = k /\ g[k] = f[k]
        BY <3>1, <2>0, <2>4
      <4> QED  BY <3>1, <4>1, <2>4
    <3>2. CASE n = 0
      <4>1. GetLevel(f[0 - 1], 0, key) = GetLevel(g[0 - 1], 0, key)
        BY TreesIs DEF GetLevel
      <4>2. 0 \in 0 .. k
        BY <2>0
      <4>3. g[0] = f[0] /\ f[0] = GetLevel(f[0 - 1], 0, key)
        BY <4>2, <2>2, <2>4
      <4> QED  BY <3>2, <4>1, <4>3
    <3>3. CASE n \in 1 .. k
      <4>1. n \in 0 .. k /\ n - 1 \in 0 .. k
        BY <3>3, <2>0
      <4> QED  BY <4>1, <2>2, <2>4
    <3> QED  BY <3>1, <3>2, <3>3, <2>0
  <2>6. g = [n \in 0 .. k + 1 |-> g[n]]
    BY <2>3 DEF Longer
  <2>7. GetLevels(g, k + 1, key)
    BY <2>5, <2>6 DEF GetLevels
  <2> QED  BY <2>0, <2>7
<1>3. \A k \in 0 .. MaxDepth : k \in T
  <2> HIDE DEF T
  <2> QED  BY <1>1, <1>2, UpTo, DepthNat
<1> QED  BY <1>3, DepthNat

\* GetNode(h, key), as the last of its levels.
LEMMA GetIs ==
    ASSUME NEW key
    PROVE  \E f : /\ \A h : GetNode(h, key) = f[MaxDepth][h]
         /\ \A n \in 0 .. MaxDepth : \A x \in Trees[n] :
                f[n][x] = IF x = NIL THEN NIL ELSE GetStep(x, f[n - 1], key)
<1> DEFINE f == CHOOSE f : GetLevels(f, MaxDepth, key)
<1>1. GetLevels(f, MaxDepth, key)
  BY GetExists
<1>2. \A h : GetNode(h, key) = f[MaxDepth][h]
  BY Zenon DEF GetNode, Walk, GetLevels, GetLevel, GetStep
<1>3. PICK w : w = f
  OBVIOUS
<1> HIDE DEF f
<1>4. GetLevels(w, MaxDepth, key)
  BY <1>1, <1>3
<1>5. \A n \in 0 .. MaxDepth : w[n] = GetLevel(w[n - 1], n, key)
  BY <1>4 DEF GetLevels
<1>6. \A n \in 0 .. MaxDepth : \A x \in Trees[n] :
        w[n][x] = IF x = NIL THEN NIL ELSE GetStep(x, w[n - 1], key)
  BY <1>5 DEF GetLevel
<1> QED  BY <1>2, <1>3, <1>6

\* The step of PutInNode(h, key, val) at the node x.
PutStep(x, below, key, val) ==
    LET cmp == compare(key, x.m_Key) IN
    BalancePut(IF cmp > 0 THEN [x EXCEPT !.m_pRight = below[@]]
               ELSE IF cmp < 0 THEN [x EXCEPT !.m_pLeft = below[@]]
               ELSE [x EXCEPT !.m_Val = val])

\* The values of PutInNode(h, key, val) for trees of n levels, from those for trees of fewer.
PutLevel(below, n, key, val) ==
    [x \in Trees[n] |-> IF x = NIL THEN NewNode(key, val) ELSE PutStep(x, below, key, val)]

\* f has the values of PutInNode(h, key, val) for trees of 0, 1, .., k levels.
PutLevels(f, k, key, val) == f = [n \in 0 .. k |-> PutLevel(f[n - 1], n, key, val)]

\* PutInNode(h, key, val) is defined for trees of all levels.
LEMMA PutExists ==
    ASSUME NEW key, NEW val
    PROVE  \E f : PutLevels(f, MaxDepth, key, val)
<1> DEFINE T == {k \in 0 .. MaxDepth : \E f : PutLevels(f, k, key, val)}
<1>1. 0 \in T
  <2>1. \A g, h : PutLevel(g, 0, key, val) = PutLevel(h, 0, key, val)
    BY TreesIs DEF PutLevel
  <2>2. PICK f : f = [n \in 0 .. 0 |-> PutLevel(NIL, 0, key, val)]
    OBVIOUS
  <2>3. \A n \in 0 .. 0 : n = 0
    OBVIOUS
  <2>4. \A n \in 0 .. 0 : PutLevel(NIL, 0, key, val) = PutLevel(f[n - 1], n, key, val)
    BY <2>1, <2>3, Zenon
  <2>5. PutLevels(f, 0, key, val)
    BY <2>2, <2>4 DEF PutLevels
  <2> QED  BY <2>5, DepthNat
<1>2. ASSUME NEW k \in 0 .. MaxDepth - 1, k \in T PROVE k + 1 \in T
  <2>0. k \in Nat /\ k + 1 \in 0 .. MaxDepth
    BY DepthNat
  <2>1. PICK f : PutLevels(f, k, key, val)
    BY <1>2
  <2>2. \A n \in 0 .. k : f[n] = PutLevel(f[n - 1], n, key, val)
    BY <2>1 DEF PutLevels
  <2>3. PICK g : Longer(g, f, PutLevel(f[k], k + 1, key, val), k)
    BY <2>0, OneMoreLevel
  <2>4. g[k + 1] = PutLevel(f[k], k + 1, key, val) /\ \A n \in 0 .. k : g[n] = f[n]
    BY <2>3 DEF Longer
  <2>5. ASSUME NEW n \in 0 .. k + 1
        PROVE  g[n] = PutLevel(g[n - 1], n, key, val)
    <3>1. CASE n = k + 1
      <4>1. n - 1 = k /\ g[k] = f[k]
        BY <3>1, <2>0, <2>4
      <4> QED  BY <3>1, <4>1, <2>4
    <3>2. CASE n = 0
      <4>1. PutLevel(f[0 - 1], 0, key, val) = PutLevel(g[0 - 1], 0, key, val)
        BY TreesIs DEF PutLevel
      <4>2. 0 \in 0 .. k
        BY <2>0
      <4>3. g[0] = f[0] /\ f[0] = PutLevel(f[0 - 1], 0, key, val)
        BY <4>2, <2>2, <2>4
      <4> QED  BY <3>2, <4>1, <4>3
    <3>3. CASE n \in 1 .. k
      <4>1. n \in 0 .. k /\ n - 1 \in 0 .. k
        BY <3>3, <2>0
      <4> QED  BY <4>1, <2>2, <2>4
    <3> QED  BY <3>1, <3>2, <3>3, <2>0
  <2>6. g = [n \in 0 .. k + 1 |-> g[n]]
    BY <2>3 DEF Longer
  <2>7. PutLevels(g, k + 1, key, val)
    BY <2>5, <2>6 DEF PutLevels
  <2> QED  BY <2>0, <2>7
<1>3. \A k \in 0 .. MaxDepth : k \in T
  <2> HIDE DEF T
  <2> QED  BY <1>1, <1>2, UpTo, DepthNat
<1> QED  BY <1>3, DepthNat

\* PutInNode(h, key, val), as the last of its levels.
LEMMA PutIs ==
    ASSUME NEW key, NEW val
    PROVE  \E f : /\ \A h : PutInNode(h, key, val) = f[MaxDepth][h]
         /\ \A n \in 0 .. MaxDepth : \A x \in Trees[n] :
                f[n][x] = IF x = NIL THEN NewNode(key, val) ELSE PutStep(x, f[n - 1], key, val)
<1> DEFINE f == CHOOSE f : PutLevels(f, MaxDepth, key, val)
<1>1. PutLevels(f, MaxDepth, key, val)
  BY PutExists
<1>2. \A h : PutInNode(h, key, val) = f[MaxDepth][h]
  BY Zenon DEF PutInNode, Walk, PutLevels, PutLevel, PutStep
<1>3. PICK w : w = f
  OBVIOUS
<1> HIDE DEF f
<1>4. PutLevels(w, MaxDepth, key, val)
  BY <1>1, <1>3
<1>5. \A n \in 0 .. MaxDepth : w[n] = PutLevel(w[n - 1], n, key, val)
  BY <1>4 DEF PutLevels
<1>6. \A n \in 0 .. MaxDepth : \A x \in Trees[n] :
        w[n][x] = IF x = NIL THEN NewNode(key, val) ELSE PutStep(x, w[n - 1], key, val)
  BY <1>5 DEF PutLevel
<1> QED  BY <1>2, <1>3, <1>6

\* The step of MinNode(h) at the node x.
MinStep(x, below) ==
    IF x.m_pLeft = NIL THEN x ELSE below[x.m_pLeft]

\* The values of MinNode(h) for trees of n levels, from those for trees of fewer.
MinLevel(below, n) ==
    [x \in Trees[n] |-> IF x = NIL THEN NIL ELSE MinStep(x, below)]

\* f has the values of MinNode(h) for trees of 0, 1, .., k levels.
MinLevels(f, k) == f = [n \in 0 .. k |-> MinLevel(f[n - 1], n)]

\* MinNode(h) is defined for trees of all levels.
LEMMA MinExists ==
    \E f : MinLevels(f, MaxDepth)
<1> DEFINE T == {k \in 0 .. MaxDepth : \E f : MinLevels(f, k)}
<1>1. 0 \in T
  <2>1. \A g, h : MinLevel(g, 0) = MinLevel(h, 0)
    BY TreesIs DEF MinLevel
  <2>2. PICK f : f = [n \in 0 .. 0 |-> MinLevel(NIL, 0)]
    OBVIOUS
  <2>3. \A n \in 0 .. 0 : n = 0
    OBVIOUS
  <2>4. \A n \in 0 .. 0 : MinLevel(NIL, 0) = MinLevel(f[n - 1], n)
    BY <2>1, <2>3, Zenon
  <2>5. MinLevels(f, 0)
    BY <2>2, <2>4 DEF MinLevels
  <2> QED  BY <2>5, DepthNat
<1>2. ASSUME NEW k \in 0 .. MaxDepth - 1, k \in T PROVE k + 1 \in T
  <2>0. k \in Nat /\ k + 1 \in 0 .. MaxDepth
    BY DepthNat
  <2>1. PICK f : MinLevels(f, k)
    BY <1>2
  <2>2. \A n \in 0 .. k : f[n] = MinLevel(f[n - 1], n)
    BY <2>1 DEF MinLevels
  <2>3. PICK g : Longer(g, f, MinLevel(f[k], k + 1), k)
    BY <2>0, OneMoreLevel
  <2>4. g[k + 1] = MinLevel(f[k], k + 1) /\ \A n \in 0 .. k : g[n] = f[n]
    BY <2>3 DEF Longer
  <2>5. ASSUME NEW n \in 0 .. k + 1
        PROVE  g[n] = MinLevel(g[n - 1], n)
    <3>1. CASE n = k + 1
      <4>1. n - 1 = k /\ g[k] = f[k]
        BY <3>1, <2>0, <2>4
      <4> QED  BY <3>1, <4>1, <2>4
    <3>2. CASE n = 0
      <4>1. MinLevel(f[0 - 1], 0) = MinLevel(g[0 - 1], 0)
        BY TreesIs DEF MinLevel
      <4>2. 0 \in 0 .. k
        BY <2>0
      <4>3. g[0] = f[0] /\ f[0] = MinLevel(f[0 - 1], 0)
        BY <4>2, <2>2, <2>4
      <4> QED  BY <3>2, <4>1, <4>3
    <3>3. CASE n \in 1 .. k
      <4>1. n \in 0 .. k /\ n - 1 \in 0 .. k
        BY <3>3, <2>0
      <4> QED  BY <4>1, <2>2, <2>4
    <3> QED  BY <3>1, <3>2, <3>3, <2>0
  <2>6. g = [n \in 0 .. k + 1 |-> g[n]]
    BY <2>3 DEF Longer
  <2>7. MinLevels(g, k + 1)
    BY <2>5, <2>6 DEF MinLevels
  <2> QED  BY <2>0, <2>7
<1>3. \A k \in 0 .. MaxDepth : k \in T
  <2> HIDE DEF T
  <2> QED  BY <1>1, <1>2, UpTo, DepthNat
<1> QED  BY <1>3, DepthNat

\* MinNode(h), as the last of its levels.
LEMMA MinIs ==
    \E f : /\ \A h : MinNode(h) = f[MaxDepth][h]
         /\ \A n \in 0 .. MaxDepth : \A x \in Trees[n] :
                f[n][x] = IF x = NIL THEN NIL ELSE MinStep(x, f[n - 1])
<1> DEFINE f == CHOOSE f : MinLevels(f, MaxDepth)
<1>1. MinLevels(f, MaxDepth)
  BY MinExists
<1>2. \A h : MinNode(h) = f[MaxDepth][h]
  BY Zenon DEF MinNode, Walk, MinLevels, MinLevel, MinStep
<1>3. PICK w : w = f
  OBVIOUS
<1> HIDE DEF f
<1>4. MinLevels(w, MaxDepth)
  BY <1>1, <1>3
<1>5. \A n \in 0 .. MaxDepth : w[n] = MinLevel(w[n - 1], n)
  BY <1>4 DEF MinLevels
<1>6. \A n \in 0 .. MaxDepth : \A x \in Trees[n] :
        w[n][x] = IF x = NIL THEN NIL ELSE MinStep(x, w[n - 1])
  BY <1>5 DEF MinLevel
<1> QED  BY <1>2, <1>3, <1>6

\* The step of DeleteMin(h) at the node x.
DeleteMinStep(x, below) ==
    IF x.m_pLeft = NIL THEN NIL ELSE Balance([ReadyLeft(x) EXCEPT !.m_pLeft = below[@]])

\* The values of DeleteMin(h) for trees of n levels, from those for trees of fewer.
DeleteMinLevel(below, n) ==
    [x \in Trees[n] |-> IF x = NIL THEN NIL ELSE DeleteMinStep(x, below)]

\* f has the values of DeleteMin(h) for trees of 0, 1, .., k levels.
DeleteMinLevels(f, k) == f = [n \in 0 .. k |-> DeleteMinLevel(f[n - 1], n)]

\* DeleteMin(h) is defined for trees of all levels.
LEMMA DeleteMinExists ==
    \E f : DeleteMinLevels(f, MaxDepth)
<1> DEFINE T == {k \in 0 .. MaxDepth : \E f : DeleteMinLevels(f, k)}
<1>1. 0 \in T
  <2>1. \A g, h : DeleteMinLevel(g, 0) = DeleteMinLevel(h, 0)
    BY TreesIs DEF DeleteMinLevel
  <2>2. PICK f : f = [n \in 0 .. 0 |-> DeleteMinLevel(NIL, 0)]
    OBVIOUS
  <2>3. \A n \in 0 .. 0 : n = 0
    OBVIOUS
  <2>4. \A n \in 0 .. 0 : DeleteMinLevel(NIL, 0) = DeleteMinLevel(f[n - 1], n)
    BY <2>1, <2>3, Zenon
  <2>5. DeleteMinLevels(f, 0)
    BY <2>2, <2>4 DEF DeleteMinLevels
  <2> QED  BY <2>5, DepthNat
<1>2. ASSUME NEW k \in 0 .. MaxDepth - 1, k \in T PROVE k + 1 \in T
  <2>0. k \in Nat /\ k + 1 \in 0 .. MaxDepth
    BY DepthNat
  <2>1. PICK f : DeleteMinLevels(f, k)
    BY <1>2
  <2>2. \A n \in 0 .. k : f[n] = DeleteMinLevel(f[n - 1], n)
    BY <2>1 DEF DeleteMinLevels
  <2>3. PICK g : Longer(g, f, DeleteMinLevel(f[k], k + 1), k)
    BY <2>0, OneMoreLevel
  <2>4. g[k + 1] = DeleteMinLevel(f[k], k + 1) /\ \A n \in 0 .. k : g[n] = f[n]
    BY <2>3 DEF Longer
  <2>5. ASSUME NEW n \in 0 .. k + 1
        PROVE  g[n] = DeleteMinLevel(g[n - 1], n)
    <3>1. CASE n = k + 1
      <4>1. n - 1 = k /\ g[k] = f[k]
        BY <3>1, <2>0, <2>4
      <4> QED  BY <3>1, <4>1, <2>4
    <3>2. CASE n = 0
      <4>1. DeleteMinLevel(f[0 - 1], 0) = DeleteMinLevel(g[0 - 1], 0)
        BY TreesIs DEF DeleteMinLevel
      <4>2. 0 \in 0 .. k
        BY <2>0
      <4>3. g[0] = f[0] /\ f[0] = DeleteMinLevel(f[0 - 1], 0)
        BY <4>2, <2>2, <2>4
      <4> QED  BY <3>2, <4>1, <4>3
    <3>3. CASE n \in 1 .. k
      <4>1. n \in 0 .. k /\ n - 1 \in 0 .. k
        BY <3>3, <2>0
      <4> QED  BY <4>1, <2>2, <2>4
    <3> QED  BY <3>1, <3>2, <3>3, <2>0
  <2>6. g = [n \in 0 .. k + 1 |-> g[n]]
    BY <2>3 DEF Longer
  <2>7. DeleteMinLevels(g, k + 1)
    BY <2>5, <2>6 DEF DeleteMinLevels
  <2> QED  BY <2>0, <2>7
<1>3. \A k \in 0 .. MaxDepth : k \in T
  <2> HIDE DEF T
  <2> QED  BY <1>1, <1>2, UpTo, DepthNat
<1> QED  BY <1>3, DepthNat

\* DeleteMin(h), as the last of its levels.
LEMMA DeleteMinIs ==
    \E f : /\ \A h : DeleteMin(h) = f[MaxDepth][h]
         /\ \A n \in 0 .. MaxDepth : \A x \in Trees[n] :
                f[n][x] = IF x = NIL THEN NIL ELSE DeleteMinStep(x, f[n - 1])
<1> DEFINE f == CHOOSE f : DeleteMinLevels(f, MaxDepth)
<1>1. DeleteMinLevels(f, MaxDepth)
  BY DeleteMinExists
<1>2. \A h : DeleteMin(h) = f[MaxDepth][h]
  BY Zenon DEF DeleteMin, Walk, DeleteMinLevels, DeleteMinLevel, DeleteMinStep
<1>3. PICK w : w = f
  OBVIOUS
<1> HIDE DEF f
<1>4. DeleteMinLevels(w, MaxDepth)
  BY <1>1, <1>3
<1>5. \A n \in 0 .. MaxDepth : w[n] = DeleteMinLevel(w[n - 1], n)
  BY <1>4 DEF DeleteMinLevels
<1>6. \A n \in 0 .. MaxDepth : \A x \in Trees[n] :
        w[n][x] = IF x = NIL THEN NIL ELSE DeleteMinStep(x, w[n - 1])
  BY <1>5 DEF DeleteMinLevel
<1> QED  BY <1>2, <1>3, <1>6

\* The step of DeleteKeyFromNode(h, key) at the node x.
DeleteStep(x, below, key) ==
    IF compare(key, x.m_Key) < 0
    THEN Balance([ReadyLeft(x) EXCEPT !.m_pLeft = below[@]])
    ELSE LET r == IF IsRed(x.m_pLeft) THEN RotateRight(x) ELSE x
             m == ReadyRight(r)
         IN  IF compare(key, r.m_Key) = 0 /\ r.m_pRight = NIL THEN NIL
             ELSE IF compare(key, m.m_Key) = 0
             THEN Balance([TakeOver(m, MinNode(m.m_pRight)) EXCEPT !.m_pRight = DeleteMin(@)])
             ELSE Balance([m EXCEPT !.m_pRight = below[@]])

\* The values of DeleteKeyFromNode(h, key) for trees of n levels, from those for trees of fewer.
DeleteLevel(below, n, key) ==
    [x \in Trees[n] |-> IF x = NIL THEN NIL ELSE DeleteStep(x, below, key)]

\* f has the values of DeleteKeyFromNode(h, key) for trees of 0, 1, .., k levels.
DeleteLevels(f, k, key) == f = [n \in 0 .. k |-> DeleteLevel(f[n - 1], n, key)]

\* DeleteKeyFromNode(h, key) is defined for trees of all levels.
LEMMA DeleteExists ==
    ASSUME NEW key
    PROVE  \E f : DeleteLevels(f, MaxDepth, key)
<1> DEFINE T == {k \in 0 .. MaxDepth : \E f : DeleteLevels(f, k, key)}
<1>1. 0 \in T
  <2>1. \A g, h : DeleteLevel(g, 0, key) = DeleteLevel(h, 0, key)
    BY TreesIs DEF DeleteLevel
  <2>2. PICK f : f = [n \in 0 .. 0 |-> DeleteLevel(NIL, 0, key)]
    OBVIOUS
  <2>3. \A n \in 0 .. 0 : n = 0
    OBVIOUS
  <2>4. \A n \in 0 .. 0 : DeleteLevel(NIL, 0, key) = DeleteLevel(f[n - 1], n, key)
    BY <2>1, <2>3, Zenon
  <2>5. DeleteLevels(f, 0, key)
    BY <2>2, <2>4 DEF DeleteLevels
  <2> QED  BY <2>5, DepthNat
<1>2. ASSUME NEW k \in 0 .. MaxDepth - 1, k \in T PROVE k + 1 \in T
  <2>0. k \in Nat /\ k + 1 \in 0 .. MaxDepth
    BY DepthNat
  <2>1. PICK f : DeleteLevels(f, k, key)
    BY <1>2
  <2>2. \A n \in 0 .. k : f[n] = DeleteLevel(f[n - 1], n, key)
    BY <2>1 DEF DeleteLevels
  <2>3. PICK g : Longer(g, f, DeleteLevel(f[k], k + 1, key), k)
    BY <2>0, OneMoreLevel
  <2>4. g[k + 1] = DeleteLevel(f[k], k + 1, key) /\ \A n \in 0 .. k : g[n] = f[n]
    BY <2>3 DEF Longer
  <2>5. ASSUME NEW n \in 0 .. k + 1
        PROVE  g[n] = DeleteLevel(g[n - 1], n, key)
    <3>1. CASE n = k + 1
      <4>1. n - 1 = k /\ g[k] = f[k]
        BY <3>1, <2>0, <2>4
      <4> QED  BY <3>1, <4>1, <2>4
    <3>2. CASE n = 0
      <4>1. DeleteLevel(f[0 - 1], 0, key) = DeleteLevel(g[0 - 1], 0, key)
        BY TreesIs DEF DeleteLevel
      <4>2. 0 \in 0 .. k
        BY <2>0
      <4>3. g[0] = f[0] /\ f[0] = DeleteLevel(f[0 - 1], 0, key)
        BY <4>2, <2>2, <2>4
      <4> QED  BY <3>2, <4>1, <4>3
    <3>3. CASE n \in 1 .. k
      <4>1. n \in 0 .. k /\ n - 1 \in 0 .. k
        BY <3>3, <2>0
      <4> QED  BY <4>1, <2>2, <2>4
    <3> QED  BY <3>1, <3>2, <3>3, <2>0
  <2>6. g = [n \in 0 .. k + 1 |-> g[n]]
    BY <2>3 DEF Longer
  <2>7. DeleteLevels(g, k + 1, key)
    BY <2>5, <2>6 DEF DeleteLevels
  <2> QED  BY <2>0, <2>7
<1>3. \A k \in 0 .. MaxDepth : k \in T
  <2> HIDE DEF T
  <2> QED  BY <1>1, <1>2, UpTo, DepthNat
<1> QED  BY <1>3, DepthNat

\* DeleteKeyFromNode(h, key), as the last of its levels.
LEMMA DeleteIs ==
    ASSUME NEW key
    PROVE  \E f : /\ \A h : DeleteKeyFromNode(h, key) = f[MaxDepth][h]
         /\ \A n \in 0 .. MaxDepth : \A x \in Trees[n] :
                f[n][x] = IF x = NIL THEN NIL ELSE DeleteStep(x, f[n - 1], key)
<1> DEFINE f == CHOOSE f : DeleteLevels(f, MaxDepth, key)
<1>1. DeleteLevels(f, MaxDepth, key)
  BY DeleteExists
<1>2. \A h : DeleteKeyFromNode(h, key) = f[MaxDepth][h]
  BY Zenon DEF DeleteKeyFromNode, Walk, DeleteLevels, DeleteLevel, DeleteStep
<1>3. PICK w : w = f
  OBVIOUS
<1> HIDE DEF f
<1>4. DeleteLevels(w, MaxDepth, key)
  BY <1>1, <1>3
<1>5. \A n \in 0 .. MaxDepth : w[n] = DeleteLevel(w[n - 1], n, key)
  BY <1>4 DEF DeleteLevels
<1>6. \A n \in 0 .. MaxDepth : \A x \in Trees[n] :
        w[n][x] = IF x = NIL THEN NIL ELSE DeleteStep(x, w[n - 1], key)
  BY <1>5 DEF DeleteLevel
<1> QED  BY <1>2, <1>3, <1>6

\* The step of Consume(h) at the node x.
ConsumeStep(x, below) ==
    below[x.m_pLeft] \o <<x.m_Key>> \o below[x.m_pRight]

\* The values of Consume(h) for trees of n levels, from those for trees of fewer.
ConsumeLevel(below, n) ==
    [x \in Trees[n] |-> IF x = NIL THEN <<>> ELSE ConsumeStep(x, below)]

\* f has the values of Consume(h) for trees of 0, 1, .., k levels.
ConsumeLevels(f, k) == f = [n \in 0 .. k |-> ConsumeLevel(f[n - 1], n)]

\* Consume(h) is defined for trees of all levels.
LEMMA ConsumeExists ==
    \E f : ConsumeLevels(f, MaxDepth)
<1> DEFINE T == {k \in 0 .. MaxDepth : \E f : ConsumeLevels(f, k)}
<1>1. 0 \in T
  <2>1. \A g, h : ConsumeLevel(g, 0) = ConsumeLevel(h, 0)
    BY TreesIs DEF ConsumeLevel
  <2>2. PICK f : f = [n \in 0 .. 0 |-> ConsumeLevel(NIL, 0)]
    OBVIOUS
  <2>3. \A n \in 0 .. 0 : n = 0
    OBVIOUS
  <2>4. \A n \in 0 .. 0 : ConsumeLevel(NIL, 0) = ConsumeLevel(f[n - 1], n)
    BY <2>1, <2>3, Zenon
  <2>5. ConsumeLevels(f, 0)
    BY <2>2, <2>4 DEF ConsumeLevels
  <2> QED  BY <2>5, DepthNat
<1>2. ASSUME NEW k \in 0 .. MaxDepth - 1, k \in T PROVE k + 1 \in T
  <2>0. k \in Nat /\ k + 1 \in 0 .. MaxDepth
    BY DepthNat
  <2>1. PICK f : ConsumeLevels(f, k)
    BY <1>2
  <2>2. \A n \in 0 .. k : f[n] = ConsumeLevel(f[n - 1], n)
    BY <2>1 DEF ConsumeLevels
  <2>3. PICK g : Longer(g, f, ConsumeLevel(f[k], k + 1), k)
    BY <2>0, OneMoreLevel
  <2>4. g[k + 1] = ConsumeLevel(f[k], k + 1) /\ \A n \in 0 .. k : g[n] = f[n]
    BY <2>3 DEF Longer
  <2>5. ASSUME NEW n \in 0 .. k + 1
        PROVE  g[n] = ConsumeLevel(g[n - 1], n)
    <3>1. CASE n = k + 1
      <4>1. n - 1 = k /\ g[k] = f[k]
        BY <3>1, <2>0, <2>4
      <4> QED  BY <3>1, <4>1, <2>4
    <3>2. CASE n = 0
      <4>1. ConsumeLevel(f[0 - 1], 0) = ConsumeLevel(g[0 - 1], 0)
        BY TreesIs DEF ConsumeLevel
      <4>2. 0 \in 0 .. k
        BY <2>0
      <4>3. g[0] = f[0] /\ f[0] = ConsumeLevel(f[0 - 1], 0)
        BY <4>2, <2>2, <2>4
      <4> QED  BY <3>2, <4>1, <4>3
    <3>3. CASE n \in 1 .. k
      <4>1. n \in 0 .. k /\ n - 1 \in 0 .. k
        BY <3>3, <2>0
      <4> QED  BY <4>1, <2>2, <2>4
    <3> QED  BY <3>1, <3>2, <3>3, <2>0
  <2>6. g = [n \in 0 .. k + 1 |-> g[n]]
    BY <2>3 DEF Longer
  <2>7. ConsumeLevels(g, k + 1)
    BY <2>5, <2>6 DEF ConsumeLevels
  <2> QED  BY <2>0, <2>7
<1>3. \A k \in 0 .. MaxDepth : k \in T
  <2> HIDE DEF T
  <2> QED  BY <1>1, <1>2, UpTo, DepthNat
<1> QED  BY <1>3, DepthNat

\* Consume(h), as the last of its levels.
LEMMA ConsumeIs ==
    \E f : /\ \A h : Consume(h) = f[MaxDepth][h]
         /\ \A n \in 0 .. MaxDepth : \A x \in Trees[n] :
                f[n][x] = IF x = NIL THEN <<>> ELSE ConsumeStep(x, f[n - 1])
<1> DEFINE f == CHOOSE f : ConsumeLevels(f, MaxDepth)
<1>1. ConsumeLevels(f, MaxDepth)
  BY ConsumeExists
<1>2. \A h : Consume(h) = f[MaxDepth][h]
  BY Zenon DEF Consume, Walk, ConsumeLevels, ConsumeLevel, ConsumeStep
<1>3. PICK w : w = f
  OBVIOUS
<1> HIDE DEF f
<1>4. ConsumeLevels(w, MaxDepth)
  BY <1>1, <1>3
<1>5. \A n \in 0 .. MaxDepth : w[n] = ConsumeLevel(w[n - 1], n)
  BY <1>4 DEF ConsumeLevels
<1>6. \A n \in 0 .. MaxDepth : \A x \in Trees[n] :
        w[n][x] = IF x = NIL THEN <<>> ELSE ConsumeStep(x, w[n - 1])
  BY <1>5 DEF ConsumeLevel
<1> QED  BY <1>2, <1>3, <1>6

\* NIL is a tree of any number of levels.
LEMMA NilIsTree == \A n \in 0 .. MaxDepth : NIL \in Trees[n]
BY TreesIs, DepthNat

\* A node of n levels has trees of fewer below it.
LEMMA NodeBelow ==
    ASSUME NEW n \in 0 .. MaxDepth, NEW x \in Trees[n], x # NIL
    PROVE  /\ n \in 1 .. MaxDepth /\ n - 1 \in 0 .. MaxDepth
           /\ x \in NodesOver(Trees[n - 1])
           /\ x.m_pLeft \in Trees[n - 1] /\ x.m_pRight \in Trees[n - 1]
<1>1. n # 0
  BY TreesIs
<1>2. n \in 1 .. MaxDepth /\ n - 1 \in 0 .. MaxDepth
  BY <1>1, DepthNat
<1>3. x \in NodesOver(Trees[n - 1])
  BY <1>2, TreesIs
<1> QED  BY <1>2, <1>3, NodeFields

\* What is made of the values for the two sides is the same on all levels.
LEMMA SameOnLevels ==
    ASSUME NEW f, NEW z,
           \A n \in 0 .. MaxDepth : NIL \in Trees[n] /\ f[n][NIL] = z,
           \A m \in 1 .. MaxDepth, n \in 1 .. MaxDepth : \A x \in Trees[m] :
               x \in Trees[n] /\ x # NIL /\ f[m - 1][x.m_pLeft] = f[n - 1][x.m_pLeft]
               /\ f[m - 1][x.m_pRight] = f[n - 1][x.m_pRight] => f[m][x] = f[n][x]
    PROVE  \A n \in 0 .. MaxDepth : \A x \in Trees[n] : f[n][x] = f[MaxDepth][x]
<1> DEFINE T == {k \in 0 .. MaxDepth : \A n \in k .. MaxDepth : \A x \in Trees[k] : f[k][x] = f[n][x]}
<1>1. 0 \in T
  <2>1. 0 \in 0 .. MaxDepth /\ \A x \in Trees[0] : x = NIL
    BY DepthNat, TreesIs
  <2> QED  BY <2>1
<1>2. ASSUME NEW k \in 0 .. MaxDepth - 1, k \in T PROVE k + 1 \in T
  <2>1. k + 1 \in 0 .. MaxDepth /\ k + 1 \in 1 .. MaxDepth /\ (k + 1) - 1 = k
    BY DepthNat
  <2>2. ASSUME NEW n \in k + 1 .. MaxDepth, NEW x \in Trees[k + 1] PROVE f[k + 1][x] = f[n][x]
    <3>1. n \in 1 .. MaxDepth /\ n \in 0 .. MaxDepth /\ n - 1 \in k .. MaxDepth
      BY <2>1, DepthNat
    <3>2. CASE x = NIL
      BY <3>1, <3>2, <2>1
    <3>3. CASE x # NIL
      <4>1. x.m_pLeft \in Trees[k] /\ x.m_pRight \in Trees[k]
        BY <3>3, <2>1, NodeBelow
      <4>2. f[k][x.m_pLeft] = f[n - 1][x.m_pLeft] /\ f[k][x.m_pRight] = f[n - 1][x.m_pRight]
        BY <4>1, <3>1, <1>2
      <4>3. x \in Trees[n]
        <5>1. k + 1 \in 0 .. n
          BY <2>1, <3>1
        <5> QED  BY <5>1, <3>1, TreesGrow
      <4> QED  BY <4>2, <4>3, <3>1, <3>3, <2>1
    <3> QED  BY <3>2, <3>3
  <2> QED  BY <2>1, <2>2
<1>3. \A k \in 0 .. MaxDepth : k \in T
  <2> HIDE DEF T
  <2> QED  BY <1>1, <1>2, UpTo, DepthNat
<1> QED  BY <1>3, DepthNat

\* NodesOf of a tree, from those of its two sides.
LEMMA NodesOfNode ==
    /\ NodesOf(NIL) = {}
    /\ \A x \in Trees[MaxDepth] : x # NIL =>
           NodesOf(x) = {x} \cup NodesOf(x.m_pLeft) \cup NodesOf(x.m_pRight)
<1>1. PICK f : /\ \A h : NodesOf(h) = f[MaxDepth][h]
               /\ \A n \in 0 .. MaxDepth : \A x \in Trees[n] :
                      f[n][x] = IF x = NIL THEN {} ELSE NodesStep(x, f[n - 1])
  BY NodesIs
<1>2. \A n \in 0 .. MaxDepth : NIL \in Trees[n] /\ f[n][NIL] = {}
  BY <1>1, NilIsTree
<1>3. \A m \in 1 .. MaxDepth : m \in 0 .. MaxDepth
  BY DepthNat
<1>4. ASSUME NEW m \in 1 .. MaxDepth, NEW n \in 1 .. MaxDepth, NEW x \in Trees[m], x \in Trees[n], x # NIL,
             f[m - 1][x.m_pLeft] = f[n - 1][x.m_pLeft], f[m - 1][x.m_pRight] = f[n - 1][x.m_pRight]
      PROVE  f[m][x] = f[n][x]
  <2>1. f[m][x] = NodesStep(x, f[m - 1]) /\ f[n][x] = NodesStep(x, f[n - 1])
    BY <1>1, <1>3, <1>4
  <2> QED  BY <1>4, <2>1 DEF NodesStep
<1>5. \A n \in 0 .. MaxDepth : \A x \in Trees[n] : f[n][x] = f[MaxDepth][x]
  <2>1. PICK z : z = {}
    OBVIOUS
  <2>2. \A n \in 0 .. MaxDepth : NIL \in Trees[n] /\ f[n][NIL] = z
    BY <1>2, <2>1
  <2> QED  BY <1>4, <2>2, SameOnLevels
<1>6. ASSUME NEW x \in Trees[MaxDepth], x # NIL
      PROVE  NodesOf(x) = {x} \cup NodesOf(x.m_pLeft) \cup NodesOf(x.m_pRight)
  <2>1. /\ MaxDepth - 1 \in 0 .. MaxDepth /\ MaxDepth \in 0 .. MaxDepth
        /\ x.m_pLeft \in Trees[MaxDepth - 1] /\ x.m_pRight \in Trees[MaxDepth - 1]
    BY <1>6, DepthNat, NodeBelow
  <2>2. f[MaxDepth][x] = NodesStep(x, f[MaxDepth - 1])
    BY <1>1, <1>6, <2>1
  <2>3. f[MaxDepth - 1][x.m_pLeft] = NodesOf(x.m_pLeft) /\ f[MaxDepth - 1][x.m_pRight] = NodesOf(x.m_pRight)
    BY <1>1, <1>5, <2>1
  <2>4. NodesOf(x) = NodesStep(x, f[MaxDepth - 1])
    BY <1>1, <2>2
  <2> QED  BY <2>3, <2>4 DEF NodesStep
<1>7. MaxDepth \in 0 .. MaxDepth
  BY DepthNat
<1>8. NodesOf(NIL) = {}
  BY <1>1, <1>2, <1>7
<1> QED  BY <1>6, <1>8

\* BlackHeights of a tree, from those of its two sides.
LEMMA BlackHeightsNode ==
    /\ BlackHeights(NIL) = {0}
    /\ \A x \in Trees[MaxDepth] : x # NIL =>
           BlackHeights(x) = {(IF x.m_Color THEN 0 ELSE 1) + b : b \in BlackHeights(x.m_pLeft) \cup BlackHeights(x.m_pRight)}
<1>1. PICK f : /\ \A h : BlackHeights(h) = f[MaxDepth][h]
               /\ \A n \in 0 .. MaxDepth : \A x \in Trees[n] :
                      f[n][x] = IF x = NIL THEN {0} ELSE HeightsStep(x, f[n - 1])
  BY HeightsIs
<1>2. \A n \in 0 .. MaxDepth : NIL \in Trees[n] /\ f[n][NIL] = {0}
  BY <1>1, NilIsTree
<1>3. \A m \in 1 .. MaxDepth : m \in 0 .. MaxDepth
  BY DepthNat
<1>4. ASSUME NEW m \in 1 .. MaxDepth, NEW n \in 1 .. MaxDepth, NEW x \in Trees[m], x \in Trees[n], x # NIL,
             f[m - 1][x.m_pLeft] = f[n - 1][x.m_pLeft], f[m - 1][x.m_pRight] = f[n - 1][x.m_pRight]
      PROVE  f[m][x] = f[n][x]
  <2>1. f[m][x] = HeightsStep(x, f[m - 1]) /\ f[n][x] = HeightsStep(x, f[n - 1])
    BY <1>1, <1>3, <1>4
  <2> QED  BY <1>4, <2>1 DEF HeightsStep
<1>5. \A n \in 0 .. MaxDepth : \A x \in Trees[n] : f[n][x] = f[MaxDepth][x]
  <2>1. PICK z : z = {0}
    OBVIOUS
  <2>2. \A n \in 0 .. MaxDepth : NIL \in Trees[n] /\ f[n][NIL] = z
    BY <1>2, <2>1
  <2> QED  BY <1>4, <2>2, SameOnLevels
<1>6. ASSUME NEW x \in Trees[MaxDepth], x # NIL
      PROVE  BlackHeights(x) = {(IF x.m_Color THEN 0 ELSE 1) + b : b \in BlackHeights(x.m_pLeft) \cup BlackHeights(x.m_pRight)}
  <2>1. /\ MaxDepth - 1 \in 0 .. MaxDepth /\ MaxDepth \in 0 .. MaxDepth
        /\ x.m_pLeft \in Trees[MaxDepth - 1] /\ x.m_pRight \in Trees[MaxDepth - 1]
    BY <1>6, DepthNat, NodeBelow
  <2>2. f[MaxDepth][x] = HeightsStep(x, f[MaxDepth - 1])
    BY <1>1, <1>6, <2>1
  <2>3. f[MaxDepth - 1][x.m_pLeft] = BlackHeights(x.m_pLeft) /\ f[MaxDepth - 1][x.m_pRight] = BlackHeights(x.m_pRight)
    BY <1>1, <1>5, <2>1
  <2>4. BlackHeights(x) = HeightsStep(x, f[MaxDepth - 1])
    BY <1>1, <2>2
  <2> QED  BY <2>3, <2>4 DEF HeightsStep
<1>7. MaxDepth \in 0 .. MaxDepth
  BY DepthNat
<1>8. BlackHeights(NIL) = {0}
  BY <1>1, <1>2, <1>7
<1> QED  BY <1>6, <1>8

\* Consume of a tree, from those of its two sides.
LEMMA ConsumeNode ==
    /\ Consume(NIL) = <<>>
    /\ \A x \in Trees[MaxDepth] : x # NIL =>
           Consume(x) = Consume(x.m_pLeft) \o <<x.m_Key>> \o Consume(x.m_pRight)
<1>1. PICK f : /\ \A h : Consume(h) = f[MaxDepth][h]
               /\ \A n \in 0 .. MaxDepth : \A x \in Trees[n] :
                      f[n][x] = IF x = NIL THEN <<>> ELSE ConsumeStep(x, f[n - 1])
  BY ConsumeIs
<1>2. \A n \in 0 .. MaxDepth : NIL \in Trees[n] /\ f[n][NIL] = <<>>
  BY <1>1, NilIsTree
<1>3. \A m \in 1 .. MaxDepth : m \in 0 .. MaxDepth
  BY DepthNat
<1>4. ASSUME NEW m \in 1 .. MaxDepth, NEW n \in 1 .. MaxDepth, NEW x \in Trees[m], x \in Trees[n], x # NIL,
             f[m - 1][x.m_pLeft] = f[n - 1][x.m_pLeft], f[m - 1][x.m_pRight] = f[n - 1][x.m_pRight]
      PROVE  f[m][x] = f[n][x]
  <2>1. f[m][x] = ConsumeStep(x, f[m - 1]) /\ f[n][x] = ConsumeStep(x, f[n - 1])
    BY <1>1, <1>3, <1>4
  <2> QED  BY <1>4, <2>1 DEF ConsumeStep
<1>5. \A n \in 0 .. MaxDepth : \A x \in Trees[n] : f[n][x] = f[MaxDepth][x]
  <2>1. PICK z : z = <<>>
    OBVIOUS
  <2>2. \A n \in 0 .. MaxDepth : NIL \in Trees[n] /\ f[n][NIL] = z
    BY <1>2, <2>1
  <2> QED  BY <1>4, <2>2, SameOnLevels
<1>6. ASSUME NEW x \in Trees[MaxDepth], x # NIL
      PROVE  Consume(x) = Consume(x.m_pLeft) \o <<x.m_Key>> \o Consume(x.m_pRight)
  <2>1. /\ MaxDepth - 1 \in 0 .. MaxDepth /\ MaxDepth \in 0 .. MaxDepth
        /\ x.m_pLeft \in Trees[MaxDepth - 1] /\ x.m_pRight \in Trees[MaxDepth - 1]
    BY <1>6, DepthNat, NodeBelow
  <2>2. f[MaxDepth][x] = ConsumeStep(x, f[MaxDepth - 1])
    BY <1>1, <1>6, <2>1
  <2>3. f[MaxDepth - 1][x.m_pLeft] = Consume(x.m_pLeft) /\ f[MaxDepth - 1][x.m_pRight] = Consume(x.m_pRight)
    BY <1>1, <1>5, <2>1
  <2>4. Consume(x) = ConsumeStep(x, f[MaxDepth - 1])
    BY <1>1, <2>2
  <2> QED  BY <2>3, <2>4 DEF ConsumeStep
<1>7. MaxDepth \in 0 .. MaxDepth
  BY DepthNat
<1>8. Consume(NIL) = <<>>
  BY <1>1, <1>2, <1>7
<1> QED  BY <1>6, <1>8

-----------------------------------------------------------------------------
(* Trees of entries                                                        *)

\* The key and the value of each node of x.
Entries(x) == {<<y.m_Key, y.m_Val>> : y \in NodesOf(x)}

\* The keys of entries.
KeySet(E) == {e[1] : e \in E}

\* The keys of A are before those of B.
Before(A, B) == \A a \in A, b \in B : compare(a[1], b[1]) < 0

\* L, the entry e and R follow each other.
InOrder(L, e, R) == Before(L, {e}) /\ Before({e}, R) /\ Before(L, R)

\* What is right about a node: its entry is between those of its sides, both
\* are as high, red links lean left and do not follow each other, and it counts
\* the nodes.
Sound(y) ==
    /\ InOrder(Entries(y.m_pLeft), <<y.m_Key, y.m_Val>>, Entries(y.m_pRight))
    /\ \E c \in Nat : BlackHeights(y.m_pLeft) = {c} /\ BlackHeights(y.m_pRight) = {c}
    /\ ~IsRed(y.m_pRight) /\ ~(IsRed(y) /\ IsRed(y.m_pLeft))
    /\ y.m_N = Size(y.m_pLeft) + Size(y.m_pRight) + 1

\* x is a left-leaning red-black tree of the entries E, with b black links on
\* each way down.
Tree(x, E, b) ==
    /\ x \in Trees[MaxDepth]
    /\ E = Entries(x)
    /\ b \in Nat /\ BlackHeights(x) = {b}
    /\ \A y \in NodesOf(x) : Sound(y)

\* The number of black links that a node adds to a way.
Weight(color) == IF color THEN 0 ELSE 1

\* The fields of a node.
LEMMA MkFields ==
    ASSUME NEW k, NEW v, NEW l, NEW r, NEW c, NEW n
    PROVE  /\ Mk(k, v, l, r, c, n).m_Key = k /\ Mk(k, v, l, r, c, n).m_Val = v
           /\ Mk(k, v, l, r, c, n).m_pLeft = l /\ Mk(k, v, l, r, c, n).m_pRight = r
           /\ Mk(k, v, l, r, c, n).m_Color = c /\ Mk(k, v, l, r, c, n).m_N = n
BY DEF Mk

\* The order of the keys.
LEMMA KeyOrder ==
    /\ \A a, b \in Keys : compare(a, b) \in Int
    /\ \A a, b \in Keys : compare(a, b) = 0 <=> a = b
    /\ \A a, b \in Keys : compare(a, b) < 0 <=> compare(b, a) > 0
    /\ \A a, b, c \in Keys : compare(a, b) < 0 /\ compare(b, c) < 0 => compare(a, c) < 0
BY TreeConstants DEF IsOrderOf

\* The entries of a node.
LEMMA EntriesNode ==
    /\ Entries(NIL) = {}
    /\ \A x \in Trees[MaxDepth] : x # NIL =>
           Entries(x) = Entries(x.m_pLeft) \cup {<<x.m_Key, x.m_Val>>} \cup Entries(x.m_pRight)
<1>1. Entries(NIL) = {}
  BY NodesOfNode DEF Entries
<1>2. ASSUME NEW x \in Trees[MaxDepth], x # NIL
      PROVE  Entries(x) = Entries(x.m_pLeft) \cup {<<x.m_Key, x.m_Val>>} \cup Entries(x.m_pRight)
  <2>1. NodesOf(x) = {x} \cup NodesOf(x.m_pLeft) \cup NodesOf(x.m_pRight)
    BY <1>2, NodesOfNode
  <2> QED  BY <2>1 DEF Entries
<1> QED  BY <1>1, <1>2

\* The tree without nodes.
LEMMA TreeNil ==
    /\ Tree(NIL, {}, 0)
    /\ \A E, b : Tree(NIL, E, b) => E = {} /\ b = 0
<1>1. Tree(NIL, {}, 0)
  BY NilIsTree, DepthNat, EntriesNode, NodesOfNode, BlackHeightsNode DEF Tree
<1>2. ASSUME NEW E, NEW b, Tree(NIL, E, b) PROVE E = {} /\ b = 0
  <2>1. {0} = {b}
    BY <1>2, BlackHeightsNode DEF Tree
  <2> QED  BY <1>2, <2>1, EntriesNode DEF Tree
<1> QED  BY <1>1, <1>2

\* l and r are trees as high as c and of entries that leave a place for k.
Sides(l, r, L, R, c, k, v) ==
    /\ Tree(l, L, c) /\ Tree(r, R, c) /\ c \in Nat
    /\ k \in Keys /\ v \in Vals
    /\ InOrder(L, <<k, v>>, R)

\* A tree is a node with two trees of the same height.
LEMMA TreeParts ==
    ASSUME NEW x, NEW E, NEW b, Tree(x, E, b), x # NIL
    PROVE  \E k, v, l, r, color, L, R, c :
               /\ Sides(l, r, L, R, c, k, v)
               /\ x = Mk(k, v, l, r, color, Size(l) + Size(r) + 1)
               /\ E = L \cup {<<k, v>>} \cup R /\ b = c + Weight(color)
               /\ color \in BOOLEAN /\ ~IsRed(r) /\ ~(color /\ IsRed(l))
<1>0. MaxDepth \in 0 .. MaxDepth
  BY DepthNat
<1>1. /\ MaxDepth - 1 \in 0 .. MaxDepth /\ x \in Trees[MaxDepth]
      /\ x \in NodesOver(Trees[MaxDepth - 1])
      /\ x.m_pLeft \in Trees[MaxDepth - 1] /\ x.m_pRight \in Trees[MaxDepth - 1]
  BY <1>0, NodeBelow DEF Tree
<1>2. /\ x.m_Key \in Keys /\ x.m_Val \in Vals /\ x.m_Color \in BOOLEAN
      /\ x = Mk(x.m_Key, x.m_Val, x.m_pLeft, x.m_pRight, x.m_Color, x.m_N)
  BY <1>1, NodeFields
<1>3. x.m_pLeft \in Trees[MaxDepth] /\ x.m_pRight \in Trees[MaxDepth]
  <2>1. MaxDepth - 1 \in 0 .. MaxDepth
    BY <1>1
  <2> QED  BY <1>0, <1>1, <2>1, TreesGrow
<1>4. NodesOf(x) = {x} \cup NodesOf(x.m_pLeft) \cup NodesOf(x.m_pRight)
  BY <1>1, NodesOfNode
<1>5. /\ Sound(x)
      /\ \A y \in NodesOf(x.m_pLeft) : Sound(y)
      /\ \A y \in NodesOf(x.m_pRight) : Sound(y)
  BY <1>4 DEF Tree
<1>6. PICK c \in Nat : BlackHeights(x.m_pLeft) = {c} /\ BlackHeights(x.m_pRight) = {c}
  BY <1>5 DEF Sound
<1>7. Tree(x.m_pLeft, Entries(x.m_pLeft), c) /\ Tree(x.m_pRight, Entries(x.m_pRight), c)
  BY <1>3, <1>5, <1>6 DEF Tree
<1>8. b = c + Weight(x.m_Color)
  <2>1. BlackHeights(x) = {Weight(x.m_Color) + d : d \in BlackHeights(x.m_pLeft) \cup BlackHeights(x.m_pRight)}
    BY <1>1, BlackHeightsNode DEF Weight
  <2>2. BlackHeights(x) = {b} /\ b \in Nat /\ Weight(x.m_Color) \in Nat
    BY DEF Tree, Weight
  <2>3. Weight(x.m_Color) + c \in {b}
    BY <1>6, <2>1, <2>2
  <2> QED  BY <2>2, <2>3
<1>9. E = Entries(x.m_pLeft) \cup {<<x.m_Key, x.m_Val>>} \cup Entries(x.m_pRight)
  BY <1>1, EntriesNode DEF Tree
<1>10. /\ InOrder(Entries(x.m_pLeft), <<x.m_Key, x.m_Val>>, Entries(x.m_pRight))
       /\ ~IsRed(x.m_pRight) /\ ~(x.m_Color /\ IsRed(x.m_pLeft))
       /\ x.m_N = Size(x.m_pLeft) + Size(x.m_pRight) + 1
  BY <1>5 DEF Sound, IsRed
<1>11. Sides(x.m_pLeft, x.m_pRight, Entries(x.m_pLeft), Entries(x.m_pRight), c, x.m_Key, x.m_Val)
  BY <1>2, <1>7, <1>10 DEF Sides
<1>12. x = Mk(x.m_Key, x.m_Val, x.m_pLeft, x.m_pRight, x.m_Color, Size(x.m_pLeft) + Size(x.m_pRight) + 1)
  BY <1>2, <1>10
<1> QED  BY <1>2, <1>8, <1>9, <1>10, <1>11, <1>12

\* The entries of a tree are of keys and values, and of no key twice; the root
\* counts them, and no way down is longer.
Fits(x, E) ==
    /\ E \subseteq Keys \X Vals
    /\ Cardinality(KeySet(E)) \in 0 .. MaxDepth
    /\ x \in Trees[Cardinality(KeySet(E))]
    /\ Size(x) = Cardinality(KeySet(E))

\* Keys that follow each other are all different.
LEMMA KeysAdd ==
    ASSUME NEW L \in SUBSET (Keys \X Vals), NEW R \in SUBSET (Keys \X Vals),
           NEW k \in Keys, NEW v \in Vals, InOrder(L, <<k, v>>, R)
    PROVE  /\ Cardinality(KeySet(L \cup {<<k, v>>} \cup R)) \in 1 .. MaxDepth
           /\ Cardinality(KeySet(L)) \in Nat /\ Cardinality(KeySet(R)) \in Nat
           /\ Cardinality(KeySet(L \cup {<<k, v>>} \cup R)) = Cardinality(KeySet(L)) + Cardinality(KeySet(R)) + 1
<1>1. KeySet(L) \subseteq Keys /\ KeySet(R) \subseteq Keys
  BY DEF KeySet
<1>2. KeySet(L \cup {<<k, v>>} \cup R) = (KeySet(L) \cup KeySet(R)) \cup {k}
  BY DEF KeySet
<1>3. k \notin KeySet(L) \cup KeySet(R)
  <2>1. \A e \in L : compare(e[1], k) < 0
    BY DEF InOrder, Before
  <2>2. \A e \in R : compare(k, e[1]) < 0
    BY DEF InOrder, Before
  <2>3. compare(k, k) = 0
    BY KeyOrder
  <2> QED  BY <2>1, <2>2, <2>3 DEF KeySet
<1>4. KeySet(L) \cap KeySet(R) = {}
  <2>1. ASSUME NEW d \in L, NEW e \in R, d[1] = e[1] PROVE FALSE
    <3>1. compare(d[1], e[1]) < 0
      BY DEF InOrder, Before
    <3>2. compare(d[1], d[1]) = 0
      BY KeyOrder
    <3> QED  BY <2>1, <3>1, <3>2
  <2> QED  BY <2>1 DEF KeySet
<1>5. IsFiniteSet(KeySet(L)) /\ IsFiniteSet(KeySet(R)) /\ IsFiniteSet(Keys)
  BY <1>1, TreeConstants, FS_Subset
<1>6. PICK K1, K2 : K1 = KeySet(L) /\ K2 = KeySet(R)
  OBVIOUS
<1>7. /\ IsFiniteSet(K1 \cup K2) /\ Cardinality(K1 \cup K2) = Cardinality(K1) + Cardinality(K2)
      /\ Cardinality(K1) \in Nat /\ Cardinality(K2) \in Nat
  <2>1. IsFiniteSet(K1 \cup K2) /\ K1 \cap K2 = {}
    BY <1>4, <1>5, <1>6, FS_Union
  <2>2. Cardinality(K1 \cap K2) = 0
    BY <2>1, FS_EmptySet
  <2>3. Cardinality(K1 \cup K2) = Cardinality(K1) + Cardinality(K2) - Cardinality(K1 \cap K2)
    BY <1>5, <1>6, FS_Union
  <2>4. Cardinality(K1) \in Nat /\ Cardinality(K2) \in Nat
    BY <1>5, <1>6, FS_CardinalityType
  <2> QED  BY <2>1, <2>2, <2>3, <2>4
<1>8. Cardinality((K1 \cup K2) \cup {k}) = Cardinality(K1 \cup K2) + 1
  BY <1>3, <1>6, <1>7, FS_AddElement
<1>9. Cardinality((K1 \cup K2) \cup {k}) <= MaxDepth
  <2>1. (K1 \cup K2) \cup {k} \subseteq Keys
    BY <1>1, <1>6
  <2> QED  BY <1>5, <2>1, FS_Subset DEF MaxDepth
<1>10. PICK K : K = KeySet(L \cup {<<k, v>>} \cup R)
  OBVIOUS
<1>11. K = (K1 \cup K2) \cup {k}
  BY <1>2, <1>6, <1>10
<1>12. /\ Cardinality(K) \in 1 .. MaxDepth
       /\ Cardinality(K) = Cardinality(K1) + Cardinality(K2) + 1
  BY <1>7, <1>8, <1>9, <1>11, DepthNat
<1> QED  BY <1>6, <1>7, <1>10, <1>12

\* A node that counts the nodes of its sides and itself.
Nd(k, v, l, r, color) == Mk(k, v, l, r, color, Size(l) + Size(r) + 1)

\* Two trees with a place for a key fit under a node of it.
LEMMA NodeFits ==
    ASSUME NEW k \in Keys, NEW v \in Vals, NEW l, NEW r, NEW color \in BOOLEAN,
           NEW L, NEW R, Fits(l, L), Fits(r, R), InOrder(L, <<k, v>>, R)
    PROVE  Fits(Nd(k, v, l, r, color), L \cup {<<k, v>>} \cup R)
<1>1. L \in SUBSET (Keys \X Vals) /\ R \in SUBSET (Keys \X Vals)
  BY DEF Fits
<1>2. PICK E : E = L \cup {<<k, v>>} \cup R
  OBVIOUS
<1>3. PICK e, d, f : e = Cardinality(KeySet(E)) /\ d = Cardinality(KeySet(L)) /\ f = Cardinality(KeySet(R))
  OBVIOUS
<1>4. e \in 1 .. MaxDepth /\ d \in Nat /\ f \in Nat /\ e = d + f + 1
  BY <1>1, <1>2, <1>3, KeysAdd
<1>5. l \in Trees[d] /\ r \in Trees[f] /\ Size(l) = d /\ Size(r) = f
  BY <1>3 DEF Fits
<1>6. l \in Trees[e - 1] /\ r \in Trees[e - 1]
  <2>1. e - 1 \in 0 .. MaxDepth /\ d \in 0 .. e - 1 /\ f \in 0 .. e - 1
    BY <1>4, DepthNat
  <2> QED  BY <1>5, <2>1, TreesGrow
<1>7. Nd(k, v, l, r, color) \in NodesOver(Trees[e - 1])
  BY <1>4, <1>5, <1>6 DEF Nd, Mk, NodesOver
<1>8. Nd(k, v, l, r, color) \in Trees[e] /\ e \in 0 .. MaxDepth
  BY <1>4, <1>7, TreesIs
<1>9. Size(Nd(k, v, l, r, color)) = e
  BY <1>4, <1>5, MkNotNil, MkFields DEF Size, Nd
<1>10. E \subseteq Keys \X Vals
  BY <1>1, <1>2
<1> QED  BY <1>2, <1>3, <1>8, <1>9, <1>10 DEF Fits

\* What the entries of a tree say of its levels and its count.
LEMMA TreeFits ==
    ASSUME NEW x, NEW E, NEW b, Tree(x, E, b)
    PROVE  Fits(x, E)
<1> DEFINE T == {n \in 0 .. MaxDepth : \A y \in Trees[n] : \A F, d : Tree(y, F, d) => Fits(y, F)}
<1>0. Fits(NIL, {})
  <2>1. KeySet({}) = {}
    BY DEF KeySet
  <2>2. Cardinality(KeySet({})) = 0
    BY <2>1, FS_EmptySet
  <2>3. 0 \in 0 .. MaxDepth /\ NIL \in Trees[0] /\ Size(NIL) = 0
    BY DepthNat, TreesIs DEF Size
  <2>4. {} \subseteq Keys \X Vals
    OBVIOUS
  <2> QED  BY <2>2, <2>3, <2>4 DEF Fits
<1>1. 0 \in T
  <2>1. \A y \in Trees[0] : y = NIL
    BY TreesIs
  <2> QED  BY <2>1, <1>0, TreeNil, DepthNat
<1>2. ASSUME NEW m \in 0 .. MaxDepth - 1, m \in T PROVE m + 1 \in T
  <2>0. m + 1 \in 0 .. MaxDepth /\ (m + 1) - 1 = m
    BY DepthNat
  <2>1. ASSUME NEW y \in Trees[m + 1], NEW F, NEW d, Tree(y, F, d) PROVE Fits(y, F)
    <3>1. CASE y = NIL
      BY <3>1, <2>1, <1>0, TreeNil
    <3>2. CASE y # NIL
      <4>1. PICK k, v, l, r, color, L, R, c :
               /\ Sides(l, r, L, R, c, k, v)
               /\ y = Mk(k, v, l, r, color, Size(l) + Size(r) + 1)
               /\ F = L \cup {<<k, v>>} \cup R /\ color \in BOOLEAN
        BY <2>1, <3>2, TreeParts
      <4>2. y.m_pLeft = l /\ y.m_pRight = r
        BY <4>1, MkFields
      <4>3. l \in Trees[m] /\ r \in Trees[m]
        BY <2>0, <3>2, <4>2, NodeBelow
      <4>4. /\ Tree(l, L, c) /\ Tree(r, R, c) /\ k \in Keys /\ v \in Vals /\ InOrder(L, <<k, v>>, R)
        BY <4>1 DEF Sides
      <4>5. Fits(l, L) /\ Fits(r, R)
        BY <1>2, <4>3, <4>4
      <4> QED  BY <4>1, <4>4, <4>5, NodeFits DEF Nd
    <3> QED  BY <3>1, <3>2
  <2> QED  BY <2>0, <2>1
<1>3. \A n \in 0 .. MaxDepth : n \in T
  <2> HIDE DEF T
  <2> QED  BY <1>1, <1>2, UpTo, DepthNat
<1>4. MaxDepth \in 0 .. MaxDepth /\ x \in Trees[MaxDepth]
  BY DepthNat DEF Tree
<1> QED  BY <1>3, <1>4

\* A node with two trees of the same height is a tree.
LEMMA TreeMade ==
    ASSUME NEW k, NEW v, NEW l, NEW r, NEW color \in BOOLEAN, NEW L, NEW R, NEW c,
           Sides(l, r, L, R, c, k, v), ~IsRed(r), ~(color /\ IsRed(l))
    PROVE  Tree(Nd(k, v, l, r, color), L \cup {<<k, v>>} \cup R, c + Weight(color))
<1>1. PICK x : x = Nd(k, v, l, r, color)
  OBVIOUS
<1>2. /\ Tree(l, L, c) /\ Tree(r, R, c) /\ c \in Nat
      /\ k \in Keys /\ v \in Vals
      /\ InOrder(L, <<k, v>>, R)
  BY DEF Sides
<1>3. Fits(x, L \cup {<<k, v>>} \cup R)
  BY <1>1, <1>2, NodeFits, TreeFits
<1>4. x \in Trees[MaxDepth]
  <2>1. PICK e : e = Cardinality(KeySet(L \cup {<<k, v>>} \cup R))
    OBVIOUS
  <2>2. e \in 0 .. MaxDepth /\ x \in Trees[e] /\ MaxDepth \in 0 .. MaxDepth
    BY <1>3, <2>1, DepthNat DEF Fits
  <2> QED  BY <2>2, TreesGrow
<1>5. /\ x # NIL /\ x.m_Key = k /\ x.m_Val = v /\ x.m_pLeft = l /\ x.m_pRight = r /\ x.m_Color = color
      /\ x.m_N = Size(l) + Size(r) + 1
  BY <1>1, MkNotNil, MkFields DEF Nd
<1>6. L = Entries(l) /\ R = Entries(r) /\ BlackHeights(l) = {c} /\ BlackHeights(r) = {c}
  BY <1>2 DEF Tree
<1>7. Entries(x) = L \cup {<<k, v>>} \cup R
  BY <1>4, <1>5, <1>6, EntriesNode
<1>8. BlackHeights(x) = {c + Weight(color)} /\ c + Weight(color) \in Nat
  <2>1. BlackHeights(x) = {Weight(color) + d : d \in BlackHeights(l) \cup BlackHeights(r)}
    BY <1>4, <1>5, BlackHeightsNode DEF Weight
  <2>2. BlackHeights(x) = {Weight(color) + c}
    BY <1>6, <2>1
  <2> QED  BY <1>2, <2>2 DEF Weight
<1>9. Sound(x)
  BY <1>2, <1>5, <1>6 DEF Sound, IsRed
<1>10. NodesOf(x) = {x} \cup NodesOf(l) \cup NodesOf(r)
  BY <1>4, <1>5, NodesOfNode
<1>11. \A y \in NodesOf(x) : Sound(y)
  BY <1>2, <1>9, <1>10 DEF Tree
<1> QED  BY <1>1, <1>4, <1>7, <1>8, <1>11 DEF Tree

\* What a tree with these fields is made of.
LEMMA TreeOf ==
    ASSUME NEW k, NEW v, NEW l, NEW r, NEW color, NEW n, NEW E, NEW b,
           Tree(Mk(k, v, l, r, color, n), E, b)
    PROVE  \E L, R, c : /\ Sides(l, r, L, R, c, k, v) /\ b = c + Weight(color)
                        /\ E = L \cup {<<k, v>>} \cup R
                        /\ color \in BOOLEAN /\ ~IsRed(r) /\ ~(color /\ IsRed(l))
<1>1. PICK x : x = Mk(k, v, l, r, color, n)
  OBVIOUS
<1>2. PICK k1, v1, l1, r1, color1, L, R, c :
        /\ Sides(l1, r1, L, R, c, k1, v1)
        /\ x = Mk(k1, v1, l1, r1, color1, Size(l1) + Size(r1) + 1)
        /\ E = L \cup {<<k1, v1>>} \cup R /\ b = c + Weight(color1)
        /\ color1 \in BOOLEAN /\ ~IsRed(r1) /\ ~(color1 /\ IsRed(l1))
  BY <1>1, MkNotNil, TreeParts
<1>3. k1 = k /\ v1 = v /\ l1 = l /\ r1 = r /\ color1 = color
  <2>1. x.m_Key = k /\ x.m_Val = v /\ x.m_pLeft = l /\ x.m_pRight = r /\ x.m_Color = color
    BY <1>1, MkFields
  <2>2. PICK n1 : n1 = Size(l1) + Size(r1) + 1
    OBVIOUS
  <2>3. x = Mk(k1, v1, l1, r1, color1, n1)
    BY <1>2, <2>2
  <2>4. x.m_Key = k1 /\ x.m_Val = v1 /\ x.m_pLeft = l1 /\ x.m_pRight = r1 /\ x.m_Color = color1
    BY <2>3, MkFields
  <2> QED  BY <2>1, <2>4
<1> QED  BY <1>2, <1>3

-----------------------------------------------------------------------------
(* Rotations and colours                                                   *)

\* The colors of the code, and the other color.
Red == TRUE
Black == FALSE
Flipped(color) == ~color

\* The two colors.
LEMMA Colors ==
    /\ Red \in BOOLEAN /\ Black \in BOOLEAN /\ Red /\ ~Black
    /\ Flipped(Red) = Black /\ Flipped(Black) = Red
    /\ \A color \in BOOLEAN : Flipped(color) \in BOOLEAN /\ (color \/ color = Black) /\ (~color \/ color = Red)
                               /\ (Flipped(color) <=> ~color)
BY DEF Red, Black, Flipped

\* What they add to a way.
LEMMA Weights == Weight(Red) = 0 /\ Weight(Black) = 1
BY DEF Red, Black, Weight

\* What the color and the count of a node are to the one above.
LEMMA MkColor ==
    ASSUME NEW k, NEW v, NEW l, NEW r, NEW color \in BOOLEAN, NEW n
    PROVE  /\ IsRed(Mk(k, v, l, r, color, n)) <=> color
           /\ Size(Mk(k, v, l, r, color, n)) = n
           /\ ~IsRed(NIL) /\ Size(NIL) = 0
BY MkNotNil, MkFields DEF IsRed, Size

\* A node with a color of the code.
LEMMA MkRed ==
    ASSUME NEW k, NEW v, NEW l, NEW r, NEW n
    PROVE  IsRed(Mk(k, v, l, r, Red, n)) /\ ~IsRed(Mk(k, v, l, r, Black, n))
BY Colors, MkColor

\* A red node is a node.
LEMMA RedNode ==
    ASSUME NEW x, NEW E, NEW b, Tree(x, E, b), IsRed(x)
    PROVE  \E k, v, l, r, L, R :
               /\ Sides(l, r, L, R, b, k, v) /\ x = Nd(k, v, l, r, Red)
               /\ E = L \cup {<<k, v>>} \cup R /\ ~IsRed(r) /\ ~IsRed(l)
<1>1. x # NIL
  BY DEF IsRed
<1>2. PICK k, v, l, r, color, L, R, c :
        /\ Sides(l, r, L, R, c, k, v)
        /\ x = Mk(k, v, l, r, color, Size(l) + Size(r) + 1)
        /\ E = L \cup {<<k, v>>} \cup R /\ b = c + Weight(color)
        /\ color \in BOOLEAN /\ ~IsRed(r) /\ ~(color /\ IsRed(l))
  BY <1>1, TreeParts
<1>3. color
  <2>1. PICK n1 : n1 = Size(l) + Size(r) + 1
    OBVIOUS
  <2>2. x = Mk(k, v, l, r, color, n1)
    BY <1>2, <2>1
  <2> QED  BY <1>2, <2>2, MkColor
<1>4. color = Red
  BY <1>2, <1>3, Colors
<1>5. b = c
  <2>1. c \in Nat /\ b = c + Weight(Red)
    BY <1>2, <1>4 DEF Sides
  <2> QED  BY <2>1, Weights
<1>6. Sides(l, r, L, R, b, k, v) /\ x = Nd(k, v, l, r, Red)
  BY <1>2, <1>4, <1>5 DEF Nd
<1> QED  BY <1>2, <1>3, <1>6

\* A node is known by its fields.
IsNode(x, k, v, l, r, color, n) ==
    /\ x = [f \in {"m_Key", "m_Val", "m_pLeft", "m_pRight", "m_Color", "m_N"} |-> x[f]]
    /\ x.m_Key = k /\ x.m_Val = v /\ x.m_pLeft = l /\ x.m_pRight = r /\ x.m_Color = color /\ x.m_N = n

\* Fields and all.
LEMMA NodeIs ==
    ASSUME NEW x, NEW k, NEW v, NEW l, NEW r, NEW color, NEW n
    PROVE  IsNode(x, k, v, l, r, color, n) <=> x = Mk(k, v, l, r, color, n)
BY DEF IsNode, Mk

\* Counted, field by field.
LEMMA CountedIs ==
    ASSUME NEW k, NEW v, NEW l, NEW r, NEW color, NEW n
    PROVE  Counted(Mk(k, v, l, r, color, n)) = Nd(k, v, l, r, color)
BY DEF Counted, Mk, Nd

\* RotateRight, field by field.
LEMMA RotateRightIs ==
    ASSUME NEW k, NEW v, NEW r, NEW color, NEW n,
           NEW k1, NEW v1, NEW l1, NEW r1, NEW color1, NEW n1
    PROVE  RotateRight(Mk(k, v, Mk(k1, v1, l1, r1, color1, n1), r, color, n))
               = Mk(k1, v1, l1, Nd(k, v, r1, r, Red), color, n)
<1>1. PICK x, h, y : /\ x = Mk(k1, v1, l1, r1, color1, n1) /\ h = Mk(k, v, x, r, color, n)
                     /\ y = Mk(k, v, r1, r, Red, n)
  OBVIOUS
<1>2. /\ h.m_pLeft = x /\ h.m_Color = color /\ h.m_N = n /\ x.m_pRight = r1
  BY <1>1, MkFields
<1>3. [h EXCEPT !.m_pLeft = r1, !.m_Color = TRUE] = Mk(k, v, r1, r, Red, n)
  <2>1. PICK w : w = [h EXCEPT !.m_pLeft = r1, !.m_Color = TRUE]
    OBVIOUS
  <2>2. IsNode(w, k, v, r1, r, Red, n)
    BY <1>1, <2>1 DEF Mk, IsNode, Red
  <2> QED  BY <2>1, <2>2, NodeIs
<1>4. PICK z : z = Nd(k, v, r1, r, Red)
  OBVIOUS
<1>5. [x EXCEPT !.m_pRight = z, !.m_Color = color, !.m_N = n] = Mk(k1, v1, l1, z, color, n)
  <2>1. PICK w : w = [x EXCEPT !.m_pRight = z, !.m_Color = color, !.m_N = n]
    OBVIOUS
  <2>2. IsNode(w, k1, v1, l1, z, color, n)
    BY <1>1, <2>1 DEF Mk, IsNode
  <2> QED  BY <2>1, <2>2, NodeIs
<1>6. Counted(y) = z
  BY <1>1, <1>4, CountedIs
<1>8. Counted([h EXCEPT !.m_pLeft = x.m_pRight, !.m_Color = TRUE]) = z
  BY <1>1, <1>2, <1>3, <1>6
<1>9. RotateRight(h) = [x EXCEPT !.m_pRight = Counted([h EXCEPT !.m_pLeft = x.m_pRight, !.m_Color = TRUE]),
                                !.m_Color = h.m_Color, !.m_N = h.m_N]
  BY <1>2, Zenon DEF RotateRight
<1>7. RotateRight(h) = [x EXCEPT !.m_pRight = z, !.m_Color = color, !.m_N = n]
  BY <1>2, <1>8, <1>9
<1> QED  BY <1>1, <1>4, <1>5, <1>7

\* RotateLeft, field by field.
LEMMA RotateLeftIs ==
    ASSUME NEW k, NEW v, NEW l, NEW color, NEW n,
           NEW k2, NEW v2, NEW l2, NEW r2, NEW color2, NEW n2
    PROVE  RotateLeft(Mk(k, v, l, Mk(k2, v2, l2, r2, color2, n2), color, n))
               = Mk(k2, v2, Nd(k, v, l, l2, Red), r2, color, n)
<1>1. PICK x, h, y : /\ x = Mk(k2, v2, l2, r2, color2, n2) /\ h = Mk(k, v, l, x, color, n)
                     /\ y = Mk(k, v, l, l2, Red, n)
  OBVIOUS
<1>2. /\ h.m_pRight = x /\ h.m_Color = color /\ h.m_N = n /\ x.m_pLeft = l2
  BY <1>1, MkFields
<1>3. [h EXCEPT !.m_pRight = l2, !.m_Color = TRUE] = Mk(k, v, l, l2, Red, n)
  <2>1. PICK w : w = [h EXCEPT !.m_pRight = l2, !.m_Color = TRUE]
    OBVIOUS
  <2>2. IsNode(w, k, v, l, l2, Red, n)
    BY <1>1, <2>1 DEF Mk, IsNode, Red
  <2> QED  BY <2>1, <2>2, NodeIs
<1>4. PICK z : z = Nd(k, v, l, l2, Red)
  OBVIOUS
<1>5. [x EXCEPT !.m_pLeft = z, !.m_Color = color, !.m_N = n] = Mk(k2, v2, z, r2, color, n)
  <2>1. PICK w : w = [x EXCEPT !.m_pLeft = z, !.m_Color = color, !.m_N = n]
    OBVIOUS
  <2>2. IsNode(w, k2, v2, z, r2, color, n)
    BY <1>1, <2>1 DEF Mk, IsNode
  <2> QED  BY <2>1, <2>2, NodeIs
<1>6. Counted(y) = z
  BY <1>1, <1>4, CountedIs
<1>8. Counted([h EXCEPT !.m_pRight = x.m_pLeft, !.m_Color = TRUE]) = z
  BY <1>1, <1>2, <1>3, <1>6
<1>9. RotateLeft(h) = [x EXCEPT !.m_pLeft = Counted([h EXCEPT !.m_pRight = x.m_pLeft, !.m_Color = TRUE]),
                               !.m_Color = h.m_Color, !.m_N = h.m_N]
  BY <1>2, Zenon DEF RotateLeft
<1>7. RotateLeft(h) = [x EXCEPT !.m_pLeft = z, !.m_Color = color, !.m_N = n]
  BY <1>2, <1>8, <1>9
<1> QED  BY <1>1, <1>4, <1>5, <1>7

\* FlipColors, field by field.
LEMMA FlipColorsIs ==
    ASSUME NEW k, NEW v, NEW color, NEW n,
           NEW k1, NEW v1, NEW l1, NEW r1, NEW color1, NEW n1,
           NEW k2, NEW v2, NEW l2, NEW r2, NEW color2, NEW n2
    PROVE  FlipColors(Mk(k, v, Mk(k1, v1, l1, r1, color1, n1), Mk(k2, v2, l2, r2, color2, n2), color, n))
               = Mk(k, v, Mk(k1, v1, l1, r1, Flipped(color1), n1), Mk(k2, v2, l2, r2, Flipped(color2), n2),
                    Flipped(color), n)
<1>1. PICK x, y, h : /\ x = Mk(k1, v1, l1, r1, color1, n1) /\ y = Mk(k2, v2, l2, r2, color2, n2)
                     /\ h = Mk(k, v, x, y, color, n)
  OBVIOUS
<1>2. [x EXCEPT !.m_Color = Flipped(@)] = Mk(k1, v1, l1, r1, Flipped(color1), n1)
  BY <1>1 DEF Mk
<1>3. [y EXCEPT !.m_Color = Flipped(@)] = Mk(k2, v2, l2, r2, Flipped(color2), n2)
  BY <1>1 DEF Mk
<1>4. PICK x1, y1 : x1 = [x EXCEPT !.m_Color = Flipped(@)] /\ y1 = [y EXCEPT !.m_Color = Flipped(@)]
  OBVIOUS
<1>5. [h EXCEPT !.m_Color = Flipped(@), !.m_pLeft.m_Color = Flipped(@), !.m_pRight.m_Color = Flipped(@)]
          = Mk(k, v, x1, y1, Flipped(color), n)
  <2>1. PICK w : w = [h EXCEPT !.m_Color = Flipped(@), !.m_pLeft.m_Color = Flipped(@), !.m_pRight.m_Color = Flipped(@)]
    OBVIOUS
  <2>2. IsNode(w, k, v, x1, y1, Flipped(color), n)
    BY <1>1, <1>4, <2>1 DEF Mk, IsNode
  <2> QED  BY <2>1, <2>2, NodeIs
<1>6. FlipColors(h)
          = [h EXCEPT !.m_Color = Flipped(@), !.m_pLeft.m_Color = Flipped(@), !.m_pRight.m_Color = Flipped(@)]
  BY Zenon DEF FlipColors, Flipped
<1> QED  BY <1>1, <1>2, <1>3, <1>4, <1>5, <1>6

\* The corrections of Balance and BalancePut where no red link leans right.
LEMMA BalanceNone ==
    ASSUME NEW k, NEW v, NEW l, NEW r, NEW color \in BOOLEAN, NEW n,
           ~IsRed(r), ~(IsRed(l) /\ IsRed(l.m_pLeft))
    PROVE  /\ Balance(Mk(k, v, l, r, color, n)) = Nd(k, v, l, r, color)
           /\ BalancePut(Mk(k, v, l, r, color, n)) = Nd(k, v, l, r, color)
<1>1. PICK h : h = Mk(k, v, l, r, color, n)
  OBVIOUS
<1>2. h.m_pLeft = l /\ h.m_pRight = r
  BY <1>1, MkFields
<1>3. LeanLeft(h) = h /\ NoTwoReds(h) = h /\ NoRedTwins(h) = h
  BY <1>2 DEF LeanLeft, NoTwoReds, NoRedTwins
<1>4. Balance(h) = Counted(h) /\ BalancePut(h) = Counted(h)
  BY <1>3 DEF Balance, BalancePut
<1> QED  BY <1>1, <1>4, CountedIs

\* Where one leans right and none left.
LEMMA BalanceRight ==
    ASSUME NEW k, NEW v, NEW l, NEW color \in BOOLEAN, NEW n, ~IsRed(l),
           NEW k2, NEW v2, NEW l2, NEW r2, NEW n2, ~IsRed(r2)
    PROVE  /\ Balance(Mk(k, v, l, Mk(k2, v2, l2, r2, Red, n2), color, n)) = Nd(k2, v2, Nd(k, v, l, l2, Red), r2, color)
           /\ BalancePut(Mk(k, v, l, Mk(k2, v2, l2, r2, Red, n2), color, n)) = Nd(k2, v2, Nd(k, v, l, l2, Red), r2, color)
<1>1. PICK r : r = Mk(k2, v2, l2, r2, Red, n2)
  OBVIOUS
<1>2. PICK h : h = Mk(k, v, l, r, color, n)
  OBVIOUS
<1>3. h.m_pLeft = l /\ h.m_pRight = r /\ IsRed(r)
  BY <1>1, <1>2, MkFields, MkRed
<1>4. PICK g : g = Mk(k2, v2, Nd(k, v, l, l2, Red), r2, color, n)
  OBVIOUS
<1>5. LeanLeft(h) = g
  BY <1>1, <1>2, <1>3, <1>4, RotateLeftIs DEF LeanLeft
<1>6. g.m_pLeft.m_pLeft = l /\ g.m_pRight = r2
  <2>1. g.m_pLeft = Nd(k, v, l, l2, Red) /\ g.m_pRight = r2
    BY <1>4, MkFields
  <2>2. g.m_pLeft.m_pLeft = l
    BY <2>1, MkFields DEF Nd
  <2> QED  BY <2>1, <2>2
<1>7. NoTwoReds(g) = g /\ NoRedTwins(g) = g
  BY <1>6 DEF NoTwoReds, NoRedTwins
<1>8. Balance(h) = Counted(g) /\ BalancePut(h) = Counted(g)
  BY <1>3, <1>5, <1>7 DEF Balance, BalancePut
<1> QED  BY <1>1, <1>2, <1>4, <1>8, CountedIs

\* Where one leans to each side.
LEMMA BalanceBoth ==
    ASSUME NEW k, NEW v, NEW color \in BOOLEAN, NEW n,
           NEW k1, NEW v1, NEW l1, NEW r1, ~IsRed(l1),
           NEW k2, NEW v2, NEW l2, NEW r2, ~IsRed(r2)
    PROVE  /\ Balance(Mk(k, v, Nd(k1, v1, l1, r1, Red), Nd(k2, v2, l2, r2, Red), color, n))
                  = Nd(k, v, Nd(k1, v1, l1, r1, Black), Nd(k2, v2, l2, r2, Black), Flipped(color))
           /\ BalancePut(Mk(k, v, Nd(k1, v1, l1, r1, Red), Nd(k2, v2, l2, r2, Red), color, n))
                  = Nd(k, v, Nd(k1, v1, l1, r1, Black), Nd(k2, v2, l2, r2, Black), Flipped(color))
<1>1. PICK l, r, n1, n2 : /\ n1 = Size(l1) + Size(r1) + 1 /\ n2 = Size(l2) + Size(r2) + 1
                          /\ l = Mk(k1, v1, l1, r1, Red, n1) /\ r = Mk(k2, v2, l2, r2, Red, n2)
  OBVIOUS
<1>2. PICK h : h = Mk(k, v, l, r, color, n)
  OBVIOUS
<1>3. /\ h.m_pLeft = l /\ h.m_pRight = r /\ IsRed(r) /\ IsRed(l) /\ l.m_pLeft = l1
  BY <1>1, <1>2, MkFields, MkRed
<1>4. PICK g : g = Mk(k, v, Mk(k1, v1, l1, r1, Black, n1), Mk(k2, v2, l2, r2, Black, n2), Flipped(color), n)
  OBVIOUS
<1>5. Counted(g) = Nd(k, v, Nd(k1, v1, l1, r1, Black), Nd(k2, v2, l2, r2, Black), Flipped(color))
  BY <1>1, <1>4, CountedIs DEF Nd
<1>6. FlipColors(h) = g
  <2>1. FlipColors(h) = Mk(k, v, Mk(k1, v1, l1, r1, Flipped(Red), n1), Mk(k2, v2, l2, r2, Flipped(Red), n2), Flipped(color), n)
    BY <1>1, <1>2, FlipColorsIs
  <2>2. Flipped(Red) = Black
    BY Colors
  <2> QED  BY <1>4, <2>1, <2>2
<1>7. BalancePut(h) = Counted(g)
  <2>1. NoTwoReds(h) = h /\ NoRedTwins(h) = g
    BY <1>3, <1>6 DEF NoTwoReds, NoRedTwins
  <2> QED  BY <1>3, <2>1 DEF BalancePut
<1>8. Balance(h) = Counted(g)
  <2>1. PICK m : m = Mk(k2, v2, Mk(k, v, l, l2, Red, Size(l) + Size(l2) + 1), r2, color, n)
    OBVIOUS
  <2>2. LeanLeft(h) = m
    <3>1. RotateLeft(h) = m
      BY <1>1, <1>2, <2>1, RotateLeftIs DEF Nd
    <3> QED  BY <1>3, <3>1 DEF LeanLeft
  <2>3. m.m_pLeft = Mk(k, v, l, l2, Red, Size(l) + Size(l2) + 1)
    BY <2>1, MkFields
  <2>4. IsRed(m.m_pLeft) /\ m.m_pLeft.m_pLeft = l
    BY <2>3, MkFields, MkRed
  <2>5. RotateRight(m) = Mk(k, v, l, Nd(k2, v2, l2, r2, Red), color, n)
    BY <2>1, RotateRightIs
  <2>6. NoTwoReds(m) = h
    BY <1>1, <1>2, <1>3, <2>4, <2>5 DEF NoTwoReds, Nd
  <2>7. NoRedTwins(h) = g
    BY <1>3, <1>6 DEF NoRedTwins
  <2> QED  BY <2>2, <2>6, <2>7 DEF Balance
<1> QED  BY <1>1, <1>2, <1>5, <1>7, <1>8 DEF Nd

\* Where two follow each other on the left: Put made the lower one.
LEMMA BalanceLeft ==
    ASSUME NEW k, NEW v, NEW r, NEW color \in BOOLEAN, NEW n, ~IsRed(r),
           NEW k1, NEW v1, NEW r1, NEW k0, NEW v0, NEW l0, NEW r0
    PROVE  BalancePut(Mk(k, v, Nd(k1, v1, Nd(k0, v0, l0, r0, Red), r1, Red), r, color, n))
               = Nd(k1, v1, Nd(k0, v0, l0, r0, Black), Nd(k, v, r1, r, Black), Flipped(color))
<1>1. PICK x, l, n0, n1, n3 :
        /\ n0 = Size(l0) + Size(r0) + 1 /\ x = Mk(k0, v0, l0, r0, Red, n0)
        /\ n1 = Size(x) + Size(r1) + 1 /\ l = Mk(k1, v1, x, r1, Red, n1)
        /\ n3 = Size(r1) + Size(r) + 1
  OBVIOUS
<1>2. PICK h : h = Mk(k, v, l, r, color, n)
  OBVIOUS
<1>3. h.m_pLeft = l /\ h.m_pRight = r /\ IsRed(l) /\ l.m_pLeft = x /\ IsRed(x)
  BY <1>1, <1>2, MkFields, MkRed
<1>4. PICK m : m = Mk(k1, v1, x, Mk(k, v, r1, r, Red, n3), color, n)
  OBVIOUS
<1>5. NoTwoReds(h) = m
  BY <1>1, <1>2, <1>3, <1>4, RotateRightIs DEF NoTwoReds, Nd
<1>6. PICK g : g = Mk(k1, v1, Mk(k0, v0, l0, r0, Black, n0), Mk(k, v, r1, r, Black, n3), Flipped(color), n)
  OBVIOUS
<1>7. FlipColors(m) = g
  <2>1. FlipColors(m) = Mk(k1, v1, Mk(k0, v0, l0, r0, Flipped(Red), n0), Mk(k, v, r1, r, Flipped(Red), n3), Flipped(color), n)
    BY <1>1, <1>4, FlipColorsIs
  <2>2. Flipped(Red) = Black
    BY Colors
  <2> QED  BY <1>6, <2>1, <2>2
<1>8. m.m_pLeft = x /\ IsRed(m.m_pRight)
  BY <1>4, MkFields, MkRed
<1>9. NoRedTwins(m) = g
  BY <1>3, <1>7, <1>8 DEF NoRedTwins
<1>10. BalancePut(h) = Counted(g)
  BY <1>3, <1>5, <1>9 DEF BalancePut
<1>11. Counted(g) = Nd(k1, v1, Nd(k0, v0, l0, r0, Black), Nd(k, v, r1, r, Black), Flipped(color))
  BY <1>1, <1>6, CountedIs DEF Nd
<1> QED  BY <1>1, <1>2, <1>10, <1>11 DEF Nd

\* A rotation keeps the order.
LEMMA Reorder ==
    ASSUME NEW L, NEW d, NEW M, NEW e, NEW R
    PROVE  /\ InOrder(L \cup {d} \cup M, e, R) /\ InOrder(L, d, M)
                  <=> InOrder(L, d, M \cup {e} \cup R) /\ InOrder(M, e, R)
           /\ (L \cup {d} \cup M) \cup {e} \cup R = L \cup {d} \cup (M \cup {e} \cup R)
BY DEF InOrder, Before

\* Other trees of the same entries have the same place for a key.
LEMMA SidesAgain ==
    ASSUME NEW l, NEW r, NEW L, NEW R, NEW c, NEW k, NEW v, Sides(l, r, L, R, c, k, v),
           NEW l1, NEW r1, NEW d \in Nat, Tree(l1, L, d), Tree(r1, R, d)
    PROVE  Sides(l1, r1, L, R, d, k, v)
BY DEF Sides

\* Below a red node is none.
LEMMA RedAlone ==
    ASSUME NEW x, NEW E, NEW b, Tree(x, E, b)
    PROVE  ~(IsRed(x) /\ IsRed(x.m_pLeft))
<1> SUFFICES ASSUME IsRed(x) PROVE ~IsRed(x.m_pLeft)
  OBVIOUS
<1>1. PICK k, v, l, r : x = Nd(k, v, l, r, Red) /\ ~IsRed(l)
  BY RedNode
<1>2. x.m_pLeft = l
  BY <1>1, MkFields DEF Nd
<1> QED  BY <1>1, <1>2

\* A node with one of the two colors of the code.
LEMMA BlackMade ==
    ASSUME NEW k, NEW v, NEW l, NEW r, NEW L, NEW R, NEW c,
           Sides(l, r, L, R, c, k, v), ~IsRed(r)
    PROVE  /\ Tree(Nd(k, v, l, r, Black), L \cup {<<k, v>>} \cup R, c + 1)
           /\ ~IsRed(Nd(k, v, l, r, Black)) /\ c + 1 \in Nat
<1>1. Tree(Nd(k, v, l, r, Black), L \cup {<<k, v>>} \cup R, c + Weight(Black))
  BY Colors, TreeMade
<1>2. c \in Nat
  BY DEF Sides
<1> QED  BY <1>1, <1>2, Weights, MkRed DEF Nd

\* One with the other color.
LEMMA RedMade ==
    ASSUME NEW k, NEW v, NEW l, NEW r, NEW L, NEW R, NEW c,
           Sides(l, r, L, R, c, k, v), ~IsRed(r), ~IsRed(l)
    PROVE  /\ Tree(Nd(k, v, l, r, Red), L \cup {<<k, v>>} \cup R, c)
           /\ IsRed(Nd(k, v, l, r, Red))
<1>1. Tree(Nd(k, v, l, r, Red), L \cup {<<k, v>>} \cup R, c + Weight(Red))
  BY Colors, TreeMade
<1>2. c + Weight(Red) = c
  BY Weights DEF Sides
<1> QED  BY <1>1, <1>2, MkRed DEF Nd

\* A black node over any two trees is a tree again when it is balanced, and a
\* red one over black ones; the node stays black unless both were red.
LEMMA Rebalanced ==
    ASSUME NEW k, NEW v, NEW l, NEW r, NEW color \in BOOLEAN, NEW n, NEW L, NEW R, NEW c,
           Sides(l, r, L, R, c, k, v), color => ~IsRed(l) /\ ~IsRed(r)
    PROVE  /\ Tree(Balance(Mk(k, v, l, r, color, n)), L \cup {<<k, v>>} \cup R, c + Weight(color))
           /\ ~color /\ ~(IsRed(l) /\ IsRed(r)) => ~IsRed(Balance(Mk(k, v, l, r, color, n)))
           /\ BalancePut(Mk(k, v, l, r, color, n)) = Balance(Mk(k, v, l, r, color, n))
<1>0. /\ Tree(l, L, c) /\ Tree(r, R, c) /\ c \in Nat
      /\ InOrder(L, <<k, v>>, R)
  BY DEF Sides
<1>1. CASE ~IsRed(r)
  <2>1. ~(IsRed(l) /\ IsRed(l.m_pLeft))
    BY <1>0, RedAlone
  <2>2. /\ Balance(Mk(k, v, l, r, color, n)) = Nd(k, v, l, r, color)
        /\ BalancePut(Mk(k, v, l, r, color, n)) = Nd(k, v, l, r, color)
    BY <1>1, <2>1, BalanceNone
  <2>3. Tree(Nd(k, v, l, r, color), L \cup {<<k, v>>} \cup R, c + Weight(color))
    BY <1>1, TreeMade
  <2>4. IsRed(Nd(k, v, l, r, color)) <=> color
    BY MkColor DEF Nd
  <2> QED  BY <2>2, <2>3, <2>4
<1>2. CASE IsRed(r)
  <2>0. color = Black /\ ~color
    BY <1>2, Colors
  <2>1. PICK k2, v2, l2, r2, L2, R2 :
          /\ Sides(l2, r2, L2, R2, c, k2, v2) /\ r = Nd(k2, v2, l2, r2, Red)
          /\ R = L2 \cup {<<k2, v2>>} \cup R2 /\ ~IsRed(r2) /\ ~IsRed(l2)
    BY <1>0, <1>2, RedNode
  <2>2. CASE ~IsRed(l)
    <3>1. PICK x, y : y = Nd(k, v, l, l2, Red) /\ x = Nd(k2, v2, y, r2, Black)
      OBVIOUS
    <3>2. /\ Balance(Mk(k, v, l, r, color, n)) = x
          /\ BalancePut(Mk(k, v, l, r, color, n)) = x
      BY <2>0, <2>1, <2>2, <3>1, BalanceRight DEF Nd
    <3>3. /\ InOrder(L, <<k, v>>, L2) /\ InOrder(L \cup {<<k, v>>} \cup L2, <<k2, v2>>, R2)
          /\ (L \cup {<<k, v>>} \cup L2) \cup {<<k2, v2>>} \cup R2 = L \cup {<<k, v>>} \cup R
      BY <1>0, <2>1, Reorder DEF Sides
    <3>4. Sides(l, l2, L, L2, c, k, v)
      BY <2>1, <3>3 DEF Sides
    <3>5. Tree(y, L \cup {<<k, v>>} \cup L2, c)
      BY <2>1, <2>2, <3>1, <3>4, RedMade
    <3>6. Sides(y, r2, L \cup {<<k, v>>} \cup L2, R2, c, k2, v2)
      BY <2>1, <3>3, <3>5 DEF Sides
    <3>7. Tree(x, L \cup {<<k, v>>} \cup R, c + 1) /\ ~IsRed(x)
      BY <2>1, <3>1, <3>3, <3>6, BlackMade
    <3> QED  BY <2>0, <3>2, <3>7, Weights
  <2>3. CASE IsRed(l)
    <3>1. PICK k1, v1, l1, r1, L1, R1 :
            /\ Sides(l1, r1, L1, R1, c, k1, v1) /\ l = Nd(k1, v1, l1, r1, Red)
            /\ L = L1 \cup {<<k1, v1>>} \cup R1 /\ ~IsRed(r1) /\ ~IsRed(l1)
      BY <1>0, <2>3, RedNode
    <3>2. PICK x, y, z : /\ y = Nd(k1, v1, l1, r1, Black) /\ z = Nd(k2, v2, l2, r2, Black)
                         /\ x = Nd(k, v, y, z, Red)
      OBVIOUS
    <3>3. /\ Balance(Mk(k, v, l, r, color, n)) = x
          /\ BalancePut(Mk(k, v, l, r, color, n)) = x
      <4>1. Flipped(color) = Red
        BY <2>0, Colors
      <4> QED  BY <2>1, <3>1, <3>2, <4>1, BalanceBoth
    <3>4. Tree(y, L, c + 1) /\ Tree(z, R, c + 1) /\ ~IsRed(y) /\ ~IsRed(z) /\ c + 1 \in Nat
      BY <2>1, <3>1, <3>2, BlackMade
    <3>5. Sides(y, z, L, R, c + 1, k, v)
      BY <3>4, SidesAgain
    <3>6. Tree(x, L \cup {<<k, v>>} \cup R, c + 1)
      BY <3>2, <3>4, <3>5, RedMade
    <3> QED  BY <1>2, <2>0, <2>3, <3>3, <3>6, Weights
  <2> QED  BY <2>2, <2>3
<1> QED  BY <1>1, <1>2

\* A red node with a red one on its left.
TwoReds(x, E, b) ==
    \E k, v, l, r, L, R :
        /\ Sides(l, r, L, R, b, k, v) /\ x = Nd(k, v, l, r, Red)
        /\ E = L \cup {<<k, v>>} \cup R /\ ~IsRed(r) /\ IsRed(l)

\* What Put can make of a side: a tree, or one whose root is red as the node
\* below it is.
Near(x, E, b) == Tree(x, E, b) \/ TwoReds(x, E, b)

\* Put went to the right, or to a black node on the left.
LEMMA PutBalanced ==
    ASSUME NEW k, NEW v, NEW l, NEW r, NEW color \in BOOLEAN, NEW n, NEW L, NEW R, NEW c,
           Sides(l, r, L, R, c, k, v), ~(color /\ IsRed(l) /\ IsRed(r))
    PROVE  /\ Near(BalancePut(Mk(k, v, l, r, color, n)), L \cup {<<k, v>>} \cup R, c + Weight(color))
           /\ ~color => Tree(BalancePut(Mk(k, v, l, r, color, n)), L \cup {<<k, v>>} \cup R, c + Weight(color))
<1>0. /\ Tree(l, L, c) /\ Tree(r, R, c) /\ c \in Nat
      /\ InOrder(L, <<k, v>>, R)
  BY DEF Sides
<1>1. CASE color => ~IsRed(l) /\ ~IsRed(r)
  <2>1. PICK x, y : x = BalancePut(Mk(k, v, l, r, color, n)) /\ y = Balance(Mk(k, v, l, r, color, n))
    OBVIOUS
  <2>2. Tree(y, L \cup {<<k, v>>} \cup R, c + Weight(color)) /\ x = y
    BY <1>1, <2>1, Rebalanced
  <2> QED  BY <2>1, <2>2 DEF Near
<1>2. CASE color /\ IsRed(l) /\ ~IsRed(r)
  <2>0. color = Red
    BY <1>2, Colors
  <2>1. ~(IsRed(l) /\ IsRed(l.m_pLeft))
    BY <1>0, RedAlone
  <2>2. BalancePut(Mk(k, v, l, r, color, n)) = Nd(k, v, l, r, Red)
    BY <1>2, <2>0, <2>1, BalanceNone
  <2>3. TwoReds(Nd(k, v, l, r, Red), L \cup {<<k, v>>} \cup R, c)
    BY <1>2 DEF TwoReds
  <2>4. c + Weight(color) = c
    BY <1>0, <2>0, Weights
  <2> QED  BY <1>2, <2>2, <2>3, <2>4 DEF Near
<1>3. CASE color /\ ~IsRed(l) /\ IsRed(r)
  <2>0. color = Red
    BY <1>3, Colors
  <2>1. PICK k2, v2, l2, r2, L2, R2 :
          /\ Sides(l2, r2, L2, R2, c, k2, v2) /\ r = Nd(k2, v2, l2, r2, Red)
          /\ R = L2 \cup {<<k2, v2>>} \cup R2 /\ ~IsRed(r2) /\ ~IsRed(l2)
    BY <1>0, <1>3, RedNode
  <2>2. PICK x, y : y = Nd(k, v, l, l2, Red) /\ x = Nd(k2, v2, y, r2, Red)
    OBVIOUS
  <2>3. BalancePut(Mk(k, v, l, r, color, n)) = x
    <3>1. PICK m : m = Size(l2) + Size(r2) + 1
      OBVIOUS
    <3>2. r = Mk(k2, v2, l2, r2, Red, m) /\ ~IsRed(l) /\ ~IsRed(r2)
      BY <1>3, <2>1, <3>1 DEF Nd
    <3>3. BalancePut(Mk(k, v, l, r, color, n)) = Nd(k2, v2, Nd(k, v, l, l2, Red), r2, color)
      BY <3>2, BalanceRight
    <3> QED  BY <2>0, <2>2, <3>3
  <2>4. /\ InOrder(L, <<k, v>>, L2) /\ InOrder(L \cup {<<k, v>>} \cup L2, <<k2, v2>>, R2)
        /\ (L \cup {<<k, v>>} \cup L2) \cup {<<k2, v2>>} \cup R2 = L \cup {<<k, v>>} \cup R
    BY <1>0, <2>1, Reorder DEF Sides
  <2>5. Sides(l, l2, L, L2, c, k, v)
    BY <2>1, <2>4 DEF Sides
  <2>6. Tree(y, L \cup {<<k, v>>} \cup L2, c) /\ IsRed(y)
    BY <2>1, <1>3, <2>2, <2>5, RedMade
  <2>7. Sides(y, r2, L \cup {<<k, v>>} \cup L2, R2, c, k2, v2)
    BY <2>1, <2>4, <2>6 DEF Sides
  <2>8. TwoReds(x, L \cup {<<k, v>>} \cup R, c)
    BY <2>1, <2>2, <2>4, <2>6, <2>7 DEF TwoReds
  <2>9. c + Weight(color) = c
    BY <1>0, <2>0, Weights
  <2> QED  BY <1>3, <2>3, <2>8, <2>9 DEF Near
<1> QED  BY <1>1, <1>2, <1>3

\* Put went to a red node on the left and left two reds there.
LEMMA PutLeftBalanced ==
    ASSUME NEW k \in Keys, NEW v \in Vals, NEW l, NEW r, NEW n, NEW L, NEW R, NEW c,
           TwoReds(l, L, c), Tree(r, R, c), InOrder(L, <<k, v>>, R), ~IsRed(r)
    PROVE  Tree(BalancePut(Mk(k, v, l, r, Black, n)), L \cup {<<k, v>>} \cup R, c + 1)
<1>1. PICK k1, v1, x0, r1, M, R1 :
        /\ Sides(x0, r1, M, R1, c, k1, v1) /\ l = Nd(k1, v1, x0, r1, Red)
        /\ L = M \cup {<<k1, v1>>} \cup R1 /\ ~IsRed(r1) /\ IsRed(x0)
  BY DEF TwoReds
<1>2. PICK k0, v0, l0, r0, L0, R0 :
        /\ Sides(l0, r0, L0, R0, c, k0, v0) /\ x0 = Nd(k0, v0, l0, r0, Red)
        /\ M = L0 \cup {<<k0, v0>>} \cup R0 /\ ~IsRed(r0) /\ ~IsRed(l0)
  BY <1>1, RedNode DEF Sides
<1>3. PICK x, y, z : /\ y = Nd(k0, v0, l0, r0, Black) /\ z = Nd(k, v, r1, r, Black)
                     /\ x = Nd(k1, v1, y, z, Red)
  OBVIOUS
<1>4. BalancePut(Mk(k, v, l, r, Black, n)) = x
  <2>1. Flipped(Black) = Red /\ Black \in BOOLEAN
    BY Colors
  <2> QED  BY <1>1, <1>2, <1>3, <2>1, BalanceLeft
<1>5. /\ InOrder(M, <<k1, v1>>, R1 \cup {<<k, v>>} \cup R) /\ InOrder(R1, <<k, v>>, R)
      /\ M \cup {<<k1, v1>>} \cup (R1 \cup {<<k, v>>} \cup R) = L \cup {<<k, v>>} \cup R
  BY <1>1, Reorder DEF Sides
<1>6. Tree(y, M, c + 1) /\ ~IsRed(y) /\ c + 1 \in Nat
  BY <1>2, <1>3, BlackMade
<1>7. Sides(r1, r, R1, R, c, k, v)
  BY <1>1, <1>5 DEF Sides
<1>8. Tree(z, R1 \cup {<<k, v>>} \cup R, c + 1) /\ ~IsRed(z)
  BY <1>3, <1>7, BlackMade
<1>9. Sides(y, z, M, R1 \cup {<<k, v>>} \cup R, c + 1, k1, v1)
  BY <1>1, <1>5, <1>6, <1>8 DEF Sides
<1>10. Tree(x, L \cup {<<k, v>>} \cup R, c + 1)
  BY <1>3, <1>5, <1>6, <1>8, <1>9, RedMade
<1> QED  BY <1>4, <1>10

-----------------------------------------------------------------------------
(* Put                                                                     *)

\* The entries without those of a key, and with one for it.
Without(E, key) == {e \in E : e[1] # key}
Added(E, key, val) == Without(E, key) \cup {<<key, val>>}

\* The entries L and R leave a place between them for the key k.
Around(L, k, v, R) ==
    /\ L \subseteq Keys \X Vals /\ R \subseteq Keys \X Vals /\ k \in Keys
    /\ InOrder(L, <<k, v>>, R)

\* A key is before another, or after it.
IsBefore(key, k) == compare(key, k) < 0
IsAfter(key, k) == compare(key, k) > 0
IsAt(key, k) == compare(key, k) = 0

\* Taking the entries of a key from one side keeps the order.
LEMMA WithoutOrder ==
    ASSUME NEW L, NEW R, NEW k, NEW v, InOrder(L, <<k, v>>, R), NEW key
    PROVE  /\ InOrder(L, <<k, v>>, Without(R, key)) /\ InOrder(Without(L, key), <<k, v>>, R)
           /\ Without(R, key) \subseteq R /\ Without(L, key) \subseteq L
BY DEF InOrder, Before, Without

\* A key after k is not on the left of it.
LEMMA KeyRight ==
    ASSUME NEW L, NEW R, NEW k, NEW v, Around(L, k, v, R), NEW key \in Keys, IsAfter(key, k)
    PROVE  /\ compare(k, key) < 0 /\ k # key
           /\ \A e \in L : compare(e[1], key) < 0 /\ e[1] # key
           /\ Without(L \cup {<<k, v>>} \cup R, key) = L \cup {<<k, v>>} \cup Without(R, key)
<1>1. \A e \in L : e[1] \in Keys /\ compare(e[1], k) < 0
  BY DEF Around, InOrder, Before
<1>2. compare(k, key) < 0 /\ compare(key, key) = 0
  BY KeyOrder DEF Around, IsAfter, IsBefore, IsAt
<1>3. \A e \in L : compare(e[1], key) < 0
  BY <1>1, <1>2, KeyOrder DEF Around
<1>4. k # key /\ \A e \in L : e[1] # key
  BY <1>2, <1>3
<1> QED  BY <1>2, <1>3, <1>4 DEF Without

\* A key before k is not on the right of it.
LEMMA KeyLeft ==
    ASSUME NEW L, NEW R, NEW k, NEW v, Around(L, k, v, R), NEW key \in Keys, IsBefore(key, k)
    PROVE  /\ k # key
           /\ \A e \in R : compare(key, e[1]) < 0 /\ e[1] # key
           /\ Without(L \cup {<<k, v>>} \cup R, key) = Without(L, key) \cup {<<k, v>>} \cup R
<1>1. \A e \in R : e[1] \in Keys /\ compare(k, e[1]) < 0
  BY DEF Around, InOrder, Before
<1>2. compare(key, key) = 0
  BY KeyOrder DEF Around, IsAfter, IsBefore, IsAt
<1>3. \A e \in R : compare(key, e[1]) < 0
  BY <1>1, KeyOrder DEF Around, IsBefore
<1>4. k # key /\ \A e \in R : e[1] # key
  BY <1>2, <1>3 DEF IsBefore
<1> QED  BY <1>3, <1>4 DEF Without

\* The key of k is on neither side.
LEMMA KeyHere ==
    ASSUME NEW L, NEW R, NEW k, NEW v, Around(L, k, v, R), NEW key \in Keys, IsAt(key, k)
    PROVE  /\ key = k
           /\ Without(L \cup {<<k, v>>} \cup R, key) = L \cup R
<1>1. \A e \in L : e[1] \in Keys /\ compare(e[1], k) < 0
  BY DEF Around, InOrder, Before
<1>2. \A e \in R : e[1] \in Keys /\ compare(k, e[1]) < 0
  BY DEF Around, InOrder, Before
<1>3. key = k
  BY KeyOrder DEF Around, IsAfter, IsBefore, IsAt
<1>4. (\A e \in L : e[1] # key) /\ (\A e \in R : e[1] # key)
  BY <1>1, <1>2, <1>3 DEF IsAt
<1> QED  BY <1>3, <1>4 DEF Without

\* The entries L, the one of k, and R.
Spread(L, k, v, R) == L \cup {<<k, v>>} \cup R

\* An entry put on the right of k.
LEMMA AddedRight ==
    ASSUME NEW L, NEW R, NEW k, NEW v, Around(L, k, v, R), NEW key \in Keys, NEW val, IsAfter(key, k)
    PROVE  /\ Added(Spread(L, k, v, R), key, val) = Spread(L, k, v, Added(R, key, val))
           /\ InOrder(L, <<k, v>>, Added(R, key, val))
<1>0. Without(L \cup {<<k, v>>} \cup R, key) = L \cup {<<k, v>>} \cup Without(R, key)
  BY KeyRight
<1>1. /\ compare(k, key) < 0
      /\ \A e \in L : compare(e[1], key) < 0
  BY KeyRight
<1>2. InOrder(L, <<k, v>>, Without(R, key))
  BY WithoutOrder DEF Around
<1>3. InOrder(L, <<k, v>>, Added(R, key, val))
  BY <1>1, <1>2 DEF InOrder, Before, Added, IsBefore, IsAfter
<1> QED  BY <1>0, <1>3 DEF Added, Spread

\* An entry put on the left of k.
LEMMA AddedLeft ==
    ASSUME NEW L, NEW R, NEW k, NEW v, Around(L, k, v, R), NEW key \in Keys, NEW val, IsBefore(key, k)
    PROVE  /\ Added(Spread(L, k, v, R), key, val) = Spread(Added(L, key, val), k, v, R)
           /\ InOrder(Added(L, key, val), <<k, v>>, R)
<1>0. Without(L \cup {<<k, v>>} \cup R, key) = Without(L, key) \cup {<<k, v>>} \cup R
  BY KeyLeft
<1>1. \A e \in R : compare(key, e[1]) < 0
  BY KeyLeft
<1>2. InOrder(Without(L, key), <<k, v>>, R)
  BY WithoutOrder DEF Around
<1>3. InOrder(Added(L, key, val), <<k, v>>, R)
  BY <1>1, <1>2 DEF InOrder, Before, Added, IsBefore, IsAfter
<1> QED  BY <1>0, <1>3 DEF Added, Spread

\* An entry put in the place of the one of k.
LEMMA AddedHere ==
    ASSUME NEW L, NEW R, NEW k, NEW v, Around(L, k, v, R), NEW key \in Keys, NEW val, IsAt(key, k)
    PROVE  /\ Added(Spread(L, k, v, R), key, val) = Spread(L, k, val, R)
           /\ InOrder(L, <<k, val>>, R)
<1>1. key = k /\ Without(L \cup {<<k, v>>} \cup R, key) = L \cup R
  BY KeyHere
<1>2. InOrder(L, <<k, val>>, R)
  BY DEF Around, InOrder, Before
<1> QED  BY <1>1, <1>2 DEF Added, Spread

\* The entries of a tree are of keys and values.
LEMMA TreeEntries ==
    ASSUME NEW x, NEW E, NEW b, Tree(x, E, b)
    PROVE  E \in SUBSET (Keys \X Vals) /\ b \in Nat
BY TreeFits DEF Fits, Tree

\* A step of PutInNode that goes on to the right.
LEMMA PutStepRight ==
    ASSUME NEW k \in Keys, NEW v, NEW l, NEW r, NEW color, NEW n, NEW f, NEW key \in Keys, NEW val, IsAfter(key, k)
    PROVE  PutStep(Mk(k, v, l, r, color, n), f, key, val) = BalancePut(Mk(k, v, l, f[r], color, n))
<1>1. PICK x : x = Mk(k, v, l, r, color, n)
  OBVIOUS
<1>2. /\ x.m_Key = k /\ x.m_pLeft = l /\ x.m_pRight = r
  BY <1>1, MkFields
<1>3. [x EXCEPT !.m_pRight = f[@]] = Mk(k, v, l, f[r], color, n)
  BY <1>1 DEF Mk
<1> QED  BY <1>1, <1>2, <1>3, KeyOrder DEF PutStep, IsAfter

\* One that goes on to the left.
LEMMA PutStepLeft ==
    ASSUME NEW k \in Keys, NEW v, NEW l, NEW r, NEW color, NEW n, NEW f, NEW key \in Keys, NEW val, IsBefore(key, k)
    PROVE  PutStep(Mk(k, v, l, r, color, n), f, key, val) = BalancePut(Mk(k, v, f[l], r, color, n))
<1>1. PICK x : x = Mk(k, v, l, r, color, n)
  OBVIOUS
<1>2. /\ x.m_Key = k /\ x.m_pLeft = l /\ x.m_pRight = r
  BY <1>1, MkFields
<1>3. [x EXCEPT !.m_pLeft = f[@]] = Mk(k, v, f[l], r, color, n)
  BY <1>1 DEF Mk
<1> QED  BY <1>1, <1>2, <1>3, KeyOrder DEF PutStep, IsBefore

\* One that finds the key.
LEMMA PutStepHere ==
    ASSUME NEW k \in Keys, NEW v, NEW l, NEW r, NEW color, NEW n, NEW f, NEW key \in Keys, NEW val, IsAt(key, k)
    PROVE  PutStep(Mk(k, v, l, r, color, n), f, key, val) = BalancePut(Mk(k, val, l, r, color, n))
<1>1. PICK x : x = Mk(k, v, l, r, color, n)
  OBVIOUS
<1>2. /\ x.m_Key = k /\ x.m_pLeft = l /\ x.m_pRight = r
  BY <1>1, MkFields
<1>3. [x EXCEPT !.m_Val = val] = Mk(k, val, l, r, color, n)
  BY <1>1 DEF Mk
<1> QED  BY <1>1, <1>2, <1>3, KeyOrder DEF PutStep, IsAt

\* Put in a tree: a tree of the entries with the new one, as high, but for two
\* reds at the root if it was red.
PutIsGood(x, y, key, val) ==
    \A E, b : Tree(x, E, b) => /\ Near(y, Added(E, key, val), b)
                               /\ ~IsRed(x) => Tree(y, Added(E, key, val), b)

\* A new node.
LEMMA PutNil ==
    ASSUME NEW key \in Keys, NEW val \in Vals
    PROVE  PutIsGood(NIL, NewNode(key, val), key, val)
<1>1. Tree(NIL, {}, 0) /\ ~IsRed(NIL) /\ Size(NIL) = 0
  BY TreeNil DEF IsRed, Size
<1>2. NewNode(key, val) = Nd(key, val, NIL, NIL, Red)
  BY <1>1 DEF NewNode, Nd, Mk, Red
<1>3. InOrder({}, <<key, val>>, {})
  BY DEF InOrder, Before
<1>4. Sides(NIL, NIL, {}, {}, 0, key, val)
  BY <1>1, <1>3 DEF Sides
<1>5. Tree(NewNode(key, val), {} \cup {<<key, val>>} \cup {}, 0)
  BY <1>1, <1>2, <1>4, RedMade
<1>6. Added({}, key, val) = {} \cup {<<key, val>>} \cup {}
  BY DEF Added, Without
<1>7. Tree(NewNode(key, val), Added({}, key, val), 0)
  BY <1>5, <1>6
<1> QED  BY <1>7, TreeNil DEF PutIsGood, Near

\* One step, when the steps below are good.
LEMMA PutStepGood ==
    ASSUME NEW x, x # NIL, NEW f, NEW key \in Keys, NEW val \in Vals,
           PutIsGood(x.m_pLeft, f[x.m_pLeft], key, val), PutIsGood(x.m_pRight, f[x.m_pRight], key, val)
    PROVE  PutIsGood(x, PutStep(x, f, key, val), key, val)
<1> SUFFICES ASSUME NEW E, NEW b, Tree(x, E, b)
             PROVE  /\ Near(PutStep(x, f, key, val), Added(E, key, val), b)
                    /\ ~IsRed(x) => Tree(PutStep(x, f, key, val), Added(E, key, val), b)
  BY DEF PutIsGood
<1>1. PICK k, v, l, r, color, L, R, c :
        /\ Sides(l, r, L, R, c, k, v)
        /\ x = Mk(k, v, l, r, color, Size(l) + Size(r) + 1)
        /\ E = L \cup {<<k, v>>} \cup R /\ b = c + Weight(color)
        /\ color \in BOOLEAN /\ ~IsRed(r) /\ ~(color /\ IsRed(l))
  BY TreeParts
<1>2. PICK n : n = Size(l) + Size(r) + 1
  OBVIOUS
<1>3. x = Mk(k, v, l, r, color, n)
  BY <1>1, <1>2
<1>4. /\ Tree(l, L, c) /\ Tree(r, R, c) /\ c \in Nat
      /\ k \in Keys /\ v \in Vals /\ InOrder(L, <<k, v>>, R)
      /\ x.m_pLeft = l /\ x.m_pRight = r /\ (IsRed(x) <=> color)
  BY <1>1, <1>3, MkFields, MkColor DEF Sides
<1>5. Around(L, k, v, R)
  BY <1>4, TreeEntries DEF Around
<1>9. IsAfter(key, k) \/ IsBefore(key, k) \/ IsAt(key, k)
  BY <1>4, KeyOrder DEF IsAfter, IsBefore, IsAt
<1>10. E = Spread(L, k, v, R)
  BY <1>1 DEF Spread
<1>6. CASE IsAfter(key, k)
  <2>1. PICK r1 : r1 = f[r]
    OBVIOUS
  <2>2. Tree(r1, Added(R, key, val), c)
    BY <1>1, <1>4, <2>1 DEF PutIsGood
  <2>3. /\ Added(E, key, val) = Spread(L, k, v, Added(R, key, val))
        /\ InOrder(L, <<k, v>>, Added(R, key, val))
    BY <1>5, <1>6, <1>10, AddedRight
  <2>4. Sides(l, r1, L, Added(R, key, val), c, k, v)
    BY <1>4, <2>2, <2>3 DEF Sides
  <2>5. PICK y : y = BalancePut(Mk(k, v, l, r1, color, n))
    OBVIOUS
  <2>6. PutStep(x, f, key, val) = y
    <3>1. PutStep(Mk(k, v, l, r, color, n), f, key, val) = BalancePut(Mk(k, v, l, f[r], color, n))
      BY <1>4, <1>6, PutStepRight
    <3> QED  BY <1>3, <2>1, <2>5, <3>1
  <2>8. color \in BOOLEAN /\ ~(color /\ IsRed(l) /\ IsRed(r1))
    BY <1>1
  <2>7. /\ Near(y, Spread(L, k, v, Added(R, key, val)), c + Weight(color))
        /\ ~color => Tree(y, Spread(L, k, v, Added(R, key, val)), c + Weight(color))
    BY <2>4, <2>5, <2>8, PutBalanced DEF Spread
  <2> QED  BY <1>1, <1>4, <2>3, <2>6, <2>7
<1>7. CASE IsBefore(key, k)
  <2>1. PICK l1 : l1 = f[l]
    OBVIOUS
  <2>2. /\ Near(l1, Added(L, key, val), c)
        /\ ~IsRed(l) => Tree(l1, Added(L, key, val), c)
    BY <1>4, <2>1 DEF PutIsGood
  <2>3. /\ Added(E, key, val) = Spread(Added(L, key, val), k, v, R)
        /\ InOrder(Added(L, key, val), <<k, v>>, R)
    BY <1>5, <1>7, <1>10, AddedLeft
  <2>5. PICK y : y = BalancePut(Mk(k, v, l1, r, color, n))
    OBVIOUS
  <2>6. PutStep(x, f, key, val) = y
    <3>1. PutStep(Mk(k, v, l, r, color, n), f, key, val) = BalancePut(Mk(k, v, f[l], r, color, n))
      BY <1>4, <1>7, PutStepLeft
    <3> QED  BY <1>3, <2>1, <2>5, <3>1
  <2>7. CASE Tree(l1, Added(L, key, val), c)
    <3>1. Sides(l1, r, Added(L, key, val), R, c, k, v)
      BY <1>4, <2>3, <2>7 DEF Sides
    <3>3. color \in BOOLEAN /\ ~(color /\ IsRed(l1) /\ IsRed(r))
      BY <1>1
    <3>2. /\ Near(y, Spread(Added(L, key, val), k, v, R), c + Weight(color))
          /\ ~color => Tree(y, Spread(Added(L, key, val), k, v, R), c + Weight(color))
      BY <2>5, <3>1, <3>3, PutBalanced DEF Spread
    <3> QED  BY <1>1, <1>4, <2>3, <2>6, <3>2
  <2>8. CASE TwoReds(l1, Added(L, key, val), c) /\ IsRed(l)
    <3>1. color = Black
      BY <1>1, <2>8, Colors
    <3>2. y = BalancePut(Mk(k, v, l1, r, Black, n))
      BY <2>5, <3>1
    <3>3. Tree(y, Spread(Added(L, key, val), k, v, R), c + 1)
      BY <1>1, <1>4, <2>3, <2>8, <3>2, PutLeftBalanced DEF Spread
    <3>4. Tree(y, Added(E, key, val), b)
      BY <1>1, <2>3, <3>1, <3>3, Weights
    <3> QED  BY <2>6, <3>4 DEF Near
  <2> QED  BY <2>2, <2>7, <2>8 DEF Near
<1>8. CASE IsAt(key, k)
  <2>1. /\ Added(E, key, val) = Spread(L, k, val, R)
        /\ InOrder(L, <<k, val>>, R)
    BY <1>5, <1>8, <1>10, AddedHere
  <2>2. Sides(l, r, L, R, c, k, val)
    BY <1>4, <2>1 DEF Sides
  <2>3. PICK y : y = BalancePut(Mk(k, val, l, r, color, n))
    OBVIOUS
  <2>4. PutStep(x, f, key, val) = y
    <3>1. PutStep(Mk(k, v, l, r, color, n), f, key, val) = BalancePut(Mk(k, val, l, r, color, n))
      BY <1>4, <1>8, PutStepHere
    <3> QED  BY <1>3, <2>3, <3>1
  <2>6. color \in BOOLEAN /\ ~(color /\ IsRed(l) /\ IsRed(r))
    BY <1>1
  <2>5. /\ Near(y, Spread(L, k, val, R), c + Weight(color))
        /\ ~color => Tree(y, Spread(L, k, val, R), c + Weight(color))
    BY <2>2, <2>3, <2>6, PutBalanced DEF Spread
  <2> QED  BY <1>1, <1>4, <2>1, <2>4, <2>5
<1> QED  BY <1>6, <1>7, <1>8, <1>9

\* PutInNode, on trees of any number of levels.
LEMMA PutMade ==
    ASSUME NEW key \in Keys, NEW val \in Vals, NEW x \in Trees[MaxDepth]
    PROVE  PutIsGood(x, PutInNode(x, key, val), key, val)
<1>1. PICK f : /\ \A h : PutInNode(h, key, val) = f[MaxDepth][h]
               /\ \A n \in 0 .. MaxDepth : \A y \in Trees[n] :
                      f[n][y] = IF y = NIL THEN NewNode(key, val) ELSE PutStep(y, f[n - 1], key, val)
  BY PutIs
<1> DEFINE T == {n \in 0 .. MaxDepth : \A y \in Trees[n] : PutIsGood(y, f[n][y], key, val)}
<1>2. 0 \in T
  <2>1. 0 \in 0 .. MaxDepth /\ \A y \in Trees[0] : y = NIL
    BY DepthNat, TreesIs
  <2> QED  BY <2>1, <1>1, PutNil
<1>3. ASSUME NEW m \in 0 .. MaxDepth - 1, m \in T PROVE m + 1 \in T
  <2>1. m + 1 \in 0 .. MaxDepth /\ (m + 1) - 1 = m
    BY DepthNat
  <2>2. ASSUME NEW y \in Trees[m + 1] PROVE PutIsGood(y, f[m + 1][y], key, val)
    <3>1. CASE y = NIL
      BY <3>1, <2>1, <1>1, PutNil
    <3>2. CASE y # NIL
      <4>1. y.m_pLeft \in Trees[m] /\ y.m_pRight \in Trees[m]
        BY <2>1, <3>2, NodeBelow
      <4>2. PICK g : g = f[m]
        OBVIOUS
      <4>3. PutIsGood(y.m_pLeft, g[y.m_pLeft], key, val) /\ PutIsGood(y.m_pRight, g[y.m_pRight], key, val)
        BY <4>1, <4>2, <1>3
      <4>4. f[m + 1][y] = PutStep(y, g, key, val)
        BY <1>1, <2>1, <3>2, <4>2
      <4> QED  BY <3>2, <4>3, <4>4, PutStepGood
    <3> QED  BY <3>1, <3>2
  <2> QED  BY <2>1, <2>2
<1>4. \A n \in 0 .. MaxDepth : n \in T
  <2> HIDE DEF T
  <2> QED  BY <1>2, <1>3, UpTo, DepthNat
<1> QED  BY <1>1, <1>4, DepthNat

\* A tree with a black root.
BlackTree(x, E, b) == Tree(x, E, b) /\ ~IsRed(x)

\* A tree whose root is made black.
LEMMA BlackenedTree ==
    ASSUME NEW y, NEW E, NEW b, Tree(y, E, b)
    PROVE  \E c : BlackTree(Blackened(y), E, c)
<1>1. CASE y = NIL
  BY <1>1 DEF Blackened, BlackTree, IsRed
<1>2. CASE y # NIL
  <2>1. PICK k, v, l, r, color, L, R, c :
          /\ Sides(l, r, L, R, c, k, v)
          /\ y = Mk(k, v, l, r, color, Size(l) + Size(r) + 1)
          /\ E = L \cup {<<k, v>>} \cup R
          /\ color \in BOOLEAN /\ ~IsRed(r)
    BY <1>2, TreeParts
  <2>2. PICK n : n = Size(l) + Size(r) + 1
    OBVIOUS
  <2>3. y = Mk(k, v, l, r, color, n)
    BY <2>1, <2>2
  <2>4. Blackened(y) = [y EXCEPT !.m_Color = Black]
    BY <1>2 DEF Blackened, Black
  <2>5. [y EXCEPT !.m_Color = Black] = Mk(k, v, l, r, Black, n)
    BY <2>3 DEF Mk
  <2>6. Mk(k, v, l, r, Black, n) = Nd(k, v, l, r, Black)
    BY <2>2 DEF Nd
  <2>7. /\ Tree(Nd(k, v, l, r, Black), L \cup {<<k, v>>} \cup R, c + 1)
        /\ ~IsRed(Nd(k, v, l, r, Black))
    BY <2>1, BlackMade
  <2> QED  BY <2>1, <2>4, <2>5, <2>6, <2>7 DEF BlackTree
<1> QED  BY <1>1, <1>2

\* Put leaves a black root.
LEMMA PutRootMade ==
    ASSUME NEW x, NEW E, NEW b, BlackTree(x, E, b), NEW key \in Keys, NEW val \in Vals
    PROVE  \E c : BlackTree(PutRoot(x, key, val), Added(E, key, val), c)
<1>1. x \in Trees[MaxDepth]
  BY DEF BlackTree, Tree
<1>2. Tree(PutInNode(x, key, val), Added(E, key, val), b)
  BY <1>1, PutMade DEF PutIsGood, BlackTree
<1> QED  BY <1>2, BlackenedTree DEF PutRoot

-----------------------------------------------------------------------------
(* DeleteMin                                                               *)

\* A tree without black links that is not red has no nodes.
LEMMA NoHeight ==
    ASSUME NEW x, NEW E, Tree(x, E, 0), ~IsRed(x)
    PROVE  x = NIL /\ E = {}
<1>1. ASSUME x # NIL PROVE FALSE
  <2>1. PICK k, v, l, r, color, L, R, c :
          /\ Sides(l, r, L, R, c, k, v)
          /\ x = Mk(k, v, l, r, color, Size(l) + Size(r) + 1)
          /\ 0 = c + Weight(color) /\ color \in BOOLEAN
    BY <1>1, TreeParts
  <2>2. c \in Nat
    BY <2>1 DEF Sides
  <2>3. color
    BY <2>1, <2>2 DEF Weight
  <2>4. PICK n : n = Size(l) + Size(r) + 1
    OBVIOUS
  <2>5. x = Mk(k, v, l, r, color, n)
    BY <2>1, <2>4
  <2>7. color = Red
    BY <2>1, <2>3, Colors
  <2>6. IsRed(x)
    BY <2>5, <2>7, MkRed
  <2> QED  BY <2>6
<1>2. x = NIL
  BY <1>1
<1> QED  BY <1>2, TreeNil

\* A tree that is not red and has a black link is a black node.
LEMMA BlackNode ==
    ASSUME NEW x, NEW E, NEW b, Tree(x, E, b), ~IsRed(x), x # NIL
    PROVE  \E k, v, l, r, L, R, c :
               /\ Sides(l, r, L, R, c, k, v) /\ x = Nd(k, v, l, r, Black)
               /\ E = L \cup {<<k, v>>} \cup R /\ b = c + 1 /\ ~IsRed(r)
<1>1. PICK k, v, l, r, color, L, R, c :
        /\ Sides(l, r, L, R, c, k, v)
        /\ x = Mk(k, v, l, r, color, Size(l) + Size(r) + 1)
        /\ E = L \cup {<<k, v>>} \cup R /\ b = c + Weight(color)
        /\ color \in BOOLEAN /\ ~IsRed(r)
  BY TreeParts
<1>2. PICK n : n = Size(l) + Size(r) + 1
  OBVIOUS
<1>3. x = Mk(k, v, l, r, color, n)
  BY <1>1, <1>2
<1>4. color = Black
  BY <1>1, <1>3, MkColor, Colors
<1>5. b = c + 1
  BY <1>1, <1>4, Weights
<1>6. x = Nd(k, v, l, r, Black)
  BY <1>2, <1>3, <1>4 DEF Nd
<1> QED  BY <1>1, <1>5, <1>6

\* A node from which DeleteMin, or DeleteKey, can take a node: it is red, or the
\* one on its left.
Ready(x, E, b) == Tree(x, E, b) /\ x # NIL /\ (IsRed(x) \/ IsRed(x.m_pLeft))

\* A node whose left side is ready and has the entries W: it is balanced again
\* whatever DeleteKey makes of that side.
LeftReady(m, E, b, red, W) ==
    \E k, v, l, r, color, n, L, R, c :
        /\ m = Mk(k, v, l, r, color, n) /\ color \in BOOLEAN
        /\ Sides(l, r, L, R, c, k, v) /\ E = Spread(L, k, v, R) /\ b = c + Weight(color)
        /\ Ready(l, L, c) /\ W \subseteq L
        /\ color => red /\ ~IsRed(l) /\ ~IsRed(r)
        /\ IsRed(r) => red

\* ReadyLeft with nothing to do.
LEMMA AlreadyLeft ==
    ASSUME NEW k, NEW v, NEW l, NEW r, NEW color \in BOOLEAN, NEW n, NEW L, NEW R, NEW c,
           Sides(l, r, L, R, c, k, v), ~IsRed(r), ~(color /\ IsRed(l)), l # NIL,
           IsRed(l) \/ IsRed(l.m_pLeft)
    PROVE  LeftReady(ReadyLeft(Mk(k, v, l, r, color, n)), Spread(L, k, v, R), c + Weight(color), color, L)
<1>1. PICK h : h = Mk(k, v, l, r, color, n)
  OBVIOUS
<1>2. h.m_pLeft = l
  BY <1>1, MkFields
<1>3. ReadyLeft(h) = h
  BY <1>2 DEF ReadyLeft, NoRedLeft
<1>4. Ready(l, L, c)
  BY DEF Ready, Sides
<1> QED  BY <1>1, <1>3, <1>4 DEF LeftReady

\* FlipColors of a red node with black ones below.
LEMMA FlipBlackTwins ==
    ASSUME NEW k, NEW v, NEW n, NEW k1, NEW v1, NEW l1, NEW r1, NEW k2, NEW v2, NEW l2, NEW r2
    PROVE  FlipColors(Mk(k, v, Nd(k1, v1, l1, r1, Black), Nd(k2, v2, l2, r2, Black), Red, n))
               = Mk(k, v, Nd(k1, v1, l1, r1, Red), Nd(k2, v2, l2, r2, Red), Black, n)
<1>1. PICK n1, n2 : n1 = Size(l1) + Size(r1) + 1 /\ n2 = Size(l2) + Size(r2) + 1
  OBVIOUS
<1>2. FlipColors(Mk(k, v, Mk(k1, v1, l1, r1, Black, n1), Mk(k2, v2, l2, r2, Black, n2), Red, n))
          = Mk(k, v, Mk(k1, v1, l1, r1, Flipped(Black), n1), Mk(k2, v2, l2, r2, Flipped(Black), n2), Flipped(Red), n)
  BY FlipColorsIs
<1>3. Flipped(Red) = Black /\ Flipped(Black) = Red
  BY Colors
<1> QED  BY <1>1, <1>2, <1>3 DEF Nd

\* FlipColors of a black node with red ones below.
LEMMA FlipRedTwins ==
    ASSUME NEW k, NEW v, NEW n, NEW k1, NEW v1, NEW l1, NEW r1, NEW k2, NEW v2, NEW l2, NEW r2
    PROVE  FlipColors(Mk(k, v, Nd(k1, v1, l1, r1, Red), Nd(k2, v2, l2, r2, Red), Black, n))
               = Mk(k, v, Nd(k1, v1, l1, r1, Black), Nd(k2, v2, l2, r2, Black), Red, n)
<1>1. PICK n1, n2 : n1 = Size(l1) + Size(r1) + 1 /\ n2 = Size(l2) + Size(r2) + 1
  OBVIOUS
<1>2. FlipColors(Mk(k, v, Mk(k1, v1, l1, r1, Red, n1), Mk(k2, v2, l2, r2, Red, n2), Black, n))
          = Mk(k, v, Mk(k1, v1, l1, r1, Flipped(Red), n1), Mk(k2, v2, l2, r2, Flipped(Red), n2), Flipped(Black), n)
  BY FlipColorsIs
<1>3. Flipped(Red) = Black /\ Flipped(Black) = Red
  BY Colors
<1> QED  BY <1>1, <1>2, <1>3 DEF Nd

\* MoveRedLeft where the right side has no red link to give.
LEMMA MoveRedLeftFlips ==
    ASSUME NEW k, NEW v, NEW n, NEW k1, NEW v1, NEW l1, NEW r1, NEW k2, NEW v2, NEW l2, NEW r2, ~IsRed(l2)
    PROVE  MoveRedLeft(Mk(k, v, Nd(k1, v1, l1, r1, Black), Nd(k2, v2, l2, r2, Black), Red, n))
               = Mk(k, v, Nd(k1, v1, l1, r1, Red), Nd(k2, v2, l2, r2, Red), Black, n)
<1>1. PICK h, f : /\ h = Mk(k, v, Nd(k1, v1, l1, r1, Black), Nd(k2, v2, l2, r2, Black), Red, n)
                  /\ f = Mk(k, v, Nd(k1, v1, l1, r1, Red), Nd(k2, v2, l2, r2, Red), Black, n)
  OBVIOUS
<1>2. FlipColors(h) = f
  BY <1>1, FlipBlackTwins
<1>3. f.m_pRight.m_pLeft = l2
  BY <1>1, MkFields DEF Nd
<1>4. MoveRedLeft(h) = f
  BY <1>2, <1>3 DEF MoveRedLeft
<1> QED  BY <1>1, <1>4

\* MoveRedLeft where it has one.
LEMMA MoveRedLeftRotates ==
    ASSUME NEW k, NEW v, NEW n, NEW k1, NEW v1, NEW l1, NEW r1, NEW k2, NEW v2, NEW r2,
           NEW k3, NEW v3, NEW l3, NEW r3
    PROVE  MoveRedLeft(Mk(k, v, Nd(k1, v1, l1, r1, Black), Nd(k2, v2, Nd(k3, v3, l3, r3, Red), r2, Black), Red, n))
               = Mk(k3, v3, Nd(k, v, Nd(k1, v1, l1, r1, Red), l3, Black), Nd(k2, v2, r3, r2, Black), Red, n)
<1>1. PICK l, g, y : /\ l = Nd(k1, v1, l1, r1, Red) /\ y = Nd(k3, v3, l3, r3, Red)
                     /\ g = Mk(k2, v2, y, r2, Red, Size(y) + Size(r2) + 1)
  OBVIOUS
<1>2. PICK h, f : /\ h = Mk(k, v, Nd(k1, v1, l1, r1, Black), Nd(k2, v2, y, r2, Black), Red, n)
                  /\ f = Mk(k, v, l, g, Black, n)
  OBVIOUS
<1>3. FlipColors(h) = f
  <2>1. g = Nd(k2, v2, y, r2, Red)
    BY <1>1 DEF Nd
  <2> QED  BY <1>1, <1>2, <2>1, FlipBlackTwins
<1>4. f.m_pRight = g /\ IsRed(g.m_pLeft)
  BY <1>1, <1>2, MkFields, MkRed DEF Nd
<1>5. PICK m, w : /\ m = Size(y) + Size(r2) + 1 /\ w = Mk(k3, v3, l3, Nd(k2, v2, r3, r2, Red), Red, m)
  OBVIOUS
<1>6. RotateRight(g) = w
  BY <1>1, <1>5, RotateRightIs DEF Nd
<1>7. [f EXCEPT !.m_pRight = RotateRight(@)] = Mk(k, v, l, w, Black, n)
  <2>1. [f EXCEPT !.m_pRight = w] = Mk(k, v, l, w, Black, n)
    BY <1>2 DEF Mk
  <2>2. [f EXCEPT !.m_pRight = RotateRight(@)] = [f EXCEPT !.m_pRight = w]
    BY <1>4, <1>6
  <2> QED  BY <2>1, <2>2
<1>8. PICK u : u = Mk(k3, v3, Nd(k, v, l, l3, Red), Nd(k2, v2, r3, r2, Red), Black, n)
  OBVIOUS
<1>9. RotateLeft(Mk(k, v, l, w, Black, n)) = u
  BY <1>5, <1>8, RotateLeftIs
<1>10. FlipColors(u) = Mk(k3, v3, Nd(k, v, l, l3, Black), Nd(k2, v2, r3, r2, Black), Red, n)
  BY <1>8, FlipRedTwins
<1>11. MoveRedLeft(h) = FlipColors(u)
  <2>1. MoveRedLeft(h) = FlipColors(RotateLeft([f EXCEPT !.m_pRight = RotateRight(@)]))
    BY <1>3, <1>4, Zenon DEF MoveRedLeft
  <2> QED  BY <2>1, <1>7, <1>9
<1> QED  BY <1>1, <1>2, <1>10, <1>11

\* ReadyLeft of a red node with black ones below, the left one without a red
\* link of its own.
LEMMA MovedLeft ==
    ASSUME NEW k, NEW v, NEW l, NEW r, NEW n, NEW L, NEW R, NEW c,
           Sides(l, r, L, R, c, k, v), ~IsRed(l), ~IsRed(r), l # NIL, ~IsRed(l.m_pLeft)
    PROVE  LeftReady(ReadyLeft(Mk(k, v, l, r, Red, n)), Spread(L, k, v, R), c, Red, L)
<1>0. /\ Tree(l, L, c) /\ Tree(r, R, c) /\ c \in Nat /\ k \in Keys /\ v \in Vals
      /\ InOrder(L, <<k, v>>, R)
  BY DEF Sides
<1>1. PICK k1, v1, l1, r1, L1, R1, c1 :
        /\ Sides(l1, r1, L1, R1, c1, k1, v1) /\ l = Nd(k1, v1, l1, r1, Black)
        /\ L = L1 \cup {<<k1, v1>>} \cup R1 /\ c = c1 + 1 /\ ~IsRed(r1)
  BY <1>0, BlackNode
<1>2. l.m_pLeft = l1 /\ c1 \in Nat
  BY <1>1, MkFields DEF Nd, Sides
<1>3. r # NIL
  BY <1>0, <1>1, <1>2, TreeNil
<1>4. PICK k2, v2, l2, r2, L2, R2, c2 :
        /\ Sides(l2, r2, L2, R2, c2, k2, v2) /\ r = Nd(k2, v2, l2, r2, Black)
        /\ R = L2 \cup {<<k2, v2>>} \cup R2 /\ c = c2 + 1 /\ ~IsRed(r2)
  BY <1>0, <1>3, BlackNode
<1>5. c2 = c1
  BY <1>1, <1>2, <1>4 DEF Sides
<1>6. PICK h : h = Mk(k, v, l, r, Red, n)
  OBVIOUS
<1>7. ReadyLeft(h) = MoveRedLeft(h)
  <2>1. h.m_pLeft = l
    BY <1>6, MkFields
  <2> QED  BY <2>1 DEF ReadyLeft, NoRedLeft
<1>8. PICK x : x = Nd(k1, v1, l1, r1, Red)
  OBVIOUS
<1>9. Tree(x, L, c1) /\ IsRed(x) /\ x # NIL
  BY <1>1, <1>2, <1>8, RedMade DEF IsRed
<1>10. CASE ~IsRed(l2)
  <2>1. PICK y : y = Nd(k2, v2, l2, r2, Red)
    OBVIOUS
  <2>2. Tree(y, R, c1) /\ IsRed(y)
    BY <1>4, <1>5, <1>10, <2>1, RedMade
  <2>3. ReadyLeft(h) = Mk(k, v, x, y, Black, n)
    BY <1>1, <1>4, <1>6, <1>7, <1>8, <1>10, <2>1, MoveRedLeftFlips
  <2>4. Sides(x, y, L, R, c1, k, v)
    BY <1>0, <1>2, <1>9, <2>2 DEF Sides
  <2>5. Ready(x, L, c1) /\ L \subseteq L
    BY <1>9 DEF Ready
  <2>6. c = c1 + Weight(Black) /\ Black \in BOOLEAN /\ ~Black /\ Red
    BY <1>1, Weights, Colors
  <2> QED  BY <1>6, <2>3, <2>4, <2>5, <2>6 DEF LeftReady
<1>11. CASE IsRed(l2)
  <2>1. PICK k3, v3, l3, r3, L3, R3 :
          /\ Sides(l3, r3, L3, R3, c1, k3, v3) /\ l2 = Nd(k3, v3, l3, r3, Red)
          /\ L2 = L3 \cup {<<k3, v3>>} \cup R3 /\ ~IsRed(r3) /\ ~IsRed(l3)
    <3>1. Tree(l2, L2, c1)
      BY <1>4, <1>5 DEF Sides
    <3> QED  BY <1>11, <3>1, RedNode
  <2>2. PICK y, z : y = Nd(k, v, x, l3, Black) /\ z = Nd(k2, v2, r3, r2, Black)
    OBVIOUS
  <2>3. ReadyLeft(h) = Mk(k3, v3, y, z, Red, n)
    BY <1>1, <1>4, <1>6, <1>7, <1>8, <2>1, <2>2, MoveRedLeftRotates
  <2>4. /\ InOrder(L, <<k, v>>, L3) /\ InOrder(R3, <<k2, v2>>, R2)
        /\ InOrder(Spread(L, k, v, L3), <<k3, v3>>, Spread(R3, k2, v2, R2))
        /\ Spread(L, k, v, R) = Spread(Spread(L, k, v, L3), k3, v3, Spread(R3, k2, v2, R2))
    <3>1. /\ InOrder(L3, <<k3, v3>>, R3) /\ InOrder(L3 \cup {<<k3, v3>>} \cup R3, <<k2, v2>>, R2)
          /\ R = (L3 \cup {<<k3, v3>>} \cup R3) \cup {<<k2, v2>>} \cup R2
      BY <1>4, <2>1 DEF Sides
    <3>2. PICK M : M = R3 \cup {<<k2, v2>>} \cup R2
      OBVIOUS
    <3>3. InOrder(L3, <<k3, v3>>, M) /\ InOrder(R3, <<k2, v2>>, R2)
          /\ R = L3 \cup {<<k3, v3>>} \cup M
      BY <3>1, <3>2, Reorder
    <3>4. InOrder(L, <<k, v>>, L3 \cup {<<k3, v3>>} \cup M)
      BY <1>0, <3>3
    <3>5. /\ InOrder(L, <<k, v>>, L3) /\ InOrder(L \cup {<<k, v>>} \cup L3, <<k3, v3>>, M)
          /\ L \cup {<<k, v>>} \cup (L3 \cup {<<k3, v3>>} \cup M) = (L \cup {<<k, v>>} \cup L3) \cup {<<k3, v3>>} \cup M
      BY <3>3, <3>4, Reorder
    <3> QED  BY <3>2, <3>3, <3>5 DEF Spread
  <2>5. Sides(x, l3, L, L3, c1, k, v)
    BY <1>0, <1>2, <1>9, <2>1, <2>4 DEF Sides
  <2>6. Tree(y, Spread(L, k, v, L3), c1 + 1) /\ ~IsRed(y) /\ c1 + 1 \in Nat
    BY <2>1, <2>2, <2>5, BlackMade DEF Spread
  <2>7. Sides(r3, r2, R3, R2, c1, k2, v2)
    BY <1>4, <1>5, <2>1, <2>4 DEF Sides
  <2>8. Tree(z, Spread(R3, k2, v2, R2), c1 + 1) /\ ~IsRed(z)
    BY <1>4, <2>2, <2>7, BlackMade DEF Spread
  <2>9. Sides(y, z, Spread(L, k, v, L3), Spread(R3, k2, v2, R2), c1 + 1, k3, v3)
    BY <2>1, <2>4, <2>6, <2>8 DEF Sides
  <2>10. Ready(y, Spread(L, k, v, L3), c1 + 1)
    <3>1. y # NIL /\ y.m_pLeft = x
      BY <2>2, MkFields, MkNotNil DEF Nd
    <3> QED  BY <1>9, <2>6, <3>1 DEF Ready
  <2>11. L \subseteq Spread(L, k, v, L3)
    BY DEF Spread
  <2>12. c = (c1 + 1) + Weight(Red) /\ Red \in BOOLEAN /\ Red
    BY <1>1, <1>2, Weights, Colors
  <2> QED  BY <1>6, <2>3, <2>4, <2>6, <2>8, <2>9, <2>10, <2>11, <2>12 DEF LeftReady
<1> QED  BY <1>6, <1>10, <1>11

\* ReadyLeft of a ready node with a node on its left.
LEMMA LeftMadeReady ==
    ASSUME NEW k, NEW v, NEW l, NEW r, NEW color \in BOOLEAN, NEW n, NEW L, NEW R, NEW c,
           Sides(l, r, L, R, c, k, v), ~IsRed(r), ~(color /\ IsRed(l)), l # NIL,
           color \/ IsRed(l)
    PROVE  LeftReady(ReadyLeft(Mk(k, v, l, r, color, n)), Spread(L, k, v, R), c + Weight(color), color, L)
<1>1. CASE IsRed(l) \/ IsRed(l.m_pLeft)
  BY <1>1, AlreadyLeft
<1>2. CASE ~IsRed(l) /\ ~IsRed(l.m_pLeft)
  <2>1. color = Red
    BY <1>2, Colors
  <2>2. c \in Nat
    BY DEF Sides
  <2>3. c + Weight(color) = c
    BY <2>1, <2>2, Weights
  <2>4. LeftReady(ReadyLeft(Mk(k, v, l, r, Red, n)), Spread(L, k, v, R), c, Red, L)
    BY <1>2, MovedLeft
  <2> QED  BY <2>1, <2>3, <2>4
<1> QED  BY <1>1, <1>2

\* e is the entry of E that is before all others.
First(E, e) == e \in E /\ \A d \in E : d = e \/ compare(e[1], d[1]) < 0

\* The first entry of a tree is the first on its left, or that of the root.
LEMMA FirstParts ==
    ASSUME NEW L, NEW R, NEW k, NEW v, Around(L, k, v, R), v \in Vals
    PROVE  /\ L = {} => First(Spread(L, k, v, R), <<k, v>>)
           /\ \A e : First(L, e) => First(Spread(L, k, v, R), e)
<1>1. ASSUME L = {} PROVE First(Spread(L, k, v, R), <<k, v>>)
  BY <1>1 DEF First, Around, Spread, InOrder, Before
<1>2. ASSUME NEW e, First(L, e) PROVE First(Spread(L, k, v, R), e)
  BY <1>2 DEF First, Around, Spread, InOrder, Before
<1> QED  BY <1>1, <1>2

\* There is only one.
LEMMA FirstOnce ==
    ASSUME NEW E \in SUBSET (Keys \X Vals), NEW d, NEW e, First(E, d), First(E, e)
    PROVE  d = e
<1> SUFFICES ASSUME d # e PROVE FALSE
  OBVIOUS
<1>1. d[1] \in Keys /\ e[1] \in Keys /\ compare(d[1], e[1]) < 0 /\ compare(e[1], d[1]) < 0
  BY DEF First
<1> QED  BY <1>1, KeyOrder

\* A tree with a node has a first entry: that of its MinNode.
LEMMA MinNodeIsFirst ==
    ASSUME NEW x, NEW E, NEW b, Tree(x, E, b), x # NIL
    PROVE  First(E, <<MinNode(x).m_Key, MinNode(x).m_Val>>)
<1>1. PICK f : /\ \A h : MinNode(h) = f[MaxDepth][h]
               /\ \A n \in 0 .. MaxDepth : \A y \in Trees[n] :
                      f[n][y] = IF y = NIL THEN NIL ELSE MinStep(y, f[n - 1])
  BY MinIs
<1> DEFINE Good(n, y) == \A F, d : Tree(y, F, d) /\ y # NIL => First(F, <<f[n][y].m_Key, f[n][y].m_Val>>)
<1> DEFINE T == {n \in 0 .. MaxDepth : \A y \in Trees[n] : Good(n, y)}
<1>2. 0 \in T
  <2>1. 0 \in 0 .. MaxDepth /\ \A y \in Trees[0] : y = NIL
    BY DepthNat, TreesIs
  <2> QED  BY <2>1
<1>3. ASSUME NEW m \in 0 .. MaxDepth - 1, m \in T PROVE m + 1 \in T
  <2>1. m + 1 \in 0 .. MaxDepth /\ (m + 1) - 1 = m
    BY DepthNat
  <2>2. ASSUME NEW y \in Trees[m + 1], NEW F, NEW d, Tree(y, F, d), y # NIL
        PROVE  First(F, <<f[m + 1][y].m_Key, f[m + 1][y].m_Val>>)
    <3>1. PICK g : g = f[m]
      OBVIOUS
    <3>2. f[m + 1][y] = MinStep(y, g)
      BY <1>1, <2>1, <2>2, <3>1
    <3>3. PICK k, v, l, r, color, L, R, c :
            /\ Sides(l, r, L, R, c, k, v)
            /\ y = Mk(k, v, l, r, color, Size(l) + Size(r) + 1)
            /\ F = L \cup {<<k, v>>} \cup R
      BY <2>2, TreeParts
    <3>4. y.m_pLeft = l /\ y.m_Key = k /\ y.m_Val = v
      BY <3>3, MkFields
    <3>5. /\ Tree(l, L, c) /\ Tree(r, R, c) /\ k \in Keys /\ v \in Vals /\ InOrder(L, <<k, v>>, R)
      BY <3>3 DEF Sides
    <3>6. Around(L, k, v, R) /\ F = Spread(L, k, v, R)
      BY <3>3, <3>5, TreeEntries DEF Around, Spread
    <3>7. CASE l = NIL
      <4>1. L = {} /\ f[m + 1][y] = y
        BY <3>2, <3>4, <3>5, <3>7, TreeNil DEF MinStep
      <4> QED  BY <3>4, <3>5, <3>6, <4>1, FirstParts
    <3>8. CASE l # NIL
      <4>1. f[m + 1][y] = f[m][l]
        BY <3>1, <3>2, <3>4, <3>8 DEF MinStep
      <4>2. l \in Trees[m]
        BY <2>1, <2>2, <3>4, NodeBelow
      <4>3. First(L, <<f[m][l].m_Key, f[m][l].m_Val>>)
        BY <1>3, <3>5, <3>8, <4>2
      <4> QED  BY <3>5, <3>6, <4>1, <4>3, FirstParts
    <3> QED  BY <3>7, <3>8
  <2> QED  BY <2>1, <2>2
<1>4. \A n \in 0 .. MaxDepth : n \in T
  <2> HIDE DEF T
  <2> QED  BY <1>2, <1>3, UpTo, DepthNat
<1>5. MaxDepth \in 0 .. MaxDepth /\ x \in Trees[MaxDepth]
  BY DepthNat DEF Tree
<1>6. First(E, <<f[MaxDepth][x].m_Key, f[MaxDepth][x].m_Val>>)
  BY <1>4, <1>5
<1> QED  BY <1>1, <1>6

\* How many keys there are.
Count(E) == Cardinality(KeySet(E))

\* A side has fewer keys than the node.
LEMMA CountSides ==
    ASSUME NEW L, NEW R, NEW k, NEW v \in Vals, Around(L, k, v, R)
    PROVE  /\ Count(Spread(L, k, v, R)) \in 1 .. MaxDepth
           /\ Count(L) \in Nat /\ Count(R) \in Nat
           /\ Count(L) < Count(Spread(L, k, v, R)) /\ Count(R) < Count(Spread(L, k, v, R))
<1>1. L \in SUBSET (Keys \X Vals) /\ R \in SUBSET (Keys \X Vals) /\ k \in Keys /\ InOrder(L, <<k, v>>, R)
  BY DEF Around
<1>2. PICK d, f, e : d = Cardinality(KeySet(L)) /\ f = Cardinality(KeySet(R))
                     /\ e = Cardinality(KeySet(L \cup {<<k, v>>} \cup R))
  OBVIOUS
<1>3. e \in 1 .. MaxDepth /\ d \in Nat /\ f \in Nat /\ e = d + f + 1
  BY <1>1, <1>2, KeysAdd
<1> QED  BY <1>2, <1>3 DEF Count, Spread

\* A node of a tree is between its sides.
LEMMA SidesAround ==
    ASSUME NEW l, NEW r, NEW L, NEW R, NEW c, NEW k, NEW v, Sides(l, r, L, R, c, k, v)
    PROVE  Around(L, k, v, R) /\ v \in Vals
BY TreeEntries DEF Sides, Around

\* What becomes of a tree x from which the entries of a key are taken.
Done(x, y, E, key, b) == Tree(y, Without(E, key), b) /\ (~IsRed(x) => ~IsRed(y))

\* The step of DeleteMin, and of DeleteKey to the left: the key is one of the
\* entries W, and g takes it from the left side.
LEMMA LeftDone ==
    ASSUME NEW m, NEW E, NEW b, NEW red, NEW W, LeftReady(m, E, b, red, W),
           NEW key \in Keys, NEW val, <<key, val>> \in W, NEW g,
           \A l, L, c : Ready(l, L, c) /\ W \subseteq L /\ L \subseteq E /\ Count(L) < Count(E)
                            => Done(l, g[l], L, key, c)
    PROVE  /\ Tree(Balance([m EXCEPT !.m_pLeft = g[@]]), Without(E, key), b)
           /\ ~red => ~IsRed(Balance([m EXCEPT !.m_pLeft = g[@]]))
<1>1. PICK k, v, l, r, color, n, L, R, c :
        /\ m = Mk(k, v, l, r, color, n) /\ color \in BOOLEAN
        /\ Sides(l, r, L, R, c, k, v) /\ E = Spread(L, k, v, R) /\ b = c + Weight(color)
        /\ Ready(l, L, c) /\ W \subseteq L
        /\ color => red /\ ~IsRed(l) /\ ~IsRed(r)
        /\ IsRed(r) => red
  BY DEF LeftReady
<1>2. Around(L, k, v, R) /\ v \in Vals /\ k \in Keys
  BY <1>1, SidesAround DEF Around
<1>3. Count(L) < Count(E) /\ L \subseteq E
  BY <1>1, <1>2, CountSides DEF Spread
<1>4. PICK x : x = g[l]
  OBVIOUS
<1>5. Tree(x, Without(L, key), c) /\ (~IsRed(l) => ~IsRed(x))
  BY <1>1, <1>3, <1>4 DEF Done
<1>6. IsBefore(key, k)
  BY <1>1, <1>2 DEF Around, InOrder, Before, IsBefore
<1>7. Without(E, key) = Spread(Without(L, key), k, v, R)
  <2>1. Without(L \cup {<<k, v>>} \cup R, key) = Without(L, key) \cup {<<k, v>>} \cup R
    BY <1>2, <1>6, KeyLeft
  <2> QED  BY <1>1, <2>1 DEF Spread
<1>8. InOrder(Without(L, key), <<k, v>>, R)
  BY <1>2, WithoutOrder DEF Around
<1>9. Sides(x, r, Without(L, key), R, c, k, v)
  BY <1>1, <1>5, <1>8 DEF Sides
<1>10. PICK y : y = Balance(Mk(k, v, x, r, color, n))
  OBVIOUS
<1>11. Balance([m EXCEPT !.m_pLeft = g[@]]) = y
  <2>1. [m EXCEPT !.m_pLeft = g[@]] = Mk(k, v, x, r, color, n)
    BY <1>1, <1>4 DEF Mk
  <2> QED  BY <1>10, <2>1
<1>12. color \in BOOLEAN /\ (color => ~IsRed(x) /\ ~IsRed(r))
  BY <1>1, <1>5
<1>13. /\ Tree(y, Spread(Without(L, key), k, v, R), c + Weight(color))
       /\ ~color /\ ~(IsRed(x) /\ IsRed(r)) => ~IsRed(y)
  BY <1>9, <1>10, <1>12, Rebalanced DEF Spread
<1>14. ~red => ~IsRed(y)
  BY <1>1, <1>13
<1> QED  BY <1>1, <1>7, <1>11, <1>13, <1>14

\* A node without entries but its own.
LEMMA OnlyNode ==
    ASSUME NEW k, NEW v, NEW l, NEW r, NEW L, NEW R, NEW c, Sides(l, r, L, R, c, k, v),
           ~IsRed(l), ~IsRed(r), l = NIL \/ r = NIL
    PROVE  c = 0 /\ L = {} /\ R = {} /\ Tree(NIL, Without(Spread(L, k, v, R), k), 0)
<1>1. Tree(l, L, c) /\ Tree(r, R, c)
  BY DEF Sides
<1>2. c = 0
  BY <1>1, TreeNil
<1>3. L = {} /\ R = {}
  BY <1>1, <1>2, NoHeight
<1>4. Without(Spread(L, k, v, R), k) = {}
  BY <1>3 DEF Without, Spread
<1> QED  BY <1>2, <1>3, <1>4, TreeNil

\* One step of DeleteMin.
LEMMA DeleteMinStepDone ==
    ASSUME NEW x, NEW E, NEW b, Ready(x, E, b), NEW e, First(E, e), NEW g,
           \A l, L, c : Ready(l, L, c) /\ First(L, e) /\ Count(L) < Count(E)
                            => Done(l, g[l], L, e[1], c)
    PROVE  Done(x, DeleteMinStep(x, g), E, e[1], b)
<1>0. PICK y : y = DeleteMinStep(x, g)
  OBVIOUS
<1>1. PICK k, v, l, r, color, L, R, c :
        /\ Sides(l, r, L, R, c, k, v)
        /\ x = Mk(k, v, l, r, color, Size(l) + Size(r) + 1)
        /\ E = L \cup {<<k, v>>} \cup R /\ b = c + Weight(color)
        /\ color \in BOOLEAN /\ ~IsRed(r) /\ ~(color /\ IsRed(l))
  BY TreeParts DEF Ready
<1>2. PICK n : n = Size(l) + Size(r) + 1
  OBVIOUS
<1>3. x = Mk(k, v, l, r, color, n)
  BY <1>1, <1>2
<1>4. x.m_pLeft = l /\ (IsRed(x) <=> color) /\ (color \/ IsRed(l))
  BY <1>1, <1>3, MkFields, MkColor DEF Ready
<1>5. Around(L, k, v, R) /\ v \in Vals /\ E = Spread(L, k, v, R)
  BY <1>1, SidesAround DEF Spread
<1>6. E \in SUBSET (Keys \X Vals)
  BY TreeEntries DEF Ready
<1>7. CASE l = NIL
  <2>1. y = NIL
    BY <1>0, <1>4, <1>7 DEF DeleteMinStep
  <2>2. ~IsRed(l) /\ color = Red
    BY <1>1, <1>4, <1>7, Colors DEF IsRed
  <2>3. c = 0 /\ L = {} /\ Tree(NIL, Without(E, k), 0)
    <3>1. Sides(l, r, L, R, c, k, v) /\ ~IsRed(l) /\ ~IsRed(r) /\ (l = NIL \/ r = NIL)
      BY <1>1, <1>7, <2>2
    <3>2. c = 0 /\ L = {} /\ Tree(NIL, Without(Spread(L, k, v, R), k), 0)
      BY <3>1, OnlyNode
    <3> QED  BY <1>5, <3>2
  <2>4. First(E, <<k, v>>)
    BY <1>5, <2>3, FirstParts
  <2>5. e = <<k, v>>
    BY <1>6, <2>4, FirstOnce
  <2>6. b = 0
    BY <1>1, <2>2, <2>3, Weights
  <2>7. ~IsRed(NIL)
    BY DEF IsRed
  <2> QED  BY <1>0, <2>1, <2>3, <2>5, <2>6, <2>7 DEF Done
<1>8. CASE l # NIL
  <2>1. PICK m : m = ReadyLeft(x)
    OBVIOUS
  <2>2. LeftReady(m, E, b, color, L)
    BY <1>1, <1>3, <1>4, <1>5, <1>8, <2>1, LeftMadeReady
  <2>3. e \in L
    <3>1. PICK d : First(L, d)
      BY <1>1, <1>8, MinNodeIsFirst DEF Sides
    <3>2. First(E, d)
      BY <1>5, <3>1, FirstParts
    <3>3. d = e
      BY <1>6, <3>2, FirstOnce
    <3> QED  BY <3>1, <3>3 DEF First
  <2>4. PICK key, val : e = <<key, val>> /\ key \in Keys
    BY <1>6 DEF First
  <2>5. ASSUME NEW l1, NEW L1, NEW c1, Ready(l1, L1, c1), L \subseteq L1, L1 \subseteq E, Count(L1) < Count(E)
        PROVE  Done(l1, g[l1], L1, key, c1)
    <3>1. First(L1, e)
      BY <2>3, <2>5 DEF First
    <3> QED  BY <2>4, <2>5, <3>1
  <2>6. y = Balance([m EXCEPT !.m_pLeft = g[@]])
    BY <1>0, <1>4, <1>8, <2>1 DEF DeleteMinStep
  <2>7. /\ Tree(y, Without(E, key), b)
        /\ ~color => ~IsRed(y)
    BY <2>2, <2>3, <2>4, <2>5, <2>6, LeftDone
  <2> QED  BY <1>0, <1>4, <2>4, <2>7 DEF Done
<1> QED  BY <1>7, <1>8

\* DeleteMin takes the first entry.
LEMMA DeleteMinDone ==
    ASSUME NEW x, NEW E, NEW b, Ready(x, E, b), NEW e, First(E, e)
    PROVE  Done(x, DeleteMin(x), E, e[1], b)
<1>1. PICK f : /\ \A h : DeleteMin(h) = f[MaxDepth][h]
               /\ \A n \in 0 .. MaxDepth : \A y \in Trees[n] :
                      f[n][y] = IF y = NIL THEN NIL ELSE DeleteMinStep(y, f[n - 1])
  BY DeleteMinIs
<1> DEFINE Good(n) == \A y, F, d, a : Ready(y, F, d) /\ First(F, a) /\ Count(F) <= n
                                          => Done(y, f[n][y], F, a[1], d)
<1> DEFINE T == {n \in 0 .. MaxDepth : Good(n)}
<1>2. ASSUME NEW y, NEW F, NEW d, Ready(y, F, d)
      PROVE  Count(F) \in 1 .. MaxDepth /\ y \in Trees[Count(F)]
  <2>1. PICK k, v, l, r, color, L, R, c : Sides(l, r, L, R, c, k, v) /\ F = L \cup {<<k, v>>} \cup R
    BY <1>2, TreeParts DEF Ready
  <2>2. Around(L, k, v, R) /\ v \in Vals /\ F = Spread(L, k, v, R)
    BY <2>1, SidesAround DEF Spread
  <2>3. y \in Trees[Count(F)]
    BY <1>2, TreeFits DEF Ready, Fits, Count
  <2> QED  BY <2>2, <2>3, CountSides
<1>3. 0 \in T
  <2>1. Good(0)
    BY <1>2
  <2> QED  BY <2>1, DepthNat
<1>4. ASSUME NEW m \in 0 .. MaxDepth - 1, m \in T PROVE m + 1 \in T
  <2>1. m + 1 \in 0 .. MaxDepth /\ (m + 1) - 1 = m
    BY DepthNat
  <2>2. ASSUME NEW y, NEW F, NEW d, NEW a, Ready(y, F, d), First(F, a), Count(F) <= m + 1
        PROVE  Done(y, f[m + 1][y], F, a[1], d)
    <3>1. Count(F) \in 1 .. MaxDepth /\ y \in Trees[Count(F)]
      BY <1>2, <2>2
    <3>2. y \in Trees[m + 1]
      <4>1. Count(F) \in 0 .. m + 1
        BY <2>1, <2>2, <3>1
      <4> QED  BY <2>1, <3>1, <4>1, TreesGrow
    <3>3. PICK g : g = f[m]
      OBVIOUS
    <3>4. f[m + 1][y] = DeleteMinStep(y, g)
      BY <1>1, <2>1, <2>2, <3>2, <3>3 DEF Ready
    <3>5. ASSUME NEW l, NEW L, NEW c, Ready(l, L, c), First(L, a), Count(L) < Count(F)
          PROVE  Done(l, g[l], L, a[1], c)
      <4>1. Count(L) \in 1 .. MaxDepth
        BY <1>2, <3>5
      <4>2. Count(L) <= m
        BY <2>1, <2>2, <3>1, <3>5, <4>1
      <4> QED  BY <1>4, <3>3, <3>5, <4>2
    <3>6. Done(y, DeleteMinStep(y, g), F, a[1], d)
      BY <2>2, <3>5, DeleteMinStepDone
    <3> QED  BY <3>4, <3>6
  <2> QED  BY <2>1, <2>2
<1>5. \A n \in 0 .. MaxDepth : n \in T
  <2> HIDE DEF T
  <2> QED  BY <1>3, <1>4, UpTo, DepthNat
<1>6. MaxDepth \in 0 .. MaxDepth /\ Count(E) <= MaxDepth
  BY <1>2, DepthNat
<1>7. Done(x, f[MaxDepth][x], E, e[1], b)
  BY <1>5, <1>6
<1> QED  BY <1>1, <1>7

-----------------------------------------------------------------------------
(* DeleteKey                                                               *)

\* MoveRedRight where the left side has no red link to give.
LEMMA MoveRedRightFlips ==
    ASSUME NEW k, NEW v, NEW n, NEW k1, NEW v1, NEW l1, NEW r1, NEW k2, NEW v2, NEW l2, NEW r2, ~IsRed(l1)
    PROVE  MoveRedRight(Mk(k, v, Nd(k1, v1, l1, r1, Black), Nd(k2, v2, l2, r2, Black), Red, n))
               = Mk(k, v, Nd(k1, v1, l1, r1, Red), Nd(k2, v2, l2, r2, Red), Black, n)
<1>1. PICK h, f : /\ h = Mk(k, v, Nd(k1, v1, l1, r1, Black), Nd(k2, v2, l2, r2, Black), Red, n)
                  /\ f = Mk(k, v, Nd(k1, v1, l1, r1, Red), Nd(k2, v2, l2, r2, Red), Black, n)
  OBVIOUS
<1>2. FlipColors(h) = f
  BY <1>1, FlipBlackTwins
<1>3. f.m_pLeft.m_pLeft = l1
  BY <1>1, MkFields DEF Nd
<1>4. MoveRedRight(h) = f
  BY <1>2, <1>3 DEF MoveRedRight
<1> QED  BY <1>1, <1>4

\* MoveRedRight where it has one.
LEMMA MoveRedRightRotates ==
    ASSUME NEW k, NEW v, NEW n, NEW k1, NEW v1, NEW r1, NEW k2, NEW v2, NEW l2, NEW r2,
           NEW k3, NEW v3, NEW l3, NEW r3
    PROVE  MoveRedRight(Mk(k, v, Nd(k1, v1, Nd(k3, v3, l3, r3, Red), r1, Black), Nd(k2, v2, l2, r2, Black), Red, n))
               = Mk(k1, v1, Nd(k3, v3, l3, r3, Black), Nd(k, v, r1, Nd(k2, v2, l2, r2, Red), Black), Red, n)
<1>1. PICK x, g, y : /\ g = Nd(k2, v2, l2, r2, Red) /\ y = Nd(k3, v3, l3, r3, Red)
                     /\ x = Mk(k1, v1, y, r1, Red, Size(y) + Size(r1) + 1)
  OBVIOUS
<1>2. PICK h, f : /\ h = Mk(k, v, Nd(k1, v1, y, r1, Black), Nd(k2, v2, l2, r2, Black), Red, n)
                  /\ f = Mk(k, v, x, g, Black, n)
  OBVIOUS
<1>3. FlipColors(h) = f
  <2>1. x = Nd(k1, v1, y, r1, Red)
    BY <1>1 DEF Nd
  <2> QED  BY <1>1, <1>2, <2>1, FlipBlackTwins
<1>4. IsRed(f.m_pLeft.m_pLeft)
  <2>1. f.m_pLeft = x
    BY <1>2, MkFields
  <2>2. x.m_pLeft = y
    BY <1>1, MkFields
  <2>3. IsRed(y)
    BY <1>1, MkRed DEF Nd
  <2> QED  BY <2>1, <2>2, <2>3
<1>5. PICK u : u = Mk(k1, v1, y, Nd(k, v, r1, g, Red), Black, n)
  OBVIOUS
<1>6. RotateRight(f) = u
  BY <1>1, <1>2, <1>5, RotateRightIs
<1>7. FlipColors(u) = Mk(k1, v1, Nd(k3, v3, l3, r3, Black), Nd(k, v, r1, g, Black), Red, n)
  BY <1>1, <1>5, FlipRedTwins
<1>8. MoveRedRight(h) = FlipColors(u)
  BY <1>3, <1>4, <1>6 DEF MoveRedRight
<1> QED  BY <1>1, <1>2, <1>7, <1>8

\* What MoveRedRight can leave on the right: a black node with a red one on its
\* right. The key is not before its own.
Late(x, E, b, key) ==
    \E k, v, l, r, L, R, c :
        /\ Sides(l, r, L, R, c, k, v) /\ x = Nd(k, v, l, r, Black)
        /\ E = Spread(L, k, v, R) /\ b = c + 1
        /\ ~IsRed(l) /\ IsRed(r) /\ ~IsBefore(key, k)

\* A node from which DeleteKeyFromNode can take the key.
CanDelete(x, E, b, key) == Ready(x, E, b) \/ Late(x, E, b, key)

\* A node whose right side is ready, and whose key is not after the one to delete.
RightReady(m, E, b, red, key) ==
    \E k, v, l, r, color, n, L, R, c :
        /\ m = Mk(k, v, l, r, color, n) /\ color \in BOOLEAN
        /\ Tree(l, L, c) /\ Around(L, k, v, R) /\ v \in Vals /\ c \in Nat
        /\ E = Spread(L, k, v, R) /\ b = c + Weight(color)
        /\ \/ IsAt(key, k) /\ Ready(r, R, c)
           \/ IsAfter(key, k) /\ CanDelete(r, R, c, key)
        /\ color => red /\ ~IsRed(l) /\ ~IsRed(r)
        /\ IsRed(l) => red

\* The order of two keys.
LEMMA KeyCases ==
    ASSUME NEW key \in Keys, NEW k \in Keys
    PROVE  /\ IsBefore(key, k) \/ IsAt(key, k) \/ IsAfter(key, k)
           /\ ~(IsBefore(key, k) /\ IsAt(key, k)) /\ ~(IsBefore(key, k) /\ IsAfter(key, k))
           /\ ~(IsAt(key, k) /\ IsAfter(key, k))
<1>1. compare(key, k) \in Int
  BY KeyOrder
<1> QED  BY <1>1 DEF IsBefore, IsAt, IsAfter

\* ReadyRight with nothing to do.
LEMMA AlreadyRight ==
    ASSUME NEW k, NEW v, NEW l, NEW r, NEW color \in BOOLEAN, NEW n, NEW L, NEW R, NEW c, NEW key \in Keys,
           Sides(l, r, L, R, c, k, v), ~IsRed(l), ~(color /\ IsRed(r)), r # NIL,
           IsRed(r) \/ IsRed(r.m_pLeft), ~IsBefore(key, k)
    PROVE  RightReady(ReadyRight(Mk(k, v, l, r, color, n)), Spread(L, k, v, R), c + Weight(color), color, key)
<1>1. PICK h : h = Mk(k, v, l, r, color, n)
  OBVIOUS
<1>2. h.m_pRight = r
  BY <1>1, MkFields
<1>3. ReadyRight(h) = h
  BY <1>2 DEF ReadyRight, NoRedRight
<1>4. Ready(r, R, c) /\ Tree(l, L, c) /\ c \in Nat /\ k \in Keys
  BY DEF Ready, Sides
<1>5. Around(L, k, v, R) /\ v \in Vals
  BY SidesAround
<1>6. \/ IsAt(key, k) /\ Ready(r, R, c)
      \/ IsAfter(key, k) /\ CanDelete(r, R, c, key)
  BY <1>4, KeyCases DEF CanDelete
<1> QED  BY <1>1, <1>3, <1>4, <1>5, <1>6 DEF RightReady

\* ReadyRight of a red node with black ones below, the right one without a red
\* link of its own.
LEMMA MovedRight ==
    ASSUME NEW k, NEW v, NEW l, NEW r, NEW n, NEW L, NEW R, NEW c, NEW key \in Keys,
           Sides(l, r, L, R, c, k, v), ~IsRed(l), ~IsRed(r), r # NIL, ~IsRed(r.m_pLeft), ~IsBefore(key, k)
    PROVE  RightReady(ReadyRight(Mk(k, v, l, r, Red, n)), Spread(L, k, v, R), c, Red, key)
<1>0. /\ Tree(l, L, c) /\ Tree(r, R, c) /\ c \in Nat /\ k \in Keys /\ v \in Vals
      /\ InOrder(L, <<k, v>>, R)
  BY DEF Sides
<1>1. PICK k2, v2, l2, r2, L2, R2, c2 :
        /\ Sides(l2, r2, L2, R2, c2, k2, v2) /\ r = Nd(k2, v2, l2, r2, Black)
        /\ R = L2 \cup {<<k2, v2>>} \cup R2 /\ c = c2 + 1 /\ ~IsRed(r2)
  BY <1>0, BlackNode
<1>2. r.m_pLeft = l2 /\ c2 \in Nat
  BY <1>1, MkFields DEF Nd, Sides
<1>3. l # NIL
  BY <1>0, <1>1, <1>2, TreeNil
<1>4. PICK k1, v1, l1, r1, L1, R1, c1 :
        /\ Sides(l1, r1, L1, R1, c1, k1, v1) /\ l = Nd(k1, v1, l1, r1, Black)
        /\ L = L1 \cup {<<k1, v1>>} \cup R1 /\ c = c1 + 1 /\ ~IsRed(r1)
  BY <1>0, <1>3, BlackNode
<1>5. c1 = c2
  BY <1>1, <1>2, <1>4 DEF Sides
<1>6. PICK h : h = Mk(k, v, l, r, Red, n)
  OBVIOUS
<1>7. ReadyRight(h) = MoveRedRight(h)
  <2>1. h.m_pRight = r
    BY <1>6, MkFields
  <2> QED  BY <2>1 DEF ReadyRight, NoRedRight
<1>8. PICK y : y = Nd(k2, v2, l2, r2, Red)
  OBVIOUS
<1>9. Tree(y, R, c2) /\ IsRed(y) /\ y # NIL
  BY <1>1, <1>2, <1>8, RedMade DEF IsRed
<1>10. Around(L, k, v, R) /\ (IsAt(key, k) \/ IsAfter(key, k))
  BY <1>0, SidesAround, KeyCases
<1>11. CASE ~IsRed(l1)
  <2>1. PICK x : x = Nd(k1, v1, l1, r1, Red)
    OBVIOUS
  <2>2. Tree(x, L, c2) /\ IsRed(x)
    BY <1>4, <1>5, <1>11, <2>1, RedMade
  <2>3. ReadyRight(h) = Mk(k, v, x, y, Black, n)
    BY <1>1, <1>4, <1>6, <1>7, <1>8, <1>11, <2>1, MoveRedRightFlips
  <2>5. Ready(y, R, c2) /\ CanDelete(y, R, c2, key)
    BY <1>9 DEF Ready, CanDelete
  <2>6. c = c2 + Weight(Black) /\ Black \in BOOLEAN /\ ~Black /\ Red
    BY <1>1, Weights, Colors
  <2> QED  BY <1>0, <1>2, <1>6, <1>10, <2>2, <2>3, <2>5, <2>6 DEF RightReady
<1>12. CASE IsRed(l1)
  <2>1. PICK k3, v3, l3, r3, L3, R3 :
          /\ Sides(l3, r3, L3, R3, c2, k3, v3) /\ l1 = Nd(k3, v3, l3, r3, Red)
          /\ L1 = L3 \cup {<<k3, v3>>} \cup R3 /\ ~IsRed(r3) /\ ~IsRed(l3)
    <3>1. Tree(l1, L1, c2)
      BY <1>4, <1>5 DEF Sides
    <3> QED  BY <1>12, <3>1, RedNode
  <2>2. PICK x, z : x = Nd(k3, v3, l3, r3, Black) /\ z = Nd(k, v, r1, y, Black)
    OBVIOUS
  <2>3. ReadyRight(h) = Mk(k1, v1, x, z, Red, n)
    BY <1>1, <1>4, <1>6, <1>7, <1>8, <2>1, <2>2, MoveRedRightRotates
  <2>4. /\ InOrder(R1, <<k, v>>, R) /\ InOrder(L1, <<k1, v1>>, Spread(R1, k, v, R))
        /\ Spread(L, k, v, R) = Spread(L1, k1, v1, Spread(R1, k, v, R))
    <3>1. InOrder(L1 \cup {<<k1, v1>>} \cup R1, <<k, v>>, R) /\ InOrder(L1, <<k1, v1>>, R1)
      BY <1>0, <1>4 DEF Sides
    <3>2. /\ InOrder(R1, <<k, v>>, R) /\ InOrder(L1, <<k1, v1>>, R1 \cup {<<k, v>>} \cup R)
          /\ (L1 \cup {<<k1, v1>>} \cup R1) \cup {<<k, v>>} \cup R = L1 \cup {<<k1, v1>>} \cup (R1 \cup {<<k, v>>} \cup R)
      BY <3>1, Reorder
    <3> QED  BY <1>4, <3>2 DEF Spread
  <2>5. Tree(x, L1, c2 + 1) /\ ~IsRed(x) /\ c2 + 1 \in Nat
    BY <2>1, <2>2, BlackMade
  <2>6. Sides(r1, y, R1, R, c2, k, v)
    BY <1>0, <1>4, <1>5, <1>9, <2>4 DEF Sides
  <2>7. Late(z, Spread(R1, k, v, R), c2 + 1, key) /\ ~IsRed(z)
    BY <1>4, <1>9, <2>2, <2>6, MkRed DEF Late, Nd
  <2>8. L1 \in SUBSET (Keys \X Vals) /\ R1 \in SUBSET (Keys \X Vals) /\ k1 \in Keys /\ v1 \in Vals
    BY <1>4, SidesAround DEF Around, Sides
  <2>9. Around(L1, k1, v1, Spread(R1, k, v, R))
    BY <1>0, <1>10, <2>4, <2>8 DEF Around, Spread
  <2>10. IsAfter(key, k1)
    <3>1. compare(k1, k) < 0
      <4>1. <<k1, v1>> \in L /\ <<k, v>> \in {<<k, v>>} /\ Before(L, {<<k, v>>})
        BY <1>0, <1>4 DEF InOrder
      <4> QED  BY <4>1 DEF Before
    <3>2. compare(k1, key) < 0
      <4>1. CASE IsAt(key, k)
        BY <1>0, <3>1, <4>1, KeyOrder DEF IsAt
      <4>2. CASE IsAfter(key, k)
        <5>1. compare(k, key) < 0
          BY <1>0, <4>2, KeyOrder DEF IsAfter
        <5> QED  BY <1>0, <2>8, <3>1, <5>1, KeyOrder
      <4> QED  BY <1>10, <4>1, <4>2
    <3> QED  BY <2>8, <3>2, KeyOrder DEF IsAfter
  <2>11. CanDelete(z, Spread(R1, k, v, R), c2 + 1, key)
    BY <2>7 DEF CanDelete
  <2>12. c = (c2 + 1) + Weight(Red) /\ Red \in BOOLEAN /\ Red
    BY <1>1, <1>2, Weights, Colors
  <2> QED  BY <1>6, <2>3, <2>4, <2>5, <2>7, <2>8, <2>9, <2>10, <2>11, <2>12 DEF RightReady
<1> QED  BY <1>6, <1>11, <1>12

\* A node with its right side without the entries of a key, balanced.
LEMMA RightDone ==
    ASSUME NEW k, NEW v \in Vals, NEW l, NEW r, NEW color \in BOOLEAN, NEW n, NEW L, NEW R, NEW c \in Nat,
           NEW key \in Keys, NEW z, Tree(l, L, c), Around(L, k, v, R), IsAfter(key, k), Done(r, z, R, key, c),
           color => ~IsRed(l) /\ ~IsRed(r)
    PROVE  /\ Tree(Balance(Mk(k, v, l, z, color, n)), Without(Spread(L, k, v, R), key), c + Weight(color))
           /\ ~color /\ ~IsRed(l) => ~IsRed(Balance(Mk(k, v, l, z, color, n)))
<1>1. Tree(z, Without(R, key), c) /\ (color => ~IsRed(l) /\ ~IsRed(z))
  BY DEF Done
<1>2. InOrder(L, <<k, v>>, Without(R, key)) /\ k \in Keys
  BY WithoutOrder DEF Around
<1>3. Sides(l, z, L, Without(R, key), c, k, v)
  BY <1>1, <1>2 DEF Sides
<1>4. PICK y : y = Balance(Mk(k, v, l, z, color, n))
  OBVIOUS
<1>5. /\ Tree(y, Spread(L, k, v, Without(R, key)), c + Weight(color))
      /\ ~color /\ ~(IsRed(l) /\ IsRed(z)) => ~IsRed(y)
  BY <1>1, <1>3, <1>4, Rebalanced DEF Spread
<1>6. Without(Spread(L, k, v, R), key) = Spread(L, k, v, Without(R, key))
  <2>1. Without(L \cup {<<k, v>>} \cup R, key) = L \cup {<<k, v>>} \cup Without(R, key)
    BY KeyRight
  <2> QED  BY <2>1 DEF Spread
<1> QED  BY <1>4, <1>5, <1>6

\* A node that takes over the first entry of its right side.
LEMMA HereDone ==
    ASSUME NEW k, NEW v \in Vals, NEW l, NEW r, NEW color \in BOOLEAN, NEW n, NEW L, NEW R, NEW c \in Nat,
           NEW key \in Keys, Tree(l, L, c), Around(L, k, v, R), IsAt(key, k), Ready(r, R, c),
           color => ~IsRed(l) /\ ~IsRed(r), NEW m, m = Mk(k, v, l, r, color, n),
           NEW y, y = Balance([TakeOver(m, MinNode(m.m_pRight)) EXCEPT !.m_pRight = DeleteMin(@)])
    PROVE  /\ Tree(y, Without(Spread(L, k, v, R), key), c + Weight(color))
           /\ ~color /\ ~IsRed(l) => ~IsRed(y)
<1>1. PICK k0, v0, z : k0 = MinNode(r).m_Key /\ v0 = MinNode(r).m_Val /\ z = DeleteMin(r)
  OBVIOUS
<1>2. First(R, <<k0, v0>>)
  BY <1>1, MinNodeIsFirst DEF Ready
<1>3. Tree(z, Without(R, k0), c) /\ (~IsRed(r) => ~IsRed(z))
  BY <1>1, <1>2, DeleteMinDone DEF Done
<1>4. L \in SUBSET (Keys \X Vals) /\ R \in SUBSET (Keys \X Vals) /\ InOrder(L, <<k, v>>, R)
  BY DEF Around
<1>5. k0 \in Keys /\ v0 \in Vals /\ <<k0, v0>> \in R
  BY <1>2, <1>4 DEF First
<1>6. R = {<<k0, v0>>} \cup Without(R, k0) /\ InOrder(L, <<k0, v0>>, Without(R, k0))
  <2>1. \A e \in R : e = <<k0, v0>> \/ compare(k0, e[1]) < 0
    BY <1>2 DEF First
  <2>2. compare(k0, k0) = 0
    BY <1>5, KeyOrder
  <2>3. \A e \in Without(R, k0) : compare(k0, e[1]) < 0
    BY <2>1 DEF Without
  <2>4. R = {<<k0, v0>>} \cup Without(R, k0)
    BY <1>5, <2>1, <2>2 DEF Without
  <2>5. Before(L, {<<k0, v0>>}) /\ Before(L, Without(R, k0))
    BY <1>4, <1>5 DEF InOrder, Before, Without
  <2> QED  BY <2>3, <2>4, <2>5 DEF InOrder, Before
<1>7. Sides(l, z, L, Without(R, k0), c, k0, v0)
  BY <1>3, <1>5, <1>6 DEF Sides
<1>8. y = Balance(Mk(k0, v0, l, z, color, n))
  <2>1. m.m_pRight = r
    BY MkFields
  <2>2. PICK x : x = MinNode(r)
    OBVIOUS
  <2>3. TakeOver(m, x) = Mk(k0, v0, l, r, color, n)
    <3>1. x.m_Key = k0 /\ x.m_Val = v0
      BY <1>1, <2>2
    <3>2. PICK w : w = [m EXCEPT !.m_Key = k0, !.m_Val = v0]
      OBVIOUS
    <3>3. IsNode(w, k0, v0, l, r, color, n)
      BY <3>2 DEF IsNode, Mk
    <3>4. TakeOver(m, x) = w
      BY <3>1, <3>2 DEF TakeOver
    <3> QED  BY <3>3, <3>4, NodeIs
  <2>4. [Mk(k0, v0, l, r, color, n) EXCEPT !.m_pRight = DeleteMin(@)] = Mk(k0, v0, l, z, color, n)
    BY <1>1 DEF Mk
  <2> QED  BY <2>1, <2>2, <2>3, <2>4
<1>9. color => ~IsRed(l) /\ ~IsRed(z)
  BY <1>3
<1>10. /\ Tree(y, Spread(L, k0, v0, Without(R, k0)), c + Weight(color))
       /\ ~color /\ ~(IsRed(l) /\ IsRed(z)) => ~IsRed(y)
  BY <1>7, <1>8, <1>9, Rebalanced DEF Spread
<1>11. Without(Spread(L, k, v, R), key) = Spread(L, k0, v0, Without(R, k0))
  <2>1. Without(L \cup {<<k, v>>} \cup R, key) = L \cup R
    BY KeyHere
  <2> QED  BY <1>6, <2>1 DEF Spread
<1> QED  BY <1>10, <1>11

\* g takes the entries of the key from any part of E that is smaller.
Takes(g, E, key) ==
    \A l, L, c : CanDelete(l, L, c, key) /\ key \in KeySet(L) /\ Count(L) < Count(E)
                     => Done(l, g[l], L, key, c)

\* DeleteKeyFromNode where the key is not on the left.
AfterReady(m, g, key) ==
    IF compare(key, m.m_Key) = 0
    THEN Balance([TakeOver(m, MinNode(m.m_pRight)) EXCEPT !.m_pRight = DeleteMin(@)])
    ELSE Balance([m EXCEPT !.m_pRight = g[@]])

\* It takes the key.
LEMMA AfterReadyDone ==
    ASSUME NEW m, NEW E, NEW b, NEW red, NEW key \in Keys, RightReady(m, E, b, red, key),
           key \in KeySet(E), NEW g, Takes(g, E, key)
    PROVE  /\ Tree(AfterReady(m, g, key), Without(E, key), b)
           /\ ~red => ~IsRed(AfterReady(m, g, key))
<1>0. PICK y : y = AfterReady(m, g, key)
  OBVIOUS
<1>1. PICK k, v, l, r, color, n, L, R, c :
        /\ m = Mk(k, v, l, r, color, n) /\ color \in BOOLEAN
        /\ Tree(l, L, c) /\ Around(L, k, v, R) /\ v \in Vals /\ c \in Nat
        /\ E = Spread(L, k, v, R) /\ b = c + Weight(color)
        /\ \/ IsAt(key, k) /\ Ready(r, R, c)
           \/ IsAfter(key, k) /\ CanDelete(r, R, c, key)
        /\ color => red /\ ~IsRed(l) /\ ~IsRed(r)
        /\ IsRed(l) => red
  BY DEF RightReady
<1>2. m.m_Key = k /\ k \in Keys
  BY <1>1, MkFields DEF Around
<1>3. CASE IsAt(key, k) /\ Ready(r, R, c)
  <2>1. y = Balance([TakeOver(m, MinNode(m.m_pRight)) EXCEPT !.m_pRight = DeleteMin(@)])
    BY <1>0, <1>2, <1>3 DEF AfterReady, IsAt
  <2>2. /\ Tree(y, Without(Spread(L, k, v, R), key), c + Weight(color))
        /\ ~color /\ ~IsRed(l) => ~IsRed(y)
    <3>1. color \in BOOLEAN /\ (color => ~IsRed(l) /\ ~IsRed(r))
      BY <1>1
    <3>2. m = Mk(k, v, l, r, color, n) /\ Tree(l, L, c) /\ Around(L, k, v, R) /\ v \in Vals /\ c \in Nat
      BY <1>1
    <3> QED  BY <1>3, <2>1, <3>1, <3>2, HereDone
  <2> QED  BY <1>0, <1>1, <2>2
<1>4. CASE IsAfter(key, k) /\ CanDelete(r, R, c, key)
  <2>1. PICK z : z = g[r]
    OBVIOUS
  <2>2. compare(key, k) # 0
    BY <1>2, <1>4, KeyCases DEF IsAt
  <2>3. y = Balance(Mk(k, v, l, z, color, n))
    <3>1. [m EXCEPT !.m_pRight = g[@]] = Mk(k, v, l, z, color, n)
      BY <1>1, <2>1 DEF Mk
    <3> QED  BY <1>0, <1>2, <2>2, <3>1 DEF AfterReady
  <2>4. key \in KeySet(R)
    <3>1. k # key
      BY <1>1, <1>4, KeyRight
    <3>2. \A e \in L : e[1] # key
      BY <1>1, <1>4, KeyRight
    <3> QED  BY <1>1, <3>1, <3>2 DEF KeySet, Spread
  <2>5. Count(R) < Count(E)
    BY <1>1, CountSides
  <2>6. Done(r, z, R, key, c)
    BY <1>4, <2>1, <2>4, <2>5 DEF Takes
  <2>7. color \in BOOLEAN /\ (color => ~IsRed(l) /\ ~IsRed(r))
    BY <1>1
  <2>8. /\ Tree(y, Without(Spread(L, k, v, R), key), c + Weight(color))
        /\ ~color /\ ~IsRed(l) => ~IsRed(y)
    BY <1>1, <1>4, <2>3, <2>6, <2>7, RightDone
  <2> QED  BY <1>0, <1>1, <2>8
<1> QED  BY <1>1, <1>3, <1>4

\* One step of DeleteKeyFromNode, by the ways it can go on.
LEMMA DeleteStepIs ==
    ASSUME NEW x, NEW g, NEW key, NEW s, s = IF IsRed(x.m_pLeft) THEN RotateRight(x) ELSE x
    PROVE  /\ IsBefore(key, x.m_Key) => DeleteStep(x, g, key) = Balance([ReadyLeft(x) EXCEPT !.m_pLeft = g[@]])
           /\ ~IsBefore(key, x.m_Key) /\ IsAt(key, s.m_Key) /\ s.m_pRight = NIL => DeleteStep(x, g, key) = NIL
           /\ ~IsBefore(key, x.m_Key) /\ ~(IsAt(key, s.m_Key) /\ s.m_pRight = NIL)
                  => DeleteStep(x, g, key) = AfterReady(ReadyRight(s), g, key)
<1>1. IsBefore(key, x.m_Key) => DeleteStep(x, g, key) = Balance([ReadyLeft(x) EXCEPT !.m_pLeft = g[@]])
  BY DEF DeleteStep, IsBefore
<1>2. ~IsBefore(key, x.m_Key) /\ IsAt(key, s.m_Key) /\ s.m_pRight = NIL => DeleteStep(x, g, key) = NIL
  BY DEF DeleteStep, IsBefore, IsAt
<1>3. ~IsBefore(key, x.m_Key) /\ ~(IsAt(key, s.m_Key) /\ s.m_pRight = NIL)
          => DeleteStep(x, g, key) = AfterReady(ReadyRight(s), g, key)
  BY DEF DeleteStep, IsBefore, IsAt, AfterReady
<1> QED  BY <1>1, <1>2, <1>3

\* The step where the key is on the left.
LEMMA DeleteStepLeft ==
    ASSUME NEW x, NEW E, NEW b, Ready(x, E, b), NEW key \in Keys, key \in KeySet(E),
           NEW g, Takes(g, E, key), IsBefore(key, x.m_Key)
    PROVE  Done(x, DeleteStep(x, g, key), E, key, b)
<1>1. PICK k, v, l, r, color, L, R, c :
        /\ Sides(l, r, L, R, c, k, v)
        /\ x = Mk(k, v, l, r, color, Size(l) + Size(r) + 1)
        /\ E = L \cup {<<k, v>>} \cup R /\ b = c + Weight(color)
        /\ color \in BOOLEAN /\ ~IsRed(r) /\ ~(color /\ IsRed(l))
  BY TreeParts DEF Ready
<1>2. PICK n : n = Size(l) + Size(r) + 1
  OBVIOUS
<1>3. x = Mk(k, v, l, r, color, n)
  BY <1>1, <1>2
<1>4. x.m_pLeft = l /\ x.m_Key = k /\ (IsRed(x) <=> color) /\ (color \/ IsRed(l))
  BY <1>1, <1>3, MkFields, MkColor DEF Ready
<1>5. Around(L, k, v, R) /\ v \in Vals /\ E = Spread(L, k, v, R)
  BY <1>1, SidesAround DEF Spread
<1>6. PICK e : e \in L /\ e[1] = key
  <2>1. k # key
    BY <1>4, <1>5, KeyLeft
  <2>2. \A e \in R : e[1] # key
    BY <1>4, <1>5, KeyLeft
  <2> QED  BY <1>1, <2>1, <2>2 DEF KeySet
<1>7. L \subseteq Keys \X Vals
  BY <1>5 DEF Around
<1>8. PICK val : <<key, val>> \in L
  <2>1. e = <<key, e[2]>>
    BY <1>6, <1>7
  <2> QED  BY <1>6, <2>1
<1>9. l # NIL
  BY <1>1, <1>6, TreeNil DEF Sides
<1>10. LeftReady(ReadyLeft(x), E, b, color, L)
  BY <1>1, <1>3, <1>4, <1>5, <1>9, LeftMadeReady
<1>11. PICK y : y = Balance([ReadyLeft(x) EXCEPT !.m_pLeft = g[@]])
  OBVIOUS
<1>12. DeleteStep(x, g, key) = y
  BY <1>11, DeleteStepIs
<1>13. ASSUME NEW l1, NEW L1, NEW c1, Ready(l1, L1, c1), L \subseteq L1, L1 \subseteq E, Count(L1) < Count(E)
       PROVE  Done(l1, g[l1], L1, key, c1)
  <2>1. key \in KeySet(L1)
    BY <1>6, <1>13 DEF KeySet
  <2> QED  BY <1>13, <2>1 DEF Takes, CanDelete
<1>14. Tree(y, Without(E, key), b) /\ (~color => ~IsRed(y))
  <2>1. PICK m : m = ReadyLeft(x)
    OBVIOUS
  <2>2. LeftReady(m, E, b, color, L) /\ y = Balance([m EXCEPT !.m_pLeft = g[@]])
    BY <1>10, <1>11, <2>1
  <2> QED  BY <1>8, <1>13, <2>2, LeftDone
<1> QED  BY <1>4, <1>12, <1>14 DEF Done

\* The step where it is not, at a red node.
LEMMA DeleteStepRed ==
    ASSUME NEW x, NEW E, NEW b, Tree(x, E, b), IsRed(x), NEW key \in Keys, key \in KeySet(E),
           NEW g, Takes(g, E, key), ~IsBefore(key, x.m_Key)
    PROVE  Done(x, DeleteStep(x, g, key), E, key, b)
<1>1. PICK k, v, l, r, L, R :
        /\ Sides(l, r, L, R, b, k, v) /\ x = Nd(k, v, l, r, Red)
        /\ E = L \cup {<<k, v>>} \cup R /\ ~IsRed(r) /\ ~IsRed(l)
  BY RedNode
<1>2. PICK n : n = Size(l) + Size(r) + 1
  OBVIOUS
<1>3. x = Mk(k, v, l, r, Red, n)
  BY <1>1, <1>2 DEF Nd
<1>4. x.m_pLeft = l /\ x.m_pRight = r /\ x.m_Key = k
  BY <1>3, MkFields
<1>5. Around(L, k, v, R) /\ v \in Vals /\ k \in Keys /\ E = Spread(L, k, v, R) /\ b \in Nat
  BY <1>1, SidesAround DEF Spread, Sides
<1>6. x = IF IsRed(x.m_pLeft) THEN RotateRight(x) ELSE x
  BY <1>1, <1>4
<1>7. PICK y : y = DeleteStep(x, g, key)
  OBVIOUS
<1>8. CASE IsAt(key, k) /\ r = NIL
  <2>1. y = NIL
    BY <1>4, <1>6, <1>7, <1>8, DeleteStepIs
  <2>2. key = k
    BY <1>5, <1>8, KeyHere
  <2>3. b = 0 /\ Tree(NIL, Without(Spread(L, k, v, R), k), 0)
    BY <1>1, <1>8, OnlyNode
  <2> QED  BY <1>5, <1>7, <2>1, <2>2, <2>3 DEF Done
<1>9. CASE ~(IsAt(key, k) /\ r = NIL)
  <2>1. r # NIL
    <3>1. ASSUME r = NIL PROVE FALSE
      <4>1. IsAfter(key, k) /\ R = {}
        BY <1>1, <1>4, <1>5, <1>9, <3>1, KeyCases, TreeNil DEF Sides
      <4>2. k # key
        BY <1>5, <4>1, KeyRight
      <4>3. \A e \in L : e[1] # key
        BY <1>5, <4>1, KeyRight
      <4> QED  BY <1>1, <4>1, <4>2, <4>3 DEF KeySet
    <3> QED  BY <3>1
  <2>2. y = AfterReady(ReadyRight(x), g, key)
    BY <1>4, <1>6, <1>7, <1>9, DeleteStepIs
  <2>3. RightReady(ReadyRight(x), E, b, Red, key)
    <3>1. CASE IsRed(r.m_pLeft)
      <4>1. b + Weight(Red) = b /\ Red \in BOOLEAN
        BY <1>5, Weights, Colors
      <4>2. RightReady(ReadyRight(Mk(k, v, l, r, Red, n)), Spread(L, k, v, R), b + Weight(Red), Red, key)
        BY <1>1, <1>4, <2>1, <3>1, <4>1, AlreadyRight
      <4> QED  BY <1>3, <1>5, <4>1, <4>2
    <3>2. CASE ~IsRed(r.m_pLeft)
      BY <1>1, <1>3, <1>4, <1>5, <2>1, <3>2, MovedRight
    <3> QED  BY <3>1, <3>2
  <2>4. Tree(y, Without(E, key), b)
    <3>1. PICK m : m = ReadyRight(x)
      OBVIOUS
    <3> QED  BY <2>2, <2>3, <3>1, AfterReadyDone
  <2> QED  BY <1>7, <2>4 DEF Done
<1> QED  BY <1>8, <1>9

\* The step at a black node with a red one on its left.
LEMMA DeleteStepRotates ==
    ASSUME NEW x, NEW E, NEW b, Ready(x, E, b), ~IsRed(x), NEW key \in Keys, key \in KeySet(E),
           NEW g, Takes(g, E, key), ~IsBefore(key, x.m_Key)
    PROVE  Done(x, DeleteStep(x, g, key), E, key, b)
<1>1. PICK k, v, l, r, L, R, c :
        /\ Sides(l, r, L, R, c, k, v) /\ x = Nd(k, v, l, r, Black)
        /\ E = L \cup {<<k, v>>} \cup R /\ b = c + 1 /\ ~IsRed(r)
  BY BlackNode DEF Ready
<1>2. x.m_pLeft = l /\ x.m_Key = k /\ IsRed(l)
  BY <1>1, MkFields DEF Nd, Ready
<1>3. PICK k1, v1, l1, r1, L1, R1 :
        /\ Sides(l1, r1, L1, R1, c, k1, v1) /\ l = Nd(k1, v1, l1, r1, Red)
        /\ L = L1 \cup {<<k1, v1>>} \cup R1 /\ ~IsRed(r1) /\ ~IsRed(l1)
  <2>1. Tree(l, L, c)
    BY <1>1 DEF Sides
  <2> QED  BY <1>2, <2>1, RedNode
<1>4. PICK n, y, s : /\ n = Size(l) + Size(r) + 1 /\ y = Nd(k, v, r1, r, Red)
                     /\ s = Mk(k1, v1, l1, y, Black, n)
  OBVIOUS
<1>5. RotateRight(x) = s
  BY <1>1, <1>3, <1>4, RotateRightIs DEF Nd
<1>6. s = IF IsRed(x.m_pLeft) THEN RotateRight(x) ELSE x
  BY <1>2, <1>5
<1>7. s.m_Key = k1 /\ s.m_pRight = y /\ y # NIL /\ IsRed(y)
  BY <1>4, MkFields, MkNotNil, MkRed DEF Nd
<1>8. PICK z : z = DeleteStep(x, g, key)
  OBVIOUS
<1>9. z = AfterReady(ReadyRight(s), g, key)
  BY <1>2, <1>6, <1>7, <1>8, DeleteStepIs
<1>10. /\ InOrder(R1, <<k, v>>, R) /\ InOrder(L1, <<k1, v1>>, Spread(R1, k, v, R))
       /\ E = Spread(L1, k1, v1, Spread(R1, k, v, R))
  <2>1. InOrder(L1 \cup {<<k1, v1>>} \cup R1, <<k, v>>, R) /\ InOrder(L1, <<k1, v1>>, R1)
    BY <1>1, <1>3 DEF Sides
  <2>2. /\ InOrder(R1, <<k, v>>, R) /\ InOrder(L1, <<k1, v1>>, R1 \cup {<<k, v>>} \cup R)
        /\ (L1 \cup {<<k1, v1>>} \cup R1) \cup {<<k, v>>} \cup R = L1 \cup {<<k1, v1>>} \cup (R1 \cup {<<k, v>>} \cup R)
    BY <2>1, Reorder
  <2> QED  BY <1>1, <1>3, <2>2 DEF Spread
<1>11. Sides(r1, r, R1, R, c, k, v)
  BY <1>1, <1>3, <1>10 DEF Sides
<1>12. Tree(y, Spread(R1, k, v, R), c)
  BY <1>1, <1>3, <1>4, <1>11, RedMade DEF Spread
<1>13. Sides(l1, y, L1, Spread(R1, k, v, R), c, k1, v1)
  BY <1>3, <1>10, <1>12 DEF Sides
<1>14. k \in Keys /\ k1 \in Keys
  BY <1>1, <1>3 DEF Sides
<1>15. ~IsBefore(key, k1)
  <2>1. compare(k1, k) < 0
    <3>1. <<k, v>> \in Spread(R1, k, v, R) /\ <<k1, v1>> \in {<<k1, v1>>} /\ Before({<<k1, v1>>}, Spread(R1, k, v, R))
      BY <1>10 DEF InOrder, Spread
    <3> QED  BY <3>1 DEF Before
  <2>2. ASSUME compare(key, k1) < 0 PROVE compare(key, k) < 0
    BY <1>14, <2>1, <2>2, KeyOrder
  <2> QED  BY <1>2, <2>2 DEF IsBefore
<1>16. RightReady(ReadyRight(s), E, b, Black, key)
  <2>1. b = c + Weight(Black) /\ Black \in BOOLEAN /\ ~Black
    BY <1>1, Weights, Colors
  <2>2. RightReady(ReadyRight(Mk(k1, v1, l1, y, Black, n)), Spread(L1, k1, v1, Spread(R1, k, v, R)), c + Weight(Black), Black, key)
    BY <1>3, <1>7, <1>13, <1>15, <2>1, AlreadyRight
  <2> QED  BY <1>4, <1>10, <2>1, <2>2
<1>17. Tree(z, Without(E, key), b) /\ ~IsRed(z)
  <2>1. PICK m : m = ReadyRight(s)
    OBVIOUS
  <2>2. ~Black
    BY Colors
  <2> QED  BY <1>9, <1>16, <2>1, <2>2, AfterReadyDone
<1> QED  BY <1>8, <1>17 DEF Done

\* The step at what MoveRedRight left.
LEMMA DeleteStepLate ==
    ASSUME NEW x, NEW E, NEW b, NEW key \in Keys, Late(x, E, b, key), key \in KeySet(E),
           NEW g, Takes(g, E, key)
    PROVE  Done(x, DeleteStep(x, g, key), E, key, b)
<1>1. PICK k, v, l, r, L, R, c :
        /\ Sides(l, r, L, R, c, k, v) /\ x = Nd(k, v, l, r, Black)
        /\ E = Spread(L, k, v, R) /\ b = c + 1
        /\ ~IsRed(l) /\ IsRed(r) /\ ~IsBefore(key, k)
  BY DEF Late
<1>2. PICK n : n = Size(l) + Size(r) + 1
  OBVIOUS
<1>3. x = Mk(k, v, l, r, Black, n)
  BY <1>1, <1>2 DEF Nd
<1>4. x.m_pLeft = l /\ x.m_pRight = r /\ x.m_Key = k /\ r # NIL
  BY <1>1, <1>3, MkFields DEF IsRed
<1>5. x = IF IsRed(x.m_pLeft) THEN RotateRight(x) ELSE x
  BY <1>1, <1>4
<1>6. PICK z : z = DeleteStep(x, g, key)
  OBVIOUS
<1>7. z = AfterReady(ReadyRight(x), g, key)
  BY <1>1, <1>4, <1>5, <1>6, DeleteStepIs
<1>8. RightReady(ReadyRight(x), E, b, Black, key)
  <2>1. b = c + Weight(Black) /\ Black \in BOOLEAN /\ ~Black
    BY <1>1, Weights, Colors
  <2>2. RightReady(ReadyRight(Mk(k, v, l, r, Black, n)), Spread(L, k, v, R), c + Weight(Black), Black, key)
    BY <1>1, <1>4, <2>1, AlreadyRight
  <2> QED  BY <1>1, <1>3, <2>1, <2>2
<1>9. Tree(z, Without(E, key), b) /\ ~IsRed(z)
  <2>1. PICK m : m = ReadyRight(x)
    OBVIOUS
  <2>2. ~Black
    BY Colors
  <2> QED  BY <1>7, <1>8, <2>1, <2>2, AfterReadyDone
<1> QED  BY <1>6, <1>9 DEF Done

\* The step of DeleteKeyFromNode.
LEMMA DeleteStepDone ==
    ASSUME NEW x, NEW E, NEW b, NEW key \in Keys, CanDelete(x, E, b, key), key \in KeySet(E),
           NEW g, Takes(g, E, key)
    PROVE  Done(x, DeleteStep(x, g, key), E, key, b)
<1>1. CASE Late(x, E, b, key)
  BY <1>1, DeleteStepLate
<1>2. CASE Ready(x, E, b) /\ IsBefore(key, x.m_Key)
  BY <1>2, DeleteStepLeft
<1>3. CASE Ready(x, E, b) /\ ~IsBefore(key, x.m_Key) /\ IsRed(x)
  BY <1>3, DeleteStepRed DEF Ready
<1>4. CASE Ready(x, E, b) /\ ~IsBefore(key, x.m_Key) /\ ~IsRed(x)
  BY <1>4, DeleteStepRotates
<1> QED  BY <1>1, <1>2, <1>3, <1>4 DEF CanDelete

-----------------------------------------------------------------------------
(* Get                                                                     *)

\* A node that DeleteKeyFromNode is called with has as many levels as keys.
LEMMA CanDeleteFits ==
    ASSUME NEW x, NEW E, NEW b, NEW key, CanDelete(x, E, b, key)
    PROVE  x # NIL /\ Count(E) \in 1 .. MaxDepth /\ x \in Trees[Count(E)]
<1>1. CASE Ready(x, E, b)
  <2>1. PICK k, v, l, r, color, L, R, c : Sides(l, r, L, R, c, k, v) /\ E = L \cup {<<k, v>>} \cup R
    BY <1>1, TreeParts DEF Ready
  <2>2. Around(L, k, v, R) /\ v \in Vals /\ E = Spread(L, k, v, R)
    BY <2>1, SidesAround DEF Spread
  <2>3. x \in Trees[Count(E)]
    BY <1>1, TreeFits DEF Ready, Fits, Count
  <2> QED  BY <1>1, <2>2, <2>3, CountSides DEF Ready
<1>2. CASE Late(x, E, b, key)
  <2>1. PICK k, v, l, r, L, R, c :
          /\ Sides(l, r, L, R, c, k, v) /\ x = Nd(k, v, l, r, Black) /\ E = Spread(L, k, v, R)
    BY <1>2 DEF Late
  <2>2. Around(L, k, v, R) /\ v \in Vals /\ k \in Keys /\ InOrder(L, <<k, v>>, R)
    BY <2>1, SidesAround DEF Sides
  <2>3. Fits(l, L) /\ Fits(r, R) /\ Black \in BOOLEAN
    BY <2>1, TreeFits, Colors DEF Sides
  <2>4. Fits(x, E)
    BY <2>1, <2>2, <2>3, NodeFits DEF Spread
  <2>5. x \in Trees[Count(E)]
    BY <2>4 DEF Fits, Count
  <2>6. x # NIL
    BY <2>1, MkNotNil DEF Nd
  <2> QED  BY <2>1, <2>2, <2>5, <2>6, CountSides
<1> QED  BY <1>1, <1>2 DEF CanDelete

\* DeleteKeyFromNode takes the entries of the key.
LEMMA DeleteDone ==
    ASSUME NEW x, NEW E, NEW b, NEW key \in Keys, CanDelete(x, E, b, key), key \in KeySet(E)
    PROVE  Done(x, DeleteKeyFromNode(x, key), E, key, b)
<1>1. PICK f : /\ \A h : DeleteKeyFromNode(h, key) = f[MaxDepth][h]
               /\ \A n \in 0 .. MaxDepth : \A y \in Trees[n] :
                      f[n][y] = IF y = NIL THEN NIL ELSE DeleteStep(y, f[n - 1], key)
  BY DeleteIs
<1> DEFINE Good(n) == \A y, F, d : CanDelete(y, F, d, key) /\ key \in KeySet(F) /\ Count(F) <= n
                                       => Done(y, f[n][y], F, key, d)
<1> DEFINE T == {n \in 0 .. MaxDepth : Good(n)}
<1>2. 0 \in T
  <2>1. Good(0)
    BY CanDeleteFits
  <2> QED  BY <2>1, DepthNat
<1>3. ASSUME NEW m \in 0 .. MaxDepth - 1, m \in T PROVE m + 1 \in T
  <2>1. m + 1 \in 0 .. MaxDepth /\ (m + 1) - 1 = m
    BY DepthNat
  <2>2. ASSUME NEW y, NEW F, NEW d, CanDelete(y, F, d, key), key \in KeySet(F), Count(F) <= m + 1
        PROVE  Done(y, f[m + 1][y], F, key, d)
    <3>1. y # NIL /\ Count(F) \in 1 .. MaxDepth /\ y \in Trees[Count(F)]
      BY <2>2, CanDeleteFits
    <3>2. y \in Trees[m + 1]
      <4>1. Count(F) \in 0 .. m + 1
        BY <2>1, <2>2, <3>1
      <4> QED  BY <2>1, <3>1, <4>1, TreesGrow
    <3>3. PICK g : g = f[m]
      OBVIOUS
    <3>4. f[m + 1][y] = DeleteStep(y, g, key)
      BY <1>1, <2>1, <3>1, <3>2, <3>3
    <3>5. ASSUME NEW l, NEW L, NEW c, CanDelete(l, L, c, key), key \in KeySet(L), Count(L) < Count(F)
          PROVE  Done(l, g[l], L, key, c)
      <4>1. Count(L) \in 1 .. MaxDepth
        BY <3>5, CanDeleteFits
      <4>2. Count(L) <= m
        BY <2>1, <2>2, <3>1, <3>5, <4>1
      <4> QED  BY <1>3, <3>3, <3>5, <4>2
    <3>6. Takes(g, F, key)
      BY <3>5 DEF Takes
    <3> QED  BY <2>2, <3>4, <3>6, DeleteStepDone
  <2> QED  BY <2>1, <2>2
<1>4. \A n \in 0 .. MaxDepth : n \in T
  <2> HIDE DEF T
  <2> QED  BY <1>2, <1>3, UpTo, DepthNat
<1>5. MaxDepth \in 0 .. MaxDepth /\ Count(E) <= MaxDepth
  BY CanDeleteFits, DepthNat
<1>6. Done(x, f[MaxDepth][x], E, key, b)
  BY <1>4, <1>5
<1> QED  BY <1>1, <1>6

\* What GetNode finds in a tree: a node with the only entry of the key, or NIL.
Found(y, E, key) ==
    IF y = NIL THEN key \notin KeySet(E)
    ELSE <<key, y.m_Val>> \in E /\ \A e \in E : e[1] = key => e = <<key, y.m_Val>>

\* No entry is of the key.
NoKey(E, key) == \A e \in E : e[1] # key

\* Neither side of k has an entry of its key.
LEMMA KeyNowhere ==
    ASSUME NEW L, NEW R, NEW k, NEW v, Around(L, k, v, R), NEW key \in Keys, IsAt(key, k)
    PROVE  key = k /\ NoKey(L, key) /\ NoKey(R, key)
<1>1. \A e \in L : e[1] \in Keys /\ compare(e[1], k) < 0
  BY DEF Around, InOrder, Before
<1>2. \A e \in R : e[1] \in Keys /\ compare(k, e[1]) < 0
  BY DEF Around, InOrder, Before
<1>3. key = k
  BY KeyHere
<1>4. NoKey(L, key) /\ NoKey(R, key)
  BY <1>1, <1>2, <1>3 DEF IsAt, NoKey
<1> QED  BY <1>3, <1>4

\* GetNode finds an entry where it is.
LEMMA GetNodeFinds ==
    ASSUME NEW x, NEW E, NEW b, Tree(x, E, b), NEW key \in Keys
    PROVE  Found(GetNode(x, key), E, key)
<1>1. PICK f : /\ \A h : GetNode(h, key) = f[MaxDepth][h]
               /\ \A n \in 0 .. MaxDepth : \A y \in Trees[n] :
                      f[n][y] = IF y = NIL THEN NIL ELSE GetStep(y, f[n - 1], key)
  BY GetIs
<1> DEFINE T == {n \in 0 .. MaxDepth : \A y \in Trees[n] : \A F, d : Tree(y, F, d) => Found(f[n][y], F, key)}
<1>0. Found(NIL, {}, key)
  BY DEF Found, KeySet
<1>2. 0 \in T
  <2>1. 0 \in 0 .. MaxDepth /\ \A y \in Trees[0] : y = NIL
    BY DepthNat, TreesIs
  <2>2. \A y \in Trees[0] : f[0][y] = NIL
    BY <1>1, <2>1
  <2> QED  BY <1>0, <2>1, <2>2, TreeNil
<1>3. ASSUME NEW m \in 0 .. MaxDepth - 1, m \in T PROVE m + 1 \in T
  <2>1. m + 1 \in 0 .. MaxDepth /\ (m + 1) - 1 = m
    BY DepthNat
  <2>2. ASSUME NEW y \in Trees[m + 1], NEW F, NEW d, Tree(y, F, d) PROVE Found(f[m + 1][y], F, key)
    <3>1. CASE y = NIL
      <4>1. f[m + 1][y] = NIL /\ F = {}
        BY <1>1, <2>1, <2>2, <3>1, TreeNil
      <4> QED  BY <1>0, <4>1
    <3>2. CASE y # NIL
      <4>1. PICK g : g = f[m]
        OBVIOUS
      <4>2. f[m + 1][y] = GetStep(y, g, key)
        BY <1>1, <2>1, <3>2, <4>1
      <4>3. PICK k, v, l, r, color, L, R, c :
              /\ Sides(l, r, L, R, c, k, v)
              /\ y = Mk(k, v, l, r, color, Size(l) + Size(r) + 1)
              /\ F = L \cup {<<k, v>>} \cup R
        BY <2>2, <3>2, TreeParts
      <4>4. y.m_pLeft = l /\ y.m_pRight = r /\ y.m_Key = k /\ y.m_Val = v
        BY <4>3, MkFields
      <4>5. l \in Trees[m] /\ r \in Trees[m]
        BY <2>1, <3>2, <4>4, NodeBelow
      <4>6. Found(g[l], L, key) /\ Found(g[r], R, key)
        BY <1>3, <4>1, <4>3, <4>5 DEF Sides
      <4>7. Around(L, k, v, R) /\ k \in Keys
        BY <4>3, SidesAround DEF Around
      <4>8. CASE IsAt(key, k)
        <5>1. f[m + 1][y] = y /\ key = k
          <6>1. f[m + 1][y] = y
            BY <4>2, <4>4, <4>8 DEF GetStep, IsAt
          <6>2. key = k
            BY <4>7, <4>8, KeyNowhere
          <6> QED  BY <6>1, <6>2
        <5>2. NoKey(L, key) /\ NoKey(R, key)
          BY <4>7, <4>8, KeyNowhere
        <5>3. \A e \in F : e[1] = key => e = <<k, v>>
          BY <4>3, <5>2 DEF NoKey
        <5> QED  BY <3>2, <4>3, <4>4, <5>1, <5>3 DEF Found
      <4>9. CASE IsBefore(key, k)
        <5>1. f[m + 1][y] = g[l]
          BY <4>2, <4>4, <4>9 DEF GetStep, IsBefore
        <5>2. k # key
          BY <4>7, <4>9, KeyLeft
        <5>3. \A e \in R : e[1] # key
          BY <4>7, <4>9, KeyLeft
        <5>4. key \notin KeySet(L) => key \notin KeySet(F)
          BY <4>3, <5>2, <5>3 DEF KeySet
        <5>6. (\A e \in L : e[1] = key => e = <<key, g[l].m_Val>>) => \A e \in F : e[1] = key => e = <<key, g[l].m_Val>>
          BY <4>3, <5>2, <5>3
        <5> QED  BY <4>3, <4>6, <5>1, <5>4, <5>6 DEF Found
      <4>10. CASE IsAfter(key, k)
        <5>1. f[m + 1][y] = g[r]
          <6>1. ~(compare(key, k) = 0) /\ ~(compare(key, k) < 0)
            BY <4>7, <4>10, KeyCases DEF IsAt, IsBefore
          <6> QED  BY <4>2, <4>4, <6>1 DEF GetStep
        <5>2. k # key
          BY <4>7, <4>10, KeyRight
        <5>3. \A e \in L : e[1] # key
          BY <4>7, <4>10, KeyRight
        <5>4. key \notin KeySet(R) => key \notin KeySet(F)
          BY <4>3, <5>2, <5>3 DEF KeySet
        <5>6. (\A e \in R : e[1] = key => e = <<key, g[r].m_Val>>) => \A e \in F : e[1] = key => e = <<key, g[r].m_Val>>
          BY <4>3, <5>2, <5>3
        <5> QED  BY <4>3, <4>6, <5>1, <5>4, <5>6 DEF Found
      <4> QED  BY <4>7, <4>8, <4>9, <4>10, KeyCases
    <3> QED  BY <3>1, <3>2
  <2> QED  BY <2>1, <2>2
<1>4. \A n \in 0 .. MaxDepth : n \in T
  <2> HIDE DEF T
  <2> QED  BY <1>2, <1>3, UpTo, DepthNat
<1>5. MaxDepth \in 0 .. MaxDepth /\ x \in Trees[MaxDepth]
  BY DepthNat DEF Tree
<1>6. Found(f[MaxDepth][x], E, key)
  BY <1>4, <1>5
<1> QED  BY <1>1, <1>6

\* Delete leaves a black root.
LEMMA DeleteMade ==
    ASSUME NEW x, NEW E, NEW b, BlackTree(x, E, b), NEW key \in Keys
    PROVE  \E c : BlackTree(Delete(x, key), Without(E, key), c)
<1>1. Found(GetNode(x, key), E, key)
  BY GetNodeFinds DEF BlackTree
<1>2. CASE ~ContainsKey(x, key)
  <2>1. key \notin KeySet(E)
    BY <1>1, <1>2 DEF ContainsKey, Found
  <2>2. Without(E, key) = E
    BY <2>1 DEF Without, KeySet
  <2>3. Delete(x, key) = x
    BY <1>2 DEF Delete
  <2> QED  BY <2>2, <2>3
<1>3. CASE ContainsKey(x, key)
  <2>1. key \in KeySet(E)
    <3>1. PICK v : <<key, v>> \in E
      BY <1>1, <1>3 DEF ContainsKey, Found
    <3>2. <<key, v>>[1] = key
      OBVIOUS
    <3> QED  BY <3>1, <3>2 DEF KeySet
  <2>2. x # NIL
    BY <2>1, TreeNil DEF BlackTree, KeySet
  <2>3. PICK k, v, l, r, L, R, c :
          /\ Sides(l, r, L, R, c, k, v) /\ x = Nd(k, v, l, r, Black)
          /\ E = L \cup {<<k, v>>} \cup R /\ b = c + 1 /\ ~IsRed(r)
    BY <2>2, BlackNode DEF BlackTree
  <2>4. PICK n : n = Size(l) + Size(r) + 1
    OBVIOUS
  <2>5. x = Mk(k, v, l, r, Black, n)
    BY <2>3, <2>4 DEF Nd
  <2>6. x.m_pLeft = l /\ x.m_pRight = r /\ x.m_Color = Black
    BY <2>5, MkFields
  <2>7. PICK h : h = [x EXCEPT !.m_Color = @ \/ (~IsRed(x.m_pLeft) /\ ~IsRed(x.m_pRight))]
    OBVIOUS
  <2>8. Delete(x, key) = Blackened(DeleteKeyFromNode(h, key))
    BY <1>3, <2>7 DEF Delete
  <2>9. \E d : Ready(h, E, d)
    <3>1. CASE IsRed(l)
      <4>1. h = x
        <5>1. (x.m_Color \/ (~IsRed(x.m_pLeft) /\ ~IsRed(x.m_pRight))) = Black
          BY <2>6, <3>1, Colors DEF Black
        <5>2. h = [x EXCEPT !.m_Color = Black]
          BY <2>7, <5>1
        <5> QED  BY <2>5, <5>2 DEF Mk
      <4> QED  BY <2>2, <2>6, <3>1, <4>1 DEF Ready, BlackTree
    <3>2. CASE ~IsRed(l)
      <4>1. h = Nd(k, v, l, r, Red)
        <5>1. (x.m_Color \/ (~IsRed(x.m_pLeft) /\ ~IsRed(x.m_pRight))) = Red
          BY <2>3, <2>6, <3>2 DEF Black, Red
        <5>2. h = [x EXCEPT !.m_Color = Red]
          BY <2>7, <5>1
        <5>3. h = Mk(k, v, l, r, Red, n)
          BY <2>5, <5>2 DEF Mk
        <5> QED  BY <2>4, <5>3 DEF Nd
      <4>2. Tree(h, E, c) /\ IsRed(h)
        BY <2>3, <3>2, <4>1, RedMade
      <4> QED  BY <4>2 DEF Ready, IsRed
    <3> QED  BY <3>1, <3>2
  <2>10. PICK d : Ready(h, E, d)
    BY <2>9
  <2>11. Tree(DeleteKeyFromNode(h, key), Without(E, key), d)
    BY <2>1, <2>10, DeleteDone DEF CanDelete, Done
  <2> QED  BY <2>8, <2>11, BlackenedTree
<1> QED  BY <1>2, <1>3

-----------------------------------------------------------------------------
(* ForEach                                                                 *)

\* Induction over the trees, as a fact about a set of them.
LEMMA AllTrees ==
    ASSUME NEW P, NIL \in P,
           \A x \in Trees[MaxDepth] : x # NIL /\ x.m_pLeft \in P /\ x.m_pRight \in P => x \in P
    PROVE  \A x \in Trees[MaxDepth] : x \in P
<1> DEFINE T == {n \in 0 .. MaxDepth : \A x \in Trees[n] : x \in P}
<1>1. 0 \in T
  <2>1. 0 \in 0 .. MaxDepth /\ \A y \in Trees[0] : y = NIL
    BY DepthNat, TreesIs
  <2> QED  BY <2>1
<1>2. ASSUME NEW m \in 0 .. MaxDepth - 1, m \in T PROVE m + 1 \in T
  <2>1. m + 1 \in 0 .. MaxDepth /\ (m + 1) - 1 = m /\ MaxDepth \in 0 .. MaxDepth /\ m + 1 \in 0 .. MaxDepth
    BY DepthNat
  <2>2. ASSUME NEW x \in Trees[m + 1], x # NIL PROVE x \in P
    <3>1. x.m_pLeft \in Trees[m] /\ x.m_pRight \in Trees[m]
      BY <2>1, <2>2, NodeBelow
    <3>2. x \in Trees[MaxDepth]
      BY <2>1, TreesGrow
    <3> QED  BY <1>2, <2>2, <3>1, <3>2
  <2> QED  BY <2>1, <2>2
<1>3. \A n \in 0 .. MaxDepth : n \in T
  <2> HIDE DEF T
  <2> QED  BY <1>1, <1>2, UpTo, DepthNat
<1> QED  BY <1>3, DepthNat

\* s has the keys of E, in their order.
Visits(s, E) ==
    /\ s \in Seq(Keys)
    /\ {s[i] : i \in 1 .. Len(s)} = KeySet(E)
    /\ \A i, j \in 1 .. Len(s) : i < j => compare(s[i], s[j]) < 0

\* The keys before k, then k.
LEMMA VisitsBefore ==
    ASSUME NEW L, NEW k \in Keys, NEW v, NEW s, Visits(s, L), \A e \in L : compare(e[1], k) < 0,
           NEW t, t = s \o <<k>>
    PROVE  Visits(t, L \cup {<<k, v>>})
<1>1. PICK n : n = Len(s)
  OBVIOUS
<1>2. Joined(s, <<k>>, t, n, 1) /\ t \in Seq(Keys)
  <2>1. <<k>> \in Seq(Keys) /\ Len(<<k>>) = 1 /\ s \in Seq(Keys)
    BY DEF Visits
  <2> QED  BY <1>1, <2>1, ConcatItems
<1>3. n \in Nat /\ Len(t) = n + 1 /\ t[n + 1] = k /\ \A i \in 1 .. n : t[i] = s[i]
  <2>1. n \in Nat /\ DOMAIN t = 1 .. n + 1
    BY <1>2 DEF Joined
  <2>2. \A i \in 1 .. n : t[i] = s[i]
    BY <1>2 DEF Joined
  <2>3. t[1 + n] = <<k>>[1]
    BY <1>2 DEF Joined
  <2> QED  BY <1>2, <2>1, <2>2, <2>3
<1>4. {t[i] : i \in 1 .. Len(t)} = KeySet(L \cup {<<k, v>>})
  <2>1. KeySet(L \cup {<<k, v>>}) = KeySet(L) \cup {k}
    <3>1. PICK e : e = <<k, v>>
      OBVIOUS
    <3>2. KeySet(L \cup {e}) = KeySet(L) \cup {e[1]}
      BY DEF KeySet
    <3> QED  BY <3>1, <3>2
  <2>2. {s[i] : i \in 1 .. n} = KeySet(L)
    BY <1>1 DEF Visits
  <2>3. {t[i] : i \in 1 .. n + 1} = {s[i] : i \in 1 .. n} \cup {k}
    BY <1>3
  <2> QED  BY <1>3, <2>1, <2>2, <2>3
<1>5. ASSUME NEW i \in 1 .. Len(t), NEW j \in 1 .. Len(t), i < j PROVE compare(t[i], t[j]) < 0
  <2>1. i \in 1 .. n /\ (j \in 1 .. n \/ j = n + 1)
    BY <1>3, <1>5
  <2>2. s[i] \in KeySet(L)
    BY <1>1, <2>1 DEF Visits
  <2>3. compare(s[i], k) < 0
    BY <2>2 DEF KeySet
  <2>4. j \in 1 .. n => compare(s[i], s[j]) < 0
    BY <1>1, <1>5, <2>1 DEF Visits
  <2> QED  BY <1>3, <2>1, <2>3, <2>4
<1> QED  BY <1>2, <1>4, <1>5 DEF Visits

\* Keys, then later ones.
LEMMA VisitsBoth ==
    ASSUME NEW A, NEW B, NEW s, NEW t, Visits(s, A), Visits(t, B), Before(A, B), NEW u, u = s \o t
    PROVE  Visits(u, A \cup B)
<1>1. PICK n, m : n = Len(s) /\ m = Len(t)
  OBVIOUS
<1>2. Joined(s, t, u, n, m) /\ u \in Seq(Keys)
  BY <1>1, ConcatItems DEF Visits
<1>3. /\ n \in Nat /\ m \in Nat /\ Len(u) = n + m
      /\ \A i \in 1 .. n : i \in 1 .. n + m /\ u[i] = s[i]
      /\ \A i \in 1 .. m : i + n \in 1 .. n + m /\ u[i + n] = t[i]
      /\ \A i \in 1 .. n + m : i \in 1 .. n \/ \E y \in 1 .. m : i = y + n
  BY <1>2 DEF Joined
<1>4. \A i \in 1 .. n : \E e \in A : s[i] = e[1]
  BY <1>1 DEF Visits, KeySet
<1>5. \A i \in 1 .. m : \E e \in B : t[i] = e[1]
  BY <1>1 DEF Visits, KeySet
<1>6. \A i \in 1 .. n, j \in 1 .. m : compare(s[i], t[j]) < 0
  BY <1>4, <1>5 DEF Before
<1>7. {u[i] : i \in 1 .. Len(u)} = KeySet(A \cup B)
  <2>1. KeySet(A \cup B) = KeySet(A) \cup KeySet(B)
    BY DEF KeySet
  <2>2. {s[i] : i \in 1 .. n} = KeySet(A) /\ {t[i] : i \in 1 .. m} = KeySet(B)
    BY <1>1 DEF Visits
  <2>3. {u[i] : i \in 1 .. n + m} = {s[i] : i \in 1 .. n} \cup {t[i] : i \in 1 .. m}
    <3>1. ASSUME NEW i \in 1 .. n + m PROVE u[i] \in {s[j] : j \in 1 .. n} \cup {t[j] : j \in 1 .. m}
      <4>1. CASE i \in 1 .. n
        BY <1>3, <4>1
      <4>2. CASE i \notin 1 .. n
        <5>1. PICK y \in 1 .. m : i = y + n
          BY <1>3, <4>2
        <5>2. u[i] = t[y]
          BY <1>3, <5>1
        <5> QED  BY <5>2
      <4> QED  BY <4>1, <4>2
    <3>2. ASSUME NEW i \in 1 .. n PROVE s[i] \in {u[j] : j \in 1 .. n + m}
      BY <1>3
    <3>3. ASSUME NEW i \in 1 .. m PROVE t[i] \in {u[j] : j \in 1 .. n + m}
      BY <1>3
    <3> QED  BY <3>1, <3>2, <3>3
  <2> QED  BY <1>3, <2>1, <2>2, <2>3
<1>8. ASSUME NEW i \in 1 .. Len(u), NEW j \in 1 .. Len(u), i < j PROVE compare(u[i], u[j]) < 0
  <2>1. CASE j \in 1 .. n
    <3>1. i \in 1 .. n
      BY <1>3, <1>8, <2>1
    <3> QED  BY <1>1, <1>3, <1>8, <2>1, <3>1 DEF Visits
  <2>2. CASE i \in 1 .. n /\ j \notin 1 .. n
    <3>1. PICK y \in 1 .. m : j = y + n
      BY <1>3, <2>2
    <3> QED  BY <1>3, <1>6, <2>2, <3>1
  <2>3. CASE i \notin 1 .. n
    <3>1. j \notin 1 .. n
      BY <1>3, <1>8, <2>3
    <3>2. PICK x \in 1 .. m, y \in 1 .. m : i = x + n /\ j = y + n
      BY <1>3, <2>3, <3>1
    <3>3. x < y
      BY <1>3, <1>8, <3>2
    <3> QED  BY <1>1, <1>3, <3>2, <3>3 DEF Visits
  <2> QED  BY <2>1, <2>2, <2>3
<1> QED  BY <1>2, <1>7, <1>8 DEF Visits

\* ForEach comes to every key, once and in order.
LEMMA ConsumeVisits ==
    ASSUME NEW x, NEW E, NEW b, Tree(x, E, b)
    PROVE  Visits(Consume(x), E)
<1> DEFINE P == {y \in Trees[MaxDepth] : \A F, d : Tree(y, F, d) => Visits(Consume(y), F)}
<1>1. NIL \in P
  <2>1. NIL \in Trees[MaxDepth]
    BY NilIsTree, DepthNat
  <2>2. <<>> \in Seq(Keys) /\ Len(<<>>) = 0
    OBVIOUS
  <2>3. Visits(<<>>, {})
    BY <2>2 DEF Visits, KeySet
  <2> QED  BY <2>1, <2>3, ConsumeNode, TreeNil
<1>2. ASSUME NEW y \in Trees[MaxDepth], y # NIL, y.m_pLeft \in P, y.m_pRight \in P PROVE y \in P
  <2>1. ASSUME NEW F, NEW d, Tree(y, F, d) PROVE Visits(Consume(y), F)
    <3>1. PICK k, v, l, r, color, L, R, c :
            /\ Sides(l, r, L, R, c, k, v)
            /\ y = Mk(k, v, l, r, color, Size(l) + Size(r) + 1)
            /\ F = L \cup {<<k, v>>} \cup R
      BY <1>2, <2>1, TreeParts
    <3>2. y.m_pLeft = l /\ y.m_pRight = r /\ y.m_Key = k
      BY <3>1, MkFields
    <3>3. PICK s, t, u : s = Consume(l) /\ t = Consume(r) /\ u = s \o <<k>>
      OBVIOUS
    <3>4. Visits(s, L) /\ Visits(t, R)
      BY <1>2, <3>1, <3>2, <3>3 DEF Sides
    <3>5. InOrder(L, <<k, v>>, R) /\ k \in Keys
      BY <3>1 DEF Sides
    <3>6. \A e \in L : compare(e[1], k) < 0
      BY <3>5 DEF InOrder, Before
    <3>7. Visits(u, L \cup {<<k, v>>})
      BY <3>3, <3>4, <3>5, <3>6, VisitsBefore
    <3>8. Before(L \cup {<<k, v>>}, R)
      BY <3>5 DEF InOrder, Before
    <3>9. Visits(u \o t, (L \cup {<<k, v>>}) \cup R)
      BY <3>4, <3>7, <3>8, VisitsBoth
    <3>10. Consume(y) = u \o t
      BY <1>2, <3>2, <3>3, ConsumeNode
    <3> QED  BY <3>1, <3>9, <3>10
  <2> QED  BY <2>1
<1>3. \A y \in Trees[MaxDepth] : y \in P
  <2> HIDE DEF P
  <2> QED  BY <1>1, <1>2, AllTrees
<1> QED  BY <1>3 DEF Tree

\* Every node of a tree is the root of one.
LEMMA NodesAreTrees ==
    ASSUME NEW x, NEW E, NEW b, Tree(x, E, b), NEW y \in NodesOf(x)
    PROVE  y # NIL /\ \E F, d : Tree(y, F, d)
<1> DEFINE P == {z \in Trees[MaxDepth] : \A F, d : Tree(z, F, d) =>
                     \A w \in NodesOf(z) : w # NIL /\ \E G, h : Tree(w, G, h)}
<1>1. NIL \in P
  BY NodesOfNode, NilIsTree, DepthNat
<1>2. ASSUME NEW z \in Trees[MaxDepth], z # NIL, z.m_pLeft \in P, z.m_pRight \in P PROVE z \in P
  <2>1. ASSUME NEW F, NEW d, Tree(z, F, d), NEW w \in NodesOf(z)
        PROVE  w # NIL /\ \E G, h : Tree(w, G, h)
    <3>1. PICK k, v, l, r, color, L, R, c :
            /\ Sides(l, r, L, R, c, k, v)
            /\ z = Mk(k, v, l, r, color, Size(l) + Size(r) + 1)
      BY <1>2, <2>1, TreeParts
    <3>2. z.m_pLeft = l /\ z.m_pRight = r
      BY <3>1, MkFields
    <3>3. NodesOf(z) = {z} \cup NodesOf(l) \cup NodesOf(r)
      BY <1>2, <3>2, NodesOfNode
    <3>4. Tree(l, L, c) /\ Tree(r, R, c)
      BY <3>1 DEF Sides
    <3>5. \A a \in NodesOf(l) : a # NIL /\ \E G, h : Tree(a, G, h)
      BY <1>2, <3>2, <3>4
    <3>6. \A a \in NodesOf(r) : a # NIL /\ \E G, h : Tree(a, G, h)
      BY <1>2, <3>2, <3>4
    <3> QED  BY <1>2, <2>1, <3>3, <3>5, <3>6
  <2> QED  BY <2>1
<1>3. \A z \in Trees[MaxDepth] : z \in P
  <2> HIDE DEF P
  <2> QED  BY <1>1, <1>2, AllTrees
<1> QED  BY <1>3 DEF Tree

\* The keys of the nodes are those of the entries.
LEMMA KeysOfTree ==
    ASSUME NEW x, NEW E, NEW b, Tree(x, E, b)
    PROVE  KeysOf(x) = KeySet(E)
<1>1. \A y : <<y.m_Key, y.m_Val>>[1] = y.m_Key
  OBVIOUS
<1> QED  BY <1>1 DEF Tree, Entries, KeySet, KeysOf

\* The root of a tree has fields of the right types and counts the keys.
LEMMA RootCounts ==
    ASSUME NEW x, NEW E, NEW b, Tree(x, E, b), x # NIL
    PROVE  /\ x.m_Key \in Keys /\ x.m_Val \in Vals /\ x.m_Color \in BOOLEAN
           /\ x.m_N = Cardinality(KeysOf(x))
<1>1. PICK k, v, l, r, color, L, R, c :
        /\ Sides(l, r, L, R, c, k, v)
        /\ x = Mk(k, v, l, r, color, Size(l) + Size(r) + 1)
        /\ color \in BOOLEAN
  BY TreeParts
<1>2. x.m_Key \in Keys /\ x.m_Val \in Vals /\ x.m_Color \in BOOLEAN
  BY <1>1, MkFields DEF Sides
<1>3. Fits(x, E)
  BY TreeFits
<1>4. KeysOf(x) = KeySet(E)
  BY KeysOfTree
<1>5. x.m_N = Cardinality(KeySet(E))
  BY <1>3 DEF Fits, Size
<1> QED  BY <1>2, <1>4, <1>5

-----------------------------------------------------------------------------
(* The list of keys and the sweeps                                         *)

\* The list of Collect, one key further.
CollectStep(before, i, keys, K) ==
    LET key == keys[Len(keys) - i + 1]
    IN  IF key \in K THEN Enqueue(before, key) ELSE before

\* f has the list of Collect after 0, 1, .., k keys.
CollectSteps(f, k, keys, K) ==
    f = [i \in 0 .. k |-> IF i = 0 THEN NewDeque ELSE CollectStep(f[i - 1], i, keys, K)]

\* There is such an f for any number of keys.
LEMMA CollectExists ==
    ASSUME NEW k \in Nat, NEW keys, NEW K
    PROVE  \E f : CollectSteps(f, k, keys, K)
<1> DEFINE T == {n \in 0 .. k : \E f : CollectSteps(f, n, keys, K)}
<1>1. 0 \in T
  <2>1. PICK f : f = [i \in 0 .. 0 |-> NewDeque]
    OBVIOUS
  <2>2. CollectSteps(f, 0, keys, K)
    BY <2>1 DEF CollectSteps
  <2> QED  BY <2>2
<1>2. ASSUME NEW n \in 0 .. k - 1, n \in T PROVE n + 1 \in T
  <2>1. PICK f : CollectSteps(f, n, keys, K)
    BY <1>2
  <2>2. \A i \in 0 .. n : f[i] = IF i = 0 THEN NewDeque ELSE CollectStep(f[i - 1], i, keys, K)
    BY <2>1 DEF CollectSteps
  <2>3. PICK g : Longer(g, f, CollectStep(f[n], n + 1, keys, K), n)
    BY OneMoreLevel
  <2>4. g[n + 1] = CollectStep(f[n], n + 1, keys, K) /\ \A i \in 0 .. n : g[i] = f[i]
    BY <2>3 DEF Longer
  <2>5. ASSUME NEW i \in 0 .. n + 1
        PROVE  g[i] = IF i = 0 THEN NewDeque ELSE CollectStep(g[i - 1], i, keys, K)
    <3>1. CASE i = n + 1
      <4>1. i - 1 = n /\ g[n] = f[n] /\ i # 0
        BY <3>1, <2>4
      <4> QED  BY <3>1, <4>1, <2>4
    <3>2. CASE i = 0
      BY <3>2, <2>2, <2>4
    <3>3. CASE i \in 1 .. n
      <4>1. i \in 0 .. n /\ i - 1 \in 0 .. n /\ i # 0
        BY <3>3
      <4> QED  BY <4>1, <2>2, <2>4
    <3> QED  BY <3>1, <3>2, <3>3
  <2>6. g = [i \in 0 .. n + 1 |-> g[i]]
    BY <2>3 DEF Longer
  <2>7. CollectSteps(g, n + 1, keys, K)
    BY <2>5, <2>6 DEF CollectSteps
  <2> QED  BY <2>7
<1>3. \A n \in 0 .. k : n \in T
  <2> HIDE DEF T
  <2> QED  BY <1>1, <1>2, UpTo
<1> QED  BY <1>3

\* Collect, as the last of its lists.
LEMMA CollectIs ==
    ASSUME NEW root, NEW K, Len(Consume(root)) \in Nat
    PROVE  \E f : /\ Collect(root, K) = f[Len(Consume(root))]
                  /\ f[0] = NewDeque
                  /\ \A i \in 1 .. Len(Consume(root)) : f[i] = CollectStep(f[i - 1], i, Consume(root), K)
<1> DEFINE f == CHOOSE f : CollectSteps(f, Len(Consume(root)), Consume(root), K)
<1>1. CollectSteps(f, Len(Consume(root)), Consume(root), K)
  BY CollectExists
<1>2. Collect(root, K) = f[Len(Consume(root))]
  BY Zenon DEF Collect, CollectSteps, CollectStep
<1>3. PICK w, n : w = f /\ n = Len(Consume(root))
  OBVIOUS
<1> HIDE DEF f
<1>4. CollectSteps(w, n, Consume(root), K) /\ n \in Nat
  BY <1>1, <1>3
<1>5. \A i \in 0 .. n : w[i] = IF i = 0 THEN NewDeque ELSE CollectStep(w[i - 1], i, Consume(root), K)
  BY <1>4 DEF CollectSteps
<1>6. w[0] = NewDeque /\ \A i \in 1 .. n : w[i] = CollectStep(w[i - 1], i, Consume(root), K)
  BY <1>4, <1>5
<1> QED  BY <1>2, <1>3, <1>6

\* The tree of Sweep without one more key.
SweepStep(before, i, root, list) ==
    Delete(before, At(list, i - 1))

\* f has the tree of Sweep after 0, 1, .., k keys.
SweepSteps(f, k, root, list) ==
    f = [i \in 0 .. k |-> IF i = 0 THEN root ELSE SweepStep(f[i - 1], i, root, list)]

\* There is such an f for any number of keys.
LEMMA SweepExists ==
    ASSUME NEW k \in Nat, NEW root, NEW list
    PROVE  \E f : SweepSteps(f, k, root, list)
<1> DEFINE T == {n \in 0 .. k : \E f : SweepSteps(f, n, root, list)}
<1>1. 0 \in T
  <2>1. PICK f : f = [i \in 0 .. 0 |-> root]
    OBVIOUS
  <2>2. SweepSteps(f, 0, root, list)
    BY <2>1 DEF SweepSteps
  <2> QED  BY <2>2
<1>2. ASSUME NEW n \in 0 .. k - 1, n \in T PROVE n + 1 \in T
  <2>1. PICK f : SweepSteps(f, n, root, list)
    BY <1>2
  <2>2. \A i \in 0 .. n : f[i] = IF i = 0 THEN root ELSE SweepStep(f[i - 1], i, root, list)
    BY <2>1 DEF SweepSteps
  <2>3. PICK g : Longer(g, f, SweepStep(f[n], n + 1, root, list), n)
    BY OneMoreLevel
  <2>4. g[n + 1] = SweepStep(f[n], n + 1, root, list) /\ \A i \in 0 .. n : g[i] = f[i]
    BY <2>3 DEF Longer
  <2>5. ASSUME NEW i \in 0 .. n + 1
        PROVE  g[i] = IF i = 0 THEN root ELSE SweepStep(g[i - 1], i, root, list)
    <3>1. CASE i = n + 1
      <4>1. i - 1 = n /\ g[n] = f[n] /\ i # 0
        BY <3>1, <2>4
      <4> QED  BY <3>1, <4>1, <2>4
    <3>2. CASE i = 0
      BY <3>2, <2>2, <2>4
    <3>3. CASE i \in 1 .. n
      <4>1. i \in 0 .. n /\ i - 1 \in 0 .. n /\ i # 0
        BY <3>3
      <4> QED  BY <4>1, <2>2, <2>4
    <3> QED  BY <3>1, <3>2, <3>3
  <2>6. g = [i \in 0 .. n + 1 |-> g[i]]
    BY <2>3 DEF Longer
  <2>7. SweepSteps(g, n + 1, root, list)
    BY <2>5, <2>6 DEF SweepSteps
  <2> QED  BY <2>7
<1>3. \A n \in 0 .. k : n \in T
  <2> HIDE DEF T
  <2> QED  BY <1>1, <1>2, UpTo
<1> QED  BY <1>3

\* Sweep, as the last of its trees.
LEMMA SweepIs ==
    ASSUME NEW root, NEW K, Collect(root, K).m_Size \in Nat
    PROVE  \E f : /\ Sweep(root, K) = f[Collect(root, K).m_Size]
                  /\ f[0] = root
                  /\ \A i \in 1 .. Collect(root, K).m_Size : f[i] = SweepStep(f[i - 1], i, root, Collect(root, K))
<1> DEFINE f == CHOOSE f : SweepSteps(f, Collect(root, K).m_Size, root, Collect(root, K))
<1>1. SweepSteps(f, Collect(root, K).m_Size, root, Collect(root, K))
  BY SweepExists
<1>2. Sweep(root, K) = f[Collect(root, K).m_Size]
  BY Zenon DEF Sweep, SweepSteps, SweepStep
<1>3. PICK w, n : w = f /\ n = Collect(root, K).m_Size
  OBVIOUS
<1> HIDE DEF f
<1>4. SweepSteps(w, n, root, Collect(root, K)) /\ n \in Nat
  BY <1>1, <1>3
<1>5. \A i \in 0 .. n : w[i] = IF i = 0 THEN root ELSE SweepStep(w[i - 1], i, root, Collect(root, K))
  BY <1>4 DEF SweepSteps
<1>6. w[0] = root /\ \A i \in 1 .. n : w[i] = SweepStep(w[i - 1], i, root, Collect(root, K))
  BY <1>4, <1>5
<1> QED  BY <1>2, <1>3, <1>6

\* The tree of SweepOut without one more key, and the list without it.
OutStep(before, i, start) ==
    [tree |-> Delete(before.tree, FrontOf(before.list)), list |-> Dequeue(before.list)]

\* f has the tree and the list of SweepOut after 0, 1, .., k keys.
OutSteps(f, k, start) ==
    f = [i \in 0 .. k |-> IF i = 0 THEN start ELSE OutStep(f[i - 1], i, start)]

\* There is such an f for any number of keys.
LEMMA OutExists ==
    ASSUME NEW k \in Nat, NEW start
    PROVE  \E f : OutSteps(f, k, start)
<1> DEFINE T == {n \in 0 .. k : \E f : OutSteps(f, n, start)}
<1>1. 0 \in T
  <2>1. PICK f : f = [i \in 0 .. 0 |-> start]
    OBVIOUS
  <2>2. OutSteps(f, 0, start)
    BY <2>1 DEF OutSteps
  <2> QED  BY <2>2
<1>2. ASSUME NEW n \in 0 .. k - 1, n \in T PROVE n + 1 \in T
  <2>1. PICK f : OutSteps(f, n, start)
    BY <1>2
  <2>2. \A i \in 0 .. n : f[i] = IF i = 0 THEN start ELSE OutStep(f[i - 1], i, start)
    BY <2>1 DEF OutSteps
  <2>3. PICK g : Longer(g, f, OutStep(f[n], n + 1, start), n)
    BY OneMoreLevel
  <2>4. g[n + 1] = OutStep(f[n], n + 1, start) /\ \A i \in 0 .. n : g[i] = f[i]
    BY <2>3 DEF Longer
  <2>5. ASSUME NEW i \in 0 .. n + 1
        PROVE  g[i] = IF i = 0 THEN start ELSE OutStep(g[i - 1], i, start)
    <3>1. CASE i = n + 1
      <4>1. i - 1 = n /\ g[n] = f[n] /\ i # 0
        BY <3>1, <2>4
      <4> QED  BY <3>1, <4>1, <2>4
    <3>2. CASE i = 0
      BY <3>2, <2>2, <2>4
    <3>3. CASE i \in 1 .. n
      <4>1. i \in 0 .. n /\ i - 1 \in 0 .. n /\ i # 0
        BY <3>3
      <4> QED  BY <4>1, <2>2, <2>4
    <3> QED  BY <3>1, <3>2, <3>3
  <2>6. g = [i \in 0 .. n + 1 |-> g[i]]
    BY <2>3 DEF Longer
  <2>7. OutSteps(g, n + 1, start)
    BY <2>5, <2>6 DEF OutSteps
  <2> QED  BY <2>7
<1>3. \A n \in 0 .. k : n \in T
  <2> HIDE DEF T
  <2> QED  BY <1>1, <1>2, UpTo
<1> QED  BY <1>3

\* SweepOut, as the last of its trees.
LEMMA OutIs ==
    ASSUME NEW root, NEW K, Collect(root, K).m_Size \in Nat
    PROVE  \E f : /\ SweepOut(root, K) = f[Collect(root, K).m_Size].tree
                  /\ f[0] = [tree |-> root, list |-> Collect(root, K)]
                  /\ \A i \in 1 .. Collect(root, K).m_Size : f[i] = OutStep(f[i - 1], i, [tree |-> root, list |-> Collect(root, K)])
<1> DEFINE f == CHOOSE f : OutSteps(f, Collect(root, K).m_Size, [tree |-> root, list |-> Collect(root, K)])
<1>1. OutSteps(f, Collect(root, K).m_Size, [tree |-> root, list |-> Collect(root, K)])
  BY OutExists
<1>2. SweepOut(root, K) = f[Collect(root, K).m_Size].tree
  BY Zenon DEF SweepOut, OutSteps, OutStep
<1>3. PICK w, n : w = f /\ n = Collect(root, K).m_Size
  OBVIOUS
<1> HIDE DEF f
<1>4. OutSteps(w, n, [tree |-> root, list |-> Collect(root, K)]) /\ n \in Nat
  BY <1>1, <1>3
<1>5. \A i \in 0 .. n : w[i] = IF i = 0 THEN [tree |-> root, list |-> Collect(root, K)] ELSE OutStep(w[i - 1], i, [tree |-> root, list |-> Collect(root, K)])
  BY <1>4 DEF OutSteps
<1>6. w[0] = [tree |-> root, list |-> Collect(root, K)] /\ \A i \in 1 .. n : w[i] = OutStep(w[i - 1], i, [tree |-> root, list |-> Collect(root, K)])
  BY <1>4, <1>5
<1> QED  BY <1>2, <1>3, <1>6

\* The deque with these fields.
Dq(a, n, first, size) ==
    [m_pArray |-> a, m_ArraySize |-> n, m_First |-> first, m_Size |-> size]

\* Where the item i is in an array of n places.
Ring(first, i, n) == IF first + i >= n THEN first + i - n ELSE first + i

\* The array a of a deque of n places; its items are the m values of s from j on.
Items(a, n, first, s, j, m) ==
    /\ n \in Nat /\ m \in Nat /\ j \in Nat /\ m < n /\ first \in 0 .. n - 1
    /\ DOMAIN a = 0 .. n - 1
    /\ \A i \in 0 .. m - 1 : a[Ring(first, i, n)] = s[j + i]

\* d holds the values of s from j on, m of them.
Holds(d, s, j, m) == \E a, n, first : d = Dq(a, n, first, m) /\ Items(a, n, first, s, j, m)

\* The array a of n places begins with the values in S, m of them.
Begins(a, n, m, S) ==
    /\ n \in Nat /\ m \in Nat /\ m < n /\ MIN_ARRAY_SIZE <= n
    /\ DOMAIN a = 0 .. n - 1
    /\ {a[i] : i \in 0 .. m - 1} = S

\* d holds the values in S, from the first place of its array on.
Lists(d, S) == \E a, n, m : d = Dq(a, n, 0, m) /\ Begins(a, n, m, S)

\* The fields of a deque.
LEMMA DqFields ==
    ASSUME NEW a, NEW n, NEW first, NEW m
    PROVE  /\ Dq(a, n, first, m).m_pArray = a /\ Dq(a, n, first, m).m_ArraySize = n
           /\ Dq(a, n, first, m).m_First = first /\ Dq(a, n, first, m).m_Size = m
BY DEF Dq

\* A new deque is empty.
LEMMA NewDequeLists == Lists(NewDeque, {})
<1>1. MIN_ARRAY_SIZE \in Nat /\ 0 < MIN_ARRAY_SIZE
  BY TreeConstants
<1>2. PICK a : a = [i \in 0 .. MIN_ARRAY_SIZE - 1 |-> NIL]
  OBVIOUS
<1>3. NewDeque = Dq(a, MIN_ARRAY_SIZE, 0, 0)
  BY <1>2 DEF NewDeque, Dq
<1>4. DOMAIN a = 0 .. MIN_ARRAY_SIZE - 1 /\ {a[i] : i \in 0 .. 0 - 1} = {}
  BY <1>2
<1>5. Begins(a, MIN_ARRAY_SIZE, 0, {})
  BY <1>1, <1>4 DEF Begins
<1> QED  BY <1>3, <1>5 DEF Lists

\* c is the array of size places that the m items are moved to.
Moved(c, size, a, n, first, m) ==
    c = [i \in 0 .. size - 1 |-> IF i < m THEN a[Ring(first, i, n)] ELSE NIL]

\* e is the deque d with another array.
Replaced(e, d, c, size) == e = [d EXCEPT !.m_pArray = c, !.m_ArraySize = size, !.m_First = 0]

\* A deque with another array.
LEMMA DqMoved ==
    ASSUME NEW a, NEW n, NEW first, NEW m, NEW c, NEW size, NEW d, d = Dq(a, n, first, m),
           NEW e, Replaced(e, d, c, size)
    PROVE  e = Dq(c, size, 0, m)
<1>1. PICK d1 : d1 = [d EXCEPT !.m_pArray = c]
  OBVIOUS
<1>2. PICK d2 : d2 = [d1 EXCEPT !.m_ArraySize = size]
  OBVIOUS
<1>3. e = [d2 EXCEPT !.m_First = 0]
  BY <1>1, <1>2, Zenon DEF Replaced
<1>4. d1 = Dq(c, n, first, m)
  BY <1>1 DEF Dq
<1>5. d2 = Dq(c, size, first, m)
  BY <1>2, <1>4 DEF Dq
<1>6. [Dq(c, size, first, m) EXCEPT !.m_First = 0] = Dq(c, size, 0, m)
  BY DEF Dq
<1> QED  BY <1>3, <1>5, <1>6

\* Resize of a deque that may take the new array.
LEMMA Resized ==
    ASSUME NEW a, NEW n \in Nat, NEW first \in 0 .. n - 1, NEW m \in Nat, NEW size \in Nat,
           size > MIN_ARRAY_SIZE, size # n,
           NEW c, Moved(c, size, a, n, first, m)
    PROVE  Resize(Dq(a, n, first, m), size) = Dq(c, size, 0, m)
<1>1. PICK d : d = Dq(a, n, first, m)
  OBVIOUS
<1>2. d.m_pArray = a /\ d.m_ArraySize = n /\ d.m_First = first /\ d.m_Size = m
  BY <1>1, DqFields
<1>3. MIN_ARRAY_SIZE \in Nat
  BY TreeConstants
<1>4. \A i \in 0 .. size - 1 : Place(d, i) = Ring(first, i, n)
  BY <1>2 DEF Place, Ring
<1>5. PICK e : e = [i \in 0 .. size - 1 |-> IF i < d.m_Size THEN d.m_pArray[Place(d, i)] ELSE NIL]
  OBVIOUS
<1>6. e = c
  BY <1>2, <1>4, <1>5 DEF Moved
<1>7. PICK g : g = [d EXCEPT !.m_pArray = e, !.m_ArraySize = size, !.m_First = 0]
  OBVIOUS
<1>8. Resize(d, size) = g
  BY <1>2, <1>3, <1>5, <1>7 DEF Resize
<1>9. g = Dq(e, size, 0, m)
  <2>1. Replaced(g, d, e, size)
    BY <1>7, Zenon DEF Replaced
  <2> QED  BY <1>1, <2>1, DqMoved
<1> QED  BY <1>1, <1>6, <1>8, <1>9

\* Add at the end.
LEMMA EnqueueLists ==
    ASSUME NEW d, NEW S, Lists(d, S), NEW item
    PROVE  Lists(Enqueue(d, item), S \cup {item})
<1>0. PICK a, n, m : d = Dq(a, n, 0, m) /\ Begins(a, n, m, S)
  BY DEF Lists
<1>1. /\ d = Dq(a, n, 0, m)
      /\ n \in Nat /\ m \in Nat /\ m < n /\ MIN_ARRAY_SIZE <= n
      /\ DOMAIN a = 0 .. n - 1
      /\ {a[i] : i \in 0 .. m - 1} = S
  BY <1>0 DEF Begins
<1>2. MIN_ARRAY_SIZE \in Nat /\ 0 < MIN_ARRAY_SIZE
  BY TreeConstants
<1>3. d.m_pArray = a /\ d.m_ArraySize = n /\ d.m_First = 0 /\ d.m_Size = m
  BY <1>1, DqFields
<1>4. Place(d, d.m_Size) = m
  BY <1>1, <1>3 DEF Place
<1>5. PICK b : b = [a EXCEPT ![m] = item]
  OBVIOUS
<1>6. /\ DOMAIN b = 0 .. n - 1 /\ b[m] = item
      /\ \A i \in 0 .. m - 1 : b[i] = a[i]
  BY <1>1, <1>5
<1>7. {b[i] : i \in 0 .. (m + 1) - 1} = S \cup {item}
  <2>1. {b[i] : i \in 0 .. (m + 1) - 1} = {b[i] : i \in 0 .. m - 1} \cup {b[m]}
    BY <1>1
  <2>2. {b[i] : i \in 0 .. m - 1} = {a[i] : i \in 0 .. m - 1}
    BY <1>6
  <2> QED  BY <1>1, <1>6, <2>1, <2>2
<1>8. PICK e : e = [d EXCEPT !.m_pArray[Place(d, d.m_Size)] = item, !.m_Size = @ + 1]
  OBVIOUS
<1>9. e = Dq(b, n, 0, m + 1)
  <2>1. e = [d EXCEPT !.m_pArray[m] = item, !.m_Size = @ + 1]
    BY <1>4, <1>8
  <2>2. e = [d EXCEPT !.m_pArray = [d.m_pArray EXCEPT ![m] = item], !.m_Size = d.m_Size + 1]
    BY <2>1
  <2>3. e = [d EXCEPT !.m_pArray = b, !.m_Size = m + 1]
    BY <1>3, <1>5, <2>2
  <2> QED  BY <1>1, <2>3 DEF Dq
<1>10. e.m_Size = m + 1 /\ e.m_ArraySize = n
  BY <1>9, DqFields
<1>11. Enqueue(d, item) = IF m + 1 = n THEN Resize(e, 2 * n) ELSE e
  BY <1>8, <1>10 DEF Enqueue
<1>12. CASE m + 1 # n
  <2>1. m + 1 \in Nat /\ m + 1 < n
    BY <1>1, <1>12
  <2>2. Begins(b, n, m + 1, S \cup {item})
    BY <1>1, <1>6, <1>7, <2>1 DEF Begins
  <2>3. Enqueue(d, item) = Dq(b, n, 0, m + 1)
    BY <1>9, <1>11, <1>12
  <2> QED  BY <2>2, <2>3 DEF Lists
<1>13. CASE m + 1 = n
  <2>1. PICK c : c = [i \in 0 .. 2 * n - 1 |-> IF i < m + 1 THEN b[Ring(0, i, n)] ELSE NIL]
    OBVIOUS
  <2>2. 2 * n \in Nat /\ 2 * n > MIN_ARRAY_SIZE /\ 2 * n # n /\ 0 \in 0 .. n - 1 /\ m + 1 \in Nat
    BY <1>1, <1>2
  <2>8. Moved(c, 2 * n, b, n, 0, m + 1)
    BY <2>1 DEF Moved
  <2>3. Resize(e, 2 * n) = Dq(c, 2 * n, 0, m + 1)
    BY <1>1, <1>9, <2>2, <2>8, Resized
  <2>4. \A i \in 0 .. (m + 1) - 1 : c[i] = b[i]
    BY <1>1, <1>13, <2>1 DEF Ring
  <2>5. {c[i] : i \in 0 .. (m + 1) - 1} = S \cup {item}
    BY <1>7, <2>4
  <2>6. DOMAIN c = 0 .. 2 * n - 1 /\ m + 1 < 2 * n /\ MIN_ARRAY_SIZE <= 2 * n
    BY <1>1, <1>2, <1>13, <2>1
  <2>7. Enqueue(d, item) = Dq(c, 2 * n, 0, m + 1)
    BY <1>11, <1>13, <2>3
  <2>9. Begins(c, 2 * n, m + 1, S \cup {item})
    BY <2>2, <2>5, <2>6 DEF Begins
  <2> QED  BY <2>7, <2>9 DEF Lists
<1> QED  BY <1>12, <1>13

\* Take out at the front.
LEMMA DequeueHolds ==
    ASSUME NEW d, NEW s, NEW j, NEW m \in Nat \ {0}, Holds(d, s, j, m)
    PROVE  FrontOf(d) = s[j] /\ Holds(Dequeue(d), s, j + 1, m - 1)
<1>1. PICK a, n, first : d = Dq(a, n, first, m) /\ Items(a, n, first, s, j, m)
  BY DEF Holds
<1>2. /\ n \in Nat /\ j \in Nat /\ m < n /\ first \in 0 .. n - 1
      /\ DOMAIN a = 0 .. n - 1
      /\ \A i \in 0 .. m - 1 : a[Ring(first, i, n)] = s[j + i]
  BY <1>1 DEF Items
<1>3. d.m_pArray = a /\ d.m_ArraySize = n /\ d.m_First = first /\ d.m_Size = m
  BY <1>1, DqFields
<1>4. FrontOf(d) = s[j]
  <2>1. 0 \in 0 .. m - 1 /\ Ring(first, 0, n) = first /\ j + 0 = j
    BY <1>2 DEF Ring
  <2> QED  BY <1>2, <1>3, <2>1 DEF FrontOf
<1>5. PICK next : next = IF first + 1 >= n THEN 0 ELSE first + 1
  OBVIOUS
<1>6. next \in 0 .. n - 1 /\ \A i \in 0 .. m - 2 : Ring(next, i, n) = Ring(first, i + 1, n)
  BY <1>2, <1>5 DEF Ring
<1>7. \A i \in 0 .. m - 2 : a[Ring(next, i, n)] = s[(j + 1) + i]
  <2> TAKE i \in 0 .. m - 2
  <2>1. i + 1 \in 0 .. m - 1 /\ j + (i + 1) = (j + 1) + i
    BY <1>2
  <2>2. a[Ring(first, i + 1, n)] = s[j + (i + 1)]
    BY <1>2, <2>1
  <2> QED  BY <1>6, <2>1, <2>2
<1>8. Items(a, n, next, s, j + 1, m - 1)
  <2>1. (m - 1) - 1 = m - 2 /\ m - 1 \in Nat /\ m - 1 < n /\ j + 1 \in Nat
    BY <1>2
  <2> QED  BY <1>2, <1>6, <1>7, <2>1 DEF Items
<1>9. PICK e : e = [d EXCEPT !.m_Size = @ - 1, !.m_First = IF @ + 1 >= d.m_ArraySize THEN 0 ELSE @ + 1]
  OBVIOUS
<1>10. e = Dq(a, n, next, m - 1)
  <2>1. e = [d EXCEPT !.m_Size = m - 1, !.m_First = next]
    BY <1>3, <1>5, <1>9
  <2> QED  BY <1>1, <2>1 DEF Dq
<1>11. e.m_Size = m - 1 /\ e.m_ArraySize = n
  BY <1>10, DqFields
<1>12. PICK size : size = n \div 2
  OBVIOUS
<1>13. Dequeue(d) = IF m - 1 < n \div 4 THEN Resize(e, size) ELSE e
  BY <1>9, <1>11, <1>12 DEF Dequeue
<1>14. Holds(e, s, j + 1, m - 1)
  BY <1>8, <1>10 DEF Holds
<1>15. size \in Nat /\ (m - 1 < n \div 4 => m - 1 < size)
  BY <1>2, <1>12
<1>16. CASE m - 1 < n \div 4 /\ size > MIN_ARRAY_SIZE /\ size # n
  <2>1. PICK c : c = [i \in 0 .. size - 1 |-> IF i < m - 1 THEN a[Ring(next, i, n)] ELSE NIL]
    OBVIOUS
  <2>2. m - 1 \in Nat
    OBVIOUS
  <2>8. Moved(c, size, a, n, next, m - 1)
    BY <2>1 DEF Moved
  <2>3. Resize(e, size) = Dq(c, size, 0, m - 1)
    BY <1>2, <1>6, <1>10, <1>15, <1>16, <2>2, <2>8, Resized
  <2>4. \A i \in 0 .. m - 2 : c[i] = a[Ring(next, i, n)]
    BY <1>15, <1>16, <2>1
  <2>5. \A i \in 0 .. m - 2 : Ring(0, i, size) = i
    BY <1>15, <1>16 DEF Ring
  <2>6. \A i \in 0 .. m - 2 : c[Ring(0, i, size)] = s[(j + 1) + i]
    BY <1>7, <2>4, <2>5
  <2>7. Items(c, size, 0, s, j + 1, m - 1)
    <3>1. (m - 1) - 1 = m - 2 /\ j + 1 \in Nat /\ DOMAIN c = 0 .. size - 1 /\ 0 \in 0 .. size - 1
      BY <1>2, <1>15, <1>16, <2>1
    <3> QED  BY <1>15, <1>16, <2>2, <2>6, <3>1 DEF Items
  <2> QED  BY <1>4, <1>13, <1>16, <2>3, <2>7 DEF Holds
<1>17. CASE m - 1 < n \div 4 /\ ~(size > MIN_ARRAY_SIZE /\ size # n)
  <2>1. MIN_ARRAY_SIZE \in Nat
    BY TreeConstants
  <2>2. size <= MIN_ARRAY_SIZE \/ size = e.m_ArraySize
    BY <1>11, <1>15, <1>17, <2>1
  <2>3. Resize(e, size) = e
    BY <2>2 DEF Resize
  <2> QED  BY <1>4, <1>13, <1>14, <1>17, <2>3
<1>18. CASE ~(m - 1 < n \div 4)
  BY <1>4, <1>13, <1>14, <1>18
<1> QED  BY <1>16, <1>17, <1>18

\* Collect lists the keys in K.
LEMMA CollectLists ==
    ASSUME NEW x, NEW E, NEW b, Tree(x, E, b), NEW K
    PROVE  Lists(Collect(x, K), KeySet(E) \cap K)
<1>1. PICK keys, n : keys = Consume(x) /\ n = Len(keys)
  OBVIOUS
<1>2. /\ keys \in Seq(Keys) /\ n \in Nat
      /\ {keys[i] : i \in 1 .. n} = KeySet(E)
  BY <1>1, ConsumeVisits DEF Visits
<1>3. PICK f : /\ Collect(x, K) = f[n]
               /\ f[0] = NewDeque
               /\ \A i \in 1 .. n : f[i] = CollectStep(f[i - 1], i, keys, K)
  <2>1. Len(Consume(x)) \in Nat
    BY <1>1, <1>2
  <2> QED  BY <1>1, <2>1, CollectIs
\* The keys looked at in i steps.
<1> DEFINE Seen(i) == {keys[n - j + 1] : j \in 1 .. i}
<1> DEFINE T == {i \in 0 .. n : Lists(f[i], Seen(i) \cap K)}
<1>4. 0 \in T
  <2>1. Seen(0) \cap K = {}
    OBVIOUS
  <2>2. Lists(f[0], Seen(0) \cap K)
    <3> HIDE DEF Seen
    <3> QED  BY <1>3, <2>1, NewDequeLists
  <2> QED  BY <1>2, <2>2
<1>5. ASSUME NEW i \in 0 .. n - 1, i \in T PROVE i + 1 \in T
  <2>1. i + 1 \in 1 .. n /\ i + 1 \in 0 .. n /\ (i + 1) - 1 = i
    BY <1>2
  <2>2. PICK key : key = keys[n - (i + 1) + 1]
    OBVIOUS
  <2>3. f[i + 1] = IF key \in K THEN Enqueue(f[i], key) ELSE f[i]
    BY <1>1, <1>3, <2>1, <2>2 DEF CollectStep
  <2>4. Seen(i + 1) = Seen(i) \cup {key}
    <3>1. 1 .. i + 1 = (1 .. i) \cup {i + 1}
      BY <2>1
    <3> QED  BY <2>2, <3>1
  <2>5. PICK S : S = Seen(i) \cap K
    OBVIOUS
  <2>6. Lists(f[i], S)
    BY <1>5, <2>5
  <2>7. Lists(f[i + 1], Seen(i + 1) \cap K)
    <3>1. CASE key \in K
      <4>1. Seen(i + 1) \cap K = S \cup {key}
        BY <2>4, <2>5, <3>1
      <4>2. Lists(Enqueue(f[i], key), S \cup {key})
        BY <2>6, EnqueueLists
      <4> HIDE DEF Seen
      <4> QED  BY <2>3, <3>1, <4>1, <4>2
    <3>2. CASE key \notin K
      <4>1. Seen(i + 1) \cap K = S
        BY <2>4, <2>5, <3>2
      <4> HIDE DEF Seen
      <4> QED  BY <2>3, <2>6, <3>2, <4>1
    <3> QED  BY <3>1, <3>2
  <2> QED  BY <2>1, <2>7
<1>6. \A i \in 0 .. n : i \in T
  <2> HIDE DEF T
  <2> QED  BY <1>2, <1>4, <1>5, UpTo
<1>7. Lists(f[n], Seen(n) \cap K)
  <2>1. n \in T
    <3> HIDE DEF T
    <3> QED  BY <1>2, <1>6
  <2> QED  BY <2>1
<1>8. Seen(n) = KeySet(E)
  <2>1. \A j \in 1 .. n : n - j + 1 \in 1 .. n /\ n - (n - j + 1) + 1 = j
    BY <1>2
  <2>2. \A j \in 1 .. n : keys[n - j + 1] \in {keys[i] : i \in 1 .. n}
    BY <2>1
  <2>3. \A j \in 1 .. n : keys[j] \in Seen(n)
    BY <2>1
  <2> QED  BY <1>2, <2>2, <2>3
<1> HIDE DEF Seen
<1> QED  BY <1>3, <1>7, <1>8

\* The entries of other keys than those in S.
Less(E, S) == {e \in E : e[1] \notin S}

\* One key, or none.
LEMMA LessKeys ==
    ASSUME NEW E, NEW key
    PROVE  /\ Less(E, {}) = E /\ Without(E, key) = Less(E, {key})
BY DEF Less, Without

\* One key more.
LEMMA LessOneMore ==
    ASSUME NEW E, NEW S, NEW key
    PROVE  Without(Less(E, S), key) = Less(E, S \cup {key})
BY DEF Less, Without

\* The keys of other entries do not count.
LEMMA LessSame ==
    ASSUME NEW E, NEW K
    PROVE  Less(E, KeySet(E) \cap K) = Less(E, K)
<1>1. \A e \in E : e[1] \in KeySet(E)
  BY DEF KeySet
<1> QED  BY <1>1 DEF Less

\* Sweep leaves the entries of other keys.
LEMMA SweepMade ==
    ASSUME NEW x, NEW E, NEW b, BlackTree(x, E, b), NEW K
    PROVE  \E c : BlackTree(Sweep(x, K), Less(E, K), c)
<1>1. PICK list : list = Collect(x, K)
  OBVIOUS
<1>2. PICK S : S = KeySet(E) \cap K
  OBVIOUS
<1>3. Lists(list, S)
  BY <1>1, <1>2, CollectLists DEF BlackTree
<1>4. PICK a, n, m : list = Dq(a, n, 0, m) /\ Begins(a, n, m, S)
  BY <1>3 DEF Lists
<1>5. m \in Nat /\ {a[i] : i \in 0 .. m - 1} = S
  BY <1>4 DEF Begins
<1>6. list.m_Size = m /\ list.m_pArray = a
  BY <1>4, DqFields
<1>7. \A i \in 1 .. m : At(list, i - 1) = a[i - 1]
  BY <1>5, <1>6 DEF At
<1>8. S \subseteq Keys
  <2>1. E \subseteq Keys \X Vals
    BY TreeEntries DEF BlackTree
  <2> QED  BY <1>2, <2>1 DEF KeySet
<1>9. PICK f : /\ Sweep(x, K) = f[m]
               /\ f[0] = x
               /\ \A i \in 1 .. m : f[i] = SweepStep(f[i - 1], i, x, list)
  <2>1. Collect(x, K).m_Size = m
    BY <1>1, <1>6
  <2>2. Collect(x, K).m_Size \in Nat
    BY <1>5, <2>1
  <2> QED  BY <1>1, <2>1, <2>2, SweepIs
\* The keys deleted in i steps.
<1> DEFINE Gone(i) == {a[j] : j \in 0 .. i - 1}
<1> DEFINE T == {i \in 0 .. m : \E c : BlackTree(f[i], Less(E, Gone(i)), c)}
<1>10. 0 \in T
  <2>1. Gone(0) = {}
    OBVIOUS
  <2>2. Less(E, Gone(0)) = E
    BY <2>1, LessKeys
  <2>3. BlackTree(f[0], Less(E, Gone(0)), b)
    BY <1>9, <2>2
  <2> QED  BY <1>5, <2>3
<1>11. ASSUME NEW i \in 0 .. m - 1, i \in T PROVE i + 1 \in T
  <2>1. i + 1 \in 1 .. m /\ i + 1 \in 0 .. m /\ (i + 1) - 1 = i
    BY <1>5
  <2>2. PICK key : key = a[i]
    OBVIOUS
  <2>3. key \in Keys
    BY <1>5, <1>8, <2>1, <2>2
  <2>4. f[i + 1] = Delete(f[i], key)
    <3>1. At(list, i) = key
      BY <1>7, <2>1, <2>2
    <3>2. f[i + 1] = SweepStep(f[i], i + 1, x, list)
      BY <1>9, <2>1
    <3> QED  BY <2>1, <3>1, <3>2 DEF SweepStep
  <2>5. Gone(i + 1) = Gone(i) \cup {key}
    <3>1. 0 .. (i + 1) - 1 = (0 .. i - 1) \cup {i}
      BY <2>1
    <3> QED  BY <2>2, <3>1
  <2>6. PICK G : G = Gone(i)
    OBVIOUS
  <2>7. PICK c : BlackTree(f[i], Less(E, G), c)
    BY <1>11, <2>6
  <2>8. \E d : BlackTree(Delete(f[i], key), Without(Less(E, G), key), d)
    BY <2>3, <2>7, DeleteMade
  <2>9. Without(Less(E, G), key) = Less(E, Gone(i + 1))
    <3>1. Gone(i + 1) = G \cup {key}
      <4> HIDE DEF Gone
      <4> QED  BY <2>5, <2>6
    <3>2. Without(Less(E, G), key) = Less(E, G \cup {key})
      BY LessOneMore, Zenon
    <3> HIDE DEF Gone
    <3> QED  BY <3>1, <3>2
  <2> QED  BY <2>1, <2>4, <2>8, <2>9
<1>12. \A i \in 0 .. m : i \in T
  <2> HIDE DEF T
  <2> QED  BY <1>5, <1>10, <1>11, UpTo
<1>13. \E c : BlackTree(f[m], Less(E, Gone(m)), c)
  <2>1. m \in T
    <3> HIDE DEF T
    <3> QED  BY <1>5, <1>12
  <2> QED  BY <2>1
<1>14. Less(E, Gone(m)) = Less(E, K)
  <2>1. Gone(m) = S
    BY <1>5
  <2> HIDE DEF Gone
  <2> QED  BY <1>2, <2>1, LessSame
<1> HIDE DEF Gone
<1> QED  BY <1>9, <1>13, <1>14

\* So does SweepOut.
LEMMA SweepOutMade ==
    ASSUME NEW x, NEW E, NEW b, BlackTree(x, E, b), NEW K
    PROVE  \E c : BlackTree(SweepOut(x, K), Less(E, K), c)
<1>1. PICK list : list = Collect(x, K)
  OBVIOUS
<1>2. PICK S : S = KeySet(E) \cap K
  OBVIOUS
<1>3. Lists(list, S)
  BY <1>1, <1>2, CollectLists DEF BlackTree
<1>4. PICK a, n, m : list = Dq(a, n, 0, m) /\ Begins(a, n, m, S)
  BY <1>3 DEF Lists
<1>5. m \in Nat /\ {a[i] : i \in 0 .. m - 1} = S
  BY <1>4 DEF Begins
<1>6. list.m_Size = m
  BY <1>4, DqFields
<1>7. Holds(list, a, 0, m)
  <2>1. n \in Nat /\ m < n /\ DOMAIN a = 0 .. n - 1
    BY <1>4 DEF Begins
  <2>2. 0 \in 0 .. n - 1
    BY <1>5, <2>1
  <2>3. \A i \in 0 .. m - 1 : Ring(0, i, n) = 0 + i
    BY <1>5, <2>1 DEF Ring
  <2>4. Items(a, n, 0, a, 0, m)
    BY <1>5, <2>1, <2>2, <2>3 DEF Items
  <2> QED  BY <1>4, <2>4 DEF Holds
<1>8. S \subseteq Keys
  <2>1. E \subseteq Keys \X Vals
    BY TreeEntries DEF BlackTree
  <2> QED  BY <1>2, <2>1 DEF KeySet
<1>9. PICK f : /\ SweepOut(x, K) = f[m].tree
               /\ f[0] = [tree |-> x, list |-> list]
               /\ \A i \in 1 .. m : f[i] = OutStep(f[i - 1], i, [tree |-> x, list |-> list])
  <2>1. Collect(x, K).m_Size = m
    BY <1>1, <1>6
  <2>2. Collect(x, K).m_Size \in Nat
    BY <1>5, <2>1
  <2> QED  BY <1>1, <2>1, <2>2, OutIs
\* The keys taken out and deleted in i steps.
<1> DEFINE Gone(i) == {a[j] : j \in 0 .. i - 1}
<1> DEFINE T == {i \in 0 .. m : /\ Holds(f[i].list, a, i, m - i)
                                /\ \E c : BlackTree(f[i].tree, Less(E, Gone(i)), c)}
<1>10. 0 \in T
  <2>1. Gone(0) = {}
    OBVIOUS
  <2>2. Less(E, Gone(0)) = E
    BY <2>1, LessKeys
  <2>3. f[0].tree = x /\ f[0].list = list
    BY <1>9
  <2>4. BlackTree(f[0].tree, Less(E, Gone(0)), b)
    BY <2>2, <2>3
  <2>5. Holds(f[0].list, a, 0, m - 0)
    BY <1>5, <1>7, <2>3
  <2> QED  BY <1>5, <2>4, <2>5
<1>11. ASSUME NEW i \in 0 .. m - 1, i \in T PROVE i + 1 \in T
  <2>1. i + 1 \in 1 .. m /\ i + 1 \in 0 .. m /\ (i + 1) - 1 = i /\ m - i \in Nat \ {0}
        /\ (m - i) - 1 = m - (i + 1)
    BY <1>5
  <2>2. PICK key : key = a[i]
    OBVIOUS
  <2>3. key \in Keys
    BY <1>5, <1>8, <2>1, <2>2
  <2>4. PICK s : s = f[i]
    OBVIOUS
  <2>5. FrontOf(s.list) = key /\ Holds(Dequeue(s.list), a, i + 1, m - (i + 1))
    <3>1. Holds(s.list, a, i, m - i)
      BY <1>11, <2>4
    <3>2. FrontOf(s.list) = a[i] /\ Holds(Dequeue(s.list), a, i + 1, (m - i) - 1)
      BY <2>1, <3>1, DequeueHolds
    <3> QED  BY <2>1, <2>2, <3>2
  <2>6. f[i + 1].tree = Delete(s.tree, key) /\ f[i + 1].list = Dequeue(s.list)
    <3>1. f[i + 1] = OutStep(s, i + 1, [tree |-> x, list |-> list])
      BY <1>9, <2>1, <2>4
    <3> QED  BY <2>5, <3>1 DEF OutStep
  <2>7. Gone(i + 1) = Gone(i) \cup {key}
    <3>1. 0 .. (i + 1) - 1 = (0 .. i - 1) \cup {i}
      BY <2>1
    <3> QED  BY <2>2, <3>1
  <2>8. PICK G : G = Gone(i)
    OBVIOUS
  <2>9. PICK c : BlackTree(s.tree, Less(E, G), c)
    BY <1>11, <2>4, <2>8
  <2>10. \E d : BlackTree(Delete(s.tree, key), Without(Less(E, G), key), d)
    BY <2>3, <2>9, DeleteMade
  <2>11. Without(Less(E, G), key) = Less(E, Gone(i + 1))
    <3>1. Gone(i + 1) = G \cup {key}
      <4> HIDE DEF Gone
      <4> QED  BY <2>7, <2>8
    <3>2. Without(Less(E, G), key) = Less(E, G \cup {key})
      BY LessOneMore, Zenon
    <3> HIDE DEF Gone
    <3> QED  BY <3>1, <3>2
  <2>12. \E d : BlackTree(f[i + 1].tree, Less(E, Gone(i + 1)), d)
    BY <2>6, <2>10, <2>11
  <2>13. Holds(f[i + 1].list, a, i + 1, m - (i + 1))
    BY <2>5, <2>6
  <2> QED  BY <2>1, <2>12, <2>13
<1>12. \A i \in 0 .. m : i \in T
  <2> HIDE DEF T
  <2> QED  BY <1>5, <1>10, <1>11, UpTo
<1>13. \E c : BlackTree(f[m].tree, Less(E, Gone(m)), c)
  <2>1. m \in T
    <3> HIDE DEF T
    <3> QED  BY <1>5, <1>12
  <2> QED  BY <2>1
<1>14. Less(E, Gone(m)) = Less(E, K)
  <2>1. Gone(m) = S
    BY <1>5
  <2> HIDE DEF Gone
  <2> QED  BY <1>2, <2>1, LessSame
<1> HIDE DEF Gone
<1> QED  BY <1>9, <1>13, <1>14

\* The inductive invariant: a left-leaning red-black tree with a black root.
TreeInv == \E E, b : BlackTree(m_pRoot, E, b)

\* NIL is one.
LEMMA NilBlack == BlackTree(NIL, {}, 0)
BY TreeNil DEF BlackTree, IsRed

\* It holds at first, and every operation keeps it.
LEMMA TreeInvHolds == TreeSpec => []TreeInv
<1>1. TreeInit => TreeInv
  BY NilBlack DEF TreeInit, TreeInv
<1>2. TreeInv /\ [TreeNext]_m_pRoot => TreeInv'
  <2> SUFFICES ASSUME TreeInv, [TreeNext]_m_pRoot PROVE TreeInv'
    OBVIOUS
  <2>0. PICK x, E, b : x = m_pRoot /\ BlackTree(x, E, b)
    BY DEF TreeInv
  <2>1. ASSUME NEW key \in Keys, NEW val \in Vals, Put(key, val) PROVE TreeInv'
    <3>1. \E c : BlackTree(PutRoot(x, key, val), Added(E, key, val), c)
      BY <2>0, PutRootMade
    <3>2. m_pRoot' = PutRoot(x, key, val)
      BY <2>0, <2>1 DEF Put
    <3> QED  BY <3>1, <3>2 DEF TreeInv
  <2>2. ASSUME NEW key \in Keys, DeleteKey(key) PROVE TreeInv'
    <3>1. \E c : BlackTree(Delete(x, key), Without(E, key), c)
      BY <2>0, DeleteMade
    <3>2. m_pRoot' = Delete(x, key)
      BY <2>0, <2>2 DEF DeleteKey
    <3> QED  BY <3>1, <3>2 DEF TreeInv
  <2>3. ASSUME NEW K, RemoveExpired(K) PROVE TreeInv'
    <3>1. \E c : BlackTree(Sweep(x, K), Less(E, K), c)
      BY <2>0, SweepMade
    <3>2. m_pRoot' = Sweep(x, K)
      BY <2>0, <2>3 DEF RemoveExpired
    <3> QED  BY <3>1, <3>2 DEF TreeInv
  <2>4. ASSUME NEW K, ForEachExpired(K) PROVE TreeInv'
    <3>1. \E c : BlackTree(SweepOut(x, K), Less(E, K), c)
      BY <2>0, SweepOutMade
    <3>2. m_pRoot' = SweepOut(x, K)
      BY <2>0, <2>4 DEF ForEachExpired
    <3> QED  BY <3>1, <3>2 DEF TreeInv
  <2>5. CASE Clear
    BY <2>5, NilBlack DEF Clear, TreeInv
  <2>6. CASE UNCHANGED m_pRoot
    BY <2>6 DEF TreeInv
  <2> QED  BY <2>1, <2>2, <2>3, <2>4, <2>5, <2>6 DEF TreeNext
<1> QED  BY <1>1, <1>2, PTL DEF TreeSpec

-----------------------------------------------------------------------------
(* What is proved                                                          *)

\* What Get finds for a key of E: the value of its only entry, or NIL.
Finds(w, E, key) ==
    IF key \in KeySet(E) THEN /\ w # NIL /\ <<key, w>> \in E
                              /\ \A e \in E : e[1] = key => e = <<key, w>>
    ELSE w = NIL

\* Get finds it.
LEMMA GetFinds ==
    ASSUME NEW x, NEW E, NEW b, BlackTree(x, E, b), NEW key \in Keys
    PROVE  Finds(Get(x, key), E, key)
<1>1. PICK y : y = GetNode(x, key)
  OBVIOUS
<1>2. Found(y, E, key)
  BY <1>1, GetNodeFinds DEF BlackTree
<1>3. CASE y = NIL
  <2>1. Get(x, key) = NIL
    BY <1>1, <1>3 DEF Get
  <2>2. key \notin KeySet(E)
    BY <1>2, <1>3 DEF Found
  <2> QED  BY <2>1, <2>2 DEF Finds
<1>4. CASE y # NIL
  <2>1. PICK w : w = y.m_Val
    OBVIOUS
  <2>2. Get(x, key) = w
    BY <1>1, <1>4, <2>1 DEF Get
  <2>3. <<key, w>> \in E /\ \A e \in E : e[1] = key => e = <<key, w>>
    BY <1>2, <1>4, <2>1 DEF Found
  <2>4. w # NIL
    <3>1. E \subseteq Keys \X Vals
      BY TreeEntries DEF BlackTree
    <3>2. w \in Vals
      BY <2>3, <3>1
    <3> QED  BY <3>2, TreeConstants
  <2>5. key \in KeySet(E)
    <3>1. PICK e : e = <<key, w>>
      OBVIOUS
    <3>2. e \in E /\ e[1] = key
      BY <2>3, <3>1
    <3> QED  BY <3>2 DEF KeySet
  <2> QED  BY <2>2, <2>3, <2>4, <2>5 DEF Finds
<1> QED  BY <1>3, <1>4

\* There is only one such value.
LEMMA FindsOnce ==
    ASSUME NEW w, NEW u, NEW E, NEW key, Finds(w, E, key), Finds(u, E, key)
    PROVE  w = u
<1>1. CASE key \in KeySet(E)
  <2>1. <<key, w>> \in E /\ \A e \in E : e[1] = key => e = <<key, u>>
    BY <1>1 DEF Finds
  <2>2. PICK e : e = <<key, w>>
    OBVIOUS
  <2>3. e \in E /\ e[1] = key
    BY <2>1, <2>2
  <2>4. <<key, w>> = <<key, u>>
    BY <2>1, <2>2, <2>3
  <2> QED  BY <2>4
<1>2. CASE key \notin KeySet(E)
  BY <1>2 DEF Finds
<1> QED  BY <1>1, <1>2

\* What is found after keys have been taken out.
LEMMA FindsLess ==
    ASSUME NEW w, NEW E, NEW key, Finds(w, E, key), NEW K
    PROVE  Finds(IF key \in K THEN NIL ELSE w, Less(E, K), key)
<1>1. CASE key \in K
  <2>1. key \notin KeySet(Less(E, K))
    BY <1>1 DEF Less, KeySet
  <2> QED  BY <1>1, <2>1 DEF Finds
<1>2. CASE key \notin K
  <2>1. key \in KeySet(Less(E, K)) <=> key \in KeySet(E)
    BY <1>2 DEF Less, KeySet
  <2>2. CASE key \in KeySet(E)
    <3>1. w # NIL /\ <<key, w>> \in E /\ \A e \in E : e[1] = key => e = <<key, w>>
      BY <2>2 DEF Finds
    <3>2. PICK e : e = <<key, w>>
      OBVIOUS
    <3>3. e \in Less(E, K)
      BY <1>2, <3>1, <3>2 DEF Less
    <3>4. \A d \in Less(E, K) : d[1] = key => d = <<key, w>>
      BY <3>1 DEF Less
    <3> QED  BY <1>2, <2>1, <2>2, <3>1, <3>2, <3>3, <3>4 DEF Finds
  <2>3. CASE key \notin KeySet(E)
    BY <1>2, <2>1, <2>3 DEF Finds
  <2> QED  BY <2>2, <2>3
<1> QED  BY <1>1, <1>2

\* What is found after a value has been put for a key.
LEMMA FindsAdded ==
    ASSUME NEW w, NEW E, NEW key, Finds(w, E, key), NEW k, NEW v \in Vals
    PROVE  Finds(IF key = k THEN v ELSE w, Added(E, k, v), key)
<1>1. PICK e : e = <<k, v>>
  OBVIOUS
<1>2. e[1] = k /\ Added(E, k, v) = {d \in E : d[1] # k} \cup {e}
  BY <1>1 DEF Added, Without
<1>3. PICK A : A = Added(E, k, v)
  OBVIOUS
<1>4. CASE key = k
  <2>1. key \in KeySet(A)
    BY <1>2, <1>3, <1>4 DEF KeySet
  <2>2. <<key, v>> \in A
    BY <1>1, <1>2, <1>3, <1>4
  <2>3. \A d \in A : d[1] = key => d = <<key, v>>
    BY <1>1, <1>2, <1>3, <1>4
  <2>4. v # NIL
    BY TreeConstants
  <2>5. Finds(v, A, key)
    BY <2>1, <2>2, <2>3, <2>4 DEF Finds
  <2> QED  BY <1>3, <1>4, <2>5
<1>5. CASE key # k
  <2>1. key \in KeySet(A) <=> key \in KeySet(E)
    BY <1>2, <1>3, <1>5 DEF KeySet
  <2>2. CASE key \in KeySet(E)
    <3>1. w # NIL /\ <<key, w>> \in E /\ \A d \in E : d[1] = key => d = <<key, w>>
      BY <2>2 DEF Finds
    <3>2. PICK d : d = <<key, w>>
      OBVIOUS
    <3>3. <<key, w>> \in A
      BY <1>2, <1>3, <1>5, <3>1, <3>2
    <3>4. \A g \in A : g[1] = key => g = <<key, w>>
      BY <1>2, <1>3, <1>5, <3>1
    <3>5. Finds(w, A, key)
      BY <2>1, <2>2, <3>1, <3>3, <3>4 DEF Finds
    <3> QED  BY <1>3, <1>5, <3>5
  <2>3. CASE key \notin KeySet(E)
    <3>1. Finds(w, A, key)
      BY <2>1, <2>3 DEF Finds
    <3> QED  BY <1>3, <1>5, <3>1
  <2> QED  BY <2>2, <2>3
<1> QED  BY <1>4, <1>5

\* Contents, when the tree has the entries F and Get finds u[key] for each key.
LEMMA ContentsAre ==
    ASSUME NEW y, NEW F, NEW c, BlackTree(y, F, c), NEW u, u = [key \in Keys |-> u[key]],
           \A key \in Keys : Finds(u[key], F, key)
    PROVE  Contents(y) = u
<1>1. ASSUME NEW key \in Keys PROVE Get(y, key) = u[key]
  <2>1. PICK w : w = Get(y, key)
    OBVIOUS
  <2>2. Finds(w, F, key)
    BY <2>1, GetFinds
  <2>3. w = u[key]
    BY <2>2, FindsOnce
  <2> QED  BY <2>1, <2>3
<1>2. Contents(y) = [key \in Keys |-> u[key]]
  BY <1>1 DEF Contents
<1> QED  BY <1>2

\* A tree of the entries left finds nothing for the keys in K.
LEMMA LessContents ==
    ASSUME NEW x, NEW E, NEW b, BlackTree(x, E, b), NEW K, NEW y, NEW c, BlackTree(y, Less(E, K), c)
    PROVE  Contents(y) = [key \in Keys |-> IF key \in K THEN NIL ELSE Contents(x)[key]]
<1>1. PICK u : u = [key \in Keys |-> IF key \in K THEN NIL ELSE Get(x, key)]
  OBVIOUS
<1>2. ASSUME NEW key \in Keys PROVE Finds(u[key], Less(E, K), key)
  <2>1. PICK w : w = Get(x, key)
    OBVIOUS
  <2>2. Finds(w, E, key)
    BY <2>1, GetFinds
  <2>3. Finds(IF key \in K THEN NIL ELSE w, Less(E, K), key)
    BY <2>2, FindsLess
  <2>4. u[key] = IF key \in K THEN NIL ELSE w
    BY <1>1, <2>1
  <2> QED  BY <2>3, <2>4
<1>3. u = [key \in Keys |-> u[key]]
  BY <1>1
<1>4. Contents(y) = u
  BY <1>2, <1>3, ContentsAre
<1>5. u = [key \in Keys |-> IF key \in K THEN NIL ELSE Contents(x)[key]]
  BY <1>1 DEF Contents
<1> QED  BY <1>4, <1>5

\* The counts and the types of the nodes of a tree.
LEMMA TreeInvTypes == TreeInv => TreeTypeOK
<1> SUFFICES ASSUME TreeInv PROVE TreeTypeOK
  OBVIOUS
<1>1. PICK x, E, b : x = m_pRoot /\ Tree(x, E, b)
  BY DEF TreeInv, BlackTree
<1>2. ASSUME NEW n \in NodesOf(x)
      PROVE  /\ n.m_Key \in Keys /\ n.m_Val \in Vals /\ n.m_Color \in BOOLEAN
             /\ n.m_N = Cardinality(KeysOf(n))
  <2>1. PICK F, d : Tree(n, F, d) /\ n # NIL
    BY <1>1, NodesAreTrees
  <2> QED  BY <2>1, RootCounts
<1> QED  BY <1>1, <1>2 DEF TreeTypeOK

\* The colours of a tree.
LEMMA TreeInvBalanced == TreeInv => Balanced
<1> SUFFICES ASSUME TreeInv PROVE Balanced
  OBVIOUS
<1>1. PICK x, E, b : x = m_pRoot /\ BlackTree(x, E, b)
  BY DEF TreeInv
<1>2. ~IsRed(x)
  BY <1>1 DEF BlackTree
<1>3. Cardinality(BlackHeights(x)) = 1
  <2>1. BlackHeights(x) = {b}
    BY <1>1 DEF BlackTree, Tree
  <2>2. Cardinality({b}) = 1
    BY FS_Singleton
  <2> QED  BY <2>1, <2>2
<1>4. \A n \in NodesOf(x) : ~IsRed(n.m_pRight) /\ ~(IsRed(n) /\ IsRed(n.m_pLeft))
  BY <1>1 DEF BlackTree, Tree, Sound
<1> QED  BY <1>1, <1>2, <1>3, <1>4 DEF Balanced

\* Get, Put, DeleteKey, the sweeps and ForEach on a tree.
LEMMA TreeInvMap == TreeInv => IsMap
<1> SUFFICES ASSUME TreeInv PROVE IsMap
  OBVIOUS
<1>1. PICK x, E, b : x = m_pRoot /\ BlackTree(x, E, b)
  BY DEF TreeInv
<1>2. PICK map : map = Contents(x)
  OBVIOUS
<1>3. map = [key \in Keys |-> Get(x, key)]
  BY <1>2 DEF Contents
<1>4. \A key \in Keys : Finds(map[key], E, key)
  <2> TAKE key \in Keys
  <2>1. map[key] = Get(x, key)
    BY <1>3
  <2>2. Finds(Get(x, key), E, key)
    BY <1>1, GetFinds
  <2> QED  BY <2>1, <2>2
<1>5. PICK visited : visited = Consume(x)
  OBVIOUS
<1>6. Visits(visited, E)
  BY <1>1, <1>5, ConsumeVisits DEF BlackTree
<1>7. ToSet(visited) = {key \in Keys : map[key] # NIL}
  <2>1. ToSet(visited) = KeySet(E)
    <3>1. visited \in Seq(Keys) /\ {visited[i] : i \in 1 .. Len(visited)} = KeySet(E)
      BY <1>6 DEF Visits
    <3>2. DOMAIN visited = 1 .. Len(visited)
      BY <3>1
    <3> QED  BY <3>1, <3>2 DEF ToSet
  <2>2. KeySet(E) \subseteq Keys
    <3>1. E \subseteq Keys \X Vals
      BY <1>1, TreeEntries DEF BlackTree
    <3> QED  BY <3>1 DEF KeySet
  <2>3. \A key \in Keys : map[key] # NIL <=> key \in KeySet(E)
    BY <1>4 DEF Finds
  <2> QED  BY <2>1, <2>2, <2>3
<1>8. \A i \in 1 .. Len(visited) - 1 : compare(visited[i], visited[i + 1]) < 0
  <2> TAKE i \in 1 .. Len(visited) - 1
  <2>1. Len(visited) \in Nat
    BY <1>6 DEF Visits
  <2>2. i \in 1 .. Len(visited) /\ i + 1 \in 1 .. Len(visited) /\ i < i + 1
    BY <2>1
  <2> QED  BY <1>6, <2>2 DEF Visits
<1>9. ASSUME NEW key \in Keys, NEW val \in Vals
      PROVE  Contents(PutRoot(x, key, val)) = [map EXCEPT ![key] = val]
  <2>1. PICK y, c : y = PutRoot(x, key, val) /\ BlackTree(y, Added(E, key, val), c)
    BY <1>1, PutRootMade
  <2>2. PICK u : u = [map EXCEPT ![key] = val]
    OBVIOUS
  <2>3. u = [k \in Keys |-> u[k]]
    BY <1>3, <2>2
  <2>4. ASSUME NEW k \in Keys PROVE Finds(u[k], Added(E, key, val), k)
    <3>1. PICK w : w = map[k]
      OBVIOUS
    <3>2. Finds(w, E, k)
      BY <1>4, <3>1
    <3>3. Finds(IF k = key THEN val ELSE w, Added(E, key, val), k)
      BY <3>2, FindsAdded
    <3>4. u[k] = IF k = key THEN val ELSE w
      BY <1>3, <2>2, <3>1
    <3> QED  BY <3>3, <3>4
  <2>5. Contents(y) = u
    BY <2>1, <2>3, <2>4, ContentsAre
  <2> QED  BY <2>1, <2>2, <2>5
<1>10. ASSUME NEW K, NEW y, NEW c, BlackTree(y, Less(E, K), c)
       PROVE  Contents(y) = [key \in Keys |-> IF key \in K THEN NIL ELSE map[key]]
  BY <1>1, <1>2, <1>10, LessContents
<1>11. ASSUME NEW key \in Keys
       PROVE  Contents(Delete(x, key)) = [map EXCEPT ![key] = NIL]
  <2>1. PICK y, c : y = Delete(x, key) /\ BlackTree(y, Without(E, key), c)
    BY <1>1, DeleteMade
  <2>2. BlackTree(y, Less(E, {key}), c)
    BY <2>1, LessKeys
  <2>3. Contents(y) = [k \in Keys |-> IF k \in {key} THEN NIL ELSE map[k]]
    BY <1>10, <2>2
  <2>4. [map EXCEPT ![key] = NIL] = [k \in Keys |-> IF k \in {key} THEN NIL ELSE map[k]]
    BY <1>3
  <2> QED  BY <2>1, <2>3, <2>4
<1>12. ASSUME NEW K
       PROVE  /\ Contents(Sweep(x, K)) = [key \in Keys |-> IF key \in K THEN NIL ELSE map[key]]
              /\ Contents(SweepOut(x, K)) = [key \in Keys |-> IF key \in K THEN NIL ELSE map[key]]
  <2>1. PICK y, c : y = Sweep(x, K) /\ BlackTree(y, Less(E, K), c)
    BY <1>1, SweepMade
  <2>2. PICK z, d : z = SweepOut(x, K) /\ BlackTree(z, Less(E, K), d)
    BY <1>1, SweepOutMade
  <2>3. Contents(y) = [key \in Keys |-> IF key \in K THEN NIL ELSE map[key]]
    BY <1>10, <2>1
  <2>4. Contents(z) = [key \in Keys |-> IF key \in K THEN NIL ELSE map[key]]
    BY <1>10, <2>2
  <2> QED  BY <2>1, <2>2, <2>3, <2>4
<1> QED  BY <1>1, <1>2, <1>5, <1>7, <1>8, <1>9, <1>11, <1>12 DEF IsMap

\* After any sequence of operations every node has a key, a value and a colour,
\* and counts the nodes below it, itself included (RedBlackBST.h).
THEOREM TreeTypeOKHolds == TreeSpec => []TreeTypeOK
BY TreeInvHolds, TreeInvTypes, PTL

\* After any sequence of operations no red link leans right, no two follow each
\* other, and all ways down have equally many black ones (Balance and the moves
\* of red links of RedBlackBST.h).
THEOREM BalancedHolds == TreeSpec => []Balanced
BY TreeInvHolds, TreeInvBalanced, PTL

\* After any sequence of operations the tree is the map its users take it for:
\* Get finds what was put, DeleteKey and both sweeps take out their keys and no
\* others, and ForEach visits every key once and in order (RedBlackBST.h,
\* CCache::RemoveExpired and CDnsQueue::ForEachExpired).
THEOREM IsMapHolds == TreeSpec => []IsMap
BY TreeInvHolds, TreeInvMap, PTL

=============================================================================

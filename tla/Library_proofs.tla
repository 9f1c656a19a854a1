----------------------------- MODULE Library_proofs -----------------------------
(***************************************************************************)
(* What the other proofs need of numbers, sequences and finite sets, and   *)
(* what the search tree and the sorting need of the functions they are     *)
(* given: strCmp and IntCmp are orders, of texts of any length and numbers *)
(* of any size. Induction is by the least counterexample (LeastNumber), or *)
(* up to a bound (UpTo).                                                   *)
(***************************************************************************)
EXTENDS KeyOrders, SequencesExt, SequenceTheorems, FiniteSetTheorems, WellFoundedInduction, TLAPS

\* A set of natural numbers has a least element.
LEMMA LeastNumber ==
    ASSUME NEW T \in SUBSET Nat, T # {}
    PROVE  \E m \in T : \A n \in T : m <= n
<1>1. PICK m \in T : \A n \in T : <<n, m>> \notin OpToRel(<, Nat)
  BY WFMin, NatLessThanWellFounded, Zenon
<1>2. \A n \in T : ~(n < m)
  BY <1>1, Zenon DEF OpToRel
<1> QED  BY <1>2

\* What the recursion of FlattenSeq is for seqs.
Flattens(f, seqs) ==
    f = [i \in 1 .. Len(seqs) |-> IF i = 1 THEN seqs[i] ELSE f[i - 1] \o seqs[i]]

\* t begins with the items of s.
BeginsAs(s, t) ==
    /\ Len(s) \in Nat /\ Len(t) \in Nat /\ Len(s) <= Len(t)
    /\ \A i \in 1 .. Len(s) : s[i] = t[i]

\* What one sequence begins with decides what its flattening begins with.
LEMMA FlattensUnique ==
    ASSUME NEW s, NEW t, BeginsAs(s, t),
           NEW f, NEW g, Flattens(f, s), Flattens(g, t)
    PROVE  \A i \in 1 .. Len(s) : f[i] = g[i]
<1> DEFINE Wrong == {i \in 1 .. Len(s) : f[i] # g[i]}
<1> SUFFICES ASSUME Wrong # {} PROVE FALSE
  OBVIOUS
<1>1. PICK i \in Wrong : \A k \in Wrong : i <= k
  <2> Wrong \subseteq Nat
    OBVIOUS
  <2> HIDE DEF Wrong
  <2> QED  BY LeastNumber
<1>2. i \in 1 .. Len(s) /\ i \in 1 .. Len(t) /\ s[i] = t[i]
  BY DEF BeginsAs
<1>3. /\ f[i] = IF i = 1 THEN s[i] ELSE f[i - 1] \o s[i]
      /\ g[i] = IF i = 1 THEN t[i] ELSE g[i - 1] \o t[i]
  BY <1>2, Zenon DEF Flattens
<1>4. i # 1 => f[i - 1] = g[i - 1]
  <2> SUFFICES ASSUME i # 1 PROVE i - 1 \notin Wrong /\ i - 1 \in 1 .. Len(s)
    OBVIOUS
  <2>1. i - 1 \in 1 .. Len(s) /\ ~(i <= i - 1)
    BY <1>2
  <2> HIDE DEF Wrong
  <2> QED  BY <1>1, <2>1
<1> QED  BY <1>2, <1>3, <1>4

\* The recursion is that of a function, for every sequence.
LEMMA FlattensExists ==
    ASSUME NEW s, Len(s) \in Nat
    PROVE  \E f : Flattens(f, s)
<1> DEFINE Part(n) == \E f : f = [i \in 1 .. n |-> IF i = 1 THEN s[i] ELSE f[i - 1] \o s[i]]
           Stuck == {n \in Nat : ~Part(n)}
<1> SUFFICES ASSUME Stuck # {} PROVE FALSE
  BY DEF Flattens
<1>1. PICK m \in Stuck : \A k \in Stuck : m <= k
  <2> Stuck \subseteq Nat
    OBVIOUS
  <2> HIDE DEF Stuck
  <2> QED  BY LeastNumber
<1>2. m # 0
  <2>1. \A x : [i \in 1 .. 0 |-> x] = [i \in 1 .. 0 |-> IF i = 1 THEN s[i]
                ELSE [j \in 1 .. 0 |-> x][i - 1] \o s[i]]
    OBVIOUS
  <2> QED  BY <2>1
<1>3. m \in Nat /\ m - 1 \in Nat /\ Part(m - 1)
  <2>1. m \in Nat /\ m - 1 \in Nat
    BY <1>1, <1>2
  <2>2. m - 1 \notin Stuck
    <3> HIDE DEF Stuck
    <3> QED  BY <1>1, <2>1
  <2> QED  BY <2>1, <2>2
<1>4. PICK f : f = [i \in 1 .. m - 1 |-> IF i = 1 THEN s[i] ELSE f[i - 1] \o s[i]]
  BY <1>3
<1> DEFINE g == [i \in 1 .. m |-> IF i # m THEN f[i]
                                  ELSE IF i = 1 THEN s[i] ELSE f[i - 1] \o s[i]]
<1>5. ASSUME NEW i \in 1 .. m
      PROVE  g[i] = IF i = 1 THEN s[i] ELSE g[i - 1] \o s[i]
  <2>1. i # 1 => g[i - 1] = f[i - 1]
    BY <1>3
  <2>2. i # m => f[i] = IF i = 1 THEN s[i] ELSE f[i - 1] \o s[i]
    <3>1. i # m => i \in 1 .. m - 1
      BY <1>3
    <3> QED  BY <1>4, <3>1, Zenon
  <2>3. g[i] = IF i # m THEN f[i] ELSE IF i = 1 THEN s[i] ELSE f[i - 1] \o s[i]
    OBVIOUS
  <2> HIDE DEF g
  <2> QED  BY <2>1, <2>2, <2>3
<1>6. g = [i \in 1 .. m |-> IF i = 1 THEN s[i] ELSE g[i - 1] \o s[i]]
  BY <1>5
<1> HIDE DEF g
<1> QED  BY <1>1, <1>6

\* FlattenSeq is the last value of that function.
LEMMA FlattenIs ==
    ASSUME NEW s, Len(s) \in Nat \ {0}
    PROVE  \E f : Flattens(f, s) /\ FlattenSeq(s) = f[Len(s)]
<1> DEFINE f == CHOOSE f : Flattens(f, s)
<1>1. Flattens(f, s)
  BY FlattensExists
<1>2. FlattenSeq(s) = f[Len(s)]
  BY Zenon DEF FlattenSeq, Flattens
<1> QED  BY <1>1, <1>2

\* One more sequence at the end is appended to what the others flatten to.
LEMMA FlattenAppend ==
    ASSUME NEW S, NEW s \in Seq(Seq(S)), NEW t \in Seq(Seq(S)),
           Len(t) = Len(s) + 1, \A i \in 1 .. Len(s) : t[i] = s[i]
    PROVE  FlattenSeq(t) = FlattenSeq(s) \o t[Len(t)]
<1>1. Len(s) \in Nat /\ Len(t) \in Nat \ {0} /\ t[Len(t)] \in Seq(S)
  BY ElementOfSeq
<1>2. PICK g : Flattens(g, t) /\ FlattenSeq(t) = g[Len(t)]
  BY <1>1, FlattenIs
<1>3. g[Len(t)] = IF Len(t) = 1 THEN t[Len(t)] ELSE g[Len(t) - 1] \o t[Len(t)]
  <2>1. Len(t) \in 1 .. Len(t)
    BY <1>1
  <2> QED  BY <1>2, <2>1, Zenon DEF Flattens
<1>4. CASE Len(s) = 0
  <2>1. FlattenSeq(s) = <<>>
    BY <1>4 DEF FlattenSeq
  <2> QED  BY <1>1, <1>2, <1>3, <1>4, <2>1, ConcatEmptySeq
<1>5. CASE Len(s) # 0
  <2>1. PICK f : Flattens(f, s) /\ FlattenSeq(s) = f[Len(s)]
    BY <1>1, <1>5, FlattenIs
  <2>2. \A i \in 1 .. Len(s) : f[i] = g[i]
    <3>1. Len(s) <= Len(t)
      BY ONLY Len(t) = Len(s) + 1, <1>1
    <3>2. BeginsAs(s, t)
      BY <1>1, <3>1, Zenon DEF BeginsAs
    <3> QED  BY <1>2, <2>1, <3>2, FlattensUnique
  <2>3. f[Len(s)] = g[Len(s)] /\ Len(t) # 1 /\ Len(t) - 1 = Len(s)
    BY <1>1, <1>5, <2>2
  <2> QED  BY <1>2, <1>3, <2>1, <2>3
<1> QED  BY <1>4, <1>5

\* Sequences over a set flatten to a sequence over it.
LEMMA FlattenType ==
    ASSUME NEW S, NEW s \in Seq(Seq(S))
    PROVE  FlattenSeq(s) \in Seq(S)
<1>1. CASE Len(s) = 0
  BY <1>1 DEF FlattenSeq
<1>2. CASE Len(s) # 0
  <2>1. PICK f : Flattens(f, s) /\ FlattenSeq(s) = f[Len(s)]
    BY <1>2, FlattenIs
  <2> DEFINE Wrong == {i \in 1 .. Len(s) : f[i] \notin Seq(S)}
  <2> SUFFICES ASSUME Wrong # {} PROVE FALSE
    BY <1>2, <2>1
  <2>2. PICK i \in Wrong : \A k \in Wrong : i <= k
    <3> Wrong \subseteq Nat
      OBVIOUS
    <3> HIDE DEF Wrong
    <3> QED  BY LeastNumber
  <2>3. f[i] = IF i = 1 THEN s[i] ELSE f[i - 1] \o s[i]
    BY <2>1, Zenon DEF Flattens
  <2>4. i \in 1 .. Len(s) /\ s[i] \in Seq(S)
    BY ElementOfSeq
  <2>5. i # 1 => f[i - 1] \in Seq(S)
    <3> SUFFICES ASSUME i # 1 PROVE i - 1 \notin Wrong /\ i - 1 \in 1 .. Len(s)
      OBVIOUS
    <3>1. i - 1 \in 1 .. Len(s) /\ ~(i <= i - 1)
      BY <2>4
    <3> HIDE DEF Wrong
    <3> QED  BY <2>2, <3>1
  <2>6. f[i] \in Seq(S)
    BY <2>3, <2>4, <2>5, ConcatProperties
  <2> QED  BY <2>6
<1> QED  BY <1>1, <1>2

-----------------------------------------------------------------------------
\* Induction on the numbers up to n, as a fact about a set of them.
LEMMA UpTo ==
    ASSUME NEW n \in Nat, NEW T, 0 \in T, \A k \in 0 .. n - 1 : k \in T => k + 1 \in T
    PROVE  \A k \in 0 .. n : k \in T
<1> DEFINE Missing == {k \in 0 .. n : k \notin T}
<1> SUFFICES ASSUME Missing # {} PROVE FALSE
  OBVIOUS
<1>1. PICK m \in Missing : \A k \in Missing : m <= k
  <2> Missing \subseteq Nat
    OBVIOUS
  <2> HIDE DEF Missing
  <2> QED  BY LeastNumber
<1>2. m \in 0 .. n /\ m \notin T /\ m # 0
  BY <1>1
<1>3. m - 1 \in 0 .. n - 1 /\ m - 1 \in 0 .. n /\ ~(m <= m - 1) /\ m - 1 + 1 = m
  BY <1>2
<1>4. m - 1 \notin Missing
  <2> HIDE DEF Missing
  <2> QED  BY <1>1, <1>3
<1> QED  BY <1>2, <1>3, <1>4

\* s lists the numbers in P, each once, in their order.
Enumerates(s, P) ==
    /\ s \in Seq(Nat)
    /\ Range(s) = P
    /\ \A j, k \in 1 .. Len(s) : j < k => s[j] < s[k]

\* The position of a number.
LEMMA EnumHas ==
    ASSUME NEW s, NEW P, Enumerates(s, P)
    PROVE  /\ Len(s) \in Nat /\ DOMAIN s = 1 .. Len(s)
           /\ \A k \in 1 .. Len(s) : s[k] \in P /\ s[k] \in Nat
           /\ \A p \in P : \E k \in 1 .. Len(s) : s[k] = p
           /\ \A j, k \in 1 .. Len(s) : s[j] < s[k] => j < k
<1>1. s \in Seq(Nat) /\ Range(s) = P /\ \A j, k \in 1 .. Len(s) : j < k => s[j] < s[k]
  BY DEF Enumerates
<1>2. Len(s) \in Nat /\ DOMAIN s = 1 .. Len(s) /\ \A k \in 1 .. Len(s) : s[k] \in Nat
  BY <1>1
<1>3. P = {s[k] : k \in 1 .. Len(s)}
  BY <1>1, <1>2 DEF Range
<1>4. ASSUME NEW j \in 1 .. Len(s), NEW k \in 1 .. Len(s), s[j] < s[k] PROVE j < k
  <2> SUFFICES ASSUME ~(j < k) PROVE FALSE
    OBVIOUS
  <2>1. j = k \/ k < j
    OBVIOUS
  <2>2. s[k] \in Nat /\ s[j] \in Nat
    BY <1>2
  <2>3. CASE j = k
    BY <1>4, <2>2, <2>3
  <2>4. CASE k < j
    <3>1. s[k] < s[j]
      BY <1>1, <2>4
    <3> QED  BY <1>4, <2>2, <3>1
  <2> QED  BY <2>1, <2>3, <2>4
<1> QED  BY <1>2, <1>3, <1>4

\* Where two lists of the same numbers have agreed so far, none is ahead.
LEMMA EnumNotAhead ==
    ASSUME NEW P, NEW s, NEW t, Enumerates(s, P), Enumerates(t, P),
           NEW m \in Nat, m \in 1 .. Len(s), m \in 1 .. Len(t),
           \A i \in 1 .. m - 1 : s[i] = t[i]
    PROVE  ~(s[m] < t[m])
<1> SUFFICES ASSUME s[m] < t[m] PROVE FALSE
  OBVIOUS
<1>1. PICK i \in 1 .. Len(t) : t[i] = s[m]
  BY EnumHas
<1>2. i < m
  BY <1>1, EnumHas
<1>3. Len(s) \in Nat /\ Len(t) \in Nat
  BY EnumHas
<1>4. i \in 1 .. m - 1 /\ i \in 1 .. Len(s)
  BY <1>2, <1>3
<1>5. s[i] = s[m]
  BY <1>1, <1>4
<1>6. s[i] < s[m]
  BY <1>2, <1>4 DEF Enumerates
<1>7. s[m] \in Nat
  BY EnumHas
<1> QED  BY <1>5, <1>6, <1>7

\* There is one such list.
LEMMA EnumUnique ==
    ASSUME NEW P, NEW s, NEW t, Enumerates(s, P), Enumerates(t, P)
    PROVE  s = t
<1>1. /\ Len(s) \in Nat /\ DOMAIN s = 1 .. Len(s) /\ s \in Seq(Nat)
      /\ Len(t) \in Nat /\ DOMAIN t = 1 .. Len(t) /\ t \in Seq(Nat)
  BY EnumHas DEF Enumerates
<1> DEFINE Wrong == {i \in Nat : i \in 1 .. Len(s) /\ i \in 1 .. Len(t) /\ s[i] # t[i]}
<1>2. Wrong = {}
  <2> SUFFICES ASSUME Wrong # {} PROVE FALSE
    OBVIOUS
  <2>1. PICK m \in Wrong : \A i \in Wrong : m <= i
    <3>1. Wrong \in SUBSET Nat
      OBVIOUS
    <3> HIDE DEF Wrong
    <3> QED  BY <3>1, LeastNumber
  <2>2. m \in Nat /\ m \in 1 .. Len(s) /\ m \in 1 .. Len(t) /\ s[m] # t[m]
    OBVIOUS
  <2>3. \A i \in 1 .. m - 1 : s[i] = t[i]
    <3> SUFFICES ASSUME NEW i \in 1 .. m - 1, s[i] # t[i] PROVE FALSE
      OBVIOUS
    <3>1. i \in Nat /\ i \in 1 .. Len(s) /\ i \in 1 .. Len(t) /\ ~(m <= i)
      BY <1>1, <2>2
    <3> QED  BY <2>1, <3>1
  <2>4. \A i \in 1 .. m - 1 : t[i] = s[i]
    BY <2>3
  <2>5. ~(s[m] < t[m]) /\ ~(t[m] < s[m])
    BY <2>2, <2>3, <2>4, EnumNotAhead
  <2>6. s[m] \in Nat /\ t[m] \in Nat
    BY <2>2, EnumHas
  <2> QED  BY <2>2, <2>5, <2>6
<1>3. ASSUME NEW a, NEW b, Enumerates(a, P), Enumerates(b, P), Len(a) \in Nat, Len(b) \in Nat,
             \A i \in 1 .. Len(a) : i \in 1 .. Len(b) => a[i] = b[i]
      PROVE  ~(Len(a) < Len(b))
  <2> SUFFICES ASSUME Len(a) < Len(b) PROVE FALSE
    OBVIOUS
  <2>1. PICK k : k = Len(a) + 1
    OBVIOUS
  <2>2. k \in 1 .. Len(b) /\ b[k] \in P
    BY <1>3, <2>1, EnumHas
  <2>3. PICK i \in 1 .. Len(a) : a[i] = b[k]
    BY <1>3, <2>2, EnumHas
  <2>4. i \in 1 .. Len(b) /\ i < k
    BY <1>3, <2>1
  <2>5. b[i] = b[k] /\ b[i] < b[k] /\ b[k] \in Nat
    BY <1>3, <2>2, <2>3, <2>4, EnumHas DEF Enumerates
  <2> QED  BY <2>5
<1>4. \A i : i \in 1 .. Len(s) /\ i \in 1 .. Len(t) => s[i] = t[i]
  BY <1>1, <1>2
<1>5. Len(s) = Len(t)
  <2>1. ~(Len(s) < Len(t))
    <3>1. \A i \in 1 .. Len(s) : i \in 1 .. Len(t) => s[i] = t[i]
      BY <1>4
    <3> QED  BY ONLY <1>1, <1>3, <3>1, Enumerates(s, P), Enumerates(t, P)
  <2>2. ~(Len(t) < Len(s))
    <3>1. \A i \in 1 .. Len(t) : i \in 1 .. Len(s) => t[i] = s[i]
      BY <1>4
    <3> QED  BY ONLY <1>1, <1>3, <3>1, Enumerates(s, P), Enumerates(t, P)
  <2>3. \A a, b \in Nat : ~(a < b) /\ ~(b < a) => a = b
    OBVIOUS
  <2>4. Len(s) \in Nat /\ Len(t) \in Nat
    BY <1>1
  <2> QED  BY ONLY <2>1, <2>2, <2>3, <2>4
<1> QED  BY <1>1, <1>4, <1>5, SeqEqual

\* One more number, greater than the others.
LEMMA EnumGrows ==
    ASSUME NEW P, NEW s, Enumerates(s, P), NEW p \in Nat, \A q \in P : q < p
    PROVE  Enumerates(Append(s, p), P \cup {p})
<1>1. s \in Seq(Nat) /\ Range(s) = P /\ \A j, k \in 1 .. Len(s) : j < k => s[j] < s[k]
  BY DEF Enumerates
<1>2. PICK n, t : n = Len(s) /\ t = Append(s, p)
  OBVIOUS
<1>3. n \in Nat /\ DOMAIN s = 1 .. n /\ \A k \in 1 .. n : s[k] \in P
  BY <1>2, EnumHas
<1>4. t \in Seq(Nat) /\ Len(t) = n + 1 /\ (\A k \in 1 .. n : t[k] = s[k]) /\ t[n + 1] = p
  BY <1>1, <1>2, <1>3
<1>5. DOMAIN t = 1 .. n + 1 /\ \A k \in 1 .. n + 1 : k \in 1 .. n \/ k = n + 1
  BY <1>3, <1>4
<1>6. Range(t) = P \cup {p}
  <2>1. \A k \in 1 .. n + 1 : t[k] \in P \cup {p}
    BY <1>3, <1>4, <1>5
  <2>2. \A q \in P : \E k \in 1 .. n + 1 : t[k] = q
    <3> TAKE q \in P
    <3>1. PICK k \in 1 .. n : s[k] = q
      BY <1>2, EnumHas
    <3>2. k \in 1 .. n + 1 /\ t[k] = q
      BY <1>3, <1>4, <3>1
    <3> QED  BY <3>2
  <2>3. n + 1 \in 1 .. n + 1
    BY <1>3
  <2> QED  BY <1>4, <1>5, <2>1, <2>2, <2>3 DEF Range
<1>7. \A j, k \in 1 .. n + 1 : j < k => t[j] < t[k]
  <2> SUFFICES ASSUME NEW j \in 1 .. n + 1, NEW k \in 1 .. n + 1, j < k PROVE t[j] < t[k]
    OBVIOUS
  <2>1. j \in 1 .. n /\ t[j] = s[j] /\ s[j] \in P
    BY <1>3, <1>4
  <2>2. CASE k \in 1 .. n
    BY <1>1, <1>2, <1>4, <2>1, <2>2
  <2>3. CASE k = n + 1
    BY <1>4, <2>1, <2>3
  <2> QED  BY <1>5, <2>2, <2>3
<1> QED  BY <1>2, <1>4, <1>6, <1>7 DEF Enumerates

\* The greatest number is the last one.
LEMMA EnumDrops ==
    ASSUME NEW P, NEW s, Enumerates(s, P), s # <<>>
    PROVE  /\ Last(s) \in P /\ \A q \in P : q <= Last(s)
           /\ Front(s) = [k \in 1 .. Len(s) - 1 |-> s[k]]
           /\ Enumerates(Front(s), P \ {Last(s)})
<1>1. s \in Seq(Nat) /\ Range(s) = P /\ \A j, k \in 1 .. Len(s) : j < k => s[j] < s[k]
  BY DEF Enumerates
<1>2. PICK n : n = Len(s)
  OBVIOUS
<1>3. n \in Nat /\ n # 0 /\ DOMAIN s = 1 .. n /\ \A k \in 1 .. n : s[k] \in P /\ s[k] \in Nat
  BY <1>1, <1>2, EnumHas
<1>4. PICK t, p : t = [k \in 1 .. n - 1 |-> s[k]] /\ p = s[n]
  OBVIOUS
<1>5. Front(s) = t /\ Last(s) = p
  <2>1. Front(s) = SubSeq(s, 1, n - 1)
    BY <1>2 DEF Front
  <2>2. SubSeq(s, 1, n - 1) = [k \in 1 .. n - 1 |-> s[k]]
    <3>1. 1 \in 1 .. n + 1 /\ n - 1 \in 1 - 1 .. n /\ (n - 1) - 1 + 1 = n - 1
      BY <1>3
    <3>2. SubSeq(s, 1, n - 1) = [i \in 1 .. (n - 1) - 1 + 1 |-> s[1 + i - 1]]
      BY <1>1, <1>2, <3>1, SubSeqProperties
    <3>3. \A i \in 1 .. n - 1 : 1 + i - 1 = i
      OBVIOUS
    <3> QED  BY <3>1, <3>2, <3>3
  <2> QED  BY <1>2, <1>4, <2>1, <2>2 DEF Last
<1>6. t \in Seq(Nat) /\ Len(t) = n - 1 /\ DOMAIN t = 1 .. n - 1 /\ \A k \in 1 .. n - 1 : t[k] = s[k]
  BY <1>3, <1>4
<1>7. n \in 1 .. n /\ p \in P /\ p \in Nat /\ \A k \in 1 .. n - 1 : k \in 1 .. n /\ s[k] < p
  BY <1>1, <1>2, <1>3, <1>4
<1>8. \A q \in P : q = p \/ \E k \in 1 .. n - 1 : t[k] = q
  <2> TAKE q \in P
  <2>1. PICK k \in 1 .. n : s[k] = q
    BY <1>2, EnumHas
  <2>2. k = n \/ k \in 1 .. n - 1
    BY <1>3
  <2> QED  BY <1>4, <1>6, <2>1, <2>2
<1>9. \A k \in 1 .. n - 1 : t[k] \in P /\ t[k] < p /\ t[k] # p /\ t[k] \in Nat
  BY <1>3, <1>6, <1>7
<1>10. Range(t) = P \ {p}
  BY <1>6, <1>8, <1>9 DEF Range
<1>11. \A j, k \in 1 .. n - 1 : j < k => t[j] < t[k]
  BY <1>1, <1>2, <1>6, <1>7
<1>12. \A q \in P : q <= p
  BY <1>7, <1>8, <1>9
<1> QED  BY <1>2, <1>4, <1>5, <1>6, <1>7, <1>10, <1>11, <1>12 DEF Enumerates

\* Other numbers in the same order.
LEMMA EnumMaps ==
    ASSUME NEW K, NEW e, Enumerates(e, K), NEW g \in [K -> Nat],
           \A i, j \in K : i < j => g[i] < g[j]
    PROVE  Enumerates([k \in 1 .. Len(e) |-> g[e[k]]], {g[i] : i \in K})
<1>1. PICK n, s : n = Len(e) /\ s = [k \in 1 .. n |-> g[e[k]]]
  OBVIOUS
<1>2. n \in Nat /\ \A k \in 1 .. n : e[k] \in K /\ g[e[k]] \in Nat
  BY <1>1, EnumHas
<1>3. s \in Seq(Nat) /\ Len(s) = n /\ DOMAIN s = 1 .. n /\ \A k \in 1 .. n : s[k] = g[e[k]]
  BY <1>1, <1>2
<1>4. Range(s) = {g[i] : i \in K}
  <2>1. \A i \in K : \E k \in 1 .. n : s[k] = g[i]
    <3> TAKE i \in K
    <3>1. PICK k \in 1 .. n : e[k] = i
      BY <1>1, EnumHas
    <3> QED  BY <1>3, <3>1
  <2>2. \A k \in 1 .. n : s[k] \in {g[i] : i \in K}
    BY <1>2, <1>3
  <2>3. Range(s) = {s[k] : k \in 1 .. n}
    BY <1>3 DEF Range
  <2>4. \A i \in K : g[i] \in Range(s)
    BY <2>1, <2>3
  <2>5. \A x \in Range(s) : x \in {g[i] : i \in K}
    BY <2>2, <2>3
  <2>6. \A x \in {g[i] : i \in K} : x \in Range(s)
    BY <2>4
  <2> QED  BY <2>5, <2>6
<1>5. \A j, k \in 1 .. n : j < k => s[j] < s[k]
  <2> SUFFICES ASSUME NEW j \in 1 .. n, NEW k \in 1 .. n, j < k PROVE s[j] < s[k]
    OBVIOUS
  <2>1. e[j] < e[k]
    BY <1>1 DEF Enumerates
  <2>2. e[j] \in K /\ e[k] \in K
    BY <1>2
  <2> QED  BY <1>3, <2>1, <2>2
<1> QED  BY <1>1, <1>3, <1>4, <1>5 DEF Enumerates

\* f is defined by recursion up to n, from z by F.
Recurs(f, z, F, n) == f = [k \in 0 .. n |-> IF k = 0 THEN z ELSE F[k][f[k - 1]]]

\* A function defined by recursion exists.
LEMMA RecursionExists ==
    ASSUME NEW S, NEW z \in S, NEW n \in Nat, NEW F \in [1 .. n -> [S -> S]]
    PROVE  \E f \in [0 .. n -> S] : Recurs(f, z, F, n)
<1> DEFINE T == {k \in 0 .. n : \E f \in [0 .. k -> S] : f[0] = z /\ \A j \in 1 .. k : f[j] = F[j][f[j - 1]]}
<1>1. 0 \in T
  <2>1. [k \in 0 .. 0 |-> z] \in [0 .. 0 -> S] /\ [k \in 0 .. 0 |-> z][0] = z
    OBVIOUS
  <2>2. 0 \in 0 .. n /\ \A j \in 1 .. 0 : FALSE
    OBVIOUS
  <2> QED  BY <2>1, <2>2
<1>2. ASSUME NEW k \in 0 .. n - 1, k \in T PROVE k + 1 \in T
  <2>1. PICK f \in [0 .. k -> S] : f[0] = z /\ \A j \in 1 .. k : f[j] = F[j][f[j - 1]]
    BY <1>2
  <2>2. k + 1 \in 1 .. n /\ f[k] \in S
    OBVIOUS
  <2>3. F[k + 1][f[k]] \in S
    BY <2>2
  <2>4. PICK g : g = [j \in 0 .. k + 1 |-> IF j = k + 1 THEN F[k + 1][f[k]] ELSE f[j]]
    OBVIOUS
  <2>5. g \in [0 .. k + 1 -> S]
    BY <2>1, <2>3, <2>4
  <2>6. (\A j \in 0 .. k : g[j] = f[j]) /\ g[k + 1] = F[k + 1][f[k]]
    BY <2>4
  <2>7. ASSUME NEW j \in 1 .. k + 1 PROVE g[j] = F[j][g[j - 1]]
    <3>1. CASE j = k + 1
      <4>1. j - 1 = k /\ k \in 0 .. k
        BY <3>1
      <4> QED  BY <2>6, <3>1, <4>1
    <3>2. CASE j # k + 1
      <4>1. j \in 1 .. k /\ j \in 0 .. k /\ j - 1 \in 0 .. k
        BY <3>2
      <4> QED  BY <2>1, <2>6, <4>1
    <3> QED  BY <3>1, <3>2
  <2>8. g[0] = z /\ k + 1 \in 0 .. n
    BY <2>1, <2>6
  <2> QED  BY <2>5, <2>7, <2>8
<1>3. n \in T
  <2>1. \A k \in 0 .. n : k \in T
    <3> HIDE DEF T
    <3> QED  BY <1>1, <1>2, UpTo
  <2> QED  BY <2>1
<1>4. PICK f \in [0 .. n -> S] : f[0] = z /\ \A j \in 1 .. n : f[j] = F[j][f[j - 1]]
  BY <1>3
<1>5. \A k \in 0 .. n : f[k] = IF k = 0 THEN z ELSE F[k][f[k - 1]]
  <2> TAKE k \in 0 .. n
  <2>1. k = 0 \/ k \in 1 .. n
    OBVIOUS
  <2> QED  BY <1>4, <2>1
<1>6. f = [k \in 0 .. n |-> f[k]]
  OBVIOUS
<1>7. f = [k \in 0 .. n |-> IF k = 0 THEN z ELSE F[k][f[k - 1]]]
  BY <1>5, <1>6
<1> QED  BY <1>7 DEF Recurs

\* c has the n items of a, then the m items of b.
Joined(a, b, c, n, m) ==
    /\ n \in Nat /\ m \in Nat
    /\ DOMAIN a = 1 .. n /\ DOMAIN b = 1 .. m /\ DOMAIN c = 1 .. n + m
    /\ \A x \in 1 .. n : x \in 1 .. n + m /\ c[x] = a[x]
    /\ \A y \in 1 .. m : y + n \in 1 .. n + m /\ c[y + n] = b[y]
    /\ \A i \in 1 .. n + m : i \in 1 .. n \/ \E y \in 1 .. m : i = y + n

\* Where the items of two sequences are in the one they make.
LEMMA ConcatItems ==
    ASSUME NEW S, NEW a \in Seq(S), NEW b \in Seq(S), NEW c, c = a \o b,
           NEW n, n = Len(a), NEW m, m = Len(b)
    PROVE  Joined(a, b, c, n, m) /\ c \in Seq(S)
<1>1. n \in Nat /\ m \in Nat /\ DOMAIN a = 1 .. n /\ DOMAIN b = 1 .. m
  OBVIOUS
<1>2. c \in Seq(S) /\ Len(c) = n + m
  BY ConcatProperties
<1>3. \A i \in 1 .. n + m : c[i] = IF i <= n THEN a[i] ELSE b[i - n]
  <2>1. \A i \in 1 .. Len(a \o b) : (a \o b)[i] = IF i <= Len(a) THEN a[i] ELSE b[i - Len(a)]
    BY ConcatProperties, Zenon
  <2> QED  BY <1>2, <2>1, Zenon
<1>4. DOMAIN c = 1 .. n + m
  BY ONLY <1>1, <1>2
<1>5. ASSUME NEW x \in 1 .. n
      PROVE  x \in 1 .. n + m /\ c[x] = a[x]
  <2>1. x \in 1 .. n + m /\ x <= n
    BY ONLY <1>1, x \in 1 .. n
  <2>2. c[x] = IF x <= n THEN a[x] ELSE b[x - n]
    BY <1>3, <2>1, Zenon
  <2> QED  BY <2>1, <2>2, Zenon
<1>6. ASSUME NEW y \in 1 .. m
      PROVE  y + n \in 1 .. n + m /\ c[y + n] = b[y]
  <2>1. y + n \in 1 .. n + m /\ ~(y + n <= n) /\ (y + n) - n = y
    BY ONLY <1>1, y \in 1 .. m
  <2>2. c[y + n] = IF y + n <= n THEN a[y + n] ELSE b[(y + n) - n]
    BY <1>3, <2>1, Zenon
  <2> QED  BY <2>1, <2>2, Zenon
<1>7. ASSUME NEW i \in 1 .. n + m, i \notin 1 .. n
      PROVE  \E y \in 1 .. m : i = y + n
  <2>1. i - n \in 1 .. m /\ i = i - n + n
    BY ONLY <1>1, <1>7, i \in 1 .. n + m
  <2> QED  BY <2>1
<1> QED  BY <1>1, <1>2, <1>4, <1>5, <1>6, <1>7, Zenon DEF Joined

\* Sequences without repetition that share nothing make one without repetition.
LEMMA ConcatClean ==
    ASSUME NEW S, NEW a \in Seq(S), NEW b \in Seq(S), IsInjective(a), IsInjective(b),
           Range(a) \cap Range(b) = {}
    PROVE  /\ a \o b \in Seq(S) /\ IsInjective(a \o b)
           /\ Range(a \o b) = Range(a) \cup Range(b)
<1>1. PICK c, n, m : c = a \o b /\ n = Len(a) /\ m = Len(b)
  OBVIOUS
<1>2. Joined(a, b, c, n, m) /\ c \in Seq(S)
  BY <1>1, ConcatItems, Zenon
<1>3. /\ Range(a) = {a[x] : x \in 1 .. n} /\ Range(b) = {b[y] : y \in 1 .. m}
      /\ Range(c) = {c[i] : i \in 1 .. n + m}
  BY <1>2, Zenon DEF Joined, Range
<1>4. ASSUME NEW i \in 1 .. n + m, NEW j \in 1 .. n + m, c[i] = c[j]
      PROVE  i = j
  <2>1. \A x \in 1 .. n, y \in 1 .. m : a[x] # b[y]
    BY ONLY <1>3, Range(a) \cap Range(b) = {}
  <2>2. \A x, y \in 1 .. n : a[x] = a[y] => x = y
    BY <1>2, Zenon DEF Joined, IsInjective
  <2>3. \A x, y \in 1 .. m : b[x] = b[y] => x = y
    BY <1>2, Zenon DEF Joined, IsInjective
  <2>4. i \in 1 .. n \/ \E y \in 1 .. m : i = y + n
    BY <1>2, Zenon DEF Joined
  <2>5. j \in 1 .. n \/ \E y \in 1 .. m : j = y + n
    BY <1>2, Zenon DEF Joined
  <2>6. \A x \in 1 .. n : c[x] = a[x]
    BY <1>2, Zenon DEF Joined
  <2>7. \A y \in 1 .. m : c[y + n] = b[y]
    BY <1>2, Zenon DEF Joined
  <2>8. CASE i \in 1 .. n /\ j \in 1 .. n
    BY <1>4, <2>2, <2>6, <2>8, Zenon
  <2>9. ASSUME NEW x \in 1 .. m, i = x + n, NEW y \in 1 .. m, j = y + n PROVE i = j
    BY <1>4, <2>3, <2>7, <2>9, Zenon
  <2>10. ASSUME NEW y \in 1 .. m, j = y + n, i \in 1 .. n PROVE FALSE
    BY <1>4, <2>1, <2>6, <2>7, <2>10, Zenon
  <2>11. ASSUME NEW x \in 1 .. m, i = x + n, j \in 1 .. n PROVE FALSE
    BY <1>4, <2>1, <2>6, <2>7, <2>11, Zenon
  <2> QED  BY <2>4, <2>5, <2>8, <2>9, <2>10, <2>11, Zenon
<1>5. IsInjective(c)
  BY <1>2, <1>4, Zenon DEF Joined, IsInjective
<1>6. Range(c) \subseteq Range(a) \cup Range(b)
  <2>1. ASSUME NEW i \in 1 .. n + m PROVE c[i] \in Range(a) \cup Range(b)
    <3>1. i \in 1 .. n \/ \E y \in 1 .. m : i = y + n
      BY <1>2, Zenon DEF Joined
    <3> QED  BY ONLY <1>2, <1>3, <3>1 DEF Joined
  <2> QED  BY <1>3, <2>1, Zenon
<1>7. Range(a) \subseteq Range(c) /\ Range(b) \subseteq Range(c)
  BY ONLY <1>2, <1>3 DEF Joined
<1> QED  BY <1>1, <1>2, <1>5, <1>6, <1>7, Zenon

\* Sequences, none of which repeats anything or shares anything with another.
AllApart(s) ==
    /\ \A i \in 1 .. Len(s) : IsInjective(s[i])
    /\ \A i, j \in 1 .. Len(s) : i # j => Range(s[i]) \cap Range(s[j]) = {}

\* What they have together.
InAll(s) == UNION {Range(s[i]) : i \in 1 .. Len(s)}

\* Such sequences flatten to one that does not repeat anything.
LEMMA FlattenClean ==
    ASSUME NEW S, NEW s \in Seq(Seq(S)), AllApart(s)
    PROVE  /\ FlattenSeq(s) \in Seq(S) /\ IsInjective(FlattenSeq(s))
           /\ Range(FlattenSeq(s)) = InAll(s)
<1> DEFINE p(k) == [i \in 1 .. k |-> s[i]]
           Clean(k) == IsInjective(FlattenSeq(p(k))) /\ Range(FlattenSeq(p(k))) = InAll(p(k))
           T == {k \in 0 .. Len(s) : Clean(k)}
<1>1. Len(s) \in Nat /\ p(Len(s)) = s
  OBVIOUS
<1>2. ASSUME NEW k \in 0 .. Len(s)
      PROVE  p(k) \in Seq(Seq(S)) /\ Len(p(k)) = k /\ \A i \in 1 .. k : p(k)[i] = s[i]
  OBVIOUS
<1>3. Clean(0)
  <2>1. p(0) = <<>>
    OBVIOUS
  <2>2. FlattenSeq(<<>>) = <<>>
    BY DEF FlattenSeq
  <2>3. IsInjective(<<>>) /\ Range(<<>>) = {} /\ InAll(<<>>) = {}
    BY DEF IsInjective, Range, InAll
  <2> QED  BY <2>1, <2>2, <2>3, Zenon
<1>4. ASSUME NEW k \in 0 .. Len(s) - 1, Clean(k)
      PROVE  Clean(k + 1)
  <2> DEFINE a == FlattenSeq(p(k))
             b == s[k + 1]
  <2>1. k \in 0 .. Len(s) /\ k + 1 \in 0 .. Len(s) /\ k + 1 \in 1 .. Len(s) /\ k + 1 \in 1 .. k + 1
        /\ \A i \in 1 .. k : i \in 1 .. k + 1 /\ i \in 1 .. Len(s) /\ i # k + 1
    BY <1>1
  <2>2. /\ p(k) \in Seq(Seq(S)) /\ Len(p(k)) = k /\ \A i \in 1 .. k : p(k)[i] = s[i]
        /\ p(k + 1) \in Seq(Seq(S)) /\ Len(p(k + 1)) = k + 1
        /\ \A i \in 1 .. k + 1 : p(k + 1)[i] = s[i]
    BY <1>2, <2>1
  <2> HIDE DEF p
  <2>3. FlattenSeq(p(k + 1)) = FlattenSeq(p(k)) \o s[k + 1]
    <3>1. \A i \in 1 .. Len(p(k)) : p(k + 1)[i] = p(k)[i]
      BY <2>1, <2>2
    <3>2. Len(p(k + 1)) = Len(p(k)) + 1 /\ p(k + 1)[Len(p(k + 1))] = s[k + 1]
      BY <2>1, <2>2
    <3> QED  BY <2>2, <3>1, <3>2, FlattenAppend, Zenon
  <2>4. a \in Seq(S) /\ b \in Seq(S) /\ IsInjective(a) /\ IsInjective(b)
    BY <1>4, <2>1, <2>2, FlattenType, ElementOfSeq DEF AllApart
  <2>5. Range(a) = UNION {Range(s[i]) : i \in 1 .. k}
    BY <1>4, <2>2 DEF InAll
  <2>6. Range(a) \cap Range(b) = {}
    BY <2>1, <2>5 DEF AllApart
  <2> HIDE DEF a, b
  <2>7. IsInjective(a \o b) /\ Range(a \o b) = Range(a) \cup Range(b)
    BY <2>4, <2>6, ConcatClean
  <2>8. InAll(p(k + 1)) = (UNION {Range(s[i]) : i \in 1 .. k}) \cup Range(s[k + 1])
    <3>1. InAll(p(k + 1)) = UNION {Range(s[i]) : i \in 1 .. k + 1}
      BY <2>2 DEF InAll
    <3>2. \A i \in 1 .. k + 1 : i \in 1 .. k \/ i = k + 1
      OBVIOUS
    <3> QED  BY <3>1, <3>2, <2>1
  <2> QED  BY <2>3, <2>5, <2>7, <2>8 DEF a, b
<1>5. Clean(Len(s))
  <2>1. \A k \in 0 .. Len(s) - 1 : k \in T => k + 1 \in T
    <3>1. \A k \in 0 .. Len(s) - 1 : k + 1 \in 0 .. Len(s)
      BY <1>1
    <3> QED  BY <1>4, <3>1
  <2>2. 0 \in T
    BY <1>1, <1>3
  <2>3. \A k \in 0 .. Len(s) : k \in T
    <3> HIDE DEF T
    <3> QED  BY <1>1, <2>1, <2>2, UpTo
  <2> QED  BY <1>1, <2>3
<1> QED  BY <1>1, <1>5, FlattenType

\* SetToSeq names each element of a finite set once.
LEMMA SetToSeqOnce ==
    ASSUME NEW S, IsFiniteSet(S)
    PROVE  /\ SetToSeq(S) \in Seq(S) /\ IsInjective(SetToSeq(S)) /\ Range(SetToSeq(S)) = S
           /\ Len(SetToSeq(S)) = Cardinality(S)
<1>1. Cardinality(S) \in Nat /\ ExistsBijection(1 .. Cardinality(S), S)
  BY FS_CardinalityType
<1>2. SetToSeq(S) \in [1 .. Cardinality(S) -> S] /\ IsInjective(SetToSeq(S))
  BY <1>1, Zenon DEF SetToSeq, ExistsBijection, Bijection, Injection
<1>3. IsFiniteSet(1 .. Cardinality(S)) /\ Cardinality(1 .. Cardinality(S)) = Cardinality(S)
  BY <1>1, FS_Interval
<1>4. SetToSeq(S) \in Injection(1 .. Cardinality(S), S)
  BY <1>2, Zenon DEF Injection
<1>5. SetToSeq(S) \in Surjection(1 .. Cardinality(S), S)
  BY <1>3, <1>4, FS_Injection
<1>6. Range(SetToSeq(S)) = S
  BY <1>2, <1>5 DEF Surjection, Range
<1> QED  BY <1>1, <1>2, <1>6

\* A sequence without repetition has as many elements as its range.
LEMMA CleanCounts ==
    ASSUME NEW S, NEW s \in Seq(S), IsInjective(s)
    PROVE  IsFiniteSet(Range(s)) /\ Cardinality(Range(s)) = Len(s)
<1>1. Len(s) \in Nat /\ DOMAIN s = 1 .. Len(s) /\ s \in [1 .. Len(s) -> Range(s)]
  BY DEF Range
<1>2. s \in Bijection(1 .. Len(s), Range(s))
  BY <1>1 DEF Bijection, Injection, Surjection, Range
<1>3. IsFiniteSet(1 .. Len(s)) /\ Cardinality(1 .. Len(s)) = Len(s)
  BY <1>1, FS_Interval
<1>4. ExistsBijection(1 .. Len(s), Range(s))
  BY <1>2, Zenon DEF ExistsBijection
<1> QED  BY <1>3, <1>4, FS_Bijection

-----------------------------------------------------------------------------
(* Orders                                                                  *)

\* Numbers are compared as they are (dnsQueue.h, IntCmp).
THEOREM IntCmpOrdersNumbers == IsOrderOf(IntCmp, Int)
BY DEF IsOrderOf, IntCmp

-----------------------------------------------------------------------------

\* Where two texts differ.
Differ(a, b) == {i \in (DOMAIN a) \cap (DOMAIN b) : a[i] # b[i]}

\* i is the first place where they do.
FirstDiffers(a, b, i) == i \in Differ(a, b) /\ \A j \in Differ(a, b) : i <= j

\* Texts of one length differ in a first place, or are the same.
LEMMA SameOrDiffer ==
    ASSUME NEW a \in Seq(Nat), NEW b \in Seq(Nat), Len(a) = Len(b)
    PROVE  /\ a = b <=> Differ(a, b) = {}
           /\ a # b => \E i : FirstDiffers(a, b, i)
<1>1. /\ Len(a) \in Nat /\ DOMAIN a = 1 .. Len(a) /\ DOMAIN b = 1 .. Len(a)
      /\ a \in [1 .. Len(a) -> Nat] /\ b \in [1 .. Len(a) -> Nat]
  OBVIOUS
<1>2. Differ(a, b) = {} => a = b
  <2>1. Differ(a, b) = {} => \A i \in 1 .. Len(a) : a[i] = b[i]
    BY <1>1 DEF Differ
  <2>2. a = [i \in 1 .. Len(a) |-> a[i]] /\ b = [i \in 1 .. Len(a) |-> b[i]]
    BY <1>1
  <2> QED  BY <2>1, <2>2
<1>3. a = b => Differ(a, b) = {}
  BY DEF Differ
<1>4. Differ(a, b) # {} => \E i : FirstDiffers(a, b, i)
  <2>1. Differ(a, b) \in SUBSET Nat
    BY <1>1 DEF Differ
  <2> QED  BY <2>1, LeastNumber DEF FirstDiffers
<1> QED  BY <1>2, <1>3, <1>4

\* What strCmp returns: the lengths decide, then the first place that differs.
LEMMA StrCmpDecides ==
    ASSUME NEW a \in Seq(Nat), NEW b \in Seq(Nat)
    PROVE  /\ Len(a) < Len(b) => strCmp(a, b) = -1
           /\ Len(b) < Len(a) => strCmp(a, b) = 1
           /\ a = b => strCmp(a, b) = 0
           /\ \A i : Len(a) = Len(b) /\ FirstDiffers(a, b, i) =>
                  strCmp(a, b) = IF a[i] < b[i] THEN -1 ELSE 1
<1>1. Len(a) \in Nat /\ Len(b) \in Nat
  OBVIOUS
<1>2. CASE Len(a) # Len(b)
  BY <1>1, <1>2 DEF strCmp
<1>3. CASE a = b
  <2>1. {i \in (DOMAIN a) \cap (DOMAIN b) : a[i] # b[i]} = {}
    BY <1>3
  <2>2. strCmp(a, b) = 0
    BY <1>3, <2>1 DEF strCmp
  <2> QED  BY <1>1, <1>3, <2>1, <2>2 DEF FirstDiffers, Differ
<1>4. CASE Len(a) = Len(b) /\ a # b
  <2>1. Differ(a, b) # {}
    BY <1>4, SameOrDiffer
  <2>2. Differ(a, b) \subseteq Nat
    <3>1. DOMAIN a = 1 .. Len(a)
      OBVIOUS
    <3> QED  BY <1>1, <3>1 DEF Differ
  <2>3. strCmp(a, b) =
            LET i == CHOOSE i \in Differ(a, b) : \A j \in Differ(a, b) : i <= j
            IN  IF a[i] < b[i] THEN -1 ELSE 1
    BY <1>4, <2>1 DEF strCmp, Differ
  <2>4. ASSUME NEW i, FirstDiffers(a, b, i)
        PROVE  strCmp(a, b) = IF a[i] < b[i] THEN -1 ELSE 1
    <3>1. (CHOOSE k \in Differ(a, b) : \A j \in Differ(a, b) : k <= j) = i
      <4> DEFINE c == CHOOSE k \in Differ(a, b) : \A j \in Differ(a, b) : k <= j
      <4>1. c \in Differ(a, b) /\ \A j \in Differ(a, b) : c <= j
        BY <2>4 DEF FirstDiffers
      <4> HIDE DEF c
      <4>2. c = i
        BY <2>2, <2>4, <4>1 DEF FirstDiffers
      <4> QED  BY <4>2 DEF c
    <3> QED  BY <2>3, <3>1
  <2> QED  BY <1>1, <1>4, <2>4
<1> QED  BY <1>2, <1>3, <1>4

\* Texts are ordered by strCmp (util.cpp, strCmp): no two different ones are
\* equal, of two one is the less, and less than less is less.
THEOREM StrCmpOrdersTexts == IsOrderOf(strCmp, Seq(Nat))
<1>1. SUFFICES ASSUME NEW a \in Seq(Nat), NEW b \in Seq(Nat)
               PROVE  /\ (strCmp(a, b) = 0) = (a = b)
                      /\ (strCmp(a, b) < 0) = (strCmp(b, a) > 0)
                      /\ \A c \in Seq(Nat) :
                             strCmp(a, b) < 0 /\ strCmp(b, c) < 0 => strCmp(a, c) < 0
  BY DEF IsOrderOf
<1>2. \A x \in Seq(Nat) : Len(x) \in Nat /\ DOMAIN x = 1 .. Len(x) /\ x \in [1 .. Len(x) -> Nat]
  OBVIOUS
<1>3. \A x, y : Differ(x, y) = Differ(y, x)
  BY DEF Differ
<1>4. \A x, y, i : FirstDiffers(x, y, i) <=> FirstDiffers(y, x, i)
  BY <1>3 DEF FirstDiffers
<1>5. \A x, y \in Seq(Nat) : \A i : FirstDiffers(x, y, i) =>
          i \in DOMAIN x /\ i \in DOMAIN y /\ x[i] # y[i] /\ x[i] \in Nat /\ y[i] \in Nat
  BY <1>2 DEF FirstDiffers, Differ
<1>6. \A x, y \in Seq(Nat) : Len(x) = Len(y) /\ x # y => \E i : FirstDiffers(x, y, i)
  BY SameOrDiffer
<1>7. ASSUME NEW x \in Seq(Nat), NEW y \in Seq(Nat)
      PROVE  strCmp(x, y) < 0 <=>
                 \/ Len(x) < Len(y)
                 \/ Len(x) = Len(y) /\ \E i : FirstDiffers(x, y, i) /\ x[i] < y[i]
  <2>1. CASE Len(x) # Len(y)
    <3>1. Len(x) \in Nat /\ Len(y) \in Nat
      BY <1>2
    <3>2. strCmp(x, y) = IF Len(x) < Len(y) THEN -1 ELSE 1
      BY <2>1, <3>1, StrCmpDecides
    <3> QED  BY <2>1, <3>1, <3>2
  <2>2. CASE x = y
    <3>1. \A i : ~FirstDiffers(x, y, i)
      BY <2>2 DEF FirstDiffers, Differ
    <3> QED  BY <1>2, <2>2, <3>1, StrCmpDecides
  <2>3. CASE Len(x) = Len(y) /\ x # y
    <3>1. PICK i : FirstDiffers(x, y, i)
      BY <1>6, <2>3
    <3>2. \A k : FirstDiffers(x, y, k) => k = i
      <4>1. Differ(x, y) \subseteq Nat
        BY <1>2 DEF Differ
      <4> QED  BY <3>1, <4>1 DEF FirstDiffers
    <3>3. strCmp(x, y) = IF x[i] < y[i] THEN -1 ELSE 1
      BY <2>3, <3>1, StrCmpDecides
    <3>4. Len(x) \in Nat /\ x[i] \in Nat /\ y[i] \in Nat
      BY <1>2, <1>5, <3>1
    <3>5. strCmp(x, y) < 0 <=> x[i] < y[i]
      BY <3>3, <3>4
    <3>6. (\E q : FirstDiffers(x, y, q) /\ x[q] < y[q]) <=> x[i] < y[i]
      BY <3>1, <3>2
    <3>7. ~(Len(x) < Len(y))
      BY <2>3, <3>4
    <3> QED  BY <2>3, <3>5, <3>6, <3>7
  <2> QED  BY <2>1, <2>2, <2>3
<1>8. strCmp(a, b) = 0 <=> a = b
  <2>1. CASE Len(a) # Len(b)
    BY <1>2, <2>1, StrCmpDecides
  <2>2. CASE a = b
    BY <2>2, StrCmpDecides
  <2>3. CASE Len(a) = Len(b) /\ a # b
    BY <1>6, <2>3, StrCmpDecides
  <2> QED  BY <2>1, <2>2, <2>3
<1>9. strCmp(a, b) < 0 <=> strCmp(b, a) > 0
  <2>1. CASE Len(a) # Len(b)
    BY <1>2, <2>1, StrCmpDecides
  <2>2. CASE a = b
    BY <2>2, StrCmpDecides
  <2>3. CASE Len(a) = Len(b) /\ a # b
    <3>1. PICK i : FirstDiffers(a, b, i) /\ FirstDiffers(b, a, i)
      BY <1>4, <1>6, <2>3
    <3> QED  BY <1>5, <2>3, <3>1, StrCmpDecides
  <2> QED  BY <2>1, <2>2, <2>3
<1>10. ASSUME NEW c \in Seq(Nat), strCmp(a, b) < 0, strCmp(b, c) < 0
       PROVE  strCmp(a, c) < 0
  <2>1. CASE Len(a) < Len(b) \/ Len(b) < Len(c)
    <3>1. Len(a) <= Len(b) /\ Len(b) <= Len(c)
      BY <1>2, <1>7, <1>10
    <3> QED  BY <1>2, <1>7, <2>1, <3>1
  <2>2. CASE ~(Len(a) < Len(b)) /\ ~(Len(b) < Len(c))
    <3>1. PICK i, j : /\ Len(a) = Len(b) /\ FirstDiffers(a, b, i) /\ a[i] < b[i]
                      /\ Len(b) = Len(c) /\ FirstDiffers(b, c, j) /\ b[j] < c[j]
      BY <1>7, <1>10, <2>2
    <3> DEFINE D == 1 .. Len(a)
               k == IF i <= j THEN i ELSE j
    <3>2. /\ Len(a) \in Nat /\ DOMAIN a = D /\ DOMAIN b = D /\ DOMAIN c = D
          /\ \A q \in D : a[q] \in Nat /\ b[q] \in Nat /\ c[q] \in Nat
      BY <1>2, <3>1
    <3>3. i \in D /\ j \in D /\ k \in D
      BY <3>1, <3>2 DEF FirstDiffers, Differ
    <3>4. ASSUME NEW q \in D
          PROVE  (q < i => a[q] = b[q]) /\ (q < j => b[q] = c[q])
      <4>1. q \in Differ(a, b) <=> a[q] # b[q]
        BY <3>2 DEF Differ
      <4>2. q \in Differ(b, c) <=> b[q] # c[q]
        BY <3>2 DEF Differ
      <4>3. (a[q] # b[q] => i <= q) /\ (b[q] # c[q] => j <= q)
        BY <3>1, <4>1, <4>2 DEF FirstDiffers
      <4>4. i \in Nat /\ j \in Nat /\ q \in Nat
        BY <3>3
      <4> QED  BY <4>3, <4>4
    <3>5. a[k] < c[k]
      <4>1. CASE i < j
        <5>1. k = i /\ b[i] = c[i]
          BY <3>3, <3>4, <4>1
        <5> QED  BY <3>1, <5>1
      <4>2. CASE j < i
        <5>1. k = j /\ a[j] = b[j]
          BY <3>3, <3>4, <4>2
        <5> QED  BY <3>1, <5>1
      <4>3. CASE i = j
        <5>1. k = i /\ a[i] \in Nat /\ b[i] \in Nat /\ c[i] \in Nat
          BY <3>2, <3>3, <4>3
        <5> QED  BY <3>1, <4>3, <5>1
      <4> QED  BY <3>3, <4>1, <4>2, <4>3
    <3>6. \A q \in D : q < k => a[q] = c[q]
      BY <3>3, <3>4
    <3>7. FirstDiffers(a, c, k)
      <4>1. k \in Nat /\ D \subseteq Nat
        BY <3>3
      <4> HIDE DEF k, D
      <4>2. Differ(a, c) = {q \in D : a[q] # c[q]}
        BY ONLY <3>2 DEF Differ
      <4>3. k \in Differ(a, c)
        <5>1. a[k] # c[k]
          BY <3>2, <3>3, <3>5
        <5> QED  BY <3>3, <4>2, <5>1
      <4>4. \A q \in Differ(a, c) : q \in Nat /\ ~(q < k)
        BY <3>6, <4>1, <4>2
      <4>5. \A q \in Differ(a, c) : k <= q
        BY <4>1, <4>4
      <4> QED  BY <4>3, <4>5 DEF FirstDiffers
    <3> QED  BY <1>7, <3>1, <3>5, <3>7
  <2> QED  BY <2>1, <2>2
<1> QED  BY <1>8, <1>9, <1>10

=============================================================================

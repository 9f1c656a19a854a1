-------------------------- MODULE MessageMemory_proofs --------------------------
(***************************************************************************)
(* What holds of the memory of the server for messages of any counts, any  *)
(* number of ids and names, files of any lines and a table of any size.    *)
(*                                                                         *)
(* The invariant is that every block that is there has one owner: what is  *)
(* permanent, an entry of the queue, the cache, the configuration, or what *)
(* was lost. Each operation is shown to give up some blocks for others and *)
(* to leave the rest alone (Turns); a handler is such operations one after *)
(* the other, at the end of which the message owns nothing any more.       *)
(***************************************************************************)
EXTENDS MessageMemory, Library_proofs

-----------------------------------------------------------------------------
(* The heap, and the table of heap_dbg.c                                   *)

\* What can be allocated.
Block == [ptr : Nat, type : {DATATYPE_OBJECT, DATATYPE_ARRAY}]

\* The blocks that are there have their own addresses, and nothing was released
\* wrongly. The table lists some of them, each once, and all until it overflowed.
MemOK(m) ==
    /\ m \in [live : SUBSET Block, heap : Seq(Block), overflowed : BOOLEAN,
              complained : BOOLEAN, wrong : BOOLEAN]
    /\ \A a, b \in m.live : a.ptr = b.ptr => a = b
    /\ \E top \in Nat : \A b \in m.live : b.ptr <= top
    /\ ~m.wrong
    /\ IsInjective(m.heap) /\ Range(m.heap) \subseteq m.live
    /\ Len(m.heap) <= HEAP_DBG_MAX_OBJECTS
    /\ ~m.overflowed => m.live \subseteq Range(m.heap) /\ ~m.complained

\* Blocks, none twice.
Clean(blocks) == blocks \in Seq(Block) /\ IsInjective(blocks)

\* The highest address, or 0.
LEMMA MaxPtr ==
    ASSUME NEW L \in SUBSET Block, NEW bound \in Nat, \A b \in L : b.ptr <= bound
    PROVE  /\ Max({0} \cup {b.ptr : b \in L}) \in Nat
           /\ \A c \in L : c.ptr <= Max({0} \cup {b.ptr : b \in L})
<1> DEFINE P == {0} \cup {b.ptr : b \in L}
           Upper == {n \in Nat : \A p \in P : p <= n}
<1>1. P \subseteq Nat
  BY DEF Block
<1>2. \A p \in P : p <= bound
  OBVIOUS
<1>3. PICK u \in Upper : \A n \in Upper : u <= n
  <2>1. bound \in Upper /\ Upper \subseteq Nat
    BY <1>2
  <2> HIDE DEF Upper
  <2> QED  BY <2>1, LeastNumber
<1>4. u \in P
  <2> SUFFICES ASSUME u \notin P PROVE FALSE
    OBVIOUS
  <2>1. u \in Nat /\ u # 0 /\ \A p \in P : p <= u /\ p # u
    BY <1>3
  <2>2. u - 1 \in Nat /\ ~(u <= u - 1) /\ \A p \in P : p <= u - 1
    <3> HIDE DEF P
    <3> QED  BY <1>1, <2>1
  <2>3. u - 1 \in Upper
    BY <2>2
  <2> HIDE DEF Upper
  <2> QED  BY <1>3, <2>2, <2>3
<1>5. \A p \in P : u >= p
  BY <1>1, <1>3
<1>6. Max(P) \in P /\ \A p \in P : Max(P) >= p
  <2> HIDE DEF P
  <2> QED  BY <1>4, <1>5, Zenon DEF Max
<1>7. \A b \in L : b.ptr \in P
  OBVIOUS
<1> HIDE DEF P
<1>8. \A p \in P : p \in Nat /\ p <= Max(P)
  BY <1>1, <1>6
<1> QED  BY <1>1, <1>6, <1>7, <1>8 DEF P

\* What a sequence without repetition begins with.
LEMMA PrefixClean ==
    ASSUME NEW S, NEW s \in Seq(S), IsInjective(s), NEW q \in 0 .. Len(s)
    PROVE  /\ SubSeq(s, 1, q) \in Seq(S) /\ Len(SubSeq(s, 1, q)) = q /\ IsInjective(SubSeq(s, 1, q))
           /\ Range(SubSeq(s, 1, q)) \subseteq Range(s)
           /\ q = Len(s) => SubSeq(s, 1, q) = s
<1>1. PICK t : t = SubSeq(s, 1, q)
  OBVIOUS
<1>2. Len(s) \in Nat /\ DOMAIN s = 1 .. Len(s) /\ \A i \in 1 .. Len(s) : s[i] \in S
  OBVIOUS
<1>3. t = [i \in 1 .. q |-> s[i]]
  BY <1>1, SubSeqProperties
<1>4. t \in Seq(S) /\ Len(t) = q /\ DOMAIN t = 1 .. q
  BY <1>2, <1>3
<1>5. \A i \in 1 .. q : i \in 1 .. Len(s) /\ t[i] = s[i]
  BY <1>2, <1>3
<1>6. IsInjective(t)
  BY <1>2, <1>4, <1>5, Zenon DEF IsInjective
<1>7. Range(t) \subseteq Range(s)
  BY <1>2, <1>4, <1>5, Zenon DEF Range
<1>8. q = Len(s) => t = s
  BY <1>2, <1>3
<1> QED  BY <1>1, <1>4, <1>6, <1>7, <1>8, Zenon

\* What is allocated is new, and noted as long as there are entries.
LEMMA NewOK ==
    ASSUME NEW m, MemOK(m), NEW types \in Seq({DATATYPE_OBJECT, DATATYPE_ARRAY})
    PROVE  /\ MemOK(New(m, types).memory)
           /\ New(m, types).memory.live = m.live \cup Range(New(m, types).blocks)
           /\ Clean(New(m, types).blocks) /\ Range(New(m, types).blocks) \cap m.live = {}
           /\ Len(New(m, types).blocks) = Len(types)
<1>1. PICK top : top = Max({0} \cup {b.ptr : b \in m.live})
  OBVIOUS
<1>2. top \in Nat /\ \A b \in m.live : b.ptr <= top
  BY <1>1, MaxPtr DEF MemOK
<1>3. PICK n : n = Len(types) /\ n \in Nat /\ DOMAIN types = 1 .. n
  OBVIOUS
<1>4. PICK bs : bs = [k \in DOMAIN types |-> [ptr |-> top + k, type |-> types[k]]]
  OBVIOUS
<1>5. /\ bs \in Seq(Block) /\ Len(bs) = n /\ DOMAIN bs = 1 .. n
      /\ \A k \in 1 .. n : bs[k].ptr = top + k
  <2>1. \A k \in 1 .. n : [ptr |-> top + k, type |-> types[k]] \in Block
    BY <1>2, <1>3 DEF Block
  <2> QED  BY <1>3, <1>4, <2>1
<1>6. IsInjective(bs)
  <2>1. \A i, j \in 1 .. n : top + i = top + j => i = j
    BY <1>2, <1>3
  <2>2. \A i, j \in 1 .. n : bs[i] = bs[j] => top + i = top + j
    BY <1>5
  <2>3. \A i, j \in DOMAIN bs : bs[i] = bs[j] => i = j
    BY ONLY <1>5, <2>1, <2>2
  <2> QED  BY <2>3, Zenon DEF IsInjective
<1>7. Range(bs) = {bs[k] : k \in 1 .. n} /\ Range(bs) \subseteq Block
  BY <1>5 DEF Range
<1>8. \A b \in Range(bs) : b.ptr > top /\ b.ptr <= top + n
  <2>1. \A k \in 1 .. n : top + k > top /\ top + k <= top + n
    BY <1>2, <1>3
  <2> QED  BY <1>5, <1>7, <2>1, Zenon
<1>9. Range(bs) \cap m.live = {}
  <2>1. \A b \in m.live : b.ptr \in Nat
    BY DEF MemOK, Block
  <2>2. \A b \in m.live : ~(b.ptr > top)
    BY <1>2, <2>1
  <2> QED  BY <1>8, <2>2
<1>10. PICK left, q : left = HEAP_DBG_MAX_OBJECTS - Len(m.heap) /\ q = Min({left, Len(bs)})
  OBVIOUS
<1>11. /\ left \in Nat /\ q \in 0 .. Len(bs) /\ q <= left
       /\ ~(Len(bs) > left) => q = Len(bs)
  <2>1. Len(m.heap) \in Nat /\ Len(m.heap) <= HEAP_DBG_MAX_OBJECTS
    BY DEF MemOK
  <2>2. left \in Nat
    BY <1>10, <2>1, HeapDbgAssumption
  <2>3. q = IF left <= Len(bs) THEN left ELSE Len(bs)
    BY <1>3, <1>5, <1>10, <2>2 DEF Min
  <2> QED  BY <1>3, <1>5, <2>2, <2>3
<1>12. PICK added : added = SubSeq(bs, 1, q)
  OBVIOUS
<1>13. /\ added \in Seq(Block) /\ Len(added) = q /\ IsInjective(added)
       /\ Range(added) \subseteq Range(bs)
       /\ q = Len(bs) => added = bs
  BY <1>5, <1>6, <1>11, <1>12, PrefixClean
<1>14. PICK heap : heap = m.heap \o added
  OBVIOUS
<1>15. /\ m.heap \in Seq(Block) /\ IsInjective(m.heap) /\ Range(m.heap) \subseteq m.live
       /\ Len(m.heap) \in Nat
  BY DEF MemOK
<1>16. heap \in Seq(Block) /\ IsInjective(heap) /\ Range(heap) = Range(m.heap) \cup Range(added)
  <2>1. Range(m.heap) \cap Range(added) = {}
    BY <1>9, <1>13, <1>15
  <2> QED  BY <1>13, <1>14, <1>15, <2>1, ConcatClean
<1>17. Len(heap) <= HEAP_DBG_MAX_OBJECTS
  <2>1. Len(heap) = Len(m.heap) + q
    BY <1>13, <1>14, <1>15, ConcatProperties
  <2> QED  BY <1>10, <1>11, <1>15, <2>1, HeapDbgAssumption
<1>18. PICK over : over = (m.overflowed \/ Len(bs) > left)
  OBVIOUS
<1>19. New(m, types) = [memory |-> [m EXCEPT !.live = @ \cup Range(bs), !.heap = heap,
                                            !.overflowed = over],
                       blocks |-> bs]
  <2>1. PICK r : r = [m EXCEPT !.live = @ \cup Range(bs)]
    OBVIOUS
  <2>2. r.heap = m.heap /\ r.overflowed = m.overflowed
    BY <2>1 DEF MemOK
  <2>3. heap_dbg_alloc(r, bs) = [r EXCEPT !.heap = heap, !.overflowed = over]
    BY <1>10, <1>12, <1>14, <1>18, <2>1, <2>2 DEF heap_dbg_alloc, MemOK
  <2>4. New(m, types) = [memory |-> heap_dbg_alloc(r, bs), blocks |-> bs]
    BY <1>1, <1>4, <2>1, Zenon DEF New
  <2>5. [r EXCEPT !.heap = heap, !.overflowed = over]
        = [m EXCEPT !.live = @ \cup Range(bs), !.heap = heap, !.overflowed = over]
    BY <2>1 DEF MemOK
  <2> QED  BY <2>3, <2>4, <2>5, Zenon
<1>20. PICK r : r = [m EXCEPT !.live = @ \cup Range(bs), !.heap = heap, !.overflowed = over]
  OBVIOUS
<1>21. /\ r.live = m.live \cup Range(bs) /\ r.heap = heap /\ r.overflowed = over
       /\ r.complained = m.complained /\ r.wrong = m.wrong
  BY <1>20 DEF MemOK
<1>22. MemOK(r)
  <2>1. r \in [live : SUBSET Block, heap : Seq(Block), overflowed : BOOLEAN,
               complained : BOOLEAN, wrong : BOOLEAN]
    BY <1>7, <1>16, <1>18, <1>20 DEF MemOK
  <2>2. \A a, b \in r.live : a.ptr = b.ptr => a = b
    <3>1. \A a, b \in m.live : a.ptr = b.ptr => a = b
      BY DEF MemOK
    <3>2. \A a, b \in Range(bs) : a.ptr = b.ptr => a = b
      <4>1. \A i, j \in 1 .. n : top + i = top + j => i = j
        BY <1>2, <1>3
      <4> QED  BY <1>5, <1>7, <4>1
    <3>3. \A a \in m.live, b \in Range(bs) : a.ptr # b.ptr
      <4>1. \A a \in m.live : a.ptr \in Nat
        BY DEF MemOK, Block
      <4> QED  BY <1>2, <1>7, <1>8, <4>1 DEF Block
    <3> QED  BY <1>21, <3>1, <3>2, <3>3
  <2>3. \E t \in Nat : \A b \in r.live : b.ptr <= t
    <3>1. top + n \in Nat
      BY <1>2, <1>3
    <3>2. \A b \in r.live : b.ptr <= top + n
      <4>1. \A b \in m.live : b.ptr \in Nat
        BY DEF MemOK, Block
      <4>2. \A b \in m.live : b.ptr <= top + n
        BY <1>2, <1>3, <4>1
      <4> QED  BY <1>8, <1>21, <4>2
    <3> QED  BY <3>1, <3>2
  <2>4. ~r.wrong
    BY <1>21 DEF MemOK
  <2>5. Range(r.heap) \subseteq r.live
    BY <1>13, <1>15, <1>16, <1>21
  <2>6. ~r.overflowed => r.live \subseteq Range(r.heap) /\ ~r.complained
    <3> SUFFICES ASSUME ~over PROVE r.live \subseteq Range(heap) /\ ~m.complained
      BY <1>21
    <3>1. ~m.overflowed /\ added = bs
      BY <1>11, <1>13, <1>18
    <3>2. m.live \subseteq Range(m.heap) /\ ~m.complained
      BY <3>1 DEF MemOK
    <3> QED  BY <1>16, <1>21, <3>1, <3>2
  <2> QED  BY <1>16, <1>17, <1>21, <2>1, <2>2, <2>3, <2>4, <2>5, <2>6 DEF MemOK
<1>23. New(m, types).memory = r /\ New(m, types).blocks = bs
  BY <1>19, <1>20
<1> QED  BY <1>3, <1>5, <1>6, <1>9, <1>21, <1>22, <1>23 DEF Clean

\* The last item in the place of the one that goes.
LastMoved(s, i, t, n) ==
    /\ n = Len(s) /\ n \in Nat /\ n - 1 \in Nat /\ Len(t) = n - 1 /\ DOMAIN t = 1 .. n - 1
    /\ \A k \in 1 .. n - 1 : k \in 1 .. n /\ t[k] = IF k = i THEN s[n] ELSE s[k]

\* What Front leaves when the last item has been moved to i.
LEMMA LastMoves ==
    ASSUME NEW S, NEW s \in Seq(S), NEW i \in 1 .. Len(s)
    PROVE  /\ Front([s EXCEPT ![i] = Last(s)]) \in Seq(S)
           /\ LastMoved(s, i, Front([s EXCEPT ![i] = Last(s)]), Len(s))
<1>0. PICK t : t = Front([s EXCEPT ![i] = Last(s)])
  OBVIOUS
<1>1. PICK n : n = Len(s) /\ n \in Nat /\ n \in 1 .. n /\ n - 1 \in 0 .. n /\ n - 1 \in Nat
  OBVIOUS
<1>2. PICK u : u = [s EXCEPT ![i] = s[n]]
  OBVIOUS
<1>3. u \in Seq(S) /\ Len(u) = n /\ \A k \in 1 .. n : u[k] = IF k = i THEN s[n] ELSE s[k]
  BY <1>1, <1>2
<1>4. t = SubSeq(u, 1, n - 1)
  BY <1>0, <1>1, <1>2, <1>3, Zenon DEF Front, Last
<1>5. t = [k \in 1 .. n - 1 |-> u[k]]
  <2>1. PICK q : q = n - 1 /\ q \in 0 .. Len(u)
    BY <1>1, <1>3
  <2>2. SubSeq(u, 1, q) = [k \in 1 .. q |-> u[k]]
    BY ONLY <1>3, <2>1, SubSeqProperties
  <2> QED  BY <1>4, <2>1, <2>2
<1>6. \A k \in 1 .. n - 1 : k \in 1 .. n /\ u[k] \in S
  BY <1>1, <1>3
<1>7. t \in Seq(S) /\ Len(t) = n - 1 /\ DOMAIN t = 1 .. n - 1
  <2>1. PICK q : q = n - 1 /\ q \in Nat
    BY <1>1
  <2>2. t = [k \in 1 .. q |-> u[k]] /\ \A k \in 1 .. q : u[k] \in S
    BY <1>5, <1>6, <2>1
  <2>3. t \in Seq(S) /\ Len(t) = q /\ DOMAIN t = 1 .. q
    BY ONLY <2>1, <2>2
  <2> QED  BY <2>1, <2>3
<1>8. \A k \in 1 .. n - 1 : k \in 1 .. n /\ t[k] = IF k = i THEN s[n] ELSE s[k]
  BY <1>3, <1>5, <1>6
<1> QED  BY <1>0, <1>1, <1>7, <1>8, Zenon DEF LastMoved

\* An entry that goes is replaced by the last one: no other goes (heap_dbg_free).
LEMMA WithoutOK ==
    ASSUME NEW S, NEW s \in Seq(S), IsInjective(s), NEW i \in 1 .. Len(s)
    PROVE  /\ Without(s, i) \in Seq(S) /\ IsInjective(Without(s, i))
           /\ Range(Without(s, i)) = Range(s) \ {s[i]} /\ Len(Without(s, i)) = Len(s) - 1
<1>1. PICK t, n : t = Without(s, i) /\ n = Len(s) /\ n \in Nat /\ DOMAIN s = 1 .. n
  OBVIOUS
<1>2. t \in Seq(S) /\ LastMoved(s, i, t, n)
  BY <1>1, LastMoves, Zenon DEF Without
<1>3. \A k, j \in 1 .. n : s[k] = s[j] => k = j
  BY <1>1, Zenon DEF IsInjective
<1>4. n \in 1 .. n /\ i \in 1 .. n /\ \A k \in 1 .. n - 1 : k # n
  BY <1>1
<1>10. /\ Len(t) = n - 1 /\ DOMAIN t = 1 .. n - 1
       /\ \A k \in 1 .. n - 1 : k \in 1 .. n /\ t[k] = IF k = i THEN s[n] ELSE s[k]
  BY <1>2 DEF LastMoved
<1>5. ASSUME NEW k \in 1 .. n - 1, NEW j \in 1 .. n - 1, t[k] = t[j]
      PROVE  k = j
  BY <1>10, <1>3, <1>4, <1>5
<1>6. Range(t) = {t[k] : k \in 1 .. n - 1} /\ Range(s) = {s[k] : k \in 1 .. n}
  BY <1>1, <1>10, Zenon DEF Range
<1>7. ASSUME NEW k \in 1 .. n - 1 PROVE t[k] \in Range(s) \ {s[i]}
  <2>1. t[k] = IF k = i THEN s[n] ELSE s[k]
    BY <1>10
  <2> QED  BY <1>10, <1>3, <1>4, <1>6, <2>1
<1>8. ASSUME NEW k \in 1 .. n, k # i PROVE s[k] \in Range(t)
  <2>1. CASE k = n
    <3>1. i \in 1 .. n - 1
      BY <1>1, <1>8, <2>1
    <3> QED  BY <1>10, <1>6, <2>1, <3>1
  <2>2. CASE k # n
    <3>1. k \in 1 .. n - 1
      BY <1>1, <2>2
    <3> QED  BY <1>10, <1>6, <1>8, <3>1
  <2> QED  BY <2>1, <2>2
<1>9. Range(t) = Range(s) \ {s[i]}
  BY <1>6, <1>7, <1>8
<1> QED  BY <1>1, <1>2, <1>10, <1>5, <1>9 DEF IsInjective

\* get_id finds the entry of a block that is there, or there is none.
LEMMA GetIdOK ==
    ASSUME NEW m, MemOK(m), NEW b \in m.live, NEW r, r.heap = m.heap
    PROVE  \/ get_id(r, b.ptr) = 0 /\ b \notin Range(m.heap)
           \/ get_id(r, b.ptr) \in 1 .. Len(m.heap) /\ m.heap[get_id(r, b.ptr)] = b
<1> DEFINE I == {i \in 1 .. Len(m.heap) : m.heap[i].ptr = b.ptr}
<1>1. /\ m.heap \in Seq(Block) /\ DOMAIN m.heap = 1 .. Len(m.heap)
      /\ \A i \in 1 .. Len(m.heap) : m.heap[i] \in m.live
      /\ \A x, y \in m.live : x.ptr = y.ptr => x = y
  BY DEF MemOK, Range
<1>2. get_id(r, b.ptr) = IF I # {} THEN Min(I) ELSE 0
  BY DEF get_id, SelectInSeq
<1>3. CASE I = {}
  <2>1. b \notin Range(m.heap)
    BY <1>1, <1>3 DEF Range
  <2> QED  BY <1>2, <1>3, <2>1
<1>4. CASE I # {}
  <2>1. I \subseteq Nat
    OBVIOUS
  <2>2. Min(I) \in I
    <3> HIDE DEF I
    <3> QED  BY <1>4, <2>1, LeastNumber DEF Min
  <2> QED  BY <1>1, <1>2, <1>4, <2>2
<1> QED  BY <1>3, <1>4

\* A block that is there is released, and its entry goes.
LEMMA ReleasedOK ==
    ASSUME NEW m, MemOK(m), NEW b \in m.live
    PROVE  MemOK(Released(m, b)) /\ Released(m, b).live = m.live \ {b}
<1>1. PICK r : r = [m EXCEPT !.live = @ \ {b}, !.wrong = @ \/ b \notin m.live]
  OBVIOUS
<1>2. /\ r.live = m.live \ {b} /\ r.heap = m.heap /\ r.overflowed = m.overflowed
      /\ r.complained = m.complained /\ ~r.wrong
      /\ r \in [live : SUBSET Block, heap : Seq(Block), overflowed : BOOLEAN,
                complained : BOOLEAN, wrong : BOOLEAN]
  BY <1>1 DEF MemOK
<1>3. PICK i : i = get_id(r, b.ptr)
  OBVIOUS
<1>4. (i = 0 /\ b \notin Range(m.heap)) \/ (i \in 1 .. Len(m.heap) /\ m.heap[i] = b)
  BY <1>2, <1>3, GetIdOK
<1>5. /\ \A x, y \in r.live : x.ptr = y.ptr => x = y
      /\ \E top \in Nat : \A x \in r.live : x.ptr <= top
  BY <1>2 DEF MemOK
<1>6. Released(m, b) = IF i = 0 THEN [r EXCEPT !.complained = TRUE]
                       ELSE [r EXCEPT !.heap = Without(@, i),
                                      !.complained = @ \/ r.heap[i].type # b.type]
  BY <1>1, <1>3 DEF Released, heap_dbg_free
<1>7. CASE i = 0
  <2>1. PICK q : q = [r EXCEPT !.complained = TRUE]
    OBVIOUS
  <2>2. /\ q.live = m.live \ {b} /\ q.heap = m.heap /\ q.overflowed = m.overflowed
        /\ ~q.wrong
        /\ q \in [live : SUBSET Block, heap : Seq(Block), overflowed : BOOLEAN,
                  complained : BOOLEAN, wrong : BOOLEAN]
    BY <1>2, <2>1
  <2>3. b \notin Range(m.heap)
    BY <1>4, <1>7
  <2>4. m.overflowed
    BY <2>3 DEF MemOK
  <2>5. Range(q.heap) \subseteq q.live
    BY <2>2, <2>3 DEF MemOK
  <2>6. MemOK(q)
    BY <1>2, <1>5, <2>2, <2>4, <2>5 DEF MemOK
  <2> QED  BY <1>6, <1>7, <2>1, <2>2, <2>6
<1>8. CASE i \in 1 .. Len(m.heap)
  <2>1. i # 0 /\ m.heap[i] = b
    BY <1>4, <1>8
  <2>2. PICK heap : heap = Without(m.heap, i)
    OBVIOUS
  <2>3. /\ heap \in Seq(Block) /\ IsInjective(heap) /\ Range(heap) = Range(m.heap) \ {b}
        /\ Len(heap) = Len(m.heap) - 1
    BY <1>8, <2>1, <2>2, WithoutOK DEF MemOK
  <2>4. PICK q : q = [r EXCEPT !.heap = heap]
    OBVIOUS
  <2>5. /\ q.live = m.live \ {b} /\ q.heap = heap /\ q.overflowed = m.overflowed
        /\ q.complained = m.complained /\ ~q.wrong
        /\ q \in [live : SUBSET Block, heap : Seq(Block), overflowed : BOOLEAN,
                  complained : BOOLEAN, wrong : BOOLEAN]
    BY <1>2, <2>3, <2>4
  <2>6. Released(m, b) = q
    <3>1. (r.complained \/ r.heap[i].type # b.type) = r.complained
      BY <1>2, <2>1
    <3>2. [r EXCEPT !.heap = Without(@, i), !.complained = @ \/ r.heap[i].type # b.type] = q
      BY <1>2, <2>2, <2>4, <3>1
    <3> QED  BY <1>6, <2>1, <3>2
  <2>7. Len(heap) <= HEAP_DBG_MAX_OBJECTS
    <3>1. Len(m.heap) <= HEAP_DBG_MAX_OBJECTS /\ Len(m.heap) \in Nat
      BY DEF MemOK
    <3> QED  BY <2>3, <3>1, HeapDbgAssumption
  <2>8. Range(heap) \subseteq m.live \ {b}
    BY <2>3 DEF MemOK
  <2>9. ~m.overflowed => m.live \ {b} \subseteq Range(heap) /\ ~m.complained
    BY <2>3 DEF MemOK
  <2>10. MemOK(q)
    BY <1>2, <1>5, <2>3, <2>5, <2>7, <2>8, <2>9 DEF MemOK
  <2> QED  BY <2>5, <2>6, <2>10
<1> QED  BY <1>4, <1>7, <1>8

\* What the recursion of Delete is for n blocks.
Deletes(f, m, blocks, n) ==
    f = [k \in 0 .. n |-> IF k = 0 THEN m ELSE Released(f[k - 1], blocks[k])]

\* The recursion of Delete is that of a function, for any blocks.
LEMMA DeletesExist ==
    ASSUME NEW m, NEW blocks, NEW n \in Nat
    PROVE  \E f : Deletes(f, m, blocks, n)
<1> DEFINE T == {k \in Nat : \E f : Deletes(f, m, blocks, k)}
<1>1. 0 \in T
  <2> DEFINE f == [k \in 0 .. 0 |-> m]
  <2>1. f = [k \in 0 .. 0 |-> IF k = 0 THEN m ELSE Released(f[k - 1], blocks[k])]
    OBVIOUS
  <2> HIDE DEF f
  <2> QED  BY <2>1 DEF Deletes
<1>2. ASSUME NEW k \in 0 .. n - 1, k \in T PROVE k + 1 \in T
  <2>1. PICK f : Deletes(f, m, blocks, k)
    BY <1>2
  <2>2. f = [j \in 0 .. k |-> IF j = 0 THEN m ELSE Released(f[j - 1], blocks[j])]
    BY <2>1 DEF Deletes
  <2> DEFINE g == [j \in 0 .. k + 1 |-> IF j = k + 1 THEN Released(f[k], blocks[k + 1]) ELSE f[j]]
  <2>3. ASSUME NEW j \in 0 .. k + 1
        PROVE  g[j] = IF j = 0 THEN m ELSE Released(g[j - 1], blocks[j])
    <3>1. CASE j = k + 1
      <4>1. j # 0 /\ j - 1 = k /\ k \in 0 .. k + 1 /\ k # k + 1
        BY <3>1
      <4>2. g[j - 1] = f[k]
        BY <4>1
      <4> QED  BY <3>1, <4>1, <4>2
    <3>2. CASE j # k + 1
      <4>1. j \in 0 .. k /\ (j # 0 => j - 1 \in 0 .. k + 1 /\ j - 1 # k + 1)
        BY <3>2
      <4>2. g[j] = f[j] /\ (j # 0 => g[j - 1] = f[j - 1])
        BY <3>2, <4>1
      <4> HIDE DEF g
      <4> QED  BY <2>2, <4>1, <4>2
    <3> QED  BY <3>1, <3>2
  <2>4. g = [j \in 0 .. k + 1 |-> IF j = 0 THEN m ELSE Released(g[j - 1], blocks[j])]
    BY <2>3
  <2> HIDE DEF g
  <2> QED  BY <2>4 DEF Deletes
<1>3. \A k \in 0 .. n : k \in T
  <2> HIDE DEF T
  <2> QED  BY <1>1, <1>2, UpTo
<1> QED  BY <1>3

\* Blocks that are there are released, and nothing else.
LEMMA DeleteOK ==
    ASSUME NEW m, MemOK(m), NEW blocks, Clean(blocks), Range(blocks) \subseteq m.live
    PROVE  MemOK(Delete(m, blocks)) /\ Delete(m, blocks).live = m.live \ Range(blocks)
<1>1. PICK n : n = Len(blocks) /\ n \in Nat /\ DOMAIN blocks = 1 .. n
  BY DEF Clean
<1> DEFINE f == CHOOSE f : Deletes(f, m, blocks, Len(blocks))
<1>2. Deletes(f, m, blocks, n)
  BY <1>1, DeletesExist
<1>3. Delete(m, blocks) = f[n]
  BY <1>1, Zenon DEF Delete, Deletes
<1> HIDE DEF f
<1>4. f = [k \in 0 .. n |-> IF k = 0 THEN m ELSE Released(f[k - 1], blocks[k])]
  BY <1>2 DEF Deletes
<1> DEFINE Gone(k) == {blocks[i] : i \in 1 .. k}
           T == {k \in 0 .. n : MemOK(f[k]) /\ f[k].live = m.live \ Gone(k)}
<1>5. 0 \in T
  <2>1. f[0] = m /\ Gone(0) = {} /\ 0 \in 0 .. n
    BY <1>1, <1>4
  <2> QED  BY <2>1
<1>6. ASSUME NEW k \in 0 .. n - 1, k \in T PROVE k + 1 \in T
  <2>1. /\ k + 1 \in 0 .. n /\ k + 1 # 0 /\ (k + 1) - 1 = k /\ k + 1 \in 1 .. n
        /\ \A i \in 1 .. k : i \in 1 .. n /\ i # k + 1
        /\ \A i \in 1 .. k + 1 : i \in 1 .. k \/ i = k + 1
        /\ \A i \in 1 .. k : i \in 1 .. k + 1
        /\ k + 1 \in 1 .. k + 1
    BY <1>1
  <2>2. f[k + 1] = Released(f[k], blocks[k + 1])
    BY <1>4, <2>1
  <2>3. \A i, j \in 1 .. n : blocks[i] = blocks[j] => i = j
    BY <1>1, Zenon DEF Clean, IsInjective
  <2>4. blocks[k + 1] \in m.live
    BY <1>1, <2>1 DEF Range
  <2>5. blocks[k + 1] \notin Gone(k)
    BY <2>1, <2>3
  <2>6. MemOK(f[k]) /\ f[k].live = m.live \ Gone(k)
    BY <1>6
  <2>7. MemOK(f[k + 1]) /\ f[k + 1].live = (m.live \ Gone(k)) \ {blocks[k + 1]}
    BY <2>2, <2>4, <2>5, <2>6, ReleasedOK
  <2>8. Gone(k + 1) = Gone(k) \cup {blocks[k + 1]}
    BY <2>1
  <2> QED  BY <2>1, <2>7, <2>8
<1>7. n \in T
  <2>1. \A k \in 0 .. n : k \in T
    <3> HIDE DEF T
    <3> QED  BY <1>1, <1>5, <1>6, UpTo
  <2> QED  BY <1>1, <2>1
<1>8. Range(blocks) = Gone(n)
  BY <1>1 DEF Range
<1> QED  BY <1>3, <1>7, <1>8

-----------------------------------------------------------------------------
(* Lists of objects, and messages                                          *)

\* Objects that share no block.
Items(items) == items \in Seq(Seq(Block)) /\ AllApart(items)

ListOK(list) ==
    /\ list = [array |-> list.array, items |-> list.items]
    /\ Clean(list.array) /\ Items(list.items)
    /\ Range(list.array) \cap InAll(list.items) = {}

ListHolds(list) == Range(list.array) \cup InAll(list.items)

\* Four lists that share no block.
ListsOK(lists) ==
    /\ DOMAIN lists = 1 .. 4
    /\ \A k \in 1 .. 4 : ListOK(lists[k])
    /\ \A j, k \in 1 .. 4 : j # k => ListHolds(lists[j]) \cap ListHolds(lists[k]) = {}

ListsHold(lists) ==
    ListHolds(lists[1]) \cup ListHolds(lists[2]) \cup ListHolds(lists[3]) \cup ListHolds(lists[4])

\* From m to r, the blocks A have been given up for the blocks B, and all others
\* have stayed.
Turns(m, A, r, B) ==
    MemOK(r) /\ r.live = (m.live \ A) \cup B /\ (m.live \ A) \cap B = {}

\* The list of which there is nothing.
LEMMA NoListOK == ListOK(NoList) /\ ListHolds(NoList) = {}
<1>1. <<>> \in Seq(Block) /\ IsInjective(<<>>) /\ Range(<<>>) = {}
  BY DEF IsInjective, Range
<1>2. <<>> \in Seq(Seq(Block)) /\ Len(<<>>) = 0 /\ AllApart(<<>>) /\ InAll(<<>>) = {}
  BY DEF AllApart, InAll
<1>3. NoList.array = <<>> /\ NoList.items = <<>> /\ NoList = [array |-> NoList.array, items |-> NoList.items]
  BY DEF NoList
<1> QED  BY <1>1, <1>2, <1>3, Zenon DEF ListOK, ListHolds, Clean, Items

\* What FreeList releases are the blocks of the list, each once.
LEMMA BlocksOfOK ==
    ASSUME NEW list, ListOK(list)
    PROVE  Clean(BlocksOf(list)) /\ Range(BlocksOf(list)) = ListHolds(list)
<1>1. PICK a, b : a = FlattenSeq(list.items) /\ b = list.array
  OBVIOUS
<1>2. a \in Seq(Block) /\ IsInjective(a) /\ Range(a) = InAll(list.items)
  BY <1>1, FlattenClean DEF ListOK, Items
<1>3. b \in Seq(Block) /\ IsInjective(b) /\ Range(b) = Range(list.array)
  BY <1>1 DEF ListOK, Clean
<1>4. Range(a) \cap Range(b) = {}
  BY <1>2, <1>3 DEF ListOK
<1>5. a \o b \in Seq(Block) /\ IsInjective(a \o b) /\ Range(a \o b) = Range(a) \cup Range(b)
  BY <1>2, <1>3, <1>4, ConcatClean
<1>6. BlocksOf(list) = a \o b
  BY <1>1 DEF BlocksOf
<1> QED  BY <1>2, <1>3, <1>5, <1>6 DEF Clean, ListHolds

\* FreeList releases what the list holds, and nothing else.
LEMMA FreeListOK ==
    ASSUME NEW m, MemOK(m), NEW list, ListOK(list), ListHolds(list) \subseteq m.live
    PROVE  MemOK(FreeList(m, list)) /\ FreeList(m, list).live = m.live \ ListHolds(list)
BY BlocksOfOK, DeleteOK DEF FreeList

\* So do four lists that share nothing: FreeMemory and Clear.
LEMMA FreeListsOK ==
    ASSUME NEW m, MemOK(m), NEW lists, ListsOK(lists), ListsHold(lists) \subseteq m.live
    PROVE  MemOK(FreeLists(m, lists)) /\ FreeLists(m, lists).live = m.live \ ListsHold(lists)
<1>1. PICK h1, h2, h3, h4 : /\ h1 = ListHolds(lists[1]) /\ h2 = ListHolds(lists[2])
                            /\ h3 = ListHolds(lists[3]) /\ h4 = ListHolds(lists[4])
  OBVIOUS
<1>2. /\ ListOK(lists[1]) /\ ListOK(lists[2]) /\ ListOK(lists[3]) /\ ListOK(lists[4])
      /\ h1 \cap h2 = {} /\ h1 \cap h3 = {} /\ h1 \cap h4 = {}
      /\ h2 \cap h3 = {} /\ h2 \cap h4 = {} /\ h3 \cap h4 = {}
  BY <1>1 DEF ListsOK
<1>3. ListsHold(lists) = h1 \cup h2 \cup h3 \cup h4
  BY <1>1 DEF ListsHold
<1>4. PICK m1 : m1 = FreeList(m, lists[1])
  OBVIOUS
<1>5. MemOK(m1) /\ m1.live = m.live \ h1
  BY <1>1, <1>2, <1>3, <1>4, FreeListOK
<1>6. PICK m2 : m2 = FreeList(m1, lists[2])
  OBVIOUS
<1>7. MemOK(m2) /\ m2.live = m1.live \ h2
  <2>1. h2 \subseteq m1.live
    BY <1>2, <1>3, <1>5
  <2> QED  BY <1>1, <1>2, <1>5, <1>6, <2>1, FreeListOK
<1>8. PICK m3 : m3 = FreeList(m2, lists[3])
  OBVIOUS
<1>9. MemOK(m3) /\ m3.live = m2.live \ h3
  <2>1. h3 \subseteq m2.live
    BY <1>2, <1>3, <1>5, <1>7
  <2> QED  BY <1>1, <1>2, <1>7, <1>8, <2>1, FreeListOK
<1>10. PICK m4 : m4 = FreeList(m3, lists[4])
  OBVIOUS
<1>11. MemOK(m4) /\ m4.live = m3.live \ h4
  <2>1. h4 \subseteq m3.live
    BY <1>2, <1>3, <1>5, <1>7, <1>9
  <2> QED  BY <1>1, <1>2, <1>9, <1>10, <2>1, FreeListOK
<1>12. FreeLists(m, lists) = m4
  BY <1>4, <1>6, <1>8, <1>10 DEF FreeLists
<1> QED  BY <1>3, <1>5, <1>7, <1>9, <1>11, <1>12

\* One more object.
LEMMA ItemAdded ==
    ASSUME NEW items, Items(items), NEW o, Clean(o), Range(o) \cap InAll(items) = {}
    PROVE  /\ Items(Append(items, o)) /\ InAll(Append(items, o)) = InAll(items) \cup Range(o)
           /\ Len(Append(items, o)) = Len(items) + 1
<1>0. Len(items) \in Nat
  BY DEF Items
<1>1. PICK t, n : t = Append(items, o) /\ n = Len(items) /\ n \in Nat
  BY <1>0, Zenon
<1>2. /\ t \in Seq(Seq(Block)) /\ Len(t) = n + 1
      /\ \A k \in 1 .. n : t[k] = items[k]
      /\ t[n + 1] = o
  BY <1>1 DEF Items, Clean
<1>3. /\ \A k \in 1 .. n + 1 : k \in 1 .. n \/ k = n + 1
      /\ \A k \in 1 .. n : k \in 1 .. n + 1 /\ k # n + 1
      /\ n + 1 \in 1 .. n + 1
  BY <1>1
<1>4. InAll(t) = InAll(items) \cup Range(o)
  <2>1. InAll(t) = UNION {Range(t[k]) : k \in 1 .. n + 1}
    BY <1>2 DEF InAll
  <2>2. InAll(items) = UNION {Range(items[k]) : k \in 1 .. n}
    BY <1>1 DEF InAll
  <2> QED  BY <1>2, <1>3, <2>1, <2>2
<1>5. \A k \in 1 .. n : Range(items[k]) \cap Range(o) = {}
  <2>1. \A k \in 1 .. n : Range(items[k]) \subseteq InAll(items)
    BY <1>1 DEF InAll
  <2> QED  BY <2>1
<1>6. AllApart(t)
  <2>1. \A k \in 1 .. n : IsInjective(items[k])
    BY <1>1 DEF Items, AllApart
  <2>2. \A j, k \in 1 .. n : j # k => Range(items[j]) \cap Range(items[k]) = {}
    BY <1>1 DEF Items, AllApart
  <2>3. \A k \in 1 .. n + 1 : IsInjective(t[k])
    BY <1>2, <1>3, <2>1 DEF Clean
  <2>4. \A j, k \in 1 .. n + 1 : j # k => Range(t[j]) \cap Range(t[k]) = {}
    BY <1>2, <1>3, <1>5, <2>2
  <2> QED  BY <1>2, <2>3, <2>4 DEF AllApart
<1> QED  BY <1>1, <1>2, <1>4, <1>6 DEF Items

\* The recursion of NewObjects, for n objects.
OneObject(r, shape) ==
    [memory |-> New(r.memory, shape).memory,
     objects |-> Append(r.objects, New(r.memory, shape).blocks)]

Makes(f, m, n, shape) ==
    f = [k \in 0 .. n |-> IF k = 0 THEN [memory |-> m, objects |-> <<>>]
                          ELSE OneObject(f[k - 1], shape)]

\* The recursion of NewObjects is that of a function, for any number.
LEMMA MakesExist ==
    ASSUME NEW m, NEW n \in Nat, NEW shape
    PROVE  \E f : Makes(f, m, n, shape)
<1> DEFINE T == {k \in Nat : \E f : Makes(f, m, k, shape)}
           Start == [memory |-> m, objects |-> <<>>]
<1>1. 0 \in T
  <2> DEFINE f == [k \in 0 .. 0 |-> Start]
  <2>1. f = [k \in 0 .. 0 |-> IF k = 0 THEN Start ELSE OneObject(f[k - 1], shape)]
    OBVIOUS
  <2> HIDE DEF f
  <2> QED  BY <2>1 DEF Makes
<1> HIDE DEF Start
<1>2. ASSUME NEW k \in 0 .. n - 1, k \in T PROVE k + 1 \in T
  <2>1. PICK f : Makes(f, m, k, shape)
    BY <1>2
  <2>2. f = [j \in 0 .. k |-> IF j = 0 THEN Start ELSE OneObject(f[j - 1], shape)]
    BY <2>1 DEF Makes, Start
  <2> DEFINE g == [j \in 0 .. k + 1 |-> IF j = k + 1 THEN OneObject(f[k], shape) ELSE f[j]]
  <2>3. ASSUME NEW j \in 0 .. k + 1
        PROVE  g[j] = IF j = 0 THEN Start ELSE OneObject(g[j - 1], shape)
    <3>1. CASE j = k + 1
      <4>1. j # 0 /\ j - 1 = k /\ k \in 0 .. k + 1 /\ k # k + 1
        BY <3>1
      <4>2. g[j - 1] = f[k]
        BY <4>1
      <4> QED  BY <3>1, <4>1, <4>2
    <3>2. CASE j # k + 1
      <4>1. j \in 0 .. k /\ (j # 0 => j - 1 \in 0 .. k + 1 /\ j - 1 # k + 1)
        BY <3>2
      <4>2. g[j] = f[j] /\ (j # 0 => g[j - 1] = f[j - 1])
        BY <3>2, <4>1
      <4> HIDE DEF g
      <4> QED  BY <2>2, <4>1, <4>2
    <3> QED  BY <3>1, <3>2
  <2>4. g = [j \in 0 .. k + 1 |-> IF j = 0 THEN Start ELSE OneObject(g[j - 1], shape)]
    BY <2>3
  <2> HIDE DEF g
  <2> QED  BY <2>4 DEF Makes, Start
<1>3. \A k \in 0 .. n : k \in T
  <2> HIDE DEF T
  <2> QED  BY <1>1, <1>2, UpTo
<1> QED  BY <1>3

\* n new objects share nothing, with each other or with what was there.
LEMMA NewObjectsOK ==
    ASSUME NEW m, MemOK(m), NEW n \in Nat, NEW shape \in Seq({DATATYPE_OBJECT, DATATYPE_ARRAY})
    PROVE  /\ Items(NewObjects(m, n, shape).objects)
           /\ Turns(m, {}, NewObjects(m, n, shape).memory, InAll(NewObjects(m, n, shape).objects))
<1> DEFINE f == CHOOSE f : Makes(f, m, n, shape)
<1>1. Makes(f, m, n, shape)
  BY MakesExist
<1>2. NewObjects(m, n, shape) = f[n]
  BY Zenon DEF NewObjects, Makes, OneObject
<1> HIDE DEF f
<1>3. f = [k \in 0 .. n |-> IF k = 0 THEN [memory |-> m, objects |-> <<>>]
                            ELSE OneObject(f[k - 1], shape)]
  BY <1>1 DEF Makes
<1> DEFINE Good(r) == Items(r.objects) /\ Turns(m, {}, r.memory, InAll(r.objects))
           T == {k \in 0 .. n : Good(f[k])}
<1>4. 0 \in T
  <2>1. f[0].memory = m /\ f[0].objects = <<>> /\ 0 \in 0 .. n
    BY <1>3
  <2>2. Items(<<>>) /\ InAll(<<>>) = {}
    BY DEF Items, AllApart, InAll
  <2>3. Turns(m, {}, m, {})
    BY DEF Turns
  <2> QED  BY <2>1, <2>2, <2>3
<1>5. ASSUME NEW k \in 0 .. n - 1, k \in T PROVE k + 1 \in T
  <2>1. PICK r : r = f[k]
    OBVIOUS
  <2>2. Items(r.objects) /\ Turns(m, {}, r.memory, InAll(r.objects))
    BY <1>5, <2>1
  <2>3. k + 1 \in 0 .. n /\ k + 1 # 0 /\ (k + 1) - 1 = k
    OBVIOUS
  <2>4. PICK mem, o : mem = New(r.memory, shape).memory /\ o = New(r.memory, shape).blocks
    OBVIOUS
  <2>5. f[k + 1] = [memory |-> mem, objects |-> Append(r.objects, o)]
    BY <1>3, <2>1, <2>3, <2>4 DEF OneObject
  <2>6. /\ MemOK(mem) /\ mem.live = r.memory.live \cup Range(o) /\ Clean(o)
        /\ Range(o) \cap r.memory.live = {}
    BY <2>2, <2>4, NewOK DEF Turns
  <2>7. r.memory.live = m.live \cup InAll(r.objects) /\ m.live \cap InAll(r.objects) = {}
    BY <2>2 DEF Turns
  <2>8. Range(o) \cap InAll(r.objects) = {}
    BY <2>6, <2>7
  <2>9. /\ Items(Append(r.objects, o))
        /\ InAll(Append(r.objects, o)) = InAll(r.objects) \cup Range(o)
    BY <2>2, <2>6, <2>8, ItemAdded
  <2>10. Turns(m, {}, mem, InAll(Append(r.objects, o)))
    BY <2>6, <2>7, <2>9 DEF Turns
  <2>11. f[k + 1].memory = mem /\ f[k + 1].objects = Append(r.objects, o)
    BY <2>5
  <2> QED  BY <2>3, <2>9, <2>10, <2>11
<1>6. n \in T
  <2>1. \A k \in 0 .. n : k \in T
    <3> HIDE DEF T
    <3> QED  BY <1>4, <1>5, UpTo
  <2> QED  BY <2>1
<1> QED  BY <1>2, <1>6

\* A new list of n objects.
LEMMA NewListOK ==
    ASSUME NEW m, MemOK(m), NEW n \in Nat, NEW shape \in Seq({DATATYPE_OBJECT, DATATYPE_ARRAY})
    PROVE  /\ ListOK(NewList(m, n, shape).list)
           /\ Turns(m, {}, NewList(m, n, shape).memory, ListHolds(NewList(m, n, shape).list))
<1>1. PICK m1, a : m1 = New(m, <<DATATYPE_ARRAY>>).memory /\ a = New(m, <<DATATYPE_ARRAY>>).blocks
  OBVIOUS
<1>2. <<DATATYPE_ARRAY>> \in Seq({DATATYPE_OBJECT, DATATYPE_ARRAY})
  OBVIOUS
<1>3. /\ MemOK(m1) /\ m1.live = m.live \cup Range(a) /\ Clean(a) /\ Range(a) \cap m.live = {}
  BY <1>1, <1>2, NewOK
<1>4. PICK m2, o : m2 = NewObjects(m1, n, shape).memory /\ o = NewObjects(m1, n, shape).objects
  OBVIOUS
<1>5. Items(o) /\ Turns(m1, {}, m2, InAll(o))
  BY <1>3, <1>4, NewObjectsOK
<1>6. NewList(m, n, shape) = [memory |-> m2, list |-> [array |-> a, items |-> o]]
  BY <1>1, <1>4 DEF NewList
<1>7. PICK list : list = [array |-> a, items |-> o]
  OBVIOUS
<1>8. list.array = a /\ list.items = o
  BY <1>7
<1>9. Range(a) \cap InAll(o) = {}
  BY <1>3, <1>5 DEF Turns
<1>10. ListOK(list)
  BY <1>3, <1>5, <1>7, <1>8, <1>9 DEF ListOK
<1>11. ListHolds(list) = Range(a) \cup InAll(o)
  BY <1>8 DEF ListHolds
<1>12. Turns(m, {}, m2, ListHolds(list))
  BY <1>3, <1>5, <1>11 DEF Turns
<1> QED  BY <1>6, <1>7, <1>10, <1>12

\* Four lists, one exchanged after the other.
LEMMA FourTurns ==
    ASSUME NEW m, NEW m1, NEW m2, NEW m3, NEW m4, NEW l1, NEW l2, NEW l3, NEW l4,
           NEW A1, NEW A2, NEW A3, NEW A4,
           Turns(m, A1, m1, ListHolds(l1)), Turns(m1, A2, m2, ListHolds(l2)),
           Turns(m2, A3, m3, ListHolds(l3)), Turns(m3, A4, m4, ListHolds(l4)),
           A1 \cup A2 \cup A3 \cup A4 \subseteq m.live,
           A1 \cap A2 = {}, (A1 \cup A2) \cap A3 = {}, (A1 \cup A2 \cup A3) \cap A4 = {},
           ListOK(l1), ListOK(l2), ListOK(l3), ListOK(l4)
    PROVE  /\ ListsOK(<<l1, l2, l3, l4>>)
           /\ Turns(m, A1 \cup A2 \cup A3 \cup A4, m4, ListsHold(<<l1, l2, l3, l4>>))
<1>1. PICK B1, B2, B3, B4 : /\ B1 = ListHolds(l1) /\ B2 = ListHolds(l2)
                            /\ B3 = ListHolds(l3) /\ B4 = ListHolds(l4)
  OBVIOUS
<1>2. Turns(m, A1 \cup A2, m2, B1 \cup B2) /\ B1 \cap B2 = {}
  <2>1. A2 \subseteq m.live
    OBVIOUS
  <2>2. Turns(m, A1, m1, B1) /\ Turns(m1, A2, m2, B2)
    BY <1>1, Zenon
  <2> QED  BY <2>1, <2>2 DEF Turns
<1>3. Turns(m, (A1 \cup A2) \cup A3, m3, (B1 \cup B2) \cup B3) /\ (B1 \cup B2) \cap B3 = {}
  <2>1. A3 \subseteq m.live
    OBVIOUS
  <2>2. Turns(m2, A3, m3, B3)
    BY <1>1, Zenon
  <2> QED  BY <1>2, <2>1, <2>2 DEF Turns
<1>4. /\ Turns(m, ((A1 \cup A2) \cup A3) \cup A4, m4, ((B1 \cup B2) \cup B3) \cup B4)
      /\ ((B1 \cup B2) \cup B3) \cap B4 = {}
  <2>1. A4 \subseteq m.live
    OBVIOUS
  <2>2. Turns(m3, A4, m4, B4)
    BY <1>1, Zenon
  <2> QED  BY <1>3, <2>1, <2>2 DEF Turns
<1>5. PICK ls : ls = <<l1, l2, l3, l4>>
  OBVIOUS
<1>6. DOMAIN ls = 1 .. 4 /\ ls[1] = l1 /\ ls[2] = l2 /\ ls[3] = l3 /\ ls[4] = l4
  BY <1>5
<1>7. \A k \in 1 .. 4 : k = 1 \/ k = 2 \/ k = 3 \/ k = 4
  OBVIOUS
<1>8. \A k \in 1 .. 4 : ListOK(ls[k])
  BY <1>6, <1>7
<1>9. \A j, k \in 1 .. 4 : j # k => ListHolds(ls[j]) \cap ListHolds(ls[k]) = {}
  <2>1. /\ ListHolds(ls[1]) = B1 /\ ListHolds(ls[2]) = B2
        /\ ListHolds(ls[3]) = B3 /\ ListHolds(ls[4]) = B4
    BY <1>1, <1>6
  <2>2. /\ B1 \cap B2 = {} /\ B1 \cap B3 = {} /\ B1 \cap B4 = {}
        /\ B2 \cap B3 = {} /\ B2 \cap B4 = {} /\ B3 \cap B4 = {}
    BY <1>2, <1>3, <1>4
  <2> QED  BY <1>7, <2>1, <2>2
<1>10. ListsOK(ls)
  BY <1>6, <1>8, <1>9 DEF ListsOK
<1>11. ListsHold(ls) = B1 \cup B2 \cup B3 \cup B4
  BY <1>1, <1>6 DEF ListsHold
<1> QED  BY <1>4, <1>5, <1>10, <1>11

\* A list of which one more is read.
LEMMA ListGrows ==
    ASSUME NEW m, NEW r, ListOK(r.list), Turns(m, {}, r.memory, ListHolds(r.list)),
           NEW shape \in Seq({DATATYPE_OBJECT, DATATYPE_ARRAY})
    PROVE  /\ ListOK(WithHalf(r, shape).list)
           /\ Turns(m, {}, WithHalf(r, shape).memory, ListHolds(WithHalf(r, shape).list))
<1>0. PICK m1, list : m1 = r.memory /\ list = r.list
  OBVIOUS
<1>1. PICK m2, o : m2 = New(r.memory, shape).memory /\ o = New(r.memory, shape).blocks
  OBVIOUS
<1>2. MemOK(m2) /\ m2.live = m1.live \cup Range(o) /\ Clean(o) /\ Range(o) \cap m1.live = {}
  <2>1. MemOK(r.memory)
    BY DEF Turns
  <2> QED  BY <1>0, <1>1, <2>1, NewOK
<1>3. PICK a, items : a = list.array /\ items = list.items
  OBVIOUS
<1>4. /\ list = [array |-> a, items |-> items]
      /\ Clean(a) /\ Items(items) /\ Range(a) \cap InAll(items) = {}
      /\ ListHolds(list) = Range(a) \cup InAll(items)
  BY <1>0, <1>3 DEF ListOK, ListHolds
<1>5. m1.live = m.live \cup ListHolds(list) /\ m.live \cap ListHolds(list) = {}
  BY <1>0 DEF Turns
<1>6. Items(Append(items, o)) /\ InAll(Append(items, o)) = InAll(items) \cup Range(o)
  <2>1. Range(o) \cap InAll(items) = {}
    BY <1>2, <1>4, <1>5
  <2> QED  BY <1>2, <1>4, <2>1, ItemAdded
<1>7. PICK grown : grown = [list EXCEPT !.items = Append(@, o)]
  OBVIOUS
<1>8. /\ grown.array = a /\ grown.items = Append(items, o)
      /\ grown = [array |-> grown.array, items |-> grown.items]
  BY <1>4, <1>7
<1>9. ListOK(grown) /\ ListHolds(grown) = ListHolds(list) \cup Range(o)
  BY <1>2, <1>4, <1>5, <1>6, <1>8 DEF ListOK, ListHolds
<1>10. Turns(m, {}, m2, ListHolds(grown))
  BY <1>2, <1>5, <1>9 DEF Turns
<1>11. WithHalf(r, shape) = [memory |-> m2, list |-> grown]
  BY <1>0, <1>1, <1>7 DEF WithHalf
<1>12. WithHalf(r, shape).memory = m2 /\ WithHalf(r, shape).list = grown
  BY <1>11
<1> QED  BY <1>9, <1>10, <1>12

\* Decode, of a list that it reaches or not.
LEMMA DecodeListOK ==
    ASSUME NEW m, MemOK(m), NEW d \in Datagrams, NEW i \in 1 .. 4
    PROVE  /\ ListOK(DecodeList(m, d, i).list)
           /\ Turns(m, {}, DecodeList(m, d, i).memory, ListHolds(DecodeList(m, d, i).list))
<1>1. d.counts \in [1 .. 4 -> Nat] /\ d.read \in Nat /\ d.half \in HalfRead
  BY DatagramsAssumption DEF Datagram
<1>2. PICK left : left = d.read - Before(d, i)
  OBVIOUS
<1>3. left \in Int
  <2>1. Before(d, i) \in Int
    <3>1. PICK a, b, c, e : /\ a = d.counts[1] /\ b = d.counts[2]
                            /\ c = d.counts[3] /\ e = d.counts[4]
      OBVIOUS
    <3>2. a \in Nat /\ b \in Nat /\ c \in Nat /\ e \in Nat
      BY <1>1, <3>1
    <3>3. Before(d, i) = <<0, a, a + b, a + b + c, a + b + c + e>>[i]
      BY <3>1 DEF Before
    <3>4. i = 1 \/ i = 2 \/ i = 3 \/ i = 4
      OBVIOUS
    <3> QED  BY <3>2, <3>3, <3>4
  <2> QED  BY <1>1, <1>2, <2>1
<1>4. PICK n : n = IF left < d.counts[i] THEN left ELSE d.counts[i]
  OBVIOUS
<1>5. PICK shape : shape = IF i = 1 THEN CQuery ELSE CResourceRecord
  OBVIOUS
<1>6. shape \in Seq({DATATYPE_OBJECT, DATATYPE_ARRAY})
  <2>1. /\ CQuery \in Seq({DATATYPE_OBJECT, DATATYPE_ARRAY})
        /\ CResourceRecord \in Seq({DATATYPE_OBJECT, DATATYPE_ARRAY})
    BY DEF CQuery, CResourceRecord
  <2> QED  BY <1>5, <2>1
<1>7. CASE left < 0 \/ (i > 1 /\ d.counts[i] = 0)
  <2>1. DecodeList(m, d, i) = [memory |-> m, list |-> NoList]
    BY <1>2, <1>7 DEF DecodeList
  <2>2. Turns(m, {}, m, {})
    BY DEF Turns
  <2> QED  BY <2>1, <2>2, NoListOK
<1>8. CASE ~(left < 0 \/ (i > 1 /\ d.counts[i] = 0))
  <2>1. n \in Nat
    BY <1>1, <1>3, <1>4, <1>8
  <2>2. PICK whole : whole = NewList(m, n, shape)
    OBVIOUS
  <2>3. ListOK(whole.list) /\ Turns(m, {}, whole.memory, ListHolds(whole.list))
    BY <1>6, <2>1, <2>2, NewListOK
  <2>5. PICK broken \in BOOLEAN : broken = (i > 1 /\ left < d.counts[i] /\ d.half # <<>>)
    OBVIOUS
  <2>6. DecodeList(m, d, i) = IF broken THEN WithHalf(whole, d.half) ELSE whole
    BY <1>2, <1>4, <1>5, <1>8, <2>2, <2>5 DEF DecodeList
  <2>7. d.half \in Seq({DATATYPE_OBJECT, DATATYPE_ARRAY})
    <3>1. <<>> \in Seq({DATATYPE_OBJECT, DATATYPE_ARRAY})
      OBVIOUS
    <3>2. <<DATATYPE_OBJECT, DATATYPE_ARRAY>> \in Seq({DATATYPE_OBJECT, DATATYPE_ARRAY})
      OBVIOUS
    <3>3. CResourceRecord \in Seq({DATATYPE_OBJECT, DATATYPE_ARRAY})
      BY DEF CResourceRecord
    <3> QED  BY <1>1, <3>1, <3>2, <3>3, Zenon DEF HalfRead
  <2>8. CASE broken
    BY <2>3, <2>6, <2>7, <2>8, ListGrows
  <2> QED  BY <2>3, <2>6, <2>8
<1> QED  BY <1>7, <1>8

\* The ends of short sequences.
LEMMA ThirdAndFourth ==
    ASSUME NEW a, NEW b, NEW c, NEW e
    PROVE  /\ Append(<<a, b>>, c) = <<a, b, c>>
           /\ Append(<<a, b, c>>, e) = <<a, b, c, e>>
<1>0. PICK S : S = {a, b, c, e}
  OBVIOUS
<1>1. PICK x, y, z : x = <<a, b>> /\ y = <<a, b, c>> /\ z = <<a, b, c, e>>
  OBVIOUS
<1>2. /\ x \in Seq(S) /\ Len(x) = 2 /\ x[1] = a /\ x[2] = b
      /\ y \in Seq(S) /\ Len(y) = 3 /\ y[1] = a /\ y[2] = b /\ y[3] = c
      /\ z \in Seq(S) /\ Len(z) = 4 /\ z[1] = a /\ z[2] = b /\ z[3] = c /\ z[4] = e
  BY <1>0, <1>1
<1>3. c \in S /\ e \in S
  BY <1>0
<1>4. Append(x, c) = y
  <2>1. PICK s : s = Append(x, c)
    OBVIOUS
  <2>2. s \in Seq(S) /\ Len(s) = 3 /\ s[1] = x[1] /\ s[2] = x[2] /\ s[3] = c
    <3>1. /\ Append(x, c) \in Seq(S) /\ Len(Append(x, c)) = Len(x) + 1
          /\ \A i \in 1 .. Len(x) : Append(x, c)[i] = x[i]
          /\ Append(x, c)[Len(x) + 1] = c
      <4>1. x \in Seq(S) /\ c \in S
        BY <1>2, <1>3
      <4> QED  BY <4>1, AppendProperties
    <3>2. Len(x) = 2 /\ 2 + 1 = 3 /\ \A i \in 1 .. 2 : i \in 1 .. Len(x)
      BY <1>2
    <3>3. \A i \in 1 .. 2 : s[i] = x[i]
      BY <2>1, <3>1, <3>2
    <3> QED  BY <2>1, <3>1, <3>2, <3>3
  <2>3. \A i \in 1 .. 3 : s[i] = y[i]
    <3>1. \A i \in 1 .. 3 : i = 1 \/ i = 2 \/ i = 3
      OBVIOUS
    <3> QED  BY <1>2, <2>2, <3>1
  <2> QED  BY <1>2, <2>1, <2>2, <2>3, SeqEqual
<1>5. Append(y, e) = z
  <2>1. PICK s : s = Append(y, e)
    OBVIOUS
  <2>2. s \in Seq(S) /\ Len(s) = 4 /\ s[1] = y[1] /\ s[2] = y[2] /\ s[3] = y[3] /\ s[4] = e
    <3>1. /\ Append(y, e) \in Seq(S) /\ Len(Append(y, e)) = Len(y) + 1
          /\ \A i \in 1 .. Len(y) : Append(y, e)[i] = y[i]
          /\ Append(y, e)[Len(y) + 1] = e
      <4>1. y \in Seq(S) /\ e \in S
        BY <1>2, <1>3
      <4> QED  BY <4>1, AppendProperties
    <3>2. Len(y) = 3 /\ 3 + 1 = 4 /\ \A i \in 1 .. 3 : i \in 1 .. Len(y)
      BY <1>2
    <3>3. \A i \in 1 .. 3 : s[i] = y[i]
      BY <2>1, <3>1, <3>2
    <3> QED  BY <2>1, <3>1, <3>2, <3>3
  <2>3. \A i \in 1 .. 4 : s[i] = z[i]
    <3>1. \A i \in 1 .. 4 : i = 1 \/ i = 2 \/ i = 3 \/ i = 4
      OBVIOUS
    <3> QED  BY <1>2, <2>2, <3>1
  <2> QED  BY <1>2, <2>1, <2>2, <2>3, SeqEqual
<1> QED  BY <1>1, <1>4, <1>5

\* The recursion of Decode, list by list.
OneList(r, d, i) ==
    [memory |-> DecodeList(r.memory, d, i).memory,
     message |-> Append(r.message, DecodeList(r.memory, d, i).list)]

DecodesTo(f, m, d) ==
    f = [i \in 0 .. 4 |-> IF i = 0 THEN [memory |-> m, message |-> <<>>] ELSE OneList(f[i - 1], d, i)]

\* Whatever Decode reads is new, and in four lists that share nothing.
LEMMA DecodeOK ==
    ASSUME NEW m, MemOK(m), NEW d \in Datagrams
    PROVE  /\ ListsOK(Decode(m, d).message)
           /\ Turns(m, {}, Decode(m, d).memory, ListsHold(Decode(m, d).message))
<1>1. PICK r1 : r1 = DecodeList(m, d, 1)
  OBVIOUS
<1>2. ListOK(r1.list) /\ Turns(m, {}, r1.memory, ListHolds(r1.list))
  BY <1>1, DecodeListOK
<1>3. PICK r2 : r2 = DecodeList(r1.memory, d, 2)
  OBVIOUS
<1>4. ListOK(r2.list) /\ Turns(r1.memory, {}, r2.memory, ListHolds(r2.list))
  <2>1. MemOK(r1.memory)
    BY <1>2 DEF Turns
  <2> QED  BY <1>3, <2>1, DecodeListOK
<1>5. PICK r3 : r3 = DecodeList(r2.memory, d, 3)
  OBVIOUS
<1>6. ListOK(r3.list) /\ Turns(r2.memory, {}, r3.memory, ListHolds(r3.list))
  <2>1. MemOK(r2.memory)
    BY <1>4 DEF Turns
  <2> QED  BY <1>5, <2>1, DecodeListOK
<1>7. PICK r4 : r4 = DecodeList(r3.memory, d, 4)
  OBVIOUS
<1>8. ListOK(r4.list) /\ Turns(r3.memory, {}, r4.memory, ListHolds(r4.list))
  <2>1. MemOK(r3.memory)
    BY <1>6 DEF Turns
  <2> QED  BY <1>7, <2>1, DecodeListOK
<1>9. Decode(m, d) = [memory |-> r4.memory,
                      message |-> <<r1.list, r2.list, r3.list, r4.list>>]
  <2>1. PICK s0, s1, s2, s3, s4 :
            /\ s0 = [memory |-> m, message |-> <<>>]
            /\ s1 = [memory |-> r1.memory, message |-> <<r1.list>>]
            /\ s2 = [memory |-> r2.memory, message |-> <<r1.list, r2.list>>]
            /\ s3 = [memory |-> r3.memory, message |-> <<r1.list, r2.list, r3.list>>]
            /\ s4 = [memory |-> r4.memory, message |-> <<r1.list, r2.list, r3.list, r4.list>>]
    OBVIOUS
  <2>2. OneList(s0, d, 1) = s1 /\ OneList(s1, d, 2) = s2
    BY <1>1, <1>3, <2>1 DEF OneList
  <2>3. OneList(s2, d, 3) = s3 /\ OneList(s3, d, 4) = s4
    <3>1. /\ Append(<<r1.list, r2.list>>, r3.list) = <<r1.list, r2.list, r3.list>>
          /\ Append(<<r1.list, r2.list, r3.list>>, r4.list) = <<r1.list, r2.list, r3.list, r4.list>>
      BY ThirdAndFourth
    <3>2. s2.memory = r2.memory /\ s2.message = <<r1.list, r2.list>>
      BY <2>1
    <3>3. s3.memory = r3.memory /\ s3.message = <<r1.list, r2.list, r3.list>>
      BY <2>1
    <3>4. OneList(s2, d, 3) = s3
      BY <1>5, <2>1, <3>1, <3>2 DEF OneList
    <3>5. OneList(s3, d, 4) = s4
      BY <1>7, <2>1, <3>1, <3>3 DEF OneList
    <3> QED  BY <3>4, <3>5
  <2>4. \E f : DecodesTo(f, m, d)
    <3> DEFINE g == [i \in 0 .. 4 |-> IF i = 0 THEN s0 ELSE IF i = 1 THEN s1 ELSE IF i = 2 THEN s2
                                      ELSE IF i = 3 THEN s3 ELSE s4]
    <3>1. g[0] = s0 /\ g[1] = s1 /\ g[2] = s2 /\ g[3] = s3 /\ g[4] = s4
      OBVIOUS
    <3> HIDE DEF g
    <3>2. \A i \in 0 .. 4 : i # 0 => g[i] = OneList(g[i - 1], d, i)
      <4>1. \A i \in 0 .. 4 : i = 0 \/ i = 1 \/ i = 2 \/ i = 3 \/ i = 4
        OBVIOUS
      <4> QED  BY <2>2, <2>3, <3>1, <4>1
    <3>3. g = [i \in 0 .. 4 |-> g[i]]
      BY DEF g
    <3>4. g = [i \in 0 .. 4 |-> IF i = 0 THEN [memory |-> m, message |-> <<>>]
                                ELSE OneList(g[i - 1], d, i)]
      BY <2>1, <3>1, <3>2, <3>3
    <3> QED  BY <3>4 DEF DecodesTo
  <2> DEFINE f == CHOOSE f : DecodesTo(f, m, d)
  <2>5. DecodesTo(f, m, d)
    BY <2>4
  <2>6. Decode(m, d) = f[4]
    BY Zenon DEF Decode, DecodesTo, OneList
  <2> HIDE DEF f
  <2>7. \A i \in 0 .. 4 : f[i] = IF i = 0 THEN s0 ELSE OneList(f[i - 1], d, i)
    BY <2>1, <2>5 DEF DecodesTo
  <2>8. f[0] = s0 /\ f[1] = OneList(f[0], d, 1) /\ f[2] = OneList(f[1], d, 2)
    BY <2>7
  <2>9. f[3] = OneList(f[2], d, 3) /\ f[4] = OneList(f[3], d, 4)
    BY <2>7
  <2> QED  BY <2>1, <2>2, <2>3, <2>6, <2>8, <2>9
<1>10. PICK none : none = {}
  OBVIOUS
<1>11. /\ ListsOK(<<r1.list, r2.list, r3.list, r4.list>>)
       /\ Turns(m, none \cup none \cup none \cup none, r4.memory,
                ListsHold(<<r1.list, r2.list, r3.list, r4.list>>))
  <2>1. /\ none \cup none \cup none \cup none \subseteq m.live
        /\ none \cap none = {} /\ (none \cup none) \cap none = {}
        /\ (none \cup none \cup none) \cap none = {}
    BY <1>10
  <2> QED  BY <1>2, <1>4, <1>6, <1>8, <1>10, <2>1, FourTurns
<1>12. none \cup none \cup none \cup none = {}
  BY <1>10
<1> QED  BY <1>9, <1>11, <1>12

\* The last object takes the place of the one that goes.
LEMMA ItemRemoved ==
    ASSUME NEW items, Items(items), NEW i \in 1 .. Len(items),
           NEW t, t = Front([items EXCEPT ![i] = Last(items)])
    PROVE  /\ Clean(items[i]) /\ Range(items[i]) \subseteq InAll(items)
           /\ Items(t) /\ InAll(t) = InAll(items) \ Range(items[i])
           /\ Len(t) = Len(items) - 1
<1>1. PICK n : n = Len(items)
  OBVIOUS
<1>2. t \in Seq(Seq(Block)) /\ LastMoved(items, i, t, n)
  BY <1>1, LastMoves DEF Items
<1>3. /\ n \in Nat /\ n - 1 \in Nat /\ Len(t) = n - 1 /\ i \in 1 .. n
      /\ \A k \in 1 .. n - 1 : k \in 1 .. n /\ k # n /\ t[k] = IF k = i THEN items[n] ELSE items[k]
  <2>1. /\ n \in Nat /\ n - 1 \in Nat /\ Len(t) = n - 1
        /\ \A k \in 1 .. n - 1 : k \in 1 .. n /\ t[k] = IF k = i THEN items[n] ELSE items[k]
    BY <1>2, Zenon DEF LastMoved
  <2>2. \A k \in 1 .. n - 1 : k # n
    BY <2>1
  <2> QED  BY <1>1, <2>1, <2>2, Zenon
<1>4. /\ \A k \in 1 .. n : IsInjective(items[k])
      /\ \A j, k \in 1 .. n : j # k => Range(items[j]) \cap Range(items[k]) = {}
  BY <1>1 DEF Items, AllApart
<1>5. Clean(items[i])
  BY <1>3, <1>4 DEF Items, Clean
<1>6. InAll(items) = UNION {Range(items[k]) : k \in 1 .. n}
  BY <1>1 DEF InAll
<1>7. InAll(t) = UNION {Range(t[k]) : k \in 1 .. n - 1}
  BY <1>3 DEF InAll
<1>8. n \in 1 .. n
  BY <1>3
<1>9. ASSUME NEW k \in 1 .. n, k # i PROVE \E j \in 1 .. n - 1 : t[j] = items[k]
  <2>1. CASE k = n
    <3>1. i \in 1 .. n - 1
      BY <1>3, <1>9, <2>1
    <3> QED  BY <1>3, <2>1, <3>1
  <2>2. CASE k # n
    <3>1. k \in 1 .. n - 1
      BY <1>3, <2>2
    <3> QED  BY <1>3, <1>9, <3>1
  <2> QED  BY <2>1, <2>2
<1>10. \A k \in 1 .. n - 1 : \E j \in 1 .. n : j # i /\ t[k] = items[j]
  BY <1>3, <1>8
<1>11. InAll(t) = InAll(items) \ Range(items[i])
  <2>1. ASSUME NEW b \in InAll(t) PROVE b \in InAll(items) \ Range(items[i])
    <3>1. PICK k \in 1 .. n - 1 : b \in Range(t[k])
      BY <1>7
    <3>2. PICK j \in 1 .. n : j # i /\ t[k] = items[j]
      BY <1>10
    <3> QED  BY <1>3, <1>4, <1>6, <3>1, <3>2
  <2>2. ASSUME NEW b \in InAll(items), b \notin Range(items[i]) PROVE b \in InAll(t)
    <3>1. PICK k \in 1 .. n : b \in Range(items[k])
      BY <1>6
    <3>2. PICK j \in 1 .. n - 1 : t[j] = items[k]
      BY <1>9, <2>2, <3>1
    <3> QED  BY <1>7, <3>1, <3>2
  <2> QED  BY <2>1, <2>2
<1>12. AllApart(t)
  <2>1. \A k \in 1 .. n - 1 : IsInjective(t[k])
    BY <1>4, <1>10
  <2>2. ASSUME NEW j \in 1 .. n - 1, NEW k \in 1 .. n - 1, j # k
        PROVE  Range(t[j]) \cap Range(t[k]) = {}
    <3>1. PICK x : x = IF j = i THEN n ELSE j
      OBVIOUS
    <3>2. PICK y : y = IF k = i THEN n ELSE k
      OBVIOUS
    <3>3. x \in 1 .. n /\ y \in 1 .. n /\ x # y /\ t[j] = items[x] /\ t[k] = items[y]
      BY <1>3, <1>8, <2>2, <3>1, <3>2
    <3> QED  BY <1>4, <3>3
  <2> QED  BY <1>3, <2>1, <2>2 DEF AllApart
<1>13. Range(items[i]) \subseteq InAll(items)
  BY <1>3, <1>6
<1> QED  BY <1>1, <1>2, <1>3, <1>5, <1>11, <1>12, <1>13 DEF Items

\* The recursion of Sanitize, for n rounds.
SanitizeStart(m, list) == [memory |-> m, items |-> list.items, i |-> 1]

Sanitizes(f, m, list, drop, n) ==
    f = [k \in 0 .. n |-> IF k = 0 THEN SanitizeStart(m, list) ELSE SanitizeOne(f[k - 1], drop)]

\* The recursion of Sanitize is that of a function, for a list of any length.
LEMMA SanitizesExist ==
    ASSUME NEW m, NEW list, NEW drop, NEW n \in Nat
    PROVE  \E f : Sanitizes(f, m, list, drop, n)
<1> DEFINE T == {k \in Nat : \E f : Sanitizes(f, m, list, drop, k)}
           Start == SanitizeStart(m, list)
<1> HIDE DEF Start
<1>1. 0 \in T
  <2> DEFINE f == [k \in 0 .. 0 |-> Start]
  <2>1. f = [k \in 0 .. 0 |-> IF k = 0 THEN Start ELSE SanitizeOne(f[k - 1], drop)]
    OBVIOUS
  <2> HIDE DEF f
  <2> QED  BY <2>1 DEF Sanitizes, Start
<1>2. ASSUME NEW k \in 0 .. n - 1, k \in T PROVE k + 1 \in T
  <2>1. PICK f : Sanitizes(f, m, list, drop, k)
    BY <1>2
  <2>2. f = [j \in 0 .. k |-> IF j = 0 THEN Start ELSE SanitizeOne(f[j - 1], drop)]
    BY <2>1 DEF Sanitizes, Start
  <2> DEFINE g == [j \in 0 .. k + 1 |-> IF j = k + 1 THEN SanitizeOne(f[k], drop) ELSE f[j]]
  <2>3. ASSUME NEW j \in 0 .. k + 1
        PROVE  g[j] = IF j = 0 THEN Start ELSE SanitizeOne(g[j - 1], drop)
    <3>1. CASE j = k + 1
      <4>1. j # 0 /\ j - 1 = k /\ k \in 0 .. k + 1 /\ k # k + 1
        BY <3>1
      <4>2. g[j - 1] = f[k]
        BY <4>1
      <4> QED  BY <3>1, <4>1, <4>2
    <3>2. CASE j # k + 1
      <4>1. j \in 0 .. k /\ (j # 0 => j - 1 \in 0 .. k + 1 /\ j - 1 # k + 1)
        BY <3>2
      <4>2. g[j] = f[j] /\ (j # 0 => g[j - 1] = f[j - 1])
        BY <3>2, <4>1
      <4> HIDE DEF g
      <4> QED  BY <2>2, <4>1, <4>2
    <3> QED  BY <3>1, <3>2
  <2>4. g = [j \in 0 .. k + 1 |-> IF j = 0 THEN Start ELSE SanitizeOne(g[j - 1], drop)]
    BY <2>3
  <2> HIDE DEF g
  <2> QED  BY <2>4 DEF Sanitizes, Start
<1>3. \A k \in 0 .. n : k \in T
  <2> HIDE DEF T
  <2> QED  BY <1>1, <1>2, UpTo
<1> QED  BY <1>3

\* What is left of a list shares nothing, and what is gone has been released.
LEMMA SanitizeOK ==
    ASSUME NEW m, MemOK(m), NEW list, ListOK(list), ListHolds(list) \subseteq m.live, NEW drop
    PROVE  /\ ListOK(Sanitize(m, list, drop).list)
           /\ ListHolds(Sanitize(m, list, drop).list) \subseteq ListHolds(list)
           /\ Turns(m, ListHolds(list), Sanitize(m, list, drop).memory,
                    ListHolds(Sanitize(m, list, drop).list))
<1>1. PICK n, H : n = Len(list.items) /\ H = InAll(list.items)
  OBVIOUS
<1>2. n \in Nat /\ Items(list.items) /\ H \subseteq m.live
  BY <1>1 DEF ListOK, Items, ListHolds
<1> DEFINE f == CHOOSE f : Sanitizes(f, m, list, drop, Len(list.items))
<1>3. Sanitizes(f, m, list, drop, n)
  BY <1>1, <1>2, SanitizesExist
<1>4. Sanitize(m, list, drop) = [memory |-> f[n].memory,
                                 list |-> [array |-> list.array, items |-> f[n].items]]
  BY <1>1, Zenon DEF Sanitize, Sanitizes, SanitizeStart
<1> HIDE DEF f
<1>5. f = [k \in 0 .. n |-> IF k = 0 THEN SanitizeStart(m, list) ELSE SanitizeOne(f[k - 1], drop)]
  BY <1>3 DEF Sanitizes
<1> DEFINE Good(r, k) == /\ r = [memory |-> r.memory, items |-> r.items, i |-> r.i]
                         /\ Items(r.items) /\ InAll(r.items) \subseteq H
                         /\ Turns(m, H, r.memory, InAll(r.items))
                         /\ r.i \in Nat \ {0} /\ Len(r.items) \in Nat
                         /\ Len(r.items) + k = n + r.i - 1
           T == {k \in 0 .. n : Good(f[k], k)}
<1>6. 0 \in T
  <2>1. PICK r : r = SanitizeStart(m, list)
    OBVIOUS
  <2>2. r.memory = m /\ r.items = list.items /\ r.i = 1
        /\ r = [memory |-> r.memory, items |-> r.items, i |-> r.i]
    BY <2>1 DEF SanitizeStart
  <2>3. Turns(m, H, m, H)
    BY <1>2 DEF Turns
  <2>4. Len(r.items) + 0 = n + r.i - 1
    BY <1>1, <1>2, <2>2
  <2>5. f[0] = r
    BY <1>2, <1>5, <2>1
  <2> QED  BY <1>1, <1>2, <2>2, <2>3, <2>4, <2>5
<1>7. ASSUME NEW k \in 0 .. n - 1, k \in T PROVE k + 1 \in T
  <2>1. PICK r : r = f[k]
    OBVIOUS
  <2>2. Good(r, k)
    BY <1>7, <2>1
  <2>3. k \in Nat /\ k + 1 \in 0 .. n /\ k + 1 # 0 /\ (k + 1) - 1 = k
    BY <1>2
  <2>4. f[k + 1] = SanitizeOne(r, drop)
    BY <1>5, <2>1, <2>3
  <2>5. PICK len, i : len = Len(r.items) /\ i = r.i
    OBVIOUS
  <2>6. len \in Nat /\ i \in Nat \ {0} /\ len + k = n + i - 1
    BY <2>2, <2>5
  <2>7. i \in 1 .. len
    BY ONLY <1>2, <2>3, <2>6, k \in 0 .. n - 1
  <2>8. CASE r.items[i] \notin drop
    <3>1. SanitizeOne(r, drop) = [r EXCEPT !.i = i + 1]
      BY <2>5, <2>8 DEF SanitizeOne
    <3>2. PICK q : q = [r EXCEPT !.i = i + 1]
      OBVIOUS
    <3>3. q.memory = r.memory /\ q.items = r.items /\ q.i = i + 1
          /\ q = [memory |-> q.memory, items |-> q.items, i |-> q.i]
      BY <2>2, <3>2
    <3>4. i + 1 \in Nat \ {0} /\ len + (k + 1) = n + (i + 1) - 1
      BY ONLY <1>2, <2>3, <2>6
    <3>5. Good(q, k + 1)
      BY <2>2, <2>5, <2>6, <3>3, <3>4
    <3> QED  BY <2>3, <2>4, <3>1, <3>2, <3>5
  <2>9. CASE r.items[i] \in drop
    <3>1. PICK t, mem : t = Front([r.items EXCEPT ![i] = Last(r.items)])
                        /\ mem = Delete(r.memory, r.items[i])
      OBVIOUS
    <3>2. SanitizeOne(r, drop) = [memory |-> mem, items |-> t, i |-> i]
      <4>1. SanitizeOne(r, drop) = [r EXCEPT !.memory = mem, !.items = t]
        BY <2>5, <2>9, <3>1 DEF SanitizeOne
      <4> QED  BY <2>2, <2>5, <4>1
    <3>3. /\ Clean(r.items[i]) /\ Range(r.items[i]) \subseteq InAll(r.items)
          /\ Items(t) /\ InAll(t) = InAll(r.items) \ Range(r.items[i])
          /\ Len(t) = len - 1
      BY <2>2, <2>5, <2>7, <3>1, ItemRemoved
    <3>4. MemOK(r.memory) /\ r.memory.live = (m.live \ H) \cup InAll(r.items)
          /\ (m.live \ H) \cap InAll(r.items) = {} /\ InAll(r.items) \subseteq H
      BY <2>2 DEF Turns
    <3>5. MemOK(mem) /\ mem.live = r.memory.live \ Range(r.items[i])
      BY <3>1, <3>3, <3>4, DeleteOK
    <3>6. Turns(m, H, mem, InAll(t)) /\ InAll(t) \subseteq H
      BY <3>3, <3>4, <3>5 DEF Turns
    <3>7. len - 1 \in Nat /\ (len - 1) + (k + 1) = n + i - 1
      BY ONLY <1>2, <2>3, <2>6, <2>7
    <3>8. PICK q : q = [memory |-> mem, items |-> t, i |-> i]
      OBVIOUS
    <3>9. q.memory = mem /\ q.items = t /\ q.i = i
      BY <3>8
    <3>10. Good(q, k + 1)
      BY <2>6, <3>3, <3>6, <3>7, <3>8, <3>9
    <3> QED  BY <2>3, <2>4, <3>2, <3>8, <3>10
  <2> QED  BY <2>8, <2>9
<1>8. Good(f[n], n)
  <2>1. \A k \in 0 .. n : k \in T
    <3> HIDE DEF T
    <3> QED  BY <1>2, <1>6, <1>7, UpTo
  <2> QED  BY <1>2, <2>1
<1>9. PICK l : l = [array |-> list.array, items |-> f[n].items]
  OBVIOUS
<1>10. l.array = list.array /\ l.items = f[n].items
  BY <1>9
<1>11. /\ Items(f[n].items) /\ InAll(f[n].items) \subseteq H
       /\ Turns(m, H, f[n].memory, InAll(f[n].items))
  BY <1>8
<1>12. Clean(list.array) /\ Range(list.array) \cap H = {}
  BY <1>1 DEF ListOK
<1>13. ListOK(l)
  BY <1>9, <1>10, <1>11, <1>12 DEF ListOK
<1>14. ListHolds(l) = Range(list.array) \cup InAll(f[n].items)
  BY <1>10 DEF ListHolds
<1>15. ListHolds(list) = Range(list.array) \cup H
  BY <1>1 DEF ListHolds
<1>16. Turns(m, ListHolds(list), f[n].memory, ListHolds(l))
  BY <1>11, <1>12, <1>14, <1>15 DEF Turns
<1> QED  BY <1>4, <1>9, <1>11, <1>13, <1>14, <1>15, <1>16

-----------------------------------------------------------------------------
(* The cache                                                               *)

\* Of a message, the records that are not wanted are gone.
LEMMA SanitizeRecordsOK ==
    ASSUME NEW m, MemOK(m), NEW message, ListsOK(message), ListsHold(message) \subseteq m.live,
           NEW drop
    PROVE  /\ ListsOK(SanitizeRecords(m, message, drop).message)
           /\ Turns(m, ListsHold(message), SanitizeRecords(m, message, drop).memory,
                    ListsHold(SanitizeRecords(m, message, drop).message))
<1>1. PICK h1, h2, h3, h4 : /\ h1 = ListHolds(message[1]) /\ h2 = ListHolds(message[2])
                            /\ h3 = ListHolds(message[3]) /\ h4 = ListHolds(message[4])
  OBVIOUS
<1>2. /\ ListOK(message[1]) /\ ListOK(message[2]) /\ ListOK(message[3]) /\ ListOK(message[4])
      /\ h1 \cap h2 = {} /\ h1 \cap h3 = {} /\ h1 \cap h4 = {}
      /\ h2 \cap h3 = {} /\ h2 \cap h4 = {} /\ h3 \cap h4 = {}
  BY <1>1 DEF ListsOK
<1>3. ListsHold(message) = h1 \cup h2 \cup h3 \cup h4
  BY <1>1 DEF ListsHold
<1>4. Turns(m, h1, m, ListHolds(message[1]))
  BY <1>1, <1>3 DEF Turns
<1>5. PICK r2 : r2 = Sanitize(m, message[2], drop)
  OBVIOUS
<1>6. ListOK(r2.list) /\ Turns(m, h2, r2.memory, ListHolds(r2.list))
  <2>1. h2 \subseteq m.live
    BY <1>3
  <2> QED  BY <1>1, <1>2, <1>5, <2>1, SanitizeOK
<1>7. PICK r3 : r3 = Sanitize(r2.memory, message[3], drop)
  OBVIOUS
<1>8. ListOK(r3.list) /\ Turns(r2.memory, h3, r3.memory, ListHolds(r3.list))
  <2>1. h3 \subseteq r2.memory.live /\ MemOK(r2.memory)
    BY <1>2, <1>3, <1>6 DEF Turns
  <2> QED  BY <1>1, <1>2, <1>7, <2>1, SanitizeOK
<1>9. PICK r4 : r4 = Sanitize(r3.memory, message[4], drop)
  OBVIOUS
<1>10. ListOK(r4.list) /\ Turns(r3.memory, h4, r4.memory, ListHolds(r4.list))
  <2>1. h4 \subseteq r3.memory.live /\ MemOK(r3.memory)
    BY <1>2, <1>3, <1>6, <1>8 DEF Turns
  <2> QED  BY <1>1, <1>2, <1>9, <2>1, SanitizeOK
<1>11. /\ h1 \cup h2 \cup h3 \cup h4 \subseteq m.live
       /\ h1 \cap h2 = {} /\ (h1 \cup h2) \cap h3 = {} /\ (h1 \cup h2 \cup h3) \cap h4 = {}
  BY <1>2, <1>3
<1>12. /\ ListsOK(<<message[1], r2.list, r3.list, r4.list>>)
       /\ Turns(m, h1 \cup h2 \cup h3 \cup h4, r4.memory,
                ListsHold(<<message[1], r2.list, r3.list, r4.list>>))
  BY <1>2, <1>4, <1>6, <1>8, <1>10, <1>11, FourTurns
<1>13. SanitizeRecords(m, message, drop)
       = [memory |-> r4.memory, message |-> <<message[1], r2.list, r3.list, r4.list>>]
  BY <1>5, <1>7, <1>9 DEF SanitizeRecords
<1> QED  BY <1>3, <1>12, <1>13

\* The blocks of all of a set, if none is in two of them.
LEMMA AllOfOK ==
    ASSUME NEW S, IsFiniteSet(S), NEW f, \A x \in S : Clean(f[x]),
           \A x, y \in S : x # y => Range(f[x]) \cap Range(f[y]) = {}
    PROVE  Clean(AllOf(f, S)) /\ Range(AllOf(f, S)) = UNION {Range(f[x]) : x \in S}
<1>1. PICK s, n : s = SetToSeq(S) /\ n = Len(SetToSeq(S))
  OBVIOUS
<1>2. s \in Seq(S) /\ IsInjective(s) /\ Range(s) = S /\ n = Len(s)
  BY <1>1, SetToSeqOnce
<1>3. n \in Nat /\ DOMAIN s = 1 .. n /\ \A k \in 1 .. n : s[k] \in S
  BY <1>2
<1>4. PICK t : t = [k \in 1 .. n |-> f[s[k]]]
  OBVIOUS
<1>5. AllOf(f, S) = FlattenSeq(t)
  BY <1>1, <1>3, <1>4 DEF AllOf
<1>6. t \in Seq(Seq(Block)) /\ Len(t) = n /\ \A k \in 1 .. n : t[k] = f[s[k]]
  BY <1>3, <1>4 DEF Clean
<1>7. \A j, k \in 1 .. n : j # k => s[j] # s[k]
  BY <1>2, <1>3 DEF IsInjective
<1>8. AllApart(t)
  <2>1. \A k \in 1 .. n : IsInjective(t[k])
    BY <1>3, <1>6 DEF Clean
  <2>2. ASSUME NEW j \in 1 .. n, NEW k \in 1 .. n, j # k
        PROVE  Range(t[j]) \cap Range(t[k]) = {}
    <3>1. s[j] \in S /\ s[k] \in S /\ s[j] # s[k]
      BY <1>3, <1>7, <2>2, Zenon
    <3>2. Range(f[s[j]]) \cap Range(f[s[k]]) = {}
      BY <3>1, Zenon
    <3> QED  BY <1>6, <3>2, Zenon
  <2> QED  BY <1>6, <2>1, <2>2, Zenon DEF AllApart
<1>9. InAll(t) = UNION {Range(f[x]) : x \in S}
  <2>1. S = {s[k] : k \in 1 .. n}
    BY <1>2, <1>3 DEF Range
  <2>2. InAll(t) = UNION {Range(f[s[k]]) : k \in 1 .. n}
    BY <1>6 DEF InAll
  <2> QED  BY <2>1, <2>2
<1> QED  BY <1>5, <1>6, <1>8, <1>9, FlattenClean DEF Clean

NodeOK(node) ==
    /\ node = [key |-> node.key, node |-> node.node, items |-> node.items]
    /\ Clean(node.key) /\ Clean(node.node) /\ Items(node.items)
    /\ Range(node.key) \cap Range(node.node) = {} /\ Range(node.key) \cap InAll(node.items) = {}
    /\ Range(node.node) \cap InAll(node.items) = {}

NodeHolds(node) == Range(node.key) \cup Range(node.node) \cup InAll(node.items)

\* A cache whose nodes share nothing, with each other or with the tree.
CacheOK(c) ==
    /\ c = [tree |-> c.tree, nodes |-> c.nodes]
    /\ Clean(c.tree)
    /\ c.nodes = [name \in Names |-> c.nodes[name]]
    /\ \A name \in Names : NodeOK(c.nodes[name]) /\ NodeHolds(c.nodes[name]) \cap Range(c.tree) = {}
    /\ \A n1, n2 \in Names : n1 # n2 => NodeHolds(c.nodes[n1]) \cap NodeHolds(c.nodes[n2]) = {}

NodesHold(nodes, names) == UNION {NodeHolds(nodes[name]) : name \in names}

CacheHolds(c) == Range(c.tree) \cup NodesHold(c.nodes, Names)

\* The node of which there is nothing.
LEMMA NoNodeOK == NodeOK(NoNode) /\ NodeHolds(NoNode) = {}
<1>1. <<>> \in Seq(Block) /\ IsInjective(<<>>) /\ Range(<<>>) = {}
  BY DEF IsInjective, Range
<1>2. <<>> \in Seq(Seq(Block)) /\ Len(<<>>) = 0 /\ AllApart(<<>>) /\ InAll(<<>>) = {}
  BY DEF AllApart, InAll
<1>3. /\ NoNode.key = <<>> /\ NoNode.node = <<>> /\ NoNode.items = <<>>
      /\ NoNode = [key |-> NoNode.key, node |-> NoNode.node, items |-> NoNode.items]
  BY DEF NoNode
<1> QED  BY <1>1, <1>2, <1>3, Zenon DEF NodeOK, NodeHolds, Clean, Items

\* What deleteCacheNode releases is the node but its name.
LEMMA NodeBlocksOK ==
    ASSUME NEW node, NodeOK(node)
    PROVE  /\ Clean(NodeBlocks(node))
           /\ Range(NodeBlocks(node)) = Range(node.node) \cup InAll(node.items)
<1>1. PICK list : list = [array |-> node.node, items |-> node.items]
  OBVIOUS
<1>2. list.array = node.node /\ list.items = node.items
  BY <1>1
<1>3. ListOK(list) /\ ListHolds(list) = Range(node.node) \cup InAll(node.items)
  BY <1>1, <1>2 DEF NodeOK, ListOK, ListHolds
<1> QED  BY <1>1, <1>3, BlocksOfOK DEF NodeBlocks

\* The cache c with a node put in, and the blocks of the tree object if it is new.
Put(c, name, new, t) == [tree |-> c.tree \o t, nodes |-> [c.nodes EXCEPT ![name] = new]]

\* A node is put in the place of another, and what is new is nobody else's.
LEMMA CachePut ==
    ASSUME NEW c, CacheOK(c), NEW name \in Names, NEW old, old = c.nodes[name],
           NEW new, NodeOK(new), NEW t, Clean(t),
           Range(t) \cap CacheHolds(c) = {}, NodeHolds(new) \cap Range(t) = {},
           NodeHolds(new) \cap (CacheHolds(c) \ NodeHolds(old)) = {},
           NEW d, d = Put(c, name, new, t)
    PROVE  /\ CacheOK(d)
           /\ CacheHolds(d) = (CacheHolds(c) \ NodeHolds(old)) \cup NodeHolds(new) \cup Range(t)
<1>1. /\ Clean(c.tree) /\ c.nodes = [n \in Names |-> c.nodes[n]]
      /\ \A n \in Names : NodeOK(c.nodes[n]) /\ NodeHolds(c.nodes[n]) \cap Range(c.tree) = {}
      /\ \A n1, n2 \in Names : n1 # n2 => NodeHolds(c.nodes[n1]) \cap NodeHolds(c.nodes[n2]) = {}
  BY DEF CacheOK
<1>2. CacheHolds(c) = Range(c.tree) \cup UNION {NodeHolds(c.nodes[n]) : n \in Names}
  BY DEF CacheHolds, NodesHold
<1>3. /\ d.tree = c.tree \o t
      /\ d.nodes = [n \in Names |-> IF n = name THEN new ELSE c.nodes[n]]
      /\ d = [tree |-> d.tree, nodes |-> d.nodes]
  BY <1>1 DEF Put
<1>4. PICK nodes : nodes = d.nodes
  OBVIOUS
<1>5. /\ nodes = [n \in Names |-> nodes[n]] /\ nodes[name] = new
      /\ \A n \in Names : n # name => nodes[n] = c.nodes[n]
  BY <1>3, <1>4
<1>6. Clean(d.tree) /\ Range(d.tree) = Range(c.tree) \cup Range(t)
  <2>1. Range(c.tree) \cap Range(t) = {}
    BY <1>2
  <2>2. /\ c.tree \o t \in Seq(Block) /\ IsInjective(c.tree \o t)
        /\ Range(c.tree \o t) = Range(c.tree) \cup Range(t)
    BY <1>1, <2>1, ConcatClean DEF Clean
  <2> QED  BY <1>3, <2>2 DEF Clean
<1>7. /\ NodeHolds(new) \cap Range(c.tree) = {}
      /\ \A n \in Names : n # name => NodeHolds(new) \cap NodeHolds(c.nodes[n]) = {}
      /\ \A n \in Names : NodeHolds(c.nodes[n]) \cap Range(t) = {}
  <2>1. \A n \in Names : NodeHolds(c.nodes[n]) \subseteq CacheHolds(c)
    BY <1>2
  <2>2. Range(c.tree) \subseteq CacheHolds(c) /\ Range(c.tree) \cap NodeHolds(old) = {}
    BY <1>1, <1>2
  <2>3. \A n \in Names : n # name => NodeHolds(c.nodes[n]) \cap NodeHolds(old) = {}
    BY <1>1, Zenon
  <2> QED  BY <2>1, <2>2, <2>3
<1>8. \A n \in Names : NodeOK(nodes[n])
  BY <1>1, <1>5
<1>9. \A n \in Names : NodeHolds(nodes[n]) \cap Range(d.tree) = {}
  BY <1>1, <1>5, <1>6, <1>7
<1>10. \A n1, n2 \in Names : n1 # n2 => NodeHolds(nodes[n1]) \cap NodeHolds(nodes[n2]) = {}
  BY <1>1, <1>5, <1>7
<1>11. CacheOK(d)
  BY <1>3, <1>4, <1>5, <1>6, <1>8, <1>9, <1>10, Zenon DEF CacheOK
<1>12. PICK U, V : U = NodesHold(nodes, Names) /\ V = NodesHold(c.nodes, Names)
  OBVIOUS
<1>13. U = (V \ NodeHolds(old)) \cup NodeHolds(new)
  <2>1. ASSUME NEW b \in U PROVE b \in (V \ NodeHolds(old)) \cup NodeHolds(new)
    <3>1. PICK n \in Names : b \in NodeHolds(nodes[n])
      BY <1>12 DEF NodesHold
    <3>2. CASE n # name
      <4>1. b \in NodeHolds(c.nodes[n]) /\ b \notin NodeHolds(old)
        BY <1>1, <1>5, <3>1, <3>2
      <4> QED  BY <1>12, <4>1 DEF NodesHold
    <3>3. CASE n = name
      BY <1>5, <3>1, <3>3
    <3> QED  BY <3>2, <3>3
  <2>2. ASSUME NEW b \in V, b \notin NodeHolds(old) PROVE b \in U
    <3>1. PICK n \in Names : b \in NodeHolds(c.nodes[n])
      BY <1>12 DEF NodesHold
    <3>2. n # name
      BY <2>2, <3>1
    <3> QED  BY <1>5, <1>12, <3>1, <3>2 DEF NodesHold
  <2>3. ASSUME NEW b \in NodeHolds(new) PROVE b \in U
    BY <1>5, <1>12 DEF NodesHold
  <2> QED  BY <2>1, <2>2, <2>3
<1>14. NodeHolds(old) \cap Range(c.tree) = {}
  BY <1>1
<1>15. CacheHolds(d) = (CacheHolds(c) \ NodeHolds(old)) \cup NodeHolds(new) \cup Range(t)
  <2>1. CacheHolds(c) = Range(c.tree) \cup V /\ CacheHolds(d) = Range(d.tree) \cup U
    BY <1>4, <1>12 DEF CacheHolds
  <2> QED  BY <1>6, <1>13, <1>14, <2>1
<1> QED  BY <1>11, <1>15, Zenon

\* Save exchanges what the cache holds for what it then holds.
LEMMA SaveOK ==
    ASSUME NEW m, MemOK(m), CacheOK(m_pRecordTree), CacheHolds(m_pRecordTree) \subseteq m.live,
           NEW name \in Names, NEW count \in Nat
    PROVE  /\ CacheOK(Save(m, name, count).cache)
           /\ Turns(m, CacheHolds(m_pRecordTree), Save(m, name, count).memory,
                    CacheHolds(Save(m, name, count).cache))
<1>1. PICK c, old : c = m_pRecordTree /\ old = c.nodes[name]
  OBVIOUS
<1>2. CacheOK(c) /\ CacheHolds(c) \subseteq m.live /\ NodeOK(old)
  BY <1>1 DEF CacheOK
<1>3. NodeHolds(old) \subseteq CacheHolds(c)
  BY <1>1 DEF CacheHolds, NodesHold
<1>4. /\ CCacheNode \in Seq({DATATYPE_OBJECT, DATATYPE_ARRAY})
      /\ CResourceRecord \in Seq({DATATYPE_OBJECT, DATATYPE_ARRAY})
      /\ <<DATATYPE_ARRAY>> \in Seq({DATATYPE_OBJECT, DATATYPE_ARRAY})
  BY DEF CCacheNode, CResourceRecord
<1>5. PICK m1, nb : m1 = New(m, CCacheNode).memory /\ nb = New(m, CCacheNode).blocks
  OBVIOUS
<1>6. MemOK(m1) /\ m1.live = m.live \cup Range(nb) /\ Clean(nb) /\ Range(nb) \cap m.live = {}
  BY <1>4, <1>5, NewOK
<1>7. PICK m2, o : /\ m2 = NewObjects(m1, count, CResourceRecord).memory
                   /\ o = NewObjects(m1, count, CResourceRecord).objects
  OBVIOUS
<1>8. /\ Items(o) /\ MemOK(m2) /\ m2.live = m1.live \cup InAll(o) /\ InAll(o) \cap m1.live = {}
  BY <1>4, <1>6, <1>7, NewObjectsOK DEF Turns
<1>9. PICK ts : ts = IF c.tree = <<>> THEN <<DATATYPE_OBJECT>> ELSE <<>>
  OBVIOUS
<1>10. ts \in Seq({DATATYPE_OBJECT, DATATYPE_ARRAY})
  <2>1. /\ <<DATATYPE_OBJECT>> \in Seq({DATATYPE_OBJECT, DATATYPE_ARRAY})
        /\ <<>> \in Seq({DATATYPE_OBJECT, DATATYPE_ARRAY})
    OBVIOUS
  <2> QED  BY <1>9, <2>1
<1>11. PICK m3, t : m3 = New(m2, ts).memory /\ t = New(m2, ts).blocks
  OBVIOUS
<1>12. MemOK(m3) /\ m3.live = m2.live \cup Range(t) /\ Clean(t) /\ Range(t) \cap m2.live = {}
  BY <1>8, <1>10, <1>11, NewOK
<1>13. PICK m4, k : m4 = New(m3, <<DATATYPE_ARRAY>>).memory /\ k = New(m3, <<DATATYPE_ARRAY>>).blocks
  OBVIOUS
<1>14. MemOK(m4) /\ m4.live = m3.live \cup Range(k) /\ Clean(k) /\ Range(k) \cap m3.live = {}
  BY <1>4, <1>12, <1>13, NewOK
<1>15. PICK key : key = IF old # NoNode THEN old.key ELSE k
  OBVIOUS
<1>16. PICK new : new = [key |-> key, node |-> nb, items |-> o]
  OBVIOUS
<1>17. new.key = key /\ new.node = nb /\ new.items = o
  BY <1>16
<1>18. PICK d : d = Put(c, name, new, t)
  OBVIOUS
<1>19. Save(m, name, count)
       = IF old # NoNode THEN [memory |-> Replaced(m3, old), cache |-> d]
                         ELSE [memory |-> m4, cache |-> d]
  BY <1>1, <1>5, <1>7, <1>9, <1>11, <1>13, <1>15, <1>16, <1>18 DEF Save, Put
<1>20. NodeHolds(old) = Range(old.key) \cup Range(old.node) \cup InAll(old.items)
  BY DEF NodeHolds
<1>21. NodeHolds(new) = Range(key) \cup Range(nb) \cup InAll(o)
  BY <1>17 DEF NodeHolds
<1>22. CASE old # NoNode
  <2>1. key = old.key /\ Clean(key)
    BY <1>2, <1>15, <1>22 DEF NodeOK
  <2>2. Range(key) \subseteq m.live
    BY <1>2, <1>3, <1>20, <2>1
  <2>3. Range(key) \cap Range(nb) = {} /\ Range(key) \cap InAll(o) = {} /\ Range(nb) \cap InAll(o) = {}
    BY <1>6, <1>8, <2>2
  <2>4. NodeOK(new)
    BY <1>6, <1>8, <1>16, <1>17, <2>1, <2>3 DEF NodeOK
  <2>5. Range(t) \cap CacheHolds(c) = {}
    BY <1>2, <1>6, <1>8, <1>12
  <2>6. NodeHolds(new) \cap Range(t) = {}
    BY <1>6, <1>8, <1>12, <1>21, <2>2
  <2>7. NodeHolds(new) \cap (CacheHolds(c) \ NodeHolds(old)) = {}
    BY <1>2, <1>6, <1>8, <1>20, <1>21, <2>1
  <2>8. /\ CacheOK(d)
        /\ CacheHolds(d) = (CacheHolds(c) \ NodeHolds(old)) \cup NodeHolds(new) \cup Range(t)
    BY <1>1, <1>2, <1>12, <1>18, <2>4, <2>5, <2>6, <2>7, CachePut
  <2>9. PICK gone : gone = Range(old.node) \cup InAll(old.items)
    OBVIOUS
  <2>10. Clean(NodeBlocks(old)) /\ Range(NodeBlocks(old)) = gone
    BY <1>2, <2>9, NodeBlocksOK
  <2>11. gone \subseteq m3.live /\ gone \cap Range(key) = {}
    BY <1>2, <1>3, <1>6, <1>8, <1>12, <1>20, <2>1, <2>9 DEF NodeOK
  <2>12. MemOK(Replaced(m3, old)) /\ Replaced(m3, old).live = m3.live \ gone
    BY <1>12, <2>10, <2>11, DeleteOK DEF Replaced, deleteCacheNode
  <2>13. NodeHolds(old) = Range(key) \cup gone
    BY <1>20, <2>1, <2>9
  <2>14. PICK mem : mem = Replaced(m3, old)
    OBVIOUS
  <2>15. mem.live = (m.live \ CacheHolds(c)) \cup CacheHolds(d)
    <3>1. m3.live = m.live \cup Range(nb) \cup InAll(o) \cup Range(t)
      BY <1>6, <1>8, <1>12
    <3>2. gone \subseteq m.live
      BY <1>2, <1>3, <2>13
    <3>3. /\ gone \cap Range(nb) = {} /\ gone \cap InAll(o) = {} /\ gone \cap Range(t) = {}
      BY <1>6, <1>8, <1>12, <3>2
    <3> QED  BY <1>2, <1>3, <1>21, <2>8, <2>11, <2>12, <2>13, <2>14, <3>1, <3>2, <3>3
  <2>16. (m.live \ CacheHolds(c)) \cap CacheHolds(d) = {}
    <3>1. Range(key) \subseteq CacheHolds(c)
      BY <1>3, <2>13
    <3>2. Range(nb) \cap m.live = {} /\ InAll(o) \cap m.live = {} /\ Range(t) \cap m.live = {}
      BY <1>6, <1>8, <1>12
    <3> QED  BY <1>21, <2>8, <3>1, <3>2
  <2> QED  BY <1>1, <1>19, <1>22, <2>8, <2>12, <2>14, <2>15, <2>16 DEF Turns
<1>23. CASE old = NoNode
  <2>1. key = k /\ Clean(key)
    BY <1>14, <1>15, <1>23
  <2>2. Range(key) \cap Range(nb) = {} /\ Range(key) \cap InAll(o) = {} /\ Range(nb) \cap InAll(o) = {}
    BY <1>6, <1>8, <1>12, <1>14, <2>1
  <2>3. NodeOK(new)
    BY <1>6, <1>8, <1>16, <1>17, <2>1, <2>2 DEF NodeOK
  <2>4. /\ Range(key) \cap m.live = {} /\ Range(nb) \cap m.live = {} /\ InAll(o) \cap m.live = {}
        /\ Range(t) \cap m.live = {} /\ Range(key) \cap Range(t) = {}
        /\ Range(nb) \cap Range(t) = {} /\ InAll(o) \cap Range(t) = {}
    BY <1>6, <1>8, <1>12, <1>14, <2>1
  <2>5. Range(t) \cap CacheHolds(c) = {}
    BY <1>2, <2>4
  <2>6. NodeHolds(new) \cap Range(t) = {}
    BY <1>21, <2>4
  <2>7. NodeHolds(new) \cap (CacheHolds(c) \ NodeHolds(old)) = {}
    BY <1>2, <1>21, <2>4
  <2>8. /\ CacheOK(d)
        /\ CacheHolds(d) = (CacheHolds(c) \ NodeHolds(old)) \cup NodeHolds(new) \cup Range(t)
    BY <1>1, <1>2, <1>12, <1>18, <2>3, <2>5, <2>6, <2>7, CachePut
  <2>9. NodeHolds(old) = {}
    BY <1>23, NoNodeOK
  <2>10. m4.live = (m.live \ CacheHolds(c)) \cup CacheHolds(d)
    <3>1. m4.live = m.live \cup Range(nb) \cup InAll(o) \cup Range(t) \cup Range(key)
      BY <1>6, <1>8, <1>12, <1>14, <2>1
    <3> QED  BY <1>2, <1>21, <2>8, <2>9, <3>1
  <2>11. (m.live \ CacheHolds(c)) \cap CacheHolds(d) = {}
    BY <1>21, <2>4, <2>8
  <2> QED  BY <1>1, <1>14, <1>19, <1>23, <2>8, <2>10, <2>11 DEF Turns
<1> QED  BY <1>22, <1>23

\* cache exchanges what the cache holds, if it does anything, and leaves nothing
\* else behind.
LEMMA cacheOK ==
    ASSUME NEW m, MemOK(m), CacheOK(m_pRecordTree), CacheHolds(m_pRecordTree) \subseteq m.live,
           NEW name \in Names, NEW message, ListsOK(message), NEW lives
    PROVE  /\ CacheOK(cache(m, name, message, lives).cache)
           /\ Turns(m, CacheHolds(m_pRecordTree), cache(m, name, message, lives).memory,
                    CacheHolds(cache(m, name, message, lives).cache))
<1>1. PICK count : count = Len(message[2].items) + Len(message[3].items) + Len(message[4].items)
  OBVIOUS
<1>2. count \in Nat
  <2>1. /\ Len(message[2].items) \in Nat /\ Len(message[3].items) \in Nat
        /\ Len(message[4].items) \in Nat
    <3>1. ASSUME NEW k \in 1 .. 4 PROVE Len(message[k].items) \in Nat
      BY DEF ListsOK, ListOK, Items
    <3>2. 2 \in 1 .. 4 /\ 3 \in 1 .. 4 /\ 4 \in 1 .. 4
      OBVIOUS
    <3> QED  BY <3>1, <3>2, Zenon
  <2>2. PICK n2, n3, n4 : /\ n2 = Len(message[2].items) /\ n3 = Len(message[3].items)
                          /\ n4 = Len(message[4].items)
    OBVIOUS
  <2>3. n2 \in Nat /\ n3 \in Nat /\ n4 \in Nat
    BY <2>1, <2>2, Zenon
  <2>4. count = n2 + n3 + n4
    BY <1>1, <2>2, Zenon
  <2> QED  BY <2>3, <2>4
<1>3. PICK C, c : C = CacheHolds(m_pRecordTree) /\ c = m_pRecordTree
  OBVIOUS
<1>4. PICK m1, rrs : m1 = New(m, <<DATATYPE_ARRAY>>).memory /\ rrs = New(m, <<DATATYPE_ARRAY>>).blocks
  OBVIOUS
<1>5. MemOK(m1) /\ m1.live = m.live \cup Range(rrs) /\ Clean(rrs) /\ Range(rrs) \cap m.live = {}
  <2>1. <<DATATYPE_ARRAY>> \in Seq({DATATYPE_OBJECT, DATATYPE_ARRAY})
    OBVIOUS
  <2> QED  BY <1>4, <2>1, NewOK
<1>6. PICK m2, d : m2 = Save(m1, name, count).memory /\ d = Save(m1, name, count).cache
  OBVIOUS
<1>7. CacheOK(d) /\ Turns(m1, C, m2, CacheHolds(d))
  <2>1. CacheHolds(m_pRecordTree) \subseteq m1.live
    BY <1>5
  <2> QED  BY <1>2, <1>3, <1>5, <1>6, <2>1, SaveOK
<1>8. cache(m, name, message, lives)
      = IF count = 0 THEN [memory |-> m, cache |-> c]
        ELSE IF ~lives THEN [memory |-> Delete(m1, rrs), cache |-> c]
        ELSE [memory |-> Delete(m2, rrs), cache |-> d]
  BY <1>1, <1>3, <1>4, <1>6 DEF cache
<1>9. CASE count = 0
  <2>1. Turns(m, C, m, C)
    BY <1>3 DEF Turns
  <2> QED  BY <1>3, <1>8, <1>9, <2>1
<1>10. CASE count # 0 /\ ~lives
  <2>1. MemOK(Delete(m1, rrs)) /\ Delete(m1, rrs).live = m1.live \ Range(rrs)
    <3>1. Range(rrs) \subseteq m1.live
      BY <1>5
    <3> QED  BY <1>5, <3>1, DeleteOK
  <2>2. Turns(m, C, Delete(m1, rrs), C)
    BY <1>3, <1>5, <2>1 DEF Turns
  <2> QED  BY <1>3, <1>8, <1>10, <2>2
<1>11. CASE count # 0 /\ lives
  <2>1. /\ MemOK(m2) /\ m2.live = (m1.live \ C) \cup CacheHolds(d)
        /\ (m1.live \ C) \cap CacheHolds(d) = {}
    BY <1>7 DEF Turns
  <2>2. Range(rrs) \cap C = {} /\ Range(rrs) \subseteq m2.live /\ Range(rrs) \cap CacheHolds(d) = {}
    BY <1>3, <1>5, <2>1
  <2>3. MemOK(Delete(m2, rrs)) /\ Delete(m2, rrs).live = m2.live \ Range(rrs)
    BY <1>5, <2>1, <2>2, DeleteOK
  <2>4. Turns(m, C, Delete(m2, rrs), CacheHolds(d))
    BY <1>3, <1>5, <2>1, <2>2, <2>3 DEF Turns
  <2> QED  BY <1>3, <1>7, <1>8, <1>11, <2>4
<1> QED  BY <1>9, <1>10, <1>11

\* The cache after a clean-up holds what the nodes that are left hold.
LEMMA RemoveExpiredOK ==
    ASSUME NEW m, MemOK(m), CacheOK(m_pRecordTree), CacheHolds(m_pRecordTree) \subseteq m.live,
           NEW expired \in SUBSET Cached
    PROVE  /\ CacheOK(RemoveExpired(m, expired).cache)
           /\ MemOK(RemoveExpired(m, expired).memory)
           /\ CacheHolds(RemoveExpired(m, expired).cache) \subseteq CacheHolds(m_pRecordTree)
           /\ RemoveExpired(m, expired).memory.live
              = (m.live \ CacheHolds(m_pRecordTree)) \cup CacheHolds(RemoveExpired(m, expired).cache)
<1>1. PICK c : c = m_pRecordTree
  OBVIOUS
<1>2. /\ Clean(c.tree)
      /\ \A n \in Names : NodeOK(c.nodes[n]) /\ NodeHolds(c.nodes[n]) \cap Range(c.tree) = {}
      /\ \A n1, n2 \in Names : n1 # n2 => NodeHolds(c.nodes[n1]) \cap NodeHolds(c.nodes[n2]) = {}
  BY <1>1 DEF CacheOK
<1>3. expired \subseteq Names /\ IsFiniteSet(expired)
  <2>1. expired \subseteq Names
    BY DEF Cached
  <2> QED  BY <2>1, FiniteAssumption, FS_Subset
<1>4. PICK f, g : /\ f = [name \in Names |-> NodeBlocks(m_pRecordTree.nodes[name])]
                  /\ g = [name \in Names |-> m_pRecordTree.nodes[name].key]
  OBVIOUS
<1>5. /\ \A n \in Names : f[n] = NodeBlocks(c.nodes[n]) /\ g[n] = c.nodes[n].key
  BY <1>1, <1>4
<1>6. \A n \in Names : /\ Clean(f[n]) /\ Clean(g[n])
                       /\ Range(f[n]) \cup Range(g[n]) = NodeHolds(c.nodes[n])
                       /\ Range(f[n]) \cap Range(g[n]) = {}
  <2> TAKE n \in Names
  <2>1. PICK node : node = c.nodes[n]
    OBVIOUS
  <2>2. NodeOK(node) /\ f[n] = NodeBlocks(node) /\ g[n] = node.key
    BY <1>2, <1>5, <2>1
  <2>3. Clean(NodeBlocks(node)) /\ Range(NodeBlocks(node)) = Range(node.node) \cup InAll(node.items)
    BY <2>2, NodeBlocksOK
  <2> QED  BY <2>1, <2>2, <2>3 DEF NodeOK, NodeHolds
<1>7. \A n1, n2 \in Names : n1 # n2 =>
          /\ Range(f[n1]) \cap Range(f[n2]) = {}
          /\ Range(g[n1]) \cap Range(g[n2]) = {}
          /\ Range(f[n1]) \cap Range(g[n2]) = {}
  <2> SUFFICES ASSUME NEW n1 \in Names, NEW n2 \in Names, n1 # n2
               PROVE  /\ Range(f[n1]) \cap Range(f[n2]) = {}
                      /\ Range(g[n1]) \cap Range(g[n2]) = {}
                      /\ Range(f[n1]) \cap Range(g[n2]) = {}
    OBVIOUS
  <2>1. NodeHolds(c.nodes[n1]) \cap NodeHolds(c.nodes[n2]) = {}
    BY <1>2
  <2> QED  BY <1>6, <2>1
<1>8. PICK a, k : a = AllOf(f, expired) /\ k = AllOf(g, expired)
  OBVIOUS
<1>9. Clean(a) /\ Range(a) = UNION {Range(f[n]) : n \in expired}
  <2>1. \A n \in expired : Clean(f[n])
    BY <1>3, <1>6
  <2>2. \A n1, n2 \in expired : n1 # n2 => Range(f[n1]) \cap Range(f[n2]) = {}
    BY <1>3, <1>7
  <2> QED  BY <1>3, <1>8, <2>1, <2>2, AllOfOK
<1>10. Clean(k) /\ Range(k) = UNION {Range(g[n]) : n \in expired}
  <2>1. \A n \in expired : Clean(g[n])
    BY <1>3, <1>6
  <2>2. \A n1, n2 \in expired : n1 # n2 => Range(g[n1]) \cap Range(g[n2]) = {}
    BY <1>3, <1>7
  <2> QED  BY <1>3, <1>8, <2>1, <2>2, AllOfOK
<1>11. Range(a) \cap Range(k) = {}
  <2> SUFFICES ASSUME NEW n1 \in expired, NEW n2 \in expired
               PROVE  Range(f[n1]) \cap Range(g[n2]) = {}
    BY <1>9, <1>10
  <2>1. n1 \in Names /\ n2 \in Names
    BY <1>3
  <2>2. CASE n1 = n2
    BY <1>6, <2>1, <2>2
  <2>3. CASE n1 # n2
    BY <1>7, <2>1, <2>3
  <2> QED  BY <2>2, <2>3
<1>12. Range(a) \cup Range(k) = NodesHold(c.nodes, expired)
  <2>1. \A n \in expired : Range(f[n]) \cup Range(g[n]) = NodeHolds(c.nodes[n])
    BY <1>3, <1>6
  <2> QED  BY <1>9, <1>10, <2>1 DEF NodesHold
<1>13. PICK t : t = IF expired = Cached THEN m_pRecordTree.tree ELSE <<>>
  OBVIOUS
<1>14. PICK keep : keep = IF expired = Cached THEN <<>> ELSE m_pRecordTree.tree
  OBVIOUS
<1>15. /\ Clean(t) /\ Clean(keep) /\ Range(t) \cap Range(keep) = {}
       /\ Range(t) \cup Range(keep) = Range(c.tree)
  <2>1. Clean(<<>>) /\ Range(<<>>) = {}
    BY DEF Clean, IsInjective, Range
  <2> QED  BY <1>1, <1>2, <1>13, <1>14, <2>1
<1>16. NodesHold(c.nodes, expired) \cap Range(c.tree) = {}
  BY <1>2, <1>3 DEF NodesHold
<1>17. PICK ak : ak = a \o k
  OBVIOUS
<1>18. Clean(ak) /\ Range(ak) = NodesHold(c.nodes, expired)
  <2>1. /\ a \o k \in Seq(Block) /\ IsInjective(a \o k)
        /\ Range(a \o k) = Range(a) \cup Range(k)
    BY <1>9, <1>10, <1>11, ConcatClean DEF Clean
  <2> QED  BY <1>12, <1>17, <2>1 DEF Clean
<1>19. PICK all : all = ak \o t
  OBVIOUS
<1>20. Clean(all) /\ Range(all) = NodesHold(c.nodes, expired) \cup Range(t)
  <2>1. Range(ak) \cap Range(t) = {}
    BY <1>15, <1>16, <1>18
  <2>2. /\ ak \o t \in Seq(Block) /\ IsInjective(ak \o t)
        /\ Range(ak \o t) = Range(ak) \cup Range(t)
    BY <1>15, <1>18, <2>1, ConcatClean DEF Clean
  <2> QED  BY <1>18, <1>19, <2>2 DEF Clean
<1>21. CacheHolds(c) = Range(c.tree) \cup NodesHold(c.nodes, Names)
  BY DEF CacheHolds
<1>22. NodesHold(c.nodes, expired) \subseteq NodesHold(c.nodes, Names)
  BY <1>3 DEF NodesHold
<1>23. PICK nodes : nodes = [name \in Names |-> IF name \in expired THEN NoNode
                                                ELSE m_pRecordTree.nodes[name]]
  OBVIOUS
<1>24. PICK d : d = [tree |-> keep, nodes |-> nodes]
  OBVIOUS
<1>25. RemoveExpired(m, expired) = [memory |-> Delete(m, all), cache |-> d]
  BY <1>4, <1>8, <1>13, <1>14, <1>17, <1>19, <1>23, <1>24, Zenon DEF RemoveExpired
<1>26. Range(all) \subseteq m.live
  BY <1>1, <1>15, <1>20, <1>21, <1>22
<1>27. MemOK(Delete(m, all)) /\ Delete(m, all).live = m.live \ Range(all)
  BY <1>20, <1>26, DeleteOK
<1>28. /\ d.tree = keep /\ d.nodes = nodes
       /\ nodes = [n \in Names |-> nodes[n]]
       /\ \A n \in Names : n \in expired => nodes[n] = NoNode
       /\ \A n \in Names : n \notin expired => nodes[n] = c.nodes[n]
  BY <1>1, <1>23, <1>24
<1>29. \A n \in Names : NodeOK(nodes[n]) /\ NodeHolds(nodes[n]) \subseteq NodeHolds(c.nodes[n])
  BY <1>2, <1>28, NoNodeOK
<1>30. CacheOK(d)
  <2>1. \A n \in Names : NodeHolds(nodes[n]) \cap Range(keep) = {}
    BY <1>2, <1>15, <1>29
  <2>2. ASSUME NEW n1 \in Names, NEW n2 \in Names, n1 # n2
        PROVE  NodeHolds(nodes[n1]) \cap NodeHolds(nodes[n2]) = {}
    <3>1. NodeHolds(c.nodes[n1]) \cap NodeHolds(c.nodes[n2]) = {}
      BY <1>2, <2>2
    <3> QED  BY <1>29, <3>1
  <2> QED  BY <1>15, <1>24, <1>28, <1>29, <2>1, <2>2, Zenon DEF CacheOK
<1>31. PICK E, A, R : /\ E = NodesHold(c.nodes, expired) /\ A = NodesHold(c.nodes, Names)
                      /\ R = NodesHold(nodes, Names)
  OBVIOUS
<1>32. R = A \ E
  <2>1. ASSUME NEW b \in R PROVE b \in A \ E
    <3>1. PICK n \in Names : b \in NodeHolds(nodes[n])
      BY <1>31 DEF NodesHold
    <3>2. n \notin expired /\ b \in NodeHolds(c.nodes[n])
      BY <1>28, <3>1, NoNodeOK
    <3>3. ASSUME NEW x \in expired PROVE b \notin NodeHolds(c.nodes[x])
      <4>1. x \in Names /\ x # n
        BY <1>3, <3>2
      <4>2. NodeHolds(c.nodes[x]) \cap NodeHolds(c.nodes[n]) = {}
        BY <1>2, <4>1
      <4> QED  BY <3>2, <4>2
    <3> QED  BY <1>31, <3>2, <3>3 DEF NodesHold
  <2>2. ASSUME NEW b \in A, b \notin E PROVE b \in R
    <3>1. PICK n \in Names : b \in NodeHolds(c.nodes[n])
      BY <1>31 DEF NodesHold
    <3>2. n \notin expired
      BY <1>31, <2>2, <3>1 DEF NodesHold
    <3> QED  BY <1>28, <1>31, <3>1, <3>2 DEF NodesHold
  <2> QED  BY <2>1, <2>2
<1>33. CacheHolds(d) = Range(keep) \cup R
  BY <1>28, <1>31 DEF CacheHolds
<1>34. A \cap Range(c.tree) = {}
  BY <1>2, <1>31 DEF NodesHold
<1>35. PICK mem, C, D : mem = Delete(m, all) /\ C = CacheHolds(c) /\ D = CacheHolds(d)
  OBVIOUS
<1>36. C \subseteq m.live /\ C = Range(c.tree) \cup A /\ D = Range(keep) \cup (A \ E) /\ E \subseteq A
  BY <1>1, <1>21, <1>22, <1>31, <1>32, <1>33, <1>35
<1>37. mem.live = m.live \ (E \cup Range(t))
  BY <1>20, <1>27, <1>31, <1>35
<1>38. D \subseteq C /\ mem.live = (m.live \ C) \cup D
  BY <1>15, <1>34, <1>36, <1>37
<1> QED  BY <1>1, <1>25, <1>27, <1>30, <1>35, <1>38

-----------------------------------------------------------------------------
(* The configuration                                                       *)

\* The memory and lists of a configuration that is being read, and whatever else
\* is there: the blocks X.
Keeps(r, X) ==
    /\ r = [memory |-> r.memory, lists |-> r.lists]
    /\ MemOK(r.memory) /\ ListsOK(r.lists)
    /\ r.memory.live = ListsHold(r.lists) \cup X /\ ListsHold(r.lists) \cap X = {}

\* Lists with the same arrays.
SameArrays(lists, other) == \A k \in 1 .. 4 : lists[k].array = other[k].array

\* From r to s, list k has got one more object.
OneMore(r, s, k) ==
    \E o : /\ Clean(o) /\ Range(o) \cap r.memory.live = {}
          /\ s.memory.live = r.memory.live \cup Range(o)
          /\ s.lists[k].items = Append(r.lists[k].items, o)

\* The kinds of a single array.
LEMMA OneArray == <<DATATYPE_ARRAY>> \in Seq({DATATYPE_OBJECT, DATATYPE_ARRAY})
OBVIOUS

\* An array that is only looked at leaves nothing.
LEMMA LookedOK ==
    ASSUME NEW m, MemOK(m)
    PROVE  MemOK(Looked(m)) /\ Looked(m).live = m.live
<1>1. PICK m1, a : m1 = New(m, <<DATATYPE_ARRAY>>).memory /\ a = New(m, <<DATATYPE_ARRAY>>).blocks
  OBVIOUS
<1>2. MemOK(m1) /\ m1.live = m.live \cup Range(a) /\ Clean(a) /\ Range(a) \cap m.live = {}
  BY <1>1, OneArray, NewOK
<1>3. Looked(m) = Delete(m1, a)
  BY <1>1 DEF Looked
<1>4. Range(a) \subseteq m1.live
  BY <1>2
<1>5. MemOK(Delete(m1, a)) /\ Delete(m1, a).live = m1.live \ Range(a)
  BY <1>2, <1>4, DeleteOK
<1> QED  BY <1>2, <1>3, <1>5

\* One list of four is exchanged for another one.
LEMMA ListPut ==
    ASSUME NEW lists, ListsOK(lists), NEW k \in 1 .. 4, NEW list, ListOK(list),
           NEW others, \A j \in 1 .. 4 : j # k => others[j] = lists[j],
           others[k] = list, DOMAIN others = 1 .. 4,
           ListHolds(lists[k]) \subseteq ListHolds(list),
           NEW new, ListHolds(list) = ListHolds(lists[k]) \cup new, new \cap ListsHold(lists) = {}
    PROVE  ListsOK(others) /\ ListsHold(others) = ListsHold(lists) \cup new
<1>1. \A j \in 1 .. 4 : ListHolds(lists[j]) \subseteq ListsHold(lists)
  BY DEF ListsHold
<1>2. \A j \in 1 .. 4 : ListOK(others[j])
  BY DEF ListsOK
<1>3. ASSUME NEW i \in 1 .. 4, NEW j \in 1 .. 4, i # j
      PROVE  ListHolds(others[i]) \cap ListHolds(others[j]) = {}
  <2>1. ListHolds(lists[i]) \cap ListHolds(lists[j]) = {}
    BY <1>3 DEF ListsOK
  <2>2. CASE i = k
    BY <1>1, <1>3, <2>1, <2>2
  <2>3. CASE j = k
    BY <1>1, <1>3, <2>1, <2>3
  <2>4. CASE i # k /\ j # k
    BY <2>1, <2>4
  <2> QED  BY <2>2, <2>3, <2>4
<1>4. ListsHold(others) = ListsHold(lists) \cup new
  <2>1. 1 \in 1 .. 4 /\ 2 \in 1 .. 4 /\ 3 \in 1 .. 4 /\ 4 \in 1 .. 4
    OBVIOUS
  <2>2. k = 1 \/ k = 2 \/ k = 3 \/ k = 4
    OBVIOUS
  <2>3. CASE k = 1
    BY <2>1, <2>3 DEF ListsHold
  <2>4. CASE k = 2
    BY <2>1, <2>4 DEF ListsHold
  <2>5. CASE k = 3
    BY <2>1, <2>5 DEF ListsHold
  <2>6. CASE k = 4
    BY <2>1, <2>6 DEF ListsHold
  <2> QED  BY <2>2, <2>3, <2>4, <2>5, <2>6
<1> QED  BY <1>2, <1>3, <1>4 DEF ListsOK

\* A new object is the list's alone.
LEMMA AddedOK ==
    ASSUME NEW r, NEW X, Keeps(r, X), NEW k \in 1 .. 4,
           NEW shape \in Seq({DATATYPE_OBJECT, DATATYPE_ARRAY})
    PROVE  /\ Keeps(Added(r, k, shape), X)
           /\ SameArrays(r.lists, Added(r, k, shape).lists)
           /\ OneMore(r, Added(r, k, shape), k)
<1>1. PICK m, o : m = New(r.memory, shape).memory /\ o = New(r.memory, shape).blocks
  OBVIOUS
<1>2. MemOK(m) /\ m.live = r.memory.live \cup Range(o) /\ Clean(o) /\ Range(o) \cap r.memory.live = {}
  BY <1>1, NewOK DEF Keeps
<1>3. PICK lists : lists = r.lists
  OBVIOUS
<1>4. ListsOK(lists) /\ r.memory.live = ListsHold(lists) \cup X /\ ListsHold(lists) \cap X = {}
  BY <1>3 DEF Keeps
<1>5. PICK list : list = lists[k]
  OBVIOUS
<1>6. /\ list = [array |-> list.array, items |-> list.items]
      /\ Clean(list.array) /\ Items(list.items) /\ Range(list.array) \cap InAll(list.items) = {}
  BY <1>4, <1>5 DEF ListsOK, ListOK
<1>7. PICK items : items = Append(list.items, o)
  OBVIOUS
<1>8. PICK put : put = [list EXCEPT !.items = items]
  OBVIOUS
<1>9. put.array = list.array /\ put.items = items /\ put = [array |-> put.array, items |-> put.items]
  BY <1>6, <1>8
<1>10. ListHolds(list) = Range(list.array) \cup InAll(list.items) /\ ListHolds(list) \subseteq ListsHold(lists)
  <2>1. k = 1 \/ k = 2 \/ k = 3 \/ k = 4
    OBVIOUS
  <2> QED  BY <1>5, <2>1 DEF ListHolds, ListsHold
<1>11. Items(items) /\ InAll(items) = InAll(list.items) \cup Range(o)
  <2>1. Range(o) \cap InAll(list.items) = {}
    BY <1>2, <1>4, <1>10
  <2> QED  BY <1>2, <1>6, <1>7, <2>1, ItemAdded
<1>12. ListOK(put) /\ ListHolds(put) = ListHolds(list) \cup Range(o)
  BY <1>2, <1>4, <1>6, <1>9, <1>10, <1>11 DEF ListOK, ListHolds
<1>13. PICK others : others = [lists EXCEPT ![k].items = Append(@, o)]
  OBVIOUS
<1>14. /\ DOMAIN others = 1 .. 4 /\ others[k] = put
       /\ \A j \in 1 .. 4 : j # k => others[j] = lists[j]
  <2>1. DOMAIN lists = 1 .. 4
    BY <1>4 DEF ListsOK
  <2> QED  BY <1>5, <1>7, <1>8, <1>13, <2>1
<1>15. ListsOK(others) /\ ListsHold(others) = ListsHold(lists) \cup Range(o)
  <2>1. ListHolds(lists[k]) \subseteq ListHolds(put) /\ ListHolds(put) = ListHolds(lists[k]) \cup Range(o)
    BY <1>5, <1>12
  <2>2. Range(o) \cap ListsHold(lists) = {}
    BY <1>2, <1>4
  <2> QED  BY <1>4, <1>12, <1>14, <2>1, <2>2, ListPut
<1>16. Added(r, k, shape) = [memory |-> m, lists |-> others]
  BY <1>1, <1>3, <1>13 DEF Added
<1>17. Keeps([memory |-> m, lists |-> others], X)
  BY <1>2, <1>4, <1>15 DEF Keeps
<1>18. SameArrays(r.lists, others)
  BY <1>3, <1>5, <1>9, <1>14 DEF SameArrays
<1>19. others[k].items = Append(r.lists[k].items, o)
  BY <1>3, <1>5, <1>7, <1>9, <1>14
<1>20. OneMore(r, [memory |-> m, lists |-> others], k)
  BY <1>2, <1>19 DEF OneMore
<1> QED  BY <1>16, <1>17, <1>18, <1>20

\* The array of a list that had none.
LEMMA WithArrayOK ==
    ASSUME NEW r, NEW X, Keeps(r, X), NEW k \in 1 .. 4, Range(r.lists[k].array) = {}
    PROVE  /\ Keeps(WithArray(r, k), X)
           /\ \A j \in 1 .. 4 : j # k => WithArray(r, k).lists[j].array = r.lists[j].array
<1>1. PICK m, a : m = New(r.memory, <<DATATYPE_ARRAY>>).memory /\ a = New(r.memory, <<DATATYPE_ARRAY>>).blocks
  OBVIOUS
<1>2. MemOK(m) /\ m.live = r.memory.live \cup Range(a) /\ Clean(a) /\ Range(a) \cap r.memory.live = {}
  BY <1>1, OneArray, NewOK DEF Keeps
<1>3. PICK lists : lists = r.lists
  OBVIOUS
<1>4. ListsOK(lists) /\ r.memory.live = ListsHold(lists) \cup X /\ ListsHold(lists) \cap X = {}
  BY <1>3 DEF Keeps
<1>5. PICK list : list = lists[k]
  OBVIOUS
<1>6. /\ list = [array |-> list.array, items |-> list.items]
      /\ Items(list.items) /\ Range(list.array) = {}
  BY <1>3, <1>4, <1>5 DEF ListsOK, ListOK
<1>7. PICK put : put = [list EXCEPT !.array = a]
  OBVIOUS
<1>8. put.array = a /\ put.items = list.items /\ put = [array |-> put.array, items |-> put.items]
  BY <1>6, <1>7
<1>9. ListHolds(list) = InAll(list.items) /\ ListHolds(list) \subseteq ListsHold(lists)
  <2>1. k = 1 \/ k = 2 \/ k = 3 \/ k = 4
    OBVIOUS
  <2> QED  BY <1>5, <1>6, <2>1 DEF ListHolds, ListsHold
<1>10. ListOK(put) /\ ListHolds(put) = ListHolds(list) \cup Range(a)
  BY <1>2, <1>4, <1>6, <1>8, <1>9 DEF ListOK, ListHolds
<1>11. PICK others : others = [lists EXCEPT ![k].array = a]
  OBVIOUS
<1>12. /\ DOMAIN others = 1 .. 4 /\ others[k] = put
       /\ \A j \in 1 .. 4 : j # k => others[j] = lists[j]
  <2>1. DOMAIN lists = 1 .. 4
    BY <1>4 DEF ListsOK
  <2> QED  BY <1>5, <1>7, <1>11, <2>1
<1>13. ListsOK(others) /\ ListsHold(others) = ListsHold(lists) \cup Range(a)
  <2>1. ListHolds(lists[k]) \subseteq ListHolds(put) /\ ListHolds(put) = ListHolds(lists[k]) \cup Range(a)
    BY <1>5, <1>10
  <2>2. Range(a) \cap ListsHold(lists) = {}
    BY <1>2, <1>4
  <2> QED  BY <1>4, <1>10, <1>12, <2>1, <2>2, ListPut
<1>14. WithArray(r, k) = [memory |-> m, lists |-> others]
  BY <1>1, <1>3, <1>11 DEF WithArray
<1>15. Keeps([memory |-> m, lists |-> others], X)
  BY <1>2, <1>4, <1>13 DEF Keeps
<1> QED  BY <1>3, <1>12, <1>14, <1>15

\* A server, or the line that is none.
LEMMA DnsServerFromStringOK ==
    ASSUME NEW r, NEW X, Keeps(r, X), NEW reads
    PROVE  /\ Keeps(DnsServerFromString(r, reads), X)
           /\ SameArrays(r.lists, DnsServerFromString(r, reads).lists)
<1>1. PICK s : s = [r EXCEPT !.memory = Looked(@)]
  OBVIOUS
<1>2. s = [memory |-> Looked(r.memory), lists |-> r.lists] /\ s.lists = r.lists /\ s.memory = Looked(r.memory)
  BY <1>1 DEF Keeps
<1>3. Keeps(s, X)
  <2>1. MemOK(Looked(r.memory)) /\ Looked(r.memory).live = r.memory.live
    BY LookedOK DEF Keeps
  <2> QED  BY <1>2, <2>1 DEF Keeps
<1>4. /\ CSecondaryServer \in Seq({DATATYPE_OBJECT, DATATYPE_ARRAY})
      /\ CNameFilter \in Seq({DATATYPE_OBJECT, DATATYPE_ARRAY})
      /\ m_Servers \in 1 .. 4 /\ m_WhiteList \in 1 .. 4
  BY DEF CSecondaryServer, CNameFilter, m_Servers, m_WhiteList
<1>5. /\ Keeps(Added(s, m_Servers, CSecondaryServer), X)
      /\ SameArrays(s.lists, Added(s, m_Servers, CSecondaryServer).lists)
  BY <1>3, <1>4, AddedOK
<1>6. /\ Keeps(Added(s, m_WhiteList, CNameFilter), X)
      /\ SameArrays(s.lists, Added(s, m_WhiteList, CNameFilter).lists)
  BY <1>3, <1>4, AddedOK
<1>7. DnsServerFromString(r, reads)
      = IF reads THEN Added(s, m_Servers, CSecondaryServer) ELSE Added(s, m_WhiteList, CNameFilter)
  BY <1>1 DEF DnsServerFromString
<1> QED  BY <1>2, <1>5, <1>6, <1>7

\* A record; one that is there already leaves nothing.
LEMMA LocalRecordFromStringOK ==
    ASSUME NEW r, NEW X, Keeps(r, X), NEW contained
    PROVE  /\ Keeps(LocalRecordFromString(r, contained), X)
           /\ SameArrays(r.lists, LocalRecordFromString(r, contained).lists)
<1>1. PICK m1, a : m1 = New(r.memory, <<DATATYPE_ARRAY>>).memory /\ a = New(r.memory, <<DATATYPE_ARRAY>>).blocks
  OBVIOUS
<1>2. MemOK(m1) /\ m1.live = r.memory.live \cup Range(a) /\ Clean(a) /\ Range(a) \cap r.memory.live = {}
  BY <1>1, OneArray, NewOK DEF Keeps
<1>3. PICK m2, b : m2 = New(m1, <<DATATYPE_ARRAY>>).memory /\ b = New(m1, <<DATATYPE_ARRAY>>).blocks
  OBVIOUS
<1>4. MemOK(m2) /\ m2.live = m1.live \cup Range(b) /\ Clean(b) /\ Range(b) \cap m1.live = {}
  BY <1>2, <1>3, OneArray, NewOK
<1>5. PICK s : s = [r EXCEPT !.memory = m2]
  OBVIOUS
<1>6. s = [memory |-> m2, lists |-> r.lists] /\ s.lists = r.lists /\ s.memory = m2
  BY <1>5 DEF Keeps
<1>7. PICK Y : Y = X \cup Range(a) \cup Range(b)
  OBVIOUS
<1>8. r.memory.live = ListsHold(r.lists) \cup X /\ ListsHold(r.lists) \cap X = {} /\ ListsOK(r.lists)
  BY DEF Keeps
<1>9. Keeps(s, Y)
  <2>1. m2.live = ListsHold(r.lists) \cup Y /\ ListsHold(r.lists) \cap Y = {}
    BY <1>2, <1>4, <1>7, <1>8
  <2> QED  BY <1>4, <1>6, <1>8, <2>1 DEF Keeps
<1>10. PICK put : put = Added(s, m_pLocalRecords, CLocalRecord)
  OBVIOUS
<1>11. /\ CLocalRecord \in Seq({DATATYPE_OBJECT, DATATYPE_ARRAY}) /\ m_pLocalRecords \in 1 .. 4
  BY DEF CLocalRecord, m_pLocalRecords
<1>12. Keeps(put, Y) /\ SameArrays(s.lists, put.lists) /\ OneMore(s, put, m_pLocalRecords)
  BY <1>9, <1>10, <1>11, AddedOK
<1>13. PICK o : /\ Clean(o) /\ Range(o) \cap m2.live = {} /\ put.memory.live = m2.live \cup Range(o)
                /\ put.lists[m_pLocalRecords].items = Append(r.lists[m_pLocalRecords].items, o)
  BY <1>6, <1>12 DEF OneMore
<1>14. PICK ba : ba = b \o a
  OBVIOUS
<1>15. Clean(ba) /\ Range(ba) = Range(a) \cup Range(b)
  <2>1. Range(b) \cap Range(a) = {}
    BY <1>2, <1>4
  <2>2. b \o a \in Seq(Block) /\ IsInjective(b \o a) /\ Range(b \o a) = Range(b) \cup Range(a)
    BY <1>2, <1>4, <2>1, ConcatClean DEF Clean
  <2> QED  BY <1>14, <2>2 DEF Clean
<1>16. PICK m3 : m3 = Delete(put.memory, ba)
  OBVIOUS
<1>17. /\ MemOK(put.memory) /\ ListsOK(put.lists)
       /\ put.memory.live = ListsHold(put.lists) \cup Y /\ ListsHold(put.lists) \cap Y = {}
       /\ put = [memory |-> put.memory, lists |-> put.lists]
  BY <1>12 DEF Keeps
<1>18. MemOK(m3) /\ m3.live = put.memory.live \ Range(ba)
  <2>1. Range(ba) \subseteq put.memory.live
    BY <1>7, <1>15, <1>17
  <2> QED  BY <1>15, <1>16, <1>17, <2>1, DeleteOK
<1>19. PICK left : left = [put EXCEPT !.memory = m3]
  OBVIOUS
<1>20. left = [memory |-> m3, lists |-> put.lists] /\ left.memory = m3 /\ left.lists = put.lists
  BY <1>17, <1>19
<1>21. LocalRecordFromString(r, contained)
       = IF contained
         THEN [left EXCEPT !.memory = Delete(@, Last(put.lists[m_pLocalRecords].items)),
                           !.lists = r.lists]
         ELSE left
  BY <1>1, <1>3, <1>5, <1>10, <1>14, <1>16, <1>19 DEF LocalRecordFromString
<1>22. CASE contained
  <2>1. Last(put.lists[m_pLocalRecords].items) = o
    <3>1. PICK items : items = r.lists[m_pLocalRecords].items
      OBVIOUS
    <3>2. items \in Seq(Seq(Block))
      BY <1>8, <1>11, <3>1 DEF ListsOK, ListOK, Items
    <3>3. Len(Append(items, o)) = Len(items) + 1 /\ Append(items, o)[Len(items) + 1] = o
      BY <3>2
    <3> QED  BY <1>13, <3>1, <3>3 DEF Last
  <2>2. LocalRecordFromString(r, contained) = [memory |-> Delete(m3, o), lists |-> r.lists]
    BY <1>20, <1>21, <1>22, <2>1
  <2>3. Range(o) \subseteq m3.live
    BY <1>2, <1>4, <1>13, <1>15, <1>18
  <2>4. MemOK(Delete(m3, o)) /\ Delete(m3, o).live = m3.live \ Range(o)
    BY <1>13, <1>18, <2>3, DeleteOK
  <2>5. Delete(m3, o).live = r.memory.live
    BY <1>2, <1>4, <1>13, <1>15, <1>18, <2>4
  <2>6. Keeps([memory |-> Delete(m3, o), lists |-> r.lists], X)
    BY <1>8, <2>4, <2>5 DEF Keeps
  <2> QED  BY <2>2, <2>6 DEF SameArrays
<1>23. CASE ~contained
  <2>1. LocalRecordFromString(r, contained) = left
    BY <1>21, <1>23
  <2>2. X \cap Range(a) = {} /\ X \cap Range(b) = {}
    BY <1>2, <1>4, <1>8
  <2>3. m3.live = ListsHold(put.lists) \cup X /\ ListsHold(put.lists) \cap X = {}
    BY <1>7, <1>15, <1>17, <1>18, <2>2
  <2>4. Keeps(left, X)
    BY <1>17, <1>18, <1>20, <2>3 DEF Keeps
  <2> QED  BY <1>6, <1>12, <1>20, <2>1, <2>4
<1> QED  BY <1>22, <1>23

\* Whatever the line is, the lists have their blocks to themselves after it.
LEMMA ExecLineOK ==
    ASSUME NEW r, NEW X, Keeps(r, X), NEW kind \in LineKinds \ {"blank"}
    PROVE  Keeps(ExecLine(r, kind), X) /\ SameArrays(r.lists, ExecLine(r, kind).lists)
<1>1. /\ CNameFilter \in Seq({DATATYPE_OBJECT, DATATYPE_ARRAY})
      /\ m_WhiteList \in 1 .. 4 /\ m_BlackList \in 1 .. 4
  BY DEF CNameFilter, m_WhiteList, m_BlackList
<1>2. CASE kind = "other"
  BY <1>2 DEF ExecLine, SameArrays
<1>3. CASE kind \in {"server", "noServer"}
  <2>1. ExecLine(r, kind) = DnsServerFromString(r, kind = "server")
    BY <1>3 DEF ExecLine
  <2> QED  BY <2>1, DnsServerFromStringOK
<1>4. CASE kind = "white"
  <2>1. ExecLine(r, kind) = Added(r, m_WhiteList, CNameFilter)
    BY <1>4 DEF ExecLine
  <2> QED  BY <1>1, <2>1, AddedOK
<1>5. CASE kind = "black"
  <2>1. ExecLine(r, kind) = Added(r, m_BlackList, CNameFilter)
    BY <1>5 DEF ExecLine
  <2> QED  BY <1>1, <2>1, AddedOK
<1>6. CASE kind \in {"record", "duplicate"}
  <2>1. ExecLine(r, kind) = LocalRecordFromString(r, kind = "duplicate")
    BY <1>6 DEF ExecLine
  <2> QED  BY <2>1, LocalRecordFromStringOK
<1>7. CASE kind = "noRecord"
  <2>1. PICK s : s = [r EXCEPT !.memory = Looked(@)]
    OBVIOUS
  <2>2. ExecLine(r, kind) = s
    BY <1>7, <2>1 DEF ExecLine
  <2>3. s = [memory |-> Looked(r.memory), lists |-> r.lists] /\ s.lists = r.lists /\ s.memory = Looked(r.memory)
    BY <2>1 DEF Keeps
  <2>4. MemOK(Looked(r.memory)) /\ Looked(r.memory).live = r.memory.live
    BY LookedOK DEF Keeps
  <2>5. Keeps(s, X)
    BY <2>3, <2>4 DEF Keeps
  <2> QED  BY <2>2, <2>3, <2>5 DEF SameArrays
<1>8. kind \in {"other", "server", "noServer", "white", "black", "record", "duplicate", "noRecord"}
  BY DEF LineKinds
<1> QED  BY <1>2, <1>3, <1>4, <1>5, <1>6, <1>7, <1>8

\* The lines that are left to execute, and their blocks.
BlocksOfLines(lines) == [k \in 1 .. Len(lines) |-> lines[k].blocks]

LinesOK(lines) ==
    /\ lines \in Seq([kind : LineKinds \ {"blank"}, blocks : Seq(Block)])
    /\ Items(BlocksOfLines(lines))

LinesHold(lines) == InAll(BlocksOfLines(lines))

\* One more line.
LEMMA LineAdded ==
    ASSUME NEW lines, LinesOK(lines), NEW kind \in LineKinds \ {"blank"},
           NEW b, Clean(b), Range(b) \cap LinesHold(lines) = {},
           NEW line, line = [kind |-> kind, blocks |-> b]
    PROVE  /\ LinesOK(Append(lines, line))
           /\ LinesHold(Append(lines, line)) = LinesHold(lines) \cup Range(b)
<1>1. PICK n, t : n = Len(lines) /\ t = Append(lines, line)
  OBVIOUS
<1>2. n \in Nat /\ lines \in Seq([kind : LineKinds \ {"blank"}, blocks : Seq(Block)])
  BY <1>1 DEF LinesOK
<1>3. line \in [kind : LineKinds \ {"blank"}, blocks : Seq(Block)] /\ line.blocks = b
  BY DEF Clean
<1>4. /\ t \in Seq([kind : LineKinds \ {"blank"}, blocks : Seq(Block)]) /\ Len(t) = n + 1
      /\ \A k \in 1 .. n : t[k] = lines[k]
      /\ t[n + 1] = line
  BY <1>1, <1>2, <1>3
<1>5. PICK old, new : old = BlocksOfLines(lines) /\ new = BlocksOfLines(t)
  OBVIOUS
<1>6. Items(old) /\ Range(b) \cap InAll(old) = {} /\ LinesHold(lines) = InAll(old) /\ LinesHold(t) = InAll(new)
  BY <1>5 DEF LinesOK, LinesHold
<1>7. /\ Items(Append(old, b)) /\ InAll(Append(old, b)) = InAll(old) \cup Range(b)
  BY <1>6, ItemAdded
<1>8. new = Append(old, b)
  <2>1. old = [k \in 1 .. n |-> lines[k].blocks] /\ new = [k \in 1 .. n + 1 |-> t[k].blocks]
    BY <1>1, <1>4, <1>5 DEF BlocksOfLines
  <2>2. /\ old \in Seq(Seq(Block)) /\ Len(old) = n
    BY <1>2, <1>6, <2>1 DEF Items
  <2>3. PICK a : a = Append(old, b)
    OBVIOUS
  <2>4. /\ a = [k \in 1 .. n + 1 |-> a[k]] /\ a[n + 1] = b
        /\ \A k \in 1 .. n : a[k] = old[k]
    <3>1. /\ a \in Seq(Seq(Block)) /\ Len(a) = n + 1 /\ a[n + 1] = b
          /\ \A k \in 1 .. n : a[k] = old[k]
      BY <2>2, <2>3, AppendProperties DEF Clean
    <3>2. a = [k \in 1 .. n + 1 |-> a[k]]
      BY <3>1
    <3> QED  BY <3>1, <3>2
  <2>5. ASSUME NEW k \in 1 .. n + 1 PROVE t[k].blocks = a[k]
    <3>1. CASE k = n + 1
      BY <1>3, <1>4, <2>4, <3>1
    <3>2. CASE k # n + 1
      <4>1. k \in 1 .. n
        BY <1>2, <3>2
      <4> QED  BY <1>4, <2>1, <2>4, <4>1
    <3> QED  BY <3>1, <3>2
  <2> QED  BY <2>1, <2>3, <2>4, <2>5
<1> QED  BY <1>1, <1>4, <1>5, <1>6, <1>7, <1>8 DEF LinesOK

\* The recursion of CutLines, for the first n lines.
Cuts(f, m, lines, n) ==
    f = [k \in 0 .. n |-> IF k = 0 THEN [memory |-> m, lines |-> <<>>]
                          ELSE CutLine(f[k - 1], lines[k])]

\* The recursion of CutLines is that of a function, for any lines.
LEMMA CutsExist ==
    ASSUME NEW m, NEW lines, NEW n \in Nat
    PROVE  \E f : Cuts(f, m, lines, n)
<1> DEFINE T == {k \in Nat : \E f : Cuts(f, m, lines, k)}
           Start == [memory |-> m, lines |-> <<>>]
<1>1. 0 \in T
  <2> DEFINE f == [k \in 0 .. 0 |-> Start]
  <2>1. f = [k \in 0 .. 0 |-> IF k = 0 THEN Start ELSE CutLine(f[k - 1], lines[k])]
    OBVIOUS
  <2> HIDE DEF f
  <2> QED  BY <2>1 DEF Cuts
<1> HIDE DEF Start
<1>2. ASSUME NEW k \in 0 .. n - 1, k \in T PROVE k + 1 \in T
  <2>1. PICK f : Cuts(f, m, lines, k)
    BY <1>2
  <2>2. f = [j \in 0 .. k |-> IF j = 0 THEN Start ELSE CutLine(f[j - 1], lines[j])]
    BY <2>1 DEF Cuts, Start
  <2> DEFINE g == [j \in 0 .. k + 1 |-> IF j = k + 1 THEN CutLine(f[k], lines[k + 1]) ELSE f[j]]
  <2>3. ASSUME NEW j \in 0 .. k + 1
        PROVE  g[j] = IF j = 0 THEN Start ELSE CutLine(g[j - 1], lines[j])
    <3>1. CASE j = k + 1
      <4>1. j # 0 /\ j - 1 = k /\ k \in 0 .. k + 1 /\ k # k + 1
        BY <3>1
      <4>2. g[j - 1] = f[k]
        BY <4>1
      <4> QED  BY <3>1, <4>1, <4>2
    <3>2. CASE j # k + 1
      <4>1. j \in 0 .. k /\ (j # 0 => j - 1 \in 0 .. k + 1 /\ j - 1 # k + 1)
        BY <3>2
      <4>2. g[j] = f[j] /\ (j # 0 => g[j - 1] = f[j - 1])
        BY <3>2, <4>1
      <4> HIDE DEF g
      <4> QED  BY <2>2, <4>1, <4>2
    <3> QED  BY <3>1, <3>2
  <2>4. g = [j \in 0 .. k + 1 |-> IF j = 0 THEN Start ELSE CutLine(g[j - 1], lines[j])]
    BY <2>3
  <2> HIDE DEF g
  <2> QED  BY <2>4 DEF Cuts, Start
<1>3. \A k \in 0 .. n : k \in T
  <2> HIDE DEF T
  <2> QED  BY <1>1, <1>2, UpTo
<1> QED  BY <1>3

\* A line that has been cut is kept at its right length, unless it is blank.
LEMMA CutLineOK ==
    ASSUME NEW m, NEW r, r = [memory |-> r.memory, lines |-> r.lines], LinesOK(r.lines),
           Turns(m, {}, r.memory, LinesHold(r.lines)), NEW kind \in LineKinds
    PROVE  /\ CutLine(r, kind) = [memory |-> CutLine(r, kind).memory, lines |-> CutLine(r, kind).lines]
           /\ LinesOK(CutLine(r, kind).lines)
           /\ Turns(m, {}, CutLine(r, kind).memory, LinesHold(CutLine(r, kind).lines))
<1>1. /\ MemOK(r.memory) /\ r.memory.live = m.live \cup LinesHold(r.lines)
      /\ m.live \cap LinesHold(r.lines) = {}
  BY DEF Turns
<1>2. PICK m1, a : m1 = New(r.memory, <<DATATYPE_ARRAY>>).memory /\ a = New(r.memory, <<DATATYPE_ARRAY>>).blocks
  OBVIOUS
<1>3. MemOK(m1) /\ m1.live = r.memory.live \cup Range(a) /\ Clean(a) /\ Range(a) \cap r.memory.live = {}
  BY <1>1, <1>2, OneArray, NewOK
<1>4. PICK m2, b : m2 = New(m1, <<DATATYPE_ARRAY>>).memory /\ b = New(m1, <<DATATYPE_ARRAY>>).blocks
  OBVIOUS
<1>5. MemOK(m2) /\ m2.live = m1.live \cup Range(b) /\ Clean(b) /\ Range(b) \cap m1.live = {}
  BY <1>3, <1>4, OneArray, NewOK
<1>6. CutLine(r, kind)
      = IF kind = "blank" THEN [r EXCEPT !.memory = Delete(m1, a)]
        ELSE [memory |-> Delete(m2, a), lines |-> Append(r.lines, [kind |-> kind, blocks |-> b])]
  BY <1>2, <1>4 DEF CutLine
<1>7. CASE kind = "blank"
  <2>1. CutLine(r, kind) = [memory |-> Delete(m1, a), lines |-> r.lines]
    BY <1>6, <1>7
  <2>2. MemOK(Delete(m1, a)) /\ Delete(m1, a).live = m1.live \ Range(a)
    BY <1>3, DeleteOK
  <2>3. Turns(m, {}, Delete(m1, a), LinesHold(r.lines))
    BY <1>1, <1>3, <2>2 DEF Turns
  <2> QED  BY <2>1, <2>3
<1>8. CASE kind # "blank"
  <2>1. PICK line : line = [kind |-> kind, blocks |-> b]
    OBVIOUS
  <2>2. PICK t : t = Append(r.lines, line)
    OBVIOUS
  <2>3. CutLine(r, kind) = [memory |-> Delete(m2, a), lines |-> t]
    BY <1>6, <1>8, <2>1, <2>2
  <2>4. LinesOK(t) /\ LinesHold(t) = LinesHold(r.lines) \cup Range(b)
    <3>1. kind \in LineKinds \ {"blank"} /\ Range(b) \cap LinesHold(r.lines) = {}
      BY <1>1, <1>3, <1>5, <1>8
    <3> QED  BY <1>5, <2>1, <2>2, <3>1, LineAdded
  <2>5. MemOK(Delete(m2, a)) /\ Delete(m2, a).live = m2.live \ Range(a)
    <3>1. Range(a) \subseteq m2.live
      BY <1>3, <1>5
    <3> QED  BY <1>3, <1>5, <3>1, DeleteOK
  <2>6. Turns(m, {}, Delete(m2, a), LinesHold(t))
    BY <1>1, <1>3, <1>5, <2>4, <2>5 DEF Turns
  <2> QED  BY <2>3, <2>4, <2>6
<1> QED  BY <1>7, <1>8

\* The lines, of which no two share a block.
LEMMA CutLinesOK ==
    ASSUME NEW m, MemOK(m), NEW lines \in Seq(LineKinds)
    PROVE  /\ LinesOK(CutLines(m, lines).lines)
           /\ Turns(m, {}, CutLines(m, lines).memory, LinesHold(CutLines(m, lines).lines))
<1> DEFINE n == Len(lines)
           f == CHOOSE f : Cuts(f, m, lines, n)
<1>0. n \in Nat /\ \A k \in 1 .. n : lines[k] \in LineKinds
  OBVIOUS
<1> HIDE DEF n
<1>1. Cuts(f, m, lines, n)
  BY <1>0, CutsExist
<1>2. CutLines(m, lines) = f[n]
  BY Zenon DEF CutLines, Cuts, n
<1> HIDE DEF f
<1>3. f = [k \in 0 .. n |-> IF k = 0 THEN [memory |-> m, lines |-> <<>>]
                            ELSE CutLine(f[k - 1], lines[k])]
  BY <1>1 DEF Cuts
<1> DEFINE Good(r) == /\ r = [memory |-> r.memory, lines |-> r.lines] /\ LinesOK(r.lines)
                      /\ Turns(m, {}, r.memory, LinesHold(r.lines))
           T == {k \in 0 .. n : Good(f[k])}
<1>4. 0 \in T
  <2>1. f[0] = [memory |-> m, lines |-> <<>>] /\ 0 \in 0 .. n
    BY <1>0, <1>3
  <2>2. BlocksOfLines(<<>>) = <<>>
    BY DEF BlocksOfLines
  <2>3. Items(<<>>) /\ InAll(<<>>) = {}
    BY DEF Items, AllApart, InAll
  <2>4. LinesOK(<<>>) /\ LinesHold(<<>>) = {}
    BY <2>2, <2>3 DEF LinesOK, LinesHold
  <2>5. Turns(m, {}, m, {})
    BY DEF Turns
  <2>6. PICK r : r = f[0]
    OBVIOUS
  <2>7. r.memory = m /\ r.lines = <<>> /\ r = [memory |-> r.memory, lines |-> r.lines]
    BY <2>1, <2>6
  <2>8. Good(r)
    BY <2>4, <2>5, <2>7
  <2> QED  BY <2>1, <2>6, <2>8
<1>5. ASSUME NEW k \in 0 .. n - 1, k \in T PROVE k + 1 \in T
  <2>1. PICK r : r = f[k]
    OBVIOUS
  <2>2. /\ r = [memory |-> r.memory, lines |-> r.lines] /\ LinesOK(r.lines)
        /\ Turns(m, {}, r.memory, LinesHold(r.lines))
    BY <1>5, <2>1
  <2>3. k + 1 \in 0 .. n /\ k + 1 \in 1 .. n /\ k + 1 # 0 /\ (k + 1) - 1 = k
    BY <1>0
  <2>4. PICK kind : kind = lines[k + 1]
    OBVIOUS
  <2>5. kind \in LineKinds
    BY <1>0, <2>3, <2>4
  <2>6. f[k + 1] = CutLine(r, kind)
    BY <1>3, <2>1, <2>3, <2>4
  <2>7. Good(CutLine(r, kind))
    BY <2>2, <2>5, CutLineOK
  <2> QED  BY <2>3, <2>6, <2>7
<1>6. n \in T
  <2>1. \A k \in 0 .. n : k \in T
    <3> HIDE DEF T
    <3> QED  BY <1>0, <1>4, <1>5, UpTo
  <2> QED  BY <1>0, <2>1
<1> QED  BY <1>2, <1>6

\* The recursion of ExecLines, for the first n lines.
Execs(f, r, lines, n) ==
    f = [k \in 0 .. n |-> IF k = 0 THEN r ELSE ExecAndFree(f[k - 1], lines[k])]

\* The recursion of ExecLines is that of a function, for any lines.
LEMMA ExecsExist ==
    ASSUME NEW r, NEW lines, NEW n \in Nat
    PROVE  \E f : Execs(f, r, lines, n)
<1> DEFINE T == {k \in Nat : \E f : Execs(f, r, lines, k)}
<1>1. 0 \in T
  <2> DEFINE f == [k \in 0 .. 0 |-> r]
  <2>1. f = [k \in 0 .. 0 |-> IF k = 0 THEN r ELSE ExecAndFree(f[k - 1], lines[k])]
    OBVIOUS
  <2> HIDE DEF f
  <2> QED  BY <2>1 DEF Execs
<1>2. ASSUME NEW k \in 0 .. n - 1, k \in T PROVE k + 1 \in T
  <2>1. PICK f : Execs(f, r, lines, k)
    BY <1>2
  <2>2. f = [j \in 0 .. k |-> IF j = 0 THEN r ELSE ExecAndFree(f[j - 1], lines[j])]
    BY <2>1 DEF Execs
  <2> DEFINE g == [j \in 0 .. k + 1 |-> IF j = k + 1 THEN ExecAndFree(f[k], lines[k + 1]) ELSE f[j]]
  <2>3. ASSUME NEW j \in 0 .. k + 1
        PROVE  g[j] = IF j = 0 THEN r ELSE ExecAndFree(g[j - 1], lines[j])
    <3>1. CASE j = k + 1
      <4>1. j # 0 /\ j - 1 = k /\ k \in 0 .. k + 1 /\ k # k + 1
        BY <3>1
      <4>2. g[j - 1] = f[k]
        BY <4>1
      <4> QED  BY <3>1, <4>1, <4>2
    <3>2. CASE j # k + 1
      <4>1. j \in 0 .. k /\ (j # 0 => j - 1 \in 0 .. k + 1 /\ j - 1 # k + 1)
        BY <3>2
      <4>2. g[j] = f[j] /\ (j # 0 => g[j - 1] = f[j - 1])
        BY <3>2, <4>1
      <4> HIDE DEF g
      <4> QED  BY <2>2, <4>1, <4>2
    <3> QED  BY <3>1, <3>2
  <2>4. g = [j \in 0 .. k + 1 |-> IF j = 0 THEN r ELSE ExecAndFree(g[j - 1], lines[j])]
    BY <2>3
  <2> HIDE DEF g
  <2> QED  BY <2>4 DEF Execs
<1>3. \A k \in 0 .. n : k \in T
  <2> HIDE DEF T
  <2> QED  BY <1>1, <1>2, UpTo
<1> QED  BY <1>3

\* The lines leave what has been made of them, and nothing of themselves.
LEMMA ExecLinesOK ==
    ASSUME NEW lines, LinesOK(lines), NEW X, X \cap LinesHold(lines) = {},
           NEW r, Keeps(r, X \cup LinesHold(lines))
    PROVE  /\ Keeps(ExecLines(r, lines), X)
           /\ SameArrays(r.lists, ExecLines(r, lines).lists)
<1> DEFINE n == Len(lines)
           f == CHOOSE f : Execs(f, r, lines, n)
<1>0. n \in Nat /\ \A k \in 1 .. n : lines[k].kind \in LineKinds \ {"blank"}
  <2>1. /\ lines \in Seq([kind : LineKinds \ {"blank"}, blocks : Seq(Block)])
        /\ DOMAIN lines = 1 .. n /\ n \in Nat
    BY DEF LinesOK
  <2>2. \A k \in 1 .. n : lines[k] \in [kind : LineKinds \ {"blank"}, blocks : Seq(Block)]
    BY <2>1, ElementOfSeq
  <2> HIDE DEF n
  <2> QED  BY <2>1, <2>2
<1>1. PICK bl : bl = BlocksOfLines(lines)
  OBVIOUS
<1>2. /\ \A k \in 1 .. n : lines[k].blocks = bl[k] /\ Clean(bl[k])
      /\ \A j, k \in 1 .. n : j # k => Range(bl[j]) \cap Range(bl[k]) = {}
      /\ LinesHold(lines) = UNION {Range(bl[k]) : k \in 1 .. n}
  <2>1. bl = [k \in 1 .. n |-> lines[k].blocks] /\ Items(bl)
    BY <1>1 DEF BlocksOfLines, LinesOK
  <2>2. bl \in Seq(Seq(Block)) /\ Len(bl) = n /\ AllApart(bl)
    BY <1>0, <2>1 DEF Items
  <2>3. \A k \in 1 .. n : lines[k].blocks = bl[k] /\ bl[k] \in Seq(Block)
    BY <2>1, <2>2
  <2>4. /\ \A k \in 1 .. n : IsInjective(bl[k])
        /\ \A j, k \in 1 .. n : j # k => Range(bl[j]) \cap Range(bl[k]) = {}
    BY <2>2 DEF AllApart
  <2>5. LinesHold(lines) = UNION {Range(bl[k]) : k \in 1 .. n}
    BY <1>1, <2>2 DEF LinesHold, InAll
  <2> QED  BY <2>3, <2>4, <2>5 DEF Clean
<1> HIDE DEF n
<1>3. Execs(f, r, lines, n)
  BY <1>0, ExecsExist
<1>4. ExecLines(r, lines) = f[n]
  BY Zenon DEF ExecLines, Execs, n
<1> HIDE DEF f
<1>5. f = [k \in 0 .. n |-> IF k = 0 THEN r ELSE ExecAndFree(f[k - 1], lines[k])]
  BY <1>3 DEF Execs
<1> DEFINE Rest(k) == UNION {Range(bl[j]) : j \in k + 1 .. n}
           Good(e, k) == Keeps(e, X \cup Rest(k)) /\ SameArrays(r.lists, e.lists)
           T == {k \in 0 .. n : Good(f[k], k)}
<1>6. 0 \in T
  <2>1. f[0] = r /\ 0 \in 0 .. n
    BY <1>0, <1>5
  <2>2. Rest(0) = LinesHold(lines)
    BY <1>2
  <2>3. SameArrays(r.lists, r.lists)
    BY DEF SameArrays
  <2> HIDE DEF Rest
  <2> QED  BY <2>1, <2>2, <2>3
<1>7. ASSUME NEW k \in 0 .. n - 1, k \in T PROVE k + 1 \in T
  <2>1. PICK e : e = f[k]
    OBVIOUS
  <2>2. Keeps(e, X \cup Rest(k)) /\ SameArrays(r.lists, e.lists)
    BY <1>7, <2>1
  <2>3. k + 1 \in 0 .. n /\ k + 1 \in 1 .. n /\ k + 1 # 0 /\ (k + 1) - 1 = k
    BY <1>0
  <2>4. PICK b, kind : b = lines[k + 1].blocks /\ kind = lines[k + 1].kind
    OBVIOUS
  <2>5. kind \in LineKinds \ {"blank"} /\ Clean(b) /\ b = bl[k + 1]
    BY <1>0, <1>2, <2>3, <2>4
  <2>6. PICK done : done = ExecLine(e, kind)
    OBVIOUS
  <2>7. Keeps(done, X \cup Rest(k)) /\ SameArrays(e.lists, done.lists)
    BY <2>2, <2>5, <2>6, ExecLineOK
  <2>8. PICK m : m = Delete(done.memory, b)
    OBVIOUS
  <2>9. f[k + 1] = [memory |-> m, lists |-> done.lists]
    BY <1>5, <2>1, <2>3, <2>4, <2>6, <2>8 DEF ExecAndFree
  <2>10. PICK now, later : now = Rest(k) /\ later = Rest(k + 1)
    OBVIOUS
  <2>11. now = Range(b) \cup later
    <3>1. \A j \in k + 1 .. n : j = k + 1 \/ j \in (k + 1) + 1 .. n
      BY <1>0
    <3>2. \A j \in (k + 1) + 1 .. n : j \in k + 1 .. n
      BY <1>0
    <3>3. k + 1 \in k + 1 .. n
      BY <2>3
    <3> QED  BY <2>5, <2>10, <3>1, <3>2, <3>3
  <2>12. Range(b) \cap later = {}
    <3>1. \A j \in (k + 1) + 1 .. n : j \in 1 .. n /\ j # k + 1
      BY <1>0
    <3>2. \A j \in (k + 1) + 1 .. n : Range(bl[j]) \cap Range(bl[k + 1]) = {}
      BY <1>2, <2>3, <3>1
    <3> QED  BY <2>5, <2>10, <3>2
  <2>13. Range(b) \cap X = {}
    BY <1>2, <2>3, <2>5
  <2> HIDE DEF Rest
  <2>14. /\ MemOK(done.memory) /\ ListsOK(done.lists)
         /\ done.memory.live = ListsHold(done.lists) \cup (X \cup now)
         /\ ListsHold(done.lists) \cap (X \cup now) = {}
    BY <2>7, <2>10 DEF Keeps
  <2>15. MemOK(m) /\ m.live = done.memory.live \ Range(b)
    <3>1. Range(b) \subseteq done.memory.live
      BY <2>11, <2>14
    <3> QED  BY <2>5, <2>8, <2>14, <3>1, DeleteOK
  <2>16. /\ m.live = ListsHold(done.lists) \cup (X \cup later)
         /\ ListsHold(done.lists) \cap (X \cup later) = {}
    BY <2>11, <2>12, <2>13, <2>14, <2>15
  <2>17. Keeps([memory |-> m, lists |-> done.lists], X \cup Rest(k + 1))
    BY <2>10, <2>14, <2>15, <2>16 DEF Keeps
  <2>18. SameArrays(r.lists, done.lists)
    BY <2>2, <2>7 DEF SameArrays
  <2>19. PICK s : s = f[k + 1]
    OBVIOUS
  <2>20. Good(s, k + 1)
    BY <2>9, <2>17, <2>18, <2>19
  <2> QED  BY <2>3, <2>19, <2>20
<1>8. n \in T
  <2>1. \A k \in 0 .. n : k \in T
    <3> HIDE DEF T
    <3> QED  BY <1>0, <1>6, <1>7, UpTo
  <2>2. n \in 0 .. n
    BY <1>0
  <2> HIDE DEF T
  <2> QED  BY <2>1, <2>2
<1>9. Rest(n) = {}
  BY <1>0
<1> HIDE DEF Rest
<1>10. X \cup Rest(n) = X
  BY <1>9
<1> QED  BY <1>4, <1>8, <1>10

\* What is read of a file is in the lists, and nothing else is left of it.
LEMMA ParseBufferOK ==
    ASSUME NEW m, MemOK(m), NEW lines \in Seq(LineKinds)
    PROVE  Keeps(ParseBuffer(m, lines), m.live)
<1>1. PICK cut : cut = CutLines(m, lines)
  OBVIOUS
<1>2. LinesOK(cut.lines) /\ Turns(m, {}, cut.memory, LinesHold(cut.lines))
  BY <1>1, CutLinesOK
<1>3. PICK mt, t : /\ mt = New(cut.memory, <<DATATYPE_OBJECT>>).memory
                   /\ t = New(cut.memory, <<DATATYPE_OBJECT>>).blocks
  OBVIOUS
<1>4. MemOK(mt) /\ mt.live = cut.memory.live \cup Range(t) /\ Clean(t) /\ Range(t) \cap cut.memory.live = {}
  <2>1. <<DATATYPE_OBJECT>> \in Seq({DATATYPE_OBJECT, DATATYPE_ARRAY})
    OBVIOUS
  <2> QED  BY <1>2, <1>3, <2>1, NewOK DEF Turns
<1>5. PICK lists : lists = [NoLists EXCEPT ![m_pLocalRecords].array = t]
  OBVIOUS
<1>6. PICK start : start = [memory |-> mt, lists |-> lists]
  OBVIOUS
<1>7. DOMAIN NoLists = 1 .. 4 /\ \A k \in 1 .. 4 : NoLists[k] = NoList
  BY DEF NoLists, m_Servers, m_pLocalRecords
<1>8. PICK tree : tree = [array |-> t, items |-> <<>>]
  OBVIOUS
<1>9. /\ DOMAIN lists = 1 .. 4 /\ lists[4] = tree
      /\ lists[1] = NoList /\ lists[2] = NoList /\ lists[3] = NoList
  BY <1>5, <1>7, <1>8 DEF m_pLocalRecords, NoList
<1>10. ListOK(tree) /\ ListHolds(tree) = Range(t)
  <2>1. <<>> \in Seq(Seq(Block)) /\ Len(<<>>) = 0 /\ AllApart(<<>>) /\ InAll(<<>>) = {}
    BY DEF AllApart, InAll
  <2>2. tree.array = t /\ tree.items = <<>> /\ tree = [array |-> tree.array, items |-> tree.items]
    BY <1>8
  <2> QED  BY <1>4, <2>1, <2>2 DEF ListOK, ListHolds, Items
<1>11. ListsOK(lists) /\ ListsHold(lists) = Range(t)
  <2>1. \A k \in 1 .. 4 : k = 4 \/ lists[k] = NoList
    BY <1>9
  <2>2. \A k \in 1 .. 4 : ListOK(lists[k]) /\ (k # 4 => ListHolds(lists[k]) = {})
    BY <1>9, <1>10, <2>1, NoListOK
  <2>3. ListsOK(lists)
    BY <1>9, <2>2 DEF ListsOK
  <2> QED  BY <1>9, <1>10, <2>3, NoListOK DEF ListsHold
<1>12. m.live \cap LinesHold(cut.lines) = {}
  BY <1>2 DEF Turns
<1>13. Keeps(start, m.live \cup LinesHold(cut.lines))
  <2>1. /\ mt.live = ListsHold(lists) \cup (m.live \cup LinesHold(cut.lines))
        /\ ListsHold(lists) \cap (m.live \cup LinesHold(cut.lines)) = {}
    BY <1>2, <1>4, <1>11 DEF Turns
  <2>2. start.memory = mt /\ start.lists = lists /\ start = [memory |-> start.memory, lists |-> start.lists]
    BY <1>6
  <2> QED  BY <1>4, <1>11, <2>1, <2>2 DEF Keeps
<1>14. PICK r : r = ExecLines(start, cut.lines)
  OBVIOUS
<1>15. Keeps(r, m.live) /\ SameArrays(start.lists, r.lists)
  BY <1>2, <1>12, <1>13, <1>14, ExecLinesOK
<1>16. /\ Range(r.lists[1].array) = {} /\ Range(r.lists[2].array) = {}
       /\ Range(r.lists[3].array) = {}
  <2>1. Range(<<>>) = {} /\ NoList.array = <<>> /\ start.lists = lists
    BY <1>6 DEF Range, NoList
  <2>2. 1 \in 1 .. 4 /\ 2 \in 1 .. 4 /\ 3 \in 1 .. 4
    OBVIOUS
  <2> QED  BY <1>9, <1>15, <2>1, <2>2 DEF SameArrays
<1>17. PICK r1 : r1 = WithArray(r, 1)
  OBVIOUS
<1>18. Keeps(r1, m.live) /\ \A j \in 1 .. 4 : j # 1 => r1.lists[j].array = r.lists[j].array
  BY <1>15, <1>16, <1>17, WithArrayOK
<1>19. PICK r2 : r2 = WithArray(r1, 2)
  OBVIOUS
<1>20. Range(r1.lists[2].array) = {} /\ Range(r1.lists[3].array) = {}
  BY <1>16, <1>18
<1>21. Keeps(r2, m.live) /\ \A j \in 1 .. 4 : j # 2 => r2.lists[j].array = r1.lists[j].array
  BY <1>18, <1>19, <1>20, WithArrayOK
<1>22. Range(r2.lists[3].array) = {}
  BY <1>20, <1>21
<1>23. Keeps(WithArray(r2, 3), m.live)
  BY <1>21, <1>22, WithArrayOK
<1>24. ParseBuffer(m, lines) = WithArray(r2, 3)
  BY <1>1, <1>3, <1>5, <1>6, <1>14, <1>17, <1>19
     DEF ParseBuffer, m_Servers, m_WhiteList, m_BlackList
<1> QED  BY <1>23, <1>24

\* Load exchanges the old lists for those of the file. What it leaks is nobody's.
LEMMA LoadOK ==
    ASSUME NEW m, MemOK(m), NEW lists, ListsOK(lists), ListsHold(lists) \subseteq m.live,
           NEW file \in Files
    PROVE  /\ ListsOK(Load(m, lists, file).lists) /\ Clean(Load(m, lists, file).leaked)
           /\ ListsHold(Load(m, lists, file).lists) \cap Range(Load(m, lists, file).leaked) = {}
           /\ Turns(m, ListsHold(lists), Load(m, lists, file).memory,
                    ListsHold(Load(m, lists, file).lists) \cup Range(Load(m, lists, file).leaked))
<1>1. PICK mc : mc = Clear(m, lists)
  OBVIOUS
<1>2. MemOK(mc) /\ mc.live = m.live \ ListsHold(lists)
  BY <1>1, FreeListsOK DEF Clear
<1>3. PICK mb, buf : mb = New(mc, <<DATATYPE_ARRAY>>).memory /\ buf = New(mc, <<DATATYPE_ARRAY>>).blocks
  OBVIOUS
<1>4. MemOK(mb) /\ mb.live = mc.live \cup Range(buf) /\ Clean(buf) /\ Range(buf) \cap mc.live = {}
  BY <1>2, <1>3, OneArray, NewOK
<1>5. PICK parsed : parsed = ParseBuffer(mb, file.lines)
  OBVIOUS
<1>6. file.lines \in Seq(LineKinds)
  BY FilesAssumption DEF FileType
<1>7. Keeps(parsed, mb.live)
  BY <1>4, <1>5, <1>6, ParseBufferOK
<1>8. Load(m, lists, file)
      = IF ~file.opened THEN [memory |-> mc, lists |-> NoLists, leaked |-> <<>>]
        ELSE IF ~file.whole THEN [memory |-> mb, lists |-> NoLists, leaked |-> buf]
        ELSE [memory |-> Delete(parsed.memory, buf), lists |-> parsed.lists, leaked |-> <<>>]
  BY <1>1, <1>3, <1>5 DEF Load
<1>9. ListsOK(NoLists) /\ ListsHold(NoLists) = {}
  <2>1. DOMAIN NoLists = 1 .. 4 /\ \A k \in 1 .. 4 : NoLists[k] = NoList
    BY DEF NoLists, m_Servers, m_pLocalRecords
  <2>2. \A k \in 1 .. 4 : ListOK(NoLists[k]) /\ ListHolds(NoLists[k]) = {}
    BY <2>1, NoListOK
  <2> QED  BY <2>1, <2>2 DEF ListsOK, ListsHold
<1>10. Clean(<<>>) /\ Range(<<>>) = {}
  BY DEF Clean, IsInjective, Range
<1>11. PICK r : r = Load(m, lists, file)
  OBVIOUS
<1> DEFINE Good == /\ ListsOK(r.lists) /\ Clean(r.leaked) /\ ListsHold(r.lists) \cap Range(r.leaked) = {}
                   /\ Turns(m, ListsHold(lists), r.memory, ListsHold(r.lists) \cup Range(r.leaked))
<1>12. CASE ~file.opened
  <2>1. r.memory = mc /\ r.lists = NoLists /\ r.leaked = <<>>
    BY <1>8, <1>11, <1>12
  <2>2. Turns(m, ListsHold(lists), mc, ListsHold(NoLists) \cup Range(<<>>))
    BY <1>2, <1>9, <1>10 DEF Turns
  <2>3. Good
    BY <1>9, <1>10, <2>1, <2>2
  <2> QED  BY <1>11, <2>3
<1>13. CASE file.opened /\ ~file.whole
  <2>1. r.memory = mb /\ r.lists = NoLists /\ r.leaked = buf
    BY <1>8, <1>11, <1>13
  <2>2. Turns(m, ListsHold(lists), mb, ListsHold(NoLists) \cup Range(buf))
    BY <1>2, <1>4, <1>9 DEF Turns
  <2>3. Good
    BY <1>4, <1>9, <2>1, <2>2
  <2> QED  BY <1>11, <2>3
<1>14. CASE file.opened /\ file.whole
  <2>1. r.memory = Delete(parsed.memory, buf) /\ r.lists = parsed.lists /\ r.leaked = <<>>
    BY <1>8, <1>11, <1>14
  <2>2. /\ MemOK(parsed.memory) /\ ListsOK(parsed.lists)
        /\ parsed.memory.live = ListsHold(parsed.lists) \cup mb.live
        /\ ListsHold(parsed.lists) \cap mb.live = {}
    BY <1>7 DEF Keeps
  <2>3. MemOK(r.memory) /\ r.memory.live = parsed.memory.live \ Range(buf)
    <3>1. Range(buf) \subseteq parsed.memory.live
      BY <1>4, <2>2
    <3> QED  BY <1>4, <2>1, <2>2, <3>1, DeleteOK
  <2>4. Turns(m, ListsHold(lists), r.memory, ListsHold(r.lists) \cup Range(<<>>))
    BY <1>2, <1>4, <1>10, <2>1, <2>2, <2>3 DEF Turns
  <2>5. Good
    BY <1>10, <2>1, <2>2, <2>4
  <2> QED  BY <1>11, <2>5
<1> QED  BY <1>12, <1>13, <1>14

-----------------------------------------------------------------------------
(* Who owns what, from turn to turn                                        *)

\* Pending queries that share nothing.
QueueOK(q) ==
    /\ q = [id \in Ids |-> q[id]]
    /\ \A id \in Ids : Clean(q[id])
    /\ \A i1, i2 \in Ids : i1 # i2 => Range(q[i1]) \cap Range(q[i2]) = {}

QueueHolds(q) == UNION {Range(q[id]) : id \in Ids}

LostHolds(leaked) == UNION {Range(blocks) : blocks \in leaked}

\* Five owners of what is there, none of which has what another has.
Shared(live, P, Q, C, L, X) ==
    /\ live = P \cup Q \cup C \cup L \cup X
    /\ P \cap Q = {} /\ P \cap C = {} /\ P \cap L = {} /\ P \cap X = {}
    /\ Q \cap C = {} /\ Q \cap L = {} /\ Q \cap X = {}
    /\ C \cap L = {} /\ C \cap X = {}
    /\ L \cap X = {}

Holders ==
    Shared(memory.live, Range(permanent), QueueHolds(m_pQueue), CacheHolds(m_pRecordTree),
           ListsHold(m_pConfig), LostHolds(lost))

\* Every block has one owner, and the heap is in order.
HeapInv ==
    /\ MemOK(memory)
    /\ Clean(permanent) /\ QueueOK(m_pQueue) /\ CacheOK(m_pRecordTree) /\ ListsOK(m_pConfig)
    /\ Holders

\* new is q with b under id.
Stored(q, id, b, new) == new = [q EXCEPT ![id] = b]

\* An entry of the queue is exchanged for another one, or for none.
LEMMA QueuePut ==
    ASSUME NEW q, QueueOK(q), NEW id \in Ids, NEW b, Clean(b),
           Range(b) \cap (QueueHolds(q) \ Range(q[id])) = {},
           NEW new, Stored(q, id, b, new)
    PROVE  QueueOK(new) /\ QueueHolds(new) = (QueueHolds(q) \ Range(q[id])) \cup Range(b)
<1>1. /\ new = [i \in Ids |-> new[i]] /\ new[id] = b
      /\ \A i \in Ids : i # id => new[i] = q[i]
  BY DEF QueueOK, Stored
<1>2. \A i1, i2 \in Ids : i1 # i2 => Range(q[i1]) \cap Range(q[i2]) = {}
  BY DEF QueueOK
<1>3. \A i \in Ids : i # id => Range(q[i]) \subseteq QueueHolds(q) \ Range(q[id])
  BY <1>2 DEF QueueHolds
<1>4. \A i \in Ids : Clean(new[i])
  BY <1>1 DEF QueueOK
<1>5. \A i1, i2 \in Ids : i1 # i2 => Range(new[i1]) \cap Range(new[i2]) = {}
  BY <1>1, <1>2, <1>3
<1>6. QueueOK(new)
  BY <1>1, <1>4, <1>5, Zenon DEF QueueOK
<1>7. PICK U, V : U = QueueHolds(new) /\ V = QueueHolds(q)
  OBVIOUS
<1>8. ASSUME NEW x \in U PROVE x \in (V \ Range(q[id])) \cup Range(b)
  <2>1. PICK i \in Ids : x \in Range(new[i])
    BY <1>7 DEF QueueHolds
  <2> QED  BY <1>1, <1>3, <1>7, <2>1
<1>9. ASSUME NEW x \in V, x \notin Range(q[id]) PROVE x \in U
  <2>1. PICK i \in Ids : x \in Range(q[i])
    BY <1>7 DEF QueueHolds
  <2>2. i # id /\ x \in Range(new[i])
    BY <1>1, <1>9, <2>1
  <2> QED  BY <1>7, <2>2 DEF QueueHolds
<1>10. ASSUME NEW x \in Range(b) PROVE x \in U
  BY <1>1, <1>7 DEF QueueHolds
<1> QED  BY <1>6, <1>7, <1>8, <1>9, <1>10

\* A message that is decoded and destroyed leaves nothing.
LEMMA DestroyOK ==
    ASSUME NEW m, NEW m1, NEW lists, ListsOK(lists), Turns(m, {}, m1, ListsHold(lists))
    PROVE  MemOK(Destroy(m1, lists)) /\ Destroy(m1, lists).live = m.live
<1>1. MemOK(m1) /\ m1.live = m.live \cup ListsHold(lists) /\ m.live \cap ListsHold(lists) = {}
  BY DEF Turns
<1>2. MemOK(FreeLists(m1, lists)) /\ FreeLists(m1, lists).live = m1.live \ ListsHold(lists)
  BY <1>1, FreeListsOK
<1> QED  BY <1>1, <1>2 DEF Destroy

\* What NotOurs leaves of an answer.
LEMMA NotOursOK ==
    ASSUME NEW queries, NEW answers
    PROVE  /\ NotOurs(<<queries, answers, NoList, NoList>>, {1}) = <<NoList, answers, NoList, NoList>>
           /\ NotOurs(<<queries, answers, NoList, NoList>>, {1, 2, 3, 4})
              = <<NoList, NoList, NoList, NoList>>
BY DEF NotOurs

\* An answer whose own is one list at most.
LEMMA OneListOK ==
    ASSUME NEW list, ListOK(list), NEW lists, lists = <<NoList, list, NoList, NoList>>
    PROVE  ListsOK(lists) /\ ListsHold(lists) = ListHolds(list)
<1>1. /\ DOMAIN lists = 1 .. 4 /\ lists[2] = list
      /\ lists[1] = NoList /\ lists[3] = NoList /\ lists[4] = NoList
  OBVIOUS
<1>2. \A k \in 1 .. 4 : k = 2 \/ lists[k] = NoList
  BY <1>1
<1>3. \A k \in 1 .. 4 : ListOK(lists[k]) /\ (k # 2 => ListHolds(lists[k]) = {})
  BY <1>1, <1>2, NoListOK
<1>4. ListsOK(lists)
  BY <1>1, <1>3 DEF ListsOK
<1> QED  BY <1>1, <1>4, NoListOK DEF ListsHold

\* The answer, then the message that came in, are destroyed.
LEMMA AnsweredOK ==
    ASSUME NEW m, NEW in, NEW m1, NEW answers, NEW borrowed,
           ListsOK(in.message), Turns(m, {}, in.memory, ListsHold(in.message)),
           ListOK(answers), Turns(in.memory, {}, m1, ListHolds(answers)),
           NEW rMsg, NotOurs(rMsg, borrowed) = <<NoList, answers, NoList, NoList>>
    PROVE  /\ MemOK(Answered(m1, in, rMsg, borrowed))
           /\ Answered(m1, in, rMsg, borrowed).live = m.live
<1>1. PICK own : own = <<NoList, answers, NoList, NoList>>
  OBVIOUS
<1>2. ListsOK(own) /\ ListsHold(own) = ListHolds(answers)
  BY <1>1, OneListOK
<1>3. Turns(in.memory, {}, m1, ListsHold(own))
  BY <1>2
<1>4. PICK m2 : m2 = Destroy(m1, own)
  OBVIOUS
<1>5. MemOK(m2) /\ m2.live = in.memory.live
  BY <1>2, <1>3, <1>4, DestroyOK
<1>6. Turns(m, {}, m2, ListsHold(in.message))
  BY <1>5 DEF Turns
<1>7. MemOK(Destroy(m2, in.message)) /\ Destroy(m2, in.message).live = m.live
  BY <1>6, DestroyOK
<1>8. Answered(m1, in, rMsg, borrowed) = Destroy(m2, in.message)
  BY <1>1, <1>4 DEF Answered
<1> QED  BY <1>7, <1>8

\* After a turn in which only the heap was used, and given back.
LEMMA SameOwners ==
    ASSUME HeapInv, MemOK(memory'), memory'.live = memory.live,
           UNCHANGED <<m_pQueue, m_pRecordTree, permanent, m_pConfig, lost>>
    PROVE  HeapInv'
<1>1. /\ permanent' = permanent /\ m_pQueue' = m_pQueue /\ m_pRecordTree' = m_pRecordTree
      /\ m_pConfig' = m_pConfig /\ lost' = lost
  OBVIOUS
<1>2. Holders'
  BY <1>1 DEF HeapInv, Holders
<1> QED  BY <1>1, <1>2 DEF HeapInv

\* When run begins, what has been loaded and what run allocated are apart.
LEMMA InitHeapInv == MemoryInit => HeapInv
<1> SUFFICES ASSUME MemoryInit PROVE HeapInv
  OBVIOUS
<1>1. PICK file \in Files :
          \E loaded \in {Load(Configured.memory, NoLists, file)} :
             /\ memory = Started(loaded).memory
             /\ m_pConfig = loaded.lists
             /\ permanent = Configured.blocks \o Started(loaded).blocks
             /\ lost = {loaded.leaked} \ {<<>>}
  BY DEF MemoryInit
<1>2. PICK loaded : loaded = Load(Configured.memory, NoLists, file)
  OBVIOUS
<1>3. /\ memory = Started(loaded).memory /\ m_pConfig = loaded.lists
      /\ permanent = Configured.blocks \o Started(loaded).blocks
      /\ lost = {loaded.leaked} \ {<<>>}
  BY <1>1, <1>2
<1>4. MemOK(EmptyMemory) /\ EmptyMemory.live = {}
  <2>1. /\ EmptyMemory.live = {} /\ EmptyMemory.heap = <<>> /\ EmptyMemory.overflowed = FALSE
        /\ EmptyMemory.complained = FALSE /\ EmptyMemory.wrong = FALSE
        /\ EmptyMemory \in [live : SUBSET Block, heap : Seq(Block), overflowed : BOOLEAN,
                            complained : BOOLEAN, wrong : BOOLEAN]
    BY DEF EmptyMemory
  <2>2. IsInjective(<<>>) /\ Range(<<>>) = {} /\ Len(<<>>) = 0 /\ 0 <= HEAP_DBG_MAX_OBJECTS
    BY HeapDbgAssumption DEF IsInjective, Range
  <2>3. \E top \in Nat : \A b \in {} : b.ptr <= top
    OBVIOUS
  <2> QED  BY <2>1, <2>2, <2>3 DEF MemOK
<1>5. PICK m0, b0 : m0 = Configured.memory /\ b0 = Configured.blocks
  OBVIOUS
<1>6. MemOK(m0) /\ m0.live = Range(b0) /\ Clean(b0)
  <2>1. CConfigFile \in Seq({DATATYPE_OBJECT, DATATYPE_ARRAY})
    BY DEF CConfigFile
  <2>2. PICK e, shape : e = EmptyMemory /\ shape = CConfigFile
    OBVIOUS
  <2>3. m0 = New(e, shape).memory /\ b0 = New(e, shape).blocks
    BY <1>5, <2>2 DEF Configured
  <2>4. MemOK(e) /\ e.live = {} /\ shape \in Seq({DATATYPE_OBJECT, DATATYPE_ARRAY})
    BY <1>4, <2>1, <2>2
  <2>5. MemOK(m0) /\ m0.live = e.live \cup Range(b0) /\ Clean(b0)
    BY <2>3, <2>4, NewOK
  <2> QED  BY <2>4, <2>5
<1>7. ListsOK(NoLists) /\ ListsHold(NoLists) = {}
  <2>1. DOMAIN NoLists = 1 .. 4 /\ \A k \in 1 .. 4 : NoLists[k] = NoList
    BY DEF NoLists, m_Servers, m_pLocalRecords
  <2>2. \A k \in 1 .. 4 : ListOK(NoLists[k]) /\ ListHolds(NoLists[k]) = {}
    BY <2>1, NoListOK
  <2> QED  BY <2>1, <2>2 DEF ListsOK, ListsHold
<1>8. /\ ListsOK(loaded.lists) /\ Clean(loaded.leaked)
      /\ ListsHold(loaded.lists) \cap Range(loaded.leaked) = {}
      /\ Turns(m0, ListsHold(NoLists), loaded.memory, ListsHold(loaded.lists) \cup Range(loaded.leaked))
  <2>1. ListsHold(NoLists) \subseteq m0.live
    BY <1>7
  <2> QED  BY <1>2, <1>5, <1>6, <1>7, <2>1, LoadOK
<1>9. PICK b1 : b1 = Started(loaded).blocks
  OBVIOUS
<1>10. /\ MemOK(memory) /\ memory.live = loaded.memory.live \cup Range(b1) /\ Clean(b1)
       /\ Range(b1) \cap loaded.memory.live = {}
  <2>1. <<DATATYPE_OBJECT, DATATYPE_OBJECT, DATATYPE_OBJECT>> \in Seq({DATATYPE_OBJECT, DATATYPE_ARRAY})
    OBVIOUS
  <2>2. MemOK(loaded.memory)
    BY <1>8 DEF Turns
  <2> QED  BY <1>3, <1>9, <2>1, <2>2, NewOK DEF Started
<1>11. PICK L, X, P : /\ L = ListsHold(loaded.lists) /\ X = Range(loaded.leaked)
                      /\ P = Range(permanent)
  OBVIOUS
<1>12. loaded.memory.live = Range(b0) \cup L \cup X /\ Range(b0) \cap L = {} /\ Range(b0) \cap X = {}
  BY <1>6, <1>7, <1>8, <1>11 DEF Turns
<1>13. Clean(permanent) /\ P = Range(b0) \cup Range(b1)
  <2>1. Range(b0) \cap Range(b1) = {}
    BY <1>10, <1>12
  <2>2. /\ b0 \o b1 \in Seq(Block) /\ IsInjective(b0 \o b1)
        /\ Range(b0 \o b1) = Range(b0) \cup Range(b1)
    BY <1>6, <1>10, <2>1, ConcatClean DEF Clean
  <2> QED  BY <1>3, <1>5, <1>9, <1>11, <2>2 DEF Clean
<1>14. LostHolds(lost) = X
  <2>1. Range(<<>>) = {}
    BY DEF Range
  <2> QED  BY <1>3, <1>11, <2>1 DEF LostHolds
<1>15. QueueOK(m_pQueue) /\ QueueHolds(m_pQueue) = {}
  <2>1. Clean(<<>>) /\ Range(<<>>) = {}
    BY DEF Clean, IsInjective, Range
  <2> QED  BY <2>1 DEF MemoryInit, QueueOK, QueueHolds
<1>16. CacheOK(m_pRecordTree) /\ CacheHolds(m_pRecordTree) = {}
  <2>1. Clean(<<>>) /\ Range(<<>>) = {}
    BY DEF Clean, IsInjective, Range
  <2>2. PICK c : c = m_pRecordTree
    OBVIOUS
  <2>3. /\ c = [tree |-> c.tree, nodes |-> c.nodes] /\ c.tree = <<>>
        /\ c.nodes = [name \in Names |-> c.nodes[name]]
        /\ \A name \in Names : c.nodes[name] = NoNode
    BY <2>2 DEF MemoryInit
  <2>4. \A name \in Names : NodeOK(c.nodes[name]) /\ NodeHolds(c.nodes[name]) = {}
    BY <2>3, NoNodeOK
  <2> QED  BY <2>1, <2>2, <2>3, <2>4 DEF CacheOK, CacheHolds, NodesHold
<1>17. Holders
  <2>1. Shared(memory.live, P, {}, {}, L, X)
    BY <1>8, <1>10, <1>11, <1>12, <1>13 DEF Shared
  <2> QED  BY <1>3, <1>11, <1>14, <1>15, <1>16, <2>1 DEF Holders
<1> QED  BY <1>3, <1>8, <1>10, <1>13, <1>15, <1>16, <1>17 DEF HeapInv

\* What has come in is decoded beside what is there.
LEMMA DecodedOK ==
    ASSUME MemOK(memory), NEW d \in Datagrams, NEW in, in \in Decoded(d) \/ in = Decode(memory, d)
    PROVE  ListsOK(in.message) /\ Turns(memory, {}, in.memory, ListsHold(in.message))
<1>1. in = Decode(memory, d)
  BY DEF Decoded
<1> QED  BY <1>1, DecodeOK

\* Nothing has been given up, for nothing.
LEMMA NoTurn == ASSUME NEW m, MemOK(m) PROVE Turns(m, {}, m, {})
BY DEF Turns

\* A datagram that cannot be decoded leaves nothing, however far Decode came.
LEMMA NotDecodedKeeps == ASSUME HeapInv, NEW d \in Datagrams, NotDecoded(d) PROVE HeapInv'
<1>1. PICK in \in {Decode(memory, d)} : memory' = Destroy(in.memory, in.message)
  BY DEF NotDecoded
<1>2. ListsOK(in.message) /\ Turns(memory, {}, in.memory, ListsHold(in.message))
  BY <1>1, DecodedOK DEF HeapInv
<1>3. MemOK(memory') /\ memory'.live = memory.live
  BY <1>1, <1>2, DestroyOK
<1> QED  BY <1>3, SameOwners DEF NotDecoded

\* Nor does one that is not answered.
LEMMA DroppedKeeps == ASSUME HeapInv, NEW d \in Datagrams, Dropped(d) PROVE HeapInv'
<1>1. PICK in \in Decoded(d) : memory' = Destroy(in.memory, in.message)
  BY DEF Dropped
<1>2. ListsOK(in.message) /\ Turns(memory, {}, in.memory, ListsHold(in.message))
  BY <1>1, DecodedOK DEF HeapInv
<1>3. MemOK(memory') /\ memory'.live = memory.live
  BY <1>1, <1>2, DestroyOK
<1> QED  BY <1>3, SameOwners DEF Dropped

\* The error goes out with the queries of the question, which stay its own.
LEMMA answerWithErrorKeeps == ASSUME HeapInv, NEW d \in Datagrams, answerWithError(d) PROVE HeapInv'
<1>1. PICK in \in Decoded(d) :
          memory' = Answered(in.memory, in, <<in.message[1], NoList, NoList, NoList>>, {1})
  BY DEF answerWithError
<1>2. ListsOK(in.message) /\ Turns(memory, {}, in.memory, ListsHold(in.message))
  BY <1>1, DecodedOK DEF HeapInv
<1>3. PICK rMsg : rMsg = <<in.message[1], NoList, NoList, NoList>>
  OBVIOUS
<1>4. NotOurs(rMsg, {1}) = <<NoList, NoList, NoList, NoList>>
  BY <1>3, NotOursOK
<1>5. ListOK(NoList) /\ Turns(in.memory, {}, in.memory, ListHolds(NoList))
  BY <1>2, NoListOK, NoTurn DEF Turns
<1>6. PICK borrowed : borrowed = {1}
  OBVIOUS
<1>7. MemOK(memory') /\ memory'.live = memory.live
  BY <1>1, <1>2, <1>3, <1>4, <1>5, <1>6, AnsweredOK
<1> QED  BY <1>7, SameOwners DEF answerWithError

\* The records made for an answer go with it, the queries with the question.
LEMMA answerWithLocalDataKeeps ==
    ASSUME HeapInv, NEW d \in Datagrams, NEW pRec \in LocalRecords, answerWithLocalData(d, pRec)
    PROVE  HeapInv'
<1>1. PICK in \in Decoded(d) :
          \E answers \in {IF pRec = <<>> THEN [memory |-> in.memory, list |-> NoList]
                          ELSE NewList(in.memory, pRec[1], CResourceRecord)} :
              memory' = Answered(answers.memory, in,
                                 <<in.message[1], answers.list, NoList, NoList>>, {1})
  BY DEF answerWithLocalData
<1>2. ListsOK(in.message) /\ Turns(memory, {}, in.memory, ListsHold(in.message))
  BY <1>1, DecodedOK DEF HeapInv
<1>3. PICK answers : answers = IF pRec = <<>> THEN [memory |-> in.memory, list |-> NoList]
                               ELSE NewList(in.memory, pRec[1], CResourceRecord)
  OBVIOUS
<1>4. PICK m, list : m = answers.memory /\ list = answers.list
  OBVIOUS
<1>5. memory' = Answered(m, in, <<in.message[1], list, NoList, NoList>>, {1})
  BY <1>1, <1>3, <1>4
<1>6. MemOK(in.memory)
  BY <1>2 DEF Turns
<1>7. ListOK(list) /\ Turns(in.memory, {}, m, ListHolds(list))
  <2>1. CASE pRec = <<>>
    <3>1. m = in.memory /\ list = NoList
      BY <1>3, <1>4, <2>1
    <3>2. Turns(in.memory, {}, in.memory, {})
      BY <1>6, NoTurn
    <3> QED  BY <3>1, <3>2, NoListOK
  <2>2. CASE pRec # <<>>
    <3>1. m = NewList(in.memory, pRec[1], CResourceRecord).memory
      BY <1>3, <1>4, <2>2
    <3>2. list = NewList(in.memory, pRec[1], CResourceRecord).list
      BY <1>3, <1>4, <2>2
    <3>3. pRec[1] \in Nat /\ CResourceRecord \in Seq({DATATYPE_OBJECT, DATATYPE_ARRAY})
      <4>1. PICK count \in LocalCounts : pRec = <<count>>
        BY <2>2 DEF LocalRecords
      <4>2. pRec[1] = count
        BY <4>1
      <4> QED  BY <4>1, <4>2, LocalCountsAssumption DEF CResourceRecord
    <3> QED  BY <1>6, <3>1, <3>2, <3>3, NewListOK
  <2> QED  BY <2>1, <2>2
<1>8. PICK rMsg : rMsg = <<in.message[1], list, NoList, NoList>>
  OBVIOUS
<1>9. NotOurs(rMsg, {1}) = <<NoList, list, NoList, NoList>>
  BY <1>8, NotOursOK
<1>10. PICK borrowed : borrowed = {1}
  OBVIOUS
<1>11. MemOK(memory') /\ memory'.live = memory.live
  BY <1>2, <1>5, <1>7, <1>8, <1>9, <1>10, AnsweredOK
<1> QED  BY <1>11, SameOwners DEF answerWithLocalData

\* What the cache lends to an answer stays in the cache.
LEMMA answerFromCacheKeeps ==
    ASSUME HeapInv, NEW d \in Datagrams, NEW name \in Names, answerFromCache(d, name)
    PROVE  HeapInv'
<1>1. PICK list : list = [array |-> <<m_pRecordTree.nodes[name].node[2]>>,
                          items |-> m_pRecordTree.nodes[name].items]
  OBVIOUS
<1>2. PICK in \in Decoded(d) :
          memory' = Answered(in.memory, in, <<in.message[1], list, NoList, NoList>>, {1, 2, 3, 4})
  BY <1>1 DEF answerFromCache
<1>3. ListsOK(in.message) /\ Turns(memory, {}, in.memory, ListsHold(in.message))
  BY <1>2, DecodedOK DEF HeapInv
<1>4. PICK rMsg : rMsg = <<in.message[1], list, NoList, NoList>>
  OBVIOUS
<1>5. NotOurs(rMsg, {1, 2, 3, 4}) = <<NoList, NoList, NoList, NoList>>
  BY <1>4, NotOursOK
<1>6. ListOK(NoList) /\ Turns(in.memory, {}, in.memory, ListHolds(NoList))
  BY <1>3, NoListOK, NoTurn DEF Turns
<1>7. PICK borrowed : borrowed = {1, 2, 3, 4}
  OBVIOUS
<1>8. MemOK(memory') /\ memory'.live = memory.live
  BY <1>2, <1>3, <1>4, <1>5, <1>6, <1>7, AnsweredOK
<1> QED  BY <1>8, SameOwners DEF answerFromCache

\* One that is lost is nobody's any more.
LEMMA Losing ==
    ASSUME NEW leaked, NEW b
    PROVE  /\ LostHolds(leaked \cup ({b} \ {<<>>})) = LostHolds(leaked) \cup Range(b)
           /\ LostHolds(leaked \cup {b}) = LostHolds(leaked) \cup Range(b)
<1>1. Range(<<>>) = {}
  BY DEF Range
<1>2. CASE b = <<>>
  BY <1>1, <1>2 DEF LostHolds
<1>3. CASE b # <<>>
  BY <1>3 DEF LostHolds
<1> QED  BY <1>2, <1>3

\* A query that is forwarded is in the queue, and the one it replaces is lost.
LEMMA forwardMsgKeeps ==
    ASSUME HeapInv, NEW d \in Datagrams, NEW id \in Ids, forwardMsg(d, id)
    PROVE  HeapInv'
<1>1. PICK in \in Decoded(d) : \E query \in {New(in.memory, PendingQuery)} :
          /\ memory' = Destroy(query.memory, in.message)
          /\ m_pQueue' = [m_pQueue EXCEPT ![id] = query.blocks]
  BY DEF forwardMsg
<1>2. PICK m, b : m = New(in.memory, PendingQuery).memory /\ b = New(in.memory, PendingQuery).blocks
  OBVIOUS
<1>3. memory' = Destroy(m, in.message) /\ m_pQueue' = [m_pQueue EXCEPT ![id] = b]
  BY <1>1, <1>2
<1>4. ListsOK(in.message) /\ Turns(memory, {}, in.memory, ListsHold(in.message))
  BY <1>1, DecodedOK DEF HeapInv
<1>5. MemOK(m) /\ m.live = in.memory.live \cup Range(b) /\ Clean(b) /\ Range(b) \cap in.memory.live = {}
  <2>1. PendingQuery \in Seq({DATATYPE_OBJECT, DATATYPE_ARRAY})
    BY DEF PendingQuery
  <2>2. MemOK(in.memory)
    BY <1>4 DEF Turns
  <2> QED  BY <1>2, <2>1, <2>2, NewOK
<1>6. PICK M : M = ListsHold(in.message)
  OBVIOUS
<1>7. in.memory.live = memory.live \cup M /\ memory.live \cap M = {}
  BY <1>4, <1>6 DEF Turns
<1>8. MemOK(memory') /\ memory'.live = m.live \ M
  <2>1. ListsHold(in.message) \subseteq m.live
    BY <1>5, <1>6, <1>7
  <2> QED  BY <1>3, <1>4, <1>5, <1>6, <2>1, FreeListsOK DEF Destroy
<1>9. memory'.live = memory.live \cup Range(b) /\ Range(b) \cap memory.live = {}
  BY <1>5, <1>7, <1>8
<1>10. PICK P, Q, C, L, X, old :
           /\ P = Range(permanent) /\ Q = QueueHolds(m_pQueue)
           /\ C = CacheHolds(m_pRecordTree) /\ L = ListsHold(m_pConfig)
           /\ X = LostHolds(lost) /\ old = Range(m_pQueue[id])
  OBVIOUS
<1>11. Shared(memory.live, P, Q, C, L, X)
  BY <1>10 DEF HeapInv, Holders
<1>12. old \subseteq Q
  BY <1>10 DEF QueueHolds
<1>13. QueueOK(m_pQueue') /\ QueueHolds(m_pQueue') = (Q \ old) \cup Range(b)
  <2>1. PICK q, new : q = m_pQueue /\ new = m_pQueue'
    OBVIOUS
  <2>2. Range(b) \cap (QueueHolds(q) \ Range(q[id])) = {}
    BY <1>9, <1>10, <1>11, <2>1 DEF Shared
  <2>3. QueueOK(q) /\ Stored(q, id, b, new)
    BY <1>3, <2>1 DEF HeapInv, Stored
  <2>4. QueueOK(new) /\ QueueHolds(new) = (QueueHolds(q) \ Range(q[id])) \cup Range(b)
    BY <1>5, <2>2, <2>3, QueuePut
  <2> QED  BY <1>10, <2>1, <2>4
<1>14. LostHolds(lost') = X \cup old
  <2>1. lost' = lost \cup ({m_pQueue[id]} \ {<<>>})
    BY DEF forwardMsg
  <2> QED  BY <1>10, <2>1, Losing
<1>15. Shared(memory'.live, P, (Q \ old) \cup Range(b), C, L, X \cup old)
  BY <1>9, <1>11, <1>12 DEF Shared
<1>16. /\ permanent' = permanent /\ m_pRecordTree' = m_pRecordTree /\ m_pConfig' = m_pConfig
  BY DEF forwardMsg
<1>17. Holders'
  BY <1>10, <1>13, <1>14, <1>15, <1>16 DEF Holders
<1> QED  BY <1>8, <1>13, <1>16, <1>17 DEF HeapInv

\* The query that an answer took by mistake is lost.
LEMMA unknownAnswerKeeps ==
    ASSUME HeapInv, NEW d \in Datagrams, NEW id \in Ids, unknownAnswer(d, id)
    PROVE  HeapInv'
<1>1. PICK in \in Decoded(d) : memory' = Destroy(in.memory, in.message)
  BY DEF unknownAnswer
<1>2. ListsOK(in.message) /\ Turns(memory, {}, in.memory, ListsHold(in.message))
  BY <1>1, DecodedOK DEF HeapInv
<1>3. MemOK(memory') /\ memory'.live = memory.live
  BY <1>1, <1>2, DestroyOK
<1>4. PICK P, Q, C, L, X, old :
          /\ P = Range(permanent) /\ Q = QueueHolds(m_pQueue)
          /\ C = CacheHolds(m_pRecordTree) /\ L = ListsHold(m_pConfig)
          /\ X = LostHolds(lost) /\ old = Range(m_pQueue[id])
  OBVIOUS
<1>5. Shared(memory.live, P, Q, C, L, X)
  BY <1>4 DEF HeapInv, Holders
<1>6. old \subseteq Q
  BY <1>4 DEF QueueHolds
<1>7. QueueOK(m_pQueue') /\ QueueHolds(m_pQueue') = Q \ old
  <2>1. PICK none : none = <<>>
    OBVIOUS
  <2>2. Clean(none) /\ Range(none) = {}
    BY <2>1 DEF Clean, IsInjective, Range
  <2>3. PICK q, new : q = m_pQueue /\ new = m_pQueue'
    OBVIOUS
  <2>4. QueueOK(q) /\ Stored(q, id, none, new)
    BY <2>1, <2>3 DEF HeapInv, unknownAnswer, Stored
  <2>5. Range(none) \cap (QueueHolds(q) \ Range(q[id])) = {}
    BY <2>2
  <2>6. QueueOK(new) /\ QueueHolds(new) = (QueueHolds(q) \ Range(q[id])) \cup Range(none)
    BY <2>2, <2>4, <2>5, QueuePut
  <2> QED  BY <1>4, <2>2, <2>3, <2>6
<1>8. LostHolds(lost') = X \cup old
  <2>1. lost' = lost \cup {m_pQueue[id]}
    BY DEF unknownAnswer
  <2> QED  BY <1>4, <2>1, Losing
<1>9. Shared(memory'.live, P, Q \ old, C, L, X \cup old)
  BY <1>3, <1>5, <1>6 DEF Shared
<1>10. /\ permanent' = permanent /\ m_pRecordTree' = m_pRecordTree /\ m_pConfig' = m_pConfig
  BY DEF unknownAnswer
<1>11. Holders'
  BY <1>4, <1>7, <1>8, <1>9, <1>10 DEF Holders
<1> QED  BY <1>3, <1>7, <1>10, <1>11 DEF HeapInv

\* An answer, filtered and cached or not, releases its query and itself.
LEMMA handleAnswerKeeps ==
    ASSUME HeapInv, NEW d \in Datagrams, NEW id \in Ids, NEW name \in Names, NEW noError, NEW lives,
           handleAnswer(d, id, name, noError, lives)
    PROVE  HeapInv'
<1>1. PICK in \in Decoded(d) : \E drop \in SUBSET RecordsOf(in.message) :
      \E sanitized \in {SanitizeRecords(in.memory, in.message, drop)} :
      \E cached \in {IF noError THEN cache(sanitized.memory, name, sanitized.message, lives)
                     ELSE [memory |-> sanitized.memory, cache |-> m_pRecordTree]} :
          /\ memory' = Destroy(Delete(cached.memory, m_pQueue[id]), sanitized.message)
          /\ m_pRecordTree' = cached.cache
  BY DEF handleAnswer
<1>2. PICK drop \in SUBSET RecordsOf(in.message) :
      \E sanitized \in {SanitizeRecords(in.memory, in.message, drop)} :
      \E cached \in {IF noError THEN cache(sanitized.memory, name, sanitized.message, lives)
                     ELSE [memory |-> sanitized.memory, cache |-> m_pRecordTree]} :
          /\ memory' = Destroy(Delete(cached.memory, m_pQueue[id]), sanitized.message)
          /\ m_pRecordTree' = cached.cache
  BY <1>1
<1>3. PICK ms, message : /\ ms = SanitizeRecords(in.memory, in.message, drop).memory
                         /\ message = SanitizeRecords(in.memory, in.message, drop).message
  OBVIOUS
<1>4. PICK mc, after : /\ mc = IF noError THEN cache(ms, name, message, lives).memory ELSE ms
                       /\ after = IF noError THEN cache(ms, name, message, lives).cache
                                  ELSE m_pRecordTree
  OBVIOUS
<1>5. memory' = Destroy(Delete(mc, m_pQueue[id]), message) /\ m_pRecordTree' = after
  BY <1>2, <1>3, <1>4
<1>6. ListsOK(in.message) /\ Turns(memory, {}, in.memory, ListsHold(in.message))
  BY <1>1, DecodedOK DEF HeapInv
<1>7. PICK M, M2 : M = ListsHold(in.message) /\ M2 = ListsHold(message)
  OBVIOUS
<1>8. MemOK(in.memory) /\ in.memory.live = memory.live \cup M /\ memory.live \cap M = {}
  BY <1>6, <1>7 DEF Turns
<1>9. ListsOK(message) /\ Turns(in.memory, M, ms, M2)
  <2>1. ListsHold(in.message) \subseteq in.memory.live
    BY <1>7, <1>8
  <2> QED  BY <1>3, <1>6, <1>7, <1>8, <2>1, SanitizeRecordsOK
<1>10. MemOK(ms) /\ ms.live = memory.live \cup M2 /\ memory.live \cap M2 = {}
  BY <1>8, <1>9 DEF Turns
<1>11. PICK P, Q, C, L, X, old :
           /\ P = Range(permanent) /\ Q = QueueHolds(m_pQueue)
           /\ C = CacheHolds(m_pRecordTree) /\ L = ListsHold(m_pConfig)
           /\ X = LostHolds(lost) /\ old = Range(m_pQueue[id])
  OBVIOUS
<1>12. Shared(memory.live, P, Q, C, L, X)
  BY <1>11 DEF HeapInv, Holders
<1>13. old \subseteq Q
  BY <1>11 DEF QueueHolds
<1>14. C \subseteq memory.live /\ CacheOK(m_pRecordTree)
  BY <1>12 DEF Shared, HeapInv
<1>15. PICK D : D = CacheHolds(after)
  OBVIOUS
<1>16. CacheOK(after) /\ Turns(ms, C, mc, D)
  <2>1. CASE noError
    <3>1. mc = cache(ms, name, message, lives).memory /\ after = cache(ms, name, message, lives).cache
      BY <1>4, <2>1
    <3>2. CacheHolds(m_pRecordTree) \subseteq ms.live
      BY <1>10, <1>11, <1>14
    <3>3. /\ CacheOK(cache(ms, name, message, lives).cache)
          /\ Turns(ms, CacheHolds(m_pRecordTree), cache(ms, name, message, lives).memory,
                   CacheHolds(cache(ms, name, message, lives).cache))
      BY <1>9, <1>10, <1>14, <3>2, cacheOK
    <3> QED  BY <1>11, <1>15, <3>1, <3>3
  <2>2. CASE ~noError
    <3>1. mc = ms /\ after = m_pRecordTree /\ D = C
      BY <1>4, <1>11, <1>15, <2>2
    <3>2. Turns(ms, C, ms, C)
      BY <1>10, <1>14 DEF Turns
    <3> QED  BY <1>14, <3>1, <3>2
  <2> QED  BY <2>1, <2>2
<1>17. MemOK(mc) /\ mc.live = (ms.live \ C) \cup D /\ (ms.live \ C) \cap D = {}
  BY <1>16 DEF Turns
<1>18. old \subseteq ms.live \ C /\ M2 \subseteq ms.live \ C /\ old \cap M2 = {}
  BY <1>10, <1>12, <1>13, <1>14 DEF Shared
<1>19. PICK md : md = Delete(mc, m_pQueue[id])
  OBVIOUS
<1>20. MemOK(md) /\ md.live = mc.live \ old
  <2>1. Clean(m_pQueue[id]) /\ Range(m_pQueue[id]) \subseteq mc.live
    BY <1>11, <1>17, <1>18 DEF HeapInv, QueueOK
  <2> QED  BY <1>11, <1>17, <1>19, <2>1, DeleteOK
<1>21. MemOK(memory') /\ memory'.live = md.live \ M2
  <2>1. ListsHold(message) \subseteq md.live
    BY <1>7, <1>17, <1>18, <1>20
  <2> QED  BY <1>5, <1>7, <1>9, <1>19, <1>20, <2>1, FreeListsOK DEF Destroy
<1>22. memory'.live = ((memory.live \ C) \cup D) \ old /\ (memory.live \ C) \cap D = {} /\ D \cap old = {}
  BY <1>10, <1>17, <1>18, <1>20, <1>21
<1>23. QueueOK(m_pQueue') /\ QueueHolds(m_pQueue') = Q \ old
  <2>1. PICK none : none = <<>>
    OBVIOUS
  <2>2. Clean(none) /\ Range(none) = {}
    BY <2>1 DEF Clean, IsInjective, Range
  <2>3. PICK q, new : q = m_pQueue /\ new = m_pQueue'
    OBVIOUS
  <2>4. QueueOK(q) /\ Stored(q, id, none, new)
    BY <2>1, <2>3 DEF HeapInv, handleAnswer, Stored
  <2>5. Range(none) \cap (QueueHolds(q) \ Range(q[id])) = {}
    BY <2>2
  <2>6. QueueOK(new) /\ QueueHolds(new) = (QueueHolds(q) \ Range(q[id])) \cup Range(none)
    BY <2>2, <2>4, <2>5, QueuePut
  <2> QED  BY <1>11, <2>2, <2>3, <2>6
<1>24. Shared(memory'.live, P, Q \ old, D, L, X)
  BY <1>12, <1>13, <1>22 DEF Shared
<1>25. permanent' = permanent /\ m_pConfig' = m_pConfig /\ lost' = lost
  BY DEF handleAnswer
<1>26. Holders'
  BY <1>5, <1>11, <1>15, <1>23, <1>24, <1>25 DEF Holders
<1> QED  BY <1>5, <1>16, <1>21, <1>23, <1>25, <1>26 DEF HeapInv

\* The clean-up releases what it takes out of the cache and of the queue.
LEMMA IdleKeeps ==
    ASSUME HeapInv, NEW names \in SUBSET Cached, NEW ids \in SUBSET Pending, Idle(names, ids)
    PROVE  HeapInv'
<1>1. PICK removed : removed = RemoveExpired(memory, names)
  OBVIOUS
<1>2. /\ memory' = Delete(removed.memory, AllOf(m_pQueue, ids))
      /\ m_pRecordTree' = removed.cache
      /\ m_pQueue' = [id \in Ids |-> IF id \in ids THEN <<>> ELSE m_pQueue[id]]
      /\ permanent' = permanent /\ m_pConfig' = m_pConfig /\ lost' = lost
  BY <1>1 DEF Idle
<1>3. PICK P, Q, C, L, X, D :
          /\ P = Range(permanent) /\ Q = QueueHolds(m_pQueue)
          /\ C = CacheHolds(m_pRecordTree) /\ L = ListsHold(m_pConfig)
          /\ X = LostHolds(lost) /\ D = CacheHolds(removed.cache)
  OBVIOUS
<1>4. Shared(memory.live, P, Q, C, L, X)
  BY <1>3 DEF HeapInv, Holders
<1>5. /\ CacheOK(removed.cache) /\ MemOK(removed.memory)
      /\ D \subseteq C /\ removed.memory.live = (memory.live \ C) \cup D
  <2>1. CacheHolds(m_pRecordTree) \subseteq memory.live
    BY <1>3, <1>4 DEF Shared
  <2> QED  BY <1>1, <1>3, <2>1, RemoveExpiredOK DEF HeapInv
<1>6. ids \subseteq Ids /\ IsFiniteSet(ids)
  <2>1. ids \subseteq Ids
    BY DEF Pending
  <2> QED  BY <2>1, FiniteAssumption, FS_Subset
<1>7. PICK q, a : q = m_pQueue /\ a = AllOf(m_pQueue, ids)
  OBVIOUS
<1>8. /\ \A id \in Ids : Clean(q[id])
      /\ \A i1, i2 \in Ids : i1 # i2 => Range(q[i1]) \cap Range(q[i2]) = {}
      /\ Q = UNION {Range(q[id]) : id \in Ids}
  BY <1>3, <1>7 DEF HeapInv, QueueOK, QueueHolds
<1>9. Clean(a) /\ Range(a) = UNION {Range(q[id]) : id \in ids}
  <2>1. \A id \in ids : Clean(q[id])
    BY <1>6, <1>8
  <2>2. \A i1, i2 \in ids : i1 # i2 => Range(q[i1]) \cap Range(q[i2]) = {}
    BY <1>6, <1>8
  <2> QED  BY <1>6, <1>7, <2>1, <2>2, AllOfOK
<1>10. Range(a) \subseteq Q
  BY <1>6, <1>8, <1>9
<1>11. MemOK(memory') /\ memory'.live = removed.memory.live \ Range(a)
  <2>1. Range(a) \subseteq removed.memory.live
    BY <1>4, <1>5, <1>10 DEF Shared
  <2> QED  BY <1>2, <1>5, <1>7, <1>9, <2>1, DeleteOK
<1>12. PICK new : new = m_pQueue'
  OBVIOUS
<1>13. /\ new = [id \in Ids |-> new[id]]
       /\ \A id \in Ids : id \in ids => new[id] = <<>>
       /\ \A id \in Ids : id \notin ids => new[id] = q[id]
  BY <1>2, <1>7, <1>12
<1>14. Clean(<<>>) /\ Range(<<>>) = {}
  BY DEF Clean, IsInjective, Range
<1>15. \A id \in Ids : Clean(new[id]) /\ Range(new[id]) \subseteq Range(q[id])
  BY <1>8, <1>13, <1>14
<1>16. QueueOK(new)
  <2>1. ASSUME NEW i1 \in Ids, NEW i2 \in Ids, i1 # i2
        PROVE  Range(new[i1]) \cap Range(new[i2]) = {}
    <3>1. Range(q[i1]) \cap Range(q[i2]) = {}
      BY <1>8, <2>1
    <3> QED  BY <1>15, <3>1
  <2> QED  BY <1>13, <1>15, <2>1, Zenon DEF QueueOK
<1>17. QueueHolds(new) = Q \ Range(a)
  <2>1. PICK U : U = QueueHolds(new)
    OBVIOUS
  <2>2. ASSUME NEW x \in U PROVE x \in Q \ Range(a)
    <3>1. PICK id \in Ids : x \in Range(new[id])
      BY <2>1 DEF QueueHolds
    <3>2. id \notin ids /\ x \in Range(q[id])
      BY <1>13, <1>14, <3>1
    <3>3. ASSUME NEW i \in ids PROVE x \notin Range(q[i])
      <4>1. i \in Ids /\ i # id
        BY <1>6, <3>2
      <4>2. Range(q[i]) \cap Range(q[id]) = {}
        BY <1>8, <4>1
      <4> QED  BY <3>2, <4>2
    <3> QED  BY <1>8, <1>9, <3>2, <3>3
  <2>3. ASSUME NEW x \in Q, x \notin Range(a) PROVE x \in U
    <3>1. PICK id \in Ids : x \in Range(q[id])
      BY <1>8
    <3>2. id \notin ids
      BY <1>9, <2>3, <3>1
    <3> QED  BY <1>13, <2>1, <3>1, <3>2 DEF QueueHolds
  <2> QED  BY <2>1, <2>2, <2>3
<1>18. Shared(memory'.live, P, Q \ Range(a), D, L, X)
  BY <1>4, <1>5, <1>10, <1>11 DEF Shared
<1>19. Holders'
  BY <1>2, <1>3, <1>12, <1>17, <1>18 DEF Holders
<1> QED  BY <1>2, <1>5, <1>11, <1>12, <1>16, <1>19 DEF HeapInv

\* Another load releases the old lists; what it leaks was read from the file.
LEMMA ReloadKeeps == ASSUME HeapInv, NEW file \in Files, Reload(file) PROVE HeapInv'
<1>1. PICK loaded : loaded = Load(memory, m_pConfig, file)
  OBVIOUS
<1>2. /\ memory' = loaded.memory /\ m_pConfig' = loaded.lists
      /\ lost' = lost \cup ({loaded.leaked} \ {<<>>})
      /\ permanent' = permanent /\ m_pQueue' = m_pQueue /\ m_pRecordTree' = m_pRecordTree
  BY <1>1 DEF Reload
<1>3. PICK P, Q, C, L, X, L2, X2 :
          /\ P = Range(permanent) /\ Q = QueueHolds(m_pQueue)
          /\ C = CacheHolds(m_pRecordTree) /\ L = ListsHold(m_pConfig)
          /\ X = LostHolds(lost) /\ L2 = ListsHold(loaded.lists) /\ X2 = Range(loaded.leaked)
  OBVIOUS
<1>4. Shared(memory.live, P, Q, C, L, X)
  BY <1>3 DEF HeapInv, Holders
<1>5. ListsOK(loaded.lists) /\ L2 \cap X2 = {} /\ Turns(memory, L, loaded.memory, L2 \cup X2)
  <2>1. ListsHold(m_pConfig) \subseteq memory.live
    BY <1>3, <1>4 DEF Shared
  <2> QED  BY <1>1, <1>3, <2>1, LoadOK DEF HeapInv
<1>6. /\ MemOK(memory') /\ memory'.live = (memory.live \ L) \cup (L2 \cup X2)
      /\ (memory.live \ L) \cap (L2 \cup X2) = {}
  BY <1>2, <1>5 DEF Turns
<1>7. LostHolds(lost') = X \cup X2
  BY <1>2, <1>3, Losing
<1>8. Shared(memory'.live, P, Q, C, L2, X \cup X2)
  BY <1>4, <1>5, <1>6 DEF Shared
<1>9. Holders'
  BY <1>2, <1>3, <1>7, <1>8 DEF Holders
<1> QED  BY <1>2, <1>5, <1>6, <1>9 DEF HeapInv

\* HeapInv is inductive.
LEMMA NextHeapInv == HeapInv /\ [MemoryNext]_memoryVars => HeapInv'
<1> SUFFICES ASSUME HeapInv, [MemoryNext]_memoryVars PROVE HeapInv'
  OBVIOUS
<1>1. CASE UNCHANGED memoryVars
  <2>1. MemOK(memory)
    BY DEF HeapInv
  <2>2. MemOK(memory') /\ memory'.live = memory.live
    BY <1>1, <2>1 DEF memoryVars
  <2> QED  BY <1>1, <2>2, SameOwners DEF memoryVars
<1>2. ASSUME NEW d \in Datagrams, NotDecoded(d) PROVE HeapInv'
  BY <1>2, NotDecodedKeeps
<1>3. ASSUME NEW d \in Datagrams, Dropped(d) PROVE HeapInv'
  BY <1>3, DroppedKeeps
<1>4. ASSUME NEW d \in Datagrams, answerWithError(d) PROVE HeapInv'
  BY <1>4, answerWithErrorKeeps
<1>5. ASSUME NEW d \in Datagrams, NEW pRec \in LocalRecords, answerWithLocalData(d, pRec) PROVE HeapInv'
  BY <1>5, answerWithLocalDataKeeps
<1>6. ASSUME NEW d \in Datagrams, NEW name \in Names, answerFromCache(d, name) PROVE HeapInv'
  BY <1>6, answerFromCacheKeeps
<1>7. ASSUME NEW d \in Datagrams, NEW id \in Ids, forwardMsg(d, id) PROVE HeapInv'
  BY <1>7, forwardMsgKeeps
<1>8. ASSUME NEW d \in Datagrams, NEW id \in Ids, unknownAnswer(d, id) PROVE HeapInv'
  BY <1>8, unknownAnswerKeeps
<1>9. ASSUME NEW d \in Datagrams, NEW id \in Ids, NEW name \in Names, NEW noError, NEW lives,
             handleAnswer(d, id, name, noError, lives)
      PROVE  HeapInv'
  BY <1>9, handleAnswerKeeps
<1>10. ASSUME NEW names \in SUBSET Cached, NEW ids \in SUBSET Pending, Idle(names, ids) PROVE HeapInv'
  BY <1>10, IdleKeeps
<1>11. ASSUME NEW file \in Files, Reload(file) PROVE HeapInv'
  BY <1>11, ReloadKeeps
<1> QED  BY <1>1, <1>2, <1>3, <1>4, <1>5, <1>6, <1>7, <1>8, <1>9, <1>10, <1>11
         DEF MemoryNext, TurnNext

\* Whatever comes in, in whatever order, and however often the configuration is
\* loaded: each block that is there has exactly one owner (dnsServer.cpp:410-462).
THEOREM HeapInvHolds == MemorySpec => []HeapInv
BY InitHeapInv, NextHeapInv, PTL DEF MemorySpec

\* Nothing is released twice or as the wrong kind, for messages of any counts,
\* cut anywhere, and for files of any lines (dnsServer.cpp:145 and 213,
\* CMessage.h:99-175).
THEOREM ReleasedOnceHolds == MemorySpec => []ReleasedOnce
<1>1. HeapInv => ReleasedOnce
  BY DEF HeapInv, MemOK, ReleasedOnce
<1> QED  BY <1>1, HeapInvHolds, PTL

\* As long as its table of any size has not overflowed, heap_dbg.c knows exactly
\* what is allocated, and does not complain (heap_dbg.c:15-68).
THEOREM HeapDbgTellsTheTruthHolds == MemorySpec => []HeapDbgTellsTheTruth
<1>1. HeapInv => HeapDbgTellsTheTruth
  <2> SUFFICES ASSUME HeapInv, ~memory.overflowed
               PROVE  /\ memory.complained = memory.wrong
                      /\ Range(memory.heap) = memory.live
                      /\ Len(memory.heap) = Cardinality(memory.live)
    BY DEF HeapDbgTellsTheTruth
  <2>1. MemOK(memory)
    BY DEF HeapInv
  <2>2. memory.complained = FALSE /\ memory.wrong = FALSE
    BY <2>1 DEF MemOK
  <2>3. Range(memory.heap) = memory.live
    BY <2>1 DEF MemOK
  <2>4. memory.heap \in Seq(Block) /\ IsInjective(memory.heap)
    BY <2>1 DEF MemOK
  <2>5. Cardinality(Range(memory.heap)) = Len(memory.heap)
    BY <2>4, CleanCounts
  <2> QED  BY <2>2, <2>3, <2>5
<1> QED  BY <1>1, HeapInvHolds, PTL

Follows(a, b, c) == c = a \o b

\* Sequences of blocks that share nothing, one after the other.
LEMMA CleanBoth ==
    ASSUME NEW a, Clean(a), NEW b, Clean(b), Range(a) \cap Range(b) = {}, NEW c, Follows(a, b, c)
    PROVE  Clean(c) /\ Range(c) = Range(a) \cup Range(b)
BY ConcatClean DEF Clean, Follows

\* What Owned lists is what the queue, the cache and the configuration hold.
LEMMA OwnedOK ==
    HeapInv => /\ Clean(Owned)
               /\ Range(Owned) = Range(permanent) \cup QueueHolds(m_pQueue)
                                 \cup CacheHolds(m_pRecordTree) \cup ListsHold(m_pConfig)
<1> SUFFICES ASSUME HeapInv
             PROVE  /\ Clean(Owned)
                    /\ Range(Owned) = Range(permanent) \cup QueueHolds(m_pQueue)
                                      \cup CacheHolds(m_pRecordTree) \cup ListsHold(m_pConfig)
  OBVIOUS
<1>1. PICK p, q, c, lists : /\ p = permanent /\ q = m_pQueue
                            /\ c = m_pRecordTree /\ lists = m_pConfig
  OBVIOUS
<1>2. PICK P, Q, C, L, X : /\ P = Range(p) /\ Q = QueueHolds(q) /\ C = CacheHolds(c)
                           /\ L = ListsHold(lists) /\ X = LostHolds(lost)
  OBVIOUS
<1>3. /\ Shared(memory.live, P, Q, C, L, X)
      /\ Clean(p) /\ QueueOK(q) /\ CacheOK(c) /\ ListsOK(lists)
  BY <1>1, <1>2 DEF HeapInv, Holders
<1>4. PICK qs : qs = AllOf(m_pQueue, Ids)
  OBVIOUS
<1>5. Clean(qs) /\ Range(qs) = Q
  <2>1. /\ \A id \in Ids : Clean(q[id])
        /\ \A i1, i2 \in Ids : i1 # i2 => Range(q[i1]) \cap Range(q[i2]) = {}
    BY <1>3 DEF QueueOK
  <2>2. IsFiniteSet(Ids)
    BY FiniteAssumption
  <2>3. Clean(AllOf(q, Ids)) /\ Range(AllOf(q, Ids)) = UNION {Range(q[id]) : id \in Ids}
    BY <2>1, <2>2, AllOfOK
  <2> QED  BY <1>1, <1>2, <1>4, <2>3 DEF QueueHolds
<1>6. PICK f : f = [name \in Names |-> m_pRecordTree.nodes[name].key
                                        \o NodeBlocks(m_pRecordTree.nodes[name])]
  OBVIOUS
<1>7. /\ \A n \in Names : NodeOK(c.nodes[n]) /\ NodeHolds(c.nodes[n]) \cap Range(c.tree) = {}
      /\ \A n1, n2 \in Names : n1 # n2 => NodeHolds(c.nodes[n1]) \cap NodeHolds(c.nodes[n2]) = {}
      /\ Clean(c.tree)
  BY <1>3 DEF CacheOK
<1>8. \A n \in Names : Clean(f[n]) /\ Range(f[n]) = NodeHolds(c.nodes[n])
  <2> TAKE n \in Names
  <2>1. PICK node : node = c.nodes[n]
    OBVIOUS
  <2>2. PICK k, b : k = node.key /\ b = NodeBlocks(node)
    OBVIOUS
  <2>3. Follows(k, b, f[n])
    BY <1>1, <1>6, <2>1, <2>2, Zenon DEF Follows
  <2>4. NodeOK(node)
    BY <1>7, <2>1
  <2>5. Clean(b) /\ Range(b) = Range(node.node) \cup InAll(node.items)
    BY <2>2, <2>4, NodeBlocksOK
  <2>6. Clean(k) /\ Range(k) \cap Range(b) = {}
    BY <2>2, <2>4, <2>5 DEF NodeOK
  <2>7. Clean(f[n]) /\ Range(f[n]) = Range(k) \cup Range(b)
    BY <2>3, <2>5, <2>6, CleanBoth
  <2>8. NodeHolds(node) = Range(k) \cup Range(b)
    BY <2>2, <2>5 DEF NodeHolds
  <2> QED  BY <2>1, <2>7, <2>8
<1>9. PICK ns : ns = AllOf(f, Names)
  OBVIOUS
<1>10. Clean(ns) /\ Range(ns) = NodesHold(c.nodes, Names)
  <2>1. \A n \in Names : Clean(f[n])
    BY <1>8
  <2>2. ASSUME NEW n1 \in Names, NEW n2 \in Names, n1 # n2
        PROVE  Range(f[n1]) \cap Range(f[n2]) = {}
    <3>1. NodeHolds(c.nodes[n1]) \cap NodeHolds(c.nodes[n2]) = {}
      BY <1>7, <2>2
    <3> QED  BY <1>8, <3>1
  <2>3. IsFiniteSet(Names)
    BY FiniteAssumption
  <2>4. Clean(AllOf(f, Names)) /\ Range(AllOf(f, Names)) = UNION {Range(f[n]) : n \in Names}
    BY <2>1, <2>2, <2>3, AllOfOK
  <2>5. UNION {Range(f[n]) : n \in Names} = UNION {NodeHolds(c.nodes[n]) : n \in Names}
    BY <1>8
  <2> QED  BY <1>9, <2>4, <2>5 DEF NodesHold
<1>11. /\ C = Range(c.tree) \cup Range(ns) /\ Range(c.tree) \cap Range(ns) = {}
  <2>1. Range(c.tree) \cap NodesHold(c.nodes, Names) = {}
    BY <1>7 DEF NodesHold
  <2> QED  BY <1>2, <1>10, <2>1 DEF CacheHolds
<1>12. PICK b1, b2, b3, b4 : /\ b1 = BlocksOf(m_pConfig[m_Servers]) /\ b2 = BlocksOf(m_pConfig[m_WhiteList])
                             /\ b3 = BlocksOf(m_pConfig[m_BlackList])
                             /\ b4 = BlocksOf(m_pConfig[m_pLocalRecords])
  OBVIOUS
<1>13. /\ b1 = BlocksOf(lists[1]) /\ b2 = BlocksOf(lists[2])
       /\ b3 = BlocksOf(lists[3]) /\ b4 = BlocksOf(lists[4])
  BY <1>1, <1>12 DEF m_Servers, m_WhiteList, m_BlackList, m_pLocalRecords
<1>14. PICK h1, h2, h3, h4 : /\ h1 = ListHolds(lists[1]) /\ h2 = ListHolds(lists[2])
                             /\ h3 = ListHolds(lists[3]) /\ h4 = ListHolds(lists[4])
  OBVIOUS
<1>15. /\ ListOK(lists[1]) /\ ListOK(lists[2]) /\ ListOK(lists[3]) /\ ListOK(lists[4])
       /\ h1 \cap h2 = {} /\ h1 \cap h3 = {} /\ h1 \cap h4 = {}
       /\ h2 \cap h3 = {} /\ h2 \cap h4 = {} /\ h3 \cap h4 = {}
  BY <1>3, <1>14 DEF ListsOK
<1>16. L = h1 \cup h2 \cup h3 \cup h4
  BY <1>2, <1>14 DEF ListsHold
<1>17. /\ Clean(b1) /\ Range(b1) = h1 /\ Clean(b2) /\ Range(b2) = h2
       /\ Clean(b3) /\ Range(b3) = h3 /\ Clean(b4) /\ Range(b4) = h4
  BY <1>13, <1>14, <1>15, BlocksOfOK
<1>18. PICK o1, o2, o3, o4, o5, o6, o7 :
           /\ o1 = p \o qs /\ o2 = o1 \o c.tree /\ o3 = o2 \o ns
           /\ o4 = o3 \o b1 /\ o5 = o4 \o b2 /\ o6 = o5 \o b3 /\ o7 = o6 \o b4
  OBVIOUS
<1>19. Owned = o7
  BY <1>1, <1>4, <1>6, <1>9, <1>12, <1>18, Zenon DEF Owned
<1>20. /\ Follows(p, qs, o1) /\ Follows(o1, c.tree, o2) /\ Follows(o2, ns, o3)
       /\ Follows(o3, b1, o4) /\ Follows(o4, b2, o5) /\ Follows(o5, b3, o6) /\ Follows(o6, b4, o7)
  BY <1>18, Zenon DEF Follows
<1>21. Clean(o1) /\ Range(o1) = P \cup Q
  <2>1. Range(p) \cap Range(qs) = {}
    BY <1>2, <1>3, <1>5 DEF Shared
  <2>2. Clean(o1) /\ Range(o1) = Range(p) \cup Range(qs)
    BY <1>2, <1>3, <1>5, <1>20, <2>1, CleanBoth
  <2> QED  BY <1>2, <1>3, <1>5, <2>2
<1>22. Clean(o2) /\ Range(o2) = P \cup Q \cup Range(c.tree)
  <2>1. Range(o1) \cap Range(c.tree) = {}
    BY <1>3, <1>11, <1>21 DEF Shared
  <2>2. Clean(o2) /\ Range(o2) = Range(o1) \cup Range(c.tree)
    BY <1>7, <1>20, <1>21, <2>1, CleanBoth
  <2> QED  BY <1>7, <1>21, <2>2
<1>23. Clean(o3) /\ Range(o3) = P \cup Q \cup C
  <2>1. Range(o2) \cap Range(ns) = {}
    BY <1>3, <1>11, <1>22 DEF Shared
  <2>2. Clean(o3) /\ Range(o3) = Range(o2) \cup Range(ns)
    BY <1>10, <1>20, <1>22, <2>1, CleanBoth
  <2> QED  BY <1>11, <1>22, <2>2
<1>24. Clean(o4) /\ Range(o4) = P \cup Q \cup C \cup h1
  <2>1. Range(o3) \cap Range(b1) = {}
    BY <1>3, <1>16, <1>17, <1>23 DEF Shared
  <2>2. Clean(o4) /\ Range(o4) = Range(o3) \cup Range(b1)
    BY <1>17, <1>20, <1>23, <2>1, CleanBoth
  <2> QED  BY <1>17, <1>23, <2>2
<1>25. Clean(o5) /\ Range(o5) = P \cup Q \cup C \cup h1 \cup h2
  <2>1. Range(o4) \cap Range(b2) = {}
    BY <1>3, <1>15, <1>16, <1>17, <1>24 DEF Shared
  <2>2. Clean(o5) /\ Range(o5) = Range(o4) \cup Range(b2)
    BY <1>17, <1>20, <1>24, <2>1, CleanBoth
  <2> QED  BY <1>17, <1>24, <2>2
<1>26. Clean(o6) /\ Range(o6) = P \cup Q \cup C \cup h1 \cup h2 \cup h3
  <2>1. Range(o5) \cap Range(b3) = {}
    BY <1>3, <1>15, <1>16, <1>17, <1>25 DEF Shared
  <2>2. Clean(o6) /\ Range(o6) = Range(o5) \cup Range(b3)
    BY <1>17, <1>20, <1>25, <2>1, CleanBoth
  <2> QED  BY <1>17, <1>25, <2>2
<1>27. Clean(o7) /\ Range(o7) = P \cup Q \cup C \cup L
  <2>1. Range(o6) \cap Range(b4) = {}
    BY <1>3, <1>15, <1>16, <1>17, <1>26 DEF Shared
  <2>2. Clean(o7) /\ Range(o7) = Range(o6) \cup Range(b4)
    BY <1>17, <1>20, <1>26, <2>1, CleanBoth
  <2> QED  BY <1>16, <1>17, <1>26, <2>2
<1> QED  BY <1>1, <1>2, <1>19, <1>27

\* Between two turns everything that is there belongs to one entry of the queue,
\* the cache or the configuration, or is one of the two known leaks
\* (dnsServer.cpp:354, dnsQueue.h:63, CConfigFile.cpp:407).
THEOREM NothingElseLeaksHolds == MemorySpec => []NothingElseLeaks
<1>1. HeapInv => NothingElseLeaks
  <2> SUFFICES ASSUME HeapInv PROVE NothingElseLeaks
    OBVIOUS
  <2>1. PICK owned, X : owned = Owned /\ X = LostHolds(lost)
    OBVIOUS
  <2>2. /\ Clean(owned)
        /\ Range(owned) = Range(permanent) \cup QueueHolds(m_pQueue)
                          \cup CacheHolds(m_pRecordTree) \cup ListsHold(m_pConfig)
    BY <2>1, OwnedOK
  <2>3. Cardinality(Range(owned)) = Len(owned)
    BY <2>2, CleanCounts DEF Clean
  <2>4. Range(owned) \cap X = {} /\ memory.live = Range(owned) \cup X
    BY <2>1, <2>2 DEF HeapInv, Holders, Shared
  <2> QED  BY <2>1, <2>3, <2>4 DEF NothingElseLeaks, LostHolds
<1> QED  BY <1>1, HeapInvHolds, PTL

=============================================================================

-------------------------- MODULE Upstreams_proofs --------------------------
(***************************************************************************)
(* What holds of the delay rings and of the choice of a server for any     *)
(* number of servers and any DELAY_HISTORY_SIZE.                           *)
(***************************************************************************)
EXTENDS UpstreamLoad, Library_proofs

\* What the constructor leaves: nothing was sent, nothing was written.
LEMMA UpstreamTypeInit == UpstreamInit => UpstreamTypeOK
  BY UpstreamConstants DEF UpstreamInit, UpstreamTypeOK

\* No message sent or received writes outside the rings.
LEMMA UpstreamTypeStep ==
    ASSUME UpstreamTypeOK, [UpstreamNext]_upstreamVars
    PROVE  UpstreamTypeOK'
<1> USE UpstreamConstants DEF UpstreamTypeOK
<1>1. ASSUME NEW s \in BestServers, MessageSent(s) PROVE UpstreamTypeOK'
  <2>1. PICK i \in NextSlots(s) :
            /\ m_DelayHistoryIndex' = [m_DelayHistoryIndex EXCEPT ![s] = i]
            /\ m_DelayHistory' = [m_DelayHistory EXCEPT ![s][i] = TimeOut]
    BY <1>1 DEF MessageSent, SetNextDelay
  <2>2. s \in Servers /\ m_Sent' = [m_Sent EXCEPT ![s] = @ + 1]
    BY <1>1 DEF BestServers, MessageSent
  <2>3. i \in Slots
    BY <2>1, <2>2 DEF NextSlots, Slots
  <2>4. TimeOut \in Delays
    BY DEF Delays
  <2> QED  BY <2>1, <2>2, <2>3, <2>4
<1>2. ASSUME NEW s \in Servers, NEW d \in Delays, MessageReceived(s, d)
      PROVE  UpstreamTypeOK'
  BY <1>2 DEF MessageReceived, SetDelay
<1>3. CASE UNCHANGED upstreamVars
  BY <1>3 DEF upstreamVars
<1> QED  BY <1>1, <1>2, <1>3 DEF UpstreamNext

\* Type correctness of CSecondaryServer's three fields.
THEOREM UpstreamTypeCorrect == UpstreamSpec => []UpstreamTypeOK
  BY UpstreamTypeInit, UpstreamTypeStep, PTL DEF UpstreamSpec

-----------------------------------------------------------------------------
\* The next slot is one further along the ring.
LEMMA NextSlotAhead ==
    ASSUME NEW s \in Servers, m_DelayHistoryIndex[s] \in Slots,
           NEW i \in NextSlots(s)
    PROVE  i = IF m_DelayHistoryIndex[s] + 1 = DELAY_HISTORY_SIZE
                 THEN 0 ELSE m_DelayHistoryIndex[s] + 1
<1> DEFINE n == m_DelayHistoryIndex[s]
<1>1. i = (n + 1) % DELAY_HISTORY_SIZE
  BY UpstreamConstants DEF NextSlots, Slots
<1>2. CASE n + 1 = DELAY_HISTORY_SIZE
  <2>1. DELAY_HISTORY_SIZE % DELAY_HISTORY_SIZE = 0
    BY UpstreamConstants
  <2> QED  BY <1>1, <1>2, <2>1
<1>3. CASE n + 1 # DELAY_HISTORY_SIZE
  <2>1. n + 1 \in 0..(DELAY_HISTORY_SIZE - 1)
    BY <1>3, UpstreamConstants DEF Slots
  <2>2. (n + 1) % DELAY_HISTORY_SIZE = n + 1
    BY <2>1, UpstreamConstants
  <2> QED  BY <1>1, <1>3, <2>2
<1> QED  BY <1>2, <1>3

\* One message more: the slot of the k-th last one was that of the (k-1)-th.
LEMMA SlotBackShift ==
    ASSUME NEW n \in Slots, NEW k \in Slots, k > 0,
           NEW i, i = IF n + 1 = DELAY_HISTORY_SIZE THEN 0 ELSE n + 1
    PROVE  /\ SlotBack(i, k) = SlotBack(n, k - 1)
           /\ SlotBack(i, k) \in Slots /\ SlotBack(i, k) # i
  BY UpstreamConstants DEF SlotBack, Slots

\* The written part of every ring grows with every message sent.
THEOREM RingsWritten == UpstreamSpec => []RingWritten
<1> USE UpstreamConstants
<1>1. UpstreamInit => RingWritten
  BY DEF UpstreamInit, RingWritten, Slots
<1>2. UpstreamTypeOK /\ RingWritten /\ [UpstreamNext]_upstreamVars => RingWritten'
  <2> SUFFICES ASSUME UpstreamTypeOK, RingWritten, [UpstreamNext]_upstreamVars,
                      NEW t \in Servers, NEW k \in Slots, k < m_Sent'[t]
               PROVE  /\ m_DelayHistoryIndex'[t] # Uninit
                      /\ m_DelayHistory'[t][SlotBack(m_DelayHistoryIndex'[t], k)]
                           # Uninit
    BY DEF RingWritten, SlotBack
  <2> USE DEF UpstreamTypeOK
  <2>1. ASSUME NEW s \in BestServers, MessageSent(s)
        PROVE  /\ m_DelayHistoryIndex'[t] # Uninit
               /\ m_DelayHistory'[t][SlotBack(m_DelayHistoryIndex'[t], k)] # Uninit
    <3>1. PICK i \in NextSlots(s) :
              /\ m_DelayHistoryIndex' = [m_DelayHistoryIndex EXCEPT ![s] = i]
              /\ m_DelayHistory' = [m_DelayHistory EXCEPT ![s][i] = TimeOut]
      BY <2>1 DEF MessageSent, SetNextDelay
    <3>2. s \in Servers /\ m_Sent' = [m_Sent EXCEPT ![s] = @ + 1]
      BY <2>1 DEF BestServers, MessageSent
    <3>3. i \in Slots /\ Uninit \notin Slots
      BY <3>1, <3>2 DEF NextSlots, Slots
    <3>4. CASE t # s
      BY <3>1, <3>2, <3>4 DEF RingWritten
    <3>5. CASE t = s /\ k = 0
      <4>1. SlotBack(i, 0) = i
        BY <3>3 DEF SlotBack, Slots
      <4> QED  BY <3>1, <3>2, <3>3, <3>5, <4>1
    <3>6. CASE t = s /\ k > 0
      <4>1. k - 1 \in Slots /\ k - 1 < m_Sent[s]
        BY <3>2, <3>6 DEF Slots
      <4>2. /\ m_DelayHistoryIndex[s] \in Slots
            /\ m_DelayHistory[s][SlotBack(m_DelayHistoryIndex[s], k - 1)] # Uninit
        BY <3>2, <4>1 DEF RingWritten
      <4>3. i = IF m_DelayHistoryIndex[s] + 1 = DELAY_HISTORY_SIZE
                  THEN 0 ELSE m_DelayHistoryIndex[s] + 1
        BY <3>1, <3>2, <4>2, NextSlotAhead
      <4>4. /\ SlotBack(i, k) = SlotBack(m_DelayHistoryIndex[s], k - 1)
            /\ SlotBack(i, k) \in Slots /\ SlotBack(i, k) # i
        BY <3>6, <4>2, <4>3, SlotBackShift
      <4>5. m_DelayHistoryIndex'[t] = i
        BY <3>1, <3>2, <3>6
      <4>6. m_DelayHistory'[t][SlotBack(i, k)] = m_DelayHistory[s][SlotBack(i, k)]
        BY <3>1, <3>2, <3>6, <4>4
      <4> QED  BY <3>3, <4>2, <4>4, <4>5, <4>6
    <3> QED  BY <3>4, <3>5, <3>6 DEF Slots
  <2>2. ASSUME NEW s \in Servers, NEW d \in Delays, MessageReceived(s, d)
        PROVE  /\ m_DelayHistoryIndex'[t] # Uninit
               /\ m_DelayHistory'[t][SlotBack(m_DelayHistoryIndex'[t], k)] # Uninit
    <3>1. d # Uninit /\ UNCHANGED <<m_DelayHistoryIndex, m_Sent>>
      BY <2>2 DEF MessageReceived, SetDelay, Delays
    <3>2. m_DelayHistoryIndex[t] \in Slots
      BY <3>1 DEF RingWritten
    <3>3. SlotBack(m_DelayHistoryIndex[t], k) \in Slots
      BY <3>2 DEF SlotBack, Slots
    <3> QED  BY <2>2, <3>1, <3>3 DEF MessageReceived, SetDelay, RingWritten
  <2>3. CASE UNCHANGED upstreamVars
    BY <2>3 DEF upstreamVars, RingWritten
  <2> QED  BY <2>1, <2>2, <2>3 DEF UpstreamNext
<1> QED  BY <1>1, <1>2, UpstreamTypeCorrect, PTL DEF UpstreamSpec

\* DelayScore (CSecondaryServer.cpp:29-39) never adds up memory that the
\* constructor left uninitialised, for any ring size.
THEOREM ScoreNeverReadsUninit == UpstreamSpec => []ScoreReadsWritten
<1>1. UpstreamTypeOK /\ RingWritten => ScoreReadsWritten
  <2> SUFFICES ASSUME UpstreamTypeOK, RingWritten, NEW s \in Servers,
                      m_Sent[s] >= DELAY_HISTORY_SIZE, NEW i \in Slots
               PROVE  m_DelayHistory[s][i] # Uninit
    BY DEF ScoreReadsWritten
  <2> DEFINE n == m_DelayHistoryIndex[s]
             k == IF i <= n THEN n - i ELSE n + DELAY_HISTORY_SIZE - i
  <2>1. n \in Slots
    <3>1. 0 \in Slots /\ 0 < m_Sent[s]
      BY UpstreamConstants DEF Slots, UpstreamTypeOK
    <3> QED  BY <3>1 DEF RingWritten, UpstreamTypeOK
  <2>2. k \in Slots /\ k < m_Sent[s] /\ SlotBack(n, k) = i
    BY <2>1, UpstreamConstants DEF Slots, SlotBack, UpstreamTypeOK
  <2> QED  BY <2>2 DEF RingWritten
<1> QED  BY <1>1, UpstreamTypeCorrect, RingsWritten, PTL

-----------------------------------------------------------------------------
\* A sum of delays is a natural number.
LEMMA DelaySumNat == \A h : DelaySum(h) \in Nat
<1> SUFFICES ASSUME NEW h PROVE DelaySum(h) \in Nat
  OBVIOUS
<1>1. IsFiniteSet(Slots) /\ IsFiniteSet(1..(TimeOut + 1))
  BY FS_Interval, UpstreamConstants DEF Slots
<1>2. IsFiniteSet(Slots \X (1..(TimeOut + 1)))
  BY <1>1, FS_Product
<1>3. IsFiniteSet({p \in Slots \X (1..(TimeOut + 1)) : p[2] <= h[p[1]]})
  BY <1>2, FS_Subset
<1> QED  BY <1>3, FS_CardinalityType DEF DelaySum

\* A server past its warm-up never scores better than one still in it.
LEMMA ScoreByPhase ==
    ASSUME UpstreamTypeOK, NEW s \in Servers
    PROVE  /\ DelayScore(s) \in Nat
           /\ m_Sent[s] < DELAY_HISTORY_SIZE => DelayScore(s) = m_Sent[s]
           /\ m_Sent[s] >= DELAY_HISTORY_SIZE => DelayScore(s) >= DELAY_HISTORY_SIZE
<1>1. DelaySum(m_DelayHistory[s]) \in Nat
  BY DelaySumNat
<1> QED  BY <1>1, UpstreamConstants DEF DelayScore, UpstreamTypeOK

\* getBestServer tries new servers in turn: no server gets two messages ahead
\* of one that is still in its first DELAY_HISTORY_SIZE messages.
THEOREM NewServersGetTheirChance == UpstreamSpec => []WarmUpRoundRobin
<1> USE UpstreamConstants
<1>1. UpstreamInit => WarmUpRoundRobin
  BY DEF UpstreamInit, WarmUpRoundRobin
<1>2. UpstreamTypeOK /\ WarmUpRoundRobin /\ [UpstreamNext]_upstreamVars
        => WarmUpRoundRobin'
  <2> SUFFICES ASSUME UpstreamTypeOK, WarmUpRoundRobin,
                      [UpstreamNext]_upstreamVars
               PROVE  WarmUpRoundRobin'
    OBVIOUS
  <2>1. ASSUME NEW b \in BestServers, MessageSent(b) PROVE WarmUpRoundRobin'
    <3>1. b \in Servers /\ m_Sent' = [m_Sent EXCEPT ![b] = @ + 1]
      BY <2>1 DEF BestServers, MessageSent
    <3> SUFFICES ASSUME NEW s \in Servers, NEW t \in Servers,
                        m_Sent'[t] < DELAY_HISTORY_SIZE
                 PROVE  m_Sent'[s] <= m_Sent'[t] + 1
      BY DEF WarmUpRoundRobin
    <3>2. CASE s = b /\ t # b
      <4>1. Beats(b, t)
        BY <3>2 DEF BestServers
      <4>2. DelayScore(b) <= DelayScore(t)
        BY <4>1, <3>1, ScoreByPhase DEF Beats
      <4>3. DelayScore(t) = m_Sent[t] /\ m_Sent[t] < DELAY_HISTORY_SIZE
        BY <3>1, <3>2, ScoreByPhase
      <4>4. m_Sent[b] <= m_Sent[t]
        BY <3>1, <4>2, <4>3, ScoreByPhase DEF UpstreamTypeOK
      <4> QED  BY <3>1, <3>2, <4>4 DEF UpstreamTypeOK
    <3>3. CASE s # b \/ t = b
      BY <3>1, <3>3 DEF WarmUpRoundRobin, UpstreamTypeOK
    <3> QED  BY <3>2, <3>3
  <2>2. ASSUME NEW s \in Servers, NEW d \in Delays, MessageReceived(s, d)
        PROVE  WarmUpRoundRobin'
    BY <2>2 DEF MessageReceived, WarmUpRoundRobin
  <2>3. CASE UNCHANGED upstreamVars
    BY <2>3 DEF upstreamVars, WarmUpRoundRobin
  <2> QED  BY <2>1, <2>2, <2>3 DEF UpstreamNext
<1> QED  BY <1>1, <1>2, UpstreamTypeCorrect, PTL DEF UpstreamSpec

-----------------------------------------------------------------------------

\* The 32-bit sum stays below the first bestScore.
LEMMA ScoreBound ==
    ASSUME UpstreamTypeOK, NEW s \in Servers
    PROVE  DelayScore(s) \in Nat /\ DelayScore(s) < MaxDWord
<1> DEFINE D == 1..(TimeOut + 1)
           P == {p \in Slots \X D : p[2] <= m_DelayHistory[s][p[1]]}
<1>1. /\ IsFiniteSet(Slots) /\ Cardinality(Slots) = DELAY_HISTORY_SIZE
      /\ IsFiniteSet(D) /\ Cardinality(D) = TimeOut + 1
  BY FS_Interval, UpstreamConstants DEF Slots
<1>2. /\ IsFiniteSet(Slots \X D)
      /\ Cardinality(Slots \X D) = DELAY_HISTORY_SIZE * (TimeOut + 1)
  BY <1>1, FS_Product
<1>3. Cardinality(P) <= DELAY_HISTORY_SIZE * (TimeOut + 1)
  BY <1>2, FS_Subset
<1>4. DelaySum(m_DelayHistory[s]) = Cardinality(P)
  BY DEF DelaySum
<1>5. DELAY_HISTORY_SIZE * (TimeOut + 2)
        = DELAY_HISTORY_SIZE * (TimeOut + 1) + DELAY_HISTORY_SIZE
  BY UpstreamConstants
<1>6. Cardinality(P) \in Nat /\ DELAY_HISTORY_SIZE * (TimeOut + 1) \in Nat
  BY <1>4, DelaySumNat, UpstreamConstants
<1> HIDE DEF P
<1> QED
  BY ONLY UpstreamTypeOK, s \in Servers, <1>3, <1>4, <1>5, <1>6,
          UpstreamConstants, LoadConstants DEF DelayScore, UpstreamTypeOK

-----------------------------------------------------------------------------
\* The loop's variables before its first turn.
NoBest == [srv |-> NoServer, score |-> MaxDWord, sent |-> MaxQWord]

\* The loop can take n turns, for every n.
LEMMA ScanExists ==
    ASSUME NEW n \in Nat
    PROVE  \E f : f = [i \in 0..n |->
                         IF i = 0 THEN NoBest ELSE Consider(f[i - 1], i)]
<1> DEFINE Turns(k) == \E f : f = [i \in 0..k |->
                         IF i = 0 THEN NoBest ELSE Consider(f[i - 1], i)]
           Stuck == {k \in Nat : ~Turns(k)}
<1> SUFFICES ASSUME Stuck # {} PROVE FALSE
  OBVIOUS
<1>1. PICK m \in Stuck : \A k \in Stuck : m <= k
  <2> Stuck \subseteq Nat
    OBVIOUS
  <2> HIDE DEF Stuck
  <2> QED  BY LeastNumber
<1>2. m # 0
  <2>1. [i \in 0..0 |-> NoBest]
          = [i \in 0..0 |-> IF i = 0 THEN NoBest
               ELSE Consider([j \in 0..0 |-> NoBest][i - 1], i)]
    OBVIOUS
  <2> QED  BY <2>1
<1>3. m \in Nat /\ m - 1 \in Nat /\ Turns(m - 1)
  <2>1. m \in Nat /\ m - 1 \in Nat
    BY <1>1, <1>2
  <2>2. m - 1 \notin Stuck
    <3> HIDE DEF Stuck
    <3> QED  BY <1>1, <2>1
  <2> QED  BY <2>1, <2>2
<1>4. PICK f : f = [i \in 0..(m - 1) |->
                      IF i = 0 THEN NoBest ELSE Consider(f[i - 1], i)]
  BY <1>3
<1> DEFINE g == [i \in 0..m |-> IF i = m THEN Consider(f[m - 1], m) ELSE f[i]]
<1> HIDE DEF NoBest, Consider
<1>5. \A i \in 0..m : g[i] = IF i = 0 THEN NoBest ELSE Consider(g[i - 1], i)
  BY <1>2, <1>3, <1>4
<1>6. g = [i \in 0..m |-> IF i = 0 THEN NoBest ELSE Consider(g[i - 1], i)]
  BY <1>5
<1>7. Turns(m)
  BY <1>6
<1> QED  BY <1>1, <1>7

\* What each turn of the loop of getBestServer makes of its variables.
LEMMA ScanTurns ==
    /\ scan[0] = NoBest
    /\ \A i \in 1..ServersCount : scan[i] = Consider(scan[i - 1], i)
<1>1. scan = [i \in 0..ServersCount |->
                IF i = 0 THEN NoBest ELSE Consider(scan[i - 1], i)]
  BY ScanExists, UpstreamConstants, Zenon DEF scan, NoBest
<1>2. scan[0] = NoBest
  BY <1>1, UpstreamConstants
<1>3. ASSUME NEW i \in 1..ServersCount
      PROVE  scan[i] = Consider(scan[i - 1], i)
  BY <1>1, UpstreamConstants
<1> QED  BY <1>2, <1>3

\* After i turns the loop knows the server that beats the others of the first i.
BestOfFirst(i) ==
    /\ scan[i].srv \in 1..i
    /\ scan[i].score = DelayScore(scan[i].srv)
    /\ scan[i].sent = m_Sent[scan[i].srv]
    /\ \A t \in 1..i : t # scan[i].srv => Beats(scan[i].srv, t)

\* The invariant of the loop of getBestServer.
LEMMA ScanFindsBest ==
    ASSUME UpstreamTypeOK
    PROVE  \A i \in 1..ServersCount : BestOfFirst(i)
<1> USE UpstreamConstants
<1> DEFINE Wrong == {i \in 1..ServersCount : ~BestOfFirst(i)}
<1> SUFFICES ASSUME Wrong # {} PROVE FALSE
  OBVIOUS
<1>1. PICK i \in Wrong : \A k \in Wrong : i <= k
  <2> Wrong \subseteq Nat
    OBVIOUS
  <2> HIDE DEF Wrong
  <2> QED  BY LeastNumber
<1>2. /\ i \in 1..ServersCount /\ ~BestOfFirst(i)
      /\ i # 1 => i - 1 \in 1..ServersCount /\ BestOfFirst(i - 1)
  BY <1>1
<1>3. scan[i] = Consider(scan[i - 1], i)
  BY <1>2, ScanTurns
<1>4. \A t \in 1..i : t \in Servers /\ DelayScore(t) \in Nat /\ m_Sent[t] \in Nat
  BY <1>2, ScoreBound DEF Servers, UpstreamTypeOK
<1>5. CASE i = 1
  <2>1. DelayScore(1) < MaxDWord
    BY <1>2, <1>5, ScoreBound DEF Servers
  <2>2. scan[1] = [srv |-> 1, score |-> DelayScore(1), sent |-> m_Sent[1]]
    BY <1>3, <1>5, <2>1, ScanTurns DEF Consider, NoBest
  <2> QED  BY <1>2, <1>5, <2>2 DEF BestOfFirst
<1>6. CASE i # 1
  <2> DEFINE b == scan[i - 1]
  <2>1. /\ b.srv \in 1..(i - 1)
        /\ b.score = DelayScore(b.srv) /\ b.sent = m_Sent[b.srv]
        /\ \A t \in 1..(i - 1) : t # b.srv => Beats(b.srv, t)
    BY <1>2, <1>6 DEF BestOfFirst
  <2>2. b.srv \in 1..i
    BY <1>2, <2>1
  <2> HIDE DEF b
  <2>3. CASE Beats(i, b.srv)
    <3>1. scan[i] = [srv |-> i, score |-> DelayScore(i), sent |-> m_Sent[i]]
      BY <1>2, <1>3, <1>4, <2>1, <2>2, <2>3 DEF b, Consider, Beats
    <3>2. \A t \in 1..i : t # i => Beats(i, t)
      BY <1>2, <1>4, <2>1, <2>2, <2>3 DEF Beats
    <3> QED  BY <1>2, <3>1, <3>2 DEF BestOfFirst
  <2>4. CASE ~Beats(i, b.srv)
    <3>1. scan[i] = b
      BY <1>2, <1>3, <1>4, <2>1, <2>2, <2>4 DEF b, Consider, Beats
    <3>2. Beats(b.srv, i)
      BY <1>2, <1>4, <2>1, <2>2, <2>4 DEF Beats
    <3>3. \A t \in 1..i : t # b.srv => Beats(b.srv, t)
      BY <1>2, <2>1, <3>2
    <3> QED  BY <1>2, <2>1, <2>2, <3>1, <3>3 DEF BestOfFirst
  <2> QED  BY <2>3, <2>4
<1> QED  BY <1>5, <1>6

\* getBestServer returns a server that beats all others.
LEMMA LoopFindsBest ==
    ASSUME UpstreamTypeOK, NEW s \in Servers, s = getBestServer
    PROVE  s \in BestServers
<1>1. ServersCount \in 1..ServersCount /\ Servers = 1..ServersCount
  BY UpstreamConstants DEF Servers
<1>2. BestOfFirst(ServersCount)
  BY <1>1, ScanFindsBest
<1> QED  BY <1>1, <1>2 DEF BestOfFirst, BestServers, getBestServer

-----------------------------------------------------------------------------
\* The queries in flight are among those that were sent, and the history
\* variables have their types.
LoadTypeOK ==
    /\ UpstreamTypeOK
    /\ inFlight \subseteq [srv : Servers, n : Nat]
    /\ \A q \in inFlight : 1 <= q.n /\ q.n <= m_Sent[q.srv]
    /\ outcome \in [Servers -> [Slots -> Delays \cup {Uninit}]]
    /\ overlapped \in [Servers -> BOOLEAN]

\* Forward, Answer and GiveUp are steps of Upstreams or leave it alone.
LEMMA LoadStepIsUpstreamStep ==
    ASSUME LoadTypeOK, [LoadNext]_loadVars
    PROVE  [UpstreamNext]_upstreamVars
<1>1. ASSUME NEW s \in Servers, Forward(s) PROVE UpstreamNext
  BY <1>1, LoopFindsBest DEF Forward, LoadTypeOK, UpstreamNext
<1>2. ASSUME NEW q \in inFlight, NEW d \in Delays, Answer(q, d)
      PROVE  UpstreamNext
  <2>1. q.srv \in Servers /\ m_Sent[q.srv] > 0
    BY DEF LoadTypeOK, UpstreamTypeOK
  <2> QED  BY <1>2, <2>1 DEF Answer, UpstreamNext
<1>3. ASSUME NEW q \in inFlight, GiveUp(q) PROVE UNCHANGED upstreamVars
  BY <1>3 DEF GiveUp, upstreamVars
<1>4. CASE UNCHANGED loadVars
  BY <1>4 DEF loadVars, upstreamVars
<1> QED  BY <1>1, <1>2, <1>3, <1>4 DEF LoadNext

\* No query in flight is ahead of its server's counter.
LEMMA LoadTypeStep ==
    ASSUME LoadTypeOK, [LoadNext]_loadVars
    PROVE  LoadTypeOK'
<1> USE UpstreamConstants
<1>1. UpstreamTypeOK'
  BY LoadStepIsUpstreamStep, UpstreamTypeStep DEF LoadTypeOK
<1>2. ASSUME NEW s \in Servers, Forward(s) PROVE LoadTypeOK'
  <2>1. m_Sent' = [m_Sent EXCEPT ![s] = @ + 1] /\ m_Sent \in [Servers -> Nat]
    BY <1>2 DEF Forward, MessageSent, LoadTypeOK, UpstreamTypeOK
  <2>2. inFlight' = inFlight \cup {[srv |-> s, n |-> m_Sent[s] + 1]}
    BY <1>2 DEF Forward
  <2>3. /\ inFlight' \subseteq [srv : Servers, n : Nat]
        /\ \A q \in inFlight' : 1 <= q.n /\ q.n <= m_Sent'[q.srv]
    BY <2>1, <2>2 DEF LoadTypeOK
  <2>4. outcome' \in [Servers -> [Slots -> Delays \cup {Uninit}]]
    <3>1. \A k \in Slots : k # 0 => k - 1 \in Slots
      BY DEF Slots
    <3>2. TimeOut \in Delays
      BY DEF Delays
    <3> QED  BY <1>2, <3>1, <3>2 DEF Forward, LoadTypeOK
  <2>5. overlapped' \in [Servers -> BOOLEAN]
    BY <1>2, Zenon DEF Forward, LoadTypeOK
  <2> QED  BY <1>1, <2>3, <2>4, <2>5 DEF LoadTypeOK
<1>3. ASSUME NEW q \in inFlight, NEW d \in Delays, Answer(q, d)
      PROVE  LoadTypeOK'
  <2>1. q.srv \in Servers
    BY DEF LoadTypeOK
  <2>2. /\ inFlight' = inFlight \ {q}
        /\ UNCHANGED <<m_Sent, overlapped>>
    BY <1>3 DEF Answer, MessageReceived
  <2>3. outcome' \in [Servers -> [Slots -> Delays \cup {Uninit}]]
    BY <1>3, <2>1 DEF Answer, LoadTypeOK
  <2> QED  BY <1>1, <2>2, <2>3 DEF LoadTypeOK
<1>4. ASSUME NEW q \in inFlight, GiveUp(q) PROVE LoadTypeOK'
  BY <1>1, <1>4 DEF GiveUp, LoadTypeOK
<1>5. CASE UNCHANGED loadVars
  BY <1>1, <1>5 DEF loadVars, LoadTypeOK
<1> QED  BY <1>2, <1>3, <1>4, <1>5 DEF LoadNext

\* Nothing is in flight at the start.
LEMMA LoadTypeInit == LoadInit => LoadTypeOK
  BY UpstreamTypeInit, UpstreamConstants
     DEF LoadInit, LoadTypeOK, UpstreamInit, UpstreamTypeOK

\* The servers never hold a query that was not sent, and the history variables
\* are typed.
THEOREM LoadTypeCorrect == LoadSpec => []LoadTypeOK
  BY LoadTypeInit, LoadTypeStep, PTL DEF LoadSpec

\* getBestServer (dnsServer.cpp:299-315), a loop that keeps the best server
\* so far, always picks the server that beats all others, so the servers
\* evolve as Upstreams says, for any number of them.
THEOREM LoopImplementsChoice == LoadSpec => LoopPicksBest
<1>1. LoadInit => UpstreamInit
  BY DEF LoadInit
<1>2. LoadTypeOK /\ [LoadNext]_loadVars => [UpstreamNext]_upstreamVars
  BY LoadStepIsUpstreamStep
<1> QED
  BY <1>1, <1>2, LoadTypeCorrect, PTL DEF LoadSpec, LoopPicksBest, UpstreamSpec

-----------------------------------------------------------------------------
\* As long as a server never had two queries in flight, the one in flight is
\* the last one sent (what makes the slot written last the right one).
LastInFlight ==
    \A q \in inFlight : ~overlapped[q.srv] => q.n = m_Sent[q.srv]

\* A message sent shifts the outcomes by one, like the ring.
LEMMA SentShiftsRing ==
    ASSUME UpstreamTypeOK, RingWritten, NEW s \in Servers, MessageSent(s),
           RingHoldsOutcomes(s),
           outcome' = [outcome EXCEPT ![s] =
               [k \in Slots |-> IF k = 0 THEN TimeOut ELSE outcome[s][k - 1]]],
           outcome \in [Servers -> [Slots -> Delays \cup {Uninit}]]
    PROVE  RingHoldsOutcomes(s)'
<1> USE UpstreamConstants DEF UpstreamTypeOK
<1>1. PICK i \in NextSlots(s) :
          /\ m_DelayHistoryIndex' = [m_DelayHistoryIndex EXCEPT ![s] = i]
          /\ m_DelayHistory' = [m_DelayHistory EXCEPT ![s][i] = TimeOut]
  BY DEF MessageSent, SetNextDelay
<1>2. m_Sent' = [m_Sent EXCEPT ![s] = @ + 1]
  BY DEF MessageSent
<1>3. i \in Slots /\ Uninit \notin Slots
  BY <1>1 DEF NextSlots, Slots
<1> SUFFICES ASSUME NEW k \in Slots, k < m_Sent'[s]
             PROVE  m_DelayHistory'[s][SlotBack(i, k)] = outcome'[s][k]
  BY <1>1 DEF RingHoldsOutcomes, SlotBack
<1>4. CASE k = 0
  <2>1. SlotBack(i, 0) = i
    BY <1>3 DEF SlotBack, Slots
  <2> QED  BY <1>1, <1>3, <1>4, <2>1
<1>5. CASE k > 0
  <2>1. k - 1 \in Slots /\ k - 1 < m_Sent[s] /\ k # 0
    BY <1>2, <1>5 DEF Slots
  <2>2. m_DelayHistoryIndex[s] \in Slots
    BY <2>1 DEF RingWritten
  <2>3. i = IF m_DelayHistoryIndex[s] + 1 = DELAY_HISTORY_SIZE
              THEN 0 ELSE m_DelayHistoryIndex[s] + 1
    BY <1>1, <2>2, NextSlotAhead
  <2>4. /\ SlotBack(i, k) = SlotBack(m_DelayHistoryIndex[s], k - 1)
        /\ SlotBack(i, k) \in Slots /\ SlotBack(i, k) # i
    BY <1>5, <2>2, <2>3, SlotBackShift
  <2>5. m_DelayHistory'[s][SlotBack(i, k)] = m_DelayHistory[s][SlotBack(i, k)]
    BY <1>1, <2>4
  <2>6. outcome'[s][k] = outcome[s][k - 1]
    BY <2>1
  <2>7. m_DelayHistory[s][SlotBack(m_DelayHistoryIndex[s], k - 1)]
          = outcome[s][k - 1]
    BY <2>1 DEF RingHoldsOutcomes
  <2> QED  BY <2>4, <2>5, <2>6, <2>7
<1> QED  BY <1>4, <1>5 DEF Slots

\* The answer to the last query sent goes to the slot of that query.
LEMMA AnswerFindsItsSlot ==
    ASSUME UpstreamTypeOK, RingWritten, NEW s \in Servers, m_Sent[s] > 0,
           NEW d \in Delays, MessageReceived(s, d), RingHoldsOutcomes(s),
           outcome' = [outcome EXCEPT ![s] =
               [k \in Slots |-> IF k = 0 THEN d ELSE @[k]]],
           outcome \in [Servers -> [Slots -> Delays \cup {Uninit}]]
    PROVE  RingHoldsOutcomes(s)'
<1> USE UpstreamConstants DEF UpstreamTypeOK
<1> DEFINE i == m_DelayHistoryIndex[s]
<1>1. i \in Slots
  <2>1. 0 \in Slots
    BY DEF Slots
  <2> QED  BY <2>1 DEF RingWritten
<1>2. /\ m_DelayHistory' = [m_DelayHistory EXCEPT ![s][i] = d]
      /\ UNCHANGED <<m_DelayHistoryIndex, m_Sent>>
  BY DEF MessageReceived, SetDelay
<1> HIDE DEF i
<1> SUFFICES ASSUME NEW k \in Slots, k < m_Sent[s]
             PROVE  m_DelayHistory'[s][SlotBack(i, k)] = outcome'[s][k]
  BY <1>2 DEF RingHoldsOutcomes, SlotBack, i
<1>3. CASE k = 0
  <2>1. SlotBack(i, 0) = i
    BY <1>1 DEF SlotBack, Slots
  <2> QED  BY <1>1, <1>2, <1>3, <2>1
<1>4. CASE k # 0
  <2>1. SlotBack(i, k) \in Slots /\ SlotBack(i, k) # i
    BY <1>1, <1>4 DEF SlotBack, Slots
  <2>2. m_DelayHistory'[s][SlotBack(i, k)] = m_DelayHistory[s][SlotBack(i, k)]
    BY <1>1, <1>2, <2>1
  <2>3. m_DelayHistory[s][SlotBack(i, k)] = outcome[s][k]
    BY DEF RingHoldsOutcomes, i
  <2> QED  BY <1>4, <2>2, <2>3
<1> QED  BY <1>3, <1>4

\* A server another query or answer is about keeps its ring and its outcomes.
LEMMA OtherRingsKept ==
    ASSUME UpstreamTypeOK, NEW s \in Servers, NEW t \in Servers, t # s,
           RingHoldsOutcomes(t), NEW f, NEW g, NEW h, NEW o,
           m_Sent' = [m_Sent EXCEPT ![s] = f],
           m_DelayHistory' = [m_DelayHistory EXCEPT ![s] = g],
           m_DelayHistoryIndex' = [m_DelayHistoryIndex EXCEPT ![s] = h],
           outcome \in [Servers -> [Slots -> Delays \cup {Uninit}]],
           outcome' = [outcome EXCEPT ![s] = o]
    PROVE  RingHoldsOutcomes(t)'
<1>1. /\ m_Sent'[t] = m_Sent[t] /\ m_DelayHistory'[t] = m_DelayHistory[t]
      /\ m_DelayHistoryIndex'[t] = m_DelayHistoryIndex[t]
      /\ outcome'[t] = outcome[t]
  BY DEF UpstreamTypeOK
<1> QED  BY <1>1 DEF RingHoldsOutcomes, SlotBack

\* Forward keeps what the ring of a never overlapped server holds.
LEMMA ForwardKeepsHistory ==
    ASSUME LoadTypeOK, RingWritten, LastInFlight, SequentialHistoryExact,
           NEW s \in Servers, Forward(s)
    PROVE  LastInFlight' /\ SequentialHistoryExact'
<1> DEFINE busy == \E q \in inFlight : q.srv = s
<1>1. /\ overlapped' = [overlapped EXCEPT ![s] = @ \/ busy]
      /\ overlapped \in [Servers -> BOOLEAN]
      /\ outcome \in [Servers -> [Slots -> Delays \cup {Uninit}]]
      /\ outcome' = [outcome EXCEPT ![s] =
             [k \in Slots |-> IF k = 0 THEN TimeOut ELSE outcome[s][k - 1]]]
      /\ inFlight' = inFlight \cup {[srv |-> s, n |-> m_Sent[s] + 1]}
      /\ MessageSent(s) /\ UpstreamTypeOK
  BY DEF Forward, LoadTypeOK
<1>2. /\ m_Sent' = [m_Sent EXCEPT ![s] = @ + 1]
      /\ m_Sent \in [Servers -> Nat]
  BY <1>1 DEF MessageSent, UpstreamTypeOK
<1>3. ~overlapped'[s] => ~overlapped[s] /\ ~busy
  BY <1>1, Zenon
<1>4. \A t \in Servers \ {s} : overlapped'[t] = overlapped[t]
  BY <1>1, Zenon
<1>5. LastInFlight'
  <2> SUFFICES ASSUME NEW q \in inFlight', ~overlapped'[q.srv]
               PROVE  q.n = m_Sent'[q.srv]
    BY DEF LastInFlight
  <2>1. CASE q \in inFlight /\ q.srv = s
    BY <1>3, <2>1
  <2>2. CASE q \in inFlight /\ q.srv # s
    <3>1. q.srv \in Servers \ {s}
      BY <2>2 DEF LoadTypeOK
    <3>2. ~overlapped[q.srv]
      BY <1>4, <3>1
    <3>3. q.n = m_Sent[q.srv]
      BY <2>2, <3>2 DEF LastInFlight
    <3> QED  BY <1>2, <3>1, <3>3
  <2>3. CASE q = [srv |-> s, n |-> m_Sent[s] + 1]
    BY <1>2, <2>3
  <2> QED  BY <1>1, <2>1, <2>2, <2>3
<1>6. SequentialHistoryExact'
  <2> SUFFICES ASSUME NEW t \in Servers, ~overlapped'[t]
               PROVE  RingHoldsOutcomes(t)'
    BY DEF SequentialHistoryExact
  <2>1. CASE t = s
    <3>1. RingHoldsOutcomes(s)
      BY <1>3, <2>1 DEF SequentialHistoryExact
    <3> QED  BY <1>1, <2>1, <3>1, SentShiftsRing
  <2>2. CASE t # s
    <3>1. RingHoldsOutcomes(t)
      BY <1>4, <2>2 DEF SequentialHistoryExact
    <3>2. PICK i : /\ m_DelayHistoryIndex' = [m_DelayHistoryIndex EXCEPT ![s] = i]
                   /\ m_DelayHistory' = [m_DelayHistory EXCEPT ![s][i] = TimeOut]
      BY <1>1 DEF MessageSent, SetNextDelay
    <3> QED  BY <1>1, <1>2, <2>2, <3>1, <3>2, OtherRingsKept
  <2> QED  BY <2>1, <2>2
<1> QED  BY <1>5, <1>6

\* Answer keeps it too: the answer to the last query sent has its slot.
LEMMA AnswerKeepsHistory ==
    ASSUME LoadTypeOK, RingWritten, LastInFlight, SequentialHistoryExact,
           NEW q \in inFlight, NEW d \in Delays, Answer(q, d)
    PROVE  LastInFlight' /\ SequentialHistoryExact'
<1> DEFINE s == q.srv
<1>1. /\ s \in Servers /\ m_Sent[s] > 0 /\ m_Sent[s] \in Nat
      /\ outcome \in [Servers -> [Slots -> Delays \cup {Uninit}]]
      /\ outcome' = [outcome EXCEPT ![s] =
             [k \in Slots |-> IF k = m_Sent[s] - q.n THEN d ELSE @[k]]]
      /\ inFlight' = inFlight \ {q} /\ UNCHANGED <<m_Sent, overlapped>>
      /\ MessageReceived(s, d) /\ UpstreamTypeOK
  BY DEF Answer, MessageReceived, LoadTypeOK, UpstreamTypeOK
<1>2. LastInFlight'
  BY <1>1 DEF LastInFlight
<1>3. SequentialHistoryExact'
  <2> SUFFICES ASSUME NEW t \in Servers, ~overlapped[t]
               PROVE  RingHoldsOutcomes(t)'
    BY <1>1 DEF SequentialHistoryExact
  <2>1. RingHoldsOutcomes(t)
    BY DEF SequentialHistoryExact
  <2>2. CASE t = s
    <3>1. m_Sent[s] - q.n = 0
      BY <1>1, <2>2 DEF LastInFlight
    <3>2. outcome' = [outcome EXCEPT ![s] =
                        [k \in Slots |-> IF k = 0 THEN d ELSE @[k]]]
      BY <1>1, <3>1
    <3> HIDE DEF s
    <3> QED  BY <1>1, <2>1, <2>2, <3>2, AnswerFindsItsSlot
  <2>3. CASE t # s
    <3>1. /\ m_DelayHistory' =
                 [m_DelayHistory EXCEPT ![s][m_DelayHistoryIndex[s]] = d]
          /\ m_DelayHistoryIndex' =
                 [m_DelayHistoryIndex EXCEPT ![s] = m_DelayHistoryIndex[s]]
          /\ m_Sent' = [m_Sent EXCEPT ![s] = m_Sent[s]]
      BY <1>1 DEF MessageReceived, SetDelay, UpstreamTypeOK
    <3> HIDE DEF s
    <3> QED  BY <1>1, <2>1, <2>3, <3>1, OtherRingsKept
  <2> QED  BY <2>2, <2>3
<1> QED  BY <1>2, <1>3

\* The ring of a server that never had two queries in flight holds exactly the
\* delays of its last DELAY_HISTORY_SIZE queries (CSecondaryServer.cpp:41-67),
\* for any ring size and any number of servers.
THEOREM SequentialHistoryIsExact == LoadSpec => []SequentialHistoryExact
<1> DEFINE HInv == LastInFlight /\ SequentialHistoryExact
<1>1. LoadInit => HInv
  BY DEF LoadInit, UpstreamInit, LastInFlight, SequentialHistoryExact,
         RingHoldsOutcomes, Slots
<1>2. LoadTypeOK /\ RingWritten /\ HInv /\ [LoadNext]_loadVars => HInv'
  <2> SUFFICES ASSUME LoadTypeOK, RingWritten, HInv, [LoadNext]_loadVars
               PROVE  HInv'
    OBVIOUS
  <2>1. ASSUME NEW s \in Servers, Forward(s) PROVE HInv'
    BY <2>1, ForwardKeepsHistory
  <2>2. ASSUME NEW q \in inFlight, NEW d \in Delays, Answer(q, d) PROVE HInv'
    BY <2>2, AnswerKeepsHistory
  <2>3. ASSUME NEW q \in inFlight, GiveUp(q) PROVE HInv'
    BY <2>3 DEF GiveUp, LastInFlight, SequentialHistoryExact, RingHoldsOutcomes,
                SlotBack
  <2>4. CASE UNCHANGED loadVars
    BY <2>4 DEF loadVars, LastInFlight, SequentialHistoryExact,
                RingHoldsOutcomes, SlotBack
  <2> QED  BY <2>1, <2>2, <2>3, <2>4 DEF LoadNext
<1>3. LoadSpec => []RingWritten
  BY LoopImplementsChoice, RingsWritten DEF LoopPicksBest
<1> QED  BY <1>1, <1>2, <1>3, LoadTypeCorrect, PTL DEF LoadSpec

=============================================================================

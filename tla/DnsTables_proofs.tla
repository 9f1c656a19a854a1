--------------------------- MODULE DnsTables_proofs ---------------------------
(***************************************************************************)
(* What holds of the two tables of a server for all values of their        *)
(* constants. Of the queue: ids stay in MIN_ID..MAX_ID, the size within    *)
(* MAX_QUEUE_SIZE, and no pending id is handed out again within a lap. Of  *)
(* the cache: no record outlives the time its own server gave it or        *)
(* MAX_CACHE_TTL, and what Get hands out is overdue by less than the time  *)
(* since the last sweep. The histories that say so restrict neither.       *)
(***************************************************************************)
EXTENDS DnsQueueHistory, DnsCacheHistory, FiniteSetTheorems, TLAPS

\* A fresh id (GetNextID, dnsQueue.h:107) is in the range, wrapped or not.
LEMMA NextIdInRange ==
    ASSUME NEW old \in QueueIds, NEW new \in GetNextID(old)
    PROVE  new \in QueueIds
<1> USE QueueConstants DEF QueueIds, rand
<1>1. CASE \E s \in rand(StepLow, StepHigh) : old + s <= MAX_ID /\ new = old + s
  BY <1>1
<1>2. CASE \E s \in rand(StepLow, StepHigh), w \in rand(WrapLow, WrapHigh) :
              old + s > MAX_ID /\ new = old + s + (MIN_ID + w - MAX_ID)
  BY <1>2
<1> QED  BY <1>1, <1>2 DEF GetNextID

\* No step of CDnsQueue hands out or keeps an id out of range.
LEMMA QueueTypeStep ==
    ASSUME QueueTypeOK, [QueueNext]_queueVars
    PROVE  QueueTypeOK'
<1> USE DEF QueueTypeOK
<1>1. ASSUME NEW id \in SrcIds, NEW src \in Clients, NEW srv \in Servers,
             NEW name \in Names, NEW localID,
             Enqueue(id, src, srv, name, localID)
      PROVE  QueueTypeOK'
  <2>1. CASE Full /\ UNCHANGED queueVars
    BY <2>1 DEF queueVars
  <2>2. CASE ~Full /\ localID \in GetNextID(m_NextID) /\ m_NextID' = localID
             /\ m_pQueue' = [m_pQueue EXCEPT ![localID] =
                   [m_SrcId |-> id, m_Src |-> src, m_pServer |-> srv,
                    m_pName |-> name, age |-> 0]]
    <3>1. localID \in QueueIds
      BY <2>2, NextIdInRange
    <3>2. [m_SrcId |-> id, m_Src |-> src, m_pServer |-> srv,
           m_pName |-> name, age |-> 0] \in PendingQuery
      BY <1>1, QueueConstants DEF PendingQuery
    <3> QED  BY <2>2, <3>1, <3>2
  <2> QED  BY <1>1, <2>1, <2>2 DEF Enqueue
<1>2. ASSUME NEW id \in Pending, Remove(id) PROVE QueueTypeOK'
  BY <1>2 DEF Remove
<1>3. CASE ForEachExpired
  BY <1>3 DEF ForEachExpired
<1>4. CASE QueueTick
  <2> SUFFICES ASSUME NEW id \in Pending, m_pQueue[id].age <= TimeOut
               PROVE  [m_pQueue[id] EXCEPT !.age = @ + 1] \in PendingQuery
    BY <1>4 DEF QueueTick
  <2>1. m_pQueue[id] \in PendingQuery
    BY DEF Pending
  <2> QED  BY <2>1, QueueConstants DEF PendingQuery
<1>5. CASE UNCHANGED queueVars
  BY <1>5 DEF queueVars
<1> QED  BY <1>1, <1>2, <1>3, <1>4, <1>5 DEF QueueNext

\* Type correctness of CDnsQueue: the ids handed out stay between MIN_ID and
\* MAX_ID, so none of them is mistaken for INVALID_QUEUE_ID by forwardMsg.
THEOREM QueueTypeCorrect == QueueSpec => []QueueTypeOK
<1>1. QueueInit => QueueTypeOK
  BY QueueConstants DEF QueueInit, QueueTypeOK, QueueIds, rand
<1>2. QueueTypeOK /\ [QueueNext]_queueVars => QueueTypeOK'
  BY QueueTypeStep
<1> QED  BY <1>1, <1>2, PTL DEF QueueSpec

-----------------------------------------------------------------------------
\* The set of pending ids is finite, whatever is in the queue.
LEMMA PendingFinite == IsFiniteSet(Pending)
<1>1. IsFiniteSet(QueueIds)
  BY QueueConstants, FS_Interval DEF QueueIds
<1> QED  BY <1>1, FS_Subset DEF Pending

\* A step that adds no pending id adds nothing to the size.
LEMMA SizeShrinks ==
    ASSUME Pending' \subseteq Pending, SizeBounded
    PROVE  SizeBounded'
<1>1. Cardinality(Pending') <= Cardinality(Pending)
  BY PendingFinite, FS_Subset
<1>2. Cardinality(Pending') \in Nat /\ Cardinality(Pending) \in Nat
  BY PendingFinite, FS_Subset, FS_CardinalityType
<1> QED  BY <1>1, <1>2, QueueConstants DEF SizeBounded, Size

\* The queue never holds more than MAX_QUEUE_SIZE queries: the check of
\* Enqueue (dnsQueue.h:50) is enough whatever ids are drawn.
THEOREM QueueSizeBounded == QueueSpec => []SizeBounded
<1>1. QueueInit => SizeBounded
  <2> SUFFICES ASSUME QueueInit PROVE SizeBounded
    OBVIOUS
  <2>1. Pending = {}
    BY DEF QueueInit, Pending
  <2> QED  BY <2>1, FS_EmptySet, QueueConstants DEF SizeBounded, Size
<1>2. QueueTypeOK /\ SizeBounded /\ [QueueNext]_queueVars => SizeBounded'
  <2> SUFFICES ASSUME QueueTypeOK, SizeBounded, [QueueNext]_queueVars
               PROVE  SizeBounded'
    OBVIOUS
  <2>1. ASSUME NEW id \in SrcIds, NEW src \in Clients, NEW srv \in Servers,
               NEW name \in Names, NEW localID,
               Enqueue(id, src, srv, name, localID)
        PROVE  SizeBounded'
    <3>1. CASE Full /\ UNCHANGED queueVars
      BY <3>1, SizeShrinks DEF queueVars, Pending
    <3>2. CASE ~Full /\ localID \in GetNextID(m_NextID)
               /\ m_pQueue' = [m_pQueue EXCEPT ![localID] =
                     [m_SrcId |-> id, m_Src |-> src, m_pServer |-> srv,
                      m_pName |-> name, age |-> 0]]
      <4>1. Pending' \subseteq Pending \cup {localID}
        BY <3>2 DEF Pending, QueueTypeOK
      <4>2. /\ IsFiniteSet(Pending \cup {localID})
            /\ Cardinality(Pending \cup {localID}) <= Cardinality(Pending) + 1
        <5>1. IsFiniteSet(Pending) /\ Cardinality(Pending) \in Nat
          BY PendingFinite, FS_CardinalityType
        <5>2. /\ IsFiniteSet(Pending \cup {localID})
              /\ Cardinality(Pending \cup {localID}) =
                   IF localID \in Pending THEN Cardinality(Pending)
                   ELSE Cardinality(Pending) + 1
          BY <5>1, FS_AddElement, Zenon
        <5> HIDE DEF Pending
        <5> QED  BY <5>1, <5>2
      <4>3. Cardinality(Pending') <= Cardinality(Pending \cup {localID})
        BY <4>1, <4>2, FS_Subset
      <4>4. /\ Cardinality(Pending) \in Nat
            /\ Cardinality(Pending \cup {localID}) \in Nat
            /\ Cardinality(Pending') \in Nat
        BY <4>1, <4>2, PendingFinite, FS_Subset, FS_CardinalityType
      <4>5. Cardinality(Pending) < MAX_QUEUE_SIZE
        BY <3>2, <4>4, QueueConstants DEF Full, Size
      <4> QED  BY <4>2, <4>3, <4>4, <4>5, QueueConstants DEF SizeBounded, Size
    <3> QED  BY <2>1, <3>1, <3>2 DEF Enqueue
  <2>2. ASSUME NEW id \in Pending, Remove(id) PROVE SizeBounded'
    BY <2>2, SizeShrinks DEF Remove, Pending
  <2>3. CASE ForEachExpired
    BY <2>3, SizeShrinks DEF ForEachExpired, Pending
  <2>4. CASE QueueTick
    BY <2>4, SizeShrinks DEF QueueTick, Pending
  <2>5. CASE UNCHANGED queueVars
    BY <2>5, SizeShrinks DEF queueVars, Pending
  <2> QED  BY <2>1, <2>2, <2>3, <2>4, <2>5 DEF QueueNext
<1> QED  BY <1>1, <1>2, QueueTypeCorrect, PTL DEF QueueSpec


-----------------------------------------------------------------------------
(***************************************************************************)
(* The history. LapInv is inductive: going from one id to the next either  *)
(* adds the step to m_NextID - id, or wraps and takes a lap from it.       *)
(***************************************************************************)
SinceTypeOK == since \in [QueueIds -> 0..MaxSince]

\* For any range of ids, any limit and any random steps: the ids handed out
\* are valid and the queue stays within its limit (dnsQueue.h lines 49-113).
THEOREM QueueInRange == QueueSpec => []IdsAndSizeInRange
BY QueueTypeCorrect, QueueSizeBounded, PTL DEF IdsAndSizeInRange

\* With the counts hidden, DnsQueueHistory does what CDnsQueue does.
LEMMA HistoryImplementsQueue == HistorySpec => QueueSpec
<1>1. HistoryStart(since) => QueueInit
  BY DEF HistoryStart
<1>2. [HistoryStep(since, since')]_historyVars => [QueueNext]_queueVars
  BY DEF HistoryStep, EnqueueH, RemoveH, ForEachExpiredH, TickH, historyVars,
         QueueNext, queueVars, EnqueueResults, Enqueue
<1> QED  BY <1>1, <1>2, PTL DEF HistorySpec, QueueSpec

\* The counts restrict nothing: whatever they are, every start and every step
\* of CDnsQueue is one of DnsQueueHistory, with some counts after it.
THEOREM HistoryRestrictsNothing ==
    /\ QueueInit => \E s : HistoryStart(s)
    /\ [QueueNext]_queueVars =>
          \A s : \E t : HistoryStep(s, t) \/ (UNCHANGED queueVars /\ t = s)
<1>1. QueueInit => \E s : HistoryStart(s)
  BY DEF HistoryStart
<1>2. ASSUME [QueueNext]_queueVars, NEW s
      PROVE  \E t : HistoryStep(s, t) \/ (UNCHANGED queueVars /\ t = s)
  <2>1. ASSUME NEW id \in SrcIds, NEW src \in Clients, NEW srv \in Servers,
               NEW name \in Names, NEW localID \in EnqueueResults,
               Enqueue(id, src, srv, name, localID)
        PROVE  \E t : HistoryStep(s, t)
    <3>1. \E t : EnqueueH(localID, s, t)
      BY <2>1, Zenon DEF EnqueueH
    <3> QED  BY <3>1, Zenon DEF HistoryStep
  <2>2. ASSUME NEW id \in Pending, Remove(id)
        PROVE  \E t : HistoryStep(s, t)
    <3>1. \E t : RemoveH(id, s, t)
      BY <2>2, Zenon DEF RemoveH
    <3> QED  BY <3>1, Zenon DEF HistoryStep
  <2>3. CASE ForEachExpired
    <3>1. \E t : ForEachExpiredH(s, t)
      BY <2>3, Zenon DEF ForEachExpiredH
    <3> QED  BY <3>1, Zenon DEF HistoryStep
  <2>4. CASE QueueTick
    BY <2>4, Zenon DEF HistoryStep, TickH
  <2>5. CASE UNCHANGED queueVars
    BY <2>5, Zenon
  <2> QED  BY <1>2, <2>1, <2>2, <2>3, <2>4, <2>5, Zenon DEF QueueNext
<1> QED  BY <1>1, <1>2, Zenon

\* The history variable counts ids, for every id.
LEMMA SinceType == HistorySpec => []SinceTypeOK
<1> USE MaxSinceIsALap
<1>1. HistoryStart(since) => SinceTypeOK
  BY DEF HistoryStart, SinceTypeOK
<1>2. SinceTypeOK /\ [HistoryStep(since, since')]_historyVars => SinceTypeOK'
  BY DEF HistoryStep, EnqueueH, RemoveH, ForEachExpiredH, TickH, historyVars,
         SinceTypeOK, OneMoreSince
<1> QED  BY <1>1, <1>2, PTL DEF HistorySpec

\* One step of GetNextID either stays within the lap or wraps once.
LEMMA NextIdStep ==
    ASSUME NEW old \in QueueIds, NEW new \in GetNextID(old)
    PROVE  \/ /\ new - old >= StepLow
              /\ new - old <= StepHigh - 1
           \/ new - old <= (StepHigh - 1) - Lap
<1> USE QueueConstants DEF QueueIds, rand, Lap
<1>1. CASE \E s \in rand(StepLow, StepHigh) : old + s <= MAX_ID /\ new = old + s
  BY <1>1
<1>2. CASE \E s \in rand(StepLow, StepHigh), w \in rand(WrapLow, WrapHigh) :
              old + s > MAX_ID /\ new = old + s + (MIN_ID + w - MAX_ID)
  BY <1>2
<1> QED  BY <1>1, <1>2 DEF GetNextID

\* The products Ahead compares grow by one factor per id.
LEMMA OneMore ==
    ASSUME NEW n \in Nat
    PROVE  /\ StepLow * (n + 1) = StepLow * n + StepLow
           /\ (StepHigh - 1) * (n + 1) = (StepHigh - 1) * n + (StepHigh - 1)
           /\ StepLow * n \in Nat /\ (StepHigh - 1) * n \in Nat
           /\ StepLow * (n + 1) > 0
           /\ StepLow * 0 = 0 /\ (StepHigh - 1) * 0 = 0
  BY QueueConstants

\* An id more keeps the relation: the arithmetic core of the argument.
LEMMA AheadStep ==
    ASSUME NEW id \in QueueIds, NEW n \in Nat, NEW old \in QueueIds,
           NEW new \in GetNextID(old), Ahead(old, id, n)
    PROVE  Ahead(new, id, n + 1)
<1> DEFINE lo == StepLow * n
           hi == (StepHigh - 1) * n
<1>1. /\ StepLow * (n + 1) = lo + StepLow
      /\ (StepHigh - 1) * (n + 1) = hi + (StepHigh - 1)
      /\ lo \in Nat /\ hi \in Nat
  BY OneMore
<1>2. new \in QueueIds
  BY NextIdInRange
<1>3. \/ new - old >= StepLow /\ new - old <= StepHigh - 1
      \/ new - old <= (StepHigh - 1) - Lap
  BY NextIdStep
<1>4. \/ old - id >= lo /\ old - id <= hi
      \/ hi >= Lap + (old - id)
  BY DEF Ahead
<1>5. old \in Int /\ new \in Int /\ id \in Int /\ Lap \in Nat
      /\ StepLow \in Int /\ StepHigh \in Int
  BY <1>2, QueueConstants DEF QueueIds, Lap
<1> HIDE DEF lo, hi
<1>6. \/ /\ new - id >= lo + StepLow
         /\ new - id <= hi + (StepHigh - 1)
      \/ hi + (StepHigh - 1) >= Lap + (new - id)
  BY <1>1, <1>3, <1>4, <1>5
<1> QED  BY <1>1, <1>6 DEF Ahead

\* Where m_NextID is, relative to every pending id, in every reachable state.
THEOREM LapInvariant == HistorySpec => []LapInv
<1>1. HistoryStart(since) => LapInv
  BY DEF HistoryStart, QueueInit, LapInv, Pending
<1>2. QueueTypeOK /\ SinceTypeOK /\ LapInv
        /\ [HistoryStep(since, since')]_historyVars => LapInv'
  <2> SUFFICES ASSUME QueueTypeOK, SinceTypeOK, LapInv,
                      [HistoryStep(since, since')]_historyVars,
                      NEW id \in Pending'
               PROVE  since'[id] = MaxSince \/ Ahead(m_NextID', id, since'[id])
    BY DEF LapInv
  <2> USE DEF QueueTypeOK, SinceTypeOK
  <2>0. id \in QueueIds /\ (id \in Pending =>
              since[id] = MaxSince \/ Ahead(m_NextID, id, since[id]))
    BY DEF Pending, LapInv
  <2>1. ASSUME NEW localID \in EnqueueResults, EnqueueH(localID, since, since')
        PROVE  since'[id] = MaxSince \/ Ahead(m_NextID', id, since'[id])
    <3>1. CASE Full
      <4>1. UNCHANGED queueVars /\ since' = since
        BY <2>1, <3>1 DEF EnqueueH, Enqueue
      <4> QED  BY <4>1, <2>0 DEF queueVars, Pending
    <3>2. CASE ~Full
      <4>1. /\ localID \in GetNextID(m_NextID) /\ m_NextID' = localID
            /\ \A x \in QueueIds \ {localID} : m_pQueue'[x] = m_pQueue[x]
            /\ since' = [x \in QueueIds |->
                   IF x \in Pending \ {localID} THEN OneMoreSince(since[x]) ELSE 0]
        BY <2>1, <3>2 DEF EnqueueH, Enqueue
      <4>2. CASE id = localID
        <5>1. m_NextID' = id /\ since'[id] = 0
          BY <4>1, <4>2, <2>0
        <5>2. id - id = 0
          BY <2>0, QueueConstants DEF QueueIds
        <5> QED  BY <5>1, <5>2, OneMore DEF Ahead
      <4>3. CASE id # localID
        <5>1. id \in Pending
          BY <4>1, <4>3, <2>0 DEF Pending
        <5>2. since'[id] = OneMoreSince(since[id]) /\ since[id] \in 0..MaxSince
          BY <4>1, <4>3, <5>1, <2>0
        <5>3. CASE since[id] = MaxSince
          BY <5>2, <5>3, MaxSinceIsALap DEF OneMoreSince
        <5>4. CASE since[id] # MaxSince
          <6>1. since'[id] = since[id] + 1 /\ since[id] \in Nat
            BY <5>2, <5>4, MaxSinceIsALap DEF OneMoreSince
          <6> QED  BY <2>0, <4>1, <5>1, <5>4, <6>1, AheadStep
        <5> QED  BY <5>3, <5>4
      <4> QED  BY <4>2, <4>3
    <3> QED  BY <3>1, <3>2
  <2>2. ASSUME NEW x \in Pending, RemoveH(x, since, since')
        PROVE  since'[id] = MaxSince \/ Ahead(m_NextID', id, since'[id])
    BY <2>2, <2>0 DEF RemoveH, Remove, Pending
  <2>3. CASE ForEachExpiredH(since, since')
    BY <2>3, <2>0 DEF ForEachExpiredH, ForEachExpired, Pending
  <2>4. CASE TickH(since, since')
    <3>1. id \in Pending
      BY <2>4, <2>0 DEF TickH, QueueTick, Pending
    <3> QED  BY <2>4, <2>0, <3>1 DEF TickH, QueueTick
  <2>5. CASE UNCHANGED historyVars
    BY <2>5, <2>0 DEF historyVars, Pending
  <2> QED  BY <2>1, <2>2, <2>3, <2>4, <2>5 DEF HistoryStep
<1>3. HistorySpec => []QueueTypeOK
  BY HistoryImplementsQueue, QueueTypeCorrect
<1> QED  BY <1>1, <1>2, <1>3, SinceType, PTL DEF HistorySpec

\* GetNextID (dnsQueue.h:107) does not look whether an id is in use; it takes
\* at least Lap / (StepHigh - 1) ids before it can hand a pending one out again.
THEOREM PendingIdSafeForALap == HistorySpec => ReuseTakesALap
<1> DEFINE A == \A id \in Pending :
                  (m_NextID' # m_NextID /\ m_NextID' = id)
                     => (StepHigh - 1) * (since[id] + 1) >= Lap
<1>1. QueueTypeOK /\ SinceTypeOK /\ LapInv
        /\ [HistoryStep(since, since')]_historyVars => A
  <2> SUFFICES ASSUME QueueTypeOK, SinceTypeOK, LapInv,
                      [HistoryStep(since, since')]_historyVars,
                      NEW id \in Pending, m_NextID' # m_NextID, m_NextID' = id
               PROVE  (StepHigh - 1) * (since[id] + 1) >= Lap
    BY DEF A
  <2>1. id \in GetNextID(m_NextID)
    BY DEF HistoryStep, EnqueueH, Enqueue, RemoveH, Remove, ForEachExpiredH,
           ForEachExpired, TickH, QueueTick, historyVars, queueVars
  <2>2. id \in QueueIds /\ m_NextID \in QueueIds /\ since[id] \in Nat
        /\ (since[id] = MaxSince \/ Ahead(m_NextID, id, since[id]))
    BY MaxSinceIsALap DEF Pending, QueueTypeOK, SinceTypeOK, LapInv
  <2>3. /\ StepLow * (since[id] + 1) > 0
        /\ StepLow * (since[id] + 1) \in Int
        /\ (StepHigh - 1) * (since[id] + 1) \in Int
    <3>1. since[id] + 1 \in Nat /\ StepLow \in Int /\ StepHigh - 1 \in Int
      BY <2>2, QueueConstants
    <3>2. \A a, b \in Int : a * b \in Int
      OBVIOUS
    <3>3. StepLow * (since[id] + 1) > 0
      BY <2>2, OneMore
    <3>4. StepLow * (since[id] + 1) \in Int
      BY <3>1, <3>2
    <3>5. (StepHigh - 1) * (since[id] + 1) \in Int
      BY <3>1, <3>2
    <3> QED  BY <3>3, <3>4, <3>5
  <2>4. id - id = 0 /\ Lap + (id - id) = Lap
    BY <2>2, QueueConstants DEF QueueIds, Lap
  <2>5. CASE since[id] = MaxSince
    <3>1. /\ (StepHigh - 1) * (since[id] + 1)
                = (StepHigh - 1) * since[id] + (StepHigh - 1)
          /\ (StepHigh - 1) * since[id] \in Nat
      BY <2>2, OneMore
    <3>2. (StepHigh - 1) * since[id] >= Lap
      BY <2>5, MaxSinceIsALap
    <3> QED  BY <3>1, <3>2, QueueConstants DEF Lap
  <2>6. CASE Ahead(m_NextID, id, since[id])
    <3>1. Ahead(id, id, since[id] + 1)
      BY <2>1, <2>2, <2>6, AheadStep
    <3>2. \/ 0 >= StepLow * (since[id] + 1)
          \/ (StepHigh - 1) * (since[id] + 1) >= Lap
      BY <3>1, <2>4 DEF Ahead
    <3> QED  BY <2>3, <3>2
  <2> QED  BY <2>2, <2>5, <2>6
<1>2. HistorySpec => []QueueTypeOK
  BY HistoryImplementsQueue, QueueTypeCorrect
<1> QED  BY <1>1, <1>2, SinceType, LapInvariant, PTL
         DEF HistorySpec, ReuseTakesALap

CacheHistoryTypeOK ==
    /\ CacheTypeOK
    /\ origin \in [CacheNames -> SUBSET [record : Records, ttl : (-OverdueCap)..MAX_CACHE_TTL]]
    /\ sinceSweep \in 0..(OverdueCap + 1)

\* Save either keeps everything or stores a node that is good for a tick at
\* least, and for no longer than any of its records.
LEMMA SaveKeeps ==
    ASSUME CacheTypeOK, NEW name \in CacheNames, NEW rrs \in Answers, Save(name, rrs)
    PROVE  \/ /\ UNCHANGED m_pRecordTree
              /\ ~(rrs # {} /\ \A r \in rrs : r.ttl > 0)
           \/ /\ rrs # {} /\ \A r \in rrs : r.ttl > 0
              /\ \E min \in 1..MAX_CACHE_TTL :
                    /\ \A r \in rrs : min <= r.ttl
                    /\ m_pRecordTree' = [m_pRecordTree EXCEPT ![name] =
                           [records |-> {r.record : r \in rrs}, ttl |-> min]]
<1>1. PICK min \in LeastTtl(rrs) :
          IF rrs = {} \/ min <= 0
            THEN UNCHANGED m_pRecordTree
            ELSE m_pRecordTree' = [m_pRecordTree EXCEPT ![name] =
                     [records |-> {r.record : r \in rrs}, ttl |-> min]]
  BY DEF Save
<1>2. \A r \in rrs : r.ttl \in 0..MaxTtl
  BY CacheConstants
<1>3. /\ min = MAX_CACHE_TTL \/ \E r \in rrs : min = r.ttl
      /\ min <= MAX_CACHE_TTL /\ \A r \in rrs : min <= r.ttl
  BY <1>1 DEF LeastTtl
<1>4. min \in Nat
  BY <1>2, <1>3, CacheConstants
<1>5. CASE rrs = {} \/ min <= 0
  BY <1>1, <1>2, <1>3, <1>4, <1>5, CacheConstants
<1>6. CASE ~(rrs = {} \/ min <= 0)
  <2>1. min \in 1..MAX_CACHE_TTL
    BY <1>3, <1>4, <1>6, CacheConstants
  <2>2. \A r \in rrs : r.ttl > 0
    BY <1>2, <1>3, <2>1, CacheConstants
  <2> QED  BY <1>1, <1>3, <1>6, <2>1, <2>2
<1> QED  BY <1>5, <1>6

\* Whatever is saved, swept or grows older: a node's time to live stays between
\* what follows from the answers and MAX_CACHE_TTL.
LEMMA CacheTypeStep ==
    ASSUME CacheTypeOK, [CacheNext]_m_pRecordTree
    PROVE  CacheTypeOK'
<1> USE CacheConstants DEF CacheTypeOK
<1>1. ASSUME NEW name \in CacheNames, NEW rrs \in Answers, Save(name, rrs)
      PROVE  CacheTypeOK'
  <2>1. CASE UNCHANGED m_pRecordTree
    BY <2>1
  <2>2. ASSUME NEW min \in 1..MAX_CACHE_TTL,
               m_pRecordTree' = [m_pRecordTree EXCEPT ![name] =
                  [records |-> {r.record : r \in rrs}, ttl |-> min]]
        PROVE  CacheTypeOK'
    <3>1. {r.record : r \in rrs} \in SUBSET Records
      OBVIOUS
    <3>2. min \in (-OverdueCap)..MAX_CACHE_TTL
      OBVIOUS
    <3>3. [records |-> {r.record : r \in rrs}, ttl |-> min] \in Node
      BY <3>1, <3>2 DEF Node
    <3> QED  BY <2>2, <3>3
  <2> QED  BY <1>1, <2>1, <2>2, SaveKeeps
<1>2. CASE RemoveExpired
  BY <1>2 DEF RemoveExpired
<1>3. CASE CacheTick
  <2> SUFFICES ASSUME NEW name \in Cached, m_pRecordTree[name].ttl > -OverdueCap
               PROVE  [m_pRecordTree[name] EXCEPT !.ttl = @ - 1] \in Node
    BY <1>3 DEF CacheTick
  <2>1. m_pRecordTree[name] \in Node
    BY DEF Cached
  <2> QED  BY <2>1 DEF Node
<1> QED  BY <1>1, <1>2, <1>3 DEF CacheNext

\* With the history hidden, DnsCacheHistory does what CCache does.
LEMMA HistoryImplementsCache == CacheHistorySpec => CacheSpec
<1>1. CacheHistoryStart(origin, sinceSweep) => CacheInit
  BY DEF CacheHistoryStart
<1>2. [CacheHistoryStep(origin, sinceSweep, origin', sinceSweep')]_cacheHistoryVars
        => [CacheNext]_m_pRecordTree
  BY DEF CacheHistoryStep, SaveH, RemoveExpiredH, CacheTickH, cacheHistoryVars, CacheNext
<1> QED  BY <1>1, <1>2, PTL DEF CacheHistorySpec, CacheSpec

\* The history restricts nothing: whatever it is, every start and every step of
\* CCache is one of DnsCacheHistory, with some history after it.
THEOREM CacheHistoryRestrictsNothing ==
    /\ CacheInit => \E o, n : CacheHistoryStart(o, n)
    /\ [CacheNext]_m_pRecordTree =>
          \A o, n : \E o2, n2 :
              \/ CacheHistoryStep(o, n, o2, n2)
              \/ UNCHANGED m_pRecordTree /\ o2 = o /\ n2 = n
<1>1. CacheInit => \E o, n : CacheHistoryStart(o, n)
  BY Zenon DEF CacheHistoryStart
<1>2. ASSUME [CacheNext]_m_pRecordTree, NEW o, NEW n
      PROVE  \E o2, n2 :
                \/ CacheHistoryStep(o, n, o2, n2)
                \/ UNCHANGED m_pRecordTree /\ o2 = o /\ n2 = n
  <2>1. ASSUME NEW name \in CacheNames, NEW rrs \in Answers, Save(name, rrs)
        PROVE  \E o2, n2 : CacheHistoryStep(o, n, o2, n2)
    <3>1. \E o2, n2 : SaveH(name, rrs, o, n, o2, n2)
      BY <2>1, Zenon DEF SaveH
    <3> QED  BY <3>1, Zenon DEF CacheHistoryStep
  <2>2. CASE RemoveExpired
    <3>1. \E o2, n2 : RemoveExpiredH(o, n, o2, n2)
      BY <2>2, Zenon DEF RemoveExpiredH
    <3> QED  BY <3>1, Zenon DEF CacheHistoryStep
  <2>3. CASE CacheTick
    <3>1. \E o2, n2 : CacheTickH(o, n, o2, n2)
      BY <2>3, Zenon DEF CacheTickH
    <3> QED  BY <3>1, Zenon DEF CacheHistoryStep
  <2>4. CASE UNCHANGED m_pRecordTree
    BY <2>4, Zenon
  <2> QED  BY <1>2, <2>1, <2>2, <2>3, <2>4, Zenon DEF CacheNext
<1> QED  BY <1>1, <1>2, Zenon

\* What a cache may keep of a record is a time to live within MAX_CACHE_TTL.
LEMMA AllowedType ==
    ASSUME NEW r \in [record : Records, ttl : 0..MaxTtl]
    PROVE  /\ Allowed(r) \in [record : Records, ttl : (-OverdueCap)..MAX_CACHE_TTL]
           /\ Allowed(r).record = r.record
           /\ \A min \in Int : min <= r.ttl /\ min <= MAX_CACHE_TTL
                               => min <= Allowed(r).ttl
BY CacheConstants DEF Allowed

\* Type correctness of the cache and of its history.
THEOREM CacheTypeCorrect == CacheHistorySpec => []CacheHistoryTypeOK
<1> USE CacheConstants DEF CacheTypeOK, CacheHistoryTypeOK
<1>1. CacheHistoryStart(origin, sinceSweep) => CacheHistoryTypeOK
  BY DEF CacheHistoryStart, CacheInit
<1>2. CacheHistoryTypeOK /\ [CacheHistoryStep(origin, sinceSweep, origin', sinceSweep')]_cacheHistoryVars
        => CacheHistoryTypeOK'
  <2> SUFFICES ASSUME CacheHistoryTypeOK, [CacheHistoryStep(origin, sinceSweep, origin', sinceSweep')]_cacheHistoryVars
               PROVE  CacheHistoryTypeOK'
    OBVIOUS
  <2>0. CacheTypeOK'
    <3>1. [CacheNext]_m_pRecordTree
      BY DEF CacheHistoryStep, SaveH, RemoveExpiredH, CacheTickH, cacheHistoryVars, CacheNext
    <3> QED  BY <3>1, CacheTypeStep
  <2>1. ASSUME NEW name \in CacheNames, NEW rrs \in Answers, SaveH(name, rrs, origin, sinceSweep, origin', sinceSweep')
        PROVE  CacheHistoryTypeOK'
    <3>1. {Allowed(r) : r \in rrs}
            \in SUBSET [record : Records, ttl : (-OverdueCap)..MAX_CACHE_TTL]
      BY AllowedType
    <3> QED  BY <2>0, <2>1, <3>1 DEF SaveH
  <2>2. CASE RemoveExpiredH(origin, sinceSweep, origin', sinceSweep')
    BY <2>0, <2>2 DEF RemoveExpiredH
  <2>3. CASE CacheTickH(origin, sinceSweep, origin', sinceSweep')
    <3>1. ASSUME NEW r \in [record : Records, ttl : (-OverdueCap)..MAX_CACHE_TTL]
          PROVE  Aged(r) \in [record : Records, ttl : (-OverdueCap)..MAX_CACHE_TTL]
      BY DEF Aged
    <3>2. origin' \in [CacheNames -> SUBSET [record : Records, ttl : (-OverdueCap)..MAX_CACHE_TTL]]
      BY <2>3, <3>1 DEF CacheTickH
    <3>3. sinceSweep' \in 0..(OverdueCap + 1)
      BY <2>3 DEF CacheTickH
    <3> QED  BY <2>0, <3>2, <3>3
  <2>4. CASE UNCHANGED cacheHistoryVars
    BY <2>4 DEF cacheHistoryVars
  <2> QED  BY <2>1, <2>2, <2>3, <2>4 DEF CacheHistoryStep
<1> QED  BY <1>1, <1>2, PTL DEF CacheHistorySpec

\* What Get hands out is past its expiry by less than the time since the last
\* sweep, for any answers and any order of saves, sweeps and ticks.
THEOREM StalenessBounded == CacheHistorySpec => []StaleBySweep
<1> USE CacheConstants DEF CacheTypeOK, CacheHistoryTypeOK, Cached, Node
<1>1. CacheHistoryStart(origin, sinceSweep) => StaleBySweep
  BY DEF CacheHistoryStart, CacheInit, StaleBySweep
<1>2. CacheHistoryTypeOK /\ StaleBySweep /\ [CacheHistoryStep(origin, sinceSweep, origin', sinceSweep')]_cacheHistoryVars
        => StaleBySweep'
  <2> SUFFICES ASSUME CacheHistoryTypeOK, StaleBySweep,
                      [CacheHistoryStep(origin, sinceSweep, origin', sinceSweep')]_cacheHistoryVars,
                      NEW n \in CacheNames, m_pRecordTree'[n] # NoNode
               PROVE  m_pRecordTree'[n].ttl > -sinceSweep'
    BY DEF StaleBySweep
  <2>1. ASSUME NEW name \in CacheNames, NEW rrs \in Answers, SaveH(name, rrs, origin, sinceSweep, origin', sinceSweep')
        PROVE  m_pRecordTree'[n].ttl > -sinceSweep'
    <3>1. Save(name, rrs) /\ sinceSweep' = sinceSweep
      BY <2>1 DEF SaveH
    <3>2. CASE UNCHANGED m_pRecordTree
      BY <3>1, <3>2 DEF StaleBySweep
    <3>3. ASSUME NEW min \in 1..MAX_CACHE_TTL,
                 m_pRecordTree' = [m_pRecordTree EXCEPT ![name] =
                    [records |-> {r.record : r \in rrs}, ttl |-> min]]
          PROVE  m_pRecordTree'[n].ttl > -sinceSweep'
      BY <3>1, <3>3 DEF StaleBySweep
    <3> QED  BY <3>1, <3>2, <3>3, SaveKeeps
  <2>2. CASE RemoveExpiredH(origin, sinceSweep, origin', sinceSweep')
    BY <2>2 DEF RemoveExpiredH, RemoveExpired, Expired
  <2>3. CASE CacheTickH(origin, sinceSweep, origin', sinceSweep')
    <3>1. m_pRecordTree[n] # NoNode /\ m_pRecordTree[n] \in Node
      BY <2>3 DEF CacheTickH, CacheTick
    <3>2. /\ m_pRecordTree[n].ttl \in (-OverdueCap)..MAX_CACHE_TTL
          /\ m_pRecordTree[n].ttl > -sinceSweep
      BY <3>1 DEF StaleBySweep
    <3>3. m_pRecordTree'[n].ttl = IF m_pRecordTree[n].ttl > -OverdueCap
                                    THEN m_pRecordTree[n].ttl - 1
                                    ELSE m_pRecordTree[n].ttl
      BY <2>3, <3>1 DEF CacheTickH, CacheTick
    <3> QED  BY <2>3, <3>2, <3>3 DEF CacheTickH
  <2>4. CASE UNCHANGED cacheHistoryVars
    BY <2>4 DEF cacheHistoryVars, StaleBySweep
  <2> QED  BY <2>1, <2>2, <2>3, <2>4 DEF CacheHistoryStep
<1> QED  BY <1>1, <1>2, CacheTypeCorrect, PTL DEF CacheHistorySpec

\* A cached record never outlives the time its own server gave it, nor
\* MAX_CACHE_TTL, for any answers and any order of saves, sweeps and ticks.
THEOREM RecordsNeverLiveLonger == CacheHistorySpec => []NeverLivesLonger
<1> USE CacheConstants DEF CacheTypeOK, CacheHistoryTypeOK, Cached
<1>1. CacheHistoryStart(origin, sinceSweep) => NeverLivesLonger
  BY DEF CacheHistoryStart, CacheInit, NeverLivesLonger
<1>2. CacheHistoryTypeOK /\ NeverLivesLonger /\ [CacheHistoryStep(origin, sinceSweep, origin', sinceSweep')]_cacheHistoryVars
        => NeverLivesLonger'
  <2> SUFFICES ASSUME CacheHistoryTypeOK, NeverLivesLonger,
                      [CacheHistoryStep(origin, sinceSweep, origin', sinceSweep')]_cacheHistoryVars,
                      NEW n \in CacheNames, m_pRecordTree'[n] # NoNode
               PROVE  /\ {r.record : r \in origin'[n]} = m_pRecordTree'[n].records
                      /\ \A r \in origin'[n] : m_pRecordTree'[n].ttl <= r.ttl
    BY DEF NeverLivesLonger
  <2>1. ASSUME NEW name \in CacheNames, NEW rrs \in Answers, SaveH(name, rrs, origin, sinceSweep, origin', sinceSweep')
        PROVE  /\ {r.record : r \in origin'[n]} = m_pRecordTree'[n].records
               /\ \A r \in origin'[n] : m_pRecordTree'[n].ttl <= r.ttl
    <3>1. /\ Save(name, rrs)
          /\ origin' = IF rrs # {} /\ \A r \in rrs : r.ttl > 0
                         THEN [origin EXCEPT ![name] = {Allowed(r) : r \in rrs}]
                         ELSE origin
      BY <2>1 DEF SaveH
    <3>2. CASE UNCHANGED m_pRecordTree /\ ~(rrs # {} /\ \A r \in rrs : r.ttl > 0)
      BY <3>1, <3>2 DEF NeverLivesLonger
    <3>3. ASSUME NEW min \in 1..MAX_CACHE_TTL, rrs # {},
                 \A r \in rrs : r.ttl > 0, \A r \in rrs : min <= r.ttl,
                 m_pRecordTree' = [m_pRecordTree EXCEPT ![name] =
                    [records |-> {r.record : r \in rrs}, ttl |-> min]]
          PROVE  /\ {r.record : r \in origin'[n]} = m_pRecordTree'[n].records
                 /\ \A r \in origin'[n] : m_pRecordTree'[n].ttl <= r.ttl
      <4>1. origin' = [origin EXCEPT ![name] = {Allowed(r) : r \in rrs}]
        BY <3>1, <3>3
      <4>2. CASE n = name
        <5>1. \A r \in rrs : /\ Allowed(r).record = r.record
                             /\ min <= Allowed(r).ttl
          BY <3>3, AllowedType
        <5>2. origin'[n] = {Allowed(r) : r \in rrs}
          BY <4>1, <4>2
        <5>3. {r.record : r \in origin'[n]} = {r.record : r \in rrs}
          BY <5>1, <5>2
        <5>4. /\ m_pRecordTree'[n].records = {r.record : r \in rrs}
              /\ m_pRecordTree'[n].ttl = min
          BY <3>3, <4>2
        <5> QED  BY <5>1, <5>2, <5>3, <5>4
      <4>3. CASE n # name
        BY <3>3, <4>1, <4>3 DEF NeverLivesLonger
      <4> QED  BY <4>2, <4>3
    <3> QED  BY <3>1, <3>2, <3>3, SaveKeeps
  <2>2. CASE RemoveExpiredH(origin, sinceSweep, origin', sinceSweep')
    BY <2>2 DEF RemoveExpiredH, RemoveExpired, NeverLivesLonger
  <2>3. CASE CacheTickH(origin, sinceSweep, origin', sinceSweep')
    <3>1. m_pRecordTree[n] # NoNode /\ m_pRecordTree[n] \in Node
      BY <2>3 DEF CacheTickH, CacheTick
    <3>2. /\ {r.record : r \in origin[n]} = m_pRecordTree[n].records
          /\ \A r \in origin[n] : m_pRecordTree[n].ttl <= r.ttl
      BY <3>1 DEF NeverLivesLonger
    <3>3. origin'[n] = {Aged(r) : r \in origin[n]}
      BY <2>3 DEF CacheTickH
    <3>4. /\ m_pRecordTree'[n].ttl = IF m_pRecordTree[n].ttl > -OverdueCap
                                       THEN m_pRecordTree[n].ttl - 1
                                       ELSE m_pRecordTree[n].ttl
          /\ m_pRecordTree'[n].records = m_pRecordTree[n].records
      BY <2>3, <3>1 DEF CacheTickH, CacheTick, Node
    <3>5. ASSUME NEW r \in origin[n]
          PROVE  /\ Aged(r).record = r.record
                 /\ m_pRecordTree'[n].ttl <= Aged(r).ttl
      <4>1. r \in [record : Records, ttl : (-OverdueCap)..MAX_CACHE_TTL]
        OBVIOUS
      <4>2. m_pRecordTree[n].ttl \in Int /\ m_pRecordTree[n].ttl <= r.ttl
        BY <3>1, <3>2 DEF Node
      <4> QED  BY <3>4, <4>1, <4>2 DEF Aged
    <3>6. {r.record : r \in origin'[n]} = {r.record : r \in origin[n]}
      BY <3>3, <3>5
    <3> QED  BY <3>2, <3>3, <3>4, <3>5, <3>6
  <2>4. CASE UNCHANGED cacheHistoryVars
    BY <2>4 DEF cacheHistoryVars, NeverLivesLonger
  <2> QED  BY <2>1, <2>2, <2>3, <2>4 DEF CacheHistoryStep
<1> QED  BY <1>1, <1>2, CacheTypeCorrect, PTL DEF CacheHistorySpec

=============================================================================

--------------------------- MODULE DnsServer_proofs ---------------------------
(***************************************************************************)
(* What holds of the server for any clients, names, filters, upstream      *)
(* servers and answers: it uses the queue, the upstream servers and the    *)
(* cache as their modules say, so that what is proved of each holds inside *)
(* the server too; and to its clients it is the service of DnsService.     *)
(***************************************************************************)
EXTENDS DnsServer, FiniteSetTheorems, TLAPS

\* The proofs of the parts. What the histories (DnsQueueHistory,
\* DnsCacheHistory) and the network of UpstreamLoad add is in none of the facts
\* that are used here, so that anything may stand for it that their assumptions
\* allow.
TP == INSTANCE DnsTables_proofs WITH
          MaxSince <- MAX_ID, since <- m_NextID, CacheNames <- Names,
          Answers <- {SanitizeRecords(rrs) : rrs \in UNION {Zone[n] : n \in Names}},
          origin <- m_pRecordTree, sinceSweep <- timer
UP == INSTANCE Upstreams_proofs WITH
          MaxDWord <- DELAY_HISTORY_SIZE * (TimeOut + 2) + 1, MaxQWord <- 1,
          NoServer <- 0, MaxSent <- 0, MaxInFlight <- 0,
          inFlight <- {}, outcome <- m_DelayHistory, overlapped <- {}

-----------------------------------------------------------------------------
(***************************************************************************)
(* The turns of the loop, by what they do to the state.                    *)
(***************************************************************************)
Kept == UNCHANGED <<queueVars, upstreamVars, m_pRecordTree, forwarded>>

\* m is sent, or lost because net_udp_send fails.
Sends(m) == out' \in {{}, {m}}

\* The question q is answered at once - with an error, local data or what the
\* cache has - or dropped.
AnswersAtOnce(q) ==
    /\ Kept
    /\ \E m : Sends(m) /\ S!Proper(m) /\ m.isAnswer /\ S!AnswerTo(m) = q
    /\ Settle({q})

\* The question of client c is forwarded to srv under a new id.
Forwards(c, i, name, srv, id) ==
    /\ ~Q!Full /\ Q!Enqueue(i, c, srv, name, id)
    /\ ~isBlackListed(name)
    /\ sendMsg([to |-> srv, m_Id |-> id, name |-> name, isAnswer |-> FALSE,
                responseCode |-> "NO_ERROR", records |-> {}])
    /\ forwarded' = forwarded \cup
           {[m_Id |-> m.m_Id, name |-> m.name, srv |-> m.to] : m \in out'}
    /\ U!MessageSent(srv)
    /\ UNCHANGED m_pRecordTree
    /\ Settle({<<c, i, name>>})

\* A datagram of srv that cannot be served: an error goes back, or nothing.
Rejects(srv) ==
    /\ Kept
    /\ \E m : Sends(m) /\ S!Proper(m) /\ m.to = srv
    /\ Settle({})

\* An answer that belongs to no query takes the query with its id with it.
Strays(id, asks) ==
    /\ Q!Remove(id) /\ out' = {}
    /\ UNCHANGED <<upstreamVars, m_pRecordTree, forwarded>>
    /\ Settle(asks)

\* The answer to the pending query id, with the records that pass the filter.
Delivers(id, rrs) ==
    LET query == m_pQueue[id] IN
    /\ Q!Remove(id)
    /\ U!MessageReceived(query.m_pServer, query.age)
    /\ \E m : /\ sendMsg(m) /\ S!Proper(m) /\ m.isAnswer
              /\ S!AnswerTo(m) = <<query.m_Src, query.m_SrcId, query.m_pName>>
    /\ C!Save(query.m_pName, rrs) \/ UNCHANGED m_pRecordTree
    /\ UNCHANGED forwarded
    /\ Settle({})

\* MAX_ID ids are more than a lap, as the history of the ids assumes.
LEMMA ManyIds == MAX_ID \in Nat /\ (StepHigh - 1) * MAX_ID >= TP!Lap
<1>1. /\ MIN_ID \in Nat /\ MAX_ID \in Nat /\ StepHigh \in Nat /\ WrapHigh \in Nat
      /\ StepHigh - 1 \in Nat /\ StepHigh - 1 >= 1 /\ WrapHigh >= 1
  BY ServerConstants DEF Q!QueueConstants
<1>2. \A k, n \in Nat : k >= 1 => k * n >= n
  OBVIOUS
<1>3. (StepHigh - 1) * MAX_ID >= MAX_ID
  BY <1>1, <1>2
<1>4. \A k, n \in Nat : k * n \in Nat
  OBVIOUS
<1>5. (StepHigh - 1) * MAX_ID \in Nat
  BY <1>1, <1>4
<1>6. TP!Lap \in Int /\ TP!Lap <= MAX_ID
  BY <1>1 DEF TP!Lap
<1> HIDE DEF TP!Lap
<1> QED  BY <1>1, <1>3, <1>5, <1>6

\* The limits of the types, as far as they are used all over.
LEMMA SomeTypes ==
    /\ isRecordTypeSupported("IPv4")
    /\ \A srv \in U!BestServers : srv \in Servers
    /\ \A rrs : \A r \in SanitizeRecords(rrs) : recordFilter(r.record)
  BY DEF isRecordTypeSupported, U!BestServers, U!Servers, Servers, SanitizeRecords

\* A new id is none that an overloaded queue gives.
LEMMA NextId ==
    ASSUME Q!QueueTypeOK, NEW id \in Q!GetNextID(m_NextID)
    PROVE  id \in Q!QueueIds /\ id # INVALID_QUEUE_ID
<1>1. MAX_ID \in Nat /\ (StepHigh - 1) * MAX_ID >= TP!Lap
  BY ManyIds
<1>2. \A old \in TP!QueueIds : \A new \in TP!GetNextID(old) : new \in TP!QueueIds
  BY <1>1, TP!NextIdInRange, ServerConstants DEF Q!QueueConstants
<1>3. Q!QueueIds = TP!QueueIds /\ Q!GetNextID(m_NextID) = TP!GetNextID(m_NextID)
  BY DEF Q!QueueIds, TP!QueueIds, Q!GetNextID, TP!GetNextID, Q!rand, TP!rand
<1>4. id \in Q!QueueIds
  BY <1>2, <1>3 DEF Q!QueueTypeOK
<1> QED  BY <1>4, ServerConstants DEF Q!QueueConstants, Q!QueueIds

\* net_udp_send sends or fails.
LEMMA SendMeansSends ==
    ASSUME NEW m, sendMsg(m)
    PROVE  Sends(m)
  BY ServerConstants DEF sendMsg, net_udp_send, Sends

\* The error answers and those from local data or the cache are proper ones.
LEMMA HandleQueryTurn ==
    ASSUME Q!QueueTypeOK, C!CacheTypeOK, CacheFiltered,
           NEW msg, NEW c \in Clients, msg.name \in Names, msg.m_Id \in SrcIds,
           ~isBlackListed(msg.name), handleQuery(msg, c),
           Settle({<<c, msg.m_Id, msg.name>>})
    PROVE  \/ AnswersAtOnce(<<c, msg.m_Id, msg.name>>)
           \/ \E srv \in U!BestServers, id \in Q!GetNextID(m_NextID) :
                  Forwards(c, msg.m_Id, msg.name, srv, id)
<1> DEFINE q == <<c, msg.m_Id, msg.name>>
<1>0. \E m : S!Proper(m) /\ m.isAnswer /\ S!AnswerTo(m) = q
  <2>1. S!Proper(Response(c, msg.m_Id, msg.name, "NO_ERROR", {}))
    BY DEF S!Proper, Response
  <2> QED  BY <2>1 DEF S!AnswerTo, Response
<1>1. CASE Dropped
  BY <1>0, <1>1 DEF Dropped, AnswersAtOnce, Kept, Sends
<1>2. CASE answerWithLocalData(msg, c)
  <2> DEFINE rs == IF msg.name \in LocalNames
                     THEN {[name |-> msg.name, type |-> "IPv4"]} ELSE {}
             m == Response(c, msg.m_Id, msg.name, "NO_ERROR", rs)
  <2>1. rs \subseteq {record \in Records : recordFilter(record)}
    BY SomeTypes DEF Records, RecordTypes, recordFilter
  <2>2. S!Proper(m) /\ m.isAnswer /\ S!AnswerTo(m) = q
    BY <2>1 DEF S!Proper, Response, S!AnswerTo
  <2>3. Sends(m) /\ Kept
    BY <1>2, SendMeansSends DEF answerWithLocalData, Kept
  <2> QED  BY <2>2, <2>3 DEF AnswersAtOnce
<1>3. CASE C!GetNode(msg.name) # NoNode /\ answerFromCache(msg, c)
  <2> DEFINE m == Response(c, msg.m_Id, msg.name, "NO_ERROR", C!GetNode(msg.name).records)
  <2>1. m_pRecordTree[msg.name] \in C!Node /\ msg.name \in C!Cached
    BY <1>3 DEF C!GetNode, C!CacheTypeOK, C!Cached
  <2>2. C!GetNode(msg.name).records \subseteq {record \in Records : recordFilter(record)}
    BY <2>1 DEF C!GetNode, C!Node, CacheFiltered
  <2>3. S!Proper(m) /\ m.isAnswer /\ S!AnswerTo(m) = q
    BY <2>2 DEF S!Proper, Response, S!AnswerTo
  <2>4. Sends(m) /\ Kept
    BY <1>3, SendMeansSends DEF answerFromCache, Kept
  <2> QED  BY <2>3, <2>4 DEF AnswersAtOnce
<1>4. ASSUME NEW srv \in U!BestServers, forwardMsg(msg, c, srv)
      PROVE  \/ AnswersAtOnce(q)
             \/ \E id \in Q!GetNextID(m_NextID) : Forwards(c, msg.m_Id, msg.name, srv, id)
  <2>1. PICK id \in Q!EnqueueResults :
            /\ Q!Enqueue(msg.m_Id, c, srv, msg.name, id)
            /\ IF id # INVALID_QUEUE_ID
                 THEN /\ sendMsg([to |-> srv, m_Id |-> id, name |-> msg.name,
                                  isAnswer |-> FALSE, responseCode |-> "NO_ERROR",
                                  records |-> {}])
                      /\ forwarded' = forwarded \cup
                             {[m_Id |-> m.m_Id, name |-> m.name, srv |-> m.to] :
                                 m \in out'}
                      /\ U!MessageSent(srv)
                 ELSE out' = {} /\ UNCHANGED <<upstreamVars, forwarded>>
            /\ UNCHANGED m_pRecordTree
    BY <1>4 DEF forwardMsg
  <2>2. CASE Q!Full
    <3>1. id = INVALID_QUEUE_ID /\ UNCHANGED queueVars
      BY <2>1, <2>2 DEF Q!EnqueueResults, Q!Enqueue, Q!queueVars, queueVars
    <3>2. Kept /\ out' = {}
      BY <2>1, <3>1 DEF Kept
    <3> QED  BY <1>0, <3>2 DEF AnswersAtOnce, Sends
  <2>3. CASE ~Q!Full
    <3>1. id \in Q!GetNextID(m_NextID) /\ id # INVALID_QUEUE_ID
      BY <2>3, NextId DEF Q!EnqueueResults
    <3>2. Forwards(c, msg.m_Id, msg.name, srv, id)
      BY <2>1, <2>3, <3>1 DEF Forwards
    <3> QED  BY <3>1, <3>2
  <2> QED  BY <2>2, <2>3
<1> QED  BY <1>1, <1>2, <1>3, <1>4 DEF handleQuery, handleIPv4Query

\* An error, like any answer with no records, may go to anyone.
LEMMA ErrorTurn ==
    ASSUME NEW msg, NEW to, NEW rcode, answerWithError(msg, to, rcode)
    PROVE  /\ Kept
           /\ \E m : /\ Sends(m) /\ S!Proper(m) /\ m.isAnswer /\ m.to = to
                     /\ S!AnswerTo(m) = <<to, msg.m_Id, msg.name>>
<1> DEFINE m == Response(to, msg.m_Id, msg.name, rcode, {})
<1>1. Sends(m) /\ Kept
  BY SendMeansSends DEF answerWithError, Kept
<1>2. S!Proper(m) /\ m.isAnswer /\ m.to = to
        /\ S!AnswerTo(m) = <<to, msg.m_Id, msg.name>>
  BY DEF S!Proper, Response, S!AnswerTo
<1> QED  BY <1>1, <1>2

\* A datagram of a client is answered at once, forwarded, or comes to nothing.
LEMMA ClientTurn ==
    ASSUME Q!QueueTypeOK, C!CacheTypeOK, CacheFiltered,
           NEW c \in Clients, NEW i \in SrcIds, NEW name \in Names, NEW h \in Headers,
           FromClient(c, i, name, h)
    PROVE  \/ AnswersAtOnce(<<c, i, name>>)
           \/ \E srv \in U!BestServers, id \in Q!GetNextID(m_NextID) :
                  Forwards(c, i, name, srv, id)
           \/ h.isAnswer /\ Strays(i, {<<c, i, name>>})
<1> DEFINE msg == [h |-> h, m_Id |-> i, name |-> name, records |-> {}]
<1>1. /\ handleMsg(msg, c) /\ Settle({<<c, i, name>>})
      /\ msg.h = h /\ msg.m_Id = i /\ msg.name = name
  BY DEF FromClient
<1> HIDE DEF msg
<1>2. CASE Dropped
  <2>1. S!Proper(Response(c, i, name, "NO_ERROR", {}))
    BY DEF S!Proper, Response
  <2>2. \E m : S!Proper(m) /\ m.isAnswer /\ S!AnswerTo(m) = <<c, i, name>>
    BY <2>1 DEF S!AnswerTo, Response
  <2> QED  BY <1>1, <1>2, <2>2 DEF Dropped, AnswersAtOnce, Kept, Sends
<1>3. CASE answerWithError(msg, c, ErrorCode(msg))
  BY <1>1, <1>3, ErrorTurn DEF AnswersAtOnce
<1>4. CASE ErrorCode(msg) = "NO_ERROR" /\ handleQuery(msg, c)
  <2>1. ~isBlackListed(msg.name)
    BY <1>4 DEF ErrorCode
  <2> QED  BY <1>1, <1>4, <2>1, HandleQueryTurn
<1>5. CASE h.isAnswer /\ handleAnswer(msg, c)
  <2>1. ~Matches(Q!Get(i), msg, c)
    <3> SUFFICES ASSUME Q!Get(i) # NoQuery PROVE c # Q!Get(i).m_pServer
      BY DEF Matches
    <3>1. Q!Get(i) \in Q!PendingQuery
      BY DEF Q!Get, Q!QueueTypeOK
    <3> QED  BY <3>1, ServerConstants DEF Q!PendingQuery
  <2> QED  BY <1>1, <1>5, <2>1 DEF handleAnswer, Strays
<1> QED  BY <1>1, <1>2, <1>3, <1>4, <1>5 DEF handleMsg

\* A datagram of an upstream server is turned down, comes to nothing, or is the
\* answer to the pending query whose id it carries.
LEMMA ServerTurn ==
    ASSUME TypeOK, NEW f \in forwarded \cup Unasked, NEW h \in AnswerHeaders,
           NEW rrs \in Zone[f.name], FromServer(f, h, rrs)
    PROVE  \/ Rejects(f.srv)
           \/ /\ Strays(f.m_Id, {})
              /\ f.m_Id \in Q!Pending => \/ f.srv # m_pQueue[f.m_Id].m_pServer
                                         \/ f.name # m_pQueue[f.m_Id].m_pName
           \/ f.m_Id \in Q!Pending /\ Delivers(f.m_Id, SanitizeRecords(rrs))
<1> DEFINE msg == [h |-> h, m_Id |-> f.m_Id, name |-> f.name, records |-> rrs]
           query == Q!Get(f.m_Id)
<1>1. /\ handleMsg(msg, f.srv) /\ Settle({})
      /\ msg.h = h /\ msg.m_Id = f.m_Id /\ msg.name = f.name /\ msg.records = rrs
  BY DEF FromServer
<1>2. f.name \in Names /\ f.srv \in Servers /\ h.isAnswer
  BY ServerConstants DEF TypeOK
<1>3. /\ f.m_Id \in Q!Pending <=> query # NoQuery
      /\ f.m_Id \in Q!Pending => query = m_pQueue[f.m_Id]
  BY DEF Q!Get, Q!Pending
<1> HIDE DEF msg, query
<1>4. CASE Dropped
  <2>1. S!Proper(Response(f.srv, f.m_Id, f.name, "NO_ERROR", {}))
    BY DEF S!Proper, Response
  <2>2. \E m : S!Proper(m) /\ m.to = f.srv
    BY <2>1 DEF Response
  <2> QED  BY <1>1, <1>4, <2>2 DEF Dropped, Rejects, Kept, Sends
<1>5. CASE answerWithError(msg, f.srv, ErrorCode(msg))
  BY <1>1, <1>5, ErrorTurn DEF Rejects
<1>6. CASE handleAnswer(msg, f.srv) /\ ~Matches(query, msg, f.srv)
  <2>1. Strays(f.m_Id, {})
    BY <1>1, <1>6 DEF handleAnswer, Strays, query
  <2> QED  BY <2>1, <1>1, <1>3, <1>6 DEF Matches
<1>7. CASE handleAnswer(msg, f.srv) /\ Matches(query, msg, f.srv)
  <2> DEFINE m == Response(query.m_Src, query.m_SrcId, f.name, h.responseCode,
                           {r.record : r \in SanitizeRecords(rrs)})
  <2>1. f.m_Id \in Q!Pending /\ f.srv = query.m_pServer /\ f.name = query.m_pName
    BY <1>1, <1>3, <1>7 DEF Matches
  <2>2. /\ Q!Remove(f.m_Id) /\ U!MessageReceived(query.m_pServer, query.age)
        /\ sendMsg(m) /\ UNCHANGED forwarded
        /\ C!Save(f.name, SanitizeRecords(rrs)) \/ UNCHANGED m_pRecordTree
    BY <1>1, <1>7 DEF handleAnswer, query
  <2>3. \A r \in SanitizeRecords(rrs) : r.record \in Records /\ recordFilter(r.record)
    <3>1. Zone[f.name] \subseteq SUBSET [record : Records, ttl : 0..MaxTtl]
      BY <1>2, ServerConstants
    <3> QED  BY <3>1 DEF SanitizeRecords
  <2>4. S!Proper(m) /\ m.isAnswer
          /\ S!AnswerTo(m) = <<query.m_Src, query.m_SrcId, query.m_pName>>
    BY <2>1, <2>3 DEF S!Proper, Response, S!AnswerTo
  <2> QED  BY <1>1, <1>3, <2>1, <2>2, <2>4 DEF Delivers
<1> QED  BY <1>1, <1>2, <1>4, <1>5, <1>6, <1>7 DEF handleMsg, query

\* All that a step can be.
LEMMA Turns ==
    ASSUME TypeOK, CacheFiltered, [Next]_vars
    PROVE  \/ \E q \in Questions : AnswersAtOnce(q)
           \/ \E c \in Clients, i \in SrcIds, name \in Names,
                 srv \in U!BestServers, id \in Q!GetNextID(m_NextID) :
                  Forwards(c, i, name, srv, id)
           \/ \E id : Strays(id, {}) \/ \E q \in Questions : Strays(id, {q})
           \/ \E srv \in Servers : Rejects(srv)
           \/ \E id \in Q!Pending, rrs \in UNION {Zone[n] : n \in Names} :
                  Delivers(id, SanitizeRecords(rrs))
           \/ Idle \/ Tick \/ UNCHANGED vars
<1>1. ASSUME NEW c \in Clients, NEW i \in SrcIds, NEW name \in Names,
             NEW h \in Headers, FromClient(c, i, name, h)
      PROVE  \/ \E q \in Questions : AnswersAtOnce(q)
             \/ \E srv \in U!BestServers, id \in Q!GetNextID(m_NextID) :
                    Forwards(c, i, name, srv, id)
             \/ \E q \in Questions : Strays(i, {q})
  BY <1>1, ClientTurn DEF TypeOK, Questions
<1>2. ASSUME NEW f \in forwarded \cup Unasked, NEW h \in AnswerHeaders,
             NEW rrs \in Zone[f.name], FromServer(f, h, rrs)
      PROVE  \/ \E srv \in Servers : Rejects(srv)
             \/ Strays(f.m_Id, {})
             \/ \E id \in Q!Pending, r \in UNION {Zone[n] : n \in Names} :
                    Delivers(id, SanitizeRecords(r))
  <2>1. f.srv \in Servers /\ f.name \in Names
    BY ServerConstants DEF TypeOK
  <2>2. rrs \in UNION {Zone[n] : n \in Names}
    BY <2>1
  <2> QED  BY <1>2, <2>1, <2>2, ServerTurn
<1> QED  BY <1>1, <1>2 DEF Next, ClientNext, ServerNext

-----------------------------------------------------------------------------
\* The queue is used as CDnsQueue is meant to be: whatever a step of the server
\* is, to the queue it is one of its operations, or none.
LEMMA QueueUsed ==
    ASSUME TypeOK, CacheFiltered, [Next]_vars
    PROVE  [Q!QueueNext]_(Q!queueVars)
<1> USE DEF Q!queueVars, queueVars
<1>1. ASSUME NEW q, AnswersAtOnce(q) PROVE UNCHANGED queueVars
  BY <1>1 DEF AnswersAtOnce, Kept
<1>2. ASSUME NEW c \in Clients, NEW i \in SrcIds, NEW name \in Names,
             NEW srv \in U!BestServers, NEW id \in Q!GetNextID(m_NextID),
             Forwards(c, i, name, srv, id)
      PROVE  Q!QueueNext
  <2>1. id \in Q!EnqueueResults /\ srv \in Servers
    BY <1>2, SomeTypes DEF Forwards, Q!EnqueueResults
  <2> QED  BY <1>2, <2>1 DEF Forwards, Q!QueueNext
<1>3. ASSUME NEW id, Q!Remove(id) PROVE [Q!QueueNext]_(Q!queueVars)
  <2>1. CASE id \in Q!Pending
    BY <1>3, <2>1 DEF Q!QueueNext
  <2>2. CASE id \notin Q!Pending
    BY <1>3, <2>2 DEF Q!Remove, Q!Pending, TypeOK, Q!QueueTypeOK
  <2> QED  BY <2>1, <2>2
<1>4. ASSUME NEW srv, Rejects(srv) PROVE UNCHANGED queueVars
  BY <1>4 DEF Rejects, Kept
<1>5. CASE Idle
  BY <1>5 DEF Idle, Q!QueueNext
<1>6. CASE Tick
  BY <1>6 DEF Tick, Q!QueueNext
<1>7. CASE UNCHANGED vars
  BY <1>7 DEF vars
<1> QED  BY <1>1, <1>2, <1>3, <1>4, <1>5, <1>6, <1>7, Turns DEF Strays, Delivers

\* The cache is used as CCache is meant to be.
LEMMA CacheUsed ==
    ASSUME TypeOK, CacheFiltered, [Next]_vars
    PROVE  [C!CacheNext]_m_pRecordTree
<1>1. ASSUME NEW q, AnswersAtOnce(q) PROVE UNCHANGED m_pRecordTree
  BY <1>1 DEF AnswersAtOnce, Kept
<1>2. ASSUME NEW id \in Q!Pending, NEW rrs \in UNION {Zone[n] : n \in Names},
             Delivers(id, SanitizeRecords(rrs))
      PROVE  [C!CacheNext]_m_pRecordTree
  <2>1. m_pQueue[id].m_pName \in Names
    BY DEF TypeOK, Q!QueueTypeOK, Q!Pending, Q!PendingQuery
  <2> QED  BY <1>2, <2>1 DEF Delivers, C!CacheNext
<1>3. CASE Idle
  BY <1>3 DEF Idle, C!CacheNext
<1>4. CASE Tick
  BY <1>4 DEF Tick, C!CacheNext
<1>5. CASE UNCHANGED vars
  BY <1>5 DEF vars
<1> QED  BY <1>1, <1>2, <1>3, <1>4, <1>5, Turns DEF Forwards, Strays, Rejects, Kept

\* Why a delay is only recorded where a message was sent: the servers of the
\* pending queries were sent one.
SentBefore == \A id \in Q!Pending : m_Sent[m_pQueue[id].m_pServer] > 0

\* The upstream servers are used as Upstreams assumes.
LEMMA UpstreamsUsedStep ==
    ASSUME TypeOK, CacheFiltered, SentBefore, [Next]_vars
    PROVE  [U!UpstreamNext]_(U!upstreamVars)
<1> USE DEF U!upstreamVars, upstreamVars
<1>1. ASSUME NEW q, AnswersAtOnce(q) PROVE UNCHANGED upstreamVars
  BY <1>1 DEF AnswersAtOnce, Kept
<1>2. ASSUME NEW id \in Q!Pending, NEW rrs, Delivers(id, rrs)
      PROVE  U!UpstreamNext
  <2>1. m_pQueue[id] \in Q!PendingQuery
    BY DEF TypeOK, Q!QueueTypeOK, Q!Pending
  <2>2. m_pQueue[id].m_pServer \in U!Servers /\ m_pQueue[id].age \in U!Delays
    BY <2>1 DEF Q!PendingQuery, U!Servers, Servers, U!Delays
  <2>3. m_Sent[m_pQueue[id].m_pServer] > 0
    BY DEF SentBefore
  <2> QED  BY <1>2, <2>2, <2>3 DEF Delivers, U!UpstreamNext
<1>3. ASSUME NEW c, NEW i, NEW name, NEW srv \in U!BestServers, NEW id,
             Forwards(c, i, name, srv, id)
      PROVE  U!UpstreamNext
  BY <1>3 DEF Forwards, U!UpstreamNext
<1>4. CASE Idle \/ Tick \/ UNCHANGED vars
  BY <1>4 DEF Idle, Tick, vars
<1> QED  BY <1>1, <1>2, <1>3, <1>4, Turns DEF Strays, Rejects, Kept

-----------------------------------------------------------------------------
(***************************************************************************)
(* The invariant. Each part needs the others: an answer is owed because    *)
(* its query is pending (OwedCoversPending), it is recorded for a server   *)
(* because one was sent to (SentBefore), what comes from the cache may be  *)
(* shown because it was filtered (CacheFiltered).                          *)
(***************************************************************************)
PendingOf(q) ==
    {id \in Q!Pending :
        <<m_pQueue[id].m_Src, m_pQueue[id].m_SrcId, m_pQueue[id].m_pName>> = q}

ServerInv == TypeOK /\ SentBefore /\ CacheFiltered /\ OwedCoversPending

\* The pending queries that ask q can be counted, before a step and after it.
LEMMA PendingOfFinite ==
    ASSUME NEW q
    PROVE  /\ IsFiniteSet(PendingOf(q)) /\ Cardinality(PendingOf(q)) \in Nat
           /\ IsFiniteSet(PendingOf(q)') /\ Cardinality(PendingOf(q)') \in Nat
<1>1. IsFiniteSet(Q!QueueIds)
  BY FS_Interval, ServerConstants DEF Q!QueueIds, Q!QueueConstants
<1>2. PendingOf(q) \subseteq Q!QueueIds /\ PendingOf(q)' \subseteq Q!QueueIds
  BY DEF PendingOf, Q!Pending, Q!QueueIds
<1> QED  BY <1>1, <1>2, FS_Subset, FS_CardinalityType

\* What Settle does to owed when at most one datagram leaves.
LEMMA Settled ==
    ASSUME owed \in [Questions -> Int], NEW asks, Settle(asks),
           out' = {} \/ \E m : out' = {m}
    PROVE  /\ owed' \in [Questions -> Int]
           /\ out' = {} => \A q \in Questions :
                  owed'[q] = owed[q] + (IF q \in asks THEN 1 ELSE 0)
           /\ \A m : out' = {m} => \A q \in Questions :
                  owed'[q] = owed[q] + (IF q \in asks THEN 1 ELSE 0)
                                     - (IF S!AnswerTo(m) = q THEN 1 ELSE 0)
<1> DEFINE answers(p) == {m \in out' : <<m.to, m.m_Id, m.name>> = p}
<1>1. owed' = [p \in Questions |-> owed[p] + (IF p \in asks THEN 1 ELSE 0)
                                           - Cardinality(answers(p))]
  BY DEF Settle
<1>2. ASSUME out' = {}, NEW p \in Questions PROVE Cardinality(answers(p)) = 0
  <2>1. answers(p) = {}
    BY <1>2
  <2> QED  BY <2>1, FS_EmptySet
<1>3. ASSUME NEW m, out' = {m}, NEW p \in Questions
      PROVE  Cardinality(answers(p)) = IF S!AnswerTo(m) = p THEN 1 ELSE 0
  <2>1. answers(p) = IF S!AnswerTo(m) = p THEN {m} ELSE {}
    BY <1>3 DEF S!AnswerTo
  <2> QED  BY <2>1, FS_EmptySet, FS_Singleton
<1> HIDE DEF answers
<1>4. ASSUME NEW p \in Questions PROVE Cardinality(answers(p)) \in Int
  <2>1. CASE out' = {}
    BY <1>2, <2>1
  <2>2. ASSUME NEW m, out' = {m} PROVE Cardinality(answers(p)) \in Int
    BY <1>3, <2>2
  <2> QED  BY <2>1, <2>2
<1> QED  BY <1>1, <1>2, <1>3, <1>4

\* The same for a datagram that may be lost.
LEMMA SettledBySending ==
    ASSUME owed \in [Questions -> Int], NEW asks, Settle(asks), NEW m, Sends(m)
    PROVE  /\ owed' \in [Questions -> Int]
           /\ \A q \in Questions :
                  LET asked1 == owed[q] + (IF q \in asks THEN 1 ELSE 0)
                  IN  \/ owed'[q] = asked1
                      \/ S!AnswerTo(m) = q /\ owed'[q] = asked1 - 1
<1>1. CASE out' = {}
  BY <1>1, Settled
<1>2. CASE out' = {m}
  <2>1. /\ owed' \in [Questions -> Int]
        /\ \A q \in Questions :
               owed'[q] = owed[q] + (IF q \in asks THEN 1 ELSE 0)
                                  - (IF S!AnswerTo(m) = q THEN 1 ELSE 0)
    BY <1>2, Settled
  <2> HIDE DEF S!AnswerTo
  <2> QED  BY <2>1
<1> QED  BY <1>1, <1>2 DEF Sends

\* What owed becomes covers what is pending, if no query was added that no one
\* asked for, and one left for every answer.
LEMMA FewerPending ==
    ASSUME NEW q, PendingOf(q)' \subseteq PendingOf(q)
    PROVE  /\ Cardinality(PendingOf(q)') <= Cardinality(PendingOf(q))
           /\ \A id \in PendingOf(q) \ PendingOf(q)' :
                  Cardinality(PendingOf(q)') <= Cardinality(PendingOf(q)) - 1
<1>1. IsFiniteSet(PendingOf(q)) /\ Cardinality(PendingOf(q)) \in Nat
  BY PendingOfFinite
<1> HIDE DEF PendingOf
<1>2. Cardinality(PendingOf(q)') <= Cardinality(PendingOf(q))
  BY <1>1, FS_Subset
<1>3. ASSUME NEW id \in PendingOf(q) \ PendingOf(q)'
      PROVE  Cardinality(PendingOf(q)') <= Cardinality(PendingOf(q)) - 1
  <2>1. /\ IsFiniteSet(PendingOf(q) \ {id})
        /\ Cardinality(PendingOf(q) \ {id}) = Cardinality(PendingOf(q)) - 1
    BY <1>1, FS_RemoveElement
  <2>2. PendingOf(q)' \subseteq PendingOf(q) \ {id}
    BY <1>3
  <2> QED  BY <2>1, <2>2, FS_Subset
<1> QED  BY <1>2, <1>3

\* If at most the id drawn now is new among them, there is at most one more.
LEMMA OneMorePending ==
    ASSUME NEW q, NEW id, PendingOf(q)' \subseteq PendingOf(q) \cup {id}
    PROVE  Cardinality(PendingOf(q)') <= Cardinality(PendingOf(q)) + 1
<1>1. IsFiniteSet(PendingOf(q)) /\ Cardinality(PendingOf(q)) \in Nat
  BY PendingOfFinite
<1> HIDE DEF PendingOf
<1>2. /\ IsFiniteSet(PendingOf(q) \cup {id})
      /\ Cardinality(PendingOf(q) \cup {id}) = Cardinality(PendingOf(q))
           \/ Cardinality(PendingOf(q) \cup {id}) = Cardinality(PendingOf(q)) + 1
  BY <1>1, FS_AddElement, Zenon
<1>3. Cardinality(PendingOf(q)') <= Cardinality(PendingOf(q) \cup {id})
  BY <1>2, FS_Subset
<1>4. IsFiniteSet(PendingOf(q)')
  BY <1>2, FS_Subset
<1>5. Cardinality(PendingOf(q)') \in Nat
  BY <1>4, FS_CardinalityType
<1> QED  BY <1>1, <1>2, <1>3, <1>5

\* The questions that are open cover the pending queries again after each step.
LEMMA OwedStep ==
    ASSUME ServerInv, [Next]_vars
    PROVE  OwedCoversPending' /\ owed' \in [Questions -> Int]
<1> DEFINE Fits == /\ owed' \in [Questions -> Int]
                   /\ \A q \in Questions : Cardinality(PendingOf(q)') <= owed'[q]
<1>0. /\ owed \in [Questions -> Int] /\ TypeOK /\ CacheFiltered
      /\ \A q \in Questions : Cardinality(PendingOf(q)) <= owed[q]
      /\ \A q : Cardinality(PendingOf(q)) \in Nat
      /\ \A srv \in Servers : srv \notin Clients
  BY PendingOfFinite, ServerConstants DEF ServerInv, TypeOK, OwedCoversPending, PendingOf
<1>1. ASSUME NEW q \in Questions, AnswersAtOnce(q) PROVE Fits
  <2>1. PICK m : Sends(m) /\ S!AnswerTo(m) = q
    BY <1>1 DEF AnswersAtOnce
  <2>2. UNCHANGED m_pQueue /\ Settle({q})
    BY <1>1 DEF AnswersAtOnce, Kept, queueVars
  <2>3. \A p : PendingOf(p)' = PendingOf(p)
    BY <2>2 DEF PendingOf, Q!Pending
  <2> QED  BY <1>0, <2>1, <2>2, <2>3, Settled DEF Sends
<1>2. ASSUME NEW c \in Clients, NEW i \in SrcIds, NEW name \in Names,
             NEW srv \in U!BestServers, NEW id \in Q!GetNextID(m_NextID),
             Forwards(c, i, name, srv, id)
      PROVE  Fits
  <2> DEFINE p == <<c, i, name>>
             m == [to |-> srv, m_Id |-> id, name |-> name, isAnswer |-> FALSE,
                   responseCode |-> "NO_ERROR", records |-> {}]
  <2>1. Sends(m) /\ Settle({p})
    BY <1>2, SendMeansSends DEF Forwards
  <2>2. S!AnswerTo(m) \notin Questions
    BY <1>0, SomeTypes DEF S!AnswerTo, Questions
  <2> HIDE DEF m, p
  <2>3. owed' \in [Questions -> Int]
        /\ \A q \in Questions : owed'[q] = owed[q] + (IF q \in {p} THEN 1 ELSE 0)
    BY <1>0, <2>1, <2>2, SettledBySending
  <2> USE DEF p
  <2>4. \A q \in Questions : PendingOf(q)' \subseteq
            PendingOf(q) \cup (IF q = p THEN {id} ELSE {})
    <3>1. m_pQueue' = [m_pQueue EXCEPT ![id] =
              [m_SrcId |-> i, m_Src |-> c, m_pServer |-> srv, m_pName |-> name, age |-> 0]]
      BY <1>2 DEF Forwards, Q!Enqueue
    <3>2. id \in Q!QueueIds /\ DOMAIN m_pQueue = Q!QueueIds
      BY <1>0, NextId DEF TypeOK, Q!QueueTypeOK
    <3> QED  BY <3>1, <3>2 DEF PendingOf, Q!Pending
  <2>5. ASSUME NEW q \in Questions PROVE Cardinality(PendingOf(q)') <= owed'[q]
    <3>1. CASE q = p
      <4>1. Cardinality(PendingOf(q)') <= Cardinality(PendingOf(q)) + 1
        BY <2>4, <3>1, OneMorePending
      <4>2. owed'[q] = owed[q] + 1 /\ Cardinality(PendingOf(q)) <= owed[q] /\ owed[q] \in Int
        BY <1>0, <2>3, <3>1
      <4> QED  BY <4>1, <4>2, PendingOfFinite
    <3>2. CASE q # p
      <4>1. Cardinality(PendingOf(q)') <= Cardinality(PendingOf(q))
        BY <2>4, <3>2, FewerPending
      <4>2. owed'[q] = owed[q] /\ Cardinality(PendingOf(q)) <= owed[q] /\ owed[q] \in Int
        BY <1>0, <2>3, <3>2
      <4> QED  BY <4>1, <4>2, PendingOfFinite
    <3> QED  BY <3>1, <3>2
  <2> QED  BY <2>3, <2>5
<1>3. ASSUME NEW id, NEW asks, Strays(id, asks) PROVE Fits
  <2>1. \A q : PendingOf(q)' \subseteq PendingOf(q)
    BY <1>3 DEF Strays, Q!Remove, PendingOf, Q!Pending
  <2>2. owed' \in [Questions -> Int] /\ \A q \in Questions : owed'[q] >= owed[q]
    BY <1>0, <1>3, Settled DEF Strays
  <2> QED  BY <1>0, <2>1, <2>2, FewerPending, PendingOfFinite
<1>4. ASSUME NEW srv \in Servers, Rejects(srv) PROVE Fits
  <2>1. PICK m : Sends(m) /\ m.to = srv
    BY <1>4 DEF Rejects
  <2>2. S!AnswerTo(m) \notin Questions
    BY <1>0, <2>1 DEF S!AnswerTo, Questions
  <2>3. UNCHANGED m_pQueue /\ Settle({})
    BY <1>4 DEF Rejects, Kept, queueVars
  <2>4. \A p : PendingOf(p)' = PendingOf(p)
    BY <2>3 DEF PendingOf, Q!Pending
  <2> QED  BY <1>0, <2>1, <2>2, <2>3, <2>4, Settled DEF Sends
<1>5. ASSUME NEW id \in Q!Pending, NEW rrs, Delivers(id, rrs) PROVE Fits
  <2>0. PICK p : p = <<m_pQueue[id].m_Src, m_pQueue[id].m_SrcId, m_pQueue[id].m_pName>>
    OBVIOUS
  <2>1. PICK m : Sends(m) /\ S!AnswerTo(m) = p
    BY <1>5, <2>0, SendMeansSends DEF Delivers
  <2>2. Q!Remove(id) /\ Settle({})
    BY <1>5 DEF Delivers
  <2>3. /\ \A q : PendingOf(q)' \subseteq PendingOf(q)
        /\ id \in PendingOf(p) \ PendingOf(p)'
    BY <2>0, <2>2 DEF Q!Remove, PendingOf, Q!Pending
  <2>4. owed' \in [Questions -> Int]
        /\ \A q \in Questions : owed'[q] >= owed[q] - (IF q = p THEN 1 ELSE 0)
    <3>1. \A q \in Questions : owed'[q] = owed[q] \/ (p = q /\ owed'[q] = owed[q] - 1)
      BY <1>0, <2>1, <2>2, SettledBySending
    <3>2. owed' \in [Questions -> Int] /\ owed \in [Questions -> Int]
      BY <1>0, <2>1, <2>2, SettledBySending
    <3> QED  BY <3>1, <3>2
  <2>5. ASSUME NEW q \in Questions PROVE Cardinality(PendingOf(q)') <= owed'[q]
    <3>1. CASE q = p
      <4>1. Cardinality(PendingOf(q)') <= Cardinality(PendingOf(q)) - 1
        BY <2>3, <3>1, FewerPending
      <4>2. owed'[q] >= owed[q] - 1 /\ Cardinality(PendingOf(q)) <= owed[q]
              /\ owed[q] \in Int /\ owed'[q] \in Int
        BY <1>0, <2>4, <3>1
      <4> QED  BY <4>1, <4>2, PendingOfFinite
    <3>2. CASE q # p
      <4>1. Cardinality(PendingOf(q)') <= Cardinality(PendingOf(q))
        BY <2>3, FewerPending
      <4>2. owed'[q] >= owed[q] /\ Cardinality(PendingOf(q)) <= owed[q]
              /\ owed[q] \in Int /\ owed'[q] \in Int
        BY <1>0, <2>4, <3>2
      <4> QED  BY <4>1, <4>2, PendingOfFinite
    <3> QED  BY <3>1, <3>2
  <2> QED  BY <2>4, <2>5
<1>6. ASSUME Idle \/ Tick \/ UNCHANGED vars PROVE Fits
  <2>1. UNCHANGED owed
    BY <1>6 DEF Idle, Tick, vars
  <2>2. \A q : PendingOf(q)' \subseteq PendingOf(q)
    <3>1. CASE Idle
      BY <3>1 DEF Idle, Q!ForEachExpired, queueVars, PendingOf, Q!Pending
    <3>2. CASE Tick
      <4>1. ASSUME NEW id \in Q!QueueIds
            PROVE  /\ m_pQueue'[id] # NoQuery => m_pQueue[id] # NoQuery
                   /\ m_pQueue[id] # NoQuery =>
                        /\ m_pQueue'[id].m_Src = m_pQueue[id].m_Src
                        /\ m_pQueue'[id].m_SrcId = m_pQueue[id].m_SrcId
                        /\ m_pQueue'[id].m_pName = m_pQueue[id].m_pName
        <5>1. m_pQueue[id] \in Q!PendingQuery \cup {NoQuery}
          BY <1>0 DEF TypeOK, Q!QueueTypeOK
        <5> QED  BY <3>2, <5>1 DEF Tick, Q!QueueTick, Q!Pending, Q!PendingQuery
      <4> QED  BY <4>1 DEF PendingOf, Q!Pending
    <3>3. CASE UNCHANGED vars
      BY <3>3 DEF vars, queueVars, PendingOf, Q!Pending
    <3> QED  BY <1>6, <3>1, <3>2, <3>3
  <2> QED  BY <1>0, <2>1, <2>2, FewerPending, PendingOfFinite
<1>7. Fits
  BY <1>0, <1>1, <1>2, <1>3, <1>4, <1>5, <1>6, Turns
<1> QED  BY <1>7 DEF OwedCoversPending, PendingOf


\* What a step leaves in the queue was there, or was just forwarded.
LEMMA QueueStep ==
    ASSUME TypeOK, CacheFiltered, [Next]_vars, NEW id \in Q!QueueIds,
           m_pQueue'[id] # NoQuery
    PROVE  \/ /\ id \in Q!Pending
              /\ m_pQueue'[id].m_pServer = m_pQueue[id].m_pServer
              /\ m_pQueue'[id].m_Src = m_pQueue[id].m_Src
              /\ m_pQueue'[id].m_SrcId = m_pQueue[id].m_SrcId
              /\ m_pQueue'[id].m_pName = m_pQueue[id].m_pName
           \/ \E c \in Clients, i \in SrcIds, name \in Names, srv \in U!BestServers :
                 /\ Forwards(c, i, name, srv, id)
                 /\ id \in Q!GetNextID(m_NextID)
                 /\ m_pQueue'[id] = [m_SrcId |-> i, m_Src |-> c, m_pServer |-> srv,
                                     m_pName |-> name, age |-> 0]
<1> DEFINE Stays == /\ id \in Q!Pending
                    /\ m_pQueue'[id].m_pServer = m_pQueue[id].m_pServer
                    /\ m_pQueue'[id].m_Src = m_pQueue[id].m_Src
                    /\ m_pQueue'[id].m_SrcId = m_pQueue[id].m_SrcId
                    /\ m_pQueue'[id].m_pName = m_pQueue[id].m_pName
<1>1. /\ DOMAIN m_pQueue = Q!QueueIds
      /\ m_pQueue[id] \in Q!PendingQuery \cup {NoQuery}
  BY DEF TypeOK, Q!QueueTypeOK
<1>2. ASSUME UNCHANGED m_pQueue PROVE Stays
  BY <1>2 DEF Q!Pending
<1>3. ASSUME NEW x, Q!Remove(x) PROVE Stays
  BY <1>3 DEF Q!Remove, Q!Pending
<1>4. ASSUME NEW c \in Clients, NEW i \in SrcIds, NEW name \in Names,
             NEW srv \in U!BestServers, NEW new \in Q!GetNextID(m_NextID),
             Forwards(c, i, name, srv, new)
      PROVE  \/ Stays
             \/ /\ id = new
                /\ m_pQueue'[id] = [m_SrcId |-> i, m_Src |-> c, m_pServer |-> srv,
                                    m_pName |-> name, age |-> 0]
  <2>1. m_pQueue' = [m_pQueue EXCEPT ![new] =
            [m_SrcId |-> i, m_Src |-> c, m_pServer |-> srv, m_pName |-> name, age |-> 0]]
    BY <1>4 DEF Forwards, Q!Enqueue
  <2> QED  BY <1>1, <2>1 DEF Q!Pending
<1>5. ASSUME Idle PROVE Stays
  <2>1. m_pQueue'[id] = m_pQueue[id]
    BY <1>5 DEF Idle, Q!ForEachExpired, queueVars
  <2> QED  BY <2>1 DEF Q!Pending
<1>6. ASSUME Tick PROVE Stays
  BY <1>1, <1>6 DEF Tick, Q!QueueTick, Q!Pending, Q!PendingQuery
<1> HIDE DEF Stays
<1>7. ASSUME \/ \E q \in Questions : AnswersAtOnce(q)
             \/ \E srv \in Servers : Rejects(srv)
             \/ UNCHANGED vars
      PROVE  Stays
  BY <1>2, <1>7 DEF AnswersAtOnce, Rejects, Kept, queueVars, vars
<1>8. ASSUME \/ \E x : Strays(x, {}) \/ \E q \in Questions : Strays(x, {q})
             \/ \E x \in Q!Pending, rrs \in UNION {Zone[n] : n \in Names} :
                    Delivers(x, SanitizeRecords(rrs))
      PROVE  Stays
  BY <1>3, <1>8 DEF Strays, Delivers
<1>9. Stays \/ \E c \in Clients, i \in SrcIds, name \in Names, srv \in U!BestServers :
                  /\ Forwards(c, i, name, srv, id)
                  /\ id \in Q!GetNextID(m_NextID)
                  /\ m_pQueue'[id] = [m_SrcId |-> i, m_Src |-> c, m_pServer |-> srv,
                                      m_pName |-> name, age |-> 0]
  <2>1. CASE \E c \in Clients, i \in SrcIds, name \in Names,
                srv \in U!BestServers, new \in Q!GetNextID(m_NextID) :
                 Forwards(c, i, name, srv, new)
    <3>1. PICK c \in Clients, i \in SrcIds, name \in Names,
               srv \in U!BestServers, new \in Q!GetNextID(m_NextID) :
                   Forwards(c, i, name, srv, new)
      BY <2>1
    <3>2. CASE Stays
      BY <3>2
    <3>3. CASE /\ id = new
               /\ m_pQueue'[id] = [m_SrcId |-> i, m_Src |-> c, m_pServer |-> srv,
                                   m_pName |-> name, age |-> 0]
      BY <3>1, <3>3
    <3> QED  BY <1>4, <3>1, <3>2, <3>3
  <2>2. Stays \/ \E c \in Clients, i \in SrcIds, name \in Names,
                    srv \in U!BestServers, new \in Q!GetNextID(m_NextID) :
                     Forwards(c, i, name, srv, new)
    BY <1>5, <1>6, <1>7, <1>8, Turns
  <2> QED  BY <2>1, <2>2
<1> QED  BY <1>9 DEF Stays

\* The servers of the pending queries were sent a message.
LEMMA SentStep ==
    ASSUME TypeOK, CacheFiltered, SentBefore, [Next]_vars
    PROVE  SentBefore'
<1> SUFFICES ASSUME NEW id \in Q!QueueIds, m_pQueue'[id] # NoQuery
             PROVE  m_Sent'[m_pQueue'[id].m_pServer] > 0
  BY DEF SentBefore, Q!Pending, Q!QueueIds
<1> USE DEF U!UpstreamTypeOK, U!Servers, Servers
<1>0. m_Sent \in [Servers -> Nat]
  BY DEF TypeOK
<1>1. ASSUME NEW s \in Servers PROVE m_Sent'[s] \in Nat /\ m_Sent'[s] >= m_Sent[s]
  <2>1. [U!UpstreamNext]_(U!upstreamVars)
    BY UpstreamsUsedStep
  <2>2. ASSUME NEW t, U!MessageSent(t) PROVE m_Sent' = [m_Sent EXCEPT ![t] = @ + 1]
    BY <2>2 DEF U!MessageSent
  <2>3. ASSUME NEW t, NEW d, U!MessageReceived(t, d) PROVE m_Sent' = m_Sent
    BY <2>3 DEF U!MessageReceived
  <2>4. UNCHANGED U!upstreamVars => m_Sent' = m_Sent
    BY DEF U!upstreamVars
  <2>5. m_Sent' = m_Sent \/ \E t : m_Sent' = [m_Sent EXCEPT ![t] = @ + 1]
    BY <2>1, <2>2, <2>3, <2>4 DEF U!UpstreamNext
  <2>6. CASE m_Sent' = m_Sent
    BY <1>0, <2>6
  <2>7. ASSUME NEW t, m_Sent' = [m_Sent EXCEPT ![t] = @ + 1]
        PROVE  m_Sent'[s] \in Nat /\ m_Sent'[s] >= m_Sent[s]
    <3>1. m_Sent[s] \in Nat /\ m_Sent'[s] = IF s = t THEN m_Sent[s] + 1 ELSE m_Sent[s]
      BY <1>0, <2>7
    <3> QED  BY <3>1
  <2> QED  BY <2>5, <2>6, <2>7
<1>2. CASE /\ id \in Q!Pending
           /\ m_pQueue'[id].m_pServer = m_pQueue[id].m_pServer
  <2>1. m_pQueue[id].m_pServer \in Servers
    BY <1>2 DEF TypeOK, Q!QueueTypeOK, Q!Pending, Q!PendingQuery
  <2> QED  BY <1>0, <1>1, <1>2, <2>1 DEF SentBefore
<1>3. ASSUME NEW c, NEW i, NEW name, NEW srv \in U!BestServers,
             Forwards(c, i, name, srv, id),
             m_pQueue'[id] = [m_SrcId |-> i, m_Src |-> c, m_pServer |-> srv,
                              m_pName |-> name, age |-> 0]
      PROVE  m_Sent'[m_pQueue'[id].m_pServer] > 0
  <2>1. srv \in Servers /\ m_Sent' = [m_Sent EXCEPT ![srv] = @ + 1]
    BY <1>3, SomeTypes DEF Forwards, U!MessageSent
  <2> QED  BY <1>0, <1>3, <2>1
<1> QED  BY <1>2, <1>3, QueueStep

\* What comes into the cache has passed the filter, and stays as it is.
LEMMA FilterStep ==
    ASSUME TypeOK, CacheFiltered, [Next]_vars
    PROVE  CacheFiltered'
<1> SUFFICES ASSUME NEW n \in Names, m_pRecordTree'[n] # NoNode,
                    NEW r \in m_pRecordTree'[n].records
             PROVE  recordFilter(r)
  BY DEF CacheFiltered, C!Cached, recordFilter, isBlackListed, isRecordTypeSupported
<1>0. m_pRecordTree \in [Names -> C!Node \cup {NoNode}]
  BY DEF TypeOK, C!CacheTypeOK
<1>1. ASSUME m_pRecordTree[n] # NoNode, m_pRecordTree'[n].records = m_pRecordTree[n].records
      PROVE  recordFilter(r)
  BY <1>1 DEF CacheFiltered, C!Cached
<1>2. ASSUME NEW id \in Q!Pending, NEW rrs, Delivers(id, SanitizeRecords(rrs))
      PROVE  recordFilter(r)
  <2>1. CASE UNCHANGED m_pRecordTree
    BY <1>1, <2>1
  <2>2. ASSUME NEW name, NEW min,
               m_pRecordTree' = [m_pRecordTree EXCEPT ![name] =
                   [records |-> {x.record : x \in SanitizeRecords(rrs)}, ttl |-> min]]
        PROVE  recordFilter(r)
    <3>1. CASE n = name
      BY <1>0, <2>2, <3>1, SomeTypes
    <3>2. CASE n # name
      BY <1>0, <1>1, <2>2, <3>2
    <3> QED  BY <3>1, <3>2
  <2> QED  BY <1>2, <2>1, <2>2 DEF Delivers, C!Save
<1>3. ASSUME UNCHANGED m_pRecordTree PROVE recordFilter(r)
  BY <1>1, <1>3
<1>4. CASE Idle
  BY <1>0, <1>1, <1>4 DEF Idle, C!RemoveExpired
<1>5. CASE Tick
  BY <1>0, <1>1, <1>5 DEF Tick, C!CacheTick, C!Cached, C!Node
<1> QED  BY <1>2, <1>3, <1>4, <1>5, Turns
         DEF AnswersAtOnce, Forwards, Strays, Rejects, Kept, vars

\* The queue of DnsQueue_proofs, with its history forgotten, is this queue.
LEMMA SameQueue ==
    /\ TP!QueueTypeOK <=> Q!QueueTypeOK
    /\ TP!QueueInit <=> Q!QueueInit
    /\ [TP!QueueNext]_(TP!queueVars) <=> [Q!QueueNext]_(Q!queueVars)
<1>1. TP!Pending = Q!Pending /\ TP!QueueIds = Q!QueueIds
  BY DEF TP!Pending, Q!Pending, TP!QueueIds, Q!QueueIds
<1>2. \A set : TP!Cardinality(set) = Q!Cardinality(set)
  BY DEF TP!Cardinality, Q!Cardinality
<1>3. TP!Full <=> Q!Full
  BY <1>1, <1>2 DEF TP!Full, Q!Full, TP!Size, Q!Size
<1>4. \A old : TP!GetNextID(old) = Q!GetNextID(old)
  BY DEF TP!GetNextID, Q!GetNextID, TP!rand, Q!rand
<1>5. \A i, src, srv, name, id :
          TP!Enqueue(i, src, srv, name, id) <=> Q!Enqueue(i, src, srv, name, id)
  BY <1>3, <1>4 DEF TP!Enqueue, Q!Enqueue, TP!queueVars, Q!queueVars
<1>6. TP!EnqueueResults = Q!EnqueueResults
  BY <1>3, <1>4 DEF TP!EnqueueResults, Q!EnqueueResults
<1>7. \A id : TP!Remove(id) <=> Q!Remove(id)
  BY <1>1 DEF TP!Remove, Q!Remove
<1>8. TP!ForEachExpired <=> Q!ForEachExpired
  BY <1>1 DEF TP!ForEachExpired, Q!ForEachExpired
<1>9. TP!QueueTick <=> Q!QueueTick
  BY <1>1 DEF TP!QueueTick, Q!QueueTick
<1>10. TP!QueueNext <=> Q!QueueNext
  BY <1>1, <1>5, <1>6, <1>7, <1>8, <1>9 DEF TP!QueueNext, Q!QueueNext
<1>11. TP!QueueInit <=> Q!QueueInit
  BY <1>1 DEF TP!QueueInit, Q!QueueInit, TP!rand, Q!rand
<1>12. TP!QueueTypeOK <=> Q!QueueTypeOK
  BY <1>1 DEF TP!QueueTypeOK, Q!QueueTypeOK, TP!PendingQuery, Q!PendingQuery
<1> QED  BY <1>10, <1>11, <1>12 DEF TP!queueVars, Q!queueVars

\* And so are the upstream servers of Upstreams_proofs these.
LEMMA SameUpstreams ==
    /\ UP!UpstreamTypeOK <=> U!UpstreamTypeOK
    /\ UP!UpstreamInit <=> U!UpstreamInit
    /\ [UP!UpstreamNext]_(UP!upstreamVars) <=> [U!UpstreamNext]_(U!upstreamVars)
<1>1. UP!Servers = U!Servers /\ UP!Slots = U!Slots /\ UP!Delays = U!Delays
  BY DEF UP!Servers, U!Servers, UP!Slots, U!Slots, UP!Delays, U!Delays
<1>2. \A set : UP!Cardinality(set) = U!Cardinality(set)
  BY DEF UP!Cardinality, U!Cardinality
<1>3. \A s : UP!DelayScore(s) = U!DelayScore(s)
  BY <1>1, <1>2 DEF UP!DelayScore, U!DelayScore, UP!DelaySum, U!DelaySum
<1>4. UP!BestServers = U!BestServers
  BY <1>1, <1>3 DEF UP!BestServers, U!BestServers, UP!Beats, U!Beats
<1>5. \A s, delay : UP!SetNextDelay(s, delay) <=> U!SetNextDelay(s, delay)
  BY <1>1 DEF UP!SetNextDelay, U!SetNextDelay, UP!NextSlots, U!NextSlots
<1>6. \A s : UP!MessageSent(s) <=> U!MessageSent(s)
  BY <1>5 DEF UP!MessageSent, U!MessageSent
<1>7. \A s, delay : UP!MessageReceived(s, delay) <=> U!MessageReceived(s, delay)
  BY DEF UP!MessageReceived, U!MessageReceived, UP!SetDelay, U!SetDelay
<1>8. UP!UpstreamNext <=> U!UpstreamNext
  BY <1>1, <1>4, <1>6, <1>7 DEF UP!UpstreamNext, U!UpstreamNext
<1>9. UP!UpstreamTypeOK <=> U!UpstreamTypeOK
  BY <1>1 DEF UP!UpstreamTypeOK, U!UpstreamTypeOK
<1>10. UP!UpstreamInit <=> U!UpstreamInit
  BY <1>1 DEF UP!UpstreamInit, U!UpstreamInit
<1> QED  BY <1>8, <1>9, <1>10 DEF UP!upstreamVars, U!upstreamVars

\* The queue, the servers and the cache keep their types inside the server.
LEMMA PartsStep ==
    ASSUME TypeOK, CacheFiltered, SentBefore, [Next]_vars
    PROVE  Q!QueueTypeOK' /\ U!UpstreamTypeOK' /\ C!CacheTypeOK'
<1>1. Q!QueueTypeOK'
  <2>1. TP!QueueTypeOK /\ [TP!QueueNext]_(TP!queueVars)
    BY QueueUsed, SameQueue DEF TypeOK
  <2>2. MAX_ID \in Nat /\ (StepHigh - 1) * MAX_ID >= TP!Lap
    BY ManyIds
  <2>3. TP!QueueTypeOK'
    BY <2>1, <2>2, TP!QueueTypeStep, ServerConstants DEF Q!QueueConstants
  <2> QED  BY <2>3 DEF Q!QueueTypeOK, TP!QueueTypeOK, Q!QueueIds, TP!QueueIds,
                      Q!PendingQuery, TP!PendingQuery
<1>2. U!UpstreamTypeOK'
  <2>1. UP!UpstreamTypeOK /\ [UP!UpstreamNext]_(UP!upstreamVars)
    BY UpstreamsUsedStep, SameUpstreams DEF TypeOK
  <2>2. UP!UpstreamTypeOK'
    BY <2>1, UP!UpstreamTypeStep, ServerConstants DEF U!UpstreamConstants
  <2> QED  BY <2>2 DEF U!UpstreamTypeOK, UP!UpstreamTypeOK, U!Servers, UP!Servers,
                      U!Slots, UP!Slots, U!Delays, UP!Delays
<1>3. C!CacheTypeOK'
  <2>1. TP!CacheTypeOK /\ [TP!CacheNext]_m_pRecordTree
    BY CacheUsed
    DEF TypeOK, C!CacheTypeOK, TP!CacheTypeOK, C!Node, TP!Node, C!CacheNext, TP!CacheNext,
        C!Save, TP!Save, C!LeastTtl, TP!LeastTtl, C!RemoveExpired, TP!RemoveExpired,
        C!Expired, TP!Expired, C!Cached, TP!Cached, C!CacheTick, TP!CacheTick
  <2>2. TP!CacheTypeOK'
    <3>1. MAX_ID \in Nat /\ (StepHigh - 1) * MAX_ID >= TP!Lap
      BY ManyIds
    <3> QED  BY <2>1, <3>1, TP!CacheTypeStep, ServerConstants
             DEF Q!QueueConstants, C!CacheConstants
  <2> QED  BY <2>2 DEF C!CacheTypeOK, TP!CacheTypeOK, C!Node, TP!Node
<1> QED  BY <1>1, <1>2, <1>3

\* At most one datagram leaves in a step, and the network holds what was sent.
LEMMA NetworkStep ==
    ASSUME TypeOK, CacheFiltered, [Next]_vars
    PROVE  /\ forwarded' \subseteq [m_Id : Q!QueueIds, name : Names, srv : Servers]
           /\ Cardinality(out') <= 1
<1> DEFINE Types == forwarded' \subseteq [m_Id : Q!QueueIds, name : Names, srv : Servers]
           Small(set) == Cardinality(set) <= 1
<1>0. Small({}) /\ \A m : Small({m})
  BY FS_EmptySet, FS_Singleton
<1>1. ASSUME UNCHANGED forwarded PROVE Types
  BY <1>1 DEF TypeOK
<1> HIDE DEF Small
<1>2. ASSUME NEW q, AnswersAtOnce(q) PROVE Types /\ Small(out')
  BY <1>0, <1>1, <1>2 DEF AnswersAtOnce, Kept, Sends
<1>3. ASSUME NEW c, NEW i, NEW name \in Names, NEW srv \in U!BestServers,
             NEW id \in Q!GetNextID(m_NextID), Forwards(c, i, name, srv, id)
      PROVE  Types /\ Small(out')
  <2> DEFINE m == [to |-> srv, m_Id |-> id, name |-> name, isAnswer |-> FALSE,
                   responseCode |-> "NO_ERROR", records |-> {}]
  <2>1. id \in Q!QueueIds /\ srv \in Servers
    BY NextId, SomeTypes DEF TypeOK
  <2>2. Sends(m)
    BY <1>3, SendMeansSends DEF Forwards
  <2>3. Types
    <3>1. forwarded' \subseteq forwarded \cup {[m_Id |-> id, name |-> name, srv |-> srv]}
      BY <1>3, <2>2 DEF Forwards, Sends
    <3> QED  BY <2>1, <3>1 DEF TypeOK
  <2> QED  BY <1>0, <2>2, <2>3 DEF Sends
<1>4. ASSUME NEW id, NEW asks, Strays(id, asks) PROVE Types /\ Small(out')
  BY <1>0, <1>1, <1>4 DEF Strays
<1>5. ASSUME NEW srv, Rejects(srv) PROVE Types /\ Small(out')
  BY <1>0, <1>1, <1>5 DEF Rejects, Kept, Sends
<1>6. ASSUME NEW id, NEW rrs, Delivers(id, rrs) PROVE Types /\ Small(out')
  BY <1>0, <1>1, <1>6, SendMeansSends DEF Delivers, Sends
<1>7. ASSUME Idle \/ Tick \/ UNCHANGED vars PROVE Types /\ Small(out')
  <2>1. UNCHANGED forwarded /\ (out' = {} \/ out' = out)
    BY <1>7 DEF Idle, Tick, vars
  <2>2. Small(out)
    BY DEF TypeOK, Small
  <2> QED  BY <1>0, <1>1, <2>1, <2>2
<1>8. Types /\ Small(out')
  BY <1>2, <1>3, <1>4, <1>5, <1>6, <1>7, Turns
<1> QED  BY <1>8 DEF Small

\* The loop's own variables.
LEMMA LoopStep ==
    ASSUME TypeOK, [Next]_vars
    PROVE  /\ timer' \in 0..(CLEAN_UP_DELAY + 1) /\ ran' \in BOOLEAN
           /\ asked' \in 0..MaxAsked
<1> USE ServerConstants DEF TypeOK
<1>1. NextTimer \in 0..(CLEAN_UP_DELAY + 1)
  BY DEF NextTimer
<1>2. ASSUME NEW c, NEW i, NEW name, NEW h, FromClient(c, i, name, h)
      PROVE  timer' = NextTimer /\ ran' = TRUE /\ asked' \in 0..MaxAsked
  BY <1>2 DEF FromClient
<1>3. ASSUME NEW f, NEW h, NEW rrs, FromServer(f, h, rrs)
      PROVE  timer' = NextTimer /\ ran' = TRUE /\ asked' \in 0..MaxAsked
  BY <1>3 DEF FromServer
<1>4. CASE Idle
  BY <1>1, <1>4 DEF Idle
<1>5. CASE Tick
  BY <1>5 DEF Tick
<1>6. CASE UNCHANGED vars
  BY <1>6 DEF vars
<1> QED  BY <1>1, <1>2, <1>3, <1>4, <1>5, <1>6 DEF Next, ClientNext, ServerNext

\* At the start nothing is pending, cached or owed.
LEMMA InitInv == ServerInit => ServerInv
<1> SUFFICES ASSUME ServerInit PROVE ServerInv
  OBVIOUS
<1>1. Q!QueueTypeOK /\ Q!Pending = {}
  <2>1. /\ MIN_ID \in Nat /\ MAX_ID \in Nat /\ FirstSpan \in Nat
        /\ MIN_ID + FirstSpan <= MAX_ID
    BY ServerConstants DEF Q!QueueConstants
  <2>2. m_NextID \in Q!QueueIds
    BY <2>1 DEF ServerInit, Q!QueueInit, Q!QueueIds, Q!rand
  <2>3. m_pQueue = [id \in Q!QueueIds |-> NoQuery]
    BY DEF ServerInit, Q!QueueInit
  <2> QED  BY <2>2, <2>3 DEF Q!QueueTypeOK, Q!Pending
<1>2. U!UpstreamTypeOK
  BY ServerConstants DEF ServerInit, U!UpstreamInit, U!UpstreamTypeOK, U!UpstreamConstants
<1>3. C!CacheTypeOK /\ C!Cached = {}
  BY DEF ServerInit, C!CacheInit, C!CacheTypeOK, C!Cached
<1>4. TypeOK
  <2>1. Cardinality(out) = 0
    BY FS_EmptySet DEF ServerInit
  <2>2. MaxAsked \in Nat /\ CLEAN_UP_DELAY \in Nat
    BY ServerConstants
  <2>3. timer \in 0..(CLEAN_UP_DELAY + 1) /\ ran \in BOOLEAN /\ asked \in 0..MaxAsked
    <3>1. timer = 0 /\ ran = FALSE /\ asked = 0
      BY DEF ServerInit
    <3>2. ran \in BOOLEAN
      BY <3>1
    <3>3. timer \in 0..(CLEAN_UP_DELAY + 1) /\ asked \in 0..MaxAsked
      BY <2>2, <3>1
    <3> QED  BY <3>2, <3>3
  <2>4. owed \in [Questions -> Int] /\ forwarded = {}
    BY DEF ServerInit
  <2> QED  BY <1>1, <1>2, <1>3, <2>1, <2>3, <2>4 DEF TypeOK
<1>5. OwedCoversPending
  <2>1. \A q : PendingOf(q) = {}
    BY <1>1 DEF PendingOf
  <2>2. \A q \in Questions : Cardinality(PendingOf(q)) <= owed[q]
    BY <2>1, FS_EmptySet DEF ServerInit
  <2> QED  BY <2>2 DEF OwedCoversPending, PendingOf
<1> QED  BY <1>1, <1>3, <1>4, <1>5 DEF ServerInv, SentBefore, CacheFiltered

\* The server's invariant, inductive in all its parts together.
THEOREM ServerInvariant == Spec => []ServerInv
<1>1. ServerInv /\ [Next]_vars => ServerInv'
  <2> SUFFICES ASSUME ServerInv, [Next]_vars PROVE ServerInv'
    OBVIOUS
  <2>1. TypeOK /\ CacheFiltered /\ SentBefore
    BY DEF ServerInv
  <2>2. OwedCoversPending' /\ owed' \in [Questions -> Int]
    BY OwedStep
  <2>3. TypeOK'
    <3>1. Q!QueueTypeOK' /\ U!UpstreamTypeOK' /\ C!CacheTypeOK'
      BY <2>1, PartsStep
    <3>2. /\ forwarded' \subseteq [m_Id : Q!QueueIds, name : Names, srv : Servers]
          /\ Cardinality(out') <= 1
      BY <2>1, NetworkStep
    <3> QED  BY <2>1, <2>2, <3>1, <3>2, LoopStep DEF TypeOK, Questions, Q!QueueIds, Servers
  <2> QED  BY <2>1, <2>2, <2>3, SentStep, FilterStep DEF ServerInv
<1> QED  BY <1>1, InitInv, PTL DEF Spec

\* Type correctness of the server.
THEOREM ServerTypeCorrect == Spec => []TypeOK
  BY ServerInvariant, PTL DEF ServerInv

\* Nothing the filter turns down is ever in the cache (dnsServer.cpp:346-350),
\* for any filter, and whatever the upstream servers answer.
THEOREM CacheIsFiltered == Spec => []CacheFiltered
  BY ServerInvariant, PTL DEF ServerInv

\* Every pending query stands for a question that is still open, also when its
\* id was given twice, or its answer comes late, twice or from a stranger.
THEOREM PendingIsOwed == Spec => []OwedCoversPending
  BY ServerInvariant, PTL DEF ServerInv

-----------------------------------------------------------------------------
(***************************************************************************)
(* The parts inside the whole: the handlers use each part as its module    *)
(* says it is used, so what is proved of the part alone holds here.        *)
(***************************************************************************)

\* The queue.
THEOREM QueueImplemented == Spec => Q!QueueSpec
<1>1. ServerInit => Q!QueueInit
  BY DEF ServerInit
<1>2. ServerInv /\ [Next]_vars => [Q!QueueNext]_(Q!queueVars)
  BY QueueUsed DEF ServerInv
<1> QED  BY <1>1, <1>2, ServerInvariant, PTL DEF Spec, Q!QueueSpec

\* The cache.
THEOREM CacheImplemented == Spec => C!CacheSpec
<1>1. ServerInit => C!CacheInit
  BY DEF ServerInit
<1>2. ServerInv /\ [Next]_vars => [C!CacheNext]_m_pRecordTree
  BY CacheUsed DEF ServerInv
<1> QED  BY <1>1, <1>2, ServerInvariant, PTL DEF Spec, C!CacheSpec

\* The upstream servers: a query goes to the best one, and no delay is recorded
\* for a server nothing was sent to.
THEOREM UpstreamsUsedWell == Spec => UpstreamsUsed
<1>1. ServerInit => U!UpstreamInit
  BY DEF ServerInit
<1>2. ServerInv /\ [Next]_vars => [U!UpstreamNext]_(U!upstreamVars)
  BY UpstreamsUsedStep DEF ServerInv
<1> QED  BY <1>1, <1>2, ServerInvariant, PTL DEF Spec, UpstreamsUsed, U!UpstreamSpec

\* In the server too, the next id and the ids in use are valid and the queue
\* stays within its limit.
THEOREM IdsInRangeInServer == Spec => []Q!IdsAndSizeInRange
<1>1. MAX_ID \in Nat /\ (StepHigh - 1) * MAX_ID >= TP!Lap
  BY ManyIds
<1>2. TP!QueueSpec => []TP!IdsAndSizeInRange
  BY <1>1, TP!QueueInRange, ServerConstants DEF Q!QueueConstants
<1>3. TP!IdsAndSizeInRange <=> Q!IdsAndSizeInRange
  <2>1. TP!Size = Q!Size
    <3>1. TP!Pending = Q!Pending
      BY DEF TP!Pending, Q!Pending, TP!QueueIds, Q!QueueIds
    <3> QED  BY <3>1 DEF TP!Size, Q!Size, TP!Cardinality, Q!Cardinality
  <2> QED  BY <2>1, SameQueue DEF TP!IdsAndSizeInRange, Q!IdsAndSizeInRange,
                                  TP!SizeBounded, Q!SizeBounded
<1> QED  BY <1>2, <1>3, SameQueue, QueueImplemented, PTL DEF TP!QueueSpec, Q!QueueSpec

\* In the server too, the score of an upstream server never reads memory that
\* was never written, however the answers come.
THEOREM ScoresReadWrittenInServer == Spec => []U!ScoreReadsWritten
<1>1. UP!UpstreamSpec => []UP!ScoreReadsWritten
  BY UP!ScoreNeverReadsUninit, ServerConstants DEF U!UpstreamConstants
<1>2. UP!ScoreReadsWritten <=> U!ScoreReadsWritten
  BY DEF UP!ScoreReadsWritten, U!ScoreReadsWritten, UP!Servers, U!Servers,
         UP!Slots, U!Slots
<1> QED  BY <1>1, <1>2, SameUpstreams, UpstreamsUsedWell, PTL
         DEF UpstreamsUsed, UP!UpstreamSpec, U!UpstreamSpec

\* In the server too, no server gets more than one message ahead of one that is
\* still new, however the answers come.
THEOREM NewServersGetTheirChanceInServer == Spec => []U!WarmUpRoundRobin
<1>1. UP!UpstreamSpec => []UP!WarmUpRoundRobin
  BY UP!NewServersGetTheirChance, ServerConstants DEF U!UpstreamConstants
<1>2. UP!WarmUpRoundRobin <=> U!WarmUpRoundRobin
  BY DEF UP!WarmUpRoundRobin, U!WarmUpRoundRobin, UP!Servers, U!Servers
<1> QED  BY <1>1, <1>2, SameUpstreams, UpstreamsUsedWell, PTL
         DEF UpstreamsUsed, UP!UpstreamSpec, U!UpstreamSpec

-----------------------------------------------------------------------------
(***************************************************************************)
(* The server and what it promises (DnsService).                           *)
(***************************************************************************)

\* A turn that answers no pending query is a question asked, or nothing that a
\* client sees.
LEMMA ServiceOfOtherTurns ==
    ASSUME ServerInv, [Next]_vars
    PROVE  \/ [S!ServiceNext]_(S!serviceVars)
           \/ \E id \in Q!Pending : \E rrs : Delivers(id, rrs)
<1> USE DEF S!serviceVars
<1>0. TypeOK /\ CacheFiltered /\ owed \in [Questions -> Int]
      /\ \A srv \in Servers : srv \notin Clients
  BY ServerConstants DEF ServerInv, TypeOK
<1>1. ASSUME NEW q \in Questions, AnswersAtOnce(q) PROVE S!Ask(q)
  <2>1. PICK m : Sends(m) /\ S!Proper(m) /\ m.isAnswer /\ S!AnswerTo(m) = q
    BY <1>1 DEF AnswersAtOnce
  <2>2. Settle({q})
    BY <1>1 DEF AnswersAtOnce
  <2>3. CASE out' = {}
    <3>1. owed' \in [Questions -> Int]
          /\ \A p \in Questions : owed'[p] = owed[p] + (IF p \in {q} THEN 1 ELSE 0)
      BY <1>0, <2>2, <2>3, Settled
    <3>2. owed' = [owed EXCEPT ![q] = @ + 1]
      BY <1>0, <3>1
    <3> QED  BY <2>3, <3>2 DEF S!Ask, S!Nothing
  <2>4. CASE out' = {m}
    <3>1. owed' \in [Questions -> Int]
          /\ \A p \in Questions : owed'[p] = owed[p] + (IF p \in {q} THEN 1 ELSE 0)
                                               - (IF S!AnswerTo(m) = p THEN 1 ELSE 0)
      <4>1. owed \in [Questions -> Int]
        BY <1>0
      <4> QED  BY ONLY <2>2, <2>4, <4>1, Settled
    <3>2. \A p \in Questions : owed'[p] = owed[p]
      BY <1>0, <2>1, <3>1
    <3>3. UNCHANGED owed
      BY <1>0, <3>1, <3>2
    <3> QED  BY <2>1, <2>4, <3>3 DEF S!Ask, S!Answers
  <2> QED  BY <2>1, <2>3, <2>4 DEF Sends
<1>2. ASSUME NEW c \in Clients, NEW i \in SrcIds, NEW name \in Names,
             NEW srv \in U!BestServers, NEW id, Forwards(c, i, name, srv, id)
      PROVE  S!Ask(<<c, i, name>>)
  <2> DEFINE q == <<c, i, name>>
             m == [to |-> srv, m_Id |-> id, name |-> name, isAnswer |-> FALSE,
                   responseCode |-> "NO_ERROR", records |-> {}]
  <2>1. Sends(m) /\ Settle({q}) /\ q \in Questions
    BY <1>2, SendMeansSends DEF Forwards, Questions
  <2>2. S!AnswerTo(m) \notin Questions
    BY <1>0, SomeTypes DEF S!AnswerTo, Questions
  <2>3. S!Proper(m)
    BY <1>2 DEF S!Proper, Forwards
  <2> HIDE DEF m, q
  <2>4. owed' \in [Questions -> Int]
        /\ \A p \in Questions : owed'[p] = owed[p] + (IF p \in {q} THEN 1 ELSE 0)
    BY <1>0, <2>1, <2>2, SettledBySending
  <2>5. owed' = [owed EXCEPT ![q] = @ + 1]
    BY <1>0, <2>4
  <2>6. S!Nothing \/ S!PassesOn
    BY <2>1, <2>2, <2>3 DEF Sends, S!Nothing, S!PassesOn
  <2>7. S!Ask(q)
    BY <2>5, <2>6 DEF S!Ask
  <2> QED  BY <2>7 DEF q
<1>3. ASSUME NEW id, Strays(id, {}) PROVE S!Internal
  <2>1. owed' \in [Questions -> Int] /\ \A p \in Questions : owed'[p] = owed[p]
    BY <1>0, <1>3, Settled DEF Strays
  <2>2. UNCHANGED owed
    BY <1>0, <2>1
  <2> QED  BY <1>3, <2>2 DEF Strays, S!Internal, S!Nothing
<1>4. ASSUME NEW id, NEW q \in Questions, Strays(id, {q}) PROVE S!Ask(q)
  <2>1. owed' \in [Questions -> Int]
        /\ \A p \in Questions : owed'[p] = owed[p] + (IF p \in {q} THEN 1 ELSE 0)
    BY <1>0, <1>4, Settled DEF Strays
  <2>2. owed' = [owed EXCEPT ![q] = @ + 1]
    BY <1>0, <2>1
  <2> QED  BY <1>4, <2>2 DEF Strays, S!Ask, S!Nothing
<1>5. ASSUME NEW srv \in Servers, Rejects(srv) PROVE S!Internal
  <2>1. PICK m : Sends(m) /\ S!Proper(m) /\ m.to = srv
    BY <1>5 DEF Rejects
  <2>2. S!AnswerTo(m) \notin Questions
    BY <1>0, <2>1 DEF S!AnswerTo, Questions
  <2>3. Settle({})
    BY <1>5 DEF Rejects
  <2>4. owed' \in [Questions -> Int] /\ \A p \in Questions : owed'[p] = owed[p]
    BY <1>0, <2>1, <2>2, <2>3, SettledBySending
  <2>5. UNCHANGED owed
    BY <1>0, <2>4
  <2>6. S!Nothing \/ S!PassesOn
    BY <2>1, <2>2 DEF Sends, S!Nothing, S!PassesOn
  <2> QED  BY <2>5, <2>6 DEF S!Internal
<1>6. ASSUME Idle \/ Tick PROVE S!Internal
  BY <1>6 DEF Idle, Tick, S!Internal, S!Nothing
<1>7. ASSUME UNCHANGED vars PROVE UNCHANGED S!serviceVars
  BY <1>7 DEF vars
<1>8. ASSUME NEW id \in Q!Pending, NEW rrs, Delivers(id, SanitizeRecords(rrs))
      PROVE  \E r : Delivers(id, r)
  BY <1>8
<1>9. ASSUME \E q \in Questions : S!Ask(q) PROVE S!ServiceNext
  BY <1>9 DEF S!ServiceNext
<1>10. ASSUME S!Internal PROVE S!ServiceNext
  BY <1>10 DEF S!ServiceNext
<1> QED
  <2>1. \A c \in Clients, i \in SrcIds, name \in Names : <<c, i, name>> \in Questions
    BY DEF Questions
  <2> QED  BY <1>0, <1>1, <1>2, <1>3, <1>4, <1>5, <1>6, <1>7, <1>8, <1>9, <1>10,
              <2>1, Turns

\* The answer to a pending query is owed to its client.
LEMMA ServiceOfDelivery ==
    ASSUME ServerInv, NEW id \in Q!Pending, NEW rrs, Delivers(id, rrs)
    PROVE  S!ServiceNext
<1> DEFINE q == <<m_pQueue[id].m_Src, m_pQueue[id].m_SrcId, m_pQueue[id].m_pName>>
<1>0. TypeOK /\ owed \in [Questions -> Int]
  BY DEF ServerInv, TypeOK
<1>1. q \in Questions
  BY <1>0 DEF Questions, TypeOK, Q!QueueTypeOK, Q!Pending, Q!PendingQuery
<1>2. owed[q] > 0
  <2>1. IsFiniteSet(PendingOf(q)) /\ Cardinality(PendingOf(q)) \in Nat
    BY PendingOfFinite
  <2>2. id \in PendingOf(q)
    BY DEF PendingOf
  <2>3. Cardinality(PendingOf(q)) # 0
    BY <2>1, <2>2, FS_EmptySet
  <2>4. Cardinality(PendingOf(q)) <= owed[q]
    BY <1>1 DEF ServerInv, OwedCoversPending, PendingOf
  <2>5. owed[q] \in Int
    BY <1>0, <1>1
  <2> HIDE DEF q
  <2> QED  BY <2>1, <2>3, <2>4, <2>5
<1>3. PICK m : Sends(m) /\ S!Proper(m) /\ m.isAnswer /\ S!AnswerTo(m) = q
  BY SendMeansSends DEF Delivers
<1>4. Settle({})
  BY DEF Delivers
<1> HIDE DEF q
<1>5. CASE out' = {}
  <2>1. owed' \in [Questions -> Int] /\ \A p \in Questions : owed'[p] = owed[p]
    BY <1>0, <1>4, <1>5, Settled
  <2>2. UNCHANGED owed
    BY <1>0, <2>1
  <2> QED  BY <1>5, <2>2 DEF S!ServiceNext, S!Internal, S!Nothing
<1>6. CASE out' = {m}
  <2>1. owed' \in [Questions -> Int]
        /\ \A p \in Questions : owed'[p] = owed[p] - (IF q = p THEN 1 ELSE 0)
    <3>1. /\ owed' \in [Questions -> Int]
          /\ \A p \in Questions : owed'[p] = owed[p] + (IF p \in {} THEN 1 ELSE 0)
                                               - (IF S!AnswerTo(m) = p THEN 1 ELSE 0)
      BY <1>0, <1>4, <1>6, Settled
    <3>2. \A p \in Questions : owed[p] \in Int
      BY <1>0
    <3> QED  BY <1>3, <3>1, <3>2
  <2>2. owed' = [owed EXCEPT ![q] = @ - 1]
    BY <1>0, <1>3, <2>1
  <2>3. S!Answer(q)
    BY <1>2, <1>3, <1>6, <2>2 DEF S!Answer, S!Answers
  <2> QED  BY <1>1, <2>3 DEF S!ServiceNext
<1> QED  BY <1>3, <1>5, <1>6 DEF Sends

\* The server implements its service for any number of clients and servers: a
\* client gets at most one answer per question, under its own id and name, with
\* records it may see, and no blocked name is asked upstream - with late and
\* repeated answers, ids given twice, failed sends and full queues.
THEOREM ServerImplementsService == Spec => ServiceProvided
<1>1. ServerInit => S!ServiceInit
  BY DEF ServerInit, S!ServiceInit
<1>2. ServerInv /\ [Next]_vars => [S!ServiceNext]_(S!serviceVars)
  BY ServiceOfOtherTurns, ServiceOfDelivery
<1> QED  BY <1>1, <1>2, ServerInvariant, PTL DEF Spec, ServiceProvided, S!ServiceSpec

-----------------------------------------------------------------------------
(***************************************************************************)
(* What takes a query out of the queue.                                    *)
(***************************************************************************)

\* handleAnswer takes the query out of the queue before it looks at the sender
\* and the name (dnsServer.cpp:333-336). For any servers and clients - also such
\* that answer what nobody asked, or fail to be reached: a query that is not too
\* old leaves with its own answer, or something with its id was mistaken for one,
\* and then nothing is delivered, charged to a server or cached.
THEOREM QueryKeptForItsAnswer == Spec => TakenOnlyByItsAnswer
<1> DEFINE Answered(id) ==
               /\ U!MessageReceived(m_pQueue[id].m_pServer, m_pQueue[id].age)
               /\ \/ \E m \in out' : <<m.to, m.m_Id, m.name>>
                        = <<m_pQueue[id].m_Src, m_pQueue[id].m_SrcId, m_pQueue[id].m_pName>>
                  \/ FALSE \in SendOutcomes /\ out' = {}
           Mistaken(id) == /\ Mistakable(id) /\ out' = {}
                           /\ UNCHANGED <<upstreamVars, m_pRecordTree>>
           A == \A id \in Q!Pending :
                  LET query == m_pQueue[id]
                  IN  m_pQueue'[id] = NoQuery /\ query.age <= TimeOut =>
                        \/ /\ U!MessageReceived(query.m_pServer, query.age)
                           /\ \/ \E m \in out' : <<m.to, m.m_Id, m.name>>
                                      = <<query.m_Src, query.m_SrcId, query.m_pName>>
                              \/ FALSE \in SendOutcomes /\ out' = {}
                        \/ /\ Mistakable(id) /\ out' = {}
                           /\ UNCHANGED <<upstreamVars, m_pRecordTree>>
<1>1. ServerInv /\ [Next]_vars => A
  <2> SUFFICES ASSUME ServerInv, [Next]_vars,
                      NEW id \in Q!Pending, m_pQueue'[id] = NoQuery,
                      m_pQueue[id].age <= TimeOut
               PROVE  Answered(id) \/ Mistaken(id)
    OBVIOUS
  <2>0. /\ TypeOK /\ CacheFiltered
        /\ id \in Q!QueueIds /\ m_pQueue[id] # NoQuery /\ m_pQueue[id] \in Q!PendingQuery
        /\ DOMAIN m_pQueue = Q!QueueIds
    BY DEF ServerInv, TypeOK, Q!QueueTypeOK, Q!Pending
  <2>1. m_pQueue'[id] # m_pQueue[id]
    BY <2>0
  <2>2. NoQuery \notin Q!PendingQuery
    BY ServerConstants DEF Q!QueueConstants, Q!PendingQuery
  <2>3. ASSUME NEW q, AnswersAtOnce(q) PROVE FALSE
    BY <2>1, <2>3 DEF AnswersAtOnce, Kept, queueVars
  <2>4. ASSUME NEW c \in Clients, NEW i \in SrcIds, NEW name \in Names,
               NEW srv \in U!BestServers, NEW new \in Q!GetNextID(m_NextID),
               Forwards(c, i, name, srv, new)
        PROVE  FALSE
    <3>1. m_pQueue' = [m_pQueue EXCEPT ![new] =
              [m_SrcId |-> i, m_Src |-> c, m_pServer |-> srv, m_pName |-> name, age |-> 0]]
      BY <2>4 DEF Forwards, Q!Enqueue
    <3>2. [m_SrcId |-> i, m_Src |-> c, m_pServer |-> srv, m_pName |-> name, age |-> 0]
              \in Q!PendingQuery
      BY SomeTypes, ServerConstants DEF Q!PendingQuery, Q!QueueConstants
    <3> QED  BY <2>0, <2>1, <2>2, <3>1, <3>2
  <2>5. ASSUME NEW x, Q!Remove(x) PROVE x = id
    BY <2>0, <2>1, <2>5 DEF Q!Remove
  <2>6. ASSUME NEW c \in Clients, NEW i \in SrcIds, NEW name \in Names,
               NEW h \in Headers, FromClient(c, i, name, h)
        PROVE  Mistaken(id)
    <3>1. h.isAnswer /\ Strays(i, {<<c, i, name>>})
      BY <2>0, <2>3, <2>4, <2>6, ClientTurn DEF TypeOK
    <3>2. Mistakable(id)
      BY <2>5, <3>1 DEF Strays, Mistakable
    <3> QED  BY <3>1, <3>2 DEF Strays
  <2>7. ASSUME NEW f \in forwarded \cup Unasked, NEW h \in AnswerHeaders,
               NEW rrs \in Zone[f.name], FromServer(f, h, rrs)
        PROVE  Answered(id) \/ Mistaken(id)
    <3>1. CASE Rejects(f.srv)
      BY <2>1, <3>1 DEF Rejects, Kept, queueVars
    <3>2. CASE /\ Strays(f.m_Id, {})
               /\ f.m_Id \in Q!Pending => \/ f.srv # m_pQueue[f.m_Id].m_pServer
                                          \/ f.name # m_pQueue[f.m_Id].m_pName
      <4>1. f.m_Id = id
        BY <2>5, <3>2 DEF Strays
      <4>2. <<f.srv, f.name>> # <<m_pQueue[id].m_pServer, m_pQueue[id].m_pName>>
        BY <3>2, <4>1
      <4>3. Mistakable(id)
        BY <4>1, <4>2 DEF Mistakable
      <4> QED  BY <3>2, <4>3 DEF Strays
    <3>3. CASE Delivers(f.m_Id, SanitizeRecords(rrs))
      <4>1. f.m_Id = id
        BY <2>5, <3>3 DEF Delivers
      <4>2. U!MessageReceived(m_pQueue[id].m_pServer, m_pQueue[id].age)
        BY <3>3, <4>1 DEF Delivers
      <4>3. PICK m : /\ sendMsg(m)
                     /\ S!AnswerTo(m) = <<m_pQueue[id].m_Src, m_pQueue[id].m_SrcId,
                                          m_pQueue[id].m_pName>>
        BY <3>3, <4>1 DEF Delivers
      <4>4. out' = {m} \/ (FALSE \in SendOutcomes /\ out' = {})
        BY <4>3, ServerConstants DEF sendMsg, net_udp_send
      <4> QED  BY <4>2, <4>3, <4>4 DEF S!AnswerTo
    <3> QED  BY <2>0, <2>7, <3>1, <3>2, <3>3, ServerTurn
  <2>8. ASSUME Idle PROVE FALSE
    <3>1. m_pQueue[id].age > TimeOut
      BY <2>0, <2>1, <2>8 DEF Idle, Q!ForEachExpired, queueVars
    <3>2. m_pQueue[id].age \in 0..(TimeOut + 1) /\ TimeOut \in Nat
      BY <2>0, ServerConstants DEF Q!PendingQuery, Q!QueueConstants
    <3> QED  BY <3>1, <3>2
  <2>9. ASSUME Tick PROVE FALSE
    <3>1. m_pQueue'[id] = [m_pQueue[id] EXCEPT !.age = @ + 1]
      BY <2>0, <2>9 DEF Tick, Q!QueueTick
    <3>2. m_pQueue'[id] \in Q!PendingQuery
      <4>1. TimeOut \in Nat
        BY ServerConstants DEF Q!QueueConstants
      <4>2. m_pQueue[id].age \in 0..(TimeOut + 1)
        BY <2>0 DEF Q!PendingQuery
      <4>3. m_pQueue[id].age + 1 \in 0..(TimeOut + 1)
        BY <4>1, <4>2
      <4> QED  BY <2>0, <3>1, <4>3 DEF Q!PendingQuery
    <3> QED  BY <2>2, <3>2
  <2>10. ASSUME UNCHANGED vars PROVE FALSE
    BY <2>1, <2>10 DEF vars, queueVars
  <2> QED  BY <2>6, <2>7, <2>8, <2>9, <2>10 DEF Next, ClientNext, ServerNext
<1> QED  BY <1>1, ServerInvariant, PTL DEF Spec, TakenOnlyByItsAnswer

=============================================================================

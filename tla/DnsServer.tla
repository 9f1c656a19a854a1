------------------------------ MODULE DnsServer ------------------------------
(***************************************************************************)
(* The server of i04Dns/src/server/dns/dnsServer.cpp: one loop that takes  *)
(* a datagram, answers or forwards it, and cleans up when no datagram is   *)
(* waiting. It composes DnsQueue, Upstreams and DnsCache.                  *)
(*                                                                         *)
(* The network is the set forwarded of all queries sent upstream: a server *)
(* answers any of them at any time and any number of times, so answers are *)
(* lost, late, reordered and duplicated; and the answers of Unasked arrive *)
(* at any time though no query asks for them. A datagram is what Decode    *)
(* makes of it; the records of its three sections are one set.             *)
(***************************************************************************)
EXTENDS Integers, FiniteSets

CONSTANTS
    INVALID_QUEUE_ID, MIN_ID, MAX_ID, MAX_QUEUE_SIZE, FirstSpan,
    StepLow, StepHigh, WrapLow, WrapHigh, TimeOut, NoQuery,    \* DnsQueue
    DELAY_HISTORY_SIZE, ServersCount, Uninit,                  \* Upstreams
    MaxTtl, MAX_CACHE_TTL, OverdueCap, NoNode,                 \* DnsCache
    CLEAN_UP_DELAY,  \* in turns of the loop (2000 ms of 10 ms each)
    SrcIds, Clients, Names,
    WhiteList, BlackList,  \* the names a filter of the configuration matches
    LocalNames,      \* names of the configuration's local records
    Headers,         \* headers of the clients' datagrams
    AnswerHeaders,   \* headers of the upstream servers' datagrams
    Unasked,         \* what servers answer unasked, [m_Id, name, srv]
    Zone,            \* Zone[name]: sets of records an answer to name may carry
    SendOutcomes,    \* what net_udp_send may do: TRUE sent, FALSE failed
    MaxAsked         \* bound on the clients' datagrams

VARIABLES
    m_NextID, m_pQueue,
    m_Sent, m_DelayHistory, m_DelayHistoryIndex,
    m_pRecordTree,
    timer,      \* turns of the loop since the last clean-up
    ran,        \* has the loop turned since the clock last ticked?
    forwarded,  \* the network: queries sent upstream, [m_Id, name, srv]
    asked,      \* datagrams of clients so far
    owed,       \* questions asked and not answered yet
    out         \* the datagram sent by the last step

Servers == 1..ServersCount

RecordTypes == {"IPv4", "CNAME", "OTHER"}
Records == [name : Names, type : RecordTypes]

\* isBlackListed: the white list wins.
isBlackListed(name) == IF name \in WhiteList THEN FALSE ELSE name \in BlackList

isRecordTypeSupported(t) == t \in {"IPv4", "CNAME"}

recordFilter(record) ==
    isRecordTypeSupported(record.type) /\ ~isBlackListed(record.name)

\* Faulty variant of SanitizeRecords: filters nothing.
SanitizeNothing(rrs) == rrs

\* CMessage::SanitizeRecords(recordFilter).
SanitizeRecords(rrs) == {r \in rrs : recordFilter(r.record)}

Q == INSTANCE DnsQueue
U == INSTANCE Upstreams
C == INSTANCE DnsCache WITH
         CacheNames <- Names,
         Answers <- {SanitizeRecords(rrs) : rrs \in UNION {Zone[n] : n \in Names}}

\* Servers answer and ask nothing, and a client asks from another address and
\* port than theirs.
ASSUME ServerConstants ==
    /\ Q!QueueConstants /\ U!UpstreamConstants /\ C!CacheConstants
    /\ Zone \in [Names -> SUBSET SUBSET [record : Records, ttl : 0..MaxTtl]]
    /\ SendOutcomes \subseteq BOOLEAN
    /\ {CLEAN_UP_DELAY, MaxAsked} \subseteq Nat
    /\ Clients \cap Servers = {}
    /\ \A h \in AnswerHeaders : h.isAnswer
    /\ Unasked \subseteq [m_Id : Nat, name : Names, srv : Servers]

queueVars == <<m_NextID, m_pQueue>>
upstreamVars == <<m_Sent, m_DelayHistory, m_DelayHistoryIndex>>
vars == <<queueVars, upstreamVars, m_pRecordTree, timer, ran,
          forwarded, asked, owed, out>>

IsRecursionAvailable == ServersCount > 0

Questions == Clients \X SrcIds \X Names

ServerInit ==
    /\ Q!QueueInit /\ U!UpstreamInit /\ C!CacheInit
    /\ timer = 0 /\ ran = FALSE
    /\ forwarded = {} /\ asked = 0
    /\ owed = [q \in Questions |-> 0]
    /\ out = {}

-----------------------------------------------------------------------------
(* Sending. A failed send is lost; no caller looks at the result.          *)

net_udp_send(m) == \E ok \in SendOutcomes : out' = IF ok THEN {m} ELSE {}

sendMsg(m) == net_udp_send(m)

Response(to, id, name, rcode, records) ==
    [to |-> to, m_Id |-> id, name |-> name, isAnswer |-> TRUE,
     responseCode |-> rcode, records |-> records]

answerWithError(msg, sender, rcode) ==
    /\ sendMsg(Response(sender, msg.m_Id, msg.name, rcode, {}))
    /\ UNCHANGED <<queueVars, upstreamVars, m_pRecordTree, forwarded>>

\* The record's addresses, or no record at all.
answerWithLocalData(msg, client) ==
    /\ sendMsg(Response(client, msg.m_Id, msg.name, "NO_ERROR",
           IF msg.name \in LocalNames
             THEN {[name |-> msg.name, type |-> "IPv4"]} ELSE {}))
    /\ UNCHANGED <<queueVars, upstreamVars, m_pRecordTree, forwarded>>

answerFromCache(msg, client) ==
    /\ sendMsg(Response(client, msg.m_Id, msg.name, "NO_ERROR",
                        C!GetNode(msg.name).records))
    /\ UNCHANGED <<queueVars, upstreamVars, m_pRecordTree, forwarded>>

\* Queued, sent under the new id, and counted as sent even if the send failed;
\* or dropped because the queue is full.
forwardMsg(msg, from, srv) ==
    \E id \in Q!EnqueueResults :
        /\ Q!Enqueue(msg.m_Id, from, srv, msg.name, id)
        /\ IF id # INVALID_QUEUE_ID
             THEN /\ sendMsg([to |-> srv, m_Id |-> id, name |-> msg.name,
                              isAnswer |-> FALSE, responseCode |-> "NO_ERROR",
                              records |-> {}])
                  /\ forwarded' = forwarded \cup
                         {[m_Id |-> m.m_Id, name |-> m.name, srv |-> m.to] :
                             m \in out'}
                  /\ U!MessageSent(srv)
             ELSE out' = {} /\ UNCHANGED <<upstreamVars, forwarded>>
        /\ UNCHANGED m_pRecordTree

-----------------------------------------------------------------------------
(* The handlers.                                                           *)

Dropped == out' = {} /\ UNCHANGED <<queueVars, upstreamVars, m_pRecordTree, forwarded>>

\* Faulty variant of handleIPv4Query: any server will do.
handleIPv4QueryAnyServer(msg, from) ==
    IF msg.name \in LocalNames \/ ~msg.h.recursionDesired \/ ~IsRecursionAvailable
      THEN answerWithLocalData(msg, from)
      ELSE IF C!GetNode(msg.name) # NoNode
             THEN answerFromCache(msg, from)
             ELSE \E srv \in Servers : forwardMsg(msg, from, srv)

handleIPv4Query(msg, from) ==
    IF msg.name \in LocalNames \/ ~msg.h.recursionDesired \/ ~IsRecursionAvailable
      THEN answerWithLocalData(msg, from)
      ELSE IF C!GetNode(msg.name) # NoNode
             THEN answerFromCache(msg, from)
             ELSE \E srv \in U!BestServers : forwardMsg(msg, from, srv)

\* Only address queries are served: a CNAME query is dropped.
handleQuery(msg, from) ==
    IF msg.h.responseCode = "NO_ERROR" /\ msg.h.recordType = "IPv4"
      THEN handleIPv4Query(msg, from)
      ELSE Dropped

\* Faulty variant of Matches: whatever name the answer is about.
MatchesAnyName(query, msg, from) == query # NoQuery /\ from = query.m_pServer

\* The query is there, was sent to this server, and asked for this name.
Matches(query, msg, from) ==
    query # NoQuery /\ from = query.m_pServer /\ msg.name = query.m_pName

\* Remove comes before the checks: an answer that fails them still takes the
\* query of its id out of the queue.
handleAnswer(msg, from) ==
    LET query == Q!Get(msg.m_Id)
        rrs == SanitizeRecords(msg.records)
    IN  /\ Q!Remove(msg.m_Id)
        /\ IF Matches(query, msg, from)
             THEN /\ U!MessageReceived(query.m_pServer, query.age)
                  /\ sendMsg(Response(query.m_Src, query.m_SrcId, msg.name,
                                      msg.h.responseCode, {r.record : r \in rrs}))
                  /\ IF msg.h.responseCode = "NO_ERROR" THEN C!Save(msg.name, rrs)
                                                      ELSE UNCHANGED m_pRecordTree
             ELSE out' = {} /\ UNCHANGED <<upstreamVars, m_pRecordTree>>
        /\ UNCHANGED forwarded

\* Decode fails (or the datagram is longer than 512 bytes), or it is truncated.
Unreadable(msg) == ~msg.h.decodes \/ msg.h.truncationFlag

\* Faulty variant of ErrorCode: the black list is not looked at.
ErrorCodeNoBlackList(msg) ==
    IF msg.h.opcode # "QUERY"                           THEN "NOT_IMPLEMENTED"
    ELSE IF msg.h.m_QueriesCount # 1                    THEN "REFUSED"
    ELSE IF msg.h.recordClass # "IN"                    THEN "NOT_IMPLEMENTED"
    ELSE IF ~isRecordTypeSupported(msg.h.recordType)    THEN "NOT_IMPLEMENTED"
    ELSE "NO_ERROR"

\* The checks of handleMsg that are answered with an error, in their order.
ErrorCode(msg) ==
    IF msg.h.opcode # "QUERY"                           THEN "NOT_IMPLEMENTED"
    ELSE IF msg.h.m_QueriesCount # 1                    THEN "REFUSED"
    ELSE IF msg.h.recordClass # "IN"                    THEN "NOT_IMPLEMENTED"
    ELSE IF ~isRecordTypeSupported(msg.h.recordType)    THEN "NOT_IMPLEMENTED"
    ELSE IF isBlackListed(msg.name)                     THEN "REFUSED"
    ELSE "NO_ERROR"

handleMsg(msg, from) ==
    \/ Unreadable(msg) /\ Dropped
    \/ /\ ~Unreadable(msg) /\ ErrorCode(msg) # "NO_ERROR"
       /\ answerWithError(msg, from, ErrorCode(msg))
    \/ /\ ~Unreadable(msg) /\ ErrorCode(msg) = "NO_ERROR"
       /\ IF msg.h.isAnswer THEN handleAnswer(msg, from)
                            ELSE handleQuery(msg, from)

-----------------------------------------------------------------------------
(* The loop of run: one turn per datagram, or per look at an empty socket. *)

\* Faulty variant of NextTimer: the timer does not advance.
NextTimerStuck == timer

\* timer += SOCKET_CHECK_DELAY; it matters only whether it is past
\* CLEAN_UP_DELAY, where the model stops counting.
NextTimer == IF timer <= CLEAN_UP_DELAY THEN timer + 1 ELSE timer

\* owed counts q once more if it was asked, and once less if it was answered.
Settle(asks) ==
    owed' = [q \in Questions |->
        owed[q] + (IF q \in asks THEN 1 ELSE 0)
                - Cardinality({m \in out' : <<m.to, m.m_Id, m.name>> = q})]

\* A datagram of client c arrives.
FromClient(c, id, name, h) ==
    /\ asked < MaxAsked /\ asked' = asked + 1
    /\ handleMsg([h |-> h, m_Id |-> id, name |-> name, records |-> {}], c)
    /\ Settle({<<c, id, name>>})
    /\ timer' = NextTimer /\ ran' = TRUE

\* An answer of f.srv about f.name arrives, under the id f.m_Id.
FromServer(f, h, rrs) ==
    /\ handleMsg([h |-> h, m_Id |-> f.m_Id, name |-> f.name, records |-> rrs], f.srv)
    /\ Settle({})
    /\ timer' = NextTimer /\ ran' = TRUE
    /\ UNCHANGED asked

\* net_udp_recv returns nothing: clean up if it is time to.
Idle ==
    /\ IF NextTimer > CLEAN_UP_DELAY
         THEN timer' = 0 /\ C!RemoveExpired /\ Q!ForEachExpired
         ELSE timer' = NextTimer /\ UNCHANGED <<m_pRecordTree, queueVars>>
    /\ ran' = TRUE /\ out' = {}
    /\ UNCHANGED <<upstreamVars, forwarded, asked, owed>>

\* The clock ticks, at most once per turn of the loop: a turn is far shorter.
Tick ==
    /\ ran /\ ran' = FALSE
    /\ C!CacheTick /\ Q!QueueTick
    /\ out' = {}
    /\ UNCHANGED <<upstreamVars, timer, forwarded, asked, owed>>

ClientNext ==
    \E c \in Clients, id \in SrcIds, name \in Names, h \in Headers :
        FromClient(c, id, name, h)

ServerNext ==
    \E f \in forwarded \cup Unasked, h \in AnswerHeaders :
        \E rrs \in Zone[f.name] : FromServer(f, h, rrs)

Next == ClientNext \/ ServerNext \/ Idle \/ Tick

Spec == ServerInit /\ [][Next]_vars

-----------------------------------------------------------------------------
(* Properties.                                                             *)

S == INSTANCE DnsService WITH
         Blocked <- {name \in Names : isBlackListed(name)},
         Visible <- {record \in Records : recordFilter(record)}

\* Type invariant.
TypeOK ==
    /\ Q!QueueTypeOK /\ U!UpstreamTypeOK /\ C!CacheTypeOK
    /\ timer \in 0..(CLEAN_UP_DELAY + 1) /\ ran \in BOOLEAN
    /\ forwarded \subseteq [m_Id : Q!QueueIds, name : Names, srv : Servers]
    /\ asked \in 0..MaxAsked
    /\ owed \in [Questions -> Int]
    /\ Cardinality(out) <= 1

\* A client is answered at most once per question, under its own id and name,
\* with records it may see, and no blocked name goes upstream - through
\* forwarding, caching, id reuse and late or duplicated answers (DnsService).
ServiceProvided == S!ServiceSpec

\* Why: every pending query stands for a question that is still open, so that
\* the answer that takes it out of the queue is owed to its client.
OwedCoversPending ==
    \A q \in Questions :
        Cardinality({id \in Q!Pending :
            <<m_pQueue[id].m_Src, m_pQueue[id].m_SrcId, m_pQueue[id].m_pName>> = q})
          <= owed[q]

\* Why: SanitizeRecords comes before cache (dnsServer.cpp:346-350), so what is
\* served from the cache later passed the filter too.
CacheFiltered ==
    \A name \in C!Cached : \A r \in m_pRecordTree[name].records : recordFilter(r)

\* The handlers use the upstream servers as Upstreams assumes: queries go to the
\* best server, and a delay is recorded for a server only after a message was
\* sent to it (CSecondaryServer::SetDelay writes at an index that the
\* constructor leaves unset).
UpstreamsUsed == U!UpstreamSpec

\* Something else than the answer to the pending query id may carry its id: an
\* answer about another name or of another server, or a client's datagram with
\* the answer bit.
Mistakable(id) ==
    \/ \E f \in forwarded \cup Unasked :
          /\ f.m_Id = id
          /\ <<f.srv, f.name>> # <<m_pQueue[id].m_pServer, m_pQueue[id].m_pName>>
    \/ id \in SrcIds /\ \E h \in Headers : h.isAnswer

\* handleAnswer takes the query out of the queue before it looks at the sender
\* and the name (dnsServer.cpp:333-336). A query that is not too old leaves with
\* its answer - its server is given the delay, its client the answer under the
\* id and the name it asked with - or because of something that carries its id
\* by mistake; and then nothing but the query is lost: no client, no server and
\* no cached answer hears of it.
TakenOnlyByItsAnswer ==
    [][\A id \in Q!Pending :
          LET query == m_pQueue[id]
          IN  m_pQueue'[id] = NoQuery /\ query.age <= TimeOut =>
                \/ /\ U!MessageReceived(query.m_pServer, query.age)
                   /\ \/ \E m \in out' : <<m.to, m.m_Id, m.name>>
                              = <<query.m_Src, query.m_SrcId, query.m_pName>>
                      \/ FALSE \in SendOutcomes /\ out' = {}
                \/ /\ Mistakable(id) /\ out' = {}
                   /\ UNCHANGED <<upstreamVars, m_pRecordTree>>]_vars

-----------------------------------------------------------------------------
(* Time. The loop runs on (it sleeps 10 ms when idle) and the clock ticks; *)
(* that the socket is found empty again and again is an assumption about   *)
(* the traffic, without which nothing is ever cleaned up.                  *)

FairSpec == Spec /\ WF_vars(Idle) /\ WF_vars(Tick)

\* Every query that is forwarded leaves the queue, by an answer or too old, so
\* that the MAX_QUEUE_SIZE places become free again.
PendingLeaves ==
    \A id \in Q!QueueIds : (m_pQueue[id] # NoQuery) ~> (m_pQueue[id] = NoQuery)

\* What is cached does not stay: it is swept, also when it was replaced by
\* later answers meanwhile.
CachedLeaves ==
    \A name \in Names :
        (m_pRecordTree[name] # NoNode) ~> (m_pRecordTree[name] = NoNode)

=============================================================================

------------------------------ MODULE DnsQueue ------------------------------
(***************************************************************************)
(* CDnsQueue of i04Dns/src/server/dns/dnsQueue.h: the queries that were    *)
(* forwarded to an upstream server and wait for its answer, kept under the *)
(* message id the forwarded query carries.                                 *)
(*                                                                         *)
(* The tree m_pQueue is a total function from ids to queries or NoQuery.   *)
(* m_CreationTime is kept as the age of the query, in ticks, which stops   *)
(* counting one tick after the time-out: no code tells older ages apart    *)
(* (the delay statistics record TimeOut + 1 for them).                     *)
(***************************************************************************)
EXTENDS Integers, FiniteSets

CONSTANTS
    INVALID_QUEUE_ID,  \* 0x0001, what Enqueue returns when the queue is full
    MIN_ID,            \* 0x00FF
    MAX_ID,            \* 0x7FFF
    MAX_QUEUE_SIZE,    \* 0x0800
    FirstSpan,         \* 10: the constructor draws rand(MIN_ID, MIN_ID + 10)
    StepLow, StepHigh, \* 7, 23: an id advances by rand(7, 23)
    WrapLow, WrapHigh, \* 3, 7: and by MIN_ID + rand(3, 7) - MAX_ID past the end
    TimeOut,           \* c_TimeOut, the age at which the server gives a query up
    SrcIds,            \* message ids the clients choose
    Clients,           \* client addresses (m_SrcIp, m_SrcPort)
    Servers,           \* upstream servers (m_pServer)
    Names,             \* query names (m_pName)
    NoQuery            \* the null pointer Get returns for an absent id

ASSUME QueueConstants ==
    /\ {INVALID_QUEUE_ID, MIN_ID, MAX_ID, MAX_QUEUE_SIZE, TimeOut} \subseteq Nat
    /\ {FirstSpan, StepLow, StepHigh, WrapLow, WrapHigh} \subseteq Nat
    /\ INVALID_QUEUE_ID < MIN_ID
    /\ 0 < FirstSpan
    /\ 0 < StepLow /\ StepLow < StepHigh
    /\ WrapLow < WrapHigh
    /\ MIN_ID + FirstSpan <= MAX_ID
    /\ MIN_ID + StepHigh + WrapHigh <= MAX_ID + 2
    /\ NoQuery \notin [m_SrcId : SrcIds, m_Src : Clients, m_pServer : Servers,
                       m_pName : Names, age : 0..(TimeOut + 1)]

VARIABLES
    m_NextID,  \* the id handed out last
    m_pQueue   \* the pending queries, by id

queueVars == <<m_NextID, m_pQueue>>

QueueIds == MIN_ID..MAX_ID

PendingQuery == [m_SrcId : SrcIds, m_Src : Clients, m_pServer : Servers,
                 m_pName : Names, age : 0..(TimeOut + 1)]

\* The ids that are in use.
Pending == {id \in QueueIds : m_pQueue[id] # NoQuery}

Size == Cardinality(Pending)

\* util.cpp: a number from a up to, and not including, b.
rand(a, b) == a..(b - 1)

-----------------------------------------------------------------------------
QueueInit ==
    /\ m_NextID \in rand(MIN_ID, MIN_ID + FirstSpan)
    /\ m_pQueue = [id \in QueueIds |-> NoQuery]

\* Faulty variants of GetNextID: the wrap forgets MIN_ID; it steps back by a
\* little instead of going to the start.
GetNextIDNoMin(old) ==
    {IF old + s <= MAX_ID THEN old + s ELSE old + s + (w - MAX_ID) :
        s \in rand(StepLow, StepHigh), w \in rand(WrapLow, WrapHigh)}

GetNextIDStepsBack(old) ==
    {IF old + s <= MAX_ID THEN old + s ELSE old + s - (MIN_ID + w) :
        s \in rand(StepLow, StepHigh), w \in rand(WrapLow, WrapHigh)}

\* Every value GetNextID may return when the id handed out last is old.
GetNextID(old) ==
    {old + s : s \in {t \in rand(StepLow, StepHigh) : old + t <= MAX_ID}}
        \cup
    {old + s + (MIN_ID + w - MAX_ID) :
        s \in {t \in rand(StepLow, StepHigh) : old + t > MAX_ID},
        w \in rand(WrapLow, WrapHigh)}

\* Faulty variant of Full: one too many.
FullTooLate == Size > MAX_QUEUE_SIZE

\* The guard Enqueue starts with.
Full == Size >= MAX_QUEUE_SIZE

\* Enqueue when it returns localID: Put replaces what the id held, if anything.
Enqueue(id, src, srv, name, localID) ==
    \/ /\ Full
       /\ localID = INVALID_QUEUE_ID
       /\ UNCHANGED queueVars
    \/ /\ ~Full
       /\ localID \in GetNextID(m_NextID)
       /\ m_NextID' = localID
       /\ m_pQueue' = [m_pQueue EXCEPT ![localID] =
              [m_SrcId |-> id, m_Src |-> src, m_pServer |-> srv,
               m_pName |-> name, age |-> 0]]

\* The ids Enqueue may return in this state.
EnqueueResults == IF Full THEN {INVALID_QUEUE_ID} ELSE GetNextID(m_NextID)

\* Get, for any 16-bit id a datagram may carry.
Get(id) == IF id \in QueueIds THEN m_pQueue[id] ELSE NoQuery

\* Faulty variant of Remove: the key is not deleted.
RemoveKeeps(id) == UNCHANGED queueVars

\* Remove: what Get(id) returned leaves the queue (Release only frees it).
Remove(id) ==
    /\ m_pQueue' = [x \in QueueIds |-> IF x = id THEN NoQuery ELSE m_pQueue[x]]
    /\ UNCHANGED m_NextID

\* Faulty variant of ForEachExpired: a tick early.
ForEachExpiredEarly ==
    /\ m_pQueue' = [id \in QueueIds |->
           IF id \in Pending /\ m_pQueue[id].age >= TimeOut
             THEN NoQuery ELSE m_pQueue[id]]
    /\ UNCHANGED m_NextID

\* ForEachExpired(c_TimeOut, ...): strictly older queries leave the queue.
ForEachExpired ==
    /\ m_pQueue' = [id \in QueueIds |->
           IF id \in Pending /\ m_pQueue[id].age > TimeOut
             THEN NoQuery ELSE m_pQueue[id]]
    /\ UNCHANGED m_NextID

\* Time passes (hr_time_get - m_CreationTime grows).
QueueTick ==
    /\ m_pQueue' = [id \in QueueIds |->
           IF id \in Pending /\ m_pQueue[id].age <= TimeOut
             THEN [m_pQueue[id] EXCEPT !.age = @ + 1] ELSE m_pQueue[id]]
    /\ UNCHANGED m_NextID

QueueNext ==
    \/ \E id \in SrcIds, src \in Clients, srv \in Servers, name \in Names :
           \E localID \in EnqueueResults : Enqueue(id, src, srv, name, localID)
    \/ \E id \in Pending : Remove(id)
    \/ ForEachExpired
    \/ QueueTick

QueueSpec == QueueInit /\ [][QueueNext]_queueVars

-----------------------------------------------------------------------------
\* Type invariant: every id handed out lies in MIN_ID..MAX_ID (so it is never
\* INVALID_QUEUE_ID, the value that means "overloaded"), wrap included.
QueueTypeOK ==
    /\ m_NextID \in QueueIds
    /\ m_pQueue \in [QueueIds -> PendingQuery \cup {NoQuery}]

\* The limit Enqueue checks (dnsQueue.h:50) holds whatever the order of
\* enqueues, answers and sweeps, also when an id is handed out twice.
SizeBounded == Size <= MAX_QUEUE_SIZE

\* The two together: however ids wrap and the queue overflows, the next id and
\* the ids in use are valid ones, and there are no more than the limit allows
\* (GetNextID lines 107-113, Enqueue lines 49-65).
IdsAndSizeInRange == QueueTypeOK /\ SizeBounded

=============================================================================

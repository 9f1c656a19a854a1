---------------------------- MODULE MessageMemory ----------------------------
(***************************************************************************)
(* Who owns what the handlers of dnsServer.cpp allocate: the queries and   *)
(* records of messages, the pending queries, and the copies of records in  *)
(* the cache. An answer borrows the queries of the question, or the        *)
(* records of the cache, and has to give them back before it is destroyed. *)
(* The configuration is there all the time (see ConfigMemory).             *)
(*                                                                         *)
(* An object is the sequence of its blocks, in the order in which they are *)
(* released. What the handlers say to whom is the subject of DnsServer:    *)
(* here every decision that does not look at the heap is a choice.         *)
(***************************************************************************)
EXTENDS ConfigMemory

CONSTANTS
    Ids, Names,
    MAX_QUEUE_SIZE,
    Datagrams,     \* see Datagram
    LocalCounts,   \* GetIPsCount of the local records: a record may have no address
    MaxLost        \* bound on what is lost

CQuery == <<DATATYPE_OBJECT, DATATYPE_ARRAY>>                             \* and m_pName
CResourceRecord == <<DATATYPE_OBJECT, DATATYPE_ARRAY, DATATYPE_ARRAY>>    \* m_pName, m_pData
PendingQuery == <<DATATYPE_OBJECT, DATATYPE_ARRAY>>                       \* m_pName
CCacheNode == <<DATATYPE_OBJECT, DATATYPE_ARRAY>>                         \* m_ppRecords

\* Counts of queries and records, how many of them Decode reads, and what it has
\* made of the next record when it finds that it cannot read its data.
HalfRead == {<<>>, <<DATATYPE_OBJECT, DATATYPE_ARRAY>>, CResourceRecord}
Datagram == [counts : [1 .. 4 -> Nat], read : Nat, half : HalfRead]

ASSUME DatagramsAssumption == Datagrams \subseteq Datagram
ASSUME LocalCountsAssumption == LocalCounts \subseteq Nat
ASSUME FiniteAssumption == IsFiniteSet(Ids) /\ IsFiniteSet(Names)

VARIABLES
    memory,
    m_pQueue,        \* [Ids -> the pending query, or <<>>]
    m_pRecordTree,   \* [tree : the tree object or <<>>, nodes : [Names -> Node or NoNode]]
    permanent,       \* the blocks that are never released
    m_pConfig,       \* the lists of the configuration
    lost             \* the pending queries that were dropped without Release,
                     \* and the buffers of files that ended early

memoryVars == <<memory, m_pQueue, m_pRecordTree, permanent, m_pConfig, lost>>

NoNode == [key |-> <<>>, node |-> <<>>, items |-> <<>>]

\* What is there to the end: the configuration, which main allocates before it
\* loads it, and the cache, the queue and the tree of the queue, which run
\* allocates.
Configured == New(EmptyMemory, CConfigFile)
Started(loaded) == New(loaded.memory, <<DATATYPE_OBJECT, DATATYPE_OBJECT, DATATYPE_OBJECT>>)

\* The configuration has been loaded, and run begins.
MemoryInit ==
    /\ \E file \in Files : \E loaded \in {Load(Configured.memory, NoLists, file)} :
           /\ memory = Started(loaded).memory
           /\ m_pConfig = loaded.lists
           /\ permanent = Configured.blocks \o Started(loaded).blocks
           /\ lost = {loaded.leaked} \ {<<>>}
    /\ m_pQueue = [id \in Ids |-> <<>>]
    /\ m_pRecordTree = [tree |-> <<>>, nodes |-> [name \in Names |-> NoNode]]

-----------------------------------------------------------------------------
(* A CMessage is four lists: queries, answers, authority, additional. A    *)
(* list is an array of pointers and the objects they point to.             *)

\* n objects of a shape.
NewObjects(m, n, shape) ==
    LET one(r) == LET new == New(r.memory, shape)
                  IN  [memory |-> new.memory, objects |-> Append(r.objects, new.blocks)]
        made[k \in 0 .. n] == IF k = 0 THEN [memory |-> m, objects |-> <<>>] ELSE one(made[k - 1])
    IN  made[n]

NewList(m, n, shape) ==
    LET array == New(m, <<DATATYPE_ARRAY>>)
        made == NewObjects(array.memory, n, shape)
    IN  [memory |-> made.memory, list |-> [array |-> array.blocks, items |-> made.objects]]

\* FreeMemory.
Destroy(m, message) == FreeLists(m, message)

\* How many queries and records come before list i.
Before(d, i) ==
    LET c == d.counts IN <<0, c[1], c[1] + c[2], c[1] + c[2] + c[3], c[1] + c[2] + c[3] + c[4]>>[i]

Decodes(d) == d.read = Before(d, 5)

\* A record is in its list before its data is read.
WithHalf(r, half) ==
    LET new == New(r.memory, half) IN
    [memory |-> new.memory, list |-> [r.list EXCEPT !.items = Append(@, new.blocks)]]

\* Decode, up to the query or record that cannot be read. The array of the
\* queries is allocated even if there are none.
DecodeList(m, d, i) ==
    LET left == d.read - Before(d, i)
        whole == NewList(m, IF left < d.counts[i] THEN left ELSE d.counts[i],
                         IF i = 1 THEN CQuery ELSE CResourceRecord)
    IN  IF left < 0 \/ (i > 1 /\ d.counts[i] = 0) THEN [memory |-> m, list |-> NoList]
        ELSE IF i > 1 /\ left < d.counts[i] /\ d.half # <<>> THEN WithHalf(whole, d.half)
        ELSE whole

Decode(m, d) ==
    LET next(r, list) == [memory |-> list.memory, message |-> Append(r.message, list.list)]
        decoded[i \in 0 .. 4] ==
            IF i = 0 THEN [memory |-> m, message |-> <<>>]
            ELSE next(decoded[i - 1], DecodeList(decoded[i - 1].memory, d, i))
    IN  decoded[4]

\* SanitizeRecords for one list, r: [memory, items, i]. The pointer to the last
\* record moves to the place of the one that is deleted, which is looked at
\* next; so every record is looked at once.
SanitizeOne(r, drop) ==
    IF r.items[r.i] \notin drop THEN [r EXCEPT !.i = @ + 1]
    ELSE [r EXCEPT !.memory = Delete(@, r.items[r.i]),
                   !.items = Front([@ EXCEPT ![r.i] = Last(r.items)])]

Sanitize(m, list, drop) ==
    LET r[k \in 0 .. Len(list.items)] ==
            IF k = 0 THEN [memory |-> m, items |-> list.items, i |-> 1]
            ELSE SanitizeOne(r[k - 1], drop)
        last == r[Len(list.items)]
    IN  [memory |-> last.memory, list |-> [array |-> list.array, items |-> last.items]]

SanitizeRecords(m, message, drop) ==
    LET answers == Sanitize(m, message[2], drop)
        authority == Sanitize(answers.memory, message[3], drop)
        additional == Sanitize(authority.memory, message[4], drop)
    IN  [memory |-> additional.memory,
         message |-> <<message[1], answers.list, authority.list, additional.list>>]

\* The blocks f[x] of all x in S, one x after the other.
AllOf(f, S) == LET s == SetToSeq(S) IN FlattenSeq([k \in DOMAIN s |-> f[s[k]]])

-----------------------------------------------------------------------------
(* The cache                                                               *)

Cached == {name \in Names : m_pRecordTree.nodes[name] # NoNode}

\* What deleteCacheNode releases.
NodeBlocks(node) == BlocksOf([array |-> node.node, items |-> node.items])

deleteCacheNode(m, node) == Delete(m, NodeBlocks(node))

\* Faulty variant of Replaced: the old node stays.
ReplacedKept(m, old) == m

\* What is in the tree under the name is replaced.
Replaced(m, old) == deleteCacheNode(m, old)

\* Copies of count records, under a copy of the name unless it is there.
Save(m, name, count) ==
    LET old == m_pRecordTree.nodes[name]
        node == New(m, CCacheNode)
        copies == NewObjects(node.memory, count, CResourceRecord)
        tree == New(copies.memory, IF m_pRecordTree.tree = <<>> THEN <<DATATYPE_OBJECT>> ELSE <<>>)
        key == New(tree.memory, <<DATATYPE_ARRAY>>)
        saved(nameCopy) == [tree |-> m_pRecordTree.tree \o tree.blocks,
                            nodes |-> [m_pRecordTree.nodes EXCEPT ![name] =
                                [key |-> nameCopy, node |-> node.blocks, items |-> copies.objects]]]
    IN  IF old # NoNode THEN [memory |-> Replaced(tree.memory, old), cache |-> saved(old.key)]
                        ELSE [memory |-> key.memory, cache |-> saved(key.blocks)]

\* cache: rrs is an array of pointers to the records of the message.
cache(m, name, message, lives) ==
    LET count == Len(message[2].items) + Len(message[3].items) + Len(message[4].items)
        rrs == New(m, <<DATATYPE_ARRAY>>)
        save == Save(rrs.memory, name, count)
    IN  IF count = 0 THEN [memory |-> m, cache |-> m_pRecordTree]
        ELSE IF ~lives THEN [memory |-> Delete(rrs.memory, rrs.blocks), cache |-> m_pRecordTree]
        ELSE [memory |-> Delete(save.memory, rrs.blocks), cache |-> save.cache]

\* The nodes are deleted while the tree is walked, the names with their keys;
\* the tree goes with the last of them.
RemoveExpired(m, expired) ==
    LET nodes == AllOf([name \in Names |-> NodeBlocks(m_pRecordTree.nodes[name])], expired)
        keys == AllOf([name \in Names |-> m_pRecordTree.nodes[name].key], expired)
    IN  [memory |-> Delete(m, nodes \o keys \o
                              IF expired = Cached THEN m_pRecordTree.tree ELSE <<>>),
         cache |-> [tree |-> IF expired = Cached THEN <<>> ELSE m_pRecordTree.tree,
                    nodes |-> [name \in Names |->
                        IF name \in expired THEN NoNode ELSE m_pRecordTree.nodes[name]]]]

-----------------------------------------------------------------------------
(* The handlers. Each ends with the message that came in being destroyed.  *)

\* Faulty variant of NotOurs: keeps the pointers.
NotOursKept(rMsg, borrowed) == rMsg

\* "Clear the pointer. Not ours to delete."
NotOurs(rMsg, borrowed) == [i \in DOMAIN rMsg |-> IF i \in borrowed THEN NoList ELSE rMsg[i]]

\* What Decode makes of a complete datagram.
Decoded(d) == IF Decodes(d) THEN {Decode(memory, d)} ELSE {}

\* Decode fails.
NotDecoded(d) ==
    /\ ~Decodes(d)
    /\ \E in \in {Decode(memory, d)} : memory' = Destroy(in.memory, in.message)
    /\ UNCHANGED <<m_pQueue, m_pRecordTree, permanent, m_pConfig, lost>>

\* handleMsg or handleQuery returns without an answer.
Dropped(d) ==
    /\ \E in \in Decoded(d) : memory' = Destroy(in.memory, in.message)
    /\ UNCHANGED <<m_pQueue, m_pRecordTree, permanent, m_pConfig, lost>>

\* What is left when the answer rMsg, then the message that came in, are destroyed.
Answered(m, in, rMsg, borrowed) == Destroy(Destroy(m, NotOurs(rMsg, borrowed)), in.message)

answerWithError(d) ==
    /\ \E in \in Decoded(d) :
           memory' = Answered(in.memory, in, <<in.message[1], NoList, NoList, NoList>>, {1})
    /\ UNCHANGED <<m_pQueue, m_pRecordTree, permanent, m_pConfig, lost>>

\* pRec: nothing, or the number of addresses of the local record. An array is
\* made for a record without addresses too.
LocalRecords == {<<>>} \cup {<<count>> : count \in LocalCounts}

answerWithLocalData(d, pRec) ==
    /\ d.counts[1] = 1
    /\ \E in \in Decoded(d) :
           \E answers \in {IF pRec = <<>> THEN [memory |-> in.memory, list |-> NoList]
                           ELSE NewList(in.memory, pRec[1], CResourceRecord)} :
               memory' = Answered(answers.memory, in,
                                  <<in.message[1], answers.list, NoList, NoList>>, {1})
    /\ UNCHANGED <<m_pQueue, m_pRecordTree, permanent, m_pConfig, lost>>

answerFromCache(d, name) ==
    LET node == m_pRecordTree.nodes[name] IN
    /\ d.counts[1] = 1
    /\ name \in Cached
    /\ \E in \in Decoded(d) :
           memory' = Answered(in.memory, in,
                              <<in.message[1], [array |-> <<node.node[2]>>, items |-> node.items],
                                NoList, NoList>>, {1, 2, 3, 4})
    /\ UNCHANGED <<m_pQueue, m_pRecordTree, permanent, m_pConfig, lost>>

Pending == {id \in Ids : m_pQueue[id] # <<>>}

\* A query that is pending under the same id is replaced, and not released.
forwardMsg(d, id) ==
    /\ d.counts[1] = 1
    /\ Cardinality(Pending) < MAX_QUEUE_SIZE
    /\ \E in \in Decoded(d) : \E query \in {New(in.memory, PendingQuery)} :
           /\ memory' = Destroy(query.memory, in.message)
           /\ m_pQueue' = [m_pQueue EXCEPT ![id] = query.blocks]
    /\ lost' = lost \cup ({m_pQueue[id]} \ {<<>>})
    /\ Cardinality(lost') <= MaxLost
    /\ UNCHANGED <<m_pRecordTree, permanent, m_pConfig>>

RecordsOf(message) == UNION {Range(message[list].items) : list \in 2 .. 4}

\* The answer to the query id: filtered of any records, sent, cached if it may
\* be, and the query is released.
handleAnswer(d, id, name, noError, lives) ==
    /\ d.counts[1] = 1
    /\ id \in Pending
    /\ \E in \in Decoded(d) : \E drop \in SUBSET RecordsOf(in.message) :
       \E sanitized \in {SanitizeRecords(in.memory, in.message, drop)} :
       \E cached \in {IF noError THEN cache(sanitized.memory, name, sanitized.message, lives)
                      ELSE [memory |-> sanitized.memory, cache |-> m_pRecordTree]} :
           /\ memory' = Destroy(Delete(cached.memory, m_pQueue[id]), sanitized.message)
           /\ m_pRecordTree' = cached.cache
    /\ m_pQueue' = [m_pQueue EXCEPT ![id] = <<>>]
    /\ UNCHANGED <<permanent, m_pConfig, lost>>

\* An answer with the id of a query that it does not belong to: the query has
\* left the queue, and is not released.
unknownAnswer(d, id) ==
    /\ d.counts[1] = 1
    /\ id \in Pending
    /\ \E in \in Decoded(d) : memory' = Destroy(in.memory, in.message)
    /\ m_pQueue' = [m_pQueue EXCEPT ![id] = <<>>]
    /\ lost' = lost \cup {m_pQueue[id]}
    /\ Cardinality(lost') <= MaxLost
    /\ UNCHANGED <<m_pRecordTree, permanent, m_pConfig>>

\* The clean-up, whatever has expired.
Idle(names, ids) ==
    LET removed == RemoveExpired(memory, names)
    IN  /\ memory' = Delete(removed.memory, AllOf(m_pQueue, ids))
        /\ m_pRecordTree' = removed.cache
        /\ m_pQueue' = [id \in Ids |-> IF id \in ids THEN <<>> ELSE m_pQueue[id]]
        /\ UNCHANGED <<permanent, m_pConfig, lost>>

\* The configuration is loaded again, as main's loadConfig would.
Reload(file) ==
    /\ \E loaded \in {Load(memory, m_pConfig, file)} :
           /\ memory' = loaded.memory
           /\ m_pConfig' = loaded.lists
           /\ lost' = lost \cup ({loaded.leaked} \ {<<>>})
    /\ Cardinality(lost') <= MaxLost
    /\ UNCHANGED <<m_pQueue, m_pRecordTree, permanent>>

TurnNext ==
    \/ \E d \in Datagrams :
           \/ NotDecoded(d) \/ Dropped(d) \/ answerWithError(d)
           \/ \E pRec \in LocalRecords : answerWithLocalData(d, pRec)
           \/ \E name \in Names : answerFromCache(d, name)
           \/ \E id \in Ids : forwardMsg(d, id) \/ unknownAnswer(d, id)
           \/ \E id \in Ids, name \in Names, noError \in BOOLEAN :
                  \E lives \in IF noError THEN BOOLEAN ELSE {FALSE} :
                      handleAnswer(d, id, name, noError, lives)
    \/ \E names \in SUBSET Cached, ids \in SUBSET Pending : Idle(names, ids)

MemoryNext == TurnNext \/ \E file \in Files : Reload(file)

MemorySpec == MemoryInit /\ [][MemoryNext]_memoryVars

-----------------------------------------------------------------------------

\* The blocks that the queue, the cache and the configuration hold.
Owned ==
    permanent \o AllOf(m_pQueue, Ids) \o m_pRecordTree.tree \o
    AllOf([name \in Names |-> m_pRecordTree.nodes[name].key
                              \o NodeBlocks(m_pRecordTree.nodes[name])], Names) \o
    BlocksOf(m_pConfig[m_Servers]) \o BlocksOf(m_pConfig[m_WhiteList]) \o
    BlocksOf(m_pConfig[m_BlackList]) \o BlocksOf(m_pConfig[m_pLocalRecords])

\* Nothing is released twice, or as the wrong kind, whoever borrowed it and
\* however far Decode came (dnsServer.cpp:145 and 213, CMessage.h:99-175).
ReleasedOnce == ~memory.wrong

\* Between two turns of the loop every block is owned by exactly one entry of
\* the queue, the cache or the configuration, which all are still there; the
\* messages and the lines of the file have left nothing. All that leaks is a
\* pending query, when an answer takes the wrong one or another takes its id
\* (dnsServer.cpp:354, dnsQueue.h:63), and what was read of a file that ended
\* early (CConfigFile.cpp:407).
NothingElseLeaks ==
    LET leaked == UNION {Range(blocks) : blocks \in lost} IN
    /\ Cardinality(Range(Owned)) = Len(Owned)
    /\ Range(Owned) \cap leaked = {}
    /\ memory.live = Range(Owned) \cup leaked

\* As long as its table has not overflowed, heap_dbg.c lists exactly what is
\* allocated, and it never complains: a complaint is about an overflow, or
\* about a real mistake.
HeapDbgTellsTheTruth ==
    ~memory.overflowed =>
        /\ memory.complained = memory.wrong
        /\ Range(memory.heap) = memory.live /\ Len(memory.heap) = Cardinality(memory.live)

=============================================================================

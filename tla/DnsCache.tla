------------------------------ MODULE DnsCache ------------------------------
(***************************************************************************)
(* CCache of i04Dns/src/server/dns/dnsCache.h: the records of answers,     *)
(* kept under the name of the question.                                    *)
(*                                                                         *)
(* The tree m_pRecordTree is a total function from names to nodes or       *)
(* NoNode (a null tree and an empty one behave alike). m_expirationTime is *)
(* kept relative to the present: ttl is what is left of it in ticks,       *)
(* negative when it is past, and stops at -OverdueCap. All the records of  *)
(* a node get the same time to live, so the node holds it once.            *)
(***************************************************************************)
EXTENDS Integers

CONSTANTS
    CacheNames,          \* names of questions (decoded names are in lower case)
    Records,        \* what a record carries besides its time to live
    MaxTtl,         \* largest time to live an upstream server sends
    Answers,        \* sets of records that answers carry
    MAX_CACHE_TTL,  \* 300
    OverdueCap,     \* bound: how far past its expiry a node is followed
    NoNode          \* the null pointer Get returns

ASSUME CacheConstants ==
    /\ {MaxTtl, OverdueCap} \subseteq Nat
    /\ MAX_CACHE_TTL \in Nat \ {0}
    /\ Answers \subseteq SUBSET [record : Records, ttl : 0..MaxTtl]
    /\ NoNode \notin [records : SUBSET Records, ttl : Int]

VARIABLE m_pRecordTree

Node == [records : SUBSET Records, ttl : (-OverdueCap)..MAX_CACHE_TTL]

Cached == {name \in CacheNames : m_pRecordTree[name] # NoNode}

\* Faulty variants of Expired: a tick late; inverted.
ExpiredLate(node) == node.ttl < 0
ExpiredInverted(node) == node.ttl > 0

\* isExpired: GetTimeToLive turns what is past into 0.
Expired(node) == node.ttl <= 0

-----------------------------------------------------------------------------
CacheInit == m_pRecordTree = [name \in CacheNames |-> NoNode]

\* Faulty variants of LeastTtl: without the cap; the largest instead.
LeastTtlUncapped(rrs) ==
    {min \in {r.ttl : r \in rrs} : \A r \in rrs : min <= r.ttl}

LeastTtlLargest(rrs) ==
    {max \in {r.ttl : r \in rrs} :
        max <= MAX_CACHE_TTL /\ \A r \in rrs : max >= r.ttl}

\* The value of min after Save's loop: the least of MAX_CACHE_TTL and the
\* records' times to live.
LeastTtl(rrs) ==
    {min \in {MAX_CACHE_TTL} \cup {r.ttl : r \in rrs} :
        min <= MAX_CACHE_TTL /\ \A r \in rrs : min <= r.ttl}

\* Save, for a name that is not empty: all records get the least time to live
\* and replace what was kept under the name; nothing is kept of an answer with
\* no records, or one that has expired.
Save(name, rrs) ==
    \E min \in LeastTtl(rrs) :
        IF rrs = {} \/ min <= 0
          THEN UNCHANGED m_pRecordTree
          ELSE m_pRecordTree' = [m_pRecordTree EXCEPT ![name] =
                   [records |-> {r.record : r \in rrs}, ttl |-> min]]

\* Get looks at the name only, not at the time to live.
GetNode(name) == m_pRecordTree[name]

RemoveExpired ==
    m_pRecordTree' = [name \in CacheNames |->
        IF name \in Cached /\ Expired(m_pRecordTree[name])
          THEN NoNode ELSE m_pRecordTree[name]]

\* A second passes (time_timestamp).
CacheTick ==
    m_pRecordTree' = [name \in CacheNames |->
        IF name \in Cached /\ m_pRecordTree[name].ttl > -OverdueCap
          THEN [m_pRecordTree[name] EXCEPT !.ttl = @ - 1]
          ELSE m_pRecordTree[name]]

CacheNext ==
    \/ \E name \in CacheNames, rrs \in Answers : Save(name, rrs)
    \/ RemoveExpired
    \/ CacheTick

CacheSpec == CacheInit /\ [][CacheNext]_m_pRecordTree

-----------------------------------------------------------------------------
\* Type invariant: no node is kept that was not good for at least a tick, and
\* none longer than MAX_CACHE_TTL.
CacheTypeOK == m_pRecordTree \in [CacheNames -> Node \cup {NoNode}]

=============================================================================

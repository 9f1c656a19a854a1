--------------------------- MODULE DnsCacheHistory ---------------------------
(***************************************************************************)
(* CCache with two history variables: origin[name], the records as the     *)
(* server would age them had it kept for each its own time to live, or     *)
(* MAX_CACHE_TTL where that is less; and sinceSweep, the ticks since       *)
(* RemoveExpired last ran (the server runs it only in an idle moment, so   *)
(* that may be long).                                                      *)
(***************************************************************************)
EXTENDS DnsCache

VARIABLES origin, sinceSweep

cacheHistoryVars == <<m_pRecordTree, origin, sinceSweep>>

\* The record with all the time a cache may keep it: its own, within the cap.
Allowed(r) == [r EXCEPT !.ttl = IF @ < MAX_CACHE_TTL THEN @ ELSE MAX_CACHE_TTL]

Aged(r) == [r EXCEPT !.ttl = IF @ > -OverdueCap THEN @ - 1 ELSE @]

(***************************************************************************)
(* The steps are those of CCache; o and n are the histories before (origin *)
(* and sinceSweep), o2 and n2 those after. Which step it is, and the cache *)
(* after it, determine o2 and n2.                                          *)
(***************************************************************************)
CacheHistoryStart(o, n) ==
    /\ CacheInit
    /\ o = [name \in CacheNames |-> {}]
    /\ n = 0

SaveH(name, rrs, o, n, o2, n2) ==
    /\ Save(name, rrs)
    /\ o2 = IF rrs # {} /\ \A r \in rrs : r.ttl > 0
              THEN [o EXCEPT ![name] = {Allowed(r) : r \in rrs}] ELSE o
    /\ n2 = n

RemoveExpiredH(o, n, o2, n2) ==
    /\ RemoveExpired
    /\ o2 = [name \in CacheNames |->
               IF m_pRecordTree'[name] = NoNode THEN {} ELSE o[name]]
    /\ n2 = 0

CacheTickH(o, n, o2, n2) ==
    /\ CacheTick
    /\ o2 = [name \in CacheNames |-> {Aged(r) : r \in o[name]}]
    /\ n2 = IF n <= OverdueCap THEN n + 1 ELSE n

CacheHistoryStep(o, n, o2, n2) ==
    \/ \E name \in CacheNames, rrs \in Answers : SaveH(name, rrs, o, n, o2, n2)
    \/ RemoveExpiredH(o, n, o2, n2)
    \/ CacheTickH(o, n, o2, n2)

CacheHistorySpec ==
    /\ CacheHistoryStart(origin, sinceSweep)
    /\ [][CacheHistoryStep(origin, sinceSweep, origin', sinceSweep')]_cacheHistoryVars

-----------------------------------------------------------------------------
\* The cache never makes a record live longer than its own server allowed, and
\* never longer than MAX_CACHE_TTL, however often its node is replaced by a
\* later answer and however the records of one answer differ (dnsCache.h:57-74).
NeverLivesLonger ==
    \A name \in Cached :
        /\ {r.record : r \in origin[name]} = m_pRecordTree[name].records
        /\ \A r \in origin[name] : m_pRecordTree[name].ttl <= r.ttl

\* Get (dnsCache.h:123) hands out expired nodes; how far past its expiry a node
\* can be is bounded by the time since the last sweep and by nothing else.
StaleBySweep == \A name \in Cached : m_pRecordTree[name].ttl > -sinceSweep

=============================================================================

--------------------------- MODULE DnsQueueHistory ---------------------------
(***************************************************************************)
(* CDnsQueue with a history: how many ids were handed out since the query  *)
(* under each id was put there. GetNextID never asks whether an id is in   *)
(* use, and one query may stay pending while any number of others come and *)
(* go, so MAX_QUEUE_SIZE says nothing about an id coming round again; the  *)
(* length of a lap through MIN_ID..MAX_ID does.                            *)
(***************************************************************************)
EXTENDS DnsQueue

CONSTANT MaxSince  \* where since[id] stops counting, so that states are finitely many

\* The shortest distance in ids between two uses of the same id.
Lap == MAX_ID - MIN_ID - (WrapHigh - 1)

\* The counts stop where nothing depends on them any more: past a lap.
ASSUME MaxSinceIsALap == MaxSince \in Nat /\ (StepHigh - 1) * MaxSince >= Lap

VARIABLE since  \* since[id]: ids handed out after the one that is pending

historyVars == <<m_NextID, m_pQueue, since>>

OneMoreSince(n) == IF n < MaxSince THEN n + 1 ELSE n

(***************************************************************************)
(* The steps are those of CDnsQueue; s are the counts before, t those      *)
(* after. Which step it is, and the queue after it, determine t.           *)
(***************************************************************************)
HistoryStart(s) == QueueInit /\ s = [id \in QueueIds |-> 0]

EnqueueH(localID, s, t) ==
    /\ \E id \in SrcIds, src \in Clients, srv \in Servers, name \in Names :
           Enqueue(id, src, srv, name, localID)
    /\ t = IF Full THEN s
           ELSE [id \in QueueIds |->
                   IF id \in Pending \ {localID} THEN OneMoreSince(s[id]) ELSE 0]

RemoveH(id, s, t) == Remove(id) /\ t = [s EXCEPT ![id] = 0]

\* Counted for pending queries only; 0 for the ids of the others.
ForEachExpiredH(s, t) ==
    /\ ForEachExpired
    /\ t = [id \in QueueIds |-> IF m_pQueue'[id] = NoQuery THEN 0 ELSE s[id]]

TickH(s, t) == QueueTick /\ t = s

HistoryStep(s, t) ==
    \/ \E localID \in EnqueueResults : EnqueueH(localID, s, t)
    \/ \E id \in Pending : RemoveH(id, s, t)
    \/ ForEachExpiredH(s, t)
    \/ TickH(s, t)

HistorySpec ==
    HistoryStart(since) /\ [][HistoryStep(since, since')]_historyVars

-----------------------------------------------------------------------------
\* Where the id handed out last can be, n ids after a query was put under id:
\* n steps ahead of it, or at least one wrap further.
Ahead(next, id, n) ==
    \/ /\ next - id >= StepLow * n
       /\ next - id <= (StepHigh - 1) * n
    \/ (StepHigh - 1) * n >= Lap + (next - id)

\* What makes the property below inductive: GetNextID (dnsQueue.h:107-113) only
\* ever moves forward through MIN_ID..MAX_ID, and past the end loses no more
\* than a lap.
LapInv ==
    \A id \in Pending : since[id] = MaxSince \/ Ahead(m_NextID, id, since[id])

\* An id that is still pending is handed out again (its query is overwritten
\* and leaks, dnsQueue.h:63) only after a whole lap: at least
\* Lap / (StepHigh - 1) ids - 1478 with the constants of the source - were
\* handed out while the first query stayed pending.
ReuseTakesALap ==
    [][\A id \in Pending :
          (m_NextID' # m_NextID /\ m_NextID' = id)
              => (StepHigh - 1) * (since[id] + 1) >= Lap]_historyVars

=============================================================================

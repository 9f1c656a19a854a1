------------------------------ MODULE Upstreams ------------------------------
(***************************************************************************)
(* The upstream servers: CSecondaryServer (a send counter and a ring of    *)
(* the last delays of each server) and getBestServer of dnsServer.cpp,     *)
(* which picks the server the next query is forwarded to.                  *)
(*                                                                         *)
(* The servers are numbered in the order of the configuration's list. The  *)
(* constructor leaves the ring and its index unset: Uninit marks what was  *)
(* not written yet. A delay stays far below 2^32 / DELAY_HISTORY_SIZE, so  *)
(* the 32-bit sum of DelayScore does not wrap.                             *)
(***************************************************************************)
EXTENDS Integers, FiniteSets

CONSTANTS
    DELAY_HISTORY_SIZE,  \* 20, slots of the ring
    TimeOut,             \* c_TimeOut: the delay written when a query is sent
    ServersCount,        \* upstream servers in the configuration
    Uninit               \* content of memory that was never written

ASSUME UpstreamConstants ==
    /\ DELAY_HISTORY_SIZE \in Nat \ {0}
    /\ TimeOut \in Nat
    /\ ServersCount \in Nat
    /\ Uninit \notin Int

VARIABLES
    m_Sent,              \* messages sent to each server
    m_DelayHistory,      \* the ring of each server
    m_DelayHistoryIndex  \* the slot written last

upstreamVars == <<m_Sent, m_DelayHistory, m_DelayHistoryIndex>>

Servers == 1..ServersCount
Slots == 0..(DELAY_HISTORY_SIZE - 1)

\* The delays a server is charged with: a wait is at most TimeOut + 1 ticks.
Delays == 0..(TimeOut + 1)

-----------------------------------------------------------------------------
\* What DelayScore adds up. The number of pairs <<slot, n>> with n at most the
\* delay in the slot is the sum of the delays.
DelaySum(history) ==
    Cardinality({p \in Slots \X (1..(TimeOut + 1)) : p[2] <= history[p[1]]})

\* Faulty variant of DelayScore: the less a new server was tried, the worse.
DelayScoreReversed(s) ==
    IF m_Sent[s] < DELAY_HISTORY_SIZE
      THEN DELAY_HISTORY_SIZE - m_Sent[s]
      ELSE DELAY_HISTORY_SIZE + DelaySum(m_DelayHistory[s])

DelayScore(s) ==
    IF m_Sent[s] < DELAY_HISTORY_SIZE
      THEN m_Sent[s]
      ELSE DELAY_HISTORY_SIZE + DelaySum(m_DelayHistory[s])

\* The order getBestServer goes by: a smaller score, then fewer messages sent,
\* then the earlier place in the configuration.
Beats(s, t) ==
    \/ DelayScore(s) < DelayScore(t)
    \/ DelayScore(s) = DelayScore(t) /\ m_Sent[s] < m_Sent[t]
    \/ DelayScore(s) = DelayScore(t) /\ m_Sent[s] = m_Sent[t] /\ s < t

\* The server getBestServer returns; none when the configuration lists none.
BestServers == {s \in Servers : \A t \in Servers \ {s} : Beats(s, t)}

-----------------------------------------------------------------------------
UpstreamInit ==
    /\ m_Sent = [s \in Servers |-> 0]
    /\ m_DelayHistory = [s \in Servers |-> [i \in Slots |-> Uninit]]
    /\ m_DelayHistoryIndex = [s \in Servers |-> Uninit]

\* m_DelayHistoryIndex++ and % DELAY_HISTORY_SIZE: any slot, the first time.
NextSlots(s) ==
    IF m_DelayHistoryIndex[s] = Uninit THEN Slots
    ELSE {(m_DelayHistoryIndex[s] + 1) % DELAY_HISTORY_SIZE}

SetNextDelay(s, delay) ==
    \E i \in NextSlots(s) :
        /\ m_DelayHistoryIndex' = [m_DelayHistoryIndex EXCEPT ![s] = i]
        /\ m_DelayHistory' = [m_DelayHistory EXCEPT ![s][i] = delay]

\* The slot written last, whichever query it was written for.
SetDelay(s, delay) ==
    /\ m_DelayHistory' =
           [m_DelayHistory EXCEPT ![s][m_DelayHistoryIndex[s]] = delay]
    /\ UNCHANGED m_DelayHistoryIndex

\* Faulty variant of MessageSent: no delay is recorded.
MessageSentUnrecorded(s) ==
    /\ m_Sent' = [m_Sent EXCEPT ![s] = @ + 1]
    /\ UNCHANGED <<m_DelayHistory, m_DelayHistoryIndex>>

MessageSent(s) ==
    /\ m_Sent' = [m_Sent EXCEPT ![s] = @ + 1]
    /\ SetNextDelay(s, TimeOut)

\* Faulty variant of MessageReceived: the delay takes a new slot.
MessageReceivedNext(s, delay) ==
    /\ SetNextDelay(s, delay)
    /\ UNCHANGED m_Sent

MessageReceived(s, delay) ==
    /\ SetDelay(s, delay)
    /\ UNCHANGED m_Sent

\* A query is forwarded, or an answer comes from a server that was sent one.
UpstreamNext ==
    \/ \E s \in BestServers : MessageSent(s)
    \/ \E s \in Servers, d \in Delays : m_Sent[s] > 0 /\ MessageReceived(s, d)

UpstreamSpec == UpstreamInit /\ [][UpstreamNext]_upstreamVars

-----------------------------------------------------------------------------
\* Type invariant.
UpstreamTypeOK ==
    /\ m_Sent \in [Servers -> Nat]
    /\ m_DelayHistory \in [Servers -> [Slots -> Delays \cup {Uninit}]]
    /\ m_DelayHistoryIndex \in [Servers -> Slots \cup {Uninit}]

\* The constructor (CSecondaryServer.cpp:7-10) initialises neither the ring nor
\* its index; all the same DelayScore, which reads the whole ring once m_Sent
\* reaches DELAY_HISTORY_SIZE, never reads a slot nobody wrote.
ScoreReadsWritten ==
    \A s \in Servers :
        m_Sent[s] >= DELAY_HISTORY_SIZE
            => \A i \in Slots : m_DelayHistory[s][i] # Uninit

\* The slot of the k-th last message sent to s, when the ring's index is i.
SlotBack(i, k) == IF k <= i THEN i - k ELSE i + DELAY_HISTORY_SIZE - k

\* Why: the m_Sent[s] slots up to the index are written, around the ring's end
\* (the strengthening of ScoreReadsWritten that SetNextDelay preserves).
RingWritten ==
    \A s \in Servers, k \in Slots :
        k < m_Sent[s] =>
            /\ m_DelayHistoryIndex[s] # Uninit
            /\ m_DelayHistory[s][SlotBack(m_DelayHistoryIndex[s], k)] # Uninit

\* "Give new [servers] a chance" (CSecondaryServer.cpp:31): as long as a server
\* was tried fewer than DELAY_HISTORY_SIZE times, no other one gets more than
\* one message ahead of it, however fast it answers.
WarmUpRoundRobin ==
    \A s, t \in Servers :
        m_Sent[t] < DELAY_HISTORY_SIZE => m_Sent[s] <= m_Sent[t] + 1

=============================================================================

---------------------------- MODULE UpstreamLoad ----------------------------
(***************************************************************************)
(* The upstream servers under load: queries are forwarded to the best      *)
(* server, and each is answered or given up later, in any order. Two       *)
(* history variables keep what the ring is meant to hold: outcome[s][k],   *)
(* the delay of the k-th last query sent to s (TimeOut until it is         *)
(* answered), and overlapped[s], whether s ever had two queries in flight. *)
(***************************************************************************)
EXTENDS Upstreams

CONSTANTS
    MaxDWord,     \* 0xFFFFFFFF, the first bestScore
    MaxQWord,     \* 0xFFFFFFFFFFFFFFFF, the first bestSent
    NoServer,     \* the null pointer
    MaxSent,      \* bound on m_Sent[s]
    MaxInFlight   \* bound on the queries in flight

ASSUME LoadConstants ==
    /\ {MaxSent, MaxInFlight} \subseteq Nat
    /\ MaxQWord \in Nat /\ MaxQWord > MaxSent
    /\ MaxDWord \in Nat /\ MaxDWord > DELAY_HISTORY_SIZE * (TimeOut + 2)
    /\ NoServer \notin 1..ServersCount

VARIABLES
    inFlight,   \* queries sent and not answered: [srv, n], the n-th to srv
    outcome,
    overlapped

loadVars == <<m_Sent, m_DelayHistory, m_DelayHistoryIndex,
              inFlight, outcome, overlapped>>

\* Faulty variant of Consider: the later server wins a tie.
ConsiderLater(best, i) ==
    IF \/ DelayScore(i) < best.score
       \/ DelayScore(i) = best.score /\ m_Sent[i] <= best.sent
      THEN [srv |-> i, score |-> DelayScore(i), sent |-> m_Sent[i]]
      ELSE best

\* One turn of the loop of getBestServer, for the i-th server.
Consider(best, i) ==
    IF \/ DelayScore(i) < best.score
       \/ DelayScore(i) = best.score /\ m_Sent[i] < best.sent
      THEN [srv |-> i, score |-> DelayScore(i), sent |-> m_Sent[i]]
      ELSE best

\* What the loop knows after the first i servers.
scan[i \in 0..ServersCount] ==
    IF i = 0 THEN [srv |-> NoServer, score |-> MaxDWord, sent |-> MaxQWord]
             ELSE Consider(scan[i - 1], i)

getBestServer == scan[ServersCount].srv

LoadInit ==
    /\ UpstreamInit
    /\ inFlight = {}
    /\ outcome = [s \in Servers |-> [k \in Slots |-> Uninit]]
    /\ overlapped = [s \in Servers |-> FALSE]

\* forwardMsg to the best server.
Forward(s) ==
    /\ s = getBestServer
    /\ Cardinality(inFlight) < MaxInFlight /\ m_Sent[s] < MaxSent
    /\ MessageSent(s)
    /\ inFlight' = inFlight \cup {[srv |-> s, n |-> m_Sent[s] + 1]}
    /\ outcome' = [outcome EXCEPT ![s] =
           [k \in Slots |-> IF k = 0 THEN TimeOut ELSE outcome[s][k - 1]]]
    /\ overlapped' = [overlapped EXCEPT ![s] =
           @ \/ \E q \in inFlight : q.srv = s]

\* The answer to q arrives after d ticks.
Answer(q, d) ==
    /\ MessageReceived(q.srv, d)
    /\ inFlight' = inFlight \ {q}
    /\ outcome' = [outcome EXCEPT ![q.srv] =
           [k \in Slots |-> IF k = m_Sent[q.srv] - q.n THEN d ELSE @[k]]]
    /\ UNCHANGED overlapped

\* q leaves the queue without an answer.
GiveUp(q) ==
    /\ inFlight' = inFlight \ {q}
    /\ UNCHANGED <<m_Sent, m_DelayHistory, m_DelayHistoryIndex,
                   outcome, overlapped>>

LoadNext ==
    \/ \E s \in Servers : Forward(s)
    \/ \E q \in inFlight, d \in Delays : Answer(q, d)
    \/ \E q \in inFlight : GiveUp(q)

LoadSpec == LoadInit /\ [][LoadNext]_loadVars

-----------------------------------------------------------------------------
RingHoldsOutcomes(s) ==
    \A k \in Slots :
        k < m_Sent[s] =>
            m_DelayHistory[s][SlotBack(m_DelayHistoryIndex[s], k)] = outcome[s][k]

\* The loop of getBestServer always picks the server that beats all others, so
\* that the servers evolve as Upstreams says (and dnsServer.cpp:313, "should
\* never happen", is right: it picks one whenever there is one).
LoopPicksBest == UpstreamSpec

\* With at most one query in flight at a time, the ring of a server holds
\* exactly the delays of its last DELAY_HISTORY_SIZE queries, TimeOut for those
\* that were given up, across every wrap of the ring.
SequentialHistoryExact ==
    \A s \in Servers : ~overlapped[s] => RingHoldsOutcomes(s)

=============================================================================

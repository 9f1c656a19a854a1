----------------------------- MODULE DnsService -----------------------------
(***************************************************************************)
(* What the DNS forwarder promises to its clients and about the names it   *)
(* blocks, with no queue, cache or upstream servers in sight: a client is  *)
(* answered at most once per question it asked, under the message id and   *)
(* the name it asked with, with records it may see; and nothing about a    *)
(* blocked name is ever asked upstream. DnsServer implements this module.  *)
(***************************************************************************)
EXTENDS Integers

CONSTANTS
    Questions,       \* <<client, message id, name>>
    Blocked,         \* names no one is told about
    Visible          \* records that may be delivered

VARIABLES
    owed,  \* owed[q]: how often q was asked and not answered yet
    out    \* the datagrams sent by the last step, at most one

serviceVars == <<owed, out>>

\* The question a datagram answers.
AnswerTo(m) == <<m.to, m.m_Id, m.name>>

Nothing == out' = {}

\* A datagram leaves: an answer has visible records only, and a question is not
\* about a blocked name.
Proper(m) ==
    /\ m.records \subseteq Visible
    /\ ~m.isAnswer => m.name \notin Blocked

\* An answer to q leaves.
Answers(q) ==
    \E m \in out' : out' = {m} /\ Proper(m) /\ m.isAnswer /\ AnswerTo(m) = q

\* A datagram leaves that is for no client.
PassesOn ==
    \E m \in out' : out' = {m} /\ Proper(m) /\ AnswerTo(m) \notin Questions

ServiceInit ==
    /\ owed = [q \in Questions |-> 0]
    /\ out = {}

\* A question arrives, and is kept, passed on, or answered at once.
Ask(q) ==
    \/ /\ Nothing \/ PassesOn
       /\ owed' = [owed EXCEPT ![q] = @ + 1]
    \/ Answers(q) /\ UNCHANGED owed

\* A question that is still open is answered.
Answer(q) ==
    /\ owed[q] > 0
    /\ Answers(q)
    /\ owed' = [owed EXCEPT ![q] = @ - 1]

\* Nothing a client sees.
Internal == (Nothing \/ PassesOn) /\ UNCHANGED owed

ServiceNext ==
    \/ \E q \in Questions : Ask(q) \/ Answer(q)
    \/ Internal

ServiceSpec == ServiceInit /\ [][ServiceNext]_serviceVars

=============================================================================

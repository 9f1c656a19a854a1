---------------------------- MODULE MCDnsServer ----------------------------
(***************************************************************************)
(* Small instances of DnsServer. Name "bad" is blocked, "exc" is blocked   *)
(* but white-listed, "loc" has a local record.                             *)
(***************************************************************************)
EXTENDS DnsServer, TLC

\* A plain address query, and all headers that differ from it in one field.
PlainQuery ==
    [decodes |-> TRUE, truncationFlag |-> FALSE, opcode |-> "QUERY",
     m_QueriesCount |-> 1, recordClass |-> "IN", recordType |-> "IPv4",
     isAnswer |-> FALSE, recursionDesired |-> TRUE, responseCode |-> "NO_ERROR"]

OneOff(h) ==
    {[h EXCEPT !.decodes = FALSE], [h EXCEPT !.truncationFlag = TRUE],
     [h EXCEPT !.opcode = "STATUS"], [h EXCEPT !.m_QueriesCount = 2],
     [h EXCEPT !.recordClass = "CH"], [h EXCEPT !.recordType = "OTHER"],
     [h EXCEPT !.recordType = "CNAME"], [h EXCEPT !.recursionDesired = FALSE],
     [h EXCEPT !.responseCode = "NAME_ERROR"]}

PlainAnswer == [PlainQuery EXCEPT !.isAnswer = TRUE]

\* For the run about single datagrams. A client may set the answer bit.
AllHeaders == {PlainQuery, PlainAnswer} \cup OneOff(PlainQuery)
AllAnswerHeaders == {PlainAnswer} \cup OneOff(PlainAnswer)

\* For the run about id reuse and time.
PlainHeaders == {PlainQuery, PlainAnswer}
PlainAnswerHeaders == {PlainAnswer}

AddressOf(n, t) == [record |-> [name |-> n, type |-> "IPv4"], ttl |-> t]

\* Answers with nothing, with an address, and with an address among records
\* the filter drops.
FullZone == [n \in Names |->
    {{}, {AddressOf(n, 2)},
     {AddressOf(n, 1), AddressOf("bad", 2),
      [record |-> [name |-> n, type |-> "OTHER"], ttl |-> 1]}}]

PlainZone == [n \in Names |-> {{AddressOf(n, 1)}}]

\* A server answers about a name it was perhaps asked for, under an id that is
\* perhaps in use.
OneUnasked == {[m_Id |-> MIN_ID + 1, name |-> "n1", srv |-> 1]}

\* Clients are only told apart by being different.
Symmetry == Permutations(Clients)

=============================================================================

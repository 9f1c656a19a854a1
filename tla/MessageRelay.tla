---------------------------- MODULE MessageRelay ----------------------------
(***************************************************************************)
(* What a message goes through in dnsServer.cpp: a query is decoded and    *)
(* encoded again for an upstream server, an answer is decoded, sanitized,  *)
(* encoded again for the client and kept in the cache, and later answers   *)
(* are built from what was kept; local names are answered at once. Whom a  *)
(* message is for, and which query an answer belongs to, is the subject of *)
(* DnsServer; here one name is asked.                                      *)
(***************************************************************************)
EXTENDS DnsMessages, Subnets

CONSTANTS
    DNS_MSG_MAX_SIZE,
    ClientId, UpstreamId,   \* m_Id of a query, and under which it is forwarded
    Queries,     \* what clients ask: messages, as received below
    Answers,     \* what upstream servers answer
    Cuttable,    \* queries and answers, of any name, that may arrive shortened
    ShortenedAt, \* the times at which they may: nothing in them depends on it
    Clients,     \* addresses that clients ask from
    LocalIPs,    \* addresses of a local record; <<>> if the name has none
    Listed,      \* interfaces that the operating system lists
    DEFAULT_TIME_TO_LIVE,
    NoNode

VARIABLES
    now,       \* time_timestamp, an int of INT_BITS bits
    m_pNode,   \* the CCacheNode of the name, or NoNode
    got,       \* the answer m_pNode was made of, and its age
    out        \* the datagram sent in this turn of the loop: why, for which
               \* message, its bytes

vars == <<now, m_pNode, got, out>>

\* A message as its sender means it.
Names == Seq(Seq(0 .. 255))
MeantRecords ==
    [name : Names, type : Nat, ttl : 0 .. 2 ^ INT_BITS - 1, data : Seq(0 .. 255), cname : Names]
Messages ==
    [id : 0 .. 65535, query : Names, answer : Seq(MeantRecords), authority : Seq(MeantRecords),
     additional : Seq(MeantRecords)]

ASSUME RelayConstants ==
    /\ Answers \subseteq Messages /\ Queries \subseteq Messages
    /\ Cuttable \subseteq Messages /\ ClientId # UpstreamId
    /\ Clients \subseteq Addresses /\ LocalIPs \subseteq Seq(Addresses)

Sections(m) == <<m.answer, m.authority, m.additional>>

-----------------------------------------------------------------------------
(* The other side of the network                                           *)

PlainName(name) == FlattenSeq([k \in DOMAIN name |-> <<Len(name[k])>> \o name[k]]) \o <<0>>

\* The name at offset p of the bytes w, and the offset after it.
RECURSIVE NameAt(_, _)
NameAt(w, p) ==
    LET byte == w[p + 1] IN
    IF byte >= 192
    THEN [NameAt(w, (byte - 192) * 256 + w[p + 2]) EXCEPT !.next = p + 2]
    ELSE IF byte = 0 THEN [name |-> <<>>, next |-> p + 1]
    ELSE [NameAt(w, p + 1 + byte) EXCEPT !.name = <<SubSeq(w, p + 2, p + 1 + byte)>> \o @]

\* Senders that compress no name, and senders that write the name asked for
\* once: it is at the offset HeaderSize of the message.
NameAsked == <<192, HeaderSize>>
PlainRecord(r, query, compress) ==
    LET name(n) == IF compress /\ n = query THEN NameAsked ELSE PlainName(n)
        data == IF r.type = RECORD_TYPE_CNAME THEN name(r.cname) ELSE r.data
    IN  name(r.name) \o WriteWord(r.type) \o WriteWord(1) \o WriteDWord(r.ttl)
            \o WriteWord(Len(data)) \o data

\* The datagram of m: it may promise more records than it has.
Datagram(m, compress, missing) ==
    LET records == m.answer \o m.authority \o m.additional
    IN  WriteWord(m.id) \o WriteWord(0) \o WriteWord(1)
            \o WriteWord(Len(m.answer)) \o WriteWord(Len(m.authority))
            \o WriteWord(Len(m.additional) + missing)
            \o PlainName(m.query) \o WriteWord(RECORD_TYPE_IPv4) \o WriteWord(1)
            \o FlattenSeq([k \in DOMAIN records |-> PlainRecord(records[k], m.query, compress)])

\* Reading a record, the counts and the sections of a datagram.
RecordAt(w, p) ==
    LET n == NameAt(w, p)
        type == ReadWord(w, n.next)
        data == n.next + 10
        size == ReadWord(w, n.next + 8)
        isName == type = RECORD_TYPE_CNAME
    IN  [next |-> data + size,
         record |-> [name |-> n.name, type |-> type, ttl |-> ReadDWord(w, n.next + 4),
                     data |-> IF isName THEN <<>> ELSE SubSeq(w, data + 1, data + size),
                     cname |-> IF isName THEN NameAt(w, data).name ELSE <<>>]]

RECURSIVE RecordsAt(_, _, _)
RecordsAt(w, p, count) ==
    IF count = 0 THEN [next |-> p, records |-> <<>>]
    ELSE LET first == RecordAt(w, p) IN
         [RecordsAt(w, first.next, count - 1) EXCEPT !.records = <<first.record>> \o @]

Means(w, id, query, bags) ==
    LET q == NameAt(w, HeaderSize)
        answer == RecordsAt(w, q.next + 4, ReadWord(w, 6))
        authority == RecordsAt(w, answer.next, ReadWord(w, 8))
        additional == RecordsAt(w, authority.next, ReadWord(w, 10))
    IN  /\ w # <<>>
        /\ ReadWord(w, 0) = id
        /\ ReadWord(w, 4) = 1 /\ q.name = query
        /\ <<ToBag(answer.records), ToBag(authority.records), ToBag(additional.records)>> = bags
        /\ additional.next = Len(w)

-----------------------------------------------------------------------------
(* The handlers                                                            *)

Nothing == [why |-> "nothing", message |-> <<>>, bytes |-> <<>>]

RelayInit ==
    /\ now \in 0 .. 2 ^ INT_BITS - 1
    /\ m_pNode = NoNode
    /\ got = [answer |-> <<>>, age |-> 0]
    /\ out = Nothing

\* A datagram that would be too long is not sent.
sendMsg(msg) ==
    LET bytes == Encode(msg, now) IN IF Len(bytes) <= DNS_MSG_MAX_SIZE THEN bytes ELSE <<>>

\* Copies of the records, section after section, that all live as long as the
\* one that lives shortest (cache, and CCache::Save).
Save(msg) ==
    LET rrs == msg.m_AnswerRecords \o msg.m_AuthorityRecords \o msg.m_AdditionalRecords
        min == Min({MAX_CACHE_TTL} \cup {GetTimeToLive(rrs[k], now) : k \in DOMAIN rrs})
    IN  IF rrs = <<>> \/ min <= 0 THEN m_pNode
        ELSE [m_Size1 |-> Len(msg.m_AnswerRecords), m_Size2 |-> Len(msg.m_AuthorityRecords),
              m_Size3 |-> Len(msg.m_AdditionalRecords),
              m_ppRecords |-> [k \in DOMAIN rrs |-> SetTimeToLive(rrs[k], min, now)]]

\* The sections that answerFromCache finds in a node.
Slices(node) ==
    [m_AnswerRecords |-> SubSeq(node.m_ppRecords, 1, node.m_Size1),
     m_AuthorityRecords |-> SubSeq(node.m_ppRecords, node.m_Size1 + 1, node.m_Size1 + node.m_Size2),
     m_AdditionalRecords |-> SubSeq(node.m_ppRecords, node.m_Size1 + node.m_Size2 + 1,
                                    node.m_Size1 + node.m_Size2 + node.m_Size3)]

\* What Decode makes of a datagram; behind it the buffer of run holds what the
\* longer datagrams before left there.
Received(datagram) == Decode(datagram \o [k \in 1 .. 16 |-> 0], Len(datagram), now)

handleAnswer(m, compress) ==
    LET datagram == Datagram(m, compress, 0)
        msg == [SanitizeRecords(Received(datagram)) EXCEPT !.m_Id = ClientId]
    IN  /\ out = Nothing
        /\ m_pNode = NoNode    \* an answer to a name in the cache: see DnsCache
        /\ Len(datagram) <= DNS_MSG_MAX_SIZE
        /\ Received(datagram).ok
        /\ out' = [why |-> "answer", message |-> m, bytes |-> sendMsg(msg)]
        /\ m_pNode' = Save(msg)
        /\ got' = IF m_pNode' = NoNode THEN got ELSE [answer |-> m, age |-> 0]
        /\ UNCHANGED now

answerFromCache(q) ==
    /\ out = Nothing
    /\ m_pNode # NoNode
    /\ out' = [why |-> "cache", message |-> q,
               bytes |-> sendMsg([m_Flags |-> 0] @@ Slices(m_pNode)
                                 @@ Received(Datagram(q, FALSE, 0)))]
    /\ UNCHANGED <<now, m_pNode, got>>

\* A record for every address; if there is one, a loopback address, for the
\* address of this host that is nearest to the client.
answerWithLocalData(q, ips, client, listed) ==
    LET msg == Received(Datagram(q, FALSE, 0))
        data == IF Len(ips) = 1 /\ isLoopBack(ips[1])
                THEN <<findBestSubnet(client, getNetworkInterfaces(listed))>> ELSE ips
        record(ip) == Record(msg.m_Queries[1].m_pName, RECORD_TYPE_IPv4, 1, DEFAULT_TIME_TO_LIVE,
                             now, ip, <<>>)
        rMsg == [m_Id |-> msg.m_Id, m_Flags |-> 0, m_Queries |-> msg.m_Queries,
                 m_AnswerRecords |-> [k \in DOMAIN data |-> record(data[k])],
                 m_AuthorityRecords |-> <<>>, m_AdditionalRecords |-> <<>>]
    IN  /\ out = Nothing
        /\ m_pNode = NoNode    \* a local name is never forwarded, nor cached
        /\ out' = [why |-> "local", bytes |-> sendMsg(rMsg),
                   message |-> [q |-> q, ips |-> ips, client |-> client, listed |-> listed]]
        /\ UNCHANGED <<now, m_pNode, got>>

forwardMsg(q) ==
    LET msg == [Received(Datagram(q, FALSE, 0)) EXCEPT !.m_Id = UpstreamId]
    IN  /\ out = Nothing
        /\ m_pNode = NoNode
        /\ out' = [why |-> "forward", message |-> q, bytes |-> sendMsg(msg)]
        /\ UNCHANGED <<now, m_pNode, got>>

\* The flags of an error that is not implemented: an answer, authoritative,
\* with recursion available.
NotImplemented == 2 ^ 15 + 2 ^ 10 + 2 ^ 7 + 4

answerWithError(msg) ==
    sendMsg([m_Id |-> msg.m_Id, m_Flags |-> NotImplemented, m_Queries |-> msg.m_Queries,
             m_AnswerRecords |-> <<>>, m_AuthorityRecords |-> <<>>, m_AdditionalRecords |-> <<>>])

\* What is sent for a message, from the first check to the last.
handleMsg(msg, isAnswer) ==
    IF ~msg.ok THEN <<>>
    ELSE IF \/ msg.m_Queries[1].m_RecordClass # 1
            \/ ~isRecordTypeSupported(msg.m_Queries[1].m_RecordType)
    THEN answerWithError(msg)
    ELSE IF isAnswer THEN sendMsg([SanitizeRecords(msg) EXCEPT !.m_Id = ClientId])
    ELSE IF msg.m_Queries[1].m_RecordType = RECORD_TYPE_IPv4
    THEN sendMsg([msg EXCEPT !.m_Id = UpstreamId])
    ELSE <<>>

\* Of a datagram only the first size bytes arrive, or all of them but not the
\* record that its counts promise last. Behind them the buffer of run holds
\* nothing, or the same datagram, which had arrived whole before.
Shortened ==
    /\ out = Nothing
    /\ m_pNode = NoNode
    /\ now \in ShortenedAt
    /\ \E m \in Cuttable, compress \in BOOLEAN, missing \in 0 .. 1, wholeBefore \in BOOLEAN :
           LET datagram == Datagram(m, compress, missing)
               zeros == [k \in 1 .. 16 |-> 0]
               behind(size) == IF wholeBefore THEN SubSeq(datagram, size + 1, Len(datagram)) \o zeros
                               ELSE zeros
               received(size) == Decode(SubSeq(datagram, 1, size) \o behind(size), size, now)
           IN  /\ Len(datagram) <= DNS_MSG_MAX_SIZE
               /\ \E size \in 0 .. Len(datagram) - (1 - missing) :
                      out' = [why |-> "shortened",
                              message |-> [m |-> m, compress |-> compress,
                                           lacks |-> Len(datagram) - size],
                              bytes |-> handleMsg(received(size), m.id = UpstreamId)]
    /\ UNCHANGED <<now, m_pNode, got>>

\* At most the clean-up period passes after a node has expired; far less than
\* half the range of an int.
Tick ==
    /\ out = Nothing
    /\ got.age < 2 ^ (INT_BITS - 1) - 1 \/ m_pNode = NoNode
    /\ now' = (now + 1) % (2 ^ INT_BITS)
    /\ got' = IF m_pNode = NoNode THEN got ELSE [got EXCEPT !.age = @ + 1]
    /\ UNCHANGED <<m_pNode, out>>

\* The next turn of the loop.
Turn ==
    /\ out # Nothing
    /\ out' = Nothing
    /\ UNCHANGED <<now, m_pNode, got>>

RemoveExpired ==
    /\ out = Nothing
    /\ m_pNode # NoNode
    /\ isExpired(m_pNode.m_ppRecords[1], now)
    /\ m_pNode' = NoNode
    /\ got' = [answer |-> <<>>, age |-> 0]
    /\ UNCHANGED <<now, out>>

RelayNext ==
    \/ \E m \in Answers, compress \in BOOLEAN : handleAnswer(m, compress)
    \/ Shortened
    \/ \E q \in Queries : answerFromCache(q) \/ forwardMsg(q)
    \/ \E q \in Queries, ips \in LocalIPs, client \in Clients, listed \in Listed :
           answerWithLocalData(q, ips, client, listed)
    \/ Turn
    \/ Tick
    \/ RemoveExpired

RelaySpec == RelayInit /\ [][RelayNext]_vars

-----------------------------------------------------------------------------

Lowercase(name) ==
    [k \in DOMAIN name |-> [j \in DOMAIN name[k] |-> CHAR_LOWERCASE(name[k][j])]]

\* The bags of the records that pass p, names in lower case, with the time to
\* live that ttl says.
Expected(m, p(_), ttl(_)) ==
    LET shown(r) == [r EXCEPT !.name = Lowercase(@), !.cname = Lowercase(@), !.ttl = ttl(r)]
        kept(s) == SelectSeq([k \in DOMAIN s |-> shown(s[k])], p)
    IN  [k \in 1 .. 3 |-> ToBag(kept(Sections(m)[k]))]

Wanted(r) == isRecordTypeSupported(r.type) /\ r.name \notin isBlackListed

\* A time to live that is no positive int counts as none.
Lives(ttl) == IF ttl < 2 ^ (INT_BITS - 1) THEN ttl ELSE 0

\* The client reads what the upstream server wrote, section by section, without
\* the records that the filter drops: through DecodeSN and EncodeSN, the names
\* compressed anew, and the records that SanitizeRecords moves
\* (dnsServer.cpp:346-348).
AnswerArrives ==
    out.why = "answer" =>
        Means(out.bytes, ClientId, Lowercase(out.message.query),
              Expected(out.message, Wanted, LAMBDA r : Lives(r.ttl)))

\* An answer from the cache is the answer it was made of, in the same sections,
\* and says how long its shortest-lived record still lives, also when the int
\* that counts the seconds wraps meanwhile (dnsServer.cpp:202-207).
CacheAnswers ==
    out.why = "cache" =>
        LET ttls == {Lives(r.ttl) : r \in {x \in Range(FlattenSeq(Sections(got.answer))) :
                                              Wanted([x EXCEPT !.name = Lowercase(@)])}}
            left == Min({MAX_CACHE_TTL} \cup ttls) - got.age
        IN  Means(out.bytes, ClientId, Lowercase(out.message.query),
                  Expected(got.answer, Wanted, LAMBDA r : IF left < 0 THEN 0 ELSE left))

\* The upstream server reads what the client asked, and the records that came
\* with it, unless one of them belongs to the root: EncodeSN writes its name as
\* two bytes of which only the first is the name.
QueryArrives ==
    out.why = "forward" /\ (\A k \in 1 .. 3 : \A r \in Range(Sections(out.message)[k]) : r.name # <<>>) =>
        Means(out.bytes, UpstreamId, Lowercase(out.message.query),
              Expected(out.message, LAMBDA r : TRUE, LAMBDA r : Lives(r.ttl)))

\* A client that asks for a local name gets all its addresses, if they fit into
\* DNS_MSG_MAX_SIZE bytes with the name written once, and nothing otherwise. For
\* a loopback address it gets one of this host's, of which no other is in a
\* smaller network of whole bytes with the client - unless the client is in no
\* such network with any (dnsServer.cpp:174, and evalMask).
LocalAnswerArrives ==
    out.why = "local" =>
        LET query == Lowercase(out.message.q.query)
            ips == out.message.ips
            client == out.message.client
            own == Range(getNetworkInterfaces(out.message.listed))
            common(ip) == CommonBytes(client, ip)
            nearest == {ip \in own : \A other \in own : common(ip) >= common(other)}
            answered(list) ==
                Means(out.bytes, ClientId, query,
                      <<ToBag([k \in DOMAIN list |->
                            [name |-> query, type |-> RECORD_TYPE_IPv4,
                             ttl |-> DEFAULT_TIME_TO_LIVE, data |-> list[k], cname |-> <<>>]]),
                        ToBag(<<>>), ToBag(<<>>)>>)
        IN  IF HeaderSize + Len(PlainName(query)) + 4 + 16 * Len(ips) > DNS_MSG_MAX_SIZE
            THEN out.bytes = <<>>
            ELSE IF Len(ips) = 1 /\ isLoopBack(ips[1])
            THEN \E ip \in own \cup {client} :
                     /\ answered(<<ip>>)
                     /\ (\E other \in own : common(other) > 0) => ip \in nearest
            ELSE answered(ips)

\* What came in one datagram goes out in one: encoding never needs more than
\* DNS_MSG_MAX_SIZE bytes for a message that did not, so that the client of a
\* received answer is answered (dnsServer.cpp:116).
AnswersFit == out.why \in {"answer", "cache"} => out.bytes # <<>>

\* A message that ends in a compressed alias lacks a byte of it, or both.
LacksPointer(cut) ==
    LET records == FlattenSeq(Sections(cut.m)) IN
    /\ cut.lacks \in 1 .. 2 /\ cut.compress
    /\ records # <<>> /\ Last(records).type = RECORD_TYPE_CNAME
    /\ Last(records).cname = cut.m.query

\* Wherever a datagram is cut, in a name, a number, a pointer or between two
\* records, and whatever lies behind it in the buffer: nobody is sent records
\* or a question made of what is there. At most the sender is told that its
\* class is not implemented - when the datagram ends with the name, which is
\* then read as type and class (CQuery.h:55).  There is one exception: DecodeSN
\* takes a pointer that ends the datagram from behind it (protocol.h:78-94).
NothingMadeUp ==
    out.why = "shortened" =>
        \/ out.bytes = <<>>
        \/ /\ ReadWord(out.bytes, 2) = NotImplemented
           /\ \A count \in {6, 8, 10} : ReadWord(out.bytes, count) = 0
        \/ LacksPointer(out.message)

=============================================================================

--------------------------- MODULE MCMessageRelay ---------------------------
(* The name b.a is asked for, in upper or lower case. Records of it, of a    *)
(* name it ends in, of a longer name that ends in it, of a blocked name and  *)
(* of a type that is not supported, some of them in two sections.            *)
EXTENDS MessageRelay

a == <<97>>
b == <<98>>
B == <<66>>
ba == <<b, a>>
Ba == <<B, a>>
cba == <<<<99, 99>>, b, a>>
blocked == <<<<120>>, a>>

MCIsBlackListed == {blocked}

Meant(name, ttl, type, data, cname) ==
    [name |-> name, ttl |-> ttl, type |-> type, data |-> data, cname |-> cname]
Address(name, ttl) == Meant(name, ttl, RECORD_TYPE_IPv4, <<10, 0, 0, 1>>, <<>>)
Alias(name, cname, ttl) == Meant(name, ttl, RECORD_TYPE_CNAME, <<>>, cname)
Other(name, ttl) == Meant(name, ttl, 28, <<1, 2>>, <<>>)
Opt == Meant(<<>>, 0, 41, <<>>, <<>>)

Message(id, query, answer, authority, additional) ==
    [id |-> id, query |-> query, answer |-> answer, authority |-> authority,
     additional |-> additional]

\* Records with this time to live, or another.
Pool(t) ==
    {Address(ba, t), Address(cba, 3), Alias(ba, cba, t), Alias(cba, <<a>>, 2),
     Address(blocked, t), Other(<<a>>, 1)}
Lists(t) ==
    {<<>>} \cup {<<r>> : r \in Pool(t)} \cup {<<r, s>> : r, s \in Pool(t)}
    \cup {<<Other(ba, t), Address(blocked, 1), Alias(ba, cba, t), Address(cba, 2)>>,
          <<Alias(ba, blocked, 3), Address(blocked, 1), Other(ba, t), Other(cba, t)>>}

AnswersWith(t) ==
    {Message(UpstreamId, ba, answer, <<>>, <<>>) : answer \in Lists(t)} \cup
    {Message(UpstreamId, Ba, answer, <<Other(<<a>>, 3)>>, <<Address(cba, t)>>) :
        answer \in Lists(t)} \cup
    {Message(UpstreamId, ba, answer, <<Address(<<a>>, t)>>, <<Address(cba, 3), Other(<<a>>, 1)>>) :
        answer \in Lists(t)} \cup
    {Message(UpstreamId, ba, answer, <<>>, <<Address(ba, t), Address(ba, 3)>>) :
        answer \in Lists(t)}

\* Times to live of 2, and of 9, which is no positive int of four bits.
\* A name that is longer than the fixed fields of a record.
long == <<[k \in 1 .. 12 |-> 97 + k], a>>

\* Answers that may arrive shortened: with nothing, an address, an alias, an
\* alias that is another's target or longer than what follows it, and records
\* in each section.
CutAnswers ==
    {Message(UpstreamId, ba, answer, <<>>, <<>>) :
        answer \in {<<>>, <<Address(ba, 2)>>, <<Alias(ba, cba, 2)>>, <<Alias(cba, ba, 2)>>,
                    <<Alias(ba, long, 2)>>, <<Alias(ba, long, 2), Address(long, 3)>>}}
    \cup {Message(UpstreamId, long, <<Alias(long, ba, 2)>>, <<Other(<<a>>, 3)>>, <<Alias(ba, long, 2)>>)}

MCAnswers == AnswersWith(2) \cup AnswersWith(9)

MCQueries ==
    {Message(ClientId, ba, <<>>, <<>>, additional) :
        additional \in {<<>>, <<Opt>>, <<Other(ba, 3)>>, <<Other(cba, 1), Address(cba, 3)>>}}
    \cup {Message(ClientId, Ba, <<>>, <<>>, <<>>)}

MCCuttable == CutAnswers \cup MCQueries \cup {Message(ClientId, long, <<>>, <<>>, <<>>)}

\* Interfaces that are down, of another family, in the network of a client, and
\* next to it.
Listing(addresses) == [k \in DOMAIN addresses |-> [family |-> "AF_INET", addr |-> addresses[k]]]
MCListed ==
    {Listing(<<<<127, 0, 0, 1>>, x, y>>) :
        x \in {<<10, 0, 1, 128>>, <<10, 64, 0, 1>>, <<0, 0, 0, 0>>},
        y \in {<<10, 0, 0, 1>>, <<10, 0, 1, 128>>, <<192, 0, 0, 7>>}}
    \cup {<<[family |-> "AF_INET6", addr |-> <<10, 0, 0, 9>>]>>}
MCClients == {<<10, 0, 0, 9>>, <<10, 0, 1, 1>>, <<192, 0, 0, 7>>, <<127, 0, 0, 1>>}
Several(n) == [k \in 1 .. n |-> <<10, 0, 0, k>>]
MCLocalIPs == {<<<<127, 0, 0, 1>>>>} \cup {Several(n) : n \in 0 .. 5}

=============================================================================

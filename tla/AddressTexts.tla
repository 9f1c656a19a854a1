---------------------------- MODULE AddressTexts ----------------------------
(***************************************************************************)
(* Addresses as text: the two readers of the configuration, ip4FromString  *)
(* (util.cpp) for local records and net_addr_from_str (system.c) for       *)
(* servers. A text is a sequence of characters; behind its end is its      *)
(* terminating 0. Texts have no number of more digits than an int holds,   *)
(* no more than three dots in a word of a record, and are short enough for *)
(* the buffers of DnsServerFromString and net_addr_from_str.               *)
(***************************************************************************)
EXTENDS Integers, Sequences, SequencesExt, FiniteSetsExt

CONSTANT inet_pton    \* the 16 bytes of each text that is an IPv6 address

Digits == {"0", "1", "2", "3", "4", "5", "6", "7", "8", "9"}
DigitValue ==
    ("0" :> 0) @@ ("1" :> 1) @@ ("2" :> 2) @@ ("3" :> 3) @@ ("4" :> 4)
    @@ ("5" :> 5) @@ ("6" :> 6) @@ ("7" :> 7) @@ ("8" :> 8) @@ ("9" :> 9)

Number(s) == FoldLeft(LAMBDA n, c : 10 * n + DigitValue[c], 0, s)

CharAt(s, i) == IF i <= Len(s) THEN s[i] ELSE "\\0"

-----------------------------------------------------------------------------
(* net_addr_from_str. Reading goes on at i, as long as it is ok.           *)

\* A number, up to the first character that is no digit: at most max.
parse_int(r, s, max) ==
    LET next == Min({k \in r.i .. Len(s) + 1 : CharAt(s, k) \notin Digits})
        n == Number(SubSeq(s, r.i, next - 1))
    IN  IF r.ok /\ next > r.i /\ n <= max
        THEN [ok |-> TRUE, i |-> next, read |-> Append(r.read, n)]
        ELSE [r EXCEPT !.ok = FALSE]

parse_uint8(r, s) == parse_int(r, s, 255)
parse_uint16(r, s) == parse_int(r, s, 65535)

parse_char(r, c, s) ==
    IF r.ok /\ CharAt(s, r.i) = c THEN [r EXCEPT !.i = @ + 1] ELSE [r EXCEPT !.ok = FALSE]

AF_INET == <<2, 0>>      \* sa_family, as its bytes lie in memory
AF_INET6 == <<10, 0>>

\* What sockaddr_to_netaddr reads in sa6, to whose beginning inet_pton has
\* written the address: the family is the first two bytes of the address, the
\* port the next two. (An address of IPv6 would have its second half from
\* behind what was written.)
sockaddr_to_netaddr(bytes) ==
    LET port == 256 * bytes[3] + bytes[4] IN
    CASE SubSeq(bytes, 1, 2) = AF_INET ->
             [ok |-> TRUE, type |-> {"IPV4"}, ip |-> SubSeq(bytes, 5, 8), port |-> port]
      [] SubSeq(bytes, 1, 2) = AF_INET6 ->
             [ok |-> TRUE, type |-> {"IPV6"}, ip |-> SubSeq(bytes, 9, 16), port |-> port]
      [] OTHER -> [ok |-> TRUE, type |-> {}, ip |-> <<>>, port |-> 0]

\* An address in brackets, which have to be closed.
addr6_from_str(s) ==
    LET close == Min({k \in 2 .. Len(s) + 1 : CharAt(s, k) \in {"]", "\\0"}})
        text == SubSeq(s, 2, close - 1)
        addr == sockaddr_to_netaddr(inet_pton[text])
        port == parse_uint16(parse_char([ok |-> TRUE, i |-> close + 1, read |-> <<>>], ":", s), s)
    IN  CASE text \notin DOMAIN inet_pton \/ CharAt(s, close) # "]" -> [ok |-> FALSE]
          [] CharAt(s, close + 1) # ":" -> addr
          [] OTHER -> IF port.ok THEN [addr EXCEPT !.port = port.read[1]] ELSE [ok |-> FALSE]

\* What follows the address is not looked at, unless it is a port.
addr4_from_str(s) ==
    LET first == parse_uint8([ok |-> TRUE, i |-> 1, read |-> <<>>], s)
        bytes == FoldLeft(LAMBDA r, k : parse_uint8(parse_char(r, ".", s), s), first, <<2, 3, 4>>)
        port == parse_uint16(parse_char(bytes, ":", s), s)
    IN  CASE ~bytes.ok -> [ok |-> FALSE]
          [] bytes.ok /\ CharAt(s, bytes.i) # ":" ->
                 [ok |-> TRUE, type |-> {"IPV4"}, ip |-> bytes.read, port |-> 0]
          [] bytes.ok /\ CharAt(s, bytes.i) = ":" ->
                 IF port.ok
                 THEN [ok |-> TRUE, type |-> {"IPV4"}, ip |-> bytes.read, port |-> port.read[5]]
                 ELSE [ok |-> FALSE]

net_addr_from_str(s) == IF CharAt(s, 1) = "[" THEN addr6_from_str(s) ELSE addr4_from_str(s)

\* As much of src as the buffer holds.
str_append(dst, src, dst_size) ==
    dst \o SubSeq(src, 1, Min({Len(src), dst_size - 1 - Len(dst)}))

DnsServerFromString(s) == net_addr_from_str(str_append(s, <<":", "5", "3">>, 32))

-----------------------------------------------------------------------------
(* ip4FromString, from the character at start                              *)

ReadByte(r, c) ==
    LET n == 10 * Last(r.bytes) + DigitValue[c] IN
    IF n > 255 THEN [r EXCEPT !.going = FALSE]
    ELSE [r EXCEPT !.bytes = Append(Front(@), n), !.digitsFound = @ + 1, !.i = @ + 1]

ReadChar(r, c) ==
    CASE ~r.going -> r
      [] r.going /\ c \in {"\\0", " ", ":"} ->
             [r EXCEPT !.going = FALSE, !.ok = Len(r.bytes) = 4 /\ r.digitsFound > 0]
      [] r.going /\ c = "." ->
             IF r.digitsFound = 0 THEN [r EXCEPT !.going = FALSE]
             ELSE [r EXCEPT !.bytes = Append(@, 0), !.digitsFound = 0, !.i = @ + 1]
      [] r.going /\ c \in Digits -> ReadByte(r, c)
      [] OTHER -> [r EXCEPT !.going = FALSE]

ip4FromString(s, start) ==
    FoldLeft(ReadChar,
             [going |-> TRUE, ok |-> FALSE, bytes |-> <<0>>, digitsFound |-> 0, i |-> start],
             Append(SubSeq(s, start, Len(s)), "\\0"))

\* The addresses from i on; a text that is none makes the line invalid.
RECURSIVE AddressesFrom(_, _, _)
AddressesFrom(s, i, ips) ==
    LET a == ip4FromString(s, i) IN
    CASE i > Len(s) -> [ok |-> TRUE, ips |-> ips]
      [] i <= Len(s) /\ s[i] = " " -> AddressesFrom(s, i + 1, ips)
      [] i <= Len(s) /\ s[i] # " " /\ a.ok -> AddressesFrom(s, a.i, Append(ips, a.bytes))
      [] OTHER -> [ok |-> FALSE, ips |-> <<>>]

\* LocalRecordFromString, for a line of more than one word: behind its name.
RecordAddresses(s) == AddressesFrom(s, 1 + SelectInSeq(s, LAMBDA c : c = " "), <<>>)

-----------------------------------------------------------------------------
(* What a text means: four numbers of a byte, with dots between            *)

\* The positions of c in s cut it into parts.
Cut(s, c) ==
    LET at(k) == IF k = 0 THEN 0 ELSE IF k > Cardinality({p \in DOMAIN s : s[p] = c}) THEN Len(s) + 1
                 ELSE CHOOSE p \in DOMAIN s :
                          s[p] = c /\ Cardinality({q \in 1 .. p : s[q] = c}) = k
    IN  [k \in 1 .. 1 + Cardinality({p \in DOMAIN s : s[p] = c}) |-> SubSeq(s, at(k - 1) + 1, at(k) - 1)]

IsNumber(s, max) == s # <<>> /\ Range(s) \subseteq Digits /\ Number(s) <= max

IsAddress(s) == Len(Cut(s, ".")) = 4 /\ \A part \in Range(Cut(s, ".")) : IsNumber(part, 255)
AddressIn(s) == [k \in 1 .. 4 |-> Number(Cut(s, ".")[k])]

\* An address is a server at port 53, or at the port it names; nothing becomes
\* one that does not begin with an address. With text behind it, the address
\* is a server at port 0 (DnsServerFromString appends :53 behind that text).
\* An IPv6 address is taken, but only one that begins with the bytes of a family
\* has a type: net_udp_send sends nothing to the others.
ServersAsMeant(texts) ==
    \A s \in texts :
        LET parts == Cut(s, ":")
            server == DnsServerFromString(s)
            at(ip, port) == [ok |-> TRUE, type |-> {"IPV4"}, ip |-> ip, port |-> port]
        IN  /\ IsAddress(s) => server = at(AddressIn(s), 53)
            /\ Len(parts) = 2 /\ IsAddress(parts[1]) /\ IsNumber(parts[2], 65535) =>
                   server = at(AddressIn(parts[1]), Number(parts[2]))
            /\ server.ok /\ s[1] = "[" =>
                   \E text \in DOMAIN inet_pton :
                       /\ IsPrefix(<<"[">> \o text \o <<"]">>, s)
                       /\ server.type # {} => SubSeq(inet_pton[text], 1, 2) \in {AF_INET, AF_INET6}
            /\ server.ok /\ s[1] # "[" => \E k \in DOMAIN s :
                   /\ IsAddress(SubSeq(s, 1, k)) /\ server.ip = AddressIn(SubSeq(s, 1, k))
                   /\ k < Len(s) /\ s[k + 1] # ":" => server.port = 0

\* A line is a record exactly if every word behind the name is an address, and
\* the record has these addresses, in this order.
RecordsAsMeant(lines) ==
    \A s \in lines :
        LET words == SelectSeq(Tail(Cut(s, " ")), LAMBDA word : word # <<>>)
            record == RecordAddresses(s)
        IN  /\ record.ok <=> \A word \in Range(words) : IsAddress(word)
            /\ record.ok => record.ips = [k \in DOMAIN words |-> AddressIn(words[k])]

=============================================================================

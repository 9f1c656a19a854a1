---------------------------- MODULE MCConfigFile ----------------------------
(* Two kinds of files.  One: every sequence of at most MaxChars characters  *)
(* that are treated differently.  Two: every file of at most MaxLines clean *)
(* lines, where a character stands for a word: a section line, a server, a  *)
(* name, a record of that name, another record of it.                      *)
EXTENDS ConfigFile, AddressTexts, QuickSort, KeyOrders

CONSTANTS MaxChars, MaxLines

Words == {<<"server">>, <<"host">>, <<"host", SP, "ip">>, <<"host", SP, "ip2">>}
CleanLines == Words \cup {<<s>> : s \in Sections}

SeqsUpTo(S, n) == UNION {[1 .. k -> S] : k \in 1 .. n}

Chars == {"HOST", SP, TAB, Comment, "\r", "\n"}

\* Lines end in two characters, as those of CONF do.
Written(lines) == FlattenSeq([k \in DOMAIN lines |-> lines[k] \o <<"\r", "\n">>])

MCBuffers == SeqsUpTo(Chars, MaxChars) \cup {Written(lines) : lines \in SeqsUpTo(CleanLines, MaxLines)}
MCLower == [c \in Chars \cup Sections \cup {"server", "host", "ip", "ip2"} |->
               IF c = "HOST" THEN "host" ELSE c]

\* Section lines stand alone; texts are told apart by what they are.
MCLineOf(line) ==
    IF Len(line) = 1 /\ line[1] \in Sections THEN line[1]
    ELSE IF line = <<"server">> THEN "server"
    ELSE IF line = <<"host">> THEN "host"
    ELSE IF line = <<"host", SP, "ip">> THEN "host ip"
    ELSE IF line = <<"host", SP, "ip2">> THEN "host ip2"
    ELSE "other"

-----------------------------------------------------------------------------
(* The algorithms that are functions of their arguments, over small inputs.  *)

\* Numbers as they are and are not written; joined by dots.
Parts == {<<>>, <<"0">>, <<"2", "5", "5">>, <<"2", "5", "6">>, <<"0", "0", "7">>, <<"x">>}
Dotted(parts) == FlattenSeq(<<parts[1]>> \o [k \in 1 .. Len(parts) - 1 |-> <<".">> \o parts[k + 1]])
Addresses == {Dotted(parts) : parts \in [1 .. 3 -> Parts] \cup [1 .. 4 -> Parts]}

Behind == {<<>>, <<":">>, <<":", "9">>, <<":", "7", "0", "0", "0", "0">>, <<" ", "x">>, <<".", "1">>}

\* Reading a server: an address alone or with a port, and what else is taken for one.
ASSUME ServersAreRead == ServersAsMeant({a \o suffix : a \in Addresses, suffix \in Behind})

\* IPv6 addresses: an ordinary one, and those whose first bytes are a family's.
Bytes16(a, b) == <<a, b, 0, 53>> \o [k \in 1 .. 12 |-> k]
MCInetPton == (<<"2001::1">> :> Bytes16(32, 1)) @@ (<<"200::1">> :> Bytes16(2, 0))
              @@ (<<"a00::1">> :> Bytes16(10, 0))
Addresses6 == {<<"[">> \o text \o close :
                   text \in {<<>>, <<"x">>} \cup DOMAIN MCInetPton, close \in {<<>>, <<"]">>}}
ASSUME Servers6AreRead == ServersAsMeant({a \o suffix : a \in Addresses6, suffix \in Behind})

\* Reading a record: a name, and one or two words that may be addresses.
Second == {<<>>} \cup {<<" ">> \o s : s \in {<<"1", ".", "2", ".", "3", ".", "4">>, <<":", "9">>, <<"1">>}}
ASSUME RecordsAreRead ==
    RecordsAsMeant({<<"n", " ">> \o a \o second : a \in Addresses \ {<<>>}, second \in Second})

\* Sorting any array of up to five filters, of which some are the same.
Filters == {[m_pText |-> text] : text \in {<<2>>, <<1, 2>>, <<1, 1>>}}
ASSUME FiltersAreSorted == Sorts(SeqsUpTo(Filters, 5))

MCNameOf == [t \in Texts |-> IF t = "server" THEN "other" ELSE "host"]

=============================================================================

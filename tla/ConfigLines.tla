----------------------------- MODULE ConfigLines -----------------------------
(***************************************************************************)
(* The first half of CConfigFile::ParseBuffer: cutting the characters of   *)
(* the file CONF into lines, without comments, in lower case, and with     *)
(* single spaces only between words.  str_sanitize_strong, which each line *)
(* goes through before it is executed, turns what is left below a space    *)
(* into a space.  Positions are 1-based; a character stands for any run of *)
(* characters that are all treated alike.                                  *)
(***************************************************************************)
EXTENDS Naturals, Sequences, SequencesExt, FiniteSetsExt

CONSTANT Lower        \* CHAR_LOWERCASE, of each character

SP == " "
TAB == "\t"
Newlines == {"\r", "\n"}
Comment == ";"

Characters == DOMAIN Lower

\* Only letters are changed, into letters.
ASSUME LowerAssumption ==
    /\ SP \in Characters
    /\ \A c \in Characters : IF c \in Newlines \cup {SP} THEN Lower[c] = c
                             ELSE Lower[c] \notin Newlines \cup {SP}

\* The positions in P, up to n, one after the other.
InOrder(P, n) ==
    LET upTo[k \in 0 .. n] ==
            IF k = 0 THEN <<>> ELSE IF k \in P THEN Append(upTo[k - 1], k) ELSE upTo[k - 1]
    IN  upTo[n]

\* The loop looks for the end of a line at each character: the last one of the
\* file ends a line, whatever it is.
EndsLine(buf, i) == i = Len(buf) \/ buf[i] \in Newlines

\* Where the line that ends at i begins: past the line ends at start, which
\* may be beyond i.
LineStart(buf, start) ==
    LET stops == {p \in start .. Len(buf) : buf[p] \notin Newlines}
    IN  IF stops = {} THEN Len(buf) + 1 ELSE Min(stops)

\* The characters of the line that ends at i: without buf[i], unless it is the
\* last of the file.
RawLine(buf, start, i) ==
    SubSeq(buf, LineStart(buf, start), IF i = Len(buf) THEN i ELSE i - 1)

BeforeComment(s) ==
    LET c == SelectInSeq(s, LAMBDA x : x = Comment) IN IF c = 0 THEN s ELSE SubSeq(s, 1, c - 1)

\* Faulty variant of AddChar: a space before the first word is kept.
AddCharLeadingSpace(line, c) ==
    LET x == IF c = TAB THEN SP ELSE c IN
    IF x = SP /\ line # <<>> /\ Last(line) = SP THEN line ELSE Append(line, Lower[x])

\* No space at the beginning, and none after a space.
AddChar(line, c) ==
    LET x == IF c = TAB THEN SP ELSE c IN
    IF x = SP /\ (line = <<>> \/ Last(line) = SP) THEN line ELSE Append(line, Lower[x])

WithoutLastSpace(line) == IF line # <<>> /\ Last(line) = SP THEN Front(line) ELSE line

str_sanitize_strong(line) == [k \in DOMAIN line |-> IF line[k] \in Newlines THEN SP ELSE line[k]]

\* The line that is made of the characters s, one by one.
Copied(s) ==
    LET line[k \in 0 .. Len(s)] == IF k = 0 THEN <<>> ELSE AddChar(line[k - 1], s[k])
    IN  line[Len(s)]

Cook(s) == WithoutLastSpace(Copied(BeforeComment(s)))

\* A line with nothing left is no line.
Keeps(line) == line # <<>>

\* Each line begins after the end of the one before.
Lines(buf) ==
    LET start(i) == 1 + Max({0} \cup {e \in 1 .. i - 1 : EndsLine(buf, e)})
        cooked == [i \in DOMAIN buf |->
                      IF EndsLine(buf, i) THEN Cook(RawLine(buf, start(i), i)) ELSE <<>>]
        kept == InOrder({i \in DOMAIN buf : Keeps(cooked[i])}, Len(buf))
    IN  [k \in DOMAIN kept |-> str_sanitize_strong(cooked[kept[k]])]

-----------------------------------------------------------------------------
(* What the file says, position by position                                *)

SameLine(buf, p, q) == \A k \in p .. q : buf[k] \notin Newlines
Commented(buf, p) == \E q \in 1 .. p : buf[q] = Comment /\ SameLine(buf, q, p)
Text(buf, p) == buf[p] \notin Newlines /\ ~Commented(buf, p)
InWord(buf, p) == Text(buf, p) /\ buf[p] \notin {SP, TAB}

\* One blank between two words of a line stands for all of them: the first.
Between(buf, p) ==
    /\ Text(buf, p) /\ ~InWord(buf, p)
    /\ p > 1 /\ InWord(buf, p - 1)
    /\ \E q \in p .. Len(buf) : InWord(buf, q) /\ SameLine(buf, p, q)

Meant(buf) == {p \in 1 .. Len(buf) : InWord(buf, p) \/ Between(buf, p)}

\* A line is the characters meant up to the next line end.
MeantLines(buf) ==
    LET meant == Meant(buf)
        begins == {p \in meant : ~\E q \in meant : q < p /\ SameLine(buf, q, p)}
        char(p) == IF buf[p] = TAB THEN SP ELSE Lower[buf[p]]
        lineFrom(p) ==
            LET line == InOrder({q \in meant : p <= q /\ SameLine(buf, p, q)}, Len(buf))
            IN  [k \in DOMAIN line |-> char(line[k])]
        first == InOrder(begins, Len(buf))
    IN  [k \in DOMAIN first |-> lineFrom(first[k])]

\* The file ends in one line end right after text: the code counts it as part
\* of the last line, where it becomes a space.
EndsInOneNewline(buf) ==
    /\ Len(buf) > 1
    /\ buf[Len(buf)] \in Newlines
    /\ Text(buf, Len(buf) - 1)

=============================================================================

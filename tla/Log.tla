--------------------------------- MODULE Log ---------------------------------
(***************************************************************************)
(* logger.cpp: the history of the log, a ring of the last lines, and the   *)
(* JSON text made of it.  A line is what was logged, without the time.     *)
(* Every operation holds the lock of the log from beginning to end, so it  *)
(* is one step.                                                            *)
(***************************************************************************)
EXTENDS Naturals, Sequences, SequencesExt

CONSTANTS
    LOG_HISTORY_MAX_LINES,  \* the number of lines of the ring
    TextLength,             \* the texts that are logged, and their lengths
    JsonSizes               \* the sizes of the buffers of logToJson

ASSUME LogConstants == LOG_HISTORY_MAX_LINES \in Nat \ {0}
ASSUME JsonConstants == JsonSizes \subseteq Nat \ {0}

LOG_MAX_PRARM_LEN == 64
LOG_MAX_JSON_OBJ_SIZE == 350

VARIABLES
    hStart,     \* where the oldest line is, counted from 0
    hCount,     \* how many lines there are
    history     \* the ring

logVars == <<hStart, hCount, history>>

Slots == 0 .. LOG_HISTORY_MAX_LINES - 1
NoLine == [app |-> 0, lvl |-> 0, msg |-> 0, p |-> <<>>]

logInit ==
    /\ hStart = 0
    /\ hCount = 0
    /\ history = [i \in Slots |-> NoLine]

\* Faulty variant of copyParam: the size of the field is not looked at.
copyParamWhole(text) == [text |-> text, length |-> TextLength[text]]

\* A parameter keeps as much of its text as fits before the terminating 0.
copyParam(text) ==
    [text |-> text,
     length |-> IF TextLength[text] >= LOG_MAX_PRARM_LEN THEN LOG_MAX_PRARM_LEN - 1 ELSE TextLength[text]]

LogLine(app, lvl, msg, texts) ==
    [app |-> app, lvl |-> lvl, msg |-> msg, p |-> [k \in DOMAIN texts |-> copyParam(texts[k])]]

\* Faulty variant of NextSlot: the ring ends one line early.
NextSlotEarly(j) == IF j + 1 >= LOG_HISTORY_MAX_LINES - 1 THEN 0 ELSE j + 1

NextSlot(j) == IF j + 1 >= LOG_HISTORY_MAX_LINES THEN 0 ELSE j + 1

\* A full ring gives up its oldest line.
Logs(line) ==
    IF hCount >= LOG_HISTORY_MAX_LINES
    THEN /\ hStart' = NextSlot(hStart)
         /\ hCount' = hCount
         /\ history' = [history EXCEPT ![hStart] = line]
    ELSE /\ hStart' = hStart
         /\ hCount' = hCount + 1
         /\ history' = [history EXCEPT ![hStart + hCount] = line]

INFO == 1
WARN == 2
ERROR == 3

logInfo(app, msg, texts) == Logs(LogLine(app, INFO, msg, texts))
logWarn(app, msg, texts) == Logs(LogLine(app, WARN, msg, texts))
logError(app, msg, texts) == Logs(LogLine(app, ERROR, msg, texts))

\* Where the i-th line after the oldest is.
SlotOf(i) ==
    IF hStart + i >= LOG_HISTORY_MAX_LINES THEN hStart + i - LOG_HISTORY_MAX_LINES ELSE hStart + i

-----------------------------------------------------------------------------
(* logToJson, as pieces of text: the slot of a line, or one character      *)

Char(c) == <<c, 0>>
Object(j) == <<"line", j>>

DigitCount(n) == IF n < 10 THEN 1 ELSE IF n < 100 THEN 2 ELSE 3

\* The characters sprintf writes: the fixed ones, the time, three numbers, and
\* the parameters that are not empty, each with its name and its quotes.
logLineToJson(line) ==
    LET written[k \in 0 .. Len(line.p)] ==
            IF k = 0
            THEN 47 + DigitCount(line.app) + DigitCount(line.lvl) + DigitCount(line.msg)
            ELSE written[k - 1] + IF line.p[k].length = 0 THEN 0 ELSE 10 + line.p[k].length
    IN  written[Len(line.p)]

\* One round of the loop: a line is written while the longest one would fit.
JsonRound(json, i, maxLen) ==
    LET comma == IF i > 0 THEN 1 ELSE 0
        slot == SlotOf(i)
    IN  IF json.len + LOG_MAX_JSON_OBJ_SIZE + comma < maxLen
        THEN [buf |-> json.buf \o (IF i > 0 THEN <<Char(",")>> ELSE <<>>) \o <<Object(slot)>>,
              len |-> json.len + comma + logLineToJson(history[slot])]
        ELSE json

\* What is in buf, and how long it is without the terminating 0.
logToJson(maxSize) ==
    IF maxSize <= 3
    THEN [buf |-> <<>>, len |-> 0]
    ELSE LET round[i \in 0 .. hCount] ==
                 IF i = 0
                 THEN [buf |-> <<Char("[")>>, len |-> 1]
                 ELSE JsonRound(round[i - 1], i - 1, maxSize - 3)
             json == round[hCount]
         IN  [buf |-> Append(json.buf, Char("]")), len |-> json.len + 1]

-----------------------------------------------------------------------------

LogTypeOK ==
    /\ hStart \in Slots
    /\ hCount \in 0 .. LOG_HISTORY_MAX_LINES
    /\ hCount < LOG_HISTORY_MAX_LINES => hStart = 0
    /\ DOMAIN history = Slots

\* The lines of the ring, the oldest first.
Said == [k \in 1 .. hCount |-> history[SlotOf(k - 1)]]

Kept == INSTANCE LogList WITH Room <- LOG_HISTORY_MAX_LINES, said <- Said

\* However many lines were logged, the ring holds the last ones, in the order
\* in which they were logged (log, lines 145-170).
LogIsTheLastLines == Kept!LogListSpec

\* The JSON text of the n oldest lines.
JsonEntry(k) == (IF k > 1 THEN <<Char(",")>> ELSE <<>>) \o <<<<"line", Said[k]>>>>
JsonList(n) == <<Char("[")>> \o FlattenSeq([k \in 1 .. n |-> JsonEntry(k)]) \o <<Char("]")>>

\* What buf says: the lines instead of the slots they were taken from.
JsonSays(buf) ==
    [k \in DOMAIN buf |->
        IF buf[k][1] = "line" THEN <<"line", history[buf[k][2]]>> ELSE buf[k]]

\* With the terminating 0 the text fits in maxSize characters, it is a list of
\* the oldest lines, and a line that would fit for certain is not left out.
JsonFits(maxSize) ==
    LET json == logToJson(maxSize)
    IN  /\ json.len < maxSize
        /\ maxSize > 3 => \E n \in 0 .. hCount :
               /\ JsonSays(json.buf) = JsonList(n)
               /\ n < hCount => maxSize < json.len + LOG_MAX_JSON_OBJ_SIZE + 5

\* Whatever is in the history, logToJson makes a list of it that fits (lines
\* 67-95), although it looks only at the length of the longest line.
JsonIsAList == \A maxSize \in JsonSizes : JsonFits(maxSize)

=============================================================================

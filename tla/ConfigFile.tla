----------------------------- MODULE ConfigFile -----------------------------
(***************************************************************************)
(* CConfigFile: loading the file CONF.  Load holds the lock from the first *)
(* Clear to the end, and executes the lines one by one (ExecLine): a       *)
(* section line says where the lines after it go.  How a line is cut out   *)
(* of the file is ConfigLines.  What the server asks of the configuration  *)
(* changes nothing in it; DnsServer has the answers.                       *)
(*                                                                         *)
(* A list is the set of the numbers of the lines its items were made of:   *)
(* items are added in line order, so a list is in that order (the two      *)
(* filter lists are then sorted, which the search through them does not    *)
(* depend on).                                                             *)
(***************************************************************************)
EXTENDS ConfigLines

CONSTANTS
    Texts,          \* the lines that are not section lines
    Buffers,        \* the contents of CONF: sequences of characters
    LineOf(_),      \* the text or section line that a sequence of characters is
    Names,          \* the names of local records
    ServerTexts,    \* the texts that are the address of a server
    RecordTexts,    \* the texts that are a name and its addresses
    OneWordTexts,   \* the texts that are a name and nothing else
    NameOf          \* the name a text begins with

CMD_NULL == "null"
Sections == {"servers", "records", "whitelist", "blacklist"}

\* The lines of the file: ParseBuffer up to the point where it executes them.
ParseBuffer(b) == LET lines == Lines(b) IN [k \in DOMAIN lines |-> LineOf(lines[k])]

ASSUME ConfigConstants ==
    /\ Texts \cap (Sections \cup {CMD_NULL}) = {}
    /\ Buffers \subseteq Seq(Characters)
    /\ \A b \in Buffers : ParseBuffer(b) \in Seq(Texts \cup Sections)
    /\ ServerTexts \subseteq Texts
    /\ RecordTexts \subseteq Texts
    /\ OneWordTexts \subseteq Texts
    /\ RecordTexts \cap OneWordTexts = {}
    /\ NameOf \in [Texts -> Names]

VARIABLES
    m_Servers, m_WhiteList, m_BlackList,   \* the lists in force
    m_pLocalRecords,   \* for each name, the line of its record, or 0
    m_Lock,            \* "free" or "held", by Load
    pc,                \* where Load is: "idle", "opening" or "executing"
    buf,               \* the characters read from the file
    file,              \* the lines of the file being executed or in force
    h,                 \* how many of them have been executed
    cmd,               \* the section they are in
    servers, whiteList, blackList,         \* the lists being collected
    reported           \* the lines logged as "Invalid Config Line"

lists == <<m_Servers, m_WhiteList, m_BlackList>>
collected == <<servers, whiteList, blackList>>
vars == <<lists, m_pLocalRecords, m_Lock, pc, buf, file, h, cmd, collected, reported>>

NoRecords == [n \in Names |-> 0]

ConfigInit ==
    /\ m_Servers = {} /\ m_WhiteList = {} /\ m_BlackList = {}
    /\ m_pLocalRecords = NoRecords
    /\ m_Lock = "free"
    /\ pc = "idle"
    /\ buf = <<>>
    /\ file = <<>>
    /\ h = 0
    /\ cmd = CMD_NULL
    /\ servers = {} /\ whiteList = {} /\ blackList = {}
    /\ reported = {}

SetLists(s, w, b) == m_Servers' = s /\ m_WhiteList' = w /\ m_BlackList' = b

-----------------------------------------------------------------------------
(* Load                                                                    *)

Clear == SetLists({}, {}, {}) /\ m_pLocalRecords' = NoRecords

LoadBegin ==
    /\ pc = "idle"
    /\ m_Lock = "free"
    /\ m_Lock' = "held"
    /\ pc' = "opening"
    /\ Clear
    /\ file' = <<>>
    /\ UNCHANGED <<buf, h, cmd, collected, reported>>

\* Faulty variant of LoadFails: an early return with the lock held.
LoadFailsLocked ==
    /\ pc = "opening"
    /\ pc' = "idle"
    /\ UNCHANGED <<lists, m_pLocalRecords, m_Lock, buf, file, h, cmd, collected, reported>>

\* The file is missing, empty, or shorter than it said: what Clear left stays.
LoadFails ==
    /\ pc = "opening"
    /\ pc' = "idle"
    /\ m_Lock' = "free"
    /\ UNCHANGED <<lists, m_pLocalRecords, buf, file, h, cmd, collected, reported>>

ReadFile ==
    /\ pc = "opening"
    /\ pc' = "executing"
    /\ buf' \in Buffers
    /\ file' = ParseBuffer(buf')
    /\ UNCHANGED <<lists, m_pLocalRecords, m_Lock, h, cmd, collected, reported>>

\* The line ExecLine is given, and its number.
NextLine == h + 1
LineIs(S) == pc = "executing" /\ h < Len(file) /\ file[NextLine] \in S

Executed ==
    /\ h' = NextLine
    /\ UNCHANGED <<lists, m_Lock, pc, buf, file>>

\* The section line of any command.
NewSection ==
    /\ LineIs(Sections)
    /\ cmd' = file[NextLine]
    /\ Executed
    /\ UNCHANGED <<m_pLocalRecords, collected, reported>>

EntryIn(section) == LineIs(Texts) /\ cmd = section /\ Executed /\ UNCHANGED cmd

Report == reported' = reported \cup {NextLine}

OutsideSections ==
    /\ EntryIn(CMD_NULL)
    /\ Report
    /\ UNCHANGED <<m_pLocalRecords, collected>>

ServerLine ==
    /\ EntryIn("servers")
    /\ file[NextLine] \in ServerTexts
    /\ servers' = servers \cup {NextLine}
    /\ UNCHANGED <<m_pLocalRecords, whiteList, blackList, reported>>

\* Not the address of a server: reported, but the switch falls through into
\* the next case, which makes a filter of the line.
NotAServerLine ==
    /\ EntryIn("servers")
    /\ file[NextLine] \notin ServerTexts
    /\ whiteList' = whiteList \cup {NextLine}
    /\ Report
    /\ UNCHANGED <<m_pLocalRecords, servers, blackList>>

\* Faulty variant of WhiteListLine: without its break.
WhiteListLineFalls ==
    /\ EntryIn("whitelist")
    /\ whiteList' = whiteList \cup {NextLine}
    /\ blackList' = blackList \cup {NextLine}
    /\ UNCHANGED <<m_pLocalRecords, servers, reported>>

WhiteListLine ==
    /\ EntryIn("whitelist")
    /\ whiteList' = whiteList \cup {NextLine}
    /\ UNCHANGED <<m_pLocalRecords, servers, blackList, reported>>

BlackListLine ==
    /\ EntryIn("blacklist")
    /\ blackList' = blackList \cup {NextLine}
    /\ UNCHANGED <<m_pLocalRecords, servers, whiteList, reported>>

\* LocalRecordFromString: whether the text gives a record.  For a name alone
\* it reads the byte after the end of the line, and what follows: the outcome
\* depends on what lies there.
LocalRecordFromString(t) ==
    IF t \in OneWordTexts THEN BOOLEAN ELSE {t \in RecordTexts}

\* Faulty variant of PutRecord: the last record of a name wins.
PutRecordLast(n) == m_pLocalRecords' = [m_pLocalRecords EXCEPT ![n] = NextLine]

\* The first record of a name stays, a second one is ignored.
PutRecord(n) ==
    IF m_pLocalRecords[n] = 0
    THEN m_pLocalRecords' = [m_pLocalRecords EXCEPT ![n] = NextLine]
    ELSE UNCHANGED m_pLocalRecords

RecordLine ==
    /\ EntryIn("records")
    /\ \E valid \in LocalRecordFromString(file[NextLine]) :
           \/ valid /\ PutRecord(NameOf[file[NextLine]]) /\ UNCHANGED reported
           \/ ~valid /\ Report /\ UNCHANGED m_pLocalRecords
    /\ UNCHANGED collected

\* The variables of ParseBuffer are gone when it returns.
NoLocals ==
    /\ h' = 0
    /\ buf' = <<>>
    /\ cmd' = CMD_NULL
    /\ servers' = {} /\ whiteList' = {} /\ blackList' = {}
    /\ reported' = {}

LoadEnds ==
    /\ pc = "executing"
    /\ h = Len(file)
    /\ SetLists(servers, whiteList, blackList)
    /\ m_Lock' = "free"
    /\ pc' = "idle"
    /\ NoLocals
    /\ UNCHANGED <<m_pLocalRecords, file>>

ExecLine ==
    \/ NewSection
    \/ OutsideSections
    \/ ServerLine
    \/ NotAServerLine
    \/ WhiteListLine
    \/ BlackListLine
    \/ RecordLine

LoadStep == LoadFails \/ ReadFile \/ ExecLine \/ LoadEnds

-----------------------------------------------------------------------------

ConfigNext == LoadBegin \/ LoadStep

ConfigSpec == ConfigInit /\ [][ConfigNext]_vars

\* Once begun, Load runs to its end: it waits for nothing but the disk.
FairConfigSpec == ConfigSpec /\ WF_vars(LoadStep)

-----------------------------------------------------------------------------
(* What a file says, independently of how it is executed                   *)

\* Line k of file f is an entry, and the last section line before it is c.
InSection(f, k, c) ==
    /\ f[k] \in Texts
    /\ \E s \in 1 .. k - 1 : f[s] = c /\ \A q \in s + 1 .. k - 1 : f[q] \notin Sections

\* The servers, and the filters, among the first b lines of f, and the lines
\* that stand where a server should.
ServersIn(f, b) == {k \in 1 .. b : InSection(f, k, "servers") /\ f[k] \in ServerTexts}
BlackIn(f, b) == {k \in 1 .. b : InSection(f, k, "blacklist")}
WhiteIn(f, b) == {k \in 1 .. b : InSection(f, k, "whitelist")}
NoServersIn(f, b) == {k \in 1 .. b : InSection(f, k, "servers") /\ f[k] \notin ServerTexts}

\* The lists s, w and b have the entries of the first n lines of f.
ListsFollow(s, w, b, f, n) ==
    /\ s = ServersIn(f, n)
    /\ b = BlackIn(f, n)
    /\ WhiteIn(f, n) \subseteq w
    /\ w \subseteq WhiteIn(f, n) \cup NoServersIn(f, n)

\* Line k is, or may be, the record of the name n.
IsRecord(f, k, n) ==
    InSection(f, k, "records") /\ f[k] \in RecordTexts /\ NameOf[f[k]] = n
MayBeRecord(f, k, n) ==
    InSection(f, k, "records") /\ f[k] \in RecordTexts \cup OneWordTexts /\ NameOf[f[k]] = n

\* The record of a name is the first one in the file.
RecordsFollow(records, f, b) ==
    \A n \in Names :
        LET k == records[n] IN
        /\ k # 0 => k \in 1 .. b /\ MayBeRecord(f, k, n)
        /\ \A q \in 1 .. b : IsRecord(f, q, n) => k # 0 /\ k <= q

-----------------------------------------------------------------------------

ConfigTypeOK ==
    /\ file \in Seq(Texts \cup Sections)
    /\ h \in Nat
    /\ IF pc = "executing" THEN h <= Len(file) ELSE h = 0
    /\ cmd \in Sections \cup {CMD_NULL}
    /\ pc \in {"idle", "opening", "executing"}
    /\ m_Lock \in {"free", "held"}
    /\ m_pLocalRecords \in [Names -> Nat]
    /\ m_Servers \subseteq Nat /\ m_WhiteList \subseteq Nat /\ m_BlackList \subseteq Nat
    /\ servers \subseteq Nat /\ whiteList \subseteq Nat /\ blackList \subseteq Nat
    /\ reported \subseteq Nat

\* The lines are what the file says: blanks, comments and line ends of any
\* kind and number make no difference (ParseBuffer lines 287-341), when the
\* file does not end in a single line end.
LinesAsMeant ==
    pc = "executing" /\ h = 0 /\ ~EndsInOneNewline(buf) => Lines(buf) = MeantLines(buf)

\* Whatever was loaded before, and however loads failed in between: each
\* entry of the file in force is in the list of its section and in no other,
\* the first record of a name wins, and nothing is in force when no file was
\* read (Load, ParseBuffer and ExecLine).  A line of the servers section that
\* is no server may be a white-list filter or not: the file does not say, and
\* InvalidLinesUnused is about it.
FollowsTheFile ==
    /\ pc = "executing" =>
           /\ lists = <<{}, {}, {}>>
           /\ ListsFollow(servers, whiteList, blackList, file, h)
           /\ RecordsFollow(m_pLocalRecords, file, h)
    /\ pc # "executing" =>
           /\ ListsFollow(m_Servers, m_WhiteList, m_BlackList, file, Len(file))
           /\ RecordsFollow(m_pLocalRecords, file, Len(file))

\* However Load ends, it releases the lock that every question takes.
LockIsReleased == m_Lock = "held" ~> m_Lock = "free"

\* "Invalid Config Line" (line 281): a line reported as invalid is not used.
InvalidLinesUnused ==
    [][reported' \ reported # {} => UNCHANGED <<collected, m_pLocalRecords>>]_vars

=============================================================================

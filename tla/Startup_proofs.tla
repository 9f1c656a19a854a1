--------------------------- MODULE Startup_proofs ---------------------------
(***************************************************************************)
(* What holds of a started server for every size of the history, every set *)
(* of files and any number of loads.                                       *)
(*                                                                         *)
(* First of the configuration alone: that its lists follow the file is not *)
(* inductive as it stands, but it is with which section cmd stands for,    *)
(* and that the variables of ParseBuffer are empty outside it.             *)
(*                                                                         *)
(* The steps of a started server are steps of the configuration or leave   *)
(* it alone, so what is proved of ConfigFile holds of it; its steps log    *)
(* one line or none, which the ring does as the list of the last lines     *)
(* does; and while a load goes on the log ends in what there is to say of  *)
(* the lines executed so far, which is what makes it tell the load when    *)
(* that has ended.                                                         *)
(*                                                                         *)
(* Last of ConfigLines: the code goes through a file character by          *)
(* character, the file is defined position by position, and both are the   *)
(* characters at the same positions, in order.                             *)
(***************************************************************************)
EXTENDS Startup, Library_proofs

\* The white list as Load makes it: with the lines that stand where a server
\* should.
WhiteMade(f, b) ==
    {k \in 1 .. b : \/ InSection(f, k, "whitelist")
                    \/ InSection(f, k, "servers") /\ f[k] \notin ServerTexts}

\* FollowsTheFile, and exactly what becomes of these lines.
FollowsExactly ==
    /\ pc = "executing" =>
           /\ lists = <<{}, {}, {}>>
           /\ collected = <<ServersIn(file, h), WhiteMade(file, h), BlackIn(file, h)>>
           /\ RecordsFollow(m_pLocalRecords, file, h)
    /\ pc # "executing" =>
           /\ lists = <<ServersIn(file, Len(file)), WhiteMade(file, Len(file)), BlackIn(file, Len(file))>>
           /\ RecordsFollow(m_pLocalRecords, file, Len(file))

\* cmd is the section of the last section line executed, if there was one.
CmdFollows ==
    pc = "executing" =>
        \/ cmd = CMD_NULL /\ \A q \in 1 .. h : file[q] \notin Sections
        \/ /\ cmd \in Sections
           /\ \E s \in 1 .. h : file[s] = cmd /\ \A q \in s + 1 .. h : file[q] \notin Sections

\* Outside ParseBuffer there are no lines, and nothing is collected.
LocalsEmpty ==
    /\ pc # "executing" =>
           cmd = CMD_NULL /\ servers = {} /\ whiteList = {} /\ blackList = {}
    /\ pc = "opening" => file = <<>>

ConfigInv == ConfigTypeOK /\ CmdFollows /\ LocalsEmpty /\ FollowsExactly

-----------------------------------------------------------------------------

\* The section in force decides where the next line belongs.
LEMMA CmdDecides ==
    ASSUME CmdFollows, pc = "executing", h \in Nat, NEW c \in Sections, file[h + 1] \in Texts
    PROVE  InSection(file, h + 1, c) <=> cmd = c
<1>1. CASE cmd = CMD_NULL /\ \A q \in 1 .. h : file[q] \notin Sections
  <2>1. c # CMD_NULL
    BY DEF Sections, CMD_NULL
  <2>2. (h + 1) - 1 = h
    OBVIOUS
  <2> QED
    BY <1>1, <2>1, <2>2 DEF InSection
<1>2. ASSUME NEW s \in 1 .. h, file[s] = cmd, cmd \in Sections,
             \A q \in s + 1 .. h : file[q] \notin Sections
      PROVE  InSection(file, h + 1, c) <=> cmd = c
  <2>1. (h + 1) - 1 = h
    OBVIOUS
  <2>2. cmd = c => InSection(file, h + 1, c)
    BY <1>2, <2>1 DEF InSection
  <2>3. ASSUME InSection(file, h + 1, c) PROVE cmd = c
    <3>1. PICK r \in 1 .. h : file[r] = c /\ \A q \in r + 1 .. h : file[q] \notin Sections
      BY <2>1, <2>3 DEF InSection
    <3>2. ~(r < s)
      <4>1. r < s => s \in r + 1 .. h
        OBVIOUS
      <4> QED
        BY <4>1, <3>1, <1>2
    <3>3. ~(s < r)
      <4>1. s < r => r \in s + 1 .. h
        OBVIOUS
      <4> QED
        BY <4>1, <3>1, <1>2
    <3>4. r = s
      BY <3>2, <3>3
    <3> QED
      BY <3>1, <3>4, <1>2
  <2> QED
    BY <2>2, <2>3
<1> QED
  BY <1>1, <1>2 DEF CmdFollows

\* One more line of the file adds at most itself to what the file says.
LEMMA OneMoreLine ==
    ASSUME NEW f, NEW b \in Nat
    PROVE  /\ ServersIn(f, b + 1) =
                  IF InSection(f, b + 1, "servers") /\ f[b + 1] \in ServerTexts
                  THEN ServersIn(f, b) \cup {b + 1} ELSE ServersIn(f, b)
           /\ BlackIn(f, b + 1) =
                  IF InSection(f, b + 1, "blacklist")
                  THEN BlackIn(f, b) \cup {b + 1} ELSE BlackIn(f, b)
           /\ WhiteMade(f, b + 1) =
                  IF \/ InSection(f, b + 1, "whitelist")
                     \/ InSection(f, b + 1, "servers") /\ f[b + 1] \notin ServerTexts
                  THEN WhiteMade(f, b) \cup {b + 1} ELSE WhiteMade(f, b)
<1>1. 1 .. b + 1 = 1 .. b \cup {b + 1}
  OBVIOUS
<1>2. ServersIn(f, b + 1) =
        IF InSection(f, b + 1, "servers") /\ f[b + 1] \in ServerTexts
        THEN ServersIn(f, b) \cup {b + 1} ELSE ServersIn(f, b)
  BY <1>1 DEF ServersIn
<1>3. BlackIn(f, b + 1) =
        IF InSection(f, b + 1, "blacklist")
        THEN BlackIn(f, b) \cup {b + 1} ELSE BlackIn(f, b)
  BY <1>1 DEF BlackIn
<1>4. WhiteMade(f, b + 1) =
        IF \/ InSection(f, b + 1, "whitelist")
           \/ InSection(f, b + 1, "servers") /\ f[b + 1] \notin ServerTexts
        THEN WhiteMade(f, b) \cup {b + 1} ELSE WhiteMade(f, b)
  BY <1>1 DEF WhiteMade
<1> QED
  BY <1>2, <1>3, <1>4

\* The empty file says nothing.
LEMMA NothingInNoLines ==
    ASSUME NEW f
    PROVE  ServersIn(f, 0) = {} /\ BlackIn(f, 0) = {} /\ WhiteMade(f, 0) = {}
BY DEF ServersIn, BlackIn, WhiteMade

\* An entry of one section is an entry of no other, and a section line is none.
LEMMA SectionLineSaysNothing ==
    ASSUME NEW f, NEW k, f[k] \in Sections, NEW c
    PROVE  ~InSection(f, k, c)
BY ConfigConstants DEF InSection

-----------------------------------------------------------------------------

\* What every step of ExecLine does to the variables the lists do not depend on.
LEMMA ExecutedLine ==
    ASSUME ConfigTypeOK, ExecLine
    PROVE  /\ pc = "executing" /\ pc' = "executing"
           /\ h \in Nat /\ h' = h + 1 /\ h' \in 1 .. Len(file)
           /\ UNCHANGED <<lists, m_Lock, file>>
           /\ file[h + 1] \in Texts => UNCHANGED cmd
           /\ file[h + 1] \in Sections => cmd' = file[h + 1]
           /\ file[h + 1] \in Texts \cup Sections
<1>1. pc = "executing" /\ h < Len(file) /\ Executed /\ file[h + 1] \in Texts \cup Sections
  BY DEF ExecLine, NewSection, OutsideSections, ServerLine, NotAServerLine, WhiteListLine,
         BlackListLine, RecordLine, EntryIn, LineIs, NextLine
<1>2. file \in Seq(Texts \cup Sections)
  BY DEF ConfigTypeOK
<1>3. Len(file) \in Nat
  BY <1>2, LenProperties
<1>4. h \in Nat /\ h' = h + 1 /\ h' \in 1 .. Len(file)
  BY <1>1, <1>3 DEF Executed, NextLine, ConfigTypeOK
<1>5. file[h + 1] \in Texts => UNCHANGED cmd
  BY ConfigConstants
     DEF ExecLine, NewSection, OutsideSections, ServerLine, NotAServerLine, WhiteListLine,
         BlackListLine, RecordLine, EntryIn, LineIs, NextLine
<1>6. file[h + 1] \in Sections => cmd' = file[h + 1]
  BY ConfigConstants
     DEF ExecLine, NewSection, OutsideSections, ServerLine, NotAServerLine, WhiteListLine,
         BlackListLine, RecordLine, EntryIn, LineIs, NextLine
<1> QED
  BY <1>1, <1>4, <1>5, <1>6 DEF Executed

\* Every variable keeps its type: ParseBuffer never runs past the last line.
THEOREM ConfigTypeCorrect == ConfigSpec => []ConfigTypeOK
<1>1. ConfigInit => ConfigTypeOK
  BY ConfigConstants, EmptySeq DEF ConfigInit, ConfigTypeOK, NoRecords, CMD_NULL
<1>2. ASSUME ConfigTypeOK, [ConfigNext]_vars PROVE ConfigTypeOK'
  <2> USE <1>2 DEF ConfigTypeOK
  <2>1. CASE LoadBegin
    BY <2>1, EmptySeq DEF LoadBegin, Clear, SetLists, NoRecords, collected
  <2>2. CASE LoadFails
    BY <2>2 DEF LoadFails, lists, collected
  <2>3. CASE ReadFile
    <3>1. file' \in Seq(Texts \cup Sections) /\ h' = h /\ pc' = "executing"
      BY <2>3, ConfigConstants DEF ReadFile
    <3>2. Len(file') \in Nat
      BY <3>1, LenProperties
    <3> QED
      BY <2>3, <3>1, <3>2 DEF ReadFile, lists, collected
  <2>4. CASE ExecLine
    <3>1. /\ h' \in Nat /\ h' <= Len(file)
          /\ pc' = "executing" /\ UNCHANGED <<lists, m_Lock, file>>
      BY <2>4, ExecutedLine
    <3>2. cmd' \in Sections \cup {CMD_NULL}
      BY <2>4, ExecutedLine
    <3>3. m_pLocalRecords' \in [Names -> Nat]
      <4>1. CASE UNCHANGED m_pLocalRecords
        BY <4>1
      <4>2. CASE \E n \in Names : m_pLocalRecords' = [m_pLocalRecords EXCEPT ![n] = h + 1]
        BY <4>2
      <4>3. RecordLine => file[h + 1] \in Texts
        BY DEF RecordLine, EntryIn, LineIs, NextLine
      <4> QED
        BY <4>1, <4>2, <4>3, <2>4, ConfigConstants
           DEF ExecLine, NewSection, OutsideSections, ServerLine, NotAServerLine, WhiteListLine,
               BlackListLine, RecordLine, PutRecord, NextLine
    <3>4. /\ servers' \subseteq Nat /\ whiteList' \subseteq Nat /\ blackList' \subseteq Nat
          /\ reported' \subseteq Nat
      <4>1. /\ servers' \in {servers, servers \cup {h + 1}}
            /\ whiteList' \in {whiteList, whiteList \cup {h + 1}}
            /\ blackList' \in {blackList, blackList \cup {h + 1}}
            /\ reported' \in {reported, reported \cup {h + 1}}
        BY <2>4
           DEF ExecLine, NewSection, OutsideSections, ServerLine, NotAServerLine, WhiteListLine,
               BlackListLine, RecordLine, Report, NextLine, collected
      <4> QED
        BY <4>1
    <3> QED
      BY <3>1, <3>2, <3>3, <3>4 DEF lists
  <2>5. CASE LoadEnds
    BY <2>5 DEF LoadEnds, NoLocals, SetLists
  <2>6. CASE UNCHANGED vars
    BY <2>6 DEF vars, lists, collected
  <2> QED
    BY <1>2, <2>1, <2>2, <2>3, <2>4, <2>5, <2>6 DEF ConfigNext, LoadStep
<1> QED
  BY <1>1, <1>2, PTL DEF ConfigSpec

-----------------------------------------------------------------------------

\* What the next line adds to the lists: an entry to the list of the section
\* in force, a section line nothing.
LEMMA NextLineAdds ==
    ASSUME CmdFollows, pc = "executing", h \in Nat, file[h + 1] \in Texts
    PROVE  /\ ServersIn(file, h + 1) =
                  IF cmd = "servers" /\ file[h + 1] \in ServerTexts
                  THEN ServersIn(file, h) \cup {h + 1} ELSE ServersIn(file, h)
           /\ BlackIn(file, h + 1) =
                  IF cmd = "blacklist" THEN BlackIn(file, h) \cup {h + 1} ELSE BlackIn(file, h)
           /\ WhiteMade(file, h + 1) =
                  IF cmd = "whitelist" \/ (cmd = "servers" /\ file[h + 1] \notin ServerTexts)
                  THEN WhiteMade(file, h) \cup {h + 1} ELSE WhiteMade(file, h)
<1>1. InSection(file, h + 1, "servers") <=> cmd = "servers"
  BY CmdDecides DEF Sections
<1>2. InSection(file, h + 1, "blacklist") <=> cmd = "blacklist"
  BY CmdDecides DEF Sections
<1>3. InSection(file, h + 1, "whitelist") <=> cmd = "whitelist"
  BY CmdDecides DEF Sections
<1> QED
  <2>1. ServersIn(file, h + 1) =
          IF InSection(file, h + 1, "servers") /\ file[h + 1] \in ServerTexts
          THEN ServersIn(file, h) \cup {h + 1} ELSE ServersIn(file, h)
    BY OneMoreLine
  <2>2. BlackIn(file, h + 1) =
          IF InSection(file, h + 1, "blacklist")
          THEN BlackIn(file, h) \cup {h + 1} ELSE BlackIn(file, h)
    BY OneMoreLine
  <2>3. WhiteMade(file, h + 1) =
          IF \/ InSection(file, h + 1, "whitelist")
             \/ InSection(file, h + 1, "servers") /\ file[h + 1] \notin ServerTexts
          THEN WhiteMade(file, h) \cup {h + 1} ELSE WhiteMade(file, h)
    BY OneMoreLine
  <2>4. ServersIn(file, h + 1) =
          IF cmd = "servers" /\ file[h + 1] \in ServerTexts
          THEN ServersIn(file, h) \cup {h + 1} ELSE ServersIn(file, h)
    BY <1>1, <2>1, Zenon
  <2>5. BlackIn(file, h + 1) =
          IF cmd = "blacklist" THEN BlackIn(file, h) \cup {h + 1} ELSE BlackIn(file, h)
    BY <1>2, <2>2, Zenon
  <2>6. WhiteMade(file, h + 1) =
          IF cmd = "whitelist" \/ (cmd = "servers" /\ file[h + 1] \notin ServerTexts)
          THEN WhiteMade(file, h) \cup {h + 1} ELSE WhiteMade(file, h)
    BY <1>1, <1>3, <2>3, Zenon
  <2> QED
    BY <2>4, <2>5, <2>6, Zenon

\* The line that begins a section adds nothing to any list.
LEMMA SectionAddsNothing ==
    ASSUME h \in Nat, file[h + 1] \in Sections
    PROVE  /\ ServersIn(file, h + 1) = ServersIn(file, h)
           /\ BlackIn(file, h + 1) = BlackIn(file, h)
           /\ WhiteMade(file, h + 1) = WhiteMade(file, h)
<1>1. \A c : ~InSection(file, h + 1, c)
  BY SectionLineSaysNothing
<1> QED
  BY <1>1, OneMoreLine

\* A line that surely is no record leaves what the records should be.
LEMMA RecordsStay ==
    ASSUME NEW recs, NEW f, NEW b \in Nat, RecordsFollow(recs, f, b),
           ~InSection(f, b + 1, "records") \/ f[b + 1] \notin RecordTexts
    PROVE  RecordsFollow(recs, f, b + 1)
<1>1. \A n : ~IsRecord(f, b + 1, n)
  BY DEF IsRecord
<1>2. \A q \in 1 .. b + 1 : q # b + 1 => q \in 1 .. b
  OBVIOUS
<1>3. 1 .. b \subseteq 1 .. b + 1
  OBVIOUS
<1> QED
  BY <1>1, <1>2, <1>3 DEF RecordsFollow

\* A record line is added only when it is the first of its name.
LEMMA FirstRecordStays ==
    ASSUME NEW recs \in [Names -> Nat], NEW f, NEW b \in Nat, RecordsFollow(recs, f, b),
           NEW n \in Names, MayBeRecord(f, b + 1, n)
    PROVE  RecordsFollow(IF recs[n] = 0 THEN [recs EXCEPT ![n] = b + 1] ELSE recs, f, b + 1)
<1> DEFINE new == IF recs[n] = 0 THEN [recs EXCEPT ![n] = b + 1] ELSE recs
<1>1. \A q \in 1 .. b + 1 : q = b + 1 \/ q \in 1 .. b
  OBVIOUS
<1>2. \A q \in 1 .. b : q \in 1 .. b + 1 /\ q <= b + 1
  OBVIOUS
<1>3. ASSUME NEW m \in Names, m # n
      PROVE  /\ new[m] # 0 => new[m] \in 1 .. b + 1 /\ MayBeRecord(f, new[m], m)
             /\ \A q \in 1 .. b + 1 : IsRecord(f, q, m) => new[m] # 0 /\ new[m] <= q
  <2>1. new[m] = recs[m]
    BY <1>3
  <2>2. ~IsRecord(f, b + 1, m)
    BY <1>3 DEF IsRecord, MayBeRecord
  <2> HIDE DEF new
  <2> QED
    BY <2>1, <2>2, <1>1, <1>2 DEF RecordsFollow
<1>4. /\ new[n] # 0 => new[n] \in 1 .. b + 1 /\ MayBeRecord(f, new[n], n)
      /\ \A q \in 1 .. b + 1 : IsRecord(f, q, n) => new[n] # 0 /\ new[n] <= q
  <2>1. CASE recs[n] = 0
    <3>1. new[n] = b + 1 /\ b + 1 # 0 /\ b + 1 \in 1 .. b + 1
      BY <2>1
    <3>2. \A q \in 1 .. b : ~IsRecord(f, q, n)
      BY <2>1 DEF RecordsFollow
    <3> HIDE DEF new
    <3> QED
      BY <3>1, <3>2, <1>1
  <2>2. CASE recs[n] # 0
    <3>1. new[n] = recs[n] /\ recs[n] \in 1 .. b /\ MayBeRecord(f, recs[n], n)
      BY <2>2 DEF RecordsFollow
    <3>2. \A q \in 1 .. b : IsRecord(f, q, n) => recs[n] <= q
      BY DEF RecordsFollow
    <3> HIDE DEF new
    <3> QED
      BY <3>1, <3>2, <1>1, <1>2, <2>2
  <2> QED
    BY <2>1, <2>2
<1> HIDE DEF new
<1>5. RecordsFollow(new, f, b + 1)
  BY <1>3, <1>4 DEF RecordsFollow
<1> QED
  BY <1>5 DEF new

-----------------------------------------------------------------------------

\* Executing a line keeps the lists what the lines so far say.
LEMMA ExecLineFollows ==
    ASSUME ConfigInv, ExecLine
    PROVE  CmdFollows' /\ LocalsEmpty' /\ FollowsExactly'
<1>1. /\ pc = "executing" /\ pc' = "executing"
      /\ h \in Nat /\ h' = h + 1 /\ h' \in 1 .. Len(file)
      /\ UNCHANGED <<lists, m_Lock, file>>
      /\ file[h + 1] \in Texts => UNCHANGED cmd
      /\ file[h + 1] \in Sections => cmd' = file[h + 1]
      /\ file[h + 1] \in Texts \cup Sections
  BY ExecutedLine DEF ConfigInv
<1>2. /\ lists = <<{}, {}, {}>>
      /\ servers = ServersIn(file, h) /\ whiteList = WhiteMade(file, h) /\ blackList = BlackIn(file, h)
      /\ RecordsFollow(m_pLocalRecords, file, h)
  BY <1>1 DEF ConfigInv, FollowsExactly, collected
<1>3. CmdFollows'
  <2>1. \A q \in 1 .. h + 1 : q = h + 1 \/ q \in 1 .. h
    BY <1>1
  <2>2. \A s \in 1 .. h : s \in 1 .. h + 1 /\ \A q \in s + 1 .. h + 1 : q = h + 1 \/ q \in s + 1 .. h
    BY <1>1
  <2>3. CASE file[h + 1] \in Sections
    <3>1. h + 1 \in 1 .. h + 1 /\ (h + 1) + 1 .. h + 1 = {}
      BY <1>1
    <3> QED
      BY <1>1, <2>3, <3>1 DEF CmdFollows
  <2>4. CASE file[h + 1] \in Texts
    <3>1. file[h + 1] \notin Sections
      BY <2>4, ConfigConstants
    <3>2. CASE cmd = CMD_NULL /\ \A q \in 1 .. h : file[q] \notin Sections
      BY <1>1, <2>1, <2>4, <3>1, <3>2 DEF CmdFollows
    <3>3. ASSUME cmd \in Sections,
                 NEW s \in 1 .. h, file[s] = cmd, \A q \in s + 1 .. h : file[q] \notin Sections
          PROVE  CmdFollows'
      BY <1>1, <2>2, <2>4, <3>1, <3>3 DEF CmdFollows
    <3> QED
      BY <1>1, <3>2, <3>3 DEF ConfigInv, CmdFollows
  <2> QED
    BY <1>1, <2>3, <2>4
<1>4. LocalsEmpty'
  BY <1>1 DEF LocalsEmpty
<1>5. /\ servers' = ServersIn(file, h + 1)
      /\ whiteList' = WhiteMade(file, h + 1)
      /\ blackList' = BlackIn(file, h + 1)
  <2>1. CASE NewSection
    <3>1. file[h + 1] \in Sections /\ UNCHANGED collected
      BY <2>1 DEF NewSection, LineIs, NextLine
    <3> QED
      BY <3>1, <1>1, <1>2, SectionAddsNothing DEF collected
  <2>2. ASSUME file[h + 1] \in Texts
        PROVE  /\ ServersIn(file, h + 1) =
                      IF cmd = "servers" /\ file[h + 1] \in ServerTexts
                      THEN ServersIn(file, h) \cup {h + 1} ELSE ServersIn(file, h)
               /\ BlackIn(file, h + 1) =
                      IF cmd = "blacklist" THEN BlackIn(file, h) \cup {h + 1} ELSE BlackIn(file, h)
               /\ WhiteMade(file, h + 1) =
                      IF cmd = "whitelist" \/ (cmd = "servers" /\ file[h + 1] \notin ServerTexts)
                      THEN WhiteMade(file, h) \cup {h + 1} ELSE WhiteMade(file, h)
    BY <2>2, <1>1, NextLineAdds DEF ConfigInv
  <2>3. CASE OutsideSections
    BY <2>3, <2>2, <1>2 DEF OutsideSections, EntryIn, LineIs, NextLine, CMD_NULL, collected
  <2>4. CASE ServerLine
    BY <2>4, <2>2, <1>2 DEF ServerLine, EntryIn, LineIs, NextLine
  <2>5. CASE NotAServerLine
    BY <2>5, <2>2, <1>2 DEF NotAServerLine, EntryIn, LineIs, NextLine
  <2>6. CASE WhiteListLine
    BY <2>6, <2>2, <1>2 DEF WhiteListLine, EntryIn, LineIs, NextLine
  <2>7. CASE BlackListLine
    BY <2>7, <2>2, <1>2 DEF BlackListLine, EntryIn, LineIs, NextLine
  <2>8. CASE RecordLine
    BY <2>8, <2>2, <1>2 DEF RecordLine, EntryIn, LineIs, NextLine, collected
  <2> QED
    BY <2>1, <2>3, <2>4, <2>5, <2>6, <2>7, <2>8 DEF ExecLine
<1>6. RecordsFollow(m_pLocalRecords', file, h + 1)
  <2>1. file[h + 1] \in Texts => (InSection(file, h + 1, "records") <=> cmd = "records")
    BY <1>1, CmdDecides DEF ConfigInv, Sections
  <2>2. file[h + 1] \in Sections => ~InSection(file, h + 1, "records")
    BY SectionLineSaysNothing
  <2>3. CASE RecordLine
    <3>1. file[h + 1] \in Texts /\ cmd = "records"
      BY <2>3 DEF RecordLine, EntryIn, LineIs, NextLine
    <3>2. CASE file[h + 1] \notin RecordTexts /\ UNCHANGED m_pLocalRecords
      BY <3>2, <1>1, <1>2, RecordsStay
    <3>3. CASE file[h + 1] \in RecordTexts \cup OneWordTexts /\ PutRecord(NameOf[file[h + 1]])
      <4> DEFINE n == NameOf[file[h + 1]]
      <4>1. n \in Names
        BY <3>1, ConfigConstants
      <4>2. MayBeRecord(file, h + 1, n)
        BY <3>1, <3>3, <2>1 DEF MayBeRecord
      <4>3. m_pLocalRecords \in [Names -> Nat]
        BY DEF ConfigInv, ConfigTypeOK
      <4>4. m_pLocalRecords' =
              IF m_pLocalRecords[n] = 0
              THEN [m_pLocalRecords EXCEPT ![n] = h + 1] ELSE m_pLocalRecords
        BY <3>3 DEF PutRecord, NextLine
      <4> HIDE DEF n
      <4> QED
        BY <4>1, <4>2, <4>3, <4>4, <1>1, <1>2, FirstRecordStays
    <3>4. \/ file[h + 1] \notin RecordTexts /\ UNCHANGED m_pLocalRecords
          \/ file[h + 1] \in RecordTexts \cup OneWordTexts /\ PutRecord(NameOf[file[h + 1]])
      BY <2>3, ConfigConstants DEF RecordLine, LocalRecordFromString, NextLine
    <3> QED
      BY <3>2, <3>3, <3>4
  <2>4. CASE ~RecordLine
    <3>1. UNCHANGED m_pLocalRecords
      BY <2>4 DEF ExecLine, NewSection, OutsideSections, ServerLine, NotAServerLine,
                  WhiteListLine, BlackListLine
    <3>2. file[h + 1] \in Texts => cmd # "records"
      BY <2>4, ConfigConstants
         DEF ExecLine, NewSection, OutsideSections, ServerLine, NotAServerLine, WhiteListLine,
             BlackListLine, EntryIn, LineIs, NextLine, CMD_NULL
    <3> QED
      BY <3>1, <3>2, <2>1, <2>2, <1>1, <1>2, RecordsStay
  <2> QED
    BY <2>3, <2>4
<1>7. FollowsExactly'
  BY <1>1, <1>2, <1>5, <1>6 DEF FollowsExactly, lists, collected
<1> QED
  BY <1>3, <1>4, <1>7

\* The inductive invariant of the configuration: what it has in force and what
\* it has collected so far is what the file, and the lines executed, say.
THEOREM ConfigInvariant == ConfigSpec => []ConfigInv
<1>1. ConfigInit => CmdFollows /\ LocalsEmpty /\ FollowsExactly
  <2>1. ASSUME ConfigInit PROVE RecordsFollow(m_pLocalRecords, file, 0) /\ Len(file) = 0
    BY <2>1 DEF ConfigInit, RecordsFollow, NoRecords
  <2> QED
    BY <2>1, NothingInNoLines DEF ConfigInit, CmdFollows, LocalsEmpty, FollowsExactly, lists, collected
<1>2. ASSUME ConfigInv, [ConfigNext]_vars
      PROVE  CmdFollows' /\ LocalsEmpty' /\ FollowsExactly'
  <2> USE <1>2 DEF ConfigInv
  <2>1. CASE LoadBegin
    <3>1. pc' = "opening" /\ file' = <<>> /\ Len(<<>>) = 0 /\ m_pLocalRecords' = NoRecords
      BY <2>1 DEF LoadBegin, Clear
    <3>2. RecordsFollow(m_pLocalRecords', file', 0)
      BY <3>1 DEF RecordsFollow, NoRecords
    <3>3. lists' = <<{}, {}, {}>>
      BY <2>1 DEF LoadBegin, Clear, SetLists, lists
    <3>4. LocalsEmpty'
      BY <2>1 DEF LoadBegin, LocalsEmpty, collected
    <3> QED
      BY <3>1, <3>2, <3>3, <3>4, NothingInNoLines DEF CmdFollows, FollowsExactly
  <2>2. CASE LoadFails
    <3>1. pc = "opening" /\ pc' = "idle"
          /\ UNCHANGED <<lists, m_pLocalRecords, file, cmd, servers, whiteList, blackList>>
      BY <2>2 DEF LoadFails, collected
    <3> QED
      BY <3>1 DEF CmdFollows, LocalsEmpty, FollowsExactly
  <2>3. CASE ReadFile
    <3>1. /\ pc = "opening" /\ pc' = "executing" /\ h = 0 /\ h' = 0 /\ cmd' = CMD_NULL
          /\ UNCHANGED <<lists, m_pLocalRecords>>
          /\ servers' = {} /\ whiteList' = {} /\ blackList' = {} /\ file = <<>>
      BY <2>3 DEF ReadFile, LocalsEmpty, ConfigTypeOK, collected
    <3>2. Len(<<>>) = 0
      OBVIOUS
    <3>3. lists = <<{}, {}, {}>> /\ RecordsFollow(m_pLocalRecords, <<>>, 0)
      BY <3>1, <3>2, NothingInNoLines DEF FollowsExactly
    <3>4. \A n \in Names : m_pLocalRecords[n] = 0
      BY <3>3 DEF RecordsFollow
    <3>5. RecordsFollow(m_pLocalRecords', file', 0)
      BY <3>1, <3>4 DEF RecordsFollow
    <3> QED
      BY <3>1, <3>3, <3>5, NothingInNoLines
         DEF CmdFollows, LocalsEmpty, FollowsExactly, collected
  <2>4. CASE ExecLine
    BY <2>4, ExecLineFollows
  <2>5. CASE LoadEnds
    <3>1. /\ pc = "executing" /\ pc' = "idle" /\ h = Len(file)
          /\ lists' = collected /\ UNCHANGED <<m_pLocalRecords, file>>
      BY <2>5 DEF LoadEnds, SetLists, lists, collected
    <3>2. LocalsEmpty'
      BY <2>5 DEF LoadEnds, NoLocals, LocalsEmpty
    <3> QED
      BY <3>1, <3>2 DEF CmdFollows, FollowsExactly
  <2>6. CASE UNCHANGED vars
    BY <2>6 DEF vars, CmdFollows, LocalsEmpty, FollowsExactly, collected
  <2> QED
    BY <1>2, <2>1, <2>2, <2>3, <2>4, <2>5, <2>6 DEF ConfigNext, LoadStep
<1> QED
  BY <1>1, <1>2, ConfigTypeCorrect, PTL DEF ConfigSpec, ConfigInv

\* What the configuration does is what the file says.
LEMMA ExactlyFollows == FollowsExactly => FollowsTheFile
<1>1. \A f, b : WhiteMade(f, b) = WhiteIn(f, b) \cup NoServersIn(f, b)
  BY DEF WhiteMade, WhiteIn, NoServersIn
<1>2. \A f, b : ListsFollow(ServersIn(f, b), WhiteMade(f, b), BlackIn(f, b), f, b)
  BY <1>1 DEF ListsFollow
<1> QED
  BY <1>2 DEF FollowsExactly, FollowsTheFile, lists, collected

\* Each entry of the file is in the list of its section and in no other, the
\* first record of a name wins, and nothing is left after a failed load
\* (CConfigFile.cpp lines 212-417), for every file.
THEOREM ConfigFollowsTheFile == ConfigSpec => []FollowsTheFile
  BY ConfigInvariant, ExactlyFollows, PTL DEF ConfigInv

-----------------------------------------------------------------------------

\* A started server does with its configuration what ConfigFile allows: main
\* and run only say when.
THEOREM StartUsesConfig == StartSpec => ConfigSpec
<1>1. StartInit => ConfigInit
  BY DEF StartInit
<1>2. [StartNext]_allVars => [ConfigNext]_vars
  <2> SUFFICES ASSUME [StartNext]_allVars PROVE ConfigNext \/ UNCHANGED vars
    OBVIOUS
  <2>1. CASE Begins
    BY <2>1 DEF Begins, ConfigNext
  <2>2. CASE Reads
    BY <2>2 DEF Reads, ConfigNext, LoadStep
  <2>3. CASE Executes
    BY <2>3 DEF Executes, ConfigNext, LoadStep
  <2>4. CASE Loaded
    BY <2>4 DEF Loaded, ConfigNext, LoadStep
  <2>5. CASE NotLoaded
    BY <2>5 DEF NotLoaded, ConfigNext, LoadStep
  <2>6. CASE UNCHANGED allVars
    BY <2>6 DEF allVars
  <2> QED
    BY <2>1, <2>2, <2>3, <2>4, <2>5, <2>6
       DEF StartNext, MainStep, LogsVersion, LogsNetwork, NetworkStarts, NetworkFails, ShutsDown,
           LogsLoad, LogsLoaded, LogsNotLoaded, LogsStarting, PortStaysClosed, PortOpens, net_udp_create,
           priv_net_create_socket_fails, Reload,
           Serves, Stopped, allVars
<1> QED
  BY <1>1, <1>2, PTL DEF StartSpec, ConfigSpec

\* What a started server has in force is what its file says.
THEOREM StartFollowsTheFile == StartSpec => []FollowsTheFile
  BY StartUsesConfig, ConfigFollowsTheFile, PTL

-----------------------------------------------------------------------------

MAX == LOG_HISTORY_MAX_LINES

\* There are as many lines as the log counts.
LEMMA SaidLength ==
    ASSUME LogTypeOK
    PROVE  Len(Said) = hCount /\ DOMAIN Said = 1 .. hCount
  BY DEF LogTypeOK, Said

\* One line more, n' of them: the others move one place away from the end.
Adds(said, n, new, m, line) ==
    /\ m \in Nat \ {0} /\ m <= n + 1
    /\ new[m] = line
    /\ \A k \in 1 .. m - 1 : new[m - k] = said[n + 1 - k]

\* One line more in the ring is one line more in the list.
LEMMA LogsAsTheListSays ==
    ASSUME LogTypeOK, NEW line, Logs(line)
    PROVE  LogTypeOK' /\ Kept!LogListNext /\ Adds(Said, hCount, Said', hCount', line)
<1> USE LogConstants DEF MAX
<1>1. /\ hStart \in 0 .. MAX - 1 /\ hCount \in 0 .. MAX
      /\ hCount < MAX => hStart = 0
      /\ DOMAIN history = 0 .. MAX - 1 /\ MAX \in Nat \ {0}
  BY DEF LogTypeOK, Slots
<1>2. LogTypeOK'
  <2>1. CASE hCount >= MAX
    BY <1>1, <2>1 DEF Logs, NextSlot, LogTypeOK, Slots
  <2>2. CASE hCount < MAX
    BY <1>1, <2>2 DEF Logs, LogTypeOK, Slots
  <2> QED
    BY <1>1, <2>1, <2>2
<1>3. Len(Said') = hCount' /\ DOMAIN Said' = 1 .. hCount'
  BY <1>2 DEF LogTypeOK, Said
<1>4. CASE hCount < MAX
  <2>1. hStart = 0 /\ hStart' = 0 /\ hCount' = hCount + 1
        /\ history' = [history EXCEPT ![hCount] = line]
    BY <1>1, <1>4 DEF Logs
  <2>2. ASSUME NEW k \in 1 .. hCount PROVE Said'[k] = Said[k]
    BY <1>1, <1>4, <2>1 DEF Said, SlotOf
  <2>3. Said'[hCount + 1] = line
    BY <1>1, <1>4, <2>1 DEF Said, SlotOf
  <2>4. Append(Said, line) = [k \in 1 .. hCount + 1 |-> IF k = hCount + 1 THEN line ELSE Said[k]]
    BY <1>1, SaidLength
  <2>5. Said' = Append(Said, line)
    <3>1. \A k \in 1 .. hCount + 1 : Said'[k] = IF k = hCount + 1 THEN line ELSE Said[k]
      BY <1>1, <2>2, <2>3
    <3>2. Said' = [k \in 1 .. hCount + 1 |-> Said'[k]]
      BY <2>1 DEF Said
    <3> QED
      BY <2>4, <3>1, <3>2
  <2>6. Adds(Said, hCount, Said', hCount', line)
    <3>1. \A k \in 1 .. hCount : hCount + 1 - k \in 1 .. hCount
      BY <1>1
    <3>2. \A k \in 1 .. hCount : Said'[hCount + 1 - k] = Said[hCount + 1 - k]
      BY <2>2, <3>1
    <3> QED
      BY <1>1, <2>1, <2>3, <3>2 DEF Adds
  <2> QED
    BY <1>1, <1>2, <1>3, <1>4, <2>1, <2>3, <2>5, <2>6, SaidLength DEF Kept!LogListNext, Kept!Say
<1>5. CASE hCount = MAX
  <2>1. /\ hStart' = IF hStart + 1 >= MAX THEN 0 ELSE hStart + 1
        /\ hCount' = MAX
        /\ history' = [history EXCEPT ![hStart] = line]
    BY <1>1, <1>5 DEF Logs, NextSlot
  <2>2. ASSUME NEW k \in 1 .. MAX - 1 PROVE Said'[k] = Said[k + 1]
    BY <1>1, <1>5, <2>1 DEF Said, SlotOf
  <2>3. Said'[MAX] = line
    BY <1>1, <1>5, <2>1 DEF Said, SlotOf
  <2>4. Append(Tail(Said), line) = [k \in 1 .. MAX |-> IF k = MAX THEN line ELSE Said[k + 1]]
    BY <1>1, <1>5, SaidLength
  <2>5. Said' = Append(Tail(Said), line)
    <3>1. \A k \in 1 .. MAX : Said'[k] = IF k = MAX THEN line ELSE Said[k + 1]
      BY <1>1, <2>2, <2>3
    <3>2. Said' = [k \in 1 .. MAX |-> Said'[k]]
      BY <2>1 DEF Said
    <3> QED
      BY <2>4, <3>1, <3>2
  <2>6. Adds(Said, hCount, Said', hCount', line)
    BY <1>1, <1>5, <2>1, <2>2, <2>3 DEF Adds
  <2> QED
    BY <1>1, <1>2, <1>3, <1>5, <2>1, <2>3, <2>5, <2>6, SaidLength DEF Kept!LogListNext, Kept!Say
<1> QED
  BY <1>1, <1>4, <1>5

\* A step of a started server logs one line or none.
LEMMA OneLineOrNone ==
    ASSUME [StartNext]_allVars
    PROVE  (\E line : Logs(line)) \/ UNCHANGED logVars
<1> USE DEF logInfo, logWarn, logError, Returns
<1>1. CASE UNCHANGED allVars
  BY <1>1 DEF allVars
<1>2. CASE LogsVersion \/ LogsNetwork \/ NetworkStarts \/ NetworkFails \/ ShutsDown
  BY <1>2, Zenon DEF LogsVersion, LogsNetwork, NetworkStarts, NetworkFails, ShutsDown
<1>3. CASE LogsLoad \/ LogsLoaded \/ LogsNotLoaded \/ LogsStarting
  BY <1>3, Zenon DEF LogsLoad, LogsLoaded, LogsNotLoaded, LogsStarting
<1>4. CASE PortStaysClosed \/ PortOpens
  BY <1>4, Zenon DEF PortStaysClosed, PortOpens
<1>5. CASE Executes
  BY <1>5, Zenon DEF Executes
<1>6. CASE Begins \/ Reads \/ Loaded \/ NotLoaded \/ Serves \/ Reload \/ Stopped
  BY <1>6 DEF Begins, Reads, Loaded, NotLoaded, Serves, Reload, Stopped, allVars
<1> QED
  BY <1>1, <1>2, <1>3, <1>4, <1>5, <1>6 DEF StartNext, MainStep

\* The ring holds the last lines in their order (logger.cpp lines 145-170),
\* whatever its size and however many lines were logged.
THEOREM LogKeepsTheLastLines == StartSpec => LogIsTheLastLines
<1>1. StartInit => LogTypeOK /\ Kept!LogListInit
  BY LogConstants DEF StartInit, logInit, LogTypeOK, Slots, Said, Kept!LogListInit
<1>2. ASSUME LogTypeOK, [StartNext]_allVars
      PROVE  LogTypeOK' /\ [Kept!LogListNext]_Said
  <2>1. CASE \E line : Logs(line)
    BY <2>1, <1>2, LogsAsTheListSays
  <2>2. CASE UNCHANGED logVars
    BY <2>2, <1>2 DEF logVars, LogTypeOK, Said, SlotOf
  <2> QED
    BY <1>2, <2>1, <2>2, OneLineOrNone
<1> QED
  BY <1>1, <1>2, PTL DEF StartSpec, LogIsTheLastLines, Kept!LogListSpec

-----------------------------------------------------------------------------

\* The lines a load may log.
LoadLines ==
    {LogLine(LOG_CONF, ERROR, InvalidConfigLine, <<t>>) : t \in Texts}
    \cup {LogLine(LOG_CONF, WARN, DuplicateNameIgnored, <<n>>) : n \in Names}
    \cup {Begun(msg) : msg \in {LoadingConfig, ReloadingConfig, LoadingConfigOK, ReloadingConfigOK}}

\* Line k of f is an entry of no section, or not one of its section.
NoEntry(f, W, k) ==
    /\ f[k] \in Texts
    /\ \/ \A c \in Sections : ~InSection(f, k, c)
       \/ InSection(f, k, "servers") /\ f[k] \notin ServerTexts
       \/ InSection(f, k, "records") /\ ~RecordWith(f, W, k)

\* What the log should say of line k of f, whatever is in force.
About(f, W, k) ==
    IF NoEntry(f, W, k) THEN <<LogLine(LOG_CONF, ERROR, InvalidConfigLine, <<f[k]>>)>>
    ELSE IF SecondOfItsName(f, W, k)
    THEN <<LogLine(LOG_CONF, WARN, DuplicateNameIgnored, <<NameOf[f[k]]>>)>>
    ELSE <<>>

\* What it should say of the first b lines of f, and the records they make.
ReportUpTo(f, W, b) == FlattenSeq([k \in 1 .. b |-> About(f, W, k)])

\* The lines among the first b that are records of the name n.
OwnLines(f, W, b, n) == {k \in 1 .. b : RecordWith(f, W, k) /\ NameOf[f[k]] = n}

RecordsUpTo(f, W, b) ==
    [n \in Names |-> IF OwnLines(f, W, b, n) = {} THEN 0 ELSE Min(OwnLines(f, W, b, n))]

\* The two sets of one-word lines agree on the first b lines.
SameUpTo(W, V, b) == \A k \in 1 .. b : k \in W <=> k \in V

\* What is said of a line depends on the lines up to it.
LEMMA AboutSame ==
    ASSUME NEW f, NEW W, NEW V, NEW b \in Nat, SameUpTo(W, V, b), NEW k \in 1 .. b
    PROVE  /\ RecordWith(f, W, k) <=> RecordWith(f, V, k)
           /\ About(f, W, k) = About(f, V, k)
<1>1. \A q \in 1 .. b : RecordWith(f, W, q) <=> RecordWith(f, V, q)
  BY DEF SameUpTo, RecordWith
<1>2. \A q \in 1 .. k - 1 : q \in 1 .. b
  OBVIOUS
<1>3. NoEntry(f, W, k) <=> NoEntry(f, V, k)
  BY <1>1 DEF NoEntry
<1>4. SecondOfItsName(f, W, k) <=> SecondOfItsName(f, V, k)
  BY <1>1, <1>2 DEF SecondOfItsName
<1> QED  BY <1>1, <1>3, <1>4, Zenon DEF About

\* What is said of a line is made of lines a load may log.
LEMMA AboutType ==
    ASSUME NEW f, NEW W, NEW k, f[k] \in Texts \cup Sections
    PROVE  About(f, W, k) \in Seq(LoadLines)
<1>1. CASE NoEntry(f, W, k)
  <2>1. f[k] \in Texts
    BY <1>1 DEF NoEntry
  <2> QED  BY <1>1, <2>1 DEF About, LoadLines
<1>2. CASE ~NoEntry(f, W, k) /\ SecondOfItsName(f, W, k)
  <2>1. NameOf[f[k]] \in Names
    BY <1>2, ConfigConstants DEF SecondOfItsName, RecordWith, MayBeRecord, InSection
  <2> QED  BY <1>2, <2>1 DEF About, LoadLines
<1>3. CASE ~NoEntry(f, W, k) /\ ~SecondOfItsName(f, W, k)
  BY <1>3 DEF About
<1> QED  BY <1>1, <1>2, <1>3

\* One line more adds what is said about it, whichever one-word lines follow.
LEMMA ReportNext ==
    ASSUME NEW f, NEW W, NEW V, NEW b \in Nat, SameUpTo(W, V, b),
           \A k \in 1 .. b + 1 : f[k] \in Texts \cup Sections
    PROVE  /\ ReportUpTo(f, W, b) \in Seq(LoadLines)
           /\ ReportUpTo(f, V, b + 1) = ReportUpTo(f, W, b) \o About(f, V, b + 1)
<1> DEFINE s == [k \in 1 .. b |-> About(f, W, k)]
           t == [k \in 1 .. b + 1 |-> About(f, V, k)]
<1>1. s \in Seq(Seq(LoadLines)) /\ Len(s) = b
  BY AboutType
<1>2. t \in Seq(Seq(LoadLines)) /\ Len(t) = b + 1
  BY AboutType
<1>3. \A k \in 1 .. b : t[k] = s[k]
  BY AboutSame
<1>4. t[b + 1] = About(f, V, b + 1)
  OBVIOUS
<1>5. ReportUpTo(f, W, b) = FlattenSeq(s) /\ ReportUpTo(f, V, b + 1) = FlattenSeq(t)
  BY DEF ReportUpTo
<1> HIDE DEF s, t
<1>6. FlattenSeq(t) = FlattenSeq(s) \o t[b + 1]
  BY <1>1, <1>2, <1>3, FlattenAppend
<1> QED  BY <1>1, <1>4, <1>5, <1>6, FlattenType

\* So is what is said of a file.
LEMMA ReportType ==
    ASSUME NEW f \in Seq(Texts \cup Sections), NEW W
    PROVE  ReportUpTo(f, W, Len(f)) \in Seq(LoadLines)
<1> DEFINE s == [k \in 1 .. Len(f) |-> About(f, W, k)]
<1>1. s \in Seq(Seq(LoadLines)) /\ Len(s) = Len(f)
  BY AboutType
<1> HIDE DEF s
<1>2. FlattenSeq(s) \in Seq(LoadLines)
  BY <1>1, FlattenType
<1> QED  BY <1>2 DEF ReportUpTo, s

\* There is nothing to say of no lines, and they make no records.
LEMMA NothingReported ==
    ASSUME NEW f, NEW W
    PROVE  /\ ReportUpTo(f, W, 0) = <<>>
           /\ RecordsUpTo(f, W, 0) = NoRecords
<1>1. [k \in 1 .. 0 |-> About(f, W, k)] = <<>> /\ Len(<<>>) = 0
  OBVIOUS
<1>2. FlattenSeq(<<>>) = <<>>
  BY <1>1 DEF FlattenSeq
<1>3. \A n : OwnLines(f, W, 0, n) = {}
  BY DEF OwnLines
<1> QED  BY <1>1, <1>2, <1>3 DEF ReportUpTo, RecordsUpTo, NoRecords

\* No line stands in two sections.
LEMMA OneSection ==
    ASSUME NEW f, NEW k \in Nat, NEW c \in Sections, NEW d \in Sections,
           InSection(f, k, c), InSection(f, k, d)
    PROVE  c = d
<1>1. PICK s \in 1 .. k - 1 : f[s] = c /\ \A q \in s + 1 .. k - 1 : f[q] \notin Sections
  BY DEF InSection
<1>2. PICK r \in 1 .. k - 1 : f[r] = d /\ \A q \in r + 1 .. k - 1 : f[q] \notin Sections
  BY DEF InSection
<1>3. ~(s < r)
  <2>1. s < r => r \in s + 1 .. k - 1
    OBVIOUS
  <2> QED  BY <2>1, <1>1, <1>2
<1>4. ~(r < s)
  <2>1. r < s => s \in r + 1 .. k - 1
    OBVIOUS
  <2> QED  BY <2>1, <1>1, <1>2
<1>5. r = s
  BY <1>3, <1>4
<1> QED  BY <1>1, <1>2, <1>5

\* After a load, the lines that are not in the list of their section are those
\* that are no entries of it.
LEMMA RefusedIsNoEntry ==
    ASSUME ConfigInv, pc = "idle", NEW W, NEW k \in 1 .. Len(file)
    PROVE  Refused(W, k) <=> NoEntry(file, W, k)
<1>1. /\ m_Servers = ServersIn(file, Len(file))
      /\ m_WhiteList = WhiteMade(file, Len(file))
      /\ m_BlackList = BlackIn(file, Len(file))
  BY DEF ConfigInv, FollowsExactly, lists
<1>2. file[k] \in Texts => k \in Nat
  OBVIOUS
<1>3. /\ k \in m_Servers <=> InSection(file, k, "servers") /\ file[k] \in ServerTexts
      /\ InSection(file, k, "whitelist") => k \in m_WhiteList
      /\ InSection(file, k, "blacklist") => k \in m_BlackList
  BY <1>1 DEF ServersIn, WhiteMade, BlackIn
<1>4. RecordWith(file, W, k) => InSection(file, k, "records")
  BY DEF RecordWith, MayBeRecord
<1>5. \A c, d \in Sections : InSection(file, k, c) /\ InSection(file, k, d) => c = d
  BY OneSection
<1>6. InItsList(W, k) <=>
          \/ InSection(file, k, "servers") /\ file[k] \in ServerTexts
          \/ InSection(file, k, "whitelist")
          \/ InSection(file, k, "blacklist")
          \/ RecordWith(file, W, k)
  BY <1>3 DEF InItsList
<1> QED
  BY <1>4, <1>5, <1>6 DEF Refused, NoEntry, Sections

\* The report of a file is that up to its last line, and so are its records.
LEMMA ReportOfAll ==
    ASSUME ConfigInv, pc = "idle", NEW W
    PROVE  /\ ReportOf(W) = ReportUpTo(file, W, Len(file))
           /\ RecordsWith(file, W) = RecordsUpTo(file, W, Len(file))
<1>1. DOMAIN file = 1 .. Len(file)
  BY LenProperties DEF ConfigInv, ConfigTypeOK
<1>2. \A k \in 1 .. Len(file) :
          About(file, W, k) =
              IF Refused(W, k) THEN <<LogLine(LOG_CONF, ERROR, InvalidConfigLine, <<file[k]>>)>>
              ELSE IF SecondOfItsName(file, W, k)
              THEN <<LogLine(LOG_CONF, WARN, DuplicateNameIgnored, <<NameOf[file[k]]>>)>>
              ELSE <<>>
  BY RefusedIsNoEntry, Zenon DEF About
<1>3. ReportOf(W) = ReportUpTo(file, W, Len(file))
  BY <1>1, <1>2 DEF ReportOf, ReportUpTo
<1>4. RecordsWith(file, W) = RecordsUpTo(file, W, Len(file))
  BY <1>1 DEF RecordsWith, RecordsUpTo, OwnLines
<1> QED  BY <1>3, <1>4

\* What is to be said of a load changes only with what is in force.
LEMMA ReportStays ==
    ASSUME UNCHANGED <<lists, file>>
    PROVE  \A W : ReportOf(W)' = ReportOf(W)
  BY DEF ReportOf, Refused, InItsList, lists

\* The least line of a set of lines.
LEMMA MinLine ==
    ASSUME NEW T \in SUBSET Nat, T # {}
    PROVE  Min(T) \in T /\ \A n \in T : Min(T) <= n
  BY LeastNumber DEF Min

\* A record line is in force if it is the first of its name, and a duplicate
\* otherwise; any other line leaves the records as they are.
LEMMA RecordsNext ==
    ASSUME NEW f, NEW W, NEW V, NEW b \in Nat, SameUpTo(W, V, b)
    PROVE  /\ ~RecordWith(f, V, b + 1) => RecordsUpTo(f, V, b + 1) = RecordsUpTo(f, W, b)
           /\ \A n \in Names : RecordWith(f, V, b + 1) /\ NameOf[f[b + 1]] = n =>
                  /\ RecordsUpTo(f, V, b + 1) =
                         IF RecordsUpTo(f, W, b)[n] = 0
                         THEN [RecordsUpTo(f, W, b) EXCEPT ![n] = b + 1]
                         ELSE RecordsUpTo(f, W, b)
                  /\ SecondOfItsName(f, V, b + 1) <=> RecordsUpTo(f, W, b)[n] # 0
<1>1. \A n : OwnLines(f, W, b, n) = {k \in 1 .. b : RecordWith(f, V, k) /\ NameOf[f[k]] = n}
  BY AboutSame DEF OwnLines
<1>2. \A k : k \in 1 .. b + 1 <=> k \in 1 .. b \/ k = b + 1
  OBVIOUS
<1>3. \A n : OwnLines(f, V, b + 1, n) =
          IF RecordWith(f, V, b + 1) /\ NameOf[f[b + 1]] = n
          THEN OwnLines(f, W, b, n) \cup {b + 1} ELSE OwnLines(f, W, b, n)
  BY <1>1, <1>2 DEF OwnLines
<1>4. \A n : OwnLines(f, W, b, n) \subseteq 1 .. b
  BY DEF OwnLines
<1>5. \A n : OwnLines(f, W, b, n) # {} =>
          Min(OwnLines(f, W, b, n)) \in OwnLines(f, W, b, n)
  BY <1>4, MinLine
<1>6. ~RecordWith(f, V, b + 1) => RecordsUpTo(f, V, b + 1) = RecordsUpTo(f, W, b)
  BY <1>3 DEF RecordsUpTo
<1>7. ASSUME NEW n \in Names, RecordWith(f, V, b + 1), NameOf[f[b + 1]] = n
      PROVE  /\ RecordsUpTo(f, V, b + 1) =
                    IF RecordsUpTo(f, W, b)[n] = 0
                    THEN [RecordsUpTo(f, W, b) EXCEPT ![n] = b + 1]
                    ELSE RecordsUpTo(f, W, b)
             /\ SecondOfItsName(f, V, b + 1) <=> RecordsUpTo(f, W, b)[n] # 0
  <2> DEFINE old == OwnLines(f, W, b, n)
             new == OwnLines(f, V, b + 1, n)
  <2>1. \A m \in Names \ {n} : RecordsUpTo(f, V, b + 1)[m] = RecordsUpTo(f, W, b)[m]
    BY <1>3, <1>7 DEF RecordsUpTo
  <2>2. new = old \cup {b + 1} /\ old \subseteq 1 .. b
    BY <1>3, <1>4, <1>7
  <2>3. RecordsUpTo(f, W, b)[n] = IF old = {} THEN 0 ELSE Min(old)
    BY DEF RecordsUpTo
  <2>4. RecordsUpTo(f, V, b + 1)[n] = Min(new)
    BY <2>2 DEF RecordsUpTo
  <2>5. RecordsUpTo(f, W, b)[n] = 0 <=> old = {}
    BY <1>5, <2>2, <2>3
  <2>6. SecondOfItsName(f, V, b + 1) <=> old # {}
    <3>1. SecondOfItsName(f, V, b + 1) <=>
              \E q \in 1 .. b : RecordWith(f, V, q) /\ NameOf[f[q]] = n
      <4>1. (b + 1) - 1 = b
        OBVIOUS
      <4> QED  BY <1>7, <4>1 DEF SecondOfItsName
    <3> QED  BY <1>1, <3>1
  <2>7. CASE old = {}
    <3>1. Min({b + 1}) = b + 1
      <4>1. {b + 1} \subseteq Nat /\ {b + 1} # {}
        OBVIOUS
      <4> QED  BY <4>1, MinLine
    <3>2. RecordsUpTo(f, V, b + 1)[n] = b + 1
      BY <2>2, <2>4, <2>7, <3>1
    <3>3. RecordsUpTo(f, V, b + 1) = [RecordsUpTo(f, W, b) EXCEPT ![n] = b + 1]
      BY <2>1, <3>2 DEF RecordsUpTo
    <3> QED  BY <2>5, <2>6, <2>7, <3>3
  <2>8. CASE old # {}
    <3>1. Min(old) \in old /\ \A k \in old : Min(old) <= k
      BY <2>2, <2>8, MinLine
    <3>2. Min(new) \in new /\ \A k \in new : Min(new) <= k
      BY <2>2, MinLine
    <3>3. Min(new) = Min(old)
      BY <2>2, <3>1, <3>2
    <3>4. RecordsUpTo(f, V, b + 1)[n] = RecordsUpTo(f, W, b)[n]
      BY <2>3, <2>4, <2>8, <3>3
    <3>5. RecordsUpTo(f, V, b + 1) = RecordsUpTo(f, W, b)
      BY <2>1, <3>4 DEF RecordsUpTo
    <3> QED  BY <2>5, <2>6, <2>8, <3>5
  <2> QED  BY <2>7, <2>8
<1> QED  BY <1>6, <1>7

-----------------------------------------------------------------------------

\* A history of n lines ends in these lines, as far back as it reaches.
EndsIn(said, n, lines) ==
    \A k \in 0 .. n - 1 : k < Len(lines) => said[n - k] = lines[Len(lines) - k]

\* One line more in the log, one line more that it ends in.
LEMMA EndsInOneMore ==
    ASSUME NEW said, NEW n \in Nat, NEW new, NEW m, NEW line, Adds(said, n, new, m, line),
           NEW S, NEW lines \in Seq(S), line \in S, EndsIn(said, n, lines)
    PROVE  EndsIn(new, m, Append(lines, line))
<1>1. /\ Len(lines) \in Nat /\ Len(Append(lines, line)) = Len(lines) + 1
      /\ Append(lines, line)[Len(lines) + 1] = line
      /\ \A i \in 1 .. Len(lines) : Append(lines, line)[i] = lines[i]
  OBVIOUS
<1> DEFINE more == Append(lines, line)
<1> HIDE DEF more
<1> SUFFICES ASSUME NEW k \in 0 .. m - 1, k < Len(more)
             PROVE  new[m - k] = more[Len(more) - k]
  BY DEF EndsIn, more
<1>2. CASE k = 0
  BY <1>1, <1>2 DEF Adds, more
<1>3. CASE k # 0
  <2>1. k - 1 \in 0 .. n - 1 /\ k \in 1 .. m - 1 /\ k - 1 < Len(lines)
    BY <1>1, <1>3 DEF Adds, more
  <2>2. new[m - k] = said[n + 1 - k] /\ n + 1 - k = n - (k - 1)
    BY <2>1 DEF Adds
  <2>3. said[n - (k - 1)] = lines[Len(lines) - (k - 1)]
    BY <2>1 DEF EndsIn
  <2>4. /\ Len(lines) - (k - 1) = Len(more) - k
        /\ Len(more) - k \in 1 .. Len(lines)
    BY <1>1, <2>1 DEF more
  <2> QED  BY <1>1, <2>2, <2>3, <2>4 DEF more
<1> QED  BY <1>2, <1>3

\* What there is of a load that has executed the first b lines, when it took
\* the one-word lines W for records.
SoFar(W, b) ==
    /\ \A k \in W : k \in 1 .. b /\ file[k] \in OneWordTexts
    /\ m_pLocalRecords = RecordsUpTo(file, W, b)

\* The three ways in which a line is told, each with what Executes looks at.
ToldAs(about) ==
    \/ about = <<>> /\ ~IsInvalid /\ ~IsDuplicate
    \/ /\ about = <<LogLine(LOG_CONF, ERROR, InvalidConfigLine, <<file[NextLine]>>)>>
       /\ IsInvalid /\ ~IsDuplicate
    \/ /\ about = <<LogLine(LOG_CONF, WARN, DuplicateNameIgnored, <<NameOf[file[NextLine]]>>)>>
       /\ ~IsInvalid /\ IsDuplicate

\* The next line, when it is no record: it is told as NoEntry says, and leaves
\* the records alone.
LEMMA NoRecordIsTold ==
    ASSUME ConfigInv, reported \subseteq 1 .. h, NEW W, SoFar(W, h), ExecLine,
           ~RecordWith(file, W, h + 1), UNCHANGED m_pLocalRecords,
           IF NoEntry(file, W, h + 1) THEN Report ELSE UNCHANGED reported /\ ~IsDuplicate
    PROVE  /\ m_pLocalRecords' = RecordsUpTo(file, W, h + 1)
           /\ ToldAs(About(file, W, h + 1))
<1>1. h \in Nat /\ h + 1 \notin reported
  BY ExecutedLine DEF ConfigInv
<1>2. m_pLocalRecords' = RecordsUpTo(file, W, h + 1)
  <2>1. SameUpTo(W, W, h)
    BY DEF SameUpTo
  <2> QED  BY <1>1, <2>1, RecordsNext DEF SoFar
<1>3. ~SecondOfItsName(file, W, h + 1)
  BY DEF SecondOfItsName
<1>4. CASE NoEntry(file, W, h + 1)
  <2>1. reported' # reported
    BY <1>1, <1>4 DEF Report, NextLine
  <2> QED  BY <1>2, <1>4, <2>1 DEF About, ToldAs, IsInvalid, IsDuplicate, NextLine
<1>5. CASE ~NoEntry(file, W, h + 1)
  BY <1>2, <1>3, <1>5 DEF About, ToldAs, IsInvalid
<1> QED  BY <1>4, <1>5

\* The next line, when it is a record with the one-word lines V.
LEMMA RecordIsTold ==
    ASSUME ConfigInv, NEW W, SoFar(W, h), NEW V, SameUpTo(W, V, h),
           LineIs(Texts), cmd = "records", RecordWith(file, V, h + 1),
           PutRecord(NameOf[file[h + 1]]), UNCHANGED reported, h \in Nat
    PROVE  /\ m_pLocalRecords' = RecordsUpTo(file, V, h + 1)
           /\ ToldAs(About(file, V, h + 1))
<1> DEFINE n == NameOf[file[h + 1]]
<1>1. n \in Names
  BY DEF RecordWith, MayBeRecord
<1>2. ~NoEntry(file, V, h + 1)
  <2>1. InSection(file, h + 1, "records") /\ file[h + 1] \in Texts
    BY DEF RecordWith, MayBeRecord, InSection
  <2>2. "records" \in Sections /\ "servers" \in Sections /\ "servers" # "records"
    BY DEF Sections
  <2>3. ~InSection(file, h + 1, "servers")
    <3>1. pc = "executing" /\ CmdFollows
      BY DEF LineIs, ConfigInv
    <3> QED  BY <2>1, <2>2, <3>1, CmdDecides
  <2> QED  BY <2>1, <2>2, <2>3 DEF NoEntry
<1>3. /\ RecordsUpTo(file, V, h + 1) =
             IF m_pLocalRecords[n] = 0
             THEN [m_pLocalRecords EXCEPT ![n] = h + 1]
             ELSE m_pLocalRecords
      /\ SecondOfItsName(file, V, h + 1) <=> m_pLocalRecords[n] # 0
  BY <1>1, RecordsNext DEF SoFar
<1>4. m_pLocalRecords \in [Names -> Nat]
  BY DEF ConfigInv, ConfigTypeOK
<1>5. CASE m_pLocalRecords[n] = 0
  <2>1. m_pLocalRecords' = [m_pLocalRecords EXCEPT ![n] = h + 1]
    BY <1>5 DEF PutRecord, NextLine
  <2>2. m_pLocalRecords'[n] = h + 1 /\ h + 1 # 0
    BY <1>1, <1>4, <2>1
  <2>3. ~IsDuplicate /\ ~IsInvalid
    BY <1>5, <2>2 DEF IsDuplicate, IsInvalid
  <2>4. About(file, V, h + 1) = <<>>
    BY <1>2, <1>3, <1>5 DEF About
  <2> QED  BY <1>3, <1>5, <2>1, <2>3, <2>4 DEF ToldAs
<1>6. CASE m_pLocalRecords[n] # 0
  <2>1. m_pLocalRecords' = m_pLocalRecords
    BY <1>6 DEF PutRecord
  <2>2. IsDuplicate /\ ~IsInvalid
    BY <2>1 DEF IsDuplicate, IsInvalid
  <2>3. About(file, V, h + 1) =
            <<LogLine(LOG_CONF, WARN, DuplicateNameIgnored, <<NameOf[file[h + 1]]>>)>>
    BY <1>2, <1>3, <1>6 DEF About
  <2> QED  BY <1>3, <1>6, <2>1, <2>2, <2>3 DEF ToldAs, NextLine
<1> QED  BY <1>5, <1>6

\* Whatever the next line is, it is told as the log should tell it, with one
\* more one-word line taken for a record or not.
LEMMA LineIsTold ==
    ASSUME ConfigInv, reported \subseteq 1 .. h, NEW W, SoFar(W, h), ExecLine
    PROVE  \E V :
               /\ SameUpTo(W, V, h)
               /\ \A k \in V : k \in 1 .. h + 1 /\ file[k] \in OneWordTexts
               /\ m_pLocalRecords' = RecordsUpTo(file, V, h + 1)
               /\ ToldAs(About(file, V, h + 1))
<1>1. /\ pc = "executing" /\ h \in Nat /\ file[h + 1] \in Texts \cup Sections
      /\ CmdFollows
  BY ExecutedLine DEF ConfigInv
<1> DEFINE in(c) == InSection(file, h + 1, c)
<1>2. file[h + 1] \in Texts => \A c \in Sections : in(c) <=> cmd = c
  BY <1>1, CmdDecides
<1>3. /\ "servers" \in Sections /\ "records" \in Sections /\ CMD_NULL \notin Sections
      /\ \A c : in(c) => file[h + 1] \in Texts
      /\ file[h + 1] \in Sections => file[h + 1] \notin Texts
  BY ConfigConstants DEF Sections, CMD_NULL, InSection
<1>4. SameUpTo(W, W, h) /\ \A k \in W : k \in 1 .. h + 1 /\ file[k] \in OneWordTexts
  BY <1>1 DEF SameUpTo, SoFar
<1>5. SUFFICES ASSUME ~RecordLine
               PROVE  /\ ~RecordWith(file, W, h + 1) /\ UNCHANGED m_pLocalRecords
                      /\ IF NoEntry(file, W, h + 1) THEN Report ELSE UNCHANGED reported /\ ~IsDuplicate
  <2>1. CASE ~RecordLine
    BY <1>4, <1>5, <2>1, NoRecordIsTold
  <2>2. CASE RecordLine
    <3>1. /\ LineIs(Texts) /\ file[h + 1] \in Texts /\ cmd = "records" /\ in("records")
          /\ ~in("servers")
      BY <1>2, <1>3, <2>2 DEF RecordLine, EntryIn, LineIs, NextLine
    <3>2. \A V : RecordWith(file, V, h + 1) <=>
                     /\ file[h + 1] \in RecordTexts \cup OneWordTexts
                     /\ file[h + 1] \in OneWordTexts => h + 1 \in V
      <4>1. NameOf[file[h + 1]] \in Names
        BY <3>1, ConfigConstants
      <4> QED  BY <3>1, <4>1 DEF RecordWith, MayBeRecord
    <3>3. PICK valid \in LocalRecordFromString(file[h + 1]) :
              \/ valid /\ PutRecord(NameOf[file[h + 1]]) /\ UNCHANGED reported
              \/ ~valid /\ Report /\ UNCHANGED m_pLocalRecords
      BY <2>2 DEF RecordLine, NextLine
    <3>4. CASE ~valid
      <4>1. file[h + 1] \in OneWordTexts \/ file[h + 1] \notin RecordTexts
        BY <3>3, <3>4 DEF LocalRecordFromString
      <4>2. h + 1 \notin W
        BY <1>1 DEF SoFar
      <4>3. ~RecordWith(file, W, h + 1)
        BY <3>2, <4>1, <4>2
      <4>4. NoEntry(file, W, h + 1)
        BY <3>1, <4>3 DEF NoEntry
      <4>5. Report /\ UNCHANGED m_pLocalRecords
        BY <3>3, <3>4
      <4> QED  BY <1>4, <4>3, <4>4, <4>5, NoRecordIsTold
    <3>5. CASE valid
      <4>1. file[h + 1] \in RecordTexts \cup OneWordTexts
        BY <3>3, <3>5 DEF LocalRecordFromString
      <4>2. PutRecord(NameOf[file[h + 1]]) /\ UNCHANGED reported
        BY <3>3, <3>5
      <4> DEFINE V == IF file[h + 1] \in OneWordTexts THEN W \cup {h + 1} ELSE W
      <4>3. RecordWith(file, V, h + 1)
        BY <3>2, <4>1
      <4>4. SameUpTo(W, V, h) /\ \A k \in V : k \in 1 .. h + 1 /\ file[k] \in OneWordTexts
        BY <1>1, <1>4 DEF SameUpTo
      <4> HIDE DEF V
      <4>5. m_pLocalRecords' = RecordsUpTo(file, V, h + 1) /\ ToldAs(About(file, V, h + 1))
        BY <1>1, <3>1, <4>2, <4>3, <4>4, RecordIsTold
      <4> QED  BY <4>4, <4>5
    <3> QED  BY <3>4, <3>5
  <2> QED  BY <2>1, <2>2
<1>6. CASE NewSection
  <2>1. file[h + 1] \notin Texts /\ UNCHANGED <<m_pLocalRecords, reported>>
    BY <1>3, <1>6 DEF NewSection, LineIs, NextLine
  <2> QED  BY <1>3, <2>1 DEF RecordWith, MayBeRecord, NoEntry, IsDuplicate, LineIs, NextLine
<1>7. ASSUME NEW c \in {CMD_NULL, "servers", "whitelist", "blacklist"}, EntryIn(c)
      PROVE  /\ file[h + 1] \in Texts /\ cmd = c /\ ~in("records") /\ ~RecordWith(file, W, h + 1)
             /\ c = "servers" <=> in("servers")
             /\ c = CMD_NULL <=> \A s \in Sections : ~in(s)
             /\ ~IsDuplicate
  <2>1. file[h + 1] \in Texts /\ cmd = c
    BY <1>7 DEF EntryIn, LineIs, NextLine
  <2>2. c # "records" /\ (c # CMD_NULL => c \in Sections)
    BY DEF CMD_NULL, Sections
  <2>3. /\ ~in("records")
        /\ c = "servers" <=> in("servers")
        /\ c = CMD_NULL <=> \A s \in Sections : ~in(s)
    BY <1>2, <1>3, <2>1, <2>2
  <2> QED  BY <2>1, <2>2, <2>3 DEF RecordWith, MayBeRecord, IsDuplicate
<1>8. CASE OutsideSections
  <2>1. EntryIn(CMD_NULL) /\ Report /\ UNCHANGED m_pLocalRecords
    BY <1>8 DEF OutsideSections
  <2> QED  BY <1>7, <2>1 DEF NoEntry
<1>9. CASE ServerLine
  <2>1. EntryIn("servers") /\ file[h + 1] \in ServerTexts /\ UNCHANGED <<m_pLocalRecords, reported>>
    BY <1>9 DEF ServerLine, NextLine
  <2> QED  BY <1>3, <1>7, <2>1 DEF NoEntry
<1>10. CASE NotAServerLine
  <2>1. EntryIn("servers") /\ file[h + 1] \notin ServerTexts /\ Report /\ UNCHANGED m_pLocalRecords
    BY <1>10 DEF NotAServerLine, NextLine
  <2> QED  BY <1>7, <2>1 DEF NoEntry
<1>11. CASE WhiteListLine \/ BlackListLine
  <2>1. /\ EntryIn("whitelist") \/ EntryIn("blacklist")
        /\ UNCHANGED <<m_pLocalRecords, reported>>
    BY <1>11 DEF WhiteListLine, BlackListLine
  <2>2. /\ "whitelist" # "servers" /\ "whitelist" # CMD_NULL
        /\ "blacklist" # "servers" /\ "blacklist" # CMD_NULL
    BY DEF CMD_NULL
  <2> QED  BY <1>7, <2>1, <2>2 DEF NoEntry
<1> QED  BY <1>5, <1>6, <1>8, <1>9, <1>10, <1>11 DEF ExecLine


-----------------------------------------------------------------------------

\* The messages that end a load, and where main is before it has logged one.
FinalMessages == {LoadingConfigOK, ReloadingConfigOK, LoadingConfigFailed, ReloadingConfigFailed}

LoadPoints == {"Load", "loading", "loaded", "not loaded"}

\* The line the load began with.
BeginsWith == Begun(IF reload THEN ReloadingConfig ELSE LoadingConfig)

\* The log ends in the beginning of a load and what there is to say of its
\* first b lines.
ToldSoFar(W, b) ==
    SoFar(W, b) /\ EndsIn(Said, hCount, <<BeginsWith>> \o ReportUpTo(file, W, b))

\* What Clear leaves.
NothingInForce == lists = <<{}, {}, {}>> /\ m_pLocalRecords = NoRecords

\* While a load goes on, the log ends in what there is to say of it so far.
LoadIsBeingTold ==
    /\ loads \in Nat
    /\ pc # "idle" <=> at = "loading"
    /\ reported \subseteq 1 .. h
    /\ at = "Load" \/ pc = "opening" \/ at = "not loaded" => EndsIn(Said, hCount, <<BeginsWith>>)
    /\ pc = "opening" \/ at = "not loaded" => NothingInForce
    /\ pc = "executing" => \E W : ToldSoFar(W, h)
    /\ at = "loaded" => \E W : ToldSoFar(W, Len(file))

\* No load has ended since the last one began.
NotDoneYet == at \in LoadPoints => \A msg \in FinalMessages : ~LastIs(msg)

\* Each part needs the others: what the log ends in while a load goes on gives
\* what it ends in afterwards, and where no load has ended nothing is claimed.
LoadLogInv == LogTypeOK /\ LoadIsBeingTold /\ NotDoneYet /\ LogTellsTheLoad

\* What it takes to see that one more line is logged.
LEMMA OneMoreSaid ==
    ASSUME LogTypeOK, NEW line, Logs(line)
    PROVE  /\ LogTypeOK'
           /\ hCount \in Nat /\ Adds(Said, hCount, Said', hCount', line)
           /\ Said'[hCount'] = line
           /\ EndsIn(Said', hCount', <<line>>)
           /\ \A lines \in Seq(LoadLines) :
                  EndsIn(Said, hCount, lines) /\ line \in LoadLines =>
                      EndsIn(Said', hCount', Append(lines, line))
<1>1. LogTypeOK' /\ Adds(Said, hCount, Said', hCount', line) /\ hCount \in Nat
  BY LogsAsTheListSays, LogConstants DEF LogTypeOK
<1>2. EndsIn(Said', hCount', <<line>>)
  BY <1>1 DEF EndsIn, Adds
<1> QED  BY <1>1, <1>2, EndsInOneMore DEF Adds

\* As long as no load has ended, there is nothing to tell of its end.
LEMMA NothingToTell ==
    ASSUME \A msg \in FinalMessages : ~LastIs(msg)
    PROVE  LogTellsTheLoad
BY DEF LogTellsTheLoad, ToldInFull, ToldAsFailed, FinalMessages

\* The same, after a step that logs another line.
LEMMA NothingToTellAfter ==
    ASSUME LogTypeOK, NEW line, Logs(line), line.msg \notin FinalMessages
    PROVE  (\A msg \in FinalMessages : ~LastIs(msg))' /\ LogTellsTheLoad'
<1>1. Said'[hCount'] = line
  BY OneMoreSaid
<1>2. (\A msg \in FinalMessages : ~LastIs(msg))'
  BY <1>1 DEF LastIs, FinalMessages, LoadingConfigOK, ReloadingConfigOK, LoadingConfigFailed,
              ReloadingConfigFailed
<1>3. (\A msg \in FinalMessages : ~LastIs(msg))' => LogTellsTheLoad'
  BY DEF LogTellsTheLoad, ToldInFull, ToldAsFailed, FinalMessages, LoadingConfigOK,
         ReloadingConfigOK, LoadingConfigFailed, ReloadingConfigFailed
<1> QED  BY <1>2, <1>3

\* Steps that change nothing of it.
LEMMA NothingChanges ==
    ASSUME LoadLogInv,
           UNCHANGED <<lists, m_pLocalRecords, pc, file, h, reported, logVars, at, loads>>
    PROVE  LoadLogInv'
<1> USE DEF logVars, lists
<1>1. LogTypeOK' /\ Said' = Said /\ UNCHANGED hCount
  BY DEF LoadLogInv, LogTypeOK, Said, SlotOf
<1>2. BeginsWith' = BeginsWith
  BY DEF BeginsWith, reload
<1>3. UNCHANGED <<lists, m_pLocalRecords, file>>
  OBVIOUS
<1>4. LoadIsBeingTold'
  <2>1. (\E W : ToldSoFar(W, h)) => (\E W : ToldSoFar(W, h))'
    BY <1>1, <1>2 DEF ToldSoFar, SoFar
  <2>2. (\E W : ToldSoFar(W, Len(file))) => (\E W : ToldSoFar(W, Len(file)))'
    BY <1>1, <1>2 DEF ToldSoFar, SoFar
  <2> QED  BY <1>1, <1>2, <2>1, <2>2 DEF LoadLogInv, LoadIsBeingTold, NothingInForce
<1>5. NotDoneYet'
  BY <1>1 DEF LoadLogInv, NotDoneYet, LastIs
<1>6. LogTellsTheLoad'
  <2>1. ASSUME NEW begun, NEW done, ToldInFull(begun, done) PROVE ToldInFull(begun, done)'
    BY <1>1, <1>3, <2>1, ReportStays DEF ToldInFull, SaidLast, LastIs
  <2>2. ASSUME NEW begun, NEW failed, ToldAsFailed(begun, failed) PROVE ToldAsFailed(begun, failed)'
    BY <1>1, <1>3, <2>2 DEF ToldAsFailed, SaidLast, LastIs
  <2> QED  BY <2>1, <2>2 DEF LoadLogInv, LogTellsTheLoad
<1> QED  BY <1>1, <1>4, <1>5, <1>6 DEF LoadLogInv


\* A line of the file is executed: the log tells it.
LEMMA ExecutesTells ==
    ASSUME ConfigInv, LoadLogInv, Executes
    PROVE  LoadLogInv'
<1>1. /\ ExecLine /\ at = "loading" /\ at' = at /\ loads' = loads /\ LogTypeOK
      /\ pc = "executing" /\ pc' = "executing" /\ h' = h + 1 /\ file' = file /\ h \in Nat
      /\ h + 1 \in 1 .. Len(file)
      /\ file \in Seq(Texts \cup Sections)
  BY ExecutedLine DEF Executes, startVars, ConfigInv, ConfigTypeOK, LoadLogInv
<1>2. PICK W : ToldSoFar(W, h)
  BY <1>1 DEF LoadLogInv, LoadIsBeingTold
<1>3. PICK V :
          /\ SameUpTo(W, V, h)
          /\ \A k \in V : k \in 1 .. h + 1 /\ file[k] \in OneWordTexts
          /\ m_pLocalRecords' = RecordsUpTo(file, V, h + 1)
          /\ ToldAs(About(file, V, h + 1))
  BY <1>1, <1>2, LineIsTold DEF ToldSoFar, LoadLogInv, LoadIsBeingTold
<1> DEFINE lines == <<BeginsWith>> \o ReportUpTo(file, W, h)
           about == About(file, V, h + 1)
<1>4. /\ ReportUpTo(file, W, h) \in Seq(LoadLines)
      /\ ReportUpTo(file, V, h + 1) = ReportUpTo(file, W, h) \o about
      /\ about \in Seq(LoadLines)
  <2>1. \A k \in 1 .. h + 1 : file[k] \in Texts \cup Sections
    <3>1. \A k \in 1 .. h + 1 : k \in 1 .. Len(file)
      BY <1>1
    <3> QED  BY <1>1, <3>1
  <2> QED  BY <1>1, <1>3, <2>1, ReportNext, AboutType
<1>5. BeginsWith \in LoadLines
  BY DEF BeginsWith, LoadLines
<1>6. lines \in Seq(LoadLines) /\ EndsIn(Said, hCount, lines)
  BY <1>2, <1>4, <1>5 DEF ToldSoFar
<1>7. <<BeginsWith>> \o ReportUpTo(file, V, h + 1) = lines \o about
  <2>1. <<BeginsWith>> \in Seq(LoadLines)
    BY <1>5
  <2> HIDE DEF about
  <2>2. (<<BeginsWith>> \o ReportUpTo(file, W, h)) \o about
            = <<BeginsWith>> \o (ReportUpTo(file, W, h) \o about)
    BY <1>4, <2>1, ConcatAssociative
  <2> QED  BY <1>4, <2>2
<1> HIDE DEF lines, about
<1>8. /\ LogTypeOK'
      /\ EndsIn(Said', hCount', lines \o about)
      /\ (\A msg \in FinalMessages : ~LastIs(msg))'
  <2>1. ASSUME NEW line, line.msg \notin FinalMessages, Logs(line), about = <<line>>
        PROVE  /\ LogTypeOK'
               /\ EndsIn(Said', hCount', lines \o about)
               /\ (\A msg \in FinalMessages : ~LastIs(msg))'
    <3>1. line \in LoadLines
      BY <1>4, <2>1
    <3>2. lines \o about = Append(lines, line)
      BY <1>6, <2>1, <3>1
    <3> QED  BY <1>1, <1>6, <2>1, <3>1, <3>2, OneMoreSaid, NothingToTellAfter
  <2>2. CASE IsInvalid /\ logError(LOG_CONF, InvalidConfigLine, <<file[NextLine]>>)
    <3>1. about = <<LogLine(LOG_CONF, ERROR, InvalidConfigLine, <<file[NextLine]>>)>>
      BY <1>3, <2>2 DEF ToldAs, about
    <3>2. LogLine(LOG_CONF, ERROR, InvalidConfigLine, <<file[NextLine]>>).msg \notin FinalMessages
      BY DEF LogLine, InvalidConfigLine, FinalMessages, LoadingConfigOK, ReloadingConfigOK,
             LoadingConfigFailed, ReloadingConfigFailed
    <3> QED  BY <2>1, <2>2, <3>1, <3>2 DEF logError
  <2>3. CASE IsDuplicate /\ logWarn(LOG_CONF, DuplicateNameIgnored, <<NameOf[file[NextLine]]>>)
    <3>1. about = <<LogLine(LOG_CONF, WARN, DuplicateNameIgnored, <<NameOf[file[NextLine]]>>)>>
      BY <1>3, <2>3 DEF ToldAs, about
    <3>2. LogLine(LOG_CONF, WARN, DuplicateNameIgnored,
                  <<NameOf[file[NextLine]]>>).msg \notin FinalMessages
      BY DEF LogLine, DuplicateNameIgnored, FinalMessages, LoadingConfigOK, ReloadingConfigOK,
             LoadingConfigFailed, ReloadingConfigFailed
    <3> QED  BY <2>1, <2>3, <3>1, <3>2 DEF logWarn
  <2>4. CASE ~IsInvalid /\ ~IsDuplicate /\ UNCHANGED logVars
    <3>1. about = <<>>
      BY <1>3, <2>4 DEF ToldAs, about
    <3>2. lines \o about = lines
      BY <1>6, <3>1
    <3>3. LogTypeOK' /\ Said' = Said /\ hCount' = hCount
      BY <1>1, <2>4 DEF logVars, LogTypeOK, Said, SlotOf
    <3>4. \A msg \in FinalMessages : ~LastIs(msg)
      BY <1>1 DEF LoadLogInv, NotDoneYet, LoadPoints
    <3>5. (\A msg \in FinalMessages : ~LastIs(msg))'
      BY <3>3, <3>4 DEF LastIs
    <3> QED  BY <1>6, <3>2, <3>3, <3>5
  <2> QED  BY <2>2, <2>3, <2>4 DEF Executes
<1>9. BeginsWith' = BeginsWith
  BY <1>1 DEF BeginsWith, reload
<1>10. ToldSoFar(V, h)'
  BY <1>1, <1>3, <1>7, <1>8, <1>9 DEF ToldSoFar, SoFar
<1>11. reported' \subseteq 1 .. h + 1
  <2>1. reported \subseteq 1 .. h
    BY DEF LoadLogInv, LoadIsBeingTold
  <2>2. reported' \subseteq reported \cup {h + 1}
    BY <1>1 DEF ExecLine, NewSection, OutsideSections, ServerLine, NotAServerLine, WhiteListLine,
            BlackListLine, RecordLine, Report, NextLine
  <2> QED  BY <1>1, <2>1, <2>2
<1>12. LoadIsBeingTold'
  BY <1>1, <1>10, <1>11 DEF LoadIsBeingTold, LoadLogInv
<1>13. LogTellsTheLoad'
  BY <1>8, NothingToTell, PTL
<1> QED  BY <1>8, <1>12, <1>13 DEF LoadLogInv, NotDoneYet

\* A load begins: the log says so, and nothing else yet.
LEMMA LogsLoadTells ==
    ASSUME LoadLogInv, LogsLoad
    PROVE  LoadLogInv'
<1> DEFINE line == Begun(IF loads = 0 THEN LoadingConfig ELSE ReloadingConfig)
<1>1. /\ LogTypeOK /\ Logs(line) /\ at = "loadConfig" /\ at' = "Load" /\ loads' = loads + 1
      /\ pc = "idle" /\ pc' = "idle" /\ UNCHANGED <<h, reported>> /\ loads \in Nat
  BY DEF LogsLoad, LoadLogInv, LoadIsBeingTold, Goes, vars, logInfo, Begun
<1>2. line.msg \notin FinalMessages
  BY DEF Begun, LogLine, LoadingConfig, ReloadingConfig, FinalMessages, LoadingConfigOK,
         ReloadingConfigOK, LoadingConfigFailed, ReloadingConfigFailed
<1>3. BeginsWith' = line
  BY <1>1 DEF BeginsWith, reload
<1> HIDE DEF line
<1>4. EndsIn(Said, hCount, <<BeginsWith>>)' /\ LogTypeOK'
  BY <1>1, <1>3, OneMoreSaid
<1>5. LoadIsBeingTold'
  BY <1>1, <1>4 DEF LoadIsBeingTold, LoadLogInv
<1>6. NotDoneYet' /\ LogTellsTheLoad'
  BY <1>1, <1>2, NothingToTellAfter DEF NotDoneYet
<1> QED  BY <1>4, <1>5, <1>6 DEF LoadLogInv

\* The steps of a load that log nothing.
LEMMA QuietLoadSteps ==
    ASSUME ConfigInv, ConfigInv', LoadLogInv, Begins \/ Reads \/ Loaded \/ NotLoaded
    PROVE  LoadLogInv'
<1>1. /\ UNCHANGED <<logVars, loads>> /\ at \in LoadPoints /\ at' \in LoadPoints
      /\ loads \in Nat
  <2>1. CASE Begins
    BY <2>1 DEF Begins, Goes, LoadPoints, LoadLogInv, LoadIsBeingTold
  <2>2. CASE Reads
    BY <2>2 DEF Reads, startVars, LoadPoints, LoadLogInv, LoadIsBeingTold
  <2>3. CASE Loaded
    BY <2>3 DEF Loaded, Returns, Goes, LoadPoints, LoadLogInv, LoadIsBeingTold
  <2>4. CASE NotLoaded
    BY <2>4 DEF NotLoaded, Returns, Goes, LoadPoints, LoadLogInv, LoadIsBeingTold
  <2> QED  BY <2>1, <2>2, <2>3, <2>4
<1>2. LogTypeOK' /\ Said' = Said /\ hCount' = hCount /\ BeginsWith' = BeginsWith
  BY <1>1 DEF logVars, LogTypeOK, Said, SlotOf, LoadLogInv, BeginsWith, reload
<1>3. NotDoneYet' /\ (\A msg \in FinalMessages : ~LastIs(msg))'
  <2>1. \A msg \in FinalMessages : ~LastIs(msg)
    BY <1>1 DEF LoadLogInv, NotDoneYet
  <2>2. (\A msg \in FinalMessages : ~LastIs(msg))'
    BY <1>2, <2>1 DEF LastIs
  <2> QED  BY <2>2 DEF NotDoneYet
<1>4. LogTellsTheLoad'
  BY <1>3, NothingToTell, PTL
<1>5. CASE Begins
  <2>1. /\ at = "Load" /\ at' = "loading" /\ pc' = "opening" /\ UNCHANGED <<h, reported>>
        /\ NothingInForce'
    BY <1>5 DEF Begins, LoadBegin, Goes, Clear, SetLists, NothingInForce, NoRecords, lists
  <2>2. EndsIn(Said', hCount', <<BeginsWith'>>)
    BY <1>2, <2>1 DEF LoadLogInv, LoadIsBeingTold
  <2> QED  BY <1>1, <1>2, <1>3, <1>4, <2>1, <2>2 DEF LoadLogInv, LoadIsBeingTold
<1>6. CASE Reads
  <2>1. /\ at = "loading" /\ at' = "loading" /\ pc = "opening" /\ pc' = "executing"
        /\ UNCHANGED <<h, reported, m_pLocalRecords>> /\ h = 0
    BY <1>6 DEF Reads, ReadFile, startVars, ConfigInv, ConfigTypeOK
  <2>2. EndsIn(Said', hCount', <<BeginsWith'>>) /\ m_pLocalRecords = NoRecords
    BY <1>2, <2>1 DEF LoadLogInv, LoadIsBeingTold, NothingInForce
  <2>3. ToldSoFar({}, h)'
    <3>1. ReportUpTo(file', {}, 0) = <<>> /\ RecordsUpTo(file', {}, 0) = NoRecords
      BY NothingReported
    <3>2. <<BeginsWith'>> \o <<>> = <<BeginsWith'>>
      OBVIOUS
    <3> QED  BY <2>1, <2>2, <3>1, <3>2 DEF ToldSoFar, SoFar
  <2> QED  BY <1>1, <1>2, <1>3, <1>4, <2>1, <2>3 DEF LoadLogInv, LoadIsBeingTold
<1>7. CASE Loaded
  <2>1. /\ at = "loading" /\ at' = "loaded" /\ pc = "executing" /\ pc' = "idle"
        /\ h = Len(file) /\ h' = 0 /\ reported' = {} /\ UNCHANGED <<m_pLocalRecords, file>>
    BY <1>7 DEF Loaded, LoadEnds, Returns, Goes, NoLocals
  <2>2. PICK W : ToldSoFar(W, Len(file))
    BY <2>1 DEF LoadLogInv, LoadIsBeingTold
  <2>3. ToldSoFar(W, Len(file))'
    BY <1>2, <2>1, <2>2 DEF ToldSoFar, SoFar
  <2> QED  BY <1>1, <1>2, <1>3, <1>4, <2>1, <2>3 DEF LoadLogInv, LoadIsBeingTold
<1>8. CASE NotLoaded
  <2>1. /\ at = "loading" /\ at' = "not loaded" /\ pc = "opening" /\ pc' = "idle"
        /\ UNCHANGED <<h, reported, lists, m_pLocalRecords>>
    BY <1>8 DEF NotLoaded, LoadFails, Returns, Goes, lists
  <2>2. EndsIn(Said', hCount', <<BeginsWith'>>) /\ NothingInForce'
    BY <1>2, <2>1 DEF LoadLogInv, LoadIsBeingTold, NothingInForce
  <2> QED  BY <1>1, <1>2, <1>3, <1>4, <2>1, <2>2 DEF LoadLogInv, LoadIsBeingTold
<1> QED  BY <1>5, <1>6, <1>7, <1>8

\* The steps that log something that is not about a load.
LEMMA OtherLines ==
    ASSUME LoadLogInv,
           \/ LogsVersion \/ LogsNetwork \/ NetworkStarts \/ NetworkFails \/ ShutsDown
           \/ LogsStarting \/ PortStaysClosed \/ PortOpens
    PROVE  LoadLogInv'
<1>1. /\ UNCHANGED vars /\ loads' = loads /\ at \notin LoadPoints /\ at' \notin LoadPoints
  BY DEF LogsVersion, LogsNetwork, NetworkStarts, NetworkFails, ShutsDown, LogsStarting,
         PortStaysClosed, PortOpens, Goes, LoadPoints
<1>2. PICK line : Logs(line) /\ line.msg \notin FinalMessages
  BY DEF LogsVersion, LogsNetwork, NetworkStarts, NetworkFails, ShutsDown, LogsStarting,
         PortStaysClosed, PortOpens, logInfo, logWarn, logError, LogLine, FinalMessages,
         LoadingConfigOK, ReloadingConfigOK, LoadingConfigFailed, ReloadingConfigFailed,
         Version, InitializingNetwork, InitializingNetworkOK, InitializingNetworkFailed,
         ShuttingDown, Starting, FailedToOpenPort, PortOpen
<1>3. LogTypeOK' /\ LogTellsTheLoad' /\ NotDoneYet'
  BY <1>1, <1>2, NothingToTellAfter, OneMoreSaid DEF LoadLogInv, NotDoneYet
<1>4. /\ loads \in Nat /\ pc = "idle" /\ UNCHANGED <<pc, h, reported>> /\ reported \subseteq 1 .. h
  BY <1>1 DEF LoadLogInv, LoadIsBeingTold, vars, LoadPoints
<1>5. LoadIsBeingTold'
  BY <1>1, <1>4 DEF LoadIsBeingTold, LoadPoints
<1> QED  BY <1>3, <1>5 DEF LoadLogInv

\* Another load is asked for: nothing is said yet, and nothing changes.
LEMMA ReloadTells ==
    ASSUME LoadLogInv, Reload
    PROVE  LoadLogInv'
<1>1. /\ UNCHANGED <<vars, logVars, loads>> /\ at = "serving" /\ at' = "loadConfig"
      /\ pc = "idle" /\ loads \in Nat /\ reported \subseteq 1 .. h
  BY DEF Reload, Goes, LoadLogInv, LoadIsBeingTold
<1>2. LogTypeOK' /\ Said' = Said /\ hCount' = hCount
  BY <1>1 DEF logVars, LogTypeOK, Said, SlotOf, LoadLogInv
<1>3. LoadIsBeingTold' /\ NotDoneYet'
  BY <1>1 DEF LoadIsBeingTold, NotDoneYet, LoadPoints, vars
<1>4. LogTellsTheLoad'
  <2>1. UNCHANGED <<lists, m_pLocalRecords, file>>
    BY <1>1 DEF vars
  <2>2. ASSUME NEW begun, NEW done, ToldInFull(begun, done) PROVE ToldInFull(begun, done)'
    BY <1>2, <2>1, <2>2, ReportStays DEF ToldInFull, SaidLast, LastIs
  <2>3. ASSUME NEW begun, NEW failed, ToldAsFailed(begun, failed) PROVE ToldAsFailed(begun, failed)'
    BY <1>2, <2>1, <2>3 DEF ToldAsFailed, SaidLast, LastIs, lists
  <2> QED  BY <2>2, <2>3 DEF LoadLogInv, LogTellsTheLoad
<1> QED  BY <1>2, <1>3, <1>4 DEF LoadLogInv

\* Where one message is the last, no other is.
LEMMA OtherEnds ==
    ASSUME NEW line, Said'[hCount'] = line, NEW begun, NEW msg, line.msg # msg
    PROVE  ToldInFull(begun, msg)' /\ ToldAsFailed(begun, msg)'
<1>1. ~LastIs(msg)'
  BY DEF LastIs
<1> QED  BY <1>1 DEF ToldInFull, ToldAsFailed

\* A load has ended: with the line that says so, the log tells it in full.
LEMMA LoadedIsTold ==
    ASSUME ConfigInv, LoadLogInv, LogsLoaded
    PROVE  LoadLogInv'
<1>1. PICK begun, done :
          /\ begun = IF reload THEN ReloadingConfig ELSE LoadingConfig
          /\ done = IF reload THEN ReloadingConfigOK ELSE LoadingConfigOK
  OBVIOUS
<1>2. /\ LogTypeOK /\ Logs(Begun(done)) /\ at = "loaded" /\ UNCHANGED <<vars, loads>>
      /\ at' \in {"serving", "run"} /\ file \in Seq(Texts \cup Sections)
      /\ pc = "idle" /\ loads \in Nat /\ reported \subseteq 1 .. h
  BY <1>1 DEF LogsLoaded, Goon, Goes, logInfo, Begun, LoadLogInv, LoadIsBeingTold, ConfigInv,
         ConfigTypeOK
<1>3. PICK W : ToldSoFar(W, Len(file))
  BY <1>2 DEF LoadLogInv, LoadIsBeingTold
<1>4. /\ ReportOf(W) \in Seq(LoadLines)
      /\ ReportOf(W) = ReportUpTo(file, W, Len(file))
      /\ RecordsWith(file, W) = RecordsUpTo(file, W, Len(file))
  BY <1>2, ReportOfAll, ReportType
<1>5. Begun(begun) \in LoadLines /\ Begun(done) \in LoadLines
  BY <1>1 DEF LoadLines
<1>6. PICK lines \in Seq(LoadLines) : lines = <<Begun(begun)>> \o ReportOf(W)
  <2>1. <<Begun(begun)>> \in Seq(LoadLines)
    BY <1>5
  <2>2. <<Begun(begun)>> \o ReportOf(W) \in Seq(LoadLines)
    BY <1>4, <2>1, ConcatProperties
  <2> QED  BY <2>2
<1>7. EndsIn(Said, hCount, lines)
  BY <1>1, <1>3, <1>4, <1>6 DEF ToldSoFar, BeginsWith
<1>8. Append(lines, Begun(done)) = lines \o <<Begun(done)>>
  BY <1>5
<1>9. /\ LogTypeOK' /\ Said'[hCount'] = Begun(done)
      /\ EndsIn(Said', hCount', lines \o <<Begun(done)>>)
  BY <1>2, <1>5, <1>7, <1>8, OneMoreSaid
<1>10. SaidLast(<<Begun(begun)>> \o ReportOf(W) \o <<Begun(done)>>)'
  <2>1. ReportOf(W)' = ReportOf(W)
    BY <1>2, ReportStays DEF vars
  <2>2. EndsIn(Said', hCount', <<Begun(begun)>> \o ReportOf(W)' \o <<Begun(done)>>)
    BY <1>6, <1>9, <2>1
  <2> QED  BY <2>2 DEF SaidLast, EndsIn
<1>11. ToldInFull(begun, done)'
  <2>1. /\ W \in SUBSET {k \in DOMAIN file : file[k] \in OneWordTexts}
        /\ m_pLocalRecords = RecordsWith(file, W)
    BY <1>2, <1>3, <1>4 DEF ToldSoFar, SoFar
  <2>2. file' = file /\ m_pLocalRecords' = m_pLocalRecords
    BY <1>2 DEF vars
  <2> QED  BY <1>10, <2>1, <2>2 DEF ToldInFull
<1>12. \A b, msg : msg # done => ToldInFull(b, msg)' /\ ToldAsFailed(b, msg)'
  <2>1. Begun(done).msg = done
    BY DEF Begun, LogLine
  <2> QED  BY <1>9, <2>1, OtherEnds
<1>13. LogTellsTheLoad'
  <2>1. \/ begun = LoadingConfig /\ done = LoadingConfigOK
        \/ begun = ReloadingConfig /\ done = ReloadingConfigOK
    BY <1>1
  <2>2. /\ LoadingConfigOK # ReloadingConfigOK /\ LoadingConfigOK # LoadingConfigFailed
        /\ LoadingConfigOK # ReloadingConfigFailed /\ ReloadingConfigOK # LoadingConfigFailed
        /\ ReloadingConfigOK # ReloadingConfigFailed
    BY DEF LoadingConfigOK, ReloadingConfigOK, LoadingConfigFailed, ReloadingConfigFailed
  <2> QED  BY <1>11, <1>12, <2>1, <2>2 DEF LogTellsTheLoad
<1>14. LoadIsBeingTold' /\ NotDoneYet'
  BY <1>2 DEF LoadIsBeingTold, NotDoneYet, LoadPoints, vars
<1> QED  BY <1>9, <1>13, <1>14 DEF LoadLogInv

\* A load has failed: with the line that says so, nothing is in force and
\* nothing else was said.
LEMMA NotLoadedIsTold ==
    ASSUME LoadLogInv, LogsNotLoaded
    PROVE  LoadLogInv'
<1>1. PICK begun, failed :
          /\ begun = IF reload THEN ReloadingConfig ELSE LoadingConfig
          /\ failed = IF reload THEN ReloadingConfigFailed ELSE LoadingConfigFailed
  OBVIOUS
<1>2. PICK line : line = LogLine(LOG_CONF, ERROR, failed, <<>>)
  OBVIOUS
<1>3. /\ LogTypeOK /\ Logs(line) /\ at = "not loaded" /\ UNCHANGED <<vars, loads>>
      /\ at' \in {"serving", "run"}
      /\ pc = "idle" /\ loads \in Nat /\ reported \subseteq 1 .. h
  BY <1>1, <1>2 DEF LogsNotLoaded, Goon, Goes, logError, LoadLogInv, LoadIsBeingTold
<1>4. NothingInForce /\ EndsIn(Said, hCount, <<Begun(begun)>>)
  BY <1>1, <1>3 DEF LoadLogInv, LoadIsBeingTold, BeginsWith
<1>5. LogTypeOK' /\ Said'[hCount'] = line
  BY <1>3, OneMoreSaid
<1>6. EndsIn(Said', hCount', <<Begun(begun), line>>)
  <2>1. Adds(Said, hCount, Said', hCount', line) /\ hCount \in Nat
    BY <1>3, OneMoreSaid
  <2>2. <<Begun(begun)>> \in Seq({Begun(begun), line})
    OBVIOUS
  <2>3. EndsIn(Said', hCount', Append(<<Begun(begun)>>, line))
    BY <1>4, <2>1, <2>2, EndsInOneMore
  <2>4. ASSUME NEW b PROVE Append(<<b>>, line) = <<b, line>>
    <3>1. <<b>> \in Seq({b}) /\ Len(<<b>>) = 1 /\ <<b>>[1] = b
      OBVIOUS
    <3>2. Append(<<b>>, line) = [i \in 1 .. 2 |-> IF i = 2 THEN line ELSE b]
      BY <3>1
    <3>3. <<b, line>> = [i \in 1 .. 2 |-> IF i = 2 THEN line ELSE b]
      OBVIOUS
    <3> QED  BY <3>2, <3>3
  <2> QED  BY <2>3, <2>4
<1>7. ToldAsFailed(begun, failed)'
  <2>1. SaidLast(<<Begun(begun), LogLine(LOG_CONF, ERROR, failed, <<>>)>>)'
    BY <1>2, <1>6 DEF SaidLast, EndsIn
  <2>2. lists' = <<{}, {}, {}>> /\ m_pLocalRecords' = NoRecords
    BY <1>3, <1>4 DEF vars, lists, NothingInForce
  <2> QED  BY <2>1, <2>2 DEF ToldAsFailed
<1>8. \A b, msg : msg # failed => ToldInFull(b, msg)' /\ ToldAsFailed(b, msg)'
  <2>1. line.msg = failed
    BY <1>2 DEF LogLine
  <2> QED  BY <1>5, <2>1, OtherEnds
<1>9. LogTellsTheLoad'
  <2>1. \/ begun = LoadingConfig /\ failed = LoadingConfigFailed
        \/ begun = ReloadingConfig /\ failed = ReloadingConfigFailed
    BY <1>1
  <2>2. /\ LoadingConfigFailed # ReloadingConfigFailed /\ LoadingConfigOK # LoadingConfigFailed
        /\ LoadingConfigOK # ReloadingConfigFailed /\ ReloadingConfigOK # LoadingConfigFailed
        /\ ReloadingConfigOK # ReloadingConfigFailed
    BY DEF LoadingConfigOK, ReloadingConfigOK, LoadingConfigFailed, ReloadingConfigFailed
  <2> QED  BY <1>7, <1>8, <2>1, <2>2 DEF LogTellsTheLoad
<1>10. LoadIsBeingTold' /\ NotDoneYet'
  BY <1>3 DEF LoadIsBeingTold, NotDoneYet, LoadPoints, vars
<1> QED  BY <1>5, <1>9, <1>10 DEF LoadLogInv

\* A load that has just ended is told in full (loadConfig lines 11-36),
\* whatever the file and however many lines the history keeps.
THEOREM LoadIsTold == StartSpec => []LogTellsTheLoad
<1>1. StartInit => LoadLogInv
  <2> SUFFICES ASSUME StartInit PROVE LoadLogInv
    OBVIOUS
  <2>1. LogTypeOK /\ hCount = 0
    BY LogConstants DEF StartInit, logInit, LogTypeOK, Slots
  <2>2. at = "main" /\ pc = "idle" /\ loads = 0 /\ reported = {}
    BY DEF StartInit, ConfigInit
  <2>3. LoadIsBeingTold
    BY <2>2 DEF LoadIsBeingTold
  <2>4. NotDoneYet /\ LogTellsTheLoad
    BY <2>1, NothingToTell DEF NotDoneYet, LastIs
  <2> QED  BY <2>1, <2>3, <2>4 DEF LoadLogInv
<1>2. ASSUME ConfigInv, ConfigInv', LoadLogInv, [StartNext]_allVars
      PROVE  LoadLogInv'
  <2>1. CASE LogsVersion \/ LogsNetwork \/ NetworkStarts \/ NetworkFails \/ ShutsDown
             \/ LogsStarting \/ PortStaysClosed \/ PortOpens
    BY <1>2, <2>1, OtherLines
  <2>2. CASE LogsLoad
    BY <1>2, <2>2, LogsLoadTells
  <2>3. CASE Begins \/ Reads \/ Loaded \/ NotLoaded
    BY <1>2, <2>3, QuietLoadSteps
  <2>4. CASE Executes
    BY <1>2, <2>4, ExecutesTells
  <2>5. CASE LogsLoaded
    BY <1>2, <2>5, LoadedIsTold
  <2>6. CASE LogsNotLoaded
    BY <1>2, <2>6, NotLoadedIsTold
  <2>7. CASE Serves \/ Stopped \/ UNCHANGED allVars
    <3>1. UNCHANGED <<lists, m_pLocalRecords, pc, file, h, reported, logVars, at, loads>>
      BY <2>7 DEF Serves, Stopped, allVars, vars, startVars
    <3> QED  BY <1>2, <3>1, NothingChanges
  <2>8. CASE Reload
    BY <1>2, <2>8, ReloadTells
  <2> QED
    BY <1>2, <2>1, <2>2, <2>3, <2>4, <2>5, <2>6, <2>7, <2>8 DEF StartNext, MainStep
<1>3. LoadLogInv => LogTellsTheLoad
  BY DEF LoadLogInv
<1> QED
  BY <1>1, <1>2, <1>3, StartUsesConfig, ConfigInvariant, PTL DEF StartSpec


-----------------------------------------------------------------------------
(* The JSON text of the log                                                *)

\* A line has at most four parameters, none longer than its field.
ShortLine(line) ==
    /\ Len(line.p) \in 0 .. 4
    /\ \A k \in 1 .. Len(line.p) : line.p[k].length \in 0 .. LOG_MAX_PRARM_LEN - 1

\* What is written of the first n parameters of a line, and what comes before.
Heading(line) == 47 + DigitCount(line.app) + DigitCount(line.lvl) + DigitCount(line.msg)
ParamSize(line, k) == IF line.p[k].length = 0 THEN 0 ELSE 10 + line.p[k].length
Writes(f, line, n) ==
    f = [k \in 0 .. n |-> IF k = 0 THEN Heading(line) ELSE f[k - 1] + ParamSize(line, k)]

\* The recursion is that of a function.
LEMMA WritesExists ==
    ASSUME NEW line, NEW n \in Nat
    PROVE  \E f : Writes(f, line, n)
<1> DEFINE Stuck == {k \in Nat : ~\E f : Writes(f, line, k)}
<1> SUFFICES ASSUME Stuck # {} PROVE FALSE
  OBVIOUS
<1>1. PICK m \in Stuck : \A k \in Stuck : m <= k
  <2> Stuck \subseteq Nat
    OBVIOUS
  <2> HIDE DEF Stuck
  <2> QED  BY LeastNumber
<1>2. m # 0
  <2>1. Writes([k \in 0 .. 0 |-> Heading(line)], line, 0)
    BY DEF Writes
  <2> QED  BY <2>1
<1>3. m \in Nat /\ m - 1 \in Nat /\ \E f : Writes(f, line, m - 1)
  <2>1. m \in Nat /\ m - 1 \in Nat
    BY <1>1, <1>2
  <2>2. m - 1 \notin Stuck
    <3> HIDE DEF Stuck
    <3> QED  BY <1>1, <2>1
  <2> QED  BY <2>1, <2>2
<1>4. PICK f : Writes(f, line, m - 1)
  BY <1>3
<1> DEFINE g == [k \in 0 .. m |-> IF k = m THEN f[m - 1] + ParamSize(line, m) ELSE f[k]]
<1>5. ASSUME NEW k \in 0 .. m
      PROVE  g[k] = IF k = 0 THEN Heading(line) ELSE g[k - 1] + ParamSize(line, k)
  <2>1. k # 0 => g[k - 1] = f[k - 1]
    BY <1>3
  <2>2. k # m => f[k] = IF k = 0 THEN Heading(line) ELSE f[k - 1] + ParamSize(line, k)
    <3>1. k # m => k \in 0 .. m - 1
      BY <1>3
    <3> QED  BY <1>4, <3>1, Zenon DEF Writes
  <2>3. g[k] = IF k = m THEN f[m - 1] + ParamSize(line, m) ELSE f[k]
    OBVIOUS
  <2> HIDE DEF g
  <2> QED  BY <1>2, <2>1, <2>2, <2>3
<1>6. Writes(g, line, m)
  <2> HIDE DEF g
  <2>1. g = [k \in 0 .. m |-> g[k]]
    BY DEF g
  <2> QED  BY <1>5, <2>1 DEF Writes
<1> QED  BY <1>1, <1>6

\* No line is longer than logToJson leaves room for: 348 with four parameters.
LEMMA LineFits ==
    ASSUME NEW line, ShortLine(line)
    PROVE  logLineToJson(line) \in 0 .. LOG_MAX_JSON_OBJ_SIZE
<1> DEFINE w == CHOOSE f : Writes(f, line, Len(line.p))
<1>1. Writes(w, line, Len(line.p))
  <2>1. Len(line.p) \in Nat
    BY DEF ShortLine
  <2> QED  BY <2>1, WritesExists
<1>2. logLineToJson(line) = w[Len(line.p)]
  BY Zenon DEF logLineToJson, Writes, Heading, ParamSize
<1> HIDE DEF w
<1>3. Heading(line) \in 0 .. 56
  BY DEF Heading, DigitCount
<1>4. ASSUME NEW k \in 1 .. Len(line.p) PROVE ParamSize(line, k) \in 0 .. 73
  <2> DEFINE length == line.p[k].length
  <2>1. length \in 0 .. LOG_MAX_PRARM_LEN - 1
    BY Zenon DEF ShortLine
  <2>2. ParamSize(line, k) = IF length = 0 THEN 0 ELSE 10 + length
    BY DEF ParamSize
  <2> HIDE DEF length
  <2> QED  BY <2>1, <2>2 DEF LOG_MAX_PRARM_LEN
<1> HIDE DEF Heading, ParamSize
<1>5. /\ Len(line.p) \in 0 .. 4
      /\ w[0] = Heading(line)
      /\ \A k \in 1 .. Len(line.p) : w[k] = w[k - 1] + ParamSize(line, k)
  <2>1. Len(line.p) \in 0 .. 4
    BY DEF ShortLine
  <2>2. ASSUME NEW k \in 0 .. Len(line.p)
        PROVE  w[k] = IF k = 0 THEN Heading(line) ELSE w[k - 1] + ParamSize(line, k)
    BY <1>1, Zenon DEF Writes
  <2> QED  BY <2>1, <2>2
<1>6. \A k \in 1 .. Len(line.p) : ParamSize(line, k) \in 0 .. 73
  BY <1>4
<1> DEFINE Wrong == {k \in 0 .. Len(line.p) : w[k] \notin 0 .. 56 + 73 * k}
<1>7. ASSUME Wrong # {} PROVE FALSE
  <2>1. PICK k \in Wrong : \A j \in Wrong : k <= j
    <3> Wrong \subseteq Nat
      OBVIOUS
    <3> HIDE DEF Wrong
    <3> QED  BY <1>7, LeastNumber
  <2>2. k \in 0 .. Len(line.p) /\ k # 0
    <3>1. w[0] \in 0 .. 56
      BY <1>3, <1>5, Zenon
    <3>2. 56 + 73 * 0 = 56
      OBVIOUS
    <3> QED  BY <3>1, <3>2, Zenon
  <2>3. k \in 1 .. Len(line.p) /\ k - 1 \in 0 .. Len(line.p) /\ ~(k <= k - 1)
    BY <1>5, <2>2
  <2>4. w[k - 1] \in 0 .. 56 + 73 * (k - 1)
    <3>1. k - 1 \notin Wrong
      <4> HIDE DEF Wrong
      <4> QED  BY <2>1, <2>3
    <3> QED  BY <2>3, <3>1
  <2>5. w[k] = w[k - 1] + ParamSize(line, k) /\ ParamSize(line, k) \in 0 .. 73
    BY <1>5, <1>6, <2>3, Zenon
  <2>6. \A x \in 0 .. 56 + 73 * (k - 1), y \in 0 .. 73 : x + y \in 0 .. 56 + 73 * k
    BY <2>3
  <2>7. w[k] \in 0 .. 56 + 73 * k
    BY <2>4, <2>5, <2>6, Zenon
  <2> QED  BY <2>7
<1>8. w[Len(line.p)] \in 0 .. 348
  <2> DEFINE n == Len(line.p)
  <2>1. n \in 0 .. n /\ n \in 0 .. 4
    BY <1>5
  <2>2. w[n] \in 0 .. 56 + 73 * n
    BY <1>7, <2>1, Zenon
  <2> HIDE DEF n
  <2>3. w[n] \in 0 .. 348
    BY <2>1, <2>2
  <2> QED  BY <2>3 DEF n
<1> QED  BY <1>2, <1>8 DEF LOG_MAX_JSON_OBJ_SIZE

-----------------------------------------------------------------------------

\* What logToJson puts in its buffer, and what that says.
Pieces == {Char("["), Char(","), Char("]")} \cup {Object(j) : j \in Slots}
Sayings == {Char("["), Char(","), Char("]")} \cup {<<"line", history[j]>> : j \in Slots}

\* A sequence is the function of its items.
LEMMA SeqItems ==
    ASSUME NEW S, NEW s \in Seq(S)
    PROVE  s = [k \in 1 .. Len(s) |-> s[k]] /\ DOMAIN s = 1 .. Len(s)
OBVIOUS

\* Sequences of one item and of none.
LEMMA OneItem ==
    ASSUME NEW S, NEW x \in S
    PROVE  <<x>> \in Seq(S)
OBVIOUS

LEMMA NoItem ==
    ASSUME NEW S
    PROVE  <<>> \in Seq(S)
OBVIOUS

\* Four sequences in a row.
Then(a, b) == a \o b

LEMMA ThenAssociative ==
    ASSUME NEW S, NEW a \in Seq(S), NEW b \in Seq(S), NEW c \in Seq(S)
    PROVE  /\ Then(Then(a, b), c) = Then(a, Then(b, c))
           /\ Then(a, b) \in Seq(S)
BY ConcatAssociative, ConcatProperties DEF Then

LEMMA FourInARow ==
    ASSUME NEW S, NEW a \in Seq(S), NEW b \in Seq(S), NEW c \in Seq(S), NEW d \in Seq(S)
    PROVE  Then(Then(Then(a, b), c), d) = Then(a, Then(b, Then(c, d)))
<1>1. Then(a, b) \in Seq(S) /\ Then(c, d) \in Seq(S)
  BY ThenAssociative
<1>2. Then(Then(Then(a, b), c), d) = Then(Then(a, b), Then(c, d))
  BY <1>1, ThenAssociative
<1>3. Then(Then(a, b), Then(c, d)) = Then(a, Then(b, Then(c, d)))
  BY <1>1, ThenAssociative
<1> QED  BY <1>2, <1>3

\* One piece more says one thing more.
LEMMA SaysOneMore ==
    ASSUME NEW buf1 \in Seq(Pieces), NEW piece \in Pieces,
           NEW says, says = IF piece[1] = "line" THEN <<"line", history[piece[2]]>> ELSE piece
    PROVE  JsonSays(Append(buf1, piece)) = Append(JsonSays(buf1), says)
<1> HIDE DEF Pieces
<1>1. Len(buf1) \in Nat /\ DOMAIN buf1 = 1 .. Len(buf1)
  OBVIOUS
<1>2. /\ Append(buf1, piece) = [k \in 1 .. Len(buf1) + 1 |-> IF k = Len(buf1) + 1 THEN piece ELSE buf1[k]]
      /\ DOMAIN Append(buf1, piece) = 1 .. Len(buf1) + 1
  <2>1. /\ Append(buf1, piece) \in Seq(Pieces) /\ Len(Append(buf1, piece)) = Len(buf1) + 1
        /\ \A k \in 1 .. Len(buf1) : Append(buf1, piece)[k] = buf1[k]
        /\ Append(buf1, piece)[Len(buf1) + 1] = piece
    BY AppendProperties
  <2>2. DOMAIN Append(buf1, piece) = 1 .. Len(buf1) + 1
    BY <2>1
  <2>3. Append(buf1, piece) = [k \in 1 .. Len(buf1) + 1 |-> Append(buf1, piece)[k]]
    <3>1. Append(buf1, piece) = [k \in 1 .. Len(Append(buf1, piece)) |-> Append(buf1, piece)[k]]
      BY <2>1, SeqItems, Zenon
    <3> QED  BY <2>1, <3>1, Zenon
  <2>4. \A k \in 1 .. Len(buf1) + 1 :
           Append(buf1, piece)[k] = IF k = Len(buf1) + 1 THEN piece ELSE buf1[k]
    BY <1>1, <2>1
  <2> QED  BY <2>2, <2>3, <2>4
<1>3. /\ JsonSays(buf1) = [k \in 1 .. Len(buf1) |-> JsonSays(buf1)[k]]
      /\ Len(JsonSays(buf1)) = Len(buf1)
  BY <1>1 DEF JsonSays
<1>4. Append(JsonSays(buf1), says)
        = [k \in 1 .. Len(buf1) + 1 |-> IF k = Len(buf1) + 1 THEN says ELSE JsonSays(buf1)[k]]
  BY <1>1, <1>3
<1>5. ASSUME NEW k \in 1 .. Len(buf1) + 1
      PROVE  JsonSays(Append(buf1, piece))[k]
               = IF k = Len(buf1) + 1 THEN says ELSE JsonSays(buf1)[k]
  <2>1. CASE k = Len(buf1) + 1
    BY <1>2, <2>1 DEF JsonSays
  <2>2. CASE k # Len(buf1) + 1
    <3>1. k \in DOMAIN buf1
      BY <1>1, <2>2
    <3> QED  BY <1>2, <2>2, <3>1 DEF JsonSays
  <2> QED  BY <2>1, <2>2
<1>6. JsonSays(Append(buf1, piece))
        = [k \in 1 .. Len(buf1) + 1 |-> JsonSays(Append(buf1, piece))[k]]
  BY <1>2 DEF JsonSays
<1> QED  BY <1>4, <1>5, <1>6

\* What is said is over Sayings.
LEMMA SaysType ==
    ASSUME NEW buf1 \in Seq(Pieces)
    PROVE  JsonSays(buf1) \in Seq(Sayings)
<1>1. ASSUME NEW k \in DOMAIN buf1 PROVE JsonSays(buf1)[k] \in Sayings
  <2>1. buf1[k] \in Pieces
    OBVIOUS
  <2>2. CASE buf1[k] \in {Char("["), Char(","), Char("]")}
    <3>1. \A x \in {Char("["), Char(","), Char("]")} : x[1] # "line"
      <4>1. Char("[")[1] = "[" /\ Char(",")[1] = "," /\ Char("]")[1] = "]"
        BY DEF Char
      <4>2. "[" # "line" /\ "," # "line" /\ "]" # "line"
        OBVIOUS
      <4> QED  BY <4>1, <4>2, Zenon
    <3>2. JsonSays(buf1)[k] = buf1[k]
      BY <2>2, <3>1, Zenon DEF JsonSays
    <3> QED  BY <2>2, <3>2, Zenon DEF Sayings
  <2>3. ASSUME NEW j \in Slots, buf1[k] = Object(j) PROVE JsonSays(buf1)[k] \in Sayings
    <3>1. buf1[k][1] = "line" /\ buf1[k][2] = j
      BY <2>3 DEF Object
    <3> QED  BY <3>1 DEF JsonSays, Sayings
  <2> QED  BY <2>1, <2>2, <2>3 DEF Pieces
<1>2. JsonSays(buf1) = [k \in DOMAIN buf1 |-> JsonSays(buf1)[k]]
  BY DEF JsonSays
<1>3. Len(buf1) \in Nat /\ DOMAIN buf1 = 1 .. Len(buf1)
  OBVIOUS
<1> HIDE DEF Sayings
<1>4. JsonSays(buf1) \in [1 .. Len(buf1) -> Sayings]
  BY <1>1, <1>2, <1>3
<1> QED  BY <1>3, <1>4

-----------------------------------------------------------------------------

\* The entries of the first n lines.
Entries(n) == [k \in 1 .. n |-> JsonEntry(k)]

\* After i rounds the buffer says the first n lines, and leaves room for the
\* longest; if a line was left out there was no room for the longest.
JsonInv(json, i, maxLen) ==
    /\ json.buf \in Seq(Pieces)
    /\ json.len \in Nat /\ json.len >= 1
    /\ json.len < maxLen \/ json.len = 1
    /\ \E n \in 0 .. i :
           /\ JsonSays(json.buf) = <<Char("[")>> \o FlattenSeq(Entries(n))
           /\ n < i => json.len + LOG_MAX_JSON_OBJ_SIZE + (IF n > 0 THEN 1 ELSE 0) >= maxLen

RingShort == \A j \in Slots : ShortLine(history[j])

\* One more line is one more entry.
LEMMA EntriesNext ==
    ASSUME LogTypeOK, NEW n \in Nat, n < hCount
    PROVE  /\ FlattenSeq(Entries(n)) \in Seq(Sayings)
           /\ FlattenSeq(Entries(n + 1)) = FlattenSeq(Entries(n)) \o JsonEntry(n + 1)
<1>1. ASSUME NEW k \in 1 .. n + 1 PROVE JsonEntry(k) \in Seq(Sayings)
  <2>1. k - 1 \in 0 .. hCount - 1 /\ k \in 1 .. hCount
    BY DEF LogTypeOK
  <2>2. SlotOf(k - 1) \in Slots
    BY <2>1, LogConstants DEF SlotOf, Slots, LogTypeOK
  <2>3. Said[k] = history[SlotOf(k - 1)]
    BY <2>1 DEF Said
  <2>4. <<"line", Said[k]>> \in Sayings /\ Char(",") \in Sayings
    BY <2>2, <2>3, Zenon DEF Sayings
  <2> HIDE DEF Sayings
  <2>5. /\ <<>> \o <<<<"line", Said[k]>>>> \in Seq(Sayings)
        /\ <<Char(",")>> \o <<<<"line", Said[k]>>>> \in Seq(Sayings)
    <3> DEFINE line == <<"line", Said[k]>>
               comma == Char(",")
    <3>1. line \in Sayings /\ comma \in Sayings
      BY <2>4
    <3> HIDE DEF line, comma
    <3> DEFINE one == <<line>>
               sep == <<comma>>
               none == <<>>
    <3>2. one \in Seq(Sayings) /\ sep \in Seq(Sayings) /\ none \in Seq(Sayings)
      BY <3>1, OneItem, NoItem, Zenon
    <3> HIDE DEF one, sep, none
    <3>3. none \o one \in Seq(Sayings) /\ sep \o one \in Seq(Sayings)
      BY <3>2, ConcatProperties
    <3> QED  BY <3>3, Zenon DEF one, sep, none, line, comma
  <2> QED  BY <2>5, Zenon DEF JsonEntry
<1> HIDE DEF Sayings
<1>2. Entries(n) \in Seq(Seq(Sayings)) /\ Entries(n + 1) \in Seq(Seq(Sayings))
  BY <1>1 DEF Entries
<1>3. /\ Len(Entries(n)) = n /\ Len(Entries(n + 1)) = Len(Entries(n)) + 1
      /\ \A k \in 1 .. Len(Entries(n)) : Entries(n + 1)[k] = Entries(n)[k]
      /\ Entries(n + 1)[n + 1] = JsonEntry(n + 1)
  BY DEF Entries
<1> QED  BY <1>2, <1>3, FlattenAppend, FlattenType

\* One round of the loop keeps that.
LEMMA JsonRoundKeeps ==
    ASSUME LogTypeOK, RingShort, NEW maxLen \in Nat, NEW i \in Nat, i < hCount,
           NEW json, JsonInv(json, i, maxLen)
    PROVE  JsonInv(JsonRound(json, i, maxLen), i + 1, maxLen)
<1> DEFINE comma == IF i > 0 THEN 1 ELSE 0
           slot == SlotOf(i)
           size == logLineToJson(history[slot])
           next == JsonRound(json, i, maxLen)
<1>1. PICK n \in 0 .. i :
          /\ JsonSays(json.buf) = <<Char("[")>> \o FlattenSeq(Entries(n))
          /\ n < i => json.len + LOG_MAX_JSON_OBJ_SIZE + (IF n > 0 THEN 1 ELSE 0) >= maxLen
  BY DEF JsonInv
<1>2. CASE json.len + LOG_MAX_JSON_OBJ_SIZE + comma < maxLen
  <2>1. n = i
    BY <1>1, <1>2 DEF JsonInv, LOG_MAX_JSON_OBJ_SIZE
  <2>2. slot \in Slots /\ i + 1 \in 1 .. hCount /\ Said[i + 1] = history[slot]
    BY LogConstants DEF SlotOf, Slots, LogTypeOK, Said
  <2>3. size \in 0 .. LOG_MAX_JSON_OBJ_SIZE
    BY <2>2, LineFits DEF RingShort
  <2>4. /\ next.buf = json.buf \o (IF i > 0 THEN <<Char(",")>> ELSE <<>>) \o <<Object(slot)>>
        /\ next.len = json.len + comma + size
    BY <1>2 DEF JsonRound
  <2>5. next.len \in Nat /\ next.len >= 1 /\ next.len < maxLen
    <3>1. json.len \in Nat /\ json.len >= 1 /\ comma \in 0 .. 1
      BY DEF JsonInv
    <3> HIDE DEF size, next, comma
    <3> DEFINE length == json.len
    <3>2. /\ length \in Nat /\ length >= 1 /\ maxLen \in Nat
          /\ length + LOG_MAX_JSON_OBJ_SIZE + comma < maxLen
          /\ next.len = length + comma + size
      BY <1>2, <2>4, <3>1, Zenon
    <3> HIDE DEF length
    <3> QED  BY ONLY <2>3, <3>1, <3>2 DEF LOG_MAX_JSON_OBJ_SIZE
  <2>6. /\ next.buf \in Seq(Pieces)
        /\ JsonSays(next.buf) = <<Char("[")>> \o FlattenSeq(Entries(i + 1))
    <3> DEFINE flat == FlattenSeq(Entries(i))
               line == <<"line", Said[i + 1]>>
               before == json.buf
               sep == IF i > 0 THEN <<Char(",")>> ELSE <<>>
               begin == <<Char("[")>>
               said == begin \o flat
    <3>1. /\ flat \in Seq(Sayings)
          /\ FlattenSeq(Entries(i + 1)) = flat \o JsonEntry(i + 1)
      BY EntriesNext
    <3>2. /\ Char(",") \in Pieces /\ Object(slot) \in Pieces
          /\ Char(",")[1] # "line" /\ Object(slot)[1] = "line" /\ Object(slot)[2] = slot
      BY <2>2 DEF Pieces, Char, Object
    <3>3. before \in Seq(Pieces) /\ JsonSays(before) = said
      BY <1>1, <2>1 DEF JsonInv
    <3>4. Char("[") \in Sayings /\ Char(",") \in Sayings /\ line \in Sayings
      BY <2>2, Zenon DEF Sayings
    <3>5. i > 0 <=> i + 1 > 1
      OBVIOUS
    <3>6. next.buf = (before \o sep) \o <<Object(slot)>> /\ JsonEntry(i + 1) = sep \o <<line>>
      BY <2>4, <3>5, Zenon DEF JsonEntry
    <3> HIDE DEF Pieces, Sayings, flat, next, line, before, begin
    <3>7. begin \in Seq(Sayings) /\ <<line>> \in Seq(Sayings) /\ said \in Seq(Sayings)
      <4>1. begin \in Seq(Sayings) /\ <<line>> \in Seq(Sayings)
        BY <3>4, OneItem, Zenon DEF begin
      <4> QED  BY <3>1, <4>1, ConcatProperties
    <3> HIDE DEF said
    <3>8. /\ before \o sep \in Seq(Pieces) /\ sep \in Seq(Sayings)
          /\ JsonSays(before \o sep) = said \o sep
      <4>1. CASE i > 0
        <5>1. sep = <<Char(",")>>
          BY <4>1
        <5>2. before \o sep = Append(before, Char(",")) /\ Append(before, Char(",")) \in Seq(Pieces)
          BY <3>2, <3>3, <5>1, AppendIsConcat, AppendProperties, Zenon
        <5>3. said \o sep = Append(said, Char(","))
          BY <3>4, <3>7, <5>1, AppendIsConcat, Zenon
        <5>4. JsonSays(Append(before, Char(","))) = Append(said, Char(","))
          BY <3>2, <3>3, SaysOneMore
        <5>5. sep \in Seq(Sayings)
          BY <3>4, <5>1, OneItem, Zenon
        <5> QED  BY <5>2, <5>3, <5>4, <5>5, Zenon
      <4>2. CASE ~(i > 0)
        <5>1. sep = <<>>
          BY <4>2
        <5>2. before \o sep = before /\ said \o sep = said
          BY <3>3, <3>7, <5>1, ConcatEmptySeq, Zenon
        <5>3. sep \in Seq(Sayings)
          BY <5>1, NoItem, Zenon
        <5> QED  BY <3>3, <5>2, <5>3, Zenon
      <4> QED  BY <4>1, <4>2
    <3> HIDE DEF sep
    <3>9. /\ next.buf = Append(before \o sep, Object(slot)) /\ next.buf \in Seq(Pieces)
          /\ JsonSays(next.buf) = Append(said \o sep, line)
      <4> DEFINE most == before \o sep
                 piece == Object(slot)
      <4>1. most \in Seq(Pieces) /\ piece \in Pieces /\ next.buf = most \o <<piece>>
        BY <3>2, <3>6, <3>8
      <4>2. line = IF piece[1] = "line" THEN <<"line", history[piece[2]]>> ELSE piece
        BY <2>2, <3>2, Zenon DEF line
      <4> HIDE DEF most, piece
      <4>3. Append(most, piece) = most \o <<piece>>
        BY <4>1, AppendIsConcat
      <4>4. Append(most, piece) \in Seq(Pieces)
        BY <4>1, AppendProperties
      <4>5. JsonSays(Append(most, piece)) = Append(JsonSays(most), line)
        BY <4>1, <4>2, SaysOneMore
      <4>6. JsonSays(most) = said \o sep
        BY <3>8 DEF most
      <4>7. next.buf = Append(most, piece)
        BY <4>1, <4>3, Zenon
      <4> HIDE DEF JsonSays
      <4>8. next.buf \in Seq(Pieces) /\ JsonSays(next.buf) = Append(said \o sep, line)
        BY <4>4, <4>5, <4>6, <4>7, Zenon
      <4>9. next.buf = Append(before \o sep, Object(slot))
        BY <4>7, Zenon DEF most, piece
      <4> QED  BY <4>8, <4>9
    <3>10. Append(said \o sep, line) = begin \o (flat \o (sep \o <<line>>))
      <4>1. said \o sep \in Seq(Sayings)
        BY <3>7, <3>8, ConcatProperties
      <4>2. Append(said \o sep, line) = (said \o sep) \o <<line>>
        BY <3>4, <4>1, AppendIsConcat, Zenon
      <4> DEFINE last == <<line>>
      <4>3. last \in Seq(Sayings) /\ said = begin \o flat
        BY <3>7 DEF said
      <4> HIDE DEF last
      <4>4. ((begin \o flat) \o sep) \o last = begin \o (flat \o (sep \o last))
        <5>1. begin \in Seq(Sayings) /\ flat \in Seq(Sayings) /\ sep \in Seq(Sayings)
          BY <3>1, <3>7, <3>8
        <5>2. Then(Then(Then(begin, flat), sep), last) = Then(begin, Then(flat, Then(sep, last)))
          BY <4>3, <5>1, FourInARow
        <5> QED  BY ONLY <5>2, Zenon DEF Then
      <4> QED  BY <4>2, <4>3, <4>4, Zenon DEF last
    <3> QED  BY <3>1, <3>6, <3>9, <3>10, Zenon DEF begin
  <2> HIDE DEF next
  <2>7. i + 1 \in 0 .. i + 1 /\ ~(i + 1 < i + 1)
    OBVIOUS
  <2>8. JsonInv(next, i + 1, maxLen)
    BY <2>5, <2>6, <2>7, Zenon DEF JsonInv
  <2> QED  BY <2>8 DEF next
<1>3. CASE ~(json.len + LOG_MAX_JSON_OBJ_SIZE + comma < maxLen)
  <2>1. next = json
    BY <1>3 DEF JsonRound
  <2>2. json.len + LOG_MAX_JSON_OBJ_SIZE + (IF n > 0 THEN 1 ELSE 0) >= maxLen
    BY <1>1, <1>3 DEF JsonInv, LOG_MAX_JSON_OBJ_SIZE
  <2>3. n \in 0 .. i + 1
    OBVIOUS
  <2>4. JsonInv(json, i + 1, maxLen)
    BY <1>1, <2>2, <2>3, Zenon DEF JsonInv
  <2> QED  BY <2>1, <2>4
<1> QED  BY <1>2, <1>3

\* The rounds of logToJson, n of them.
OpenedList == [buf |-> <<Char("[")>>, len |-> 1]
Rounds(f, n, maxLen) ==
    f = [i \in 0 .. n |-> IF i = 0 THEN OpenedList ELSE JsonRound(f[i - 1], i - 1, maxLen)]

\* The recursion is that of a function.
LEMMA RoundsExist ==
    ASSUME NEW maxLen, NEW n \in Nat
    PROVE  \E f : Rounds(f, n, maxLen)
<1> DEFINE Stuck == {k \in Nat : ~\E f : Rounds(f, k, maxLen)}
<1> SUFFICES ASSUME Stuck # {} PROVE FALSE
  OBVIOUS
<1>1. PICK m \in Stuck : \A k \in Stuck : m <= k
  <2> Stuck \subseteq Nat
    OBVIOUS
  <2> HIDE DEF Stuck
  <2> QED  BY LeastNumber
<1>2. m # 0
  <2>1. Rounds([k \in 0 .. 0 |-> OpenedList], 0, maxLen)
    BY DEF Rounds
  <2> QED  BY <2>1
<1>3. m \in Nat /\ m - 1 \in Nat /\ \E f : Rounds(f, m - 1, maxLen)
  <2>1. m \in Nat /\ m - 1 \in Nat
    BY <1>1, <1>2
  <2>2. m - 1 \notin Stuck
    <3> HIDE DEF Stuck
    <3> QED  BY <1>1, <2>1
  <2> QED  BY <2>1, <2>2
<1>4. PICK f : Rounds(f, m - 1, maxLen)
  BY <1>3
<1> DEFINE g == [k \in 0 .. m |-> IF k = m THEN JsonRound(f[m - 1], m - 1, maxLen) ELSE f[k]]
<1>5. ASSUME NEW k \in 0 .. m
      PROVE  g[k] = IF k = 0 THEN OpenedList ELSE JsonRound(g[k - 1], k - 1, maxLen)
  <2>1. k # 0 => g[k - 1] = f[k - 1]
    BY <1>3
  <2>2. k # m => f[k] = IF k = 0 THEN OpenedList ELSE JsonRound(f[k - 1], k - 1, maxLen)
    <3>1. k # m => k \in 0 .. m - 1
      BY <1>3
    <3> QED  BY <1>4, <3>1, Zenon DEF Rounds
  <2>3. g[k] = IF k = m THEN JsonRound(f[m - 1], m - 1, maxLen) ELSE f[k]
    OBVIOUS
  <2> HIDE DEF g
  <2> QED  BY <1>2, <2>1, <2>2, <2>3
<1>6. Rounds(g, m, maxLen)
  <2> HIDE DEF g
  <2>1. g = [k \in 0 .. m |-> g[k]]
    BY DEF g
  <2> QED  BY <1>5, <2>1 DEF Rounds
<1> QED  BY <1>1, <1>6

\* Before the first round the buffer says the list has begun.
LEMMA JsonBegins ==
    ASSUME NEW maxLen \in Nat
    PROVE  JsonInv(OpenedList, 0, maxLen)
<1> DEFINE opened == Char("[")
           none == <<>>
           said == <<opened>>
<1>1. opened \in Pieces /\ opened \in Sayings /\ opened[1] # "line"
  BY DEF Pieces, Sayings, Char
<1>2. none \in Seq(Pieces) /\ JsonSays(none) = none
  BY DEF JsonSays
<1>3. Append(none, opened) = said
  OBVIOUS
<1>4. JsonSays(said) = said
  <2> HIDE DEF opened
  <2>1. JsonSays(Append(none, opened)) = Append(JsonSays(none), opened)
    BY <1>1, <1>2, SaysOneMore
  <2> QED  BY <1>2, <1>3, <2>1, Zenon
<1>5. said \in Seq(Pieces) /\ said \in Seq(Sayings)
  <2> HIDE DEF opened
  <2> QED  BY <1>1, OneItem, Zenon
<1>6. FlattenSeq(Entries(0)) = none
  <2>1. Entries(0) = <<>>
    BY DEF Entries
  <2>2. Len(<<>>) = 0
    OBVIOUS
  <2>3. FlattenSeq(<<>>) = <<>>
    BY <2>2 DEF FlattenSeq
  <2> QED  BY <2>1, <2>3
<1>7. said \o none = said
  <2> HIDE DEF said
  <2> QED  BY <1>5, ConcatEmptySeq, Zenon
<1>8. OpenedList.buf = said /\ OpenedList.len = 1
  BY DEF OpenedList
<1>9. JsonSays(OpenedList.buf) = said \o FlattenSeq(Entries(0))
  BY <1>4, <1>6, <1>7, <1>8, Zenon
<1>10. 0 \in 0 .. 0 /\ ~(0 < 0) /\ 1 \in Nat /\ 1 >= 1
  OBVIOUS
<1> QED  BY <1>5, <1>8, <1>9, <1>10, Zenon DEF JsonInv

\* Whatever is in the ring, as long as its lines are: a list of it that fits.
LEMMA JsonOfTheRing ==
    ASSUME LogTypeOK, RingShort, NEW maxSize \in Nat \ {0}
    PROVE  JsonFits(maxSize)
<1>1. CASE maxSize <= 3
  <2>1. logToJson(maxSize).len = 0 /\ ~(maxSize > 3)
    BY <1>1 DEF logToJson
  <2>2. 0 < maxSize
    OBVIOUS
  <2> QED  BY <2>1, <2>2, Zenon DEF JsonFits
<1>2. CASE maxSize > 3
  <2> DEFINE maxLen == maxSize - 3
             round == CHOOSE f : Rounds(f, hCount, maxLen)
             last == round[hCount]
             closed == Char("]")
  <2>1. hCount \in Nat /\ maxLen \in Nat
    BY <1>2, LogConstants DEF LogTypeOK
  <2>2. Rounds(round, hCount, maxLen)
    BY <2>1, RoundsExist
  <2>3. logToJson(maxSize) = [buf |-> Append(last.buf, closed), len |-> last.len + 1]
    <3>1. ~(maxSize <= 3)
      BY <1>2
    <3> QED  BY <3>1, Zenon DEF logToJson, Rounds, OpenedList
  <2> HIDE DEF round
  <2>4. \A i \in 0 .. hCount :
           round[i] = IF i = 0 THEN OpenedList ELSE JsonRound(round[i - 1], i - 1, maxLen)
    BY <2>2, Zenon DEF Rounds
  <2> HIDE DEF maxLen
  <2> DEFINE Wrong == {i \in 0 .. hCount : ~JsonInv(round[i], i, maxLen)}
  <2>5. ASSUME Wrong # {} PROVE FALSE
    <3>1. PICK i \in Wrong : \A j \in Wrong : i <= j
      <4> Wrong \subseteq Nat
        OBVIOUS
      <4> HIDE DEF Wrong
      <4> QED  BY <2>5, LeastNumber
    <3>2. i \in 0 .. hCount /\ ~JsonInv(round[i], i, maxLen)
      OBVIOUS
    <3>3. i # 0
      <4>1. i = 0 => round[i] = OpenedList
        BY <2>4, <3>2, Zenon
      <4> QED  BY <2>1, <3>2, <4>1, JsonBegins, Zenon
    <3>4. i - 1 \in 0 .. hCount /\ ~(i <= i - 1) /\ i - 1 \in Nat /\ i - 1 < hCount /\ (i - 1) + 1 = i
      BY <2>1, <3>2, <3>3
    <3>5. JsonInv(round[i - 1], i - 1, maxLen)
      <4>1. i - 1 \notin Wrong
        <5> HIDE DEF Wrong
        <5> QED  BY <3>1, <3>4
      <4> QED  BY <3>4, <4>1
    <3>6. round[i] = JsonRound(round[i - 1], i - 1, maxLen)
      BY <2>4, <3>2, <3>3, Zenon
    <3>7. JsonInv(JsonRound(round[i - 1], i - 1, maxLen), (i - 1) + 1, maxLen)
      BY <2>1, <3>4, <3>5, JsonRoundKeeps
    <3> QED  BY <3>2, <3>4, <3>6, <3>7, Zenon
  <2>6. JsonInv(last, hCount, maxLen)
    <3>1. hCount \in 0 .. hCount
      BY <2>1
    <3> QED  BY <2>5, <3>1, Zenon
  <2> HIDE DEF last
  <2>7. PICK n \in 0 .. hCount :
            /\ JsonSays(last.buf) = <<Char("[")>> \o FlattenSeq(Entries(n))
            /\ n < hCount => last.len + LOG_MAX_JSON_OBJ_SIZE + (IF n > 0 THEN 1 ELSE 0) >= maxLen
    BY <2>6 DEF JsonInv
  <2>8. last.buf \in Seq(Pieces) /\ last.len \in Nat /\ (last.len < maxLen \/ last.len = 1)
    BY <2>6 DEF JsonInv
  <2>9. JsonSays(Append(last.buf, closed)) = JsonList(n)
    <3>1. closed \in Pieces /\ closed \in Sayings /\ closed[1] # "line"
      BY DEF Pieces, Sayings, Char
    <3> DEFINE buf1 == last.buf
    <3> HIDE DEF closed, buf1
    <3>2. buf1 \in Seq(Pieces)
      BY <2>8 DEF buf1
    <3>3. JsonSays(Append(buf1, closed)) = Append(JsonSays(buf1), closed)
      BY <3>1, <3>2, SaysOneMore
    <3>4. JsonSays(buf1) \in Seq(Sayings)
      BY <3>2, SaysType
    <3> DEFINE said == JsonSays(buf1)
    <3>5. said \in Seq(Sayings)
      BY <3>4
    <3> HIDE DEF said
    <3>6. Append(said, closed) = said \o <<closed>>
      BY <3>1, <3>5, AppendIsConcat
    <3>7. said = <<Char("[")>> \o FlattenSeq(Entries(n))
      BY <2>7, Zenon DEF said, buf1
    <3> QED  BY <3>3, <3>6, <3>7, Zenon DEF JsonList, Entries, said, buf1, closed
  <2>10. /\ logToJson(maxSize).buf = Append(last.buf, closed)
         /\ logToJson(maxSize).len = last.len + 1
    BY <2>3
  <2> DEFINE length == last.len
  <2>11. length \in Nat /\ (length < maxLen \/ length = 1) /\ maxLen = maxSize - 3
    BY <2>8 DEF maxLen
  <2>12. n < hCount => length + LOG_MAX_JSON_OBJ_SIZE + (IF n > 0 THEN 1 ELSE 0) >= maxLen
    BY <2>7
  <2> HIDE DEF length
  <2>13. length + 1 < maxSize
    BY <1>2, <2>11
  <2>14. n < hCount => maxSize < length + 1 + LOG_MAX_JSON_OBJ_SIZE + 5
    BY ONLY <2>1, <2>11, <2>12, maxSize \in Nat DEF LOG_MAX_JSON_OBJ_SIZE
  <2>15. logToJson(maxSize).len < maxSize
    BY <2>10, <2>13, Zenon DEF length
  <2>16. n < hCount => maxSize < logToJson(maxSize).len + LOG_MAX_JSON_OBJ_SIZE + 5
    BY <2>10, <2>14, Zenon DEF length
  <2> QED  BY <2>7, <2>9, <2>10, <2>15, <2>16, Zenon DEF JsonFits
<1> QED  BY <1>1, <1>2


\* What is logged besides the message: nothing, or one of these.
LoggedTexts == Texts \cup Names \cup {VERSION, SERVER_PORT}

\* copyParam keeps a line short, whatever the length of its text.
LEMMA LoggedLineIsShort ==
    ASSUME NEW app, NEW lvl, NEW msg,
           NEW texts, texts = <<>> \/ \E t \in LoggedTexts : texts = <<t>>
    PROVE  ShortLine(LogLine(app, lvl, msg, texts))
<1> DEFINE p == LogLine(app, lvl, msg, texts).p
<1>1. p = [k \in DOMAIN texts |-> copyParam(texts[k])]
  BY DEF LogLine
<1>2. CASE texts = <<>>
  <2>1. Len(p) = 0
    BY <1>1, <1>2
  <2> QED  BY <2>1 DEF ShortLine
<1>3. ASSUME NEW t \in LoggedTexts, texts = <<t>> PROVE ShortLine(LogLine(app, lvl, msg, texts))
  <2>1. DOMAIN texts = 1 .. 1 /\ texts[1] = t
    BY <1>3
  <2>2. Len(p) = 1 /\ p[1] = copyParam(t)
    BY <1>1, <2>1
  <2>3. copyParam(t).length \in 0 .. LOG_MAX_PRARM_LEN - 1
    <3> DEFINE length == TextLength[t]
               kept == copyParam(t).length
    <3>1. length \in Nat
      BY <1>3, StartConstants DEF LoggedTexts
    <3>2. kept = IF length >= LOG_MAX_PRARM_LEN THEN LOG_MAX_PRARM_LEN - 1 ELSE length
      BY DEF copyParam
    <3> HIDE DEF length, kept
    <3>3. kept \in 0 .. LOG_MAX_PRARM_LEN - 1
      BY <3>1, <3>2 DEF LOG_MAX_PRARM_LEN
    <3> QED  BY <3>3 DEF kept
  <2>4. 1 \in 0 .. 4 /\ \A k \in 1 .. 1 : k = 1
    OBVIOUS
  <2> HIDE DEF p
  <2>5. Len(p) \in 0 .. 4 /\ \A k \in 1 .. Len(p) : p[k].length \in 0 .. LOG_MAX_PRARM_LEN - 1
    BY <2>2, <2>3, <2>4, Zenon
  <2> QED  BY <2>5 DEF ShortLine, p
<1> QED  BY <1>2, <1>3

\* Every step logs one such line or none.
LEMMA LogsShortLines ==
    ASSUME ConfigTypeOK, [StartNext]_allVars
    PROVE  \/ \E line : ShortLine(line) /\ Logs(line)
           \/ UNCHANGED logVars
<1>1. CASE LogsVersion \/ LogsNetwork \/ NetworkStarts \/ NetworkFails \/ ShutsDown \/ LogsLoad
           \/ LogsLoaded \/ LogsNotLoaded \/ LogsStarting \/ PortStaysClosed \/ PortOpens
  <2>1. VERSION \in LoggedTexts /\ SERVER_PORT \in LoggedTexts
    BY DEF LoggedTexts
  <2>2. PICK app, lvl, msg, texts :
            /\ Logs(LogLine(app, lvl, msg, texts))
            /\ texts = <<>> \/ texts = <<VERSION>> \/ texts = <<SERVER_PORT>>
    BY <1>1, Zenon
       DEF LogsVersion, LogsNetwork, NetworkStarts, NetworkFails, ShutsDown, LogsLoad, LogsLoaded,
           LogsNotLoaded, LogsStarting, PortStaysClosed, PortOpens, logInfo, logWarn, logError
  <2> QED  BY <2>1, <2>2, LoggedLineIsShort, Zenon
<1>2. CASE Executes
  <2>1. ExecLine /\ file[NextLine] \in Texts \cup Sections
    BY <1>2, ExecutedLine DEF Executes, NextLine
  <2>2. CASE IsInvalid /\ logError(LOG_CONF, InvalidConfigLine, <<file[NextLine]>>)
    <3>1. file[NextLine] \in Texts
      <4>1. ~NewSection
        BY <2>2 DEF NewSection, IsInvalid
      <4> QED
        BY <2>1, <4>1
           DEF ExecLine, OutsideSections, ServerLine, NotAServerLine, WhiteListLine, BlackListLine,
               RecordLine, EntryIn, LineIs
    <3>2. file[NextLine] \in LoggedTexts
      BY <3>1 DEF LoggedTexts
    <3> QED  BY <2>2, <3>2, LoggedLineIsShort, Zenon DEF logError
  <2>3. CASE IsDuplicate /\ logWarn(LOG_CONF, DuplicateNameIgnored, <<NameOf[file[NextLine]]>>)
    <3>1. file[NextLine] \in Texts
      BY <2>3 DEF IsDuplicate, LineIs
    <3>2. NameOf[file[NextLine]] \in LoggedTexts
      BY <3>1, ConfigConstants DEF LoggedTexts
    <3> QED  BY <2>3, <3>2, LoggedLineIsShort, Zenon DEF logWarn
  <2>4. CASE UNCHANGED logVars
    BY <2>4
  <2> QED  BY <1>2, <2>2, <2>3, <2>4, Zenon DEF Executes
<1>3. CASE Begins \/ Reads \/ Loaded \/ NotLoaded \/ Serves \/ Reload \/ Stopped \/ UNCHANGED allVars
  BY <1>3 DEF Begins, Reads, Loaded, NotLoaded, Returns, Serves, Reload, Stopped, allVars
<1> QED  BY <1>1, <1>2, <1>3 DEF StartNext, MainStep

\* A short line in the ring leaves it short.
LEMMA RingStaysShort ==
    ASSUME LogTypeOK, RingShort, NEW line, ShortLine(line), Logs(line)
    PROVE  RingShort'
<1>1. PICK slot : history' = [history EXCEPT ![slot] = line]
  BY DEF Logs
<1>2. ASSUME NEW j \in Slots PROVE ShortLine(history'[j])
  <2>1. DOMAIN history = Slots
    BY DEF LogTypeOK
  <2>2. history'[j] = line \/ history'[j] = history[j]
    BY <1>1, <2>1
  <2>3. ShortLine(history[j])
    BY DEF RingShort
  <2> QED  BY <2>2, <2>3
<1> QED  BY <1>2 DEF RingShort

\* Whatever was logged, and however often, logToJson makes a list of the oldest
\* lines that fits in any buffer (logger.cpp lines 67-95): it looks only at
\* LOG_MAX_JSON_OBJ_SIZE, and no line is longer.
THEOREM JsonOfTheLogFits == StartSpec => []JsonIsAList
<1>1. StartInit => LogTypeOK /\ RingShort
  <2> SUFFICES ASSUME StartInit PROVE LogTypeOK /\ RingShort
    OBVIOUS
  <2>1. LogTypeOK
    BY LogConstants DEF StartInit, logInit, LogTypeOK, Slots
  <2>2. ShortLine(NoLine)
    BY DEF ShortLine, NoLine
  <2>3. RingShort
    BY <2>2 DEF StartInit, logInit, RingShort
  <2> QED  BY <2>1, <2>3
<1>2. ASSUME LogTypeOK, RingShort, ConfigTypeOK, [StartNext]_allVars
      PROVE  LogTypeOK' /\ RingShort'
  <2>1. ASSUME NEW line, ShortLine(line), Logs(line) PROVE LogTypeOK' /\ RingShort'
    BY <1>2, <2>1, RingStaysShort, LogsAsTheListSays
  <2>2. CASE UNCHANGED logVars
    BY <1>2, <2>2 DEF logVars, LogTypeOK, RingShort
  <2> QED  BY <1>2, <2>1, <2>2, LogsShortLines
<1>3. ASSUME LogTypeOK, RingShort PROVE JsonIsAList
  BY <1>3, JsonConstants, JsonOfTheRing DEF JsonIsAList
<1> QED
  BY <1>1, <1>2, <1>3, StartUsesConfig, ConfigTypeCorrect, PTL DEF StartSpec

-----------------------------------------------------------------------------
(* The lines of a file                                                      *)

\* The recursion of InOrder.
OrdersUpTo(f, P, n) ==
    f = [k \in 0 .. n |-> IF k = 0 THEN <<>> ELSE IF k \in P THEN Append(f[k - 1], k) ELSE f[k - 1]]

\* There is such a function.
LEMMA OrdersExist ==
    ASSUME NEW P, NEW n \in Nat
    PROVE  \E f : OrdersUpTo(f, P, n)
<1>1. PICK F : F = [k \in 1 .. n |-> [s \in Seq(Nat) |-> IF k \in P THEN Append(s, k) ELSE s]]
  OBVIOUS
<1>2. \A k \in 1 .. n : F[k] \in [Seq(Nat) -> Seq(Nat)]
  BY <1>1
<1>3. F \in [1 .. n -> [Seq(Nat) -> Seq(Nat)]]
  BY <1>1, <1>2
<1>4. <<>> \in Seq(Nat)
  OBVIOUS
<1>5. PICK f \in [0 .. n -> Seq(Nat)] : Recurs(f, <<>>, F, n)
  BY <1>3, <1>4, RecursionExists
<1>6. \A k \in 0 .. n : k # 0 => F[k][f[k - 1]] = IF k \in P THEN Append(f[k - 1], k) ELSE f[k - 1]
  <2> SUFFICES ASSUME NEW k \in 0 .. n, k # 0
               PROVE  F[k][f[k - 1]] = IF k \in P THEN Append(f[k - 1], k) ELSE f[k - 1]
    OBVIOUS
  <2>1. k \in 1 .. n /\ k - 1 \in 0 .. n
    OBVIOUS
  <2>2. f[k - 1] \in Seq(Nat)
    BY <2>1
  <2> QED  BY <1>1, <2>1, <2>2
<1>7. OrdersUpTo(f, P, n)
  BY <1>5, <1>6 DEF OrdersUpTo, Recurs
<1> QED  BY <1>7

\* InOrder lists the positions.
LEMMA InOrderEnumerates ==
    ASSUME NEW n \in Nat, NEW P \in SUBSET (1 .. n)
    PROVE  Enumerates(InOrder(P, n), P)
<1> DEFINE f == CHOOSE f : OrdersUpTo(f, P, n)
<1>1. OrdersUpTo(f, P, n)
  BY OrdersExist
<1>2. InOrder(P, n) = f[n]
  BY Zenon DEF InOrder, OrdersUpTo
<1> HIDE DEF f
<1>3. \A k \in 0 .. n : f[k] = IF k = 0 THEN <<>>
                               ELSE IF k \in P THEN Append(f[k - 1], k) ELSE f[k - 1]
  BY <1>1 DEF OrdersUpTo
<1> DEFINE Some(k) == {p \in P : p <= k}
<1>0. \A p \in P : p \in Nat /\ 1 <= p /\ p <= n
  OBVIOUS
<1> DEFINE
           T == {k \in 0 .. n : Enumerates(f[k], Some(k))}
<1>4. 0 \in T
  <2>1. f[0] = <<>> /\ 0 \in 0 .. n
    BY <1>3
  <2>3. Some(0) = {}
    <3>1. \A p \in P : ~(p <= 0)
      BY <1>0
    <3> QED  BY <3>1
  <2>2. Enumerates(<<>>, {})
    BY DEF Enumerates, Range
  <2> QED  BY <2>1, <2>2, <2>3
<1>5. ASSUME NEW k \in 0 .. n - 1, k \in T PROVE k + 1 \in T
  <2>1. k + 1 \in 0 .. n /\ k + 1 # 0 /\ (k + 1) - 1 = k /\ k + 1 \in Nat
    OBVIOUS
  <2>2. f[k + 1] = IF k + 1 \in P THEN Append(f[k], k + 1) ELSE f[k]
    BY <1>3, <2>1
  <2>3. Enumerates(f[k], Some(k)) /\ \A q \in Some(k) : q < k + 1
    BY <1>5
  <2>4. CASE k + 1 \in P
    <3>1. Some(k + 1) = Some(k) \cup {k + 1}
      <4>1. \A p \in P : p <= k + 1 <=> p <= k \/ p = k + 1
        BY <1>0
      <4>2. \A x : x \in Some(k + 1) <=> x \in Some(k) \cup {k + 1}
        BY <2>4, <4>1
      <4> QED  BY <4>2
    <3> HIDE DEF Some
    <3>2. Enumerates(f[k + 1], Some(k + 1))
      BY <2>1, <2>2, <2>3, <2>4, <3>1, EnumGrows
    <3> QED  BY <2>1, <3>2
  <2>5. CASE k + 1 \notin P
    <3>1. Some(k + 1) = Some(k)
      <4>1. \A p \in P : p <= k + 1 <=> p <= k
        BY <1>0, <2>5
      <4> QED  BY <4>1
    <3> QED  BY <2>1, <2>2, <2>3, <2>5, <3>1
  <2> QED  BY <2>4, <2>5
<1>6. Enumerates(f[n], Some(n))
  <2>1. \A k \in 0 .. n : k \in T
    <3> HIDE DEF T
    <3> QED  BY <1>4, <1>5, UpTo
  <2> QED  BY <2>1
<1>7. Some(n) = P
  BY <1>0
<1> QED  BY <1>2, <1>6, <1>7

\* The characters of chars from a to b.
Segment(chars, a, b) == [k \in 1 .. b - a + 1 |-> chars[a + k - 1]]

\* The line that ends at i begins at s.
IsLine(chars, s, i) ==
    /\ i \in 1 .. Len(chars) /\ s \in 1 .. i
    /\ EndsLine(chars, i)
    /\ s = 1 \/ chars[s - 1] \in Newlines
    /\ \A p \in s .. i - 1 : chars[p] \notin Newlines

\* SubSeq, as a segment.
LEMMA SubSeqSegment ==
    ASSUME NEW chars \in Seq(Characters), NEW a \in Nat, NEW b \in Nat, a >= 1, b <= Len(chars), a <= b + 1
    PROVE  SubSeq(chars, a, b) = Segment(chars, a, b)
<1>1. \A k \in a .. b : chars[k] \in Characters
  OBVIOUS
<1>2. /\ SubSeq(chars, a, b) \in Seq(Characters)
      /\ Len(SubSeq(chars, a, b)) = b - a + 1
      /\ \A k \in 1 .. b - a + 1 : SubSeq(chars, a, b)[k] = chars[a + k - 1]
  <2>1. /\ SubSeq(chars, a, b) \in Seq(Characters)
        /\ Len(SubSeq(chars, a, b)) = IF a <= b THEN b - a + 1 ELSE 0
        /\ \A k \in 1 .. b - a + 1 : SubSeq(chars, a, b)[k] = chars[a + k - 1]
    BY <1>1, SubSeqProperties
  <2> QED  BY <2>1
<1>3. PICK x, n : x = SubSeq(chars, a, b) /\ n = b - a + 1
  OBVIOUS
<1>4. x = [k \in 1 .. n |-> x[k]]
  BY <1>2, <1>3
<1>5. \A k \in 1 .. n : x[k] = chars[a + k - 1]
  BY <1>2, <1>3
<1>6. x = [k \in 1 .. n |-> chars[a + k - 1]]
  BY <1>4, <1>5
<1> QED  BY <1>3, <1>6 DEF Segment

\* A segment is a sequence of characters.
LEMMA SegmentIs ==
    ASSUME NEW chars \in Seq(Characters), NEW a \in Nat, NEW b \in Nat, a >= 1, b <= Len(chars), a <= b + 1
    PROVE  /\ Segment(chars, a, b) \in Seq(Characters)
           /\ Len(Segment(chars, a, b)) = b - a + 1
           /\ \A k \in 1 .. b - a + 1 : Segment(chars, a, b)[k] = chars[a + k - 1]
<1>1. PICK n : n = b - a + 1
  OBVIOUS
<1>2. n \in Nat /\ \A k \in 1 .. n : a + k - 1 \in 1 .. Len(chars) /\ chars[a + k - 1] \in Characters
  BY <1>1
<1>3. Segment(chars, a, b) = [k \in 1 .. n |-> chars[a + k - 1]]
  BY <1>1 DEF Segment
<1> QED  BY <1>1, <1>2, <1>3

\* Where the comment begins.
LEMMA BeforeCommentIs ==
    ASSUME NEW chars \in Seq(Characters), NEW a \in Nat, NEW b \in Nat, a >= 1, b <= Len(chars), a <= b + 1,
           NEW t \in Nat, a <= t + 1, t <= b,
           \A p \in a .. t : chars[p] # Comment,
           t = b \/ chars[t + 1] = Comment
    PROVE  BeforeComment(Segment(chars, a, b)) = Segment(chars, a, t)
<1> DEFINE I == {k \in 1 .. Len(Segment(chars, a, b)) : Segment(chars, a, b)[k] = Comment}
           c == IF I # {} THEN Min(I) ELSE 0
<1>1. BeforeComment(Segment(chars, a, b)) =
          IF c = 0 THEN Segment(chars, a, b) ELSE SubSeq(Segment(chars, a, b), 1, c - 1)
  BY Zenon DEF SelectInSeq, BeforeComment
<1>2. PICK x : x = Segment(chars, a, b)
  OBVIOUS
<1>3. /\ x \in Seq(Characters) /\ Len(x) = b - a + 1 /\ b - a + 1 \in Nat
      /\ \A k \in 1 .. b - a + 1 : x[k] = chars[a + k - 1]
  <2>1. b - a + 1 \in Nat
    OBVIOUS
  <2>2. /\ Segment(chars, a, b) \in Seq(Characters)
        /\ Len(Segment(chars, a, b)) = b - a + 1
        /\ \A k \in 1 .. b - a + 1 : Segment(chars, a, b)[k] = chars[a + k - 1]
    BY SegmentIs
  <2> QED  BY <1>2, <2>1, <2>2
<1>4. \A k \in 1 .. t - a + 1 : x[k] # Comment
  <2> TAKE k \in 1 .. t - a + 1
  <2>1. k \in 1 .. b - a + 1 /\ a + k - 1 \in a .. t
    OBVIOUS
  <2> QED  BY <1>3, <2>1
<1>5. CASE t = b
  <2>1. \A k \in 1 .. Len(x) : x[k] # Comment
    BY <1>3, <1>4, <1>5
  <2>2. I = {}
    BY <1>2, <2>1
  <2>3. c = 0
    BY <2>2
  <2> QED  BY <1>1, <1>5, <2>3
<1>6. CASE t # b
  <2>1. PICK m : m = t - a + 2
    OBVIOUS
  <2>2. m \in 1 .. Len(x) /\ m \in Nat /\ m # 0 /\ a + m - 1 = t + 1
    BY <1>3, <1>6, <2>1
  <2>3. x[m] = Comment
    BY <1>3, <1>6, <2>2
  <2>4. \A k \in 1 .. Len(x) : x[k] = Comment => m <= k
    <3> SUFFICES ASSUME NEW k \in 1 .. Len(x), ~(m <= k) PROVE x[k] # Comment
      OBVIOUS
    <3>1. k \in 1 .. t - a + 1
      BY <1>3, <2>1, <2>2
    <3> QED  BY <1>4, <3>1
  <2>5. m \in I /\ (\A k \in I : m <= k) /\ \A k \in I : k \in Nat
    BY <1>2, <1>3, <2>2, <2>3, <2>4
  <2>6. c = m
    <3> HIDE DEF I
    <3>1. Min(I) \in I /\ \A k \in I : Min(I) <= k
      <4>1. \E k \in I : \A j \in I : k <= j
        BY <2>5
      <4> QED  BY <4>1 DEF Min
    <3>2. Min(I) <= m /\ m <= Min(I) /\ Min(I) \in Nat /\ m \in Nat
      BY <2>5, <3>1
    <3>3. Min(I) = m
      BY <3>2
    <3> QED  BY <2>5, <3>3
  <2>7. BeforeComment(x) = SubSeq(x, 1, m - 1)
    <3> HIDE DEF c, I
    <3> QED  BY <1>1, <1>2, <2>2, <2>6
  <2>8. SubSeq(x, 1, m - 1) = Segment(x, 1, m - 1)
    <3>1. 1 \in Nat /\ m - 1 \in Nat /\ 1 >= 1 /\ m - 1 <= Len(x) /\ 1 <= m - 1 + 1
      BY <1>3, <2>2
    <3>2. x \in Seq(Characters)
      BY <1>3
    <3> QED  BY <3>1, <3>2, SubSeqSegment
  <2>9. Segment(x, 1, m - 1) = Segment(chars, a, t)
    <3>1. m - 1 - 1 + 1 = m - 1 /\ t - a + 1 = m - 1
      BY <2>1, <2>2
    <3>2. \A k \in 1 .. m - 1 : x[1 + k - 1] = chars[a + k - 1]
      <4> TAKE k \in 1 .. m - 1
      <4>1. 1 + k - 1 = k /\ k \in 1 .. b - a + 1
        BY <1>3, <2>2
      <4> QED  BY <1>3, <4>1
    <3> QED  BY <3>1, <3>2 DEF Segment
  <2> QED  BY <1>2, <2>7, <2>8, <2>9
<1> QED  BY <1>5, <1>6

\* A character of a line is in a comment when the line has a comment up to it.
LEMMA CommentedIs ==
    ASSUME NEW chars \in Seq(Characters), NEW s, NEW i, IsLine(chars, s, i),
           NEW p \in s .. i, chars[p] \notin Newlines
    PROVE  Commented(chars, p) <=> \E q \in s .. p : chars[q] = Comment
<1>1. /\ i \in 1 .. Len(chars) /\ s \in 1 .. i /\ (s = 1 \/ chars[s - 1] \in Newlines)
      /\ \A k \in s .. i - 1 : chars[k] \notin Newlines
  BY DEF IsLine
<1>2. \A k \in s .. p : chars[k] \notin Newlines
  <2> TAKE k \in s .. p
  <2>1. k = p \/ k \in s .. i - 1
    BY <1>1
  <2> QED  BY <1>1, <2>1
<1>3. ASSUME NEW q \in 1 .. p, SameLine(chars, q, p) PROVE q \in s .. p
  <2> SUFFICES ASSUME q < s PROVE FALSE
    BY <1>1
  <2>1. s # 1 /\ s - 1 \in q .. p
    BY <1>1
  <2> QED  BY <1>1, <1>3, <2>1 DEF SameLine
<1>4. \A q \in s .. p : q \in 1 .. p /\ SameLine(chars, q, p)
  BY <1>1, <1>2 DEF SameLine
<1> QED  BY <1>3, <1>4 DEF Commented

\* What is copied of a line is its text, which comes before the rest.
LEMMA LineTexts ==
    ASSUME NEW chars \in Seq(Characters), NEW s, NEW i, IsLine(chars, s, i), ~EndsInOneNewline(chars)
    PROVE  \E t \in s - 1 .. i :
               /\ BeforeComment(RawLine(chars, s, i)) = Segment(chars, s, t)
               /\ \A p \in s .. t : Text(chars, p)
               /\ \A p \in t + 1 .. i : ~Text(chars, p)
<1>1. /\ i \in 1 .. Len(chars) /\ s \in 1 .. i /\ EndsLine(chars, i) /\ Len(chars) \in Nat
      /\ \A k \in s .. i - 1 : chars[k] \notin Newlines
  BY DEF IsLine
<1>2. PICK n, hi, ls : n = Len(chars) /\ hi = (IF i = n THEN i ELSE i - 1) /\ ls = LineStart(chars, s)
  OBVIOUS
<1>3. RawLine(chars, s, i) = SubSeq(chars, ls, hi)
  BY <1>2 DEF RawLine
<1> DEFINE stops == {p \in s .. Len(chars) : chars[p] \notin Newlines}
<1>4. ls = IF stops = {} THEN Len(chars) + 1 ELSE Min(stops)
  BY <1>2, Zenon DEF LineStart
<1>5. stops # {} => ls \in stops /\ \A p \in stops : ls <= p
  <2> SUFFICES ASSUME stops # {} PROVE ls \in stops /\ \A p \in stops : ls <= p
    OBVIOUS
  <2>1. stops \in SUBSET Nat
    BY <1>1
  <2> HIDE DEF stops
  <2>2. \E m \in stops : \A p \in stops : m <= p
    BY <2>1, LeastNumber
  <2>3. Min(stops) \in stops /\ \A p \in stops : Min(stops) <= p
    BY <2>2 DEF Min
  <2> QED  BY <1>4, <2>3
<1>6. n \in Nat /\ hi \in Nat /\ i \in Nat /\ s \in Nat /\ i <= n /\ hi <= i /\ s <= i /\ s >= 1
  BY <1>1, <1>2
<1>7. CASE s = i /\ chars[i] \in Newlines
  <2>1. ls \in Nat /\ hi < ls
    <3>1. CASE stops = {}
      BY <1>1, <1>2, <1>4, <1>6, <3>1
    <3>2. CASE stops # {}
      <4>1. ls \in s .. Len(chars) /\ chars[ls] \notin Newlines
        BY <1>5, <3>2
      <4>2. ls # i
        BY <1>7, <4>1
      <4> QED  BY <1>6, <1>7, <4>1, <4>2
    <3> QED  BY <3>1, <3>2
  <2>2. RawLine(chars, s, i) = <<>>
    BY <1>3, <1>6, <2>1, SubSeqEmpty
  <2>3. s - 1 \in Nat /\ s - 1 \in s - 1 .. i /\ s - 1 <= Len(chars) /\ s <= s - 1 + 1
    BY <1>1, <1>6
  <2>4. Segment(chars, s, s - 1) = <<>>
    <3>1. Len(Segment(chars, s, s - 1)) = 0 /\ Segment(chars, s, s - 1) \in Seq(Characters)
      BY <1>6, <2>3, SegmentIs
    <3> QED  BY <3>1
  <2>5. \A p \in s .. s - 1 : chars[p] # Comment
    BY <1>6
  <2>6. BeforeComment(Segment(chars, s, s - 1)) = Segment(chars, s, s - 1)
    BY <1>6, <2>3, <2>5, BeforeCommentIs
  <2>7. \A p \in s .. s - 1 : Text(chars, p)
    BY <1>6
  <2>8. \A p \in s - 1 + 1 .. i : ~Text(chars, p)
    BY <1>6, <1>7 DEF Text
  <2> QED  BY <2>2, <2>3, <2>4, <2>6, <2>7, <2>8
<1>8. CASE ~(s = i /\ chars[i] \in Newlines)
  <2>1. chars[s] \notin Newlines
    <3>1. CASE s = i
      BY <1>8, <3>1
    <3>2. CASE s # i
      <4>1. s \in s .. i - 1
        BY <1>6, <3>2
      <4> QED  BY <1>1, <4>1
    <3> QED  BY <3>1, <3>2
  <2>2. ls = s
    <3>1. s \in stops
      BY <1>1, <2>1
    <3>2. ls \in s .. Len(chars) /\ ls <= s
      BY <1>5, <3>1
    <3> QED  BY <1>6, <3>2
  <2>3. s <= hi /\ hi >= 1
    <3>1. s = i => i = n
      BY <1>1, <1>2, <2>1 DEF EndsLine
    <3> QED  BY <1>2, <1>6, <3>1
  <2>4. RawLine(chars, s, i) = Segment(chars, s, hi)
    <3>1. s >= 1 /\ hi <= Len(chars) /\ s <= hi + 1 /\ s \in Nat /\ hi \in Nat
      BY <1>2, <1>6, <2>3
    <3>2. SubSeq(chars, s, hi) = Segment(chars, s, hi)
      BY <3>1, SubSeqSegment
    <3> QED  BY <1>3, <2>2, <3>2
  <2>5. CASE \A p \in s .. hi : chars[p] # Comment
    <3>1. BeforeComment(Segment(chars, s, hi)) = Segment(chars, s, hi)
      BY <1>2, <1>6, <2>3, <2>5, BeforeCommentIs
    <3>2. \A p \in s .. hi : chars[p] \notin Newlines => Text(chars, p)
      <4> SUFFICES ASSUME NEW p \in s .. hi, chars[p] \notin Newlines PROVE Text(chars, p)
        OBVIOUS
      <4>1. p \in s .. i
        BY <1>6
      <4>2. \A q \in s .. p : chars[q] # Comment
        BY <1>6, <2>5
      <4>3. ~Commented(chars, p)
        BY <4>1, <4>2, CommentedIs
      <4> QED  BY <4>3 DEF Text
    <3>3. \A p \in s .. hi : chars[p] \notin Newlines
      <4> SUFFICES ASSUME NEW p \in s .. hi, chars[p] \in Newlines PROVE FALSE
        OBVIOUS
      <4>1. p = i /\ i = n /\ hi = i
        BY <1>1, <1>2, <1>6
      <4>2. s <= i - 1
        BY <1>6, <1>8, <4>1
      <4>3. i - 1 \in s .. hi /\ i - 1 \in s .. i - 1
        BY <1>6, <4>1, <4>2
      <4>4. Text(chars, i - 1)
        BY <1>1, <3>2, <4>3
      <4>5. Len(chars) > 1 /\ chars[Len(chars)] \in Newlines /\ Text(chars, Len(chars) - 1)
        BY <1>2, <1>6, <4>1, <4>2, <4>4
      <4> QED  BY <4>5 DEF EndsInOneNewline
    <3>4. \A p \in s .. hi : Text(chars, p)
      BY <3>2, <3>3
    <3>5. \A p \in hi + 1 .. i : ~Text(chars, p)
      <4> SUFFICES ASSUME NEW p \in hi + 1 .. i PROVE ~Text(chars, p)
        OBVIOUS
      <4>1. p = i /\ i # n
        BY <1>2, <1>6
      <4>2. chars[i] \in Newlines
        BY <1>1, <1>2, <4>1 DEF EndsLine
      <4> QED  BY <4>1, <4>2 DEF Text
    <3>6. hi \in s - 1 .. i
      BY <1>6, <2>3
    <3> QED  BY <2>4, <3>1, <3>4, <3>5, <3>6
  <2>6. CASE ~\A p \in s .. hi : chars[p] # Comment
    <3>1. PICK c \in s .. hi : chars[c] = Comment /\ \A p \in s .. c - 1 : chars[p] # Comment
      <4>1. PICK C : C = {p \in s .. hi : chars[p] = Comment}
        OBVIOUS
      <4>2. C # {} /\ C \in SUBSET Nat
        BY <1>6, <2>6, <4>1
      <4>3. PICK c \in C : \A p \in C : c <= p
        BY <4>2, LeastNumber
      <4>4. c \in s .. hi /\ chars[c] = Comment
        BY <4>1, <4>3
      <4>5. \A p \in s .. c - 1 : chars[p] # Comment
        <5> SUFFICES ASSUME NEW p \in s .. c - 1, chars[p] = Comment PROVE FALSE
          OBVIOUS
        <5>1. p \in s .. hi /\ ~(c <= p)
          BY <1>6, <4>4
        <5> QED  BY <4>1, <4>3, <5>1
      <4> QED  BY <4>4, <4>5
    <3>2. PICK t : t = c - 1
      OBVIOUS
    <3>3. t \in Nat /\ s <= t + 1 /\ t <= hi /\ t + 1 = c /\ t \in s - 1 .. i
      BY <1>6, <3>1, <3>2
    <3>4. BeforeComment(Segment(chars, s, hi)) = Segment(chars, s, t)
      BY <1>2, <1>6, <2>3, <3>1, <3>2, <3>3, BeforeCommentIs
    <3>5. \A p \in s .. t : Text(chars, p)
      <4> SUFFICES ASSUME NEW p \in s .. t PROVE Text(chars, p)
        OBVIOUS
      <4>1. p \in s .. i /\ p \in s .. i - 1 /\ \A q \in s .. p : q \in s .. c - 1
        BY <1>6, <3>1, <3>3
      <4>2. chars[p] \notin Newlines /\ \A q \in s .. p : chars[q] # Comment
        BY <1>1, <3>1, <4>1
      <4>3. ~Commented(chars, p)
        BY <4>1, <4>2, CommentedIs
      <4> QED  BY <4>2, <4>3 DEF Text
    <3>6. \A p \in t + 1 .. i : ~Text(chars, p)
      <4> SUFFICES ASSUME NEW p \in t + 1 .. i, chars[p] \notin Newlines PROVE Commented(chars, p)
        BY DEF Text
      <4>1. p \in s .. i /\ c \in s .. p
        BY <1>6, <3>1, <3>3
      <4> QED  BY <3>1, <4>1, CommentedIs
    <3> QED  BY <2>4, <3>3, <3>4, <3>5, <3>6
  <2> QED  BY <2>5, <2>6
<1> QED  BY <1>7, <1>8

\* The character of the line that chars[p] becomes.
CharAt(chars, p) == IF chars[p] = TAB THEN SP ELSE Lower[chars[p]]

\* The line is made of the characters at the positions P.
Spells(chars, line, P) ==
    \E e : Enumerates(e, P) /\ line = [k \in 1 .. Len(e) |-> CharAt(chars, e[k])]

\* A blank becomes a space, and nothing else does; nothing becomes a line end.
LEMMA CharIs ==
    ASSUME NEW chars \in Seq(Characters), NEW p \in 1 .. Len(chars), chars[p] \notin Newlines
    PROVE  /\ CharAt(chars, p) \notin Newlines
           /\ CharAt(chars, p) = SP <=> chars[p] \in {SP, TAB}
           /\ chars[p] \notin {SP, TAB} => CharAt(chars, p) = Lower[chars[p]]
<1>1. chars[p] \in Characters
  OBVIOUS
<1>2. SP \notin Newlines
  BY DEF SP, Newlines
<1>3. chars[p] = SP => Lower[chars[p]] = SP
  BY <1>1, LowerAssumption
<1>4. chars[p] # SP => Lower[chars[p]] \notin Newlines /\ Lower[chars[p]] # SP
  BY <1>1, LowerAssumption
<1>5. TAB # SP
  BY DEF SP, TAB
<1> QED  BY <1>2, <1>3, <1>4, <1>5 DEF CharAt

\* One more character.
LEMMA SpellsMore ==
    ASSUME NEW chars, NEW line, NEW P, Spells(chars, line, P), NEW p \in Nat, \A q \in P : q < p
    PROVE  /\ Spells(chars, Append(line, CharAt(chars, p)), P \cup {p})
           /\ Append(line, CharAt(chars, p)) # <<>>
           /\ Last(Append(line, CharAt(chars, p))) = CharAt(chars, p)
<1>1. PICK e : Enumerates(e, P) /\ line = [k \in 1 .. Len(e) |-> CharAt(chars, e[k])]
  BY DEF Spells
<1>2. PICK n, c, d : n = Len(e) /\ c = CharAt(chars, p) /\ d = Append(e, p)
  OBVIOUS
<1>3. n \in Nat /\ e \in Seq(Nat)
  BY <1>1, <1>2, EnumHas DEF Enumerates
<1>4. Len(d) = n + 1 /\ (\A k \in 1 .. n : d[k] = e[k]) /\ d[n + 1] = p
  BY <1>2, <1>3
<1>5. Enumerates(d, P \cup {p})
  BY <1>1, <1>2, EnumGrows
<1>6. PICK S : S = {CharAt(chars, e[k]) : k \in 1 .. n} \cup {c}
  OBVIOUS
<1>7. line \in Seq(S) /\ Len(line) = n /\ c \in S /\ \A k \in 1 .. n : line[k] = CharAt(chars, e[k])
  BY <1>1, <1>2, <1>3, <1>6
<1>8. PICK x : x = Append(line, c)
  OBVIOUS
<1>9. /\ x \in Seq(S) /\ Len(x) = n + 1 /\ DOMAIN x = 1 .. n + 1
      /\ (\A k \in 1 .. n : x[k] = line[k]) /\ x[n + 1] = c
  BY <1>7, <1>8
<1>10. \A k \in 1 .. n + 1 : x[k] = CharAt(chars, d[k])
  <2> TAKE k \in 1 .. n + 1
  <2>1. k \in 1 .. n \/ k = n + 1
    BY <1>3
  <2> QED  BY <1>2, <1>4, <1>7, <1>9, <2>1
<1>11. x = [k \in 1 .. n + 1 |-> CharAt(chars, d[k])]
  BY <1>9, <1>10
<1>12. Spells(chars, x, P \cup {p})
  BY <1>4, <1>5, <1>11 DEF Spells
<1>13. x # <<>> /\ Last(x) = c
  BY <1>3, <1>9 DEF Last
<1> QED  BY <1>2, <1>8, <1>12, <1>13

\* The last character.
LEMMA SpellsLast ==
    ASSUME NEW chars, NEW line, NEW P, Spells(chars, line, P)
    PROVE  /\ line = <<>> <=> P = {}
           /\ line # <<>> => \E z \in P : /\ Last(line) = CharAt(chars, z)
                                          /\ \A q \in P : q <= z
                                          /\ Spells(chars, Front(line), P \ {z})
<1>1. PICK e : Enumerates(e, P) /\ line = [k \in 1 .. Len(e) |-> CharAt(chars, e[k])]
  BY DEF Spells
<1>2. PICK n : n = Len(e)
  OBVIOUS
<1>3. /\ n \in Nat /\ e \in Seq(Nat) /\ Len(line) = n
      /\ \A k \in 1 .. n : e[k] \in P /\ line[k] = CharAt(chars, e[k])
  <2>1. n \in Nat /\ e \in Seq(Nat) /\ \A k \in 1 .. n : e[k] \in P
    BY <1>1, <1>2, EnumHas DEF Enumerates
  <2>2. Len(line) = n /\ \A k \in 1 .. n : line[k] = CharAt(chars, e[k])
    BY <1>1, <1>2, <2>1
  <2> QED  BY <2>1, <2>2
<1>4. \A p \in P : \E k \in 1 .. n : e[k] = p
  BY <1>1, <1>2, EnumHas
<1>5. line = <<>> <=> n = 0
  BY <1>1, <1>2, <1>3
<1>6. P = {} <=> n = 0
  BY <1>3, <1>4
<1>7. ASSUME n # 0
      PROVE  \E z \in P : /\ Last(line) = CharAt(chars, z)
                          /\ \A q \in P : q <= z
                          /\ Spells(chars, Front(line), P \ {z})
  <2>1. PICK f, z : f = Front(e) /\ z = Last(e)
    OBVIOUS
  <2>2. e # <<>>
    BY <1>2, <1>7
  <2>3. /\ z \in P /\ \A q \in P : q <= z
        /\ f = [k \in 1 .. n - 1 |-> e[k]]
        /\ Enumerates(f, P \ {z})
    BY <1>1, <1>2, <2>1, <2>2, EnumDrops
  <2>4. Last(line) = line[n] /\ z = e[n] /\ n \in 1 .. n
    BY <1>2, <1>3, <1>7, <2>1 DEF Last
  <2>5. Last(line) = CharAt(chars, z)
    BY <1>3, <2>4
  <2>6. Front(line) = [k \in 1 .. n - 1 |-> CharAt(chars, f[k])]
    <3>1. Front(line) = SubSeq(line, 1, n - 1)
      BY <1>3 DEF Front
    <3>2. PICK S : S = {CharAt(chars, e[k]) : k \in 1 .. n}
      OBVIOUS
    <3>3. line \in Seq(S)
      BY <1>1, <1>2, <1>3, <3>2
    <3>4. \A k \in 1 .. n - 1 : line[k] \in S
      BY <1>3, <3>3
    <3>5. 1 \in Int /\ n - 1 \in Int /\ 1 <= n - 1 + 1 /\ n - 1 - 1 + 1 = n - 1
      BY <1>3, <1>7
    <3>6. PICK x : x = SubSeq(line, 1, n - 1)
      OBVIOUS
    <3>7. x \in Seq(S) /\ Len(x) = (IF 1 <= n - 1 THEN n - 1 - 1 + 1 ELSE 0) /\ \A k \in 1 .. n - 1 - 1 + 1 : x[k] = line[1 + k - 1]
      BY <3>4, <3>5, <3>6, SubSeqProperties
    <3>8. Len(x) = n - 1 /\ \A k \in 1 .. n - 1 : x[k] = line[k]
      BY <1>3, <1>7, <3>7
    <3>9. \A k \in 1 .. n - 1 : x[k] = CharAt(chars, f[k])
      BY <1>3, <2>3, <3>8
    <3>10. x = [k \in 1 .. n - 1 |-> x[k]]
      BY <3>7, <3>8
    <3>11. x = [k \in 1 .. n - 1 |-> CharAt(chars, f[k])]
      BY <3>9, <3>10
    <3> QED  BY <3>1, <3>6, <3>11
  <2>7. Len(f) = n - 1
    BY <1>3, <1>7, <2>3
  <2>8. Spells(chars, Front(line), P \ {z})
    BY <2>3, <2>6, <2>7 DEF Spells
  <2> QED  BY <2>3, <2>5, <2>8
<1> QED  BY <1>5, <1>6, <1>7

\* The recursion of Copied.
CopiesUpTo(f, x) ==
    f = [k \in 0 .. Len(x) |-> IF k = 0 THEN <<>> ELSE AddChar(f[k - 1], x[k])]

\* There is such a function.
LEMMA CopiesExist ==
    ASSUME NEW x \in Seq(Characters)
    PROVE  \E f : CopiesUpTo(f, x)
<1>1. PICK n, L : n = Len(x) /\ L = {Lower[c] : c \in Characters}
  OBVIOUS
<1>2. n \in Nat /\ \A k \in 1 .. n : x[k] \in Characters
  BY <1>1
<1>3. ASSUME NEW k \in 1 .. n, NEW l \in Seq(L) PROVE AddChar(l, x[k]) \in Seq(L)
  <2>1. PICK c : c = IF x[k] = TAB THEN SP ELSE x[k]
    OBVIOUS
  <2>2. c \in Characters
    BY <1>2, <2>1, LowerAssumption
  <2>3. Lower[c] \in L
    BY <1>1, <2>2
  <2>4. Append(l, Lower[c]) \in Seq(L)
    BY <2>3
  <2> QED  BY <2>1, <2>4 DEF AddChar
<1>4. PICK F : F = [k \in 1 .. n |-> [l \in Seq(L) |-> AddChar(l, x[k])]]
  OBVIOUS
<1>5. \A k \in 1 .. n : F[k] \in [Seq(L) -> Seq(L)]
  BY <1>3, <1>4
<1>6. F \in [1 .. n -> [Seq(L) -> Seq(L)]]
  BY <1>4, <1>5
<1>7. <<>> \in Seq(L)
  OBVIOUS
<1>8. PICK f \in [0 .. n -> Seq(L)] : Recurs(f, <<>>, F, n)
  BY <1>2, <1>6, <1>7, RecursionExists
<1>9. \A k \in 0 .. n : k # 0 => F[k][f[k - 1]] = AddChar(f[k - 1], x[k])
  <2> SUFFICES ASSUME NEW k \in 0 .. n, k # 0 PROVE F[k][f[k - 1]] = AddChar(f[k - 1], x[k])
    OBVIOUS
  <2>1. k \in 1 .. n /\ k - 1 \in 0 .. n
    BY <1>2
  <2>2. f[k - 1] \in Seq(L)
    BY <2>1
  <2> QED  BY <1>4, <2>1, <2>2
<1>10. CopiesUpTo(f, x)
  BY <1>1, <1>8, <1>9 DEF CopiesUpTo, Recurs
<1> QED  BY <1>10

\* The characters copied of a line that begins at s: those of the words, and
\* the first one after each.
Stays(chars, s, p) == InWord(chars, p) \/ (p > s /\ InWord(chars, p - 1))

\* Copied leaves out the other blanks.
LEMMA CopiedSpells ==
    ASSUME NEW chars \in Seq(Characters), NEW s \in Nat, NEW t \in Nat,
           s >= 1, t <= Len(chars), s <= t + 1,
           \A p \in s .. t : Text(chars, p)
    PROVE  Spells(chars, Copied(Segment(chars, s, t)), {p \in s .. t : Stays(chars, s, p)})
<1>1. PICK x, m : x = Segment(chars, s, t) /\ m = t - s + 1
  OBVIOUS
<1>2. x \in Seq(Characters) /\ Len(x) = m /\ \A k \in 1 .. m : x[k] = chars[s + k - 1]
  BY <1>1, SegmentIs
<1>3. m \in Nat /\ t = s + m - 1
  BY <1>1
<1> DEFINE f == CHOOSE f : CopiesUpTo(f, x)
<1>4. CopiesUpTo(f, x)
  BY <1>2, CopiesExist
<1>5. Copied(x) = f[Len(x)]
  BY Zenon DEF Copied, CopiesUpTo
<1> HIDE DEF f
<1>6. \A k \in 0 .. m : f[k] = IF k = 0 THEN <<>> ELSE AddChar(f[k - 1], x[k])
  BY <1>2, <1>4 DEF CopiesUpTo
<1> DEFINE W(k) == {p \in s .. s + k - 1 : Stays(chars, s, p)}
           Blank(l) == l = <<>> \/ Last(l) = SP
           T == {k \in 0 .. m : /\ Spells(chars, f[k], W(k))
                                /\ Blank(f[k]) <=> (k = 0 \/ ~InWord(chars, s + k - 1))}
<1>7. 0 \in T
  <2>1. f[0] = <<>> /\ 0 \in 0 .. m
    BY <1>3, <1>6
  <2>2. W(0) = {}
    OBVIOUS
  <2>3. Enumerates(<<>>, {})
    BY DEF Enumerates, Range
  <2>4. <<>> = [k \in 1 .. Len(<<>>) |-> CharAt(chars, (<<>>)[k])]
    OBVIOUS
  <2>5. Spells(chars, <<>>, {})
    BY <2>3, <2>4 DEF Spells
  <2> HIDE DEF W
  <2> QED  BY <2>1, <2>2, <2>5
<1>8. ASSUME NEW k \in 0 .. m - 1, k \in T PROVE k + 1 \in T
  <2>1. PICK p, l, c : p = s + k /\ l = f[k] /\ c = chars[p]
    OBVIOUS
  <2>2. /\ k + 1 \in 0 .. m /\ k + 1 # 0 /\ k + 1 - 1 = k /\ k + 1 \in 1 .. m
        /\ p \in Nat /\ p \in s .. t /\ p \in 1 .. Len(chars) /\ s + (k + 1) - 1 = p
    BY <1>3, <2>1
  <2>3. x[k + 1] = c
    BY <1>2, <2>1, <2>2
  <2>4. f[k + 1] = AddChar(l, c)
    BY <1>6, <2>1, <2>2, <2>3
  <2>5. Spells(chars, l, W(k)) /\ (Blank(l) <=> (k = 0 \/ ~InWord(chars, p - 1)))
    <3>1. s + k - 1 = p - 1
      BY <2>1, <2>2
    <3> QED  BY <1>8, <2>1, <3>1
  <2>6. W(k + 1) = IF Stays(chars, s, p) THEN W(k) \cup {p} ELSE W(k)
    <3>1. \A q : q \in s .. s + (k + 1) - 1 <=> q \in s .. s + k - 1 \/ q = p
      BY <2>1, <2>2
    <3>2. \A q : q \in W(k + 1) <=> q \in W(k) \/ (q = p /\ Stays(chars, s, p))
      BY <3>1
    <3> QED  BY <3>2
  <2>7. \A q \in W(k) : q < p
    BY <2>1, <2>2
  <2>8. InWord(chars, p) <=> c \notin {SP, TAB}
    BY <2>1, <2>2 DEF InWord
  <2>9. Stays(chars, s, p) <=> InWord(chars, p) \/ ~Blank(l)
    <3>1. p > s <=> k # 0
      BY <2>1, <2>2
    <3> HIDE DEF Blank
    <3> QED  BY <2>5, <3>1 DEF Stays
  <2>10. /\ CharAt(chars, p) = SP <=> c \in {SP, TAB}
         /\ c \notin {SP, TAB} => CharAt(chars, p) = Lower[c]
    <3>1. chars[p] \notin Newlines
      BY <2>2 DEF Text
    <3> QED  BY <2>1, <2>2, <3>1, CharIs
  <2>11. SP \in Characters /\ Lower[SP] = SP
    BY LowerAssumption
  <2>12. f[k + 1] = IF Stays(chars, s, p) THEN Append(l, CharAt(chars, p)) ELSE l
    <3>1. CASE c \in {SP, TAB}
      <4>1. AddChar(l, c) = IF Blank(l) THEN l ELSE Append(l, Lower[SP])
        BY <3>1 DEF AddChar
      <4> HIDE DEF Blank
      <4> QED  BY <2>4, <2>8, <2>9, <2>10, <2>11, <3>1, <4>1
    <3>2. CASE c \notin {SP, TAB}
      <4>1. AddChar(l, c) = Append(l, Lower[c])
        BY <3>2 DEF AddChar
      <4> HIDE DEF Blank
      <4> QED  BY <2>4, <2>8, <2>9, <2>10, <3>2, <4>1
    <3> QED  BY <3>1, <3>2
  <2>13. CASE Stays(chars, s, p)
    <3> HIDE DEF W
    <3>1. f[k + 1] = Append(l, CharAt(chars, p)) /\ W(k + 1) = W(k) \cup {p}
      BY <2>6, <2>12, <2>13
    <3>2. /\ Spells(chars, f[k + 1], W(k + 1))
          /\ f[k + 1] # <<>> /\ Last(f[k + 1]) = CharAt(chars, p)
      <4>1. /\ Spells(chars, Append(l, CharAt(chars, p)), W(k) \cup {p})
            /\ Append(l, CharAt(chars, p)) # <<>>
            /\ Last(Append(l, CharAt(chars, p))) = CharAt(chars, p)
        BY <2>2, <2>5, <2>7, SpellsMore
      <4> QED  BY <3>1, <4>1
    <3>3. Blank(f[k + 1]) <=> ~InWord(chars, p)
      BY <2>8, <2>10, <3>2
    <3> HIDE DEF Blank
    <3> QED  BY <2>2, <3>2, <3>3
  <2>14. CASE ~Stays(chars, s, p)
    <3> HIDE DEF W
    <3>1. f[k + 1] = l /\ W(k + 1) = W(k)
      BY <2>6, <2>12, <2>14
    <3> HIDE DEF Blank
    <3>2. Blank(l) /\ ~InWord(chars, p)
      BY <2>9, <2>14
    <3> QED  BY <2>2, <2>5, <3>1, <3>2
  <2> QED  BY <2>13, <2>14
<1>9. m \in T
  <2>1. \A k \in 0 .. m : k \in T
    <3> HIDE DEF T
    <3> QED  BY <1>3, <1>7, <1>8, UpTo
  <2>2. m \in 0 .. m
    BY <1>3
  <2> HIDE DEF T
  <2> QED  BY <2>1, <2>2
<1>10. W(m) = {p \in s .. t : Stays(chars, s, p)}
  BY <1>3
<1> QED  BY <1>1, <1>2, <1>5, <1>9, <1>10

\* What is meant of a line whose text ends at t: the words, and the first blank
\* after each but the last.
LEMMA MeantOfLine ==
    ASSUME NEW chars \in Seq(Characters), NEW s, NEW i, IsLine(chars, s, i),
           NEW t \in s - 1 .. i,
           \A p \in s .. t : Text(chars, p),
           \A p \in t + 1 .. i : ~Text(chars, p)
    PROVE  \A p : p \in Meant(chars) /\ p \in s .. i <=>
                      /\ p \in s .. t
                      /\ \/ InWord(chars, p)
                         \/ p > s /\ InWord(chars, p - 1) /\ \E q \in p .. t : InWord(chars, q)
<1>1. /\ i \in 1 .. Len(chars) /\ s \in 1 .. i /\ Len(chars) \in Nat /\ i \in Nat /\ s \in Nat
      /\ t \in Int /\ s <= t + 1 /\ t <= i
      /\ s = 1 \/ chars[s - 1] \in Newlines
      /\ EndsLine(chars, i)
  BY DEF IsLine
<1>2. \A p : p \in Meant(chars) => p \in 1 .. Len(chars) /\ Text(chars, p) /\ (InWord(chars, p) \/ Between(chars, p))
  BY DEF Meant, InWord, Between
<1>3. ASSUME NEW p, p \in Meant(chars), p \in s .. i PROVE p \in s .. t
  <2>1. Text(chars, p)
    BY <1>2, <1>3
  <2>2. p \in s .. t \/ p \in t + 1 .. i
    BY <1>1, <1>3
  <2> QED  BY <2>1, <2>2
<1>4. ASSUME NEW p \in s .. t, NEW q \in p .. Len(chars), InWord(chars, q), SameLine(chars, p, q)
      PROVE  q \in p .. t
  <2>1. q <= i
    <3> SUFFICES ASSUME i < q PROVE FALSE
      BY <1>1
    <3>1. i # Len(chars) /\ i \in p .. q
      BY <1>1
    <3>2. chars[i] \in Newlines
      BY <1>1, <3>1 DEF EndsLine
    <3> QED  BY <1>4, <3>1, <3>2 DEF SameLine
  <2>2. Text(chars, q)
    BY <1>4 DEF InWord
  <2>3. q \in p .. t \/ q \in t + 1 .. i
    BY <1>1, <2>1
  <2> QED  BY <2>2, <2>3
<1>5. ASSUME NEW p \in s .. t, NEW q \in p .. t PROVE SameLine(chars, p, q) /\ q \in p .. Len(chars)
  <2>1. \A k \in p .. q : k \in s .. t
    BY <1>1
  <2>2. \A k \in p .. q : chars[k] \notin Newlines
    BY <2>1 DEF Text
  <2> QED  BY <1>1, <2>2 DEF SameLine
<1>6. ASSUME NEW p \in s .. t
      PROVE  Between(chars, p) <=>
                 ~InWord(chars, p) /\ p > s /\ InWord(chars, p - 1) /\ \E q \in p .. t : InWord(chars, q)
  <2>1. Text(chars, p)
    OBVIOUS
  <2>2. (p > 1 /\ InWord(chars, p - 1)) <=> (p > s /\ InWord(chars, p - 1))
    <3>1. p = s => p = 1 \/ ~InWord(chars, p - 1)
      BY <1>1 DEF InWord, Text
    <3>2. p > s \/ p = s
      BY <1>1
    <3> QED  BY <1>1, <3>1, <3>2
  <2>3. (\E q \in p .. Len(chars) : InWord(chars, q) /\ SameLine(chars, p, q)) <=> \E q \in p .. t : InWord(chars, q)
    BY <1>4, <1>5
  <2> QED  BY <2>1, <2>2, <2>3 DEF Between
<1>7. \A p \in s .. t : p \in s .. i /\ (p \in Meant(chars) <=> InWord(chars, p) \/ Between(chars, p))
  <2> TAKE p \in s .. t
  <2>1. p \in s .. i /\ p \in 1 .. Len(chars)
    BY <1>1
  <2> QED  BY <2>1 DEF Meant
<1>8. ASSUME NEW p
      PROVE  p \in Meant(chars) /\ p \in s .. i <=>
                      /\ p \in s .. t
                      /\ \/ InWord(chars, p)
                         \/ p > s /\ InWord(chars, p - 1) /\ \E q \in p .. t : InWord(chars, q)
  <2>1. CASE p \in s .. t
    <3>1. p \in s .. i /\ (p \in Meant(chars) <=> InWord(chars, p) \/ Between(chars, p))
      BY <1>7, <2>1
    <3>2. Between(chars, p) <=>
                 ~InWord(chars, p) /\ p > s /\ InWord(chars, p - 1) /\ \E q \in p .. t : InWord(chars, q)
      BY <1>6, <2>1
    <3> QED  BY <2>1, <3>1, <3>2
  <2>2. CASE p \notin s .. t
    BY <1>3, <2>2
  <2> QED  BY <2>1, <2>2
<1> QED  BY <1>8

\* A line is made of what is meant of it.
LEMMA CookSpells ==
    ASSUME NEW chars \in Seq(Characters), NEW s, NEW i, IsLine(chars, s, i), ~EndsInOneNewline(chars)
    PROVE  Spells(chars, Cook(RawLine(chars, s, i)), {p \in Meant(chars) : p \in s .. i})
<1>1. PICK t \in s - 1 .. i :
               /\ BeforeComment(RawLine(chars, s, i)) = Segment(chars, s, t)
               /\ \A p \in s .. t : Text(chars, p)
               /\ \A p \in t + 1 .. i : ~Text(chars, p)
  BY LineTexts
<1>2. /\ s \in Nat /\ s >= 1 /\ t \in Nat /\ t <= Len(chars) /\ s <= t + 1
  BY DEF IsLine
<1>3. PICK l, W, M : /\ l = Copied(Segment(chars, s, t))
                     /\ W = {p \in s .. t : Stays(chars, s, p)}
                     /\ M = {p \in Meant(chars) : p \in s .. i}
  OBVIOUS
<1>4. Cook(RawLine(chars, s, i)) = WithoutLastSpace(l)
  BY <1>1, <1>3 DEF Cook
<1>5. Spells(chars, l, W)
  BY <1>1, <1>2, <1>3, CopiedSpells
<1>6. \A p : p \in M <=> /\ p \in s .. t
                         /\ \/ InWord(chars, p)
                            \/ p > s /\ InWord(chars, p - 1) /\ \E q \in p .. t : InWord(chars, q)
  <2>1. \A p : p \in Meant(chars) /\ p \in s .. i <=>
                      /\ p \in s .. t
                      /\ \/ InWord(chars, p)
                         \/ p > s /\ InWord(chars, p - 1) /\ \E q \in p .. t : InWord(chars, q)
    BY <1>1, MeantOfLine
  <2> QED  BY <1>3, <2>1
<1>7. \A p : p \in W <=> p \in s .. t /\ (InWord(chars, p) \/ (p > s /\ InWord(chars, p - 1)))
  BY <1>3 DEF Stays
<1>8. CASE W = {}
  <2>1. l = <<>>
    BY <1>5, <1>8, SpellsLast
  <2>2. WithoutLastSpace(l) = l
    BY <2>1 DEF WithoutLastSpace
  <2>3. M = W
    BY <1>6, <1>7, <1>8
  <2> QED  BY <1>3, <1>4, <1>5, <2>2, <2>3
<1>9. CASE W # {}
  <2>1. l # <<>>
    BY <1>5, <1>9, SpellsLast
  <2>2. PICK z \in W : /\ Last(l) = CharAt(chars, z)
                       /\ \A q \in W : q <= z
                       /\ Spells(chars, Front(l), W \ {z})
    BY <1>5, <2>1, SpellsLast
  <2>3. z \in s .. t /\ z \in 1 .. Len(chars) /\ Text(chars, z)
    BY <1>1, <1>2, <1>7
  <2>4. Last(l) = SP <=> ~InWord(chars, z)
    <3>1. chars[z] \notin Newlines
      BY <2>3 DEF Text
    <3>2. CharAt(chars, z) = SP <=> chars[z] \in {SP, TAB}
      BY <2>3, <3>1, CharIs
    <3> QED  BY <2>2, <2>3, <3>2 DEF InWord
  <2>5. CASE InWord(chars, z)
    <3>1. WithoutLastSpace(l) = l
      BY <2>4, <2>5 DEF WithoutLastSpace
    <3>2. ASSUME NEW p \in W PROVE p \in s .. t /\ z \in p .. t
      BY <1>2, <1>7, <2>2, <2>3
    <3>3. \A p : p \in W <=> p \in M
      BY <1>6, <1>7, <2>5, <3>2
    <3>4. M = W
      BY <3>3
    <3> QED  BY <1>3, <1>4, <1>5, <3>1, <3>4
  <2>6. CASE ~InWord(chars, z)
    <3>1. WithoutLastSpace(l) = Front(l)
      BY <2>1, <2>4, <2>6 DEF WithoutLastSpace
    <3>2. z > s /\ InWord(chars, z - 1)
      BY <1>7, <2>6
    <3>3. z \notin M
      <4> SUFFICES ASSUME NEW q \in z .. t, InWord(chars, q) PROVE FALSE
        BY <1>6, <2>6
      <4>1. q \in s .. t
        BY <1>2, <2>3
      <4>2. q \in W
        BY <1>7, <4>1
      <4>3. q = z
        BY <2>2, <2>3, <4>2
      <4> QED  BY <2>6, <4>3
    <3>4. ASSUME NEW p, p \in W, p # z PROVE p \in M
      <4>1. p \in s .. t /\ p <= z /\ p < z
        BY <1>2, <1>7, <2>2, <2>3, <3>4
      <4>2. CASE InWord(chars, p)
        BY <1>6, <4>1, <4>2
      <4>3. CASE ~InWord(chars, p)
        <5>1. p # z - 1
          BY <3>2, <4>3
        <5>2. z - 1 \in p .. t
          BY <1>2, <2>3, <4>1, <5>1
        <5>3. p > s /\ InWord(chars, p - 1)
          BY <1>7, <3>4, <4>3
        <5> QED  BY <1>6, <3>2, <4>1, <5>2, <5>3
      <4> QED  BY <4>2, <4>3
    <3>5. \A p : p \in M => p \in W
      BY <1>6, <1>7
    <3>6. M = W \ {z}
      BY <3>3, <3>4, <3>5
    <3> QED  BY <1>3, <1>4, <2>2, <3>1, <3>6
  <2> QED  BY <2>5, <2>6
<1> QED  BY <1>8, <1>9

\* No line end is left to be replaced.
LEMMA SanitizeChangesNothing ==
    ASSUME NEW chars \in Seq(Characters), NEW line, NEW P \in SUBSET (1 .. Len(chars)),
           Spells(chars, line, P), \A p \in P : chars[p] \notin Newlines
    PROVE  str_sanitize_strong(line) = line
<1>1. PICK e : Enumerates(e, P) /\ line = [k \in 1 .. Len(e) |-> CharAt(chars, e[k])]
  BY DEF Spells
<1>2. PICK n : n = Len(e)
  OBVIOUS
<1>3. \A k \in 1 .. n : e[k] \in P
  BY <1>1, <1>2, EnumHas
<1>4. DOMAIN line = 1 .. n
  BY <1>1, <1>2
<1>5. \A k \in 1 .. n : line[k] \notin Newlines
  <2> TAKE k \in 1 .. n
  <2>1. e[k] \in 1 .. Len(chars) /\ chars[e[k]] \notin Newlines
    BY <1>3
  <2>2. CharAt(chars, e[k]) \notin Newlines
    BY <2>1, CharIs
  <2> QED  BY <1>1, <1>2, <2>2
<1>6. line = [k \in 1 .. n |-> line[k]]
  BY <1>1, <1>2
<1>7. str_sanitize_strong(line) = [k \in 1 .. n |-> line[k]]
  BY <1>4, <1>5 DEF str_sanitize_strong
<1> QED  BY <1>6, <1>7

\* Where the line that ends at i begins, in Lines.
StartOf(chars, i) == 1 + Max({0} \cup {e \in 1 .. i - 1 : EndsLine(chars, e)})

\* It is after the end of the line before.
LEMMA StartBegins ==
    ASSUME NEW chars \in Seq(Characters), NEW i \in 1 .. Len(chars), EndsLine(chars, i)
    PROVE  IsLine(chars, StartOf(chars, i), i)
<1>1. PICK E : E = {0} \cup {e \in 1 .. i - 1 : EndsLine(chars, e)}
  OBVIOUS
<1>2. 0 \in E /\ \A e \in E : e \in Nat /\ e <= i - 1 /\ (e = 0 \/ EndsLine(chars, e))
  BY <1>1
<1>3. \E m \in E : \A e \in E : m >= e
  <2>1. PICK D : D = {d \in Nat : \E e \in E : d = i - 1 - e}
    OBVIOUS
  <2>2. i - 1 \in D
    BY <1>2, <2>1
  <2>3. PICK d \in D : \A x \in D : d <= x
    BY <2>1, <2>2, LeastNumber
  <2>4. PICK m \in E : d = i - 1 - m
    BY <2>1
  <2>5. \A e \in E : m >= e
    <3> TAKE e \in E
    <3>1. i - 1 - e \in D
      BY <1>2, <2>1
    <3>2. d <= i - 1 - e
      BY <2>3, <3>1
    <3> QED  BY <1>2, <2>4, <3>2
  <2> QED  BY <2>5
<1>4. Max(E) \in E /\ \A e \in E : Max(E) >= e
  BY <1>3 DEF Max
<1>5. PICK m, s : m = Max(E) /\ s = StartOf(chars, i)
  OBVIOUS
<1>6. s = 1 + m /\ m \in E /\ \A e \in E : m >= e
  BY <1>1, <1>4, <1>5 DEF StartOf
<1>7. s \in 1 .. i /\ s - 1 = m
  BY <1>2, <1>6
<1>8. s = 1 \/ chars[s - 1] \in Newlines
  BY <1>2, <1>6, <1>7 DEF EndsLine
<1>9. \A p \in s .. i - 1 : chars[p] \notin Newlines
  <2> SUFFICES ASSUME NEW p \in s .. i - 1, chars[p] \in Newlines PROVE FALSE
    OBVIOUS
  <2>1. p \in E
    BY <1>1, <1>7 DEF EndsLine
  <2> QED  BY <1>2, <1>6, <1>7, <2>1
<1> QED  BY <1>5, <1>7, <1>8, <1>9 DEF IsLine

\* Two characters meant are on one line when they are between the same ends.
LEMMA SameLineIs ==
    ASSUME NEW chars \in Seq(Characters), NEW s, NEW i, IsLine(chars, s, i),
           NEW p \in Meant(chars), p \in s .. i, NEW q \in Meant(chars)
    PROVE  /\ p <= q => (SameLine(chars, p, q) <=> q \in s .. i)
           /\ q <= p => (SameLine(chars, q, p) <=> q \in s .. i)
<1>1. /\ i \in 1 .. Len(chars) /\ s \in 1 .. i /\ Len(chars) \in Nat
      /\ EndsLine(chars, i)
      /\ s = 1 \/ chars[s - 1] \in Newlines
      /\ \A k \in s .. i - 1 : chars[k] \notin Newlines
  BY DEF IsLine
<1>2. /\ p \in 1 .. Len(chars) /\ q \in 1 .. Len(chars)
      /\ chars[p] \notin Newlines /\ chars[q] \notin Newlines
  BY DEF Meant, InWord, Between, Text
<1>3. ASSUME NEW a \in s .. i, NEW b \in s .. i, chars[b] \notin Newlines PROVE SameLine(chars, a, b)
  <2>1. \A k \in a .. b : k \in s .. i - 1 \/ k = b
    BY <1>1
  <2> QED  BY <1>1, <1>3, <2>1 DEF SameLine
<1>4. ASSUME p <= q, SameLine(chars, p, q) PROVE q \in s .. i
  <2> SUFFICES ASSUME i < q PROVE FALSE
    BY <1>1, <1>2, <1>4
  <2>1. i # Len(chars) /\ i \in p .. q
    BY <1>1, <1>2
  <2>2. chars[i] \in Newlines
    BY <1>1, <2>1 DEF EndsLine
  <2> QED  BY <1>4, <2>1, <2>2 DEF SameLine
<1>5. ASSUME q <= p, SameLine(chars, q, p) PROVE q \in s .. i
  <2> SUFFICES ASSUME q < s PROVE FALSE
    BY <1>1, <1>2, <1>5
  <2>1. s # 1 /\ s - 1 \in q .. p
    BY <1>1, <1>2
  <2>2. chars[s - 1] \in Newlines
    BY <1>1, <2>1
  <2> QED  BY <1>5, <2>1, <2>2 DEF SameLine
<1> QED  BY <1>2, <1>3, <1>4, <1>5

\* Every character is on a line.
LEMMA OnALine ==
    ASSUME NEW chars \in Seq(Characters), NEW p \in 1 .. Len(chars)
    PROVE  \E i \in p .. Len(chars) : EndsLine(chars, i) /\ StartOf(chars, i) <= p
<1>1. PICK D : D = {i \in p .. Len(chars) : EndsLine(chars, i)}
  OBVIOUS
<1>2. Len(chars) \in Nat /\ Len(chars) \in D
  BY <1>1 DEF EndsLine
<1>3. D \in SUBSET Nat
  BY <1>1, <1>2
<1>4. PICK i \in D : \A x \in D : i <= x
  BY <1>2, <1>3, LeastNumber
<1>5. i \in p .. Len(chars) /\ i \in 1 .. Len(chars) /\ EndsLine(chars, i)
  BY <1>1, <1>2
<1>6. PICK s : s = StartOf(chars, i)
  OBVIOUS
<1>7. s \in 1 .. i /\ (s = 1 \/ chars[s - 1] \in Newlines)
  BY <1>5, <1>6, StartBegins DEF IsLine
<1>8. s <= p
  <2> SUFFICES ASSUME p < s PROVE FALSE
    BY <1>5, <1>7
  <2>1. s # 1 /\ s - 1 \in p .. Len(chars) /\ ~(i <= s - 1)
    BY <1>5, <1>7
  <2>2. s - 1 \in D
    BY <1>1, <1>7, <2>1 DEF EndsLine
  <2> QED  BY <1>4, <2>1, <2>2
<1> QED  BY <1>5, <1>6, <1>8

\* A file of any length is cut into the lines meant.
LEMMA LinesAreMeant ==
    ASSUME NEW chars \in Seq(Characters), ~EndsInOneNewline(chars)
    PROVE  Lines(chars) = MeantLines(chars)
<1> DEFINE start(i) == 1 + Max({0} \cup {e \in 1 .. i - 1 : EndsLine(chars, e)})
           cooked == [i \in DOMAIN chars |->
                         IF EndsLine(chars, i) THEN Cook(RawLine(chars, start(i), i)) ELSE <<>>]
           K == {i \in DOMAIN chars : Keeps(cooked[i])}
           kept == InOrder(K, Len(chars))
           meant == Meant(chars)
           begins == {p \in meant : ~\E q \in meant : q < p /\ SameLine(chars, q, p)}
           char(p) == IF chars[p] = TAB THEN SP ELSE Lower[chars[p]]
           rest(p) == InOrder({q \in meant : p <= q /\ SameLine(chars, p, q)}, Len(chars))
           lineFrom(p) == [k \in DOMAIN rest(p) |-> char(rest(p)[k])]
           first == InOrder(begins, Len(chars))
           M(i) == {p \in Meant(chars) : p \in StartOf(chars, i) .. i}
<1>1. Lines(chars) = [k \in DOMAIN kept |-> str_sanitize_strong(cooked[kept[k]])]
  BY Zenon DEF Lines
<1>2. MeantLines(chars) = [k \in DOMAIN first |-> lineFrom(first[k])]
  BY Zenon DEF MeantLines
<1>3. PICK n : n = Len(chars)
  OBVIOUS
<1>4. n \in Nat /\ DOMAIN chars = 1 .. n
  BY <1>3
<1>5. \A p \in meant : p \in 1 .. n /\ p \in Nat /\ chars[p] \notin Newlines
  BY <1>3 DEF Meant, InWord, Between, Text
<1>6. ASSUME NEW i \in 1 .. n, EndsLine(chars, i)
      PROVE  IsLine(chars, StartOf(chars, i), i) /\ Spells(chars, cooked[i], M(i))
  <2>1. IsLine(chars, StartOf(chars, i), i)
    BY <1>3, <1>6, StartBegins
  <2>2. cooked[i] = Cook(RawLine(chars, StartOf(chars, i), i))
    BY <1>4, <1>6 DEF StartOf
  <2> HIDE DEF cooked
  <2> QED  BY <2>1, <2>2, CookSpells
<1>7. \A i : i \in K <=> i \in 1 .. n /\ EndsLine(chars, i) /\ M(i) # {}
  <2>1. ASSUME NEW i \in 1 .. n, EndsLine(chars, i) PROVE cooked[i] # <<>> <=> M(i) # {}
    <3>1. Spells(chars, cooked[i], M(i))
      BY <1>6, <2>1
    <3> HIDE DEF cooked, M
    <3> QED  BY <3>1, SpellsLast
  <2>2. ASSUME NEW i \in 1 .. n, ~EndsLine(chars, i) PROVE cooked[i] = <<>>
    BY <1>4, <2>2
  <2>3. \A i : i \in K <=> i \in 1 .. n /\ cooked[i] # <<>>
    BY <1>4 DEF Keeps
  <2> HIDE DEF cooked, M, K
  <2> QED  BY <2>1, <2>2, <2>3
<1>8. PICK g : g = [i \in K |-> Min(M(i))]
  OBVIOUS
<1>9. \A i \in K : g[i] \in M(i) /\ \A p \in M(i) : g[i] <= p
  <2> SUFFICES ASSUME NEW i \in K PROVE g[i] \in M(i) /\ \A p \in M(i) : g[i] <= p
    OBVIOUS
  <2>1. M(i) # {} /\ M(i) \in SUBSET Nat
    <3>1. M(i) \in SUBSET Nat
      BY <1>5
    <3> HIDE DEF K, M
    <3> QED  BY <1>7, <3>1
  <2> HIDE DEF M
  <2>2. \E m \in M(i) : \A p \in M(i) : m <= p
    BY <2>1, LeastNumber
  <2>3. Min(M(i)) \in M(i) /\ \A p \in M(i) : Min(M(i)) <= p
    BY <2>2 DEF Min
  <2> QED  BY <1>8, <2>3
<1> HIDE DEF cooked, K
<1>10. ASSUME NEW i \in K
       PROVE  /\ i \in 1 .. n /\ EndsLine(chars, i) /\ IsLine(chars, StartOf(chars, i), i)
              /\ Spells(chars, cooked[i], M(i))
              /\ g[i] \in meant /\ g[i] \in StartOf(chars, i) .. i
              /\ \A p \in meant : p \in StartOf(chars, i) .. i => g[i] <= p
  BY <1>6, <1>7, <1>9
<1>11. g \in [K -> Nat]
  <2>1. \A i \in K : g[i] \in Nat
    BY <1>5, <1>10
  <2> QED  BY <1>8, <2>1
<1>12. \A i, j \in K : i < j => g[i] < g[j]
  <2> SUFFICES ASSUME NEW i \in K, NEW j \in K, i < j PROVE g[i] < g[j]
    OBVIOUS
  <2>1. PICK a, b, s, t : a = g[i] /\ b = g[j] /\ s = StartOf(chars, i) /\ t = StartOf(chars, j)
    OBVIOUS
  <2>2. i \in 1 .. n /\ a \in s .. i /\ a \in Nat /\ EndsLine(chars, i)
    BY <1>10, <1>11, <2>1
  <2>3. j \in 1 .. n /\ b \in t .. j /\ b \in Nat /\ IsLine(chars, t, j)
    BY <1>10, <1>11, <2>1
  <2>4. t \in 1 .. j /\ \A p \in t .. j - 1 : chars[p] \notin Newlines
    BY <2>3 DEF IsLine
  <2>5. chars[i] \in Newlines
    BY <1>3, <1>4, <2>2, <2>3 DEF EndsLine
  <2>6. i < t
    BY <2>2, <2>3, <2>4, <2>5
  <2>7. a < b
    BY <2>2, <2>3, <2>4, <2>6
  <2> QED  BY <2>1, <2>7
<1>13. begins = {g[i] : i \in K}
  <2>1. ASSUME NEW i \in K PROVE g[i] \in begins
    <3>1. PICK p, s : p = g[i] /\ s = StartOf(chars, i)
      OBVIOUS
    <3>2. IsLine(chars, s, i) /\ p \in meant /\ p \in s .. i /\ p \in Nat
      BY <1>5, <1>10, <3>1
    <3>3. ASSUME NEW q \in meant, q < p, SameLine(chars, q, p) PROVE FALSE
      <4>1. q \in Nat /\ q <= p
        BY <1>5, <3>2, <3>3
      <4>2. q \in s .. i
        BY <3>2, <3>3, <4>1, SameLineIs
      <4>3. p <= q
        BY <1>10, <3>1, <4>2
      <4> QED  BY <3>2, <3>3, <4>1, <4>3
    <3> QED  BY <3>1, <3>2, <3>3
  <2>2. ASSUME NEW p \in begins PROVE \E i \in K : p = g[i]
    <3>1. p \in meant /\ p \in 1 .. n /\ ~\E q \in meant : q < p /\ SameLine(chars, q, p)
      BY <1>5
    <3>2. PICK i \in p .. n : EndsLine(chars, i) /\ StartOf(chars, i) <= p
      BY <1>3, <3>1, OnALine
    <3>3. i \in 1 .. n
      BY <1>4, <3>1
    <3>4. PICK s : s = StartOf(chars, i)
      OBVIOUS
    <3>5. IsLine(chars, s, i) /\ s \in Nat /\ p \in s .. i
      <4>1. IsLine(chars, s, i)
        BY <1>3, <3>2, <3>3, <3>4, StartBegins
      <4>2. s \in 1 .. i
        BY <4>1 DEF IsLine
      <4> QED  BY <1>4, <3>1, <3>2, <3>3, <3>4, <4>1, <4>2
    <3>6. i \in K
      <4>1. p \in M(i)
        BY <3>1, <3>4, <3>5
      <4> QED  BY <1>7, <3>2, <3>3, <4>1
    <3>7. PICK a : a = g[i]
      OBVIOUS
    <3>8. a \in meant /\ a \in s .. i /\ a <= p /\ a \in Nat /\ p \in Nat
      BY <1>5, <1>10, <3>1, <3>4, <3>5, <3>6, <3>7
    <3>9. SameLine(chars, a, p)
      BY <3>1, <3>5, <3>8, SameLineIs
    <3>10. ~(a < p)
      BY <3>1, <3>8, <3>9
    <3>11. a = p
      BY <3>8, <3>10
    <3> QED  BY <3>6, <3>7, <3>11
  <2> HIDE DEF begins
  <2>3. \A x : x \in {g[i] : i \in K} <=> \E i \in K : x = g[i]
    OBVIOUS
  <2>4. \A x : x \in begins <=> x \in {g[i] : i \in K}
    BY <2>1, <2>2, <2>3
  <2> QED  BY <2>4
<1>14. Enumerates(kept, K)
  <2>1. K \in SUBSET (1 .. n)
    BY <1>10
  <2> QED  BY <1>3, <1>4, <2>1, InOrderEnumerates
<1>15. Enumerates(first, begins)
  <2>1. begins \in SUBSET (1 .. n)
    BY <1>5
  <2> HIDE DEF begins
  <2> QED  BY <1>3, <1>4, <2>1, InOrderEnumerates
<1>16. PICK e, f : e = kept /\ f = first
  OBVIOUS
<1>17. Enumerates(e, K) /\ Enumerates(f, begins)
  BY <1>14, <1>15, <1>16
<1> HIDE DEF kept, first
<1>18. f = [k \in 1 .. Len(e) |-> g[e[k]]]
  <2>1. Enumerates([k \in 1 .. Len(e) |-> g[e[k]]], {g[i] : i \in K})
    BY <1>11, <1>12, <1>17, EnumMaps
  <2>2. Enumerates(f, {g[i] : i \in K})
    <3> HIDE DEF begins
    <3> QED  BY <1>13, <1>17
  <2> QED  BY <2>1, <2>2, EnumUnique
<1>19. DOMAIN e = 1 .. Len(e) /\ DOMAIN f = 1 .. Len(e) /\ \A k \in 1 .. Len(e) : e[k] \in K /\ f[k] = g[e[k]]
  BY <1>17, <1>18, EnumHas
<1>20. ASSUME NEW i \in K PROVE str_sanitize_strong(cooked[i]) = lineFrom(g[i])
  <2>1. PICK p, s, l, P : p = g[i] /\ s = StartOf(chars, i) /\ l = cooked[i] /\ P = M(i)
    OBVIOUS
  <2>2. IsLine(chars, s, i) /\ p \in meant /\ p \in s .. i /\ Spells(chars, l, P)
    BY <1>10, <2>1
  <2>3. P \in SUBSET (1 .. n) /\ \A q \in P : chars[q] \notin Newlines
    BY <1>5, <2>1
  <2>4. str_sanitize_strong(l) = l
    BY <1>3, <2>2, <2>3, SanitizeChangesNothing
  <2>5. P = {q \in meant : p <= q /\ SameLine(chars, p, q)}
    <3>1. \A q \in meant : q \in s .. i => p <= q
      BY <1>10, <2>1
    <3>2. \A q \in meant : p <= q => (SameLine(chars, p, q) <=> q \in s .. i)
      BY <2>2, SameLineIs
    <3>3. P = {q \in meant : q \in s .. i}
      BY <2>1
    <3> QED  BY <3>1, <3>2, <3>3
  <2>6. PICK r : r = rest(p)
    OBVIOUS
  <2>7. r = InOrder(P, n)
    BY <1>3, <2>5, <2>6
  <2>8. Enumerates(r, P)
    BY <1>4, <2>3, <2>7, InOrderEnumerates
  <2>9. l = [k \in 1 .. Len(r) |-> CharAt(chars, r[k])]
    <3>1. PICK d : Enumerates(d, P) /\ l = [k \in 1 .. Len(d) |-> CharAt(chars, d[k])]
      BY <2>2 DEF Spells
    <3>2. d = r
      BY <2>8, <3>1, EnumUnique
    <3> QED  BY <3>1, <3>2
  <2>10. DOMAIN r = 1 .. Len(r)
    BY <2>8, EnumHas
  <2>11. lineFrom(p) = [k \in 1 .. Len(r) |-> CharAt(chars, r[k])]
    <3>1. lineFrom(p) = [k \in DOMAIN r |-> char(r[k])]
      BY <2>6
    <3>2. \A q : char(q) = CharAt(chars, q)
      BY DEF CharAt
    <3> HIDE DEF lineFrom, char
    <3> QED  BY <2>10, <3>1, <3>2
  <2> QED  BY <2>1, <2>4, <2>9, <2>11
<1> HIDE DEF lineFrom
<1>21. \A k \in 1 .. Len(e) : str_sanitize_strong(cooked[e[k]]) = lineFrom(f[k])
  BY <1>19, <1>20
<1>22. Lines(chars) = [k \in 1 .. Len(e) |-> str_sanitize_strong(cooked[e[k]])]
  BY <1>1, <1>16, <1>19
<1>23. MeantLines(chars) = [k \in 1 .. Len(e) |-> lineFrom(f[k])]
  BY <1>2, <1>16, <1>19
<1> QED  BY <1>21, <1>22, <1>23

\* What is being executed is characters.
ReadCharacters == pc = "executing" => buf \in Seq(Characters)

\* Of every file of characters, however long, that does not end in a single
\* line end, the lines are what the file says (CConfigFile::ParseBuffer,
\* CConfigFile.cpp lines 287-341).
THEOREM ConfigLinesAsMeant == ConfigSpec => []LinesAsMeant
<1>1. ConfigInit => ReadCharacters
  BY DEF ConfigInit, ReadCharacters
<1>2. ReadCharacters /\ [ConfigNext]_vars => ReadCharacters'
  <2> SUFFICES ASSUME ReadCharacters, [ConfigNext]_vars PROVE ReadCharacters'
    OBVIOUS
  <2>1. CASE LoadBegin
    BY <2>1 DEF LoadBegin, ReadCharacters
  <2>2. CASE LoadFails
    BY <2>2 DEF LoadFails, ReadCharacters
  <2>3. CASE ReadFile
    BY <2>3, ConfigConstants DEF ReadFile, ReadCharacters
  <2>4. CASE ExecLine
    BY <2>4 DEF ExecLine, NewSection, OutsideSections, ServerLine, NotAServerLine, WhiteListLine,
                BlackListLine, RecordLine, EntryIn, LineIs, Executed, ReadCharacters
  <2>5. CASE LoadEnds
    BY <2>5 DEF LoadEnds, ReadCharacters
  <2>6. CASE UNCHANGED vars
    BY <2>6 DEF vars, ReadCharacters
  <2> QED
    BY <2>1, <2>2, <2>3, <2>4, <2>5, <2>6 DEF ConfigNext, LoadStep
<1>3. ReadCharacters => LinesAsMeant
  BY LinesAreMeant DEF ReadCharacters, LinesAsMeant
<1> QED
  BY <1>1, <1>2, <1>3, PTL DEF ConfigSpec

\* A started server, too, executes the lines that its file says.
THEOREM StartLinesAsMeant == StartSpec => []LinesAsMeant
  BY StartUsesConfig, ConfigLinesAsMeant, PTL

=============================================================================

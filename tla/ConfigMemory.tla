----------------------------- MODULE ConfigMemory -----------------------------
(***************************************************************************)
(* What CConfigFile.cpp allocates and releases: the object itself, what    *)
(* Load makes of a file, line by line, and what Clear gives back before    *)
(* the next Load. Which line is what is the subject of ConfigFile: here a  *)
(* line is the way ExecLine takes with it. The arrays of ArrayDeque and    *)
(* the nodes of the tree are not in the table of heap_dbg.c, and left out. *)
(***************************************************************************)
EXTENDS HeapDbg

LineKinds == {
    "blank",       \* nothing is left of it
    "other",       \* a command, or a line before any command
    "server",
    "noServer",    \* a server that DnsServerFromString cannot read
    "white", "black",
    "record",
    "duplicate",   \* a record whose name the tree contains
    "noRecord"}    \* a record without, or with a wrong, address

CONSTANT Files     \* what the file is when Load reads it, see FileType

\* opened: it is there, and not empty; whole: io_read gives as many bytes as
\* io_length said.
FileType == [opened : BOOLEAN, whole : BOOLEAN, lines : Seq(LineKinds)]

ASSUME FilesAssumption == Files \subseteq FileType

CConfigFile == <<DATATYPE_OBJECT, DATATYPE_ARRAY>>                     \* m_pFileName
CSecondaryServer == <<DATATYPE_OBJECT>>
CNameFilter == <<DATATYPE_OBJECT, DATATYPE_ARRAY>>                     \* m_pText
CLocalRecord == <<DATATYPE_OBJECT, DATATYPE_ARRAY, DATATYPE_ARRAY>>    \* m_pName, m_pIps

\* The four lists of a configuration. The array of the last one is the tree.
m_Servers == 1
m_WhiteList == 2
m_BlackList == 3
m_pLocalRecords == 4

NoLists == [list \in m_Servers .. m_pLocalRecords |-> NoList]

\* Faulty variant of Clear: the servers are thought to be somebody else's.
ClearButServers(memory, lists) ==
    FreeLists(memory, [lists EXCEPT ![m_Servers] = NoList])

Clear(memory, lists) == FreeLists(memory, lists)

\* r: [memory, lists]. A new object goes to the end of a list.
Added(r, list, shape) ==
    LET new == New(r.memory, shape) IN
    [memory |-> new.memory, lists |-> [r.lists EXCEPT ![list].items = Append(@, new.blocks)]]

\* An array that is needed for as long as something is looked at.
Looked(m) == LET array == New(m, <<DATATYPE_ARRAY>>) IN Delete(array.memory, array.blocks)

\* buf is released before the server is made. A line that is no server goes on
\* to the white list.
DnsServerFromString(r, reads) ==
    LET read == [r EXCEPT !.memory = Looked(@)]
    IN  IF reads THEN Added(read, m_Servers, CSecondaryServer)
                 ELSE Added(read, m_WhiteList, CNameFilter)

\* The copy of the name is there until the record is made, and ipArray too.
LocalRecordFromString(r, contained) ==
    LET name == New(r.memory, <<DATATYPE_ARRAY>>)
        ipArray == New(name.memory, <<DATATYPE_ARRAY>>)
        put == Added([r EXCEPT !.memory = ipArray.memory], m_pLocalRecords, CLocalRecord)
        left == [put EXCEPT !.memory = Delete(@, ipArray.blocks \o name.blocks)]
    IN  IF contained
        THEN [left EXCEPT !.memory = Delete(@, Last(put.lists[m_pLocalRecords].items)),
                          !.lists = r.lists]
        ELSE left

ExecLine(r, kind) ==
    CASE kind = "other" -> r
      [] kind \in {"server", "noServer"} -> DnsServerFromString(r, kind = "server")
      [] kind = "white" -> Added(r, m_WhiteList, CNameFilter)
      [] kind = "black" -> Added(r, m_BlackList, CNameFilter)
      [] kind \in {"record", "duplicate"} -> LocalRecordFromString(r, kind = "duplicate")
      [] kind = "noRecord" -> [r EXCEPT !.memory = Looked(@)]

\* The lines are copied, then copied at their right lengths; nothing is kept of
\* a blank one.
CutLine(r, kind) ==
    LET line == New(r.memory, <<DATATYPE_ARRAY>>)
        short == New(line.memory, <<DATATYPE_ARRAY>>)
    IN  IF kind = "blank" THEN [r EXCEPT !.memory = Delete(line.memory, line.blocks)]
        ELSE [memory |-> Delete(short.memory, line.blocks),
              lines |-> Append(r.lines, [kind |-> kind, blocks |-> short.blocks])]

CutLines(m, lines) ==
    LET cut[k \in 0 .. Len(lines)] ==
            IF k = 0 THEN [memory |-> m, lines |-> <<>>] ELSE CutLine(cut[k - 1], lines[k])
    IN  cut[Len(lines)]

\* The line is released when it has been executed.
ExecAndFree(r, line) ==
    LET done == ExecLine(r, line.kind)
    IN  [memory |-> Delete(done.memory, line.blocks), lists |-> done.lists]

ExecLines(r, lines) ==
    LET exec[k \in 0 .. Len(lines)] == IF k = 0 THEN r ELSE ExecAndFree(exec[k - 1], lines[k])
    IN  exec[Len(lines)]

\* The array of a list, made at the end, also for no items.
WithArray(r, list) ==
    LET new == New(r.memory, <<DATATYPE_ARRAY>>)
    IN  [memory |-> new.memory, lists |-> [r.lists EXCEPT ![list].array = new.blocks]]

ParseBuffer(m, lines) ==
    LET cut == CutLines(m, lines)
        tree == New(cut.memory, <<DATATYPE_OBJECT>>)
        start == [memory |-> tree.memory,
                  lists |-> [NoLists EXCEPT ![m_pLocalRecords].array = tree.blocks]]
    IN  WithArray(WithArray(WithArray(ExecLines(start, cut.lines), m_Servers), m_WhiteList),
                  m_BlackList)

\* The buffer of a file that ends early is not released.
Load(m, lists, file) ==
    LET cleared == Clear(m, lists)
        buf == New(cleared, <<DATATYPE_ARRAY>>)
        parsed == ParseBuffer(buf.memory, file.lines)
    IN  IF ~file.opened THEN [memory |-> cleared, lists |-> NoLists, leaked |-> <<>>]
        ELSE IF ~file.whole THEN [memory |-> buf.memory, lists |-> NoLists, leaked |-> buf.blocks]
        ELSE [memory |-> Delete(parsed.memory, buf.blocks), lists |-> parsed.lists, leaked |-> <<>>]

=============================================================================

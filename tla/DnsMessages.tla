----------------------------- MODULE DnsMessages -----------------------------
(***************************************************************************)
(* The messages of i04Dns/src/server/dns: how CMessage, CQuery and         *)
(* CResourceRecord are read from a datagram and written into one, with the *)
(* names compressed (DecodeSN and EncodeSN of protocol.h), and what is     *)
(* done to them in between.                                                *)
(*                                                                         *)
(* A datagram is a sequence of bytes, the byte at offset o being element   *)
(* o + 1. A name is the sequence of its labels, a label the sequence of    *)
(* its characters; the root has no label. Data of a CNAME record is in the *)
(* field cname, that of the others in m_pData.                             *)
(***************************************************************************)
EXTENDS Integers, Sequences, SequencesExt, FiniteSetsExt

CONSTANTS
    INT_BITS,        \* the width of an int, in which time is counted
    MAX_CACHE_TTL,
    isBlackListed    \* the names that the configuration blocks

RECORD_TYPE_IPv4 == 1
RECORD_TYPE_CNAME == 5
HeaderSize == 12
MaxNameLen == 256

\* A signed int of INT_BITS bits: what is too large for it wraps around.
Int32(x) == ((x + 2 ^ (INT_BITS - 1)) % (2 ^ INT_BITS)) - 2 ^ (INT_BITS - 1)

-----------------------------------------------------------------------------
(* Time to live. The time and the moment a record expires are ints.        *)

ExpirationTime(ttl, now) == Int32(Int32(now) + Int32(ttl))

\* Faulty variant of GetTimeToLive: compares the moments instead of their
\* difference.
GetTimeToLiveByMoment(record, now) ==
    IF record.m_expirationTime < Int32(now) THEN 0
    ELSE record.m_expirationTime - Int32(now)

GetTimeToLive(record, now) ==
    LET t == Int32(record.m_expirationTime - Int32(now)) IN IF t < 0 THEN 0 ELSE t

SetTimeToLive(record, ttl, now) == [record EXCEPT !.m_expirationTime = ExpirationTime(ttl, now)]

isExpired(record, now) == GetTimeToLive(record, now) = 0

-----------------------------------------------------------------------------
(* The streams                                                             *)

WriteWord(w) == <<w \div 256, w % 256>>
WriteDWord(d) == WriteWord(d \div 2 ^ 16) \o WriteWord(d % 2 ^ 16)
ReadWord(buf, p) == buf[p + 1] * 256 + buf[p + 2]
ReadDWord(buf, p) == ReadWord(buf, p) * 2 ^ 16 + ReadWord(buf, p + 2)

\* Faulty variant of Holds: counts one byte too many as left.
HoldsOneMore(size, pos) == pos <= size + 1

\* SizeLeft, before reading up to pos.
Holds(size, pos) == pos <= size

\* Skip does nothing when that would leave the datagram, or reach its end, and
\* nobody looks at what it returns.
SkipTo(pos, target, size) == IF target < size THEN target ELSE pos

-----------------------------------------------------------------------------
(* DecodeSN                                                                *)

CHAR_LOWERCASE(c) == IF c \in 65 .. 90 THEN c + 32 ELSE c

NoName == [ok |-> FALSE, name |-> <<>>, end |-> 0]

\* The name whose rest begins at index, when len characters have been read.
\* endIndex stays behind the first pointer.
RECURSIVE DecodeLabels(_, _, _, _)
DecodeLabels(src, index, srcLen, len) ==
    IF index > srcLen THEN NoName
    ELSE LET labelLen == src[index + 1] IN
         CASE labelLen = 0 -> [ok |-> TRUE, name |-> <<>>, end |-> index + 1]
           [] labelLen \in 64 .. 191 -> NoName
           [] labelLen >= 192 ->
                  [DecodeLabels(src, (labelLen % 64) * 256 + src[index + 2], srcLen, len)
                      EXCEPT !.end = index + 2]
           [] labelLen \in 1 .. 63 ->
                  IF index + 1 + labelLen >= srcLen \/ len + labelLen >= MaxNameLen THEN NoName
                  ELSE [DecodeLabels(src, index + 1 + labelLen, srcLen,
                                     len + labelLen + (IF len > 0 THEN 1 ELSE 0))
                           EXCEPT !.name = <<[k \in 1 .. labelLen |->
                                                CHAR_LOWERCASE(src[index + 1 + k])]>> \o @]

DecodeSN(src, srcOffset, srcLen) == DecodeLabels(src, srcOffset, srcLen, 0)

-----------------------------------------------------------------------------
(* EncodeSN. labelsOffsets says where a name, or the end of a name, was    *)
(* written.                                                                *)

\* Faulty variant of Get: finds no name.
GetNothing(labelsOffsets, name) == 0

Get(labelsOffsets, name) == IF name \in DOMAIN labelsOffsets THEN labelsOffsets[name] ELSE 0

\* Faulty variant of LabelOffset: where the label is in the name.
LabelInName(dOff, len) == HeaderSize + len

\* A label is noted where it is in the message.
LabelOffset(dOff, len) == dOff + len

\* Label after label, until what is left is known and a pointer can stand for
\* it. An empty name counts as an empty label followed by the end: two bytes.
EncodeSN(dOff, name, labelsOffsets) ==
    LET suffix(k) == SubSeq(name, k, Len(name))
        label(k) == IF name = <<>> THEN <<>> ELSE name[k]
        rounds == 1 .. Max({1, Len(name)})
        known == {k \in rounds : Get(labelsOffsets, suffix(k)) \in 1 .. dOff - 1}
        written == IF known = {} THEN rounds ELSE 1 .. Min(known) - 1
        bytes(K) == FlattenSeq([k \in K |-> <<Len(label(k))>> \o label(k)])
        pointer == Get(labelsOffsets, suffix(Min(known)))
    IN  [bytes |-> bytes(written) \o
                   (IF known = {} THEN <<0>> ELSE <<192 + pointer \div 256, pointer % 256>>),
         labelsOffsets |-> [s \in {suffix(k) : k \in written} |->
                               LabelOffset(dOff, Len(bytes(1 .. Len(name) - Len(s))))] @@ labelsOffsets]

-----------------------------------------------------------------------------
(* CMessage::Decode. Reading goes on from pos; once something is missing   *)
(* nothing more is read.                                                   *)

Failed == [ok |-> FALSE, pos |-> 0, items |-> <<>>]

\* CQuery::DecodeQueries, one query.
DecodeQuery(in, buf, size) ==
    LET n == DecodeSN(buf, in.pos, size)
        p == SkipTo(in.pos, n.end, size)
    IN  IF ~n.ok \/ ~Holds(size, p + 4) THEN Failed
        ELSE [ok |-> TRUE, pos |-> p + 4,
              items |-> Append(in.items, [m_pName |-> n.name,
                                          m_RecordType |-> ReadWord(buf, p),
                                          m_RecordClass |-> ReadWord(buf, p + 2)])]

Record(name, type, class, ttl, now, data, cname) ==
    [m_pName |-> name, m_RecordType |-> type, m_RecordClass |-> class,
     m_expirationTime |-> ExpirationTime(ttl, now), m_pData |-> data, cname |-> cname]

\* CResourceRecord::DecodeRecords, one record.
DecodeRecord(in, buf, size, now) ==
    LET n == DecodeSN(buf, in.pos, size)
        p == SkipTo(in.pos, n.end, size)
        type == ReadWord(buf, p)
        dataSize == ReadWord(buf, p + 8)
        data == p + 10
        c == DecodeSN(buf, data, size)
        item(d, cname) ==
            Record(n.name, type, ReadWord(buf, p + 2), ReadDWord(buf, p + 4), now, d, cname)
    IN  IF ~n.ok \/ ~Holds(size, data) THEN Failed
        ELSE IF type = RECORD_TYPE_CNAME
        THEN IF ~c.ok \/ dataSize # c.end - data THEN Failed
             ELSE [ok |-> TRUE, pos |-> SkipTo(data, data + dataSize, size),
                   items |-> Append(in.items, item(<<>>, c.name))]
        ELSE IF ~Holds(size, data + dataSize) THEN Failed
             ELSE [ok |-> TRUE, pos |-> data + dataSize,
                   items |-> Append(in.items, item(SubSeq(buf, data + 1, data + dataSize), <<>>))]

DecodeQueries(pos, buf, size, count) ==
    FoldLeft(LAMBDA in, i : IF in.ok THEN DecodeQuery(in, buf, size) ELSE in,
             [ok |-> TRUE, pos |-> pos, items |-> <<>>], [i \in 1 .. count |-> i])

DecodeRecords(in, buf, size, count, now) ==
    FoldLeft(LAMBDA r, i : IF r.ok THEN DecodeRecord(r, buf, size, now) ELSE r,
             [in EXCEPT !.items = <<>>], [i \in 1 .. count |-> i])

\* buf is the buffer of run, of which the datagram is the first size bytes.
Decode(buf, size, now) ==
    LET queries == DecodeQueries(HeaderSize, buf, size, ReadWord(buf, 4))
        answers == DecodeRecords(queries, buf, size, ReadWord(buf, 6), now)
        authority == DecodeRecords(answers, buf, size, ReadWord(buf, 8), now)
        additional == DecodeRecords(authority, buf, size, ReadWord(buf, 10), now)
    IN  [ok |-> Holds(size, HeaderSize) /\ additional.ok,
         m_Id |-> ReadWord(buf, 0), m_Flags |-> ReadWord(buf, 2),
         m_Queries |-> queries.items, m_AnswerRecords |-> answers.items,
         m_AuthorityRecords |-> authority.items, m_AdditionalRecords |-> additional.items]

-----------------------------------------------------------------------------
(* CMessage::Encode                                                        *)

EncodeQuery(out, query) ==
    LET n == EncodeSN(Len(out.bytes), query.m_pName, out.labelsOffsets)
    IN  [bytes |-> out.bytes \o n.bytes \o WriteWord(query.m_RecordType)
                   \o WriteWord(query.m_RecordClass),
         labelsOffsets |-> n.labelsOffsets]

\* The size of the data of a CNAME is known, and written, after the data.
EncodeRecord(out, record, now) ==
    LET n == EncodeSN(Len(out.bytes), record.m_pName, out.labelsOffsets)
        fixed == out.bytes \o n.bytes \o WriteWord(record.m_RecordType)
                 \o WriteWord(record.m_RecordClass) \o WriteDWord(GetTimeToLive(record, now))
        c == EncodeSN(Len(fixed) + 2, record.cname, n.labelsOffsets)
    IN  IF record.m_RecordType = RECORD_TYPE_CNAME
        THEN [bytes |-> fixed \o WriteWord(Len(c.bytes)) \o c.bytes,
              labelsOffsets |-> c.labelsOffsets]
        ELSE [bytes |-> fixed \o WriteWord(Len(record.m_pData)) \o record.m_pData,
              labelsOffsets |-> n.labelsOffsets]

Encode(msg, now) ==
    LET records == msg.m_AnswerRecords \o msg.m_AuthorityRecords \o msg.m_AdditionalRecords
        header == WriteWord(msg.m_Id) \o WriteWord(msg.m_Flags)
                  \o WriteWord(Len(msg.m_Queries)) \o WriteWord(Len(msg.m_AnswerRecords))
                  \o WriteWord(Len(msg.m_AuthorityRecords))
                  \o WriteWord(Len(msg.m_AdditionalRecords))
        queries == FoldLeft(EncodeQuery, [bytes |-> header, labelsOffsets |-> <<>>],
                            msg.m_Queries)
    IN  FoldLeft(LAMBDA out, r : EncodeRecord(out, r, now), queries, records).bytes

-----------------------------------------------------------------------------
(* CMessage::SanitizeRecords. The last record takes the place of one that  *)
(* is not wanted, and is looked at next.                                   *)

isRecordTypeSupported(type) == type \in {RECORD_TYPE_IPv4, RECORD_TYPE_CNAME}

recordFilter(record) ==
    isRecordTypeSupported(record.m_RecordType) /\ record.m_pName \notin isBlackListed

\* Faulty variant of AfterMove: the record that was moved is not looked at.
AfterMoveNext(i) == i + 1

AfterMove(i) == i

RECURSIVE SanitizeFrom(_, _)
SanitizeFrom(records, i) ==
    IF i > Len(records) THEN records
    ELSE IF recordFilter(records[i]) THEN SanitizeFrom(records, i + 1)
    ELSE SanitizeFrom(Front([records EXCEPT ![i] = Last(records)]), AfterMove(i))

SanitizeRecords(msg) ==
    [msg EXCEPT !.m_AnswerRecords = SanitizeFrom(@, 1),
                !.m_AuthorityRecords = SanitizeFrom(@, 1),
                !.m_AdditionalRecords = SanitizeFrom(@, 1)]

=============================================================================

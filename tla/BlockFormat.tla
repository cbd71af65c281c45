---------------------------- MODULE BlockFormat ----------------------------
(***************************************************************************)
(* The columns of a memtable (internal/block/memtable.go) and the block    *)
(* file made of them (internal/block/format.go).  A file is a sequence of  *)
(* sections, each with its length in bytes, so offsets and sizes are the   *)
(* code's.  Reading a byte range gives the section that lies exactly       *)
(* there; of any other range the model says that it does not decode, which *)
(* the magic numbers, the header checksum and zstd make sure of.  The body *)
(* checksum is left out: nothing reads it.                                 *)
(***************************************************************************)
EXTENDS Integers, Sequences, Functions

CONSTANT ZstdLen(_)     \* external: bytes of zstd's output for n bytes of input

HeaderSize == 64

FooterSize == 56

Byte == 0..255

Event == [keyHash : Nat, timestamp : Int, payload : Seq(Byte)]
-----------------------------------------------------------------------------
(* Memtable: three columns, in the order of Append. *)

Memtable(rows) ==
    [keyHashes |-> [i \in DOMAIN rows |-> rows[i].keyHash],
     timestamps |-> [i \in DOMAIN rows |-> rows[i].timestamp],
     payloads |-> [i \in DOMAIN rows |-> rows[i].payload]]

Less(mt, i, j) ==
    \/ mt.keyHashes[i] < mt.keyHashes[j]
    \/ mt.keyHashes[i] = mt.keyHashes[j] /\ mt.timestamps[i] < mt.timestamps[j]

\* What sort.Slice may return: it is not stable, so equal rows come in any order.
SortedIdx(mt) ==
    {idx \in Bijection(DOMAIN mt.keyHashes, DOMAIN mt.keyHashes) :
        \A a, b \in DOMAIN idx : a < b => ~Less(mt, idx[b], idx[a])}

Permuted(mt, idx) ==
    [column \in DOMAIN mt |-> [i \in DOMAIN idx |-> mt[column][idx[i]]]]

Sort(mt) == {Permuted(mt, idx) : idx \in SortedIdx(mt)}
-----------------------------------------------------------------------------
(* Sections.  A column of integers has eight bytes per value; a column of  *)
(* payloads is a byte string, each payload after its length.               *)

Section(kind, len, data) == [kind |-> kind, len |-> len, data |-> data]

CompressColumn(vals) == Section("integers", ZstdLen(8 * Len(vals)), vals)

\* A set with the integers of the section, or none if it is not such a column.
DecompressColumn(section) == IF section.kind = "integers" THEN {section.data} ELSE {}

\* binary.BigEndian.PutUint32
BigEndian32(n) ==
    LET high == (n \div 256) \div 256
    IN  <<(high \div 256) % 256, high % 256, (n \div 256) % 256, n % 256>>

Uint32At(raw, i) ==
    ((raw[i + 1] * 256 + raw[i + 2]) * 256 + raw[i + 3]) * 256 + raw[i + 4]

CompressBytesColumn(payloads) ==
    LET written[n \in 0..Len(payloads)] ==
            IF n = 0 THEN <<>>
            ELSE written[n - 1] \o (BigEndian32(Len(payloads[n])) \o payloads[n])
        raw == written[Len(payloads)]
    IN  Section("bytes", ZstdLen(Len(raw)), raw)

\* A set with the payloads, or none for a truncated length or payload.
DecompressBytesColumn(raw) ==
    LET out[i \in 0..Len(raw)] ==
            IF i = Len(raw) THEN {<<>>}
            ELSE IF i + 4 > Len(raw) \/ i + 4 + Uint32At(raw, i) > Len(raw) THEN {}
            ELSE LET end == i + 4 + Uint32At(raw, i)
                 IN  {<<SubSeq(raw, i + 5, end)>> \o rest : rest \in out[end]}
    IN  out[0]
-----------------------------------------------------------------------------
(* The file *)

\* Where section n starts.
Start(file, n) ==
    LET sum[i \in 1..n] == IF i = 1 THEN 0 ELSE sum[i - 1] + file[i - 1].len IN sum[n]

FileSize(file) == Start(file, Len(file) + 1)

Columns(mt) ==
    <<CompressColumn(mt.keyHashes), CompressColumn(mt.timestamps), CompressBytesColumn(mt.payloads)>>

\* Of the header only the number of rows is kept.
EncodeHeader(rowCount) == Section("BBDB", HeaderSize, rowCount)

\* What WriteBlockBody returns.
BlockFooter(mt) ==
    LET col == Columns(mt)
        off1 == HeaderSize + col[1].len
    IN  [offsets |-> <<HeaderSize, off1, off1 + col[2].len>>,
         sizes |-> [i \in 1..3 |-> col[i].len]]

EncodeFooter(footer) == Section("TBBD", FooterSize, footer)

\* What Seal writes: the header and the columns with WriteBlockBody, then the footer.
BlockImage(mt) ==
    LET col == Columns(mt)
    IN  <<EncodeHeader(Len(mt.keyHashes)), col[1], col[2], col[3], EncodeFooter(BlockFooter(mt))>>

\* The sections at bytes off .. off + len - 1: one, or none that decodes.
ReadAt(file, off, len) ==
    {file[i] : i \in {j \in DOMAIN file : file[j].len = len /\ Start(file, j) = off}}

DecodeFooter(file) ==
    {s.data : s \in {t \in ReadAt(file, FileSize(file) - FooterSize, FooterSize) : t.kind = "TBBD"}}

DecodeHeader(file) ==
    {s.data : s \in {t \in ReadAt(file, 0, HeaderSize) : t.kind = "BBDB"}}

\* Column n as the footer locates it.
ReadColumn(file, footer, n) == ReadAt(file, footer.offsets[n], footer.sizes[n])

\* The first two columns: a set with one record, or with none when a check fails.
ReadFilterColumns(file, footer) ==
    {[keyHashes |-> k, timestamps |-> t] :
        k \in UNION {DecompressColumn(s) : s \in ReadColumn(file, footer, 1)},
        t \in UNION {DecompressColumn(s) : s \in ReadColumn(file, footer, 2)}}

\* The payloads, likewise.
ReadPayloads(file, footer) ==
    UNION {DecompressBytesColumn(s.data) :
              s \in {t \in ReadColumn(file, footer, 3) : t.kind = "bytes"}}
=============================================================================

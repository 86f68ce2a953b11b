------------------------------ MODULE IndexFile ------------------------------
(***************************************************************************)
(* The byte arithmetic of an index file (src/src/mmap_index.cpp): where    *)
(* write() puts records, vectors and strings, what validate() checks, and  *)
(* which bytes the accessors read.  Offsets and sizes are std::uint64_t,   *)
(* whose operations wrap; the sizes of the structures are parameters.      *)
(***************************************************************************)
EXTENDS Integers, Sequences

CONSTANTS
    Word,        \* how many values a std::uint64_t has
    HalfWord,    \* how many values a std::uint32_t has
    HeaderBytes, \* sizeof(Header)
    RecordBytes, \* sizeof(Record)
    FloatBytes,  \* sizeof(float), and its alignment
    Alignment    \* to which write() aligns the vectors

ASSUME FileAssumption ==
    /\ Word \in Nat /\ HalfWord \in Nat /\ 1 < HalfWord /\ HeaderBytes \in Nat /\ RecordBytes \in Nat
    /\ FloatBytes \in Nat /\ Alignment \in Nat
    /\ 0 < HeaderBytes /\ HeaderBytes < Word
    /\ 0 < RecordBytes /\ 0 < FloatBytes /\ 0 < Alignment
    /\ Alignment % FloatBytes = 0

Words == 0..(Word - 1)
HalfWords == 0..(HalfWord - 1)

Wrap(n) == n % Word
Narrow(n) == n % HalfWord

\* known: the magic, version, byte order, sizes, algorithm and flags are
\* those that this build writes.
Header == [known : BOOLEAN, item_count : Words, dimensions : Words,
           records_offset : Words, vectors_offset : Words,
           strings_offset : Words, file_size : Words]

Record == [source_offset : Words, source_size : Words, text_offset : Words,
           text_size : Words, byte_begin : Words, byte_end : Words,
           vector_index : Words, scale_bytes : HalfWords]

\* The bytes of a file as the reader interprets them: records[i] is what
\* stands where the i-th record is expected, and intact says that the payload
\* has the digest that the header names.
File == [size : Words, header : Header, records : [Words -> Record], intact : BOOLEAN]

\* The bytes from one offset on.
Bytes(from, count) == [from |-> from, count |-> count]

------------------------------------------------------------------------------
(* MmapIndex::write: the layout of a list of items.  Of a source and a text *)
(* only the sizes count; write() checks neither the range nor the scale.    *)

Item == [source : Nat, text : Nat, byte_begin : Words, byte_end : Words,
         scale_bytes : HalfWords]

AlignUp(value, alignment) == (Wrap(value + alignment - 1) \div alignment) * alignment

\* string_cursor before item i + 1, from the offset of the strings.
Cursor(items, start) ==
    LET at[i \in 0..Len(items)] ==
            IF i = 0 THEN start ELSE at[i - 1] + items[i].source + items[i].text
    IN  at

LayoutHeader(items, dimensions) ==
    LET vectors == AlignUp(HeaderBytes + Len(items) * RecordBytes, Alignment)
        strings == vectors + Len(items) * dimensions * FloatBytes
    IN  [known |-> TRUE, item_count |-> Len(items), dimensions |-> dimensions,
         records_offset |-> HeaderBytes, vectors_offset |-> Wrap(vectors),
         strings_offset |-> Wrap(strings),
         file_size |-> Wrap(Cursor(items, strings)[Len(items)])]

\* Mutant of ScaleBytes: an empty text gives 0.
ScaleOfText(item) ==
    IF item.scale_bytes # 0 THEN item.scale_bytes ELSE Narrow(item.text)

\* Without a scale of its own an item gets the size of its text, at least 1,
\* which is narrowed.
ScaleBytes(item) ==
    IF item.scale_bytes # 0 THEN item.scale_bytes
    ELSE IF item.text = 0 THEN 1 ELSE Narrow(item.text)

NoRecord == [source_offset |-> 0, source_size |-> 0, text_offset |-> 0, text_size |-> 0,
             byte_begin |-> 0, byte_end |-> 0, vector_index |-> 0, scale_bytes |-> 0]

\* What stands behind the last record is of no account.
LayoutRecord(items, strings, i) ==
    IF i < Len(items)
    THEN LET item == items[i + 1]
             at   == Cursor(items, strings)[i]
         IN  [source_offset |-> Wrap(at), source_size |-> item.source,
              text_offset |-> Wrap(at + item.source), text_size |-> item.text,
              byte_begin |-> item.byte_begin, byte_end |-> item.byte_end,
              vector_index |-> i, scale_bytes |-> ScaleBytes(item)]
    ELSE NoRecord

Written(items, dimensions) ==
    LET header == LayoutHeader(items, dimensions)
    IN  [size |-> header.file_size, header |-> header, intact |-> TRUE,
         records |-> [i \in Words |-> LayoutRecord(items, header.strings_offset, i)]]

\* The sizes add up to a std::uint64_t, Alignment standing for the padding.
Fits(items, dimensions) ==
    Cursor(items, HeaderBytes + Len(items) * RecordBytes + Alignment
                      + Len(items) * dimensions * FloatBytes)[Len(items)] <= Word

\* Where the stream stands when write() emits the vector, the source and the
\* text of item i: header, records, padding, all vectors, all strings.
Emitted(items, dimensions, i) ==
    LET padding == LayoutHeader(items, dimensions).vectors_offset
                       - (HeaderBytes + Len(items) * RecordBytes)
        vectors == HeaderBytes + Len(items) * RecordBytes + padding
        vector  == dimensions * FloatBytes
        source  == Cursor(items, vectors + Len(items) * vector)[i]
    IN  <<Bytes(vectors + i * vector, vector), Bytes(source, items[i + 1].source),
          Bytes(source + items[i + 1].source, items[i + 1].text)>>

------------------------------------------------------------------------------
(* MmapIndex::validate                                                      *)

RangeValid(offset, size, limit) == offset <= limit /\ size <= limit - offset

HeaderValid(h, mapped) ==
    /\ mapped >= HeaderBytes
    /\ h.known
    /\ h.file_size = mapped
    /\ h.dimensions # 0 /\ h.item_count # 0

RecordsEnd(h) == Wrap(h.records_offset + h.item_count * RecordBytes)
VectorsEnd(h) == Wrap(h.vectors_offset + h.item_count * h.dimensions * FloatBytes)

\* Mutant of RecordsFit: the size of the records is compared, not their number.
RecordsFitByProduct(h) ==
    /\ h.records_offset >= HeaderBytes /\ h.records_offset <= h.file_size
    /\ Wrap(h.item_count * RecordBytes) <= h.file_size - h.records_offset

\* The number of records is compared by a division, which cannot wrap.
RecordsFit(h) ==
    /\ h.records_offset >= HeaderBytes /\ h.records_offset <= h.file_size
    /\ h.item_count <= (h.file_size - h.records_offset) \div RecordBytes

VectorsFit(h) ==
    /\ h.vectors_offset >= RecordsEnd(h) /\ h.vectors_offset <= h.file_size
    /\ h.vectors_offset % FloatBytes = 0
    /\ h.dimensions <= ((h.file_size - h.vectors_offset) \div FloatBytes) \div h.item_count

StringsFit(h) == h.strings_offset >= VectorsEnd(h) /\ h.strings_offset <= h.file_size

SectionsValid(h) == RecordsFit(h) /\ VectorsFit(h) /\ StringsFit(h)

RecordValid(h, r) ==
    /\ RangeValid(r.source_offset, r.source_size, h.file_size)
    /\ RangeValid(r.text_offset, r.text_size, h.file_size)
    /\ r.source_offset >= h.strings_offset
    /\ r.text_offset >= Wrap(r.source_offset + r.source_size)
    /\ Wrap(r.text_offset + r.text_size) >= r.text_offset
    /\ r.vector_index < h.item_count
    /\ r.byte_begin <= r.byte_end /\ r.scale_bytes # 0

\* The checks before the first record is read.
HeadersValid(f, mapped) == HeaderValid(f.header, mapped) /\ SectionsValid(f.header)

Items(f) == 0..(f.header.item_count - 1)

Valid(f, mapped) ==
    /\ HeadersValid(f, mapped)
    /\ \A i \in Items(f) : RecordValid(f.header, f.records[i])
    /\ f.intact

------------------------------------------------------------------------------
(* What validate and the accessors read.                                   *)

RecordAt(h, i) == Bytes(Wrap(h.records_offset + i * RecordBytes), RecordBytes)

\* embedding(i), and the source and the text of chunk(i)
VectorOf(h, r) ==
    Bytes(Wrap(h.vectors_offset + r.vector_index * h.dimensions * FloatBytes),
          h.dimensions * FloatBytes)
SourceOf(r) == Bytes(r.source_offset, r.source_size)
TextOf(r)   == Bytes(r.text_offset, r.text_size)

Accessed(f, i) == <<VectorOf(f.header, f.records[i]), SourceOf(f.records[i]),
                    TextOf(f.records[i])>>

Within(bytes, from, end) == from <= bytes.from /\ bytes.from + bytes.count <= end
=============================================================================

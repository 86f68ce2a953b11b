-------------------------- MODULE IndexHandleProofs --------------------------
(***************************************************************************)
(* Proofs about index files and handles: for every size of the word and of *)
(* the structures an accepted file is read inside its mapping, for every   *)
(* list of items what is written is read back, and for every number of     *)
(* handles nothing is leaked or closed twice.                              *)
(***************************************************************************)
EXTENDS IndexHandle, RecursionTheorems

------------------------------------------------------------------------------
(* Arithmetic.                                                             *)

LEMMA MulMono == ASSUME NEW x \in Nat, NEW y \in Nat, NEW z \in Nat, x <= y
                 PROVE  x * z <= y * z
  BY Z3

LEMMA DivBound == ASSUME NEW a \in Nat, NEW b \in Nat \ {0}
                  PROVE  /\ a \div b \in Nat
                         /\ (a \div b) * b <= a
  BY Z3

\* What a check by division says about the product.
LEMMA DivCheck == ASSUME NEW a \in Nat, NEW b \in Nat \ {0}, NEW n \in Nat, n <= a \div b
                  PROVE  n * b <= a
  <1>1. a \div b \in Nat /\ (a \div b) * b <= a  BY DivBound
  <1>2. n * b <= (a \div b) * b  BY <1>1, MulMono
  <1>3. n * b \in Nat /\ (a \div b) * b \in Nat  BY <1>1
  <1> QED  BY <1>1, <1>2, <1>3

LEMMA MulAssoc == ASSUME NEW x \in Nat, NEW y \in Nat, NEW z \in Nat
                  PROVE  /\ (x * y) * z = x * (y * z)
                         /\ x * y = y * x /\ x * y \in Nat
                         /\ (x + y) * z = x * z + y * z
  BY Z3

LEMMA MultipleMod == ASSUME NEW k \in Nat, NEW b \in Nat \ {0} PROVE (k * b) % b = 0
  BY Z3

LEMMA ModMultiple == ASSUME NEW a \in Nat, NEW k \in Nat, NEW b \in Nat \ {0}, a % b = 0
                     PROVE  (a + k * b) % b = 0
  <1> DEFINE q == a \div b
  <1>1. q \in Nat /\ a = q * b  BY Z3
  <1>2. (q + k) * b = q * b + k * b  BY <1>1, MulAssoc
  <1> HIDE DEF q
  <1>3. ((q + k) * b) % b = 0
    <2>1. q + k \in Nat  BY <1>1
    <2> QED  BY <2>1, MultipleMod
  <1> QED  BY <1>1, <1>2, <1>3

LEMMA WrapSmall == ASSUME NEW n \in Nat, n < Word PROVE Wrap(n) = n
  BY FileAssumption DEF Wrap

------------------------------------------------------------------------------
(* The sections of a file whose header is accepted.                        *)

LEMMA HeaderTypes == ASSUME NEW h \in Header
                     PROVE  /\ Word \in Nat /\ HeaderBytes \in Nat
                            /\ RecordBytes \in Nat \ {0} /\ FloatBytes \in Nat \ {0}
                            /\ h.item_count \in Nat /\ h.dimensions \in Nat
                            /\ h.records_offset \in Nat /\ h.vectors_offset \in Nat
                            /\ h.strings_offset \in Nat /\ h.file_size \in Nat
                            /\ h.file_size < Word
  BY FileAssumption DEF Header, Words

\* The records end where the header lets them end, and no sum wraps.
LEMMA RecordsInside ==
  ASSUME NEW h \in Header, RecordsFit(h)
  PROVE  /\ RecordsEnd(h) = h.records_offset + h.item_count * RecordBytes
         /\ RecordsEnd(h) <= h.file_size /\ RecordsEnd(h) \in Nat
         /\ \A i \in 0..(h.item_count - 1) :
              /\ RecordAt(h, i) = Bytes(h.records_offset + i * RecordBytes, RecordBytes)
              /\ Within(RecordAt(h, i), HeaderBytes, RecordsEnd(h))
  <1> DEFINE n == h.item_count
             start == h.records_offset
  <1>1. n \in Nat /\ start \in Nat /\ h.file_size \in Nat /\ h.file_size < Word
        /\ RecordBytes \in Nat \ {0} /\ HeaderBytes \in Nat /\ Word \in Nat
    BY HeaderTypes
  <1>2. HeaderBytes <= start /\ start <= h.file_size
        /\ n <= (h.file_size - start) \div RecordBytes
    BY DEF RecordsFit
  <1>3. n * RecordBytes <= h.file_size - start /\ n * RecordBytes \in Nat
    <2>1. h.file_size - start \in Nat  BY <1>1, <1>2
    <2> QED  BY <2>1, <1>1, <1>2, DivCheck, MulAssoc
  <1>4. RecordsEnd(h) = start + n * RecordBytes
    <2>1. start + n * RecordBytes \in Nat /\ start + n * RecordBytes < Word  BY <1>1, <1>3
    <2> QED  BY <2>1, WrapSmall DEF RecordsEnd
  <1>5. ASSUME NEW i \in 0..(n - 1)
        PROVE  /\ RecordAt(h, i) = Bytes(start + i * RecordBytes, RecordBytes)
               /\ Within(RecordAt(h, i), HeaderBytes, RecordsEnd(h))
    <2>1. i \in Nat /\ i + 1 \in Nat /\ i + 1 <= n  BY <1>1
    <2>2. (i + 1) * RecordBytes <= n * RecordBytes  BY <2>1, <1>1, MulMono
    <2>3. (i + 1) * RecordBytes = i * RecordBytes + RecordBytes /\ i * RecordBytes \in Nat
      <3>1. (i + 1) * RecordBytes = i * RecordBytes + 1 * RecordBytes  BY <2>1, <1>1, MulAssoc
      <3>2. i * RecordBytes \in Nat  BY <2>1, <1>1, MulAssoc
      <3> QED  BY <3>1, <3>2, <1>1
    <2> HIDE DEF n
    <2>4. start + i * RecordBytes \in Nat /\ start + i * RecordBytes < Word
      BY <1>1, <1>3, <2>2, <2>3
    <2>5. RecordAt(h, i) = Bytes(start + i * RecordBytes, RecordBytes)
      BY <2>4, WrapSmall DEF RecordAt
    <2> QED  BY <2>5, <1>1, <1>2, <1>3, <1>4, <2>2, <2>3 DEF Within, Bytes
  <1> QED  BY <1>1, <1>3, <1>4, <1>5

\* The vectors end where the header lets them end, and no product wraps.
LEMMA VectorsInside ==
  ASSUME NEW h \in Header, h.item_count # 0, VectorsFit(h),
         NEW r \in Record, r.vector_index < h.item_count
  PROVE  /\ VectorsEnd(h) = h.vectors_offset + h.item_count * h.dimensions * FloatBytes
         /\ VectorsEnd(h) \in Nat /\ VectorsEnd(h) <= h.file_size
         /\ Within(VectorOf(h, r), h.vectors_offset, VectorsEnd(h))
         /\ VectorOf(h, r).from % FloatBytes = 0
  <1> DEFINE n == h.item_count
             d == h.dimensions
             v == r.vector_index
             start == h.vectors_offset
             limit == h.file_size - start
  <1>1. n \in Nat \ {0} /\ d \in Nat /\ v \in Nat /\ start \in Nat /\ h.file_size \in Nat
        /\ h.file_size < Word /\ FloatBytes \in Nat \ {0} /\ Word \in Nat
    BY HeaderTypes DEF Record, Words
  <1>2. start <= h.file_size /\ start % FloatBytes = 0
        /\ d <= (limit \div FloatBytes) \div n
    BY DEF VectorsFit
  <1>3. limit \in Nat  BY <1>1, <1>2
  <1> HIDE DEF n, d, v, start, limit
  <1>4. n * d * FloatBytes <= limit /\ n * d * FloatBytes \in Nat
    <2>1. limit \div FloatBytes \in Nat  BY <1>1, <1>3, DivBound
    <2>2. d * n <= limit \div FloatBytes  BY <2>1, <1>1, <1>2, DivCheck
    <2>3. d * n \in Nat /\ d * n = n * d  BY <1>1, MulAssoc
    <2>4. (d * n) * FloatBytes <= limit  BY <2>2, <2>3, <1>1, <1>3, DivCheck
    <2> QED  BY <2>3, <2>4, <1>1, MulAssoc
  <1>5. VectorsEnd(h) = start + n * d * FloatBytes
    <2>1. start + n * d * FloatBytes \in Nat /\ start + n * d * FloatBytes < Word
      BY <1>1, <1>2, <1>3, <1>4 DEF limit
    <2> QED  BY <2>1, WrapSmall DEF VectorsEnd, n, d, start
  <1>6. v * d * FloatBytes + d * FloatBytes <= n * d * FloatBytes
        /\ v * d * FloatBytes \in Nat /\ d * FloatBytes \in Nat
    <2>1. v + 1 \in Nat /\ v + 1 <= n  BY <1>1 DEF v, n
    <2>2. d * FloatBytes \in Nat  BY <1>1, MulAssoc
    <2>3. (v + 1) * (d * FloatBytes) <= n * (d * FloatBytes)  BY <2>1, <2>2, <1>1, MulMono
    <2>4. (v + 1) * (d * FloatBytes) = v * (d * FloatBytes) + 1 * (d * FloatBytes)
      BY <2>2, <1>1, MulAssoc
    <2>5. v * (d * FloatBytes) = v * d * FloatBytes /\ n * (d * FloatBytes) = n * d * FloatBytes
      BY <1>1, MulAssoc
    <2>6. v * (d * FloatBytes) \in Nat  BY <2>2, <1>1, MulAssoc
    <2> QED  BY <2>2, <2>3, <2>4, <2>5, <2>6
  <1>7. VectorOf(h, r) = Bytes(start + v * d * FloatBytes, d * FloatBytes)
    <2>1. start + v * d * FloatBytes \in Nat /\ start + v * d * FloatBytes < Word
      BY <1>1, <1>2, <1>3, <1>4, <1>6 DEF limit
    <2> QED  BY <2>1, WrapSmall DEF VectorOf, v, d, start
  <1>8. (start + v * d * FloatBytes) % FloatBytes = 0
    <2>1. v * d \in Nat  BY <1>1, MulAssoc
    <2> QED  BY <2>1, <1>1, <1>2, ModMultiple
  <1>9. VectorsEnd(h) \in Nat /\ VectorsEnd(h) <= h.file_size
    BY <1>1, <1>2, <1>4, <1>5 DEF limit
  <1>10. Within(VectorOf(h, r), start, VectorsEnd(h))
    BY <1>1, <1>4, <1>5, <1>6, <1>7 DEF Within, Bytes
  <1> QED  BY <1>5, <1>7, <1>8, <1>9, <1>10 DEF Bytes, n, d, start

\* Nothing that is read of an accepted file is outside its section.
LEMMA AcceptedIsInside ==
  ASSUME NEW f \in File, NEW size, Valid(f, size), NEW i \in Items(f)
  PROVE  RecordIsInside(f, size, i)
  <1> DEFINE h == f.header
             r == f.records[i]
  <1>1. h \in Header  BY DEF File
  <1>2. h.item_count # 0 /\ h.file_size = size /\ RecordsFit(h) /\ VectorsFit(h)
        /\ StringsFit(h) /\ RecordValid(h, r)
    BY DEF Valid, HeadersValid, HeaderValid, SectionsValid
  <1>3. i \in 0..(h.item_count - 1)  BY DEF Items
  <1>4. r \in Record
    <2>1. i \in Words  BY <1>1, <1>3, HeaderTypes DEF Words, Header
    <2> QED  BY <2>1 DEF File
  <1> HIDE DEF h, r
  <1>5. h.vectors_offset \in Nat /\ h.strings_offset \in Nat /\ h.file_size \in Nat
        /\ h.file_size < Word /\ Word \in Nat /\ HeaderBytes \in Nat
    BY <1>1, HeaderTypes
  <1>6. r.source_offset \in Nat /\ r.source_size \in Nat /\ r.text_offset \in Nat
        /\ r.text_size \in Nat
    BY <1>4, FileAssumption DEF Record, Words
  <1>7. Within(RecordAt(h, i), HeaderBytes, h.vectors_offset)
    <2>1. RecordsEnd(h) <= h.vectors_offset  BY <1>2 DEF VectorsFit
    <2>2. RecordAt(h, i) = Bytes(h.records_offset + i * RecordBytes, RecordBytes)
          /\ Within(RecordAt(h, i), HeaderBytes, RecordsEnd(h)) /\ RecordsEnd(h) \in Nat
      BY <1>1, <1>2, <1>3, RecordsInside
    <2>3. h.records_offset + i * RecordBytes + RecordBytes \in Nat
      <3>1. h.records_offset \in Nat /\ RecordBytes \in Nat /\ i \in Nat
        BY <1>1, <1>3, HeaderTypes
      <3> QED  BY <3>1, MulAssoc
    <2> QED  BY <2>1, <2>2, <2>3, <1>5 DEF Within, Bytes
  <1>8. Within(VectorOf(h, r), h.vectors_offset, h.strings_offset)
        /\ VectorOf(h, r).from % FloatBytes = 0
    <2>1. VectorsEnd(h) <= h.strings_offset  BY <1>2 DEF StringsFit
    <2>2. r.vector_index < h.item_count  BY <1>2 DEF RecordValid
    <2>3. Within(VectorOf(h, r), h.vectors_offset, VectorsEnd(h))
          /\ VectorOf(h, r).from % FloatBytes = 0 /\ VectorsEnd(h) \in Nat
      BY <2>2, <1>1, <1>2, <1>4, VectorsInside
    <2>4. VectorOf(h, r).from + VectorOf(h, r).count \in Nat
      <3>1. h.dimensions \in Nat /\ r.vector_index \in Nat /\ FloatBytes \in Nat
        BY <1>1, <1>4, HeaderTypes DEF Record, Words
      <3>2. h.dimensions * FloatBytes \in Nat
            /\ r.vector_index * h.dimensions * FloatBytes \in Nat
        BY <3>1, MulAssoc
      <3>3. Wrap(h.vectors_offset + r.vector_index * h.dimensions * FloatBytes) \in Nat
        BY <3>2, <1>5, FileAssumption DEF Wrap
      <3> QED  BY <3>2, <3>3 DEF VectorOf, Bytes
    <2> QED  BY <2>1, <2>3, <2>4, <1>5 DEF Within
  <1>9. r.source_offset + r.source_size <= h.file_size
        /\ r.text_offset + r.text_size <= h.file_size
    BY <1>2, <1>5, <1>6 DEF RecordValid, RangeValid
  <1>10. Within(SourceOf(r), h.strings_offset, size)
    BY <1>2, <1>5, <1>6, <1>9 DEF RecordValid, SourceOf, Within, Bytes
  <1>11. Within(TextOf(r), r.source_offset + r.source_size, size)
    <2>1. Wrap(r.source_offset + r.source_size) = r.source_offset + r.source_size
      BY <1>5, <1>6, <1>9, WrapSmall
    <2> QED  BY <2>1, <1>2, <1>5, <1>6, <1>9 DEF RecordValid, TextOf, Within, Bytes
  <1> QED  BY <1>7, <1>8, <1>10, <1>11 DEF RecordIsInside, h, r
------------------------------------------------------------------------------
(* The sizes of the strings.                                               *)

LEMMA ItemSizes ==
  ASSUME NEW items \in Seq(Item)
  PROVE  /\ Len(items) \in Nat
         /\ \A i \in 1..Len(items) : items[i].source \in Nat /\ items[i].text \in Nat
  <1>1. ASSUME NEW i \in 1..Len(items) PROVE items[i] \in Item
    BY ElementOfSeq
  <1> QED  BY <1>1 DEF Item

\* string_cursor is a sum: it starts at the start and adds the sizes of one item
\* at a time, wherever it starts.
LEMMA CursorSteps ==
  ASSUME NEW items \in Seq(Item), NEW start \in Nat
  PROVE  /\ Cursor(items, start) \in [0..Len(items) -> Nat]
         /\ Cursor(items, start)[0] = start
         /\ \A i \in 1..Len(items) :
              Cursor(items, start)[i]
                  = Cursor(items, start)[i - 1] + items[i].source + items[i].text
  <1> DEFINE n == Len(items)
             step == [i \in 1..n |-> [v \in Nat |-> v + items[i].source + items[i].text]]
  <1>1. n \in Nat /\ \A i \in 1..n : items[i].source \in Nat /\ items[i].text \in Nat
    BY ItemSizes
  <1>2. step \in [1..n -> [Nat -> Nat]]
    <2>1. ASSUME NEW i \in 1..n, NEW v \in Nat
          PROVE  v + items[i].source + items[i].text \in Nat
      <3>1. items[i].source \in Nat /\ items[i].text \in Nat  BY <1>1
      <3>2. \A a, b, c \in Nat : a + b + c \in Nat  OBVIOUS
      <3> QED  BY <3>1, <3>2
    <2> HIDE DEF n
    <2> QED  BY <2>1
  <1>3. PICK f \in [0..n -> Nat] : Steps(f, start, step, n)
    <2> HIDE DEF step, n
    <2> QED  BY <1>1, <1>2, StepsExist
  <1>4. f[0] = start /\ \A i \in 1..n : f[i] = f[i - 1] + items[i].source + items[i].text
    <2>1. f[0] = start /\ \A i \in 1..n : f[i] = step[i][f[i - 1]]  BY <1>3 DEF Steps
    <2> HIDE DEF n
    <2>2. \A i \in 1..n : f[i - 1] \in Nat
      <3>1. \A i \in 1..n : i - 1 \in 0..n  BY <1>1
      <3> HIDE DEF step
      <3> QED  BY <3>1
    <2> QED  BY <2>1, <2>2
  <1> DEFINE at == CHOOSE g : g = [i \in 0..n |-> IF i = 0 THEN start
                                      ELSE g[i - 1] + items[i].source + items[i].text]
  <1>5. Cursor(items, start) = at  BY Zenon DEF Cursor
  <1>6. f = [i \in 0..n |-> IF i = 0 THEN start
                             ELSE f[i - 1] + items[i].source + items[i].text]
    <2>1. ASSUME NEW i \in 0..n
          PROVE  f[i] = IF i = 0 THEN start ELSE f[i - 1] + items[i].source + items[i].text
      BY <1>1, <1>4
    <2> QED  BY <2>1
  <1> HIDE DEF n, step
  <1>7. at = [i \in 0..n |-> IF i = 0 THEN start
                              ELSE at[i - 1] + items[i].source + items[i].text]
    BY <1>6
  <1> HIDE DEF at
  <1>8. at[0] = start /\ \A i \in 1..n : at[i] = at[i - 1] + items[i].source + items[i].text
    BY <1>1, <1>7
  <1>9. \A k \in 0..n : at[k] = f[k]
    <2> SUFFICES ASSUME NEW k \in 0..n PROVE at[k] = f[k]  OBVIOUS
    <2>1. k \in Nat /\ k <= n  BY <1>1
    <2>2. \A i \in 1..k : at[i - 1] = f[i - 1] => at[i] = f[i]
      <3> SUFFICES ASSUME NEW i \in 1..k, at[i - 1] = f[i - 1] PROVE at[i] = f[i]  OBVIOUS
      <3>1. i \in 1..n  BY <1>1, <2>1
      <3> QED  BY <1>4, <1>8, <3>1
    <2>3. at[0] = f[0]  BY <1>4, <1>8
    <2> QED  BY <2>1, <2>2, <2>3, StepsAgree
  <1>10. at \in [0..n -> Nat]  BY <1>7, <1>9
  <1> QED  BY <1>5, <1>8, <1>10 DEF n

LEMMA CursorShifts ==
  ASSUME NEW items \in Seq(Item), NEW start \in Nat,
         NEW k \in 0..Len(items)
  PROVE  Cursor(items, start)[k] = start + Cursor(items, 0)[k]
  <1> DEFINE f == Cursor(items, start)
             z == Cursor(items, 0)
             g == [i \in 0..Len(items) |-> start + z[i]]
  <1>1. k \in Nat /\ k <= Len(items) /\ Len(items) \in Nat  OBVIOUS
  <1>2. \A i \in 1..Len(items) : items[i].source \in Nat /\ items[i].text \in Nat
    BY ItemSizes
  <1>3. /\ f \in [0..Len(items) -> Nat] /\ f[0] = start
        /\ \A i \in 1..Len(items) : f[i] = f[i - 1] + items[i].source + items[i].text
    BY CursorSteps
  <1>4. /\ z \in [0..Len(items) -> Nat] /\ z[0] = 0
        /\ \A i \in 1..Len(items) : z[i] = z[i - 1] + items[i].source + items[i].text
    BY CursorSteps
  <1> HIDE DEF f, z
  <1>5. f[0] = g[0]  BY <1>1, <1>3, <1>4
  <1>6. \A i \in 1..k : f[i - 1] = g[i - 1] => f[i] = g[i]
    <2> SUFFICES ASSUME NEW i \in 1..k, f[i - 1] = g[i - 1] PROVE f[i] = g[i]  OBVIOUS
    <2>1. i \in 1..Len(items) /\ i \in 0..Len(items) /\ i - 1 \in 0..Len(items)  BY <1>1
    <2>2. f[i] = f[i - 1] + items[i].source + items[i].text
          /\ z[i] = z[i - 1] + items[i].source + items[i].text
      BY <1>3, <1>4, <2>1
    <2>3. g[i] = start + z[i] /\ g[i - 1] = start + z[i - 1]  BY <2>1
    <2>4. z[i - 1] \in Nat  BY <1>4, <2>1
    <2>5. items[i].source \in Nat /\ items[i].text \in Nat  BY <1>2, <2>1
    <2> HIDE DEF g
    <2>6. \A b, s, t \in Nat : (start + b) + s + t = start + (b + s + t)  OBVIOUS
    <2>7. f[i] = (start + z[i - 1]) + items[i].source + items[i].text  BY <2>2, <2>3
    <2>8. f[i] = start + (z[i - 1] + items[i].source + items[i].text)
      BY <2>4, <2>5, <2>6, <2>7
    <2>9. f[i] = start + z[i]  BY <2>2, <2>8
    <2> QED  BY <2>3, <2>9
  <1> HIDE DEF g
  <1>7. f[k] = g[k]  BY <1>1, <1>5, <1>6, StepsAgree
  <1> QED  BY <1>1, <1>7 DEF f, g, z

\* It never goes back.
LEMMA CursorGrows ==
  ASSUME NEW items \in Seq(Item), NEW k \in 0..Len(items)
  PROVE  Cursor(items, 0)[k] <= Cursor(items, 0)[Len(items)]
  <1> DEFINE z == Cursor(items, 0)
             n == Len(items)
  <1>1. /\ z \in [0..n -> Nat]
        /\ \A i \in 1..n : z[i] = z[i - 1] + items[i].source + items[i].text
    BY CursorSteps
  <1>2. n \in Nat /\ \A i \in 1..n : items[i].source \in Nat /\ items[i].text \in Nat
    BY ItemSizes
  <1> HIDE DEF z, n
  <1>3. ASSUME NEW i \in 1..n PROVE z[i - 1] <= z[i]
    <2>1. i - 1 \in 0..n /\ i \in 0..n  BY <1>2
    <2>2. z[i] = z[i - 1] + items[i].source + items[i].text  BY <1>1
    <2>3. z[i] \in Nat /\ z[i - 1] \in Nat  BY <1>1, <2>1
    <2>4. items[i].source \in Nat /\ items[i].text \in Nat  BY <1>2
    <2>5. \A a, b, s, t \in Nat : a = b + s + t => b <= a  OBVIOUS
    <2> QED  BY <2>2, <2>3, <2>4, <2>5
  <1>4. k \in 0..n /\ n \in 0..n /\ k <= n  BY <1>2 DEF n
  <1>5. z[k] <= z[n]  BY <1>1, <1>2, <1>3, <1>4, Grows
  <1> QED  BY <1>5 DEF z, n

------------------------------------------------------------------------------
(* The layout of a list of items that fits.                                *)

\* align_up returns the next multiple.
LEMMA AlignUpBounds ==
  ASSUME NEW v \in Nat, NEW a \in Nat \ {0}, v + a <= Word
  PROVE  /\ AlignUp(v, a) \in Nat
         /\ v <= AlignUp(v, a) /\ AlignUp(v, a) < v + a
         /\ \E q \in Nat : AlignUp(v, a) = q * a
  <1> DEFINE x == v + a - 1
             q == x \div a
  <1>1. x \in Nat /\ x < Word /\ Word \in Nat  BY FileAssumption
  <1>2. Wrap(x) = x  BY <1>1, WrapSmall
  <1>3. AlignUp(v, a) = q * a  BY <1>2 DEF AlignUp
  <1> HIDE DEF x
  <1>4. q \in Nat /\ q * a <= x /\ x < q * a + a /\ q * a \in Nat  BY <1>1, Z3
  <1> HIDE DEF q
  <1>5. v <= q * a /\ q * a < v + a  BY <1>4 DEF x
  <1> QED  BY <1>3, <1>4, <1>5

\* A multiple of Alignment is one of FloatBytes.
LEMMA AlignedToFloats ==
  ASSUME NEW q \in Nat PROVE (q * Alignment) % FloatBytes = 0
  <1>1. Alignment \in Nat /\ FloatBytes \in Nat \ {0} /\ Alignment % FloatBytes = 0
    BY FileAssumption
  <1>2. PICK k \in Nat : Alignment = k * FloatBytes
    <2>1. Alignment \div FloatBytes \in Nat
          /\ Alignment = (Alignment \div FloatBytes) * FloatBytes
      BY <1>1, Z3
    <2> QED  BY <2>1
  <1>3. q * Alignment = (q * k) * FloatBytes /\ q * k \in Nat  BY <1>1, <1>2, MulAssoc
  <1> QED  BY <1>1, <1>3, MultipleMod

\* What the header of such a list says: the vectors follow the records, the
\* strings the vectors, and no sum wraps.
LEMMA LayoutFits ==
  ASSUME NEW items \in Seq(Item), items # <<>>,
         NEW d \in Nat \ {0}, Fits(items, d)
  PROVE  LET n == Len(items)
             h == LayoutHeader(items, d)
             end == HeaderBytes + n * RecordBytes
         IN  /\ n \in Nat \ {0} /\ n * RecordBytes \in Nat
             /\ n * d \in Nat /\ n * d * FloatBytes \in Nat
             /\ h.known /\ h.item_count = n /\ h.dimensions = d
             /\ h.records_offset = HeaderBytes
             /\ h.vectors_offset \in Nat /\ end <= h.vectors_offset
             /\ h.vectors_offset % FloatBytes = 0
             /\ h.strings_offset = h.vectors_offset + n * d * FloatBytes
             /\ Cursor(items, 0)[n] \in Nat
             /\ h.file_size = h.strings_offset + Cursor(items, 0)[n]
             /\ h.file_size < Word
  <1> DEFINE n == Len(items)
             end == HeaderBytes + n * RecordBytes
             vectors == AlignUp(end, Alignment)
             block == n * d * FloatBytes
             total == Cursor(items, 0)[n]
  <1>1. /\ Word \in Nat /\ HeaderBytes \in Nat /\ RecordBytes \in Nat /\ FloatBytes \in Nat
        /\ Alignment \in Nat \ {0}
    BY FileAssumption
  <1>2. n \in Nat \ {0}  BY ItemSizes
  <1>3. n * RecordBytes \in Nat /\ n * d \in Nat /\ block \in Nat /\ end \in Nat
    <2>1. n \in Nat /\ d \in Nat  BY <1>2
    <2> HIDE DEF n
    <2>2. n * RecordBytes \in Nat /\ n * d \in Nat  BY <1>1, <2>1, MulAssoc
    <2>3. block \in Nat  BY <1>1, <2>2, MulAssoc
    <2> DEFINE table == n * RecordBytes
    <2>4. table \in Nat  BY <2>2
    <2> HIDE DEF table
    <2>5. HeaderBytes + table \in Nat  BY <1>1, <2>4
    <2> QED  BY <2>2, <2>3, <2>5 DEF table
  <1>4. n \in 0..Len(items) /\ 0 \in Nat  BY <1>2
  <1>5. total \in Nat  BY <1>4, CursorSteps
  <1>6. end + Alignment + block + total <= Word
    <2>1. Cursor(items, end + Alignment + block)[n] <= Word  BY DEF Fits
    <2> HIDE DEF end, block
    <2>2. end + Alignment + block \in Nat  BY <1>1, <1>3
    <2> QED  BY <2>1, <2>2, <1>4, CursorShifts
  <1>7. PICK q \in Nat : vectors = q * Alignment
    <2> HIDE DEF end, block, total
    <2>1. end + Alignment <= Word  BY <1>1, <1>3, <1>5, <1>6
    <2> QED  BY <2>1, <1>1, <1>3, AlignUpBounds
  <1>8. vectors \in Nat /\ end <= vectors /\ vectors < end + Alignment
    <2> HIDE DEF end, block, total
    <2>1. end + Alignment <= Word  BY <1>1, <1>3, <1>5, <1>6
    <2> QED  BY <2>1, <1>1, <1>3, AlignUpBounds
  <1>9. vectors % FloatBytes = 0  BY <1>7, AlignedToFloats
  <1>10. Cursor(items, vectors + block)[n] = vectors + block + total
    <2>1. vectors + block \in Nat  BY <1>3, <1>8
    <2> QED  BY <2>1, <1>4, CursorShifts
  <1> DEFINE h == LayoutHeader(items, d)
  <1>11. /\ h.known /\ h.item_count = n /\ h.dimensions = d /\ h.records_offset = HeaderBytes
         /\ h.vectors_offset = Wrap(vectors) /\ h.strings_offset = Wrap(vectors + block)
         /\ h.file_size = Wrap(Cursor(items, vectors + block)[n])
    BY DEF LayoutHeader
  <1> HIDE DEF n, end, vectors, block, total, h
  <1>12. vectors + block + total < Word  BY <1>1, <1>3, <1>5, <1>6, <1>8
  <1>13. Wrap(vectors) = vectors /\ Wrap(vectors + block) = vectors + block
         /\ Wrap(vectors + block + total) = vectors + block + total
    <2>1. /\ vectors < Word
          /\ vectors + block \in Nat /\ vectors + block < Word
          /\ vectors + block + total \in Nat
      BY <1>1, <1>3, <1>5, <1>8, <1>12
    <2> QED  BY <2>1, <1>8, <1>12, WrapSmall
  <1>14. h.strings_offset = h.vectors_offset + block /\ h.file_size = h.strings_offset + total
         /\ h.file_size < Word /\ h.vectors_offset = vectors
    BY <1>10, <1>11, <1>12, <1>13
  <1> QED
    BY <1>2, <1>3, <1>5, <1>8, <1>9, <1>11, <1>14 DEF n, end, vectors, block, total, h

\* A record says where its item's strings are; they end inside the file.
LEMMA RecordFits ==
  ASSUME NEW items \in Seq(Item), items # <<>>,
         NEW d \in Nat \ {0}, Fits(items, d), NEW i \in 0..(Len(items) - 1)
  PROVE  LET h == LayoutHeader(items, d)
             r == LayoutRecord(items, h.strings_offset, i)
             at == h.strings_offset + Cursor(items, 0)[i]
             item == items[i + 1]
         IN  /\ item.source \in Nat /\ item.text \in Nat
             /\ at \in Nat /\ h.strings_offset <= at /\ h.strings_offset \in Nat
             /\ at + item.source + item.text <= h.file_size
             /\ r = [source_offset |-> at, source_size |-> item.source,
                     text_offset |-> at + item.source, text_size |-> item.text,
                     byte_begin |-> item.byte_begin, byte_end |-> item.byte_end,
                     vector_index |-> i, scale_bytes |-> ScaleBytes(item)]
  <1> DEFINE n == Len(items)
             h == LayoutHeader(items, d)
             s == h.strings_offset
             z == Cursor(items, 0)
             item == items[i + 1]
             at == s + z[i]
  <1>1. /\ n \in Nat \ {0} /\ n * d * FloatBytes \in Nat /\ h.vectors_offset \in Nat
        /\ s = h.vectors_offset + n * d * FloatBytes
        /\ z[n] \in Nat /\ h.file_size = s + z[n] /\ h.file_size < Word
    BY LayoutFits
  <1>2. i \in Nat /\ i < n /\ i \in 0..n /\ i + 1 \in 1..n /\ i + 1 \in 0..n /\ (i + 1) - 1 = i
    BY <1>1
  <1>3. item.source \in Nat /\ item.text \in Nat  BY <1>2, ItemSizes
  <1>4. /\ z \in [0..n -> Nat]
        /\ \A k \in 1..n : z[k] = z[k - 1] + items[k].source + items[k].text
    BY CursorSteps
  <1>5. z[i + 1] <= z[n]  BY <1>2, CursorGrows
  <1>6. LayoutRecord(items, s, i) =
            [source_offset |-> Wrap(Cursor(items, s)[i]), source_size |-> item.source,
             text_offset |-> Wrap(Cursor(items, s)[i] + item.source),
             text_size |-> item.text,
             byte_begin |-> item.byte_begin, byte_end |-> item.byte_end,
             vector_index |-> i, scale_bytes |-> ScaleBytes(item)]
    BY <1>2 DEF LayoutRecord
  <1> HIDE DEF n, h, z, item
  <1>7. s \in Nat
    <2> DEFINE from == h.vectors_offset
               block == n * d * FloatBytes
    <2>1. from \in Nat /\ block \in Nat /\ s = from + block  BY <1>1
    <2> HIDE DEF from, block, s
    <2> QED  BY <2>1
  <1>8. z[i] \in Nat /\ z[i + 1] \in Nat  BY <1>2, <1>4
  <1>9. Cursor(items, s)[i] = at  BY <1>2, <1>7, CursorShifts DEF n, z
  <1>10. z[i + 1] = z[i] + item.source + item.text
    <2>1. z[i + 1] = z[(i + 1) - 1] + items[i + 1].source + items[i + 1].text
      BY <1>2, <1>4
    <2> QED  BY <1>2, <2>1 DEF item
  <1>11. at + item.source + item.text <= h.file_size
    <2>1. z[i] + item.source + item.text <= z[n]  BY <1>5, <1>10
    <2>2. \A u, v, b, a, t \in Nat : b + a + t <= v => (u + b) + a + t <= u + v
      OBVIOUS
    <2>3. z[n] \in Nat /\ h.file_size = s + z[n]  BY <1>1
    <2> HIDE DEF s
    <2>4. (s + z[i]) + item.source + item.text <= s + z[n]
      BY <2>1, <2>2, <2>3, <1>3, <1>7, <1>8
    <2> QED  BY <2>3, <2>4
  <1>12. at \in Nat /\ s <= at /\ at < Word /\ at + item.source \in Nat
         /\ at + item.source < Word /\ Word \in Nat
    <2>1. s \in Nat /\ z[i] \in Nat  BY <1>7, <1>8
    <2>2. at \in Nat /\ s <= at
      <3> DEFINE zi == z[i]
      <3>1. s \in Nat /\ zi \in Nat /\ at = s + zi  BY <2>1
      <3> HIDE DEF s, at, zi
      <3> QED  BY <3>1
    <2>3. h.file_size \in Nat /\ h.file_size < Word /\ Word \in Nat
      <3>1. z[n] \in Nat /\ h.file_size = s + z[n] /\ h.file_size < Word  BY <1>1
      <3> QED  BY <3>1, <1>7, FileAssumption
    <2> HIDE DEF at, s
    <2>4. \A b, a, t, e, w \in Nat : b + a + t <= e /\ e < w => b < w /\ b + a < w
      OBVIOUS
    <2>5. at + item.source \in Nat  BY <2>2, <1>3
    <2> QED  BY <2>2, <2>3, <2>4, <2>5, <1>3, <1>11
  <1>13. Wrap(at) = at /\ Wrap(at + item.source) = at + item.source
    BY <1>12, WrapSmall
  <1>14. LayoutRecord(items, s, i) =
            [source_offset |-> at, source_size |-> item.source,
             text_offset |-> at + item.source, text_size |-> item.text,
             byte_begin |-> item.byte_begin, byte_end |-> item.byte_end,
             vector_index |-> i, scale_bytes |-> ScaleBytes(item)]
    BY <1>6, <1>9, <1>13
  <1> HIDE DEF s, at
  <1>15. at \in Nat /\ s <= at /\ s \in Nat  BY <1>7, <1>12
  <1> QED  BY <1>3, <1>11, <1>14, <1>15 DEF n, h, s, z, item, at

\* The scale of an item is a half word, and is 0 only if it was lost.
LEMMA ScaleIsNarrow ==
  ASSUME NEW item \in Item
  PROVE  /\ ScaleBytes(item) \in HalfWords
         /\ Describable(item) <=> /\ item.byte_begin <= item.byte_end
                                 /\ ScaleBytes(item) # 0
  <1>1. item.scale_bytes \in HalfWords /\ item.text \in Nat  BY DEF Item
  <1>2. HalfWord \in Nat /\ 1 < HalfWord  BY FileAssumption
  <1>3. \A n \in Nat : Narrow(n) \in HalfWords
    <2> SUFFICES ASSUME NEW n \in Nat PROVE Narrow(n) \in HalfWords  OBVIOUS
    <2>1. n % HalfWord \in 0..(HalfWord - 1)  BY <1>2
    <2> QED  BY <2>1 DEF Narrow, HalfWords
  <1>4. 1 \in HalfWords  BY <1>2 DEF HalfWords
  <1>5. ScaleBytes(item) \in HalfWords  BY <1>1, <1>3, <1>4 DEF ScaleBytes
  <1>6. ScaleBytes(item) # 0 <=>
            item.scale_bytes # 0 \/ item.text = 0 \/ Narrow(item.text) # 0
    BY DEF ScaleBytes
  <1> QED  BY <1>5, <1>6 DEF Describable, Narrow

\* The fields of such a file are words.
LEMMA WrittenInFile ==
  ASSUME NEW items \in Seq(Item), items # <<>>,
         NEW d \in Nat \ {0}, Fits(items, d)
  PROVE  /\ Written(items, d) \in File
         /\ Items(Written(items, d)) = 0..(Len(items) - 1)
         /\ \A i \in 0..(Len(items) - 1) :
              /\ i \in Words
              /\ Written(items, d).records[i]
                     = LayoutRecord(items, LayoutHeader(items, d).strings_offset, i)
  <1> DEFINE n == Len(items)
             h == LayoutHeader(items, d)
             s == h.strings_offset
             f == Written(items, d)
  <1>1. /\ n \in Nat \ {0} /\ n * RecordBytes \in Nat
        /\ n * d \in Nat /\ n * d * FloatBytes \in Nat
        /\ h.known /\ h.item_count = n /\ h.dimensions = d
        /\ h.records_offset = HeaderBytes
        /\ h.vectors_offset \in Nat /\ HeaderBytes + n * RecordBytes <= h.vectors_offset
        /\ h.strings_offset = h.vectors_offset + n * d * FloatBytes
        /\ Cursor(items, 0)[n] \in Nat
        /\ h.file_size = h.strings_offset + Cursor(items, 0)[n]
        /\ h.file_size < Word
    BY LayoutFits
  <1>2. /\ Word \in Nat /\ HeaderBytes \in Nat /\ RecordBytes \in Nat \ {0}
        /\ FloatBytes \in Nat \ {0}
    BY FileAssumption
  <1>3. n <= n * RecordBytes /\ d <= n * d * FloatBytes
    <2>0. /\ n \in Nat /\ d \in Nat /\ 1 \in Nat /\ n * d \in Nat
          /\ RecordBytes \in Nat /\ FloatBytes \in Nat
          /\ 1 <= n /\ 1 <= RecordBytes /\ 1 <= FloatBytes
      BY <1>1, <1>2
    <2>1. 1 * n <= RecordBytes * n  BY <2>0, MulMono
    <2>2. n * RecordBytes = RecordBytes * n /\ 1 * n = n  BY <1>1, <1>2, MulAssoc
    <2>3. 1 * d <= n * d /\ 1 * d = d /\ n * d \in Nat
      <3>1. 1 * d <= n * d  BY <2>0, MulMono
      <3>2. 1 * d = d  BY <2>0
      <3> QED  BY <3>1, <3>2, <2>0
    <2>4. 1 * (n * d) <= FloatBytes * (n * d)  BY <2>0, MulMono
    <2>5. FloatBytes * (n * d) = n * d * FloatBytes /\ 1 * (n * d) = n * d
      BY <1>1, <1>2, MulAssoc
    <2>6. n <= n * RecordBytes  BY <2>1, <2>2
    <2>7. d <= n * d /\ n * d <= n * d * FloatBytes  BY <2>3, <2>4, <2>5
    <2>8. \A a, b, c \in Nat : a <= b /\ b <= c => a <= c  OBVIOUS
    <2> QED  BY <2>6, <2>7, <2>8, <2>0, <1>1
  <1>4. h = [known |-> h.known, item_count |-> h.item_count, dimensions |-> h.dimensions,
             records_offset |-> h.records_offset, vectors_offset |-> h.vectors_offset,
             strings_offset |-> h.strings_offset, file_size |-> h.file_size]
    BY DEF LayoutHeader
  <1>5. f = [size |-> h.file_size, header |-> h, intact |-> TRUE,
             records |-> [i \in Words |-> LayoutRecord(items, s, i)]]
    BY DEF Written
  <1> HIDE DEF n, h, f
  <1>0. /\ n <= h.file_size /\ d <= h.file_size /\ HeaderBytes <= h.file_size
        /\ h.vectors_offset <= h.file_size /\ h.strings_offset <= h.file_size
        /\ h.strings_offset \in Nat /\ h.file_size \in Nat
    <2> DEFINE rb == n * RecordBytes
               vb == n * d * FloatBytes
               tb == Cursor(items, 0)[n]
    <2>1. /\ n \in Nat /\ rb \in Nat /\ vb \in Nat /\ tb \in Nat /\ HeaderBytes \in Nat
          /\ n <= rb /\ d <= vb
          /\ h.vectors_offset \in Nat /\ HeaderBytes + rb <= h.vectors_offset
          /\ h.strings_offset = h.vectors_offset + vb
          /\ h.file_size = h.strings_offset + tb
      BY <1>1, <1>2, <1>3
    <2> DEFINE vo == h.vectors_offset
    <2>2. vo \in Nat /\ HeaderBytes + rb <= vo /\ h.strings_offset = vo + vb
          /\ h.file_size = vo + vb + tb
      BY <2>1
    <2> HIDE DEF rb, vb, tb, vo
    <2>3. \A a, b, k, r, v, w, t \in Nat :
             a <= r /\ b <= w /\ k + r <= v =>
                 /\ a <= v + w + t /\ b <= v + w + t /\ k <= v + w + t /\ v <= v + w + t
                 /\ v + w <= v + w + t /\ v + w \in Nat /\ v + w + t \in Nat
      OBVIOUS
    <2>4. /\ n <= vo + vb + tb /\ d <= vo + vb + tb /\ HeaderBytes <= vo + vb + tb
          /\ vo <= vo + vb + tb /\ vo + vb <= vo + vb + tb
          /\ vo + vb \in Nat /\ vo + vb + tb \in Nat
      BY <2>1, <2>2, <2>3
    <2> QED  BY <2>2, <2>4 DEF vo
  <1>6. h \in Header
    <2>1. h.item_count \in Words /\ h.dimensions \in Words /\ h.records_offset \in Words
          /\ h.vectors_offset \in Words /\ h.strings_offset \in Words /\ h.file_size \in Words
      <3>1. h.file_size < Word /\ h.item_count = n /\ h.dimensions = d
            /\ h.records_offset = HeaderBytes /\ n \in Nat /\ h.vectors_offset \in Nat
        BY <1>1
      <3>2. \A a \in Nat : a <= h.file_size => a \in Words
        BY <1>2, <1>0, <3>1 DEF Words
      <3>3. d \in Nat /\ HeaderBytes \in Nat  BY <1>2
      <3>4. n \in Words /\ d \in Words /\ HeaderBytes \in Words /\ h.vectors_offset \in Words
        BY <1>0, <3>1, <3>2, <3>3
      <3>5. h.strings_offset \in Words /\ h.file_size \in Words
        <4>1. h.file_size <= h.file_size  BY <1>0
        <4> QED  BY <1>0, <3>2, <4>1
      <3> QED  BY <3>1, <3>4, <3>5
    <2> QED  BY <1>1, <1>4, <2>1 DEF Header
  <1>7. ASSUME NEW i \in Words PROVE LayoutRecord(items, s, i) \in Record
    <2>1. CASE i < n
      <3>1. i \in 0..(n - 1)  BY <1>1, <2>1 DEF Words
      <3> DEFINE at == s + Cursor(items, 0)[i]
                 item == items[i + 1]
      <3>2. /\ item.source \in Nat /\ item.text \in Nat
            /\ at \in Nat /\ at + item.source + item.text <= h.file_size
            /\ LayoutRecord(items, s, i) =
                 [source_offset |-> at, source_size |-> item.source,
                  text_offset |-> at + item.source, text_size |-> item.text,
                  byte_begin |-> item.byte_begin, byte_end |-> item.byte_end,
                  vector_index |-> i, scale_bytes |-> ScaleBytes(item)]
        BY <3>1, RecordFits DEF n, h
      <3>4. item.byte_begin \in Words /\ item.byte_end \in Words
            /\ ScaleBytes(item) \in HalfWords
        <4>1. i + 1 \in 1..Len(items)  BY <1>1, <3>1 DEF n
        <4>2. item \in Item  BY <4>1, ElementOfSeq
        <4> HIDE DEF item
        <4> QED  BY <4>2, ScaleIsNarrow DEF Item
      <3> HIDE DEF at, item
      <3>3. at \in Words /\ item.source \in Words /\ at + item.source \in Words
            /\ item.text \in Words
        <4>1. h.file_size \in Nat /\ h.file_size < Word  BY <1>1, <1>0
        <4>2. \A b, a, t, e, w \in Nat :
                 b + a + t <= e /\ e < w => b < w /\ a < w /\ b + a < w /\ t < w
          OBVIOUS
        <4>3. at < Word /\ item.source < Word /\ at + item.source < Word /\ item.text < Word
          BY <1>2, <3>2, <4>1, <4>2
        <4>4. at + item.source \in Nat  BY <3>2
        <4>5. \A a \in Nat : a < Word => a \in Words  BY <1>2 DEF Words
        <4>6. at \in Nat /\ item.source \in Nat /\ item.text \in Nat  BY <3>2
        <4> QED  BY <4>3, <4>4, <4>5, <4>6
      <3> DEFINE scale == ScaleBytes(item)
      <3>5. scale \in HalfWords /\ i \in Words  BY <3>4
      <3> HIDE DEF scale
      <3>6. [source_offset |-> at, source_size |-> item.source,
             text_offset |-> at + item.source, text_size |-> item.text,
             byte_begin |-> item.byte_begin, byte_end |-> item.byte_end,
             vector_index |-> i, scale_bytes |-> scale] \in Record
        BY <3>3, <3>4, <3>5 DEF Record
      <3> QED  BY <3>2, <3>6 DEF scale
    <2>2. CASE ~(i < n)
      <3>1. LayoutRecord(items, s, i) = NoRecord  BY <2>2 DEF LayoutRecord, n
      <3>2. 0 \in Words /\ 0 \in HalfWords  BY FileAssumption DEF Words, HalfWords
      <3> QED  BY <3>1, <3>2 DEF Record, NoRecord
    <2> QED  BY <2>1, <2>2
  <1> HIDE DEF s
  <1>8. f \in File
    <2>1. h.file_size \in Words  BY <1>6 DEF Header
    <2>2. [i \in Words |-> LayoutRecord(items, s, i)] \in [Words -> Record]  BY <1>7
    <2> QED  BY <1>5, <1>6, <2>1, <2>2 DEF File
  <1>9. Items(f) = 0..(n - 1)  BY <1>1, <1>5 DEF Items
  <1>10. ASSUME NEW i \in 0..(n - 1)
         PROVE  i \in Words /\ f.records[i] = LayoutRecord(items, s, i)
    <2>1. n \in Nat /\ n <= h.file_size /\ h.file_size < Word /\ h.file_size \in Nat
      BY <1>1, <1>0
    <2>2. i \in Words  BY <1>2, <2>1 DEF Words
    <2> QED  BY <1>5, <2>2
  <1> QED  BY <1>8, <1>9, <1>10 DEF n, h, s, f

\* A division says what the product does.
LEMMA DivOfBound ==
  ASSUME NEW a \in Nat, NEW b \in Nat \ {0}, NEW n \in Nat, n * b <= a
  PROVE  n <= a \div b
  BY Z3

\* validate accepts what write has laid out of describable items, and no other.
LEMMA WrittenIsValid ==
  ASSUME NEW items \in Seq(Item), items # <<>>,
         NEW d \in Nat \ {0}, Fits(items, d)
  PROVE  Valid(Written(items, d), Written(items, d).size)
             <=> \A i \in 1..Len(items) : Describable(items[i])
  <1> DEFINE n == Len(items)
             h == LayoutHeader(items, d)
             f == Written(items, d)
             rb == n * RecordBytes
             vb == n * d * FloatBytes
             tb == Cursor(items, 0)[n]
  <1>1. /\ n \in Nat \ {0} /\ rb \in Nat /\ n * d \in Nat /\ vb \in Nat
        /\ h.known /\ h.item_count = n /\ h.dimensions = d
        /\ h.records_offset = HeaderBytes
        /\ h.vectors_offset \in Nat /\ HeaderBytes + rb <= h.vectors_offset
        /\ h.vectors_offset % FloatBytes = 0
        /\ h.strings_offset = h.vectors_offset + vb
        /\ tb \in Nat /\ h.file_size = h.strings_offset + tb
        /\ h.file_size < Word
    BY LayoutFits
  <1>2. /\ Word \in Nat /\ HeaderBytes \in Nat /\ RecordBytes \in Nat \ {0}
        /\ FloatBytes \in Nat \ {0}
    BY FileAssumption
  <1>3. f.header = h /\ f.size = h.file_size /\ f.intact  BY DEF Written
  <1>4. /\ RecordsEnd(h) = Wrap(HeaderBytes + rb)
        /\ VectorsEnd(h) = Wrap(h.vectors_offset + vb)
    BY <1>1 DEF RecordsEnd, VectorsEnd
  <1>5. rb <= h.file_size - HeaderBytes /\ h.file_size - HeaderBytes \in Nat
        /\ vb <= h.file_size - h.vectors_offset /\ h.file_size - h.vectors_offset \in Nat
        /\ HeaderBytes + rb \in Nat /\ HeaderBytes + rb < Word
        /\ h.strings_offset \in Nat /\ h.strings_offset < Word
        /\ HeaderBytes <= h.file_size /\ h.vectors_offset <= h.file_size
        /\ h.strings_offset <= h.file_size /\ h.file_size \in Nat
    <2>1. /\ rb \in Nat /\ vb \in Nat /\ tb \in Nat /\ HeaderBytes \in Nat /\ Word \in Nat
          /\ h.vectors_offset \in Nat /\ HeaderBytes + rb <= h.vectors_offset
          /\ h.strings_offset = h.vectors_offset + vb
          /\ h.file_size = h.strings_offset + tb /\ h.file_size < Word
      BY <1>1, <1>2
    <2> HIDE DEF rb, vb, tb, h
    <2>2. h.strings_offset \in Nat /\ h.file_size \in Nat  BY <2>1
    <2>3. \A k, r, v, b, t, w \in Nat :
             k + r <= v /\ v + b + t < w =>
                 /\ r <= v + b + t - k /\ v + b + t - k \in Nat
                 /\ b <= v + b + t - v /\ v + b + t - v \in Nat
                 /\ k + r \in Nat /\ k + r < w /\ v + b < w
                 /\ k <= v + b + t /\ v <= v + b + t /\ v + b <= v + b + t
      OBVIOUS
    <2>4. h.file_size = h.vectors_offset + vb + tb  BY <2>1
    <2> DEFINE v == h.vectors_offset
               e == v + vb + tb
    <2>5. v \in Nat /\ HeaderBytes + rb <= v /\ e < Word  BY <2>1, <2>4
    <2> HIDE DEF v
    <2>6. /\ rb <= e - HeaderBytes /\ e - HeaderBytes \in Nat
          /\ vb <= e - v /\ e - v \in Nat
          /\ HeaderBytes + rb \in Nat /\ HeaderBytes + rb < Word /\ v + vb < Word
          /\ HeaderBytes <= e /\ v <= e /\ v + vb <= e
      BY <2>1, <2>3, <2>5
    <2>7. h.file_size = e /\ h.vectors_offset = v /\ h.strings_offset = v + vb
      BY <2>1, <2>4 DEF v
    <2> HIDE DEF e
    <2> QED  BY <2>2, <2>6, <2>7
  <1>6. n <= (h.file_size - HeaderBytes) \div RecordBytes
    BY <1>1, <1>2, <1>5, DivOfBound
  <1>7. d <= ((h.file_size - h.vectors_offset) \div FloatBytes) \div n
    <2> DEFINE limit == h.file_size - h.vectors_offset
    <2>1. n * d <= limit \div FloatBytes  BY <1>1, <1>2, <1>5, DivOfBound
    <2>2. limit \div FloatBytes \in Nat  BY <1>2, <1>5, DivBound
    <2>3. d * n = n * d  BY <1>1, MulAssoc
    <2>4. d * n <= limit \div FloatBytes  BY <2>1, <2>3
    <2> HIDE DEF limit
    <2> QED  BY <2>2, <2>4, <1>1, DivOfBound DEF limit
  <1> HIDE DEF n, h, f, rb, vb, tb
  <1>8. RecordsEnd(h) = HeaderBytes + rb /\ VectorsEnd(h) = h.strings_offset
    BY <1>1, <1>4, <1>5, WrapSmall
  <1>9. RecordsFit(h)  BY <1>1, <1>2, <1>5, <1>6 DEF RecordsFit
  <1>10. VectorsFit(h)  BY <1>1, <1>5, <1>7, <1>8 DEF VectorsFit
  <1>11. StringsFit(h)  BY <1>5, <1>8 DEF StringsFit
  <1>12. HeadersValid(f, f.size)
    BY <1>1, <1>3, <1>5, <1>9, <1>10, <1>11 DEF HeadersValid, HeaderValid, SectionsValid
  <1>13. ASSUME NEW i \in Items(f)
         PROVE  RecordValid(h, f.records[i]) <=> Describable(items[i + 1])
    <2>1. i \in 0..(n - 1) /\ f.records[i] = LayoutRecord(items, h.strings_offset, i)
      BY WrittenInFile DEF f, n, h
    <2> DEFINE at == h.strings_offset + Cursor(items, 0)[i]
               item == items[i + 1]
    <2>2. /\ item.source \in Nat /\ item.text \in Nat
          /\ at \in Nat /\ h.strings_offset <= at
          /\ at + item.source + item.text <= h.file_size
          /\ LayoutRecord(items, h.strings_offset, i) =
               [source_offset |-> at, source_size |-> item.source,
                text_offset |-> at + item.source, text_size |-> item.text,
                byte_begin |-> item.byte_begin, byte_end |-> item.byte_end,
                vector_index |-> i, scale_bytes |-> ScaleBytes(item)]
      BY <2>1, RecordFits DEF n, h
    <2> DEFINE r == f.records[i]
    <2>3. /\ r.source_offset = at /\ r.source_size = item.source
          /\ r.text_offset = at + item.source /\ r.text_size = item.text
          /\ r.vector_index = i
          /\ r.byte_begin = item.byte_begin /\ r.byte_end = item.byte_end
          /\ r.scale_bytes = ScaleBytes(item)
      BY <2>1, <2>2
    <2>11. Describable(item) <=> item.byte_begin <= item.byte_end /\ ScaleBytes(item) # 0
      <3>1. i + 1 \in 1..Len(items)  BY <1>1, <2>1 DEF n
      <3>2. item \in Item  BY <3>1, ElementOfSeq
      <3> QED  BY <3>2, ScaleIsNarrow
    <2> HIDE DEF at, item, r
    <2>4. \A b, a, t, e, w \in Nat :
             b + a + t <= e /\ e < w =>
                 /\ b <= e /\ a <= e - b /\ b + a <= e /\ t <= e - (b + a)
                 /\ b + a \in Nat /\ b + a < w /\ b + a + t \in Nat /\ b + a + t < w
                 /\ b + a + t >= b + a
      OBVIOUS
    <2>5. /\ at <= h.file_size /\ item.source <= h.file_size - at
          /\ at + item.source <= h.file_size /\ item.text <= h.file_size - (at + item.source)
          /\ at + item.source \in Nat /\ at + item.source < Word
          /\ at + item.source + item.text \in Nat /\ at + item.source + item.text < Word
          /\ at + item.source + item.text >= at + item.source
      <3>1. h.file_size \in Nat /\ h.file_size < Word  BY <1>1, <1>5
      <3> QED  BY <1>2, <2>2, <2>4, <3>1
    <2>6. Wrap(at + item.source) = at + item.source
          /\ Wrap(at + item.source + item.text) = at + item.source + item.text
      BY <2>5, WrapSmall
    <2>7. RangeValid(r.source_offset, r.source_size, h.file_size)
          /\ RangeValid(r.text_offset, r.text_size, h.file_size)
      BY <2>3, <2>5 DEF RangeValid
    <2>8. r.text_offset >= Wrap(r.source_offset + r.source_size)
          /\ Wrap(r.text_offset + r.text_size) >= r.text_offset
      BY <2>3, <2>5, <2>6
    <2>9. r.vector_index < h.item_count
      <3>1. h.item_count = n /\ n \in Nat  BY <1>1
      <3> QED  BY <2>1, <2>3, <3>1
    <2>10. r.source_offset >= h.strings_offset  BY <2>2, <2>3, <1>5
    <2>12. RecordValid(h, r) <=> r.byte_begin <= r.byte_end /\ r.scale_bytes # 0
      BY <2>7, <2>8, <2>9, <2>10 DEF RecordValid
    <2>13. RecordValid(h, r) <=> Describable(item)  BY <2>3, <2>11, <2>12
    <2> QED  BY <2>13 DEF r, item
  <1>14. Valid(f, f.size) <=> \A i \in Items(f) : RecordValid(h, f.records[i])
    BY <1>3, <1>12 DEF Valid
  <1>15. Items(f) = 0..(n - 1) /\ n \in Nat  BY <1>1, WrittenInFile DEF f, n
  <1>16. (\A i \in Items(f) : Describable(items[i + 1]))
            <=> \A i \in 1..n : Describable(items[i])
    <2>1. \A i \in 0..(n - 1) : i + 1 \in 1..n  BY <1>15
    <2>2. \A i \in 1..n : i - 1 \in 0..(n - 1) /\ (i - 1) + 1 = i  BY <1>15
    <2> QED  BY <1>15, <2>1, <2>2
  <1>17. (\A i \in Items(f) : RecordValid(h, f.records[i]))
            <=> \A i \in 1..n : Describable(items[i])
    BY <1>13, <1>16
  <1> QED  BY <1>14, <1>17 DEF f, n

\* Every item is read from where it was put.
LEMMA ReadsAreWrites ==
  ASSUME NEW items \in Seq(Item), items # <<>>,
         NEW d \in Nat \ {0}, Fits(items, d), NEW i \in 0..(Len(items) - 1)
  PROVE  Accessed(Written(items, d), i) = Emitted(items, d, i)
  <1> DEFINE n == Len(items)
             h == LayoutHeader(items, d)
             f == Written(items, d)
             v == h.vectors_offset
             at == h.strings_offset + Cursor(items, 0)[i]
             item == items[i + 1]
             before == HeaderBytes + n * RecordBytes
  <1>1. /\ n \in Nat \ {0} /\ before \in Nat /\ n * d * FloatBytes \in Nat
        /\ h.dimensions = d /\ v \in Nat /\ before <= v
        /\ h.strings_offset = v + n * d * FloatBytes
        /\ h.file_size = h.strings_offset + Cursor(items, 0)[n]
        /\ Cursor(items, 0)[n] \in Nat /\ h.file_size < Word
    <2>1. HeaderBytes \in Nat /\ n \in Nat \ {0} /\ n * RecordBytes \in Nat
      BY LayoutFits, FileAssumption
    <2>2. before \in Nat  BY <2>1
    <2> HIDE DEF before
    <2>3. before <= v  BY LayoutFits DEF before
    <2> QED  BY <2>2, <2>3, LayoutFits
  <1>2. Word \in Nat /\ FloatBytes \in Nat  BY FileAssumption
  <1>3. f.records[i] = LayoutRecord(items, h.strings_offset, i)  BY WrittenInFile
  <1>4. LayoutRecord(items, h.strings_offset, i) =
           [source_offset |-> at, source_size |-> item.source,
            text_offset |-> at + item.source, text_size |-> item.text,
            byte_begin |-> item.byte_begin, byte_end |-> item.byte_end,
            vector_index |-> i, scale_bytes |-> ScaleBytes(item)]
    BY RecordFits
  <1>5. f.header = h  BY DEF Written
  <1>6. i \in Nat /\ i <= n /\ i \in 0..n  BY <1>1
  <1>7. i * (d * FloatBytes) = i * d * FloatBytes /\ n * (d * FloatBytes) = n * d * FloatBytes
        /\ i * d * FloatBytes \in Nat
    <2>1. i * d \in Nat  BY <1>6, MulAssoc
    <2> QED  BY <1>1, <1>2, <1>6, <2>1, MulAssoc
  <1>8. i * d * FloatBytes <= n * d * FloatBytes
    <2>1. d * FloatBytes \in Nat  BY <1>2, MulAssoc
    <2>2. i * (d * FloatBytes) <= n * (d * FloatBytes)  BY <2>1, <1>1, <1>6, MulMono
    <2> QED  BY <2>2, <1>7
  <1>9. Wrap(v + i * d * FloatBytes) = v + i * d * FloatBytes
    <2> DEFINE a == i * d * FloatBytes
               b == n * d * FloatBytes
               c == Cursor(items, 0)[n]
    <2>1. a \in Nat /\ b \in Nat /\ c \in Nat /\ a <= b /\ v \in Nat /\ v + b + c < Word
      BY <1>1, <1>7, <1>8
    <2> HIDE DEF a, b, c, v
    <2>2. v + a \in Nat /\ v + a < Word  BY <2>1, <1>2
    <2>3. Wrap(v + a) = v + a  BY <2>2, WrapSmall
    <2> QED  BY <2>3 DEF a
  <1>10. Accessed(f, i) = <<Bytes(v + i * d * FloatBytes, d * FloatBytes),
                            Bytes(at, item.source), Bytes(at + item.source, item.text)>>
    <2> DEFINE r == f.records[i]
    <2>1. /\ r.vector_index = i /\ r.source_offset = at /\ r.source_size = item.source
          /\ r.text_offset = at + item.source /\ r.text_size = item.text
      BY <1>3, <1>4
    <2>2. f.header.vectors_offset = v /\ f.header.dimensions = d  BY <1>1, <1>5
    <2> HIDE DEF n, h, f, v, at, item, before, r
    <2>3. VectorOf(f.header, r) = Bytes(v + i * d * FloatBytes, d * FloatBytes)
      BY <1>9, <2>1, <2>2 DEF VectorOf
    <2>4. SourceOf(r) = Bytes(at, item.source) /\ TextOf(r) = Bytes(at + item.source, item.text)
      BY <2>1 DEF SourceOf, TextOf
    <2> QED  BY <2>3, <2>4 DEF Accessed, r
  <1>11. before + (v - before) = v
    <2> HIDE DEF v, before
    <2> QED  BY <1>1
  <1>12. Cursor(items, v + n * (d * FloatBytes))[i] = at
    <2>1. v + n * d * FloatBytes \in Nat
      <3> DEFINE block == n * d * FloatBytes
      <3>1. block \in Nat /\ v \in Nat  BY <1>1
      <3> HIDE DEF block, v
      <3>2. v + block \in Nat  BY <3>1
      <3> QED  BY <3>2 DEF block
    <2> QED  BY <2>1, <1>1, <1>6, <1>7, CursorShifts
  <1>13. Emitted(items, d, i) =
            <<Bytes(before + (v - before) + i * (d * FloatBytes), d * FloatBytes),
              Bytes(Cursor(items, before + (v - before) + n * (d * FloatBytes))[i], item.source),
              Bytes(Cursor(items, before + (v - before) + n * (d * FloatBytes))[i] + item.source,
                    item.text)>>
    BY DEF Emitted
  <1> HIDE DEF n, h, f, v, at, item, before
  <1> QED  BY <1>7, <1>10, <1>11, <1>12, <1>13 DEF f

------------------------------------------------------------------------------
(* The invariant.                                                          *)

\* The members of an object fit its stage.
Stages ==
    \A h \in Handles :
        /\ At(h, "absent") => handle[h] = Absent
        /\ At(h, "opened") => handle[h].fd # NoFd /\ handle[h].data = Null
        /\ At(h, "mapped") => handle[h].data # Null
        /\ handle[h].data # Null => handle[h].size = file.size
        /\ IsOpen(h) => Valid(file, handle[h].size)

IInv == TypeOK /\ EverythingIsOwned /\ Stages

LEMMA JobTypes ==
  ASSUME NEW j \in Jobs
  PROVE  /\ j.items \in Seq(Item) /\ j.items # <<>>
         /\ j.dimensions \in Nat \ {0} /\ Fits(j.items, j.dimensions)
  BY HandleAssumption, FileAssumption DEF HalfWords

LEMMA InitIsIInv == Init => IInv
  <1> SUFFICES ASSUME Init PROVE IInv  OBVIOUS
  <1>1. TypeOK
    <2>1. file \in File /\ job \in Jobs \cup {NoJob}
      BY HandleAssumption, JobTypes, WrittenInFile DEF Init
    <2>2. 0 \in Words  BY FileAssumption DEF Words
    <2> QED  BY <2>1, <2>2 DEF Init, TypeOK, Absent
  <1>2. EverythingIsOwned  BY DEF Init, EverythingIsOwned, Absent, NoFd, Null
  <1>3. Stages  BY DEF Init, Stages, Absent, At, IsOpen
  <1> QED  BY <1>1, <1>2, <1>3 DEF IInv

\* What close leaves of the descriptors and the mappings.
LEMMA CloseTypes ==
  ASSUME IInv, NEW h \in Handles, Close(handle[h])
  PROVE  /\ fds' \in [Fds -> {"free", "index", "other"}]
         /\ maps' \in [Addresses -> Words]
         /\ \A n \in Fds : fds'[n] = IF n = handle[h].fd THEN "free" ELSE fds[n]
         /\ \A a \in Addresses : maps'[a] = IF a = handle[h].data THEN 0 ELSE maps[a]
  <1>1. fds \in [Fds -> {"free", "index", "other"}] /\ maps \in [Addresses -> Words]
        /\ handle[h].fd \in Fds \cup {NoFd} /\ handle[h].data \in Addresses \cup {Null}
        /\ NoFd \notin Fds /\ Null \notin Addresses /\ 0 \in Words
    BY HandleAssumption, FileAssumption DEF IInv, TypeOK, NoFd, Null, Words
  <1>2. handle[h].data # Null => maps[handle[h].data] = handle[h].size
    BY DEF IInv, EverythingIsOwned
  <1>3. fds' \in [Fds -> {"free", "index", "other"}]
        /\ \A n \in Fds : fds'[n] = IF n = handle[h].fd THEN "free" ELSE fds[n]
    BY <1>1 DEF Close
  <1>4. maps' \in [Addresses -> Words]
        /\ \A a \in Addresses : maps'[a] = IF a = handle[h].data THEN 0 ELSE maps[a]
    BY <1>1, <1>2 DEF Close
  <1> QED  BY <1>3, <1>4

LEMMA AbsentType == /\ Absent \in [pc : {"absent", "opened", "mapped", "alive"},
                                   fd : Fds \cup {NoFd}, data : Addresses \cup {Null},
                                   size : Words]
                    /\ Shut \in [pc : {"absent", "opened", "mapped", "alive"},
                                 fd : Fds \cup {NoFd}, data : Addresses \cup {Null},
                                 size : Words]
  BY FileAssumption DEF Absent, Shut, Words

\* Throwing and destroying give back what the object has.
LEMMA ThrowKeepsIInv == ASSUME IInv, NEW h \in Handles, Throw(h) PROVE IInv'
  <1>1. handle' = [handle EXCEPT ![h] = Absent] /\ file' = file /\ job' = job
    BY DEF Throw, disk
  <1>2. TypeOK'
    BY <1>1, CloseTypes, AbsentType DEF Throw, IInv, TypeOK
  <1>3. \A g \in Handles : handle'[g] = IF g = h THEN Absent ELSE handle[g]
    BY <1>1 DEF IInv, TypeOK
  <1>4. EverythingIsOwned'
    <2>1. \A g \in Handles : g # h => /\ handle[g].fd # NoFd => handle[g].fd # handle[h].fd
                                      /\ handle[g].data # Null => handle[g].data # handle[h].data
      BY DEF IInv, EverythingIsOwned
    <2>2. ASSUME NEW g \in Handles
          PROVE  /\ handle'[g].fd # NoFd => fds'[handle'[g].fd] = "index"
                 /\ handle'[g].data # Null => /\ handle'[g].size # 0
                                              /\ maps'[handle'[g].data] = handle'[g].size
      BY <1>3, <2>1, CloseTypes DEF Throw, IInv, TypeOK, EverythingIsOwned, Absent
    <2>3. ASSUME NEW n \in Fds, fds'[n] = "index" PROVE \E g \in Handles : handle'[g].fd = n
      <3>1. n # handle[h].fd /\ fds[n] = "index"  BY <2>3, CloseTypes DEF Throw
      <3>2. PICK g \in Handles : handle[g].fd = n  BY <3>1 DEF IInv, EverythingIsOwned
      <3> QED  BY <3>1, <3>2, <1>3
    <2>4. ASSUME NEW a \in Addresses, maps'[a] # 0 PROVE \E g \in Handles : handle'[g].data = a
      <3>1. a # handle[h].data /\ maps[a] # 0  BY <2>4, CloseTypes DEF Throw
      <3>2. PICK g \in Handles : handle[g].data = a  BY <3>1 DEF IInv, EverythingIsOwned
      <3> QED  BY <3>1, <3>2, <1>3
    <2>5. ASSUME NEW g \in Handles, NEW k \in Handles, g # k
          PROVE  /\ handle'[g].fd = handle'[k].fd => handle'[g].fd = NoFd
                 /\ handle'[g].data = handle'[k].data => handle'[g].data = Null
      BY <2>5, <1>3 DEF IInv, EverythingIsOwned, Absent
    <2> QED  BY <2>2, <2>3, <2>4, <2>5 DEF EverythingIsOwned
  <1>5. Stages'
    BY <1>1, <1>3 DEF IInv, Stages, At, IsOpen, Absent
  <1> QED  BY <1>2, <1>4, <1>5 DEF IInv

LEMMA OpenKeepsIInv == ASSUME IInv, NEW h \in Handles, Open(h) PROVE IInv'
  <1>1. PICK n \in Fds :
          /\ fds[n] = "free" /\ fds' = [fds EXCEPT ![n] = "index"]
          /\ handle' = [handle EXCEPT ![h] = [Absent EXCEPT !.pc = "opened", !.fd = n]]
    BY DEF Open
  <1>2. file' = file /\ job' = job /\ maps' = maps /\ handle[h] = Absent
    BY DEF Open, disk, IInv, Stages
  <1>3. n # NoFd  BY HandleAssumption DEF NoFd
  <1> DEFINE x == [Absent EXCEPT !.pc = "opened", !.fd = n]
  <1>4. x.pc = "opened" /\ x.fd = n /\ x.data = Null /\ x.size = 0  BY DEF Absent
  <1>5. TypeOK'
    <2>1. x \in [pc : {"absent", "opened", "mapped", "alive"}, fd : Fds \cup {NoFd},
                 data : Addresses \cup {Null}, size : Words]
      BY AbsentType DEF Absent
    <2> QED  BY <1>1, <1>2, <2>1 DEF IInv, TypeOK
  <1> HIDE DEF x
  <1>6. \A g \in Handles : handle'[g] = IF g = h THEN x ELSE handle[g]
    BY <1>1 DEF IInv, TypeOK, x
  <1>7. \A m \in Fds : fds'[m] = IF m = n THEN "index" ELSE fds[m]
    BY <1>1 DEF IInv, TypeOK
  <1>8. \A g \in Handles : handle[g].fd # n
    BY <1>1, <1>3 DEF IInv, EverythingIsOwned
  <1>9. handle[h].fd = NoFd /\ handle[h].data = Null  BY <1>2 DEF Absent
  <1>10. EverythingIsOwned'
    <2>1. ASSUME NEW g \in Handles
          PROVE  /\ handle'[g].fd # NoFd => fds'[handle'[g].fd] = "index"
                 /\ handle'[g].data # Null => /\ handle'[g].size # 0
                                              /\ maps'[handle'[g].data] = handle'[g].size
      BY <1>2, <1>4, <1>6, <1>7, <1>8 DEF IInv, TypeOK, EverythingIsOwned
    <2>2. ASSUME NEW m \in Fds, fds'[m] = "index" PROVE \E g \in Handles : handle'[g].fd = m
      <3>1. CASE m = n  BY <3>1, <1>4, <1>6
      <3>2. CASE m # n
        <4>1. PICK g \in Handles : handle[g].fd = m
          BY <2>2, <3>2, <1>7 DEF IInv, EverythingIsOwned
        <4>2. g # h  BY <4>1, <1>9, HandleAssumption DEF NoFd
        <4> QED  BY <4>1, <4>2, <1>6
      <3> QED  BY <3>1, <3>2
    <2>3. ASSUME NEW a \in Addresses, maps'[a] # 0 PROVE \E g \in Handles : handle'[g].data = a
      <3>1. PICK g \in Handles : handle[g].data = a
        BY <2>3, <1>2 DEF IInv, EverythingIsOwned
      <3>2. g # h  BY <3>1, <1>9, HandleAssumption DEF Null
      <3> QED  BY <3>1, <3>2, <1>6
    <2>4. ASSUME NEW g \in Handles, NEW k \in Handles, g # k
          PROVE  /\ handle'[g].fd = handle'[k].fd => handle'[g].fd = NoFd
                 /\ handle'[g].data = handle'[k].data => handle'[g].data = Null
      BY <2>4, <1>4, <1>6, <1>8 DEF IInv, EverythingIsOwned
    <2> QED  BY <2>1, <2>2, <2>3, <2>4 DEF EverythingIsOwned
  <1>11. Stages'
    BY <1>2, <1>3, <1>4, <1>6 DEF IInv, Stages, At, IsOpen
  <1> QED  BY <1>5, <1>10, <1>11 DEF IInv

LEMMA MapKeepsIInv == ASSUME IInv, NEW h \in Handles, Map(h) PROVE IInv'
  <1>1. PICK a \in Addresses :
          /\ maps[a] = 0 /\ maps' = [maps EXCEPT ![a] = file.size]
          /\ handle' = [handle EXCEPT ![h].pc = "mapped", ![h].data = a,
                                      ![h].size = file.size]
    BY DEF Map
  <1>2. file' = file /\ job' = job /\ fds' = fds /\ file.size > 0 /\ handle[h].data = Null
        /\ handle[h].pc = "opened"
    BY DEF Map, disk, IInv, Stages, At
  <1>3. a # Null /\ file.size \in Words /\ file.size # 0
    BY <1>2, HandleAssumption, FileAssumption DEF Null, IInv, TypeOK, File, Words
  <1> DEFINE x == [handle[h] EXCEPT !.pc = "mapped", !.data = a, !.size = file.size]
  <1>4. x.pc = "mapped" /\ x.fd = handle[h].fd /\ x.data = a /\ x.size = file.size
    BY DEF IInv, TypeOK
  <1>5. handle' = [handle EXCEPT ![h] = x]  BY <1>1 DEF IInv, TypeOK
  <1>6. TypeOK'
    <2>1. x \in [pc : {"absent", "opened", "mapped", "alive"}, fd : Fds \cup {NoFd},
                 data : Addresses \cup {Null}, size : Words]
      BY <1>3 DEF IInv, TypeOK
    <2> QED  BY <1>1, <1>2, <1>3, <1>5, <2>1 DEF IInv, TypeOK
  <1> HIDE DEF x
  <1>7. \A g \in Handles : handle'[g] = IF g = h THEN x ELSE handle[g]
    BY <1>5 DEF IInv, TypeOK
  <1>8. \A b \in Addresses : maps'[b] = IF b = a THEN file.size ELSE maps[b]
    BY <1>1 DEF IInv, TypeOK
  <1>9. \A g \in Handles : handle[g].data # a
    BY <1>1, <1>3 DEF IInv, EverythingIsOwned
  <1>10. EverythingIsOwned'
    <2>1. ASSUME NEW g \in Handles
          PROVE  /\ handle'[g].fd # NoFd => fds'[handle'[g].fd] = "index"
                 /\ handle'[g].data # Null => /\ handle'[g].size # 0
                                              /\ maps'[handle'[g].data] = handle'[g].size
      BY <1>2, <1>3, <1>4, <1>7, <1>8, <1>9 DEF IInv, TypeOK, EverythingIsOwned
    <2>2. ASSUME NEW m \in Fds, fds'[m] = "index" PROVE \E g \in Handles : handle'[g].fd = m
      BY <2>2, <1>2, <1>4, <1>7 DEF IInv, EverythingIsOwned
    <2>3. ASSUME NEW b \in Addresses, maps'[b] # 0 PROVE \E g \in Handles : handle'[g].data = b
      <3>1. CASE b = a  BY <3>1, <1>4, <1>7
      <3>2. CASE b # a
        <4>1. PICK g \in Handles : handle[g].data = b
          BY <2>3, <3>2, <1>8 DEF IInv, EverythingIsOwned
        <4>2. g # h  BY <4>1, <1>2, HandleAssumption DEF Null
        <4> QED  BY <4>1, <4>2, <1>7
      <3> QED  BY <3>1, <3>2
    <2>4. ASSUME NEW g \in Handles, NEW k \in Handles, g # k
          PROVE  /\ handle'[g].fd = handle'[k].fd => handle'[g].fd = NoFd
                 /\ handle'[g].data = handle'[k].data => handle'[g].data = Null
      BY <2>4, <1>4, <1>7, <1>9 DEF IInv, EverythingIsOwned
    <2> QED  BY <2>1, <2>2, <2>3, <2>4 DEF EverythingIsOwned
  <1>11. Stages'
    BY <1>2, <1>3, <1>4, <1>7 DEF IInv, Stages, At, IsOpen
  <1> QED  BY <1>6, <1>10, <1>11 DEF IInv

LEMMA AcceptKeepsIInv == ASSUME IInv, NEW h \in Handles, Accept(h) PROVE IInv'
  <1> DEFINE x == [handle[h] EXCEPT !.pc = "alive"]
  <1>1. handle' = [handle EXCEPT ![h] = x]  BY DEF Accept
  <1>2. file' = file /\ job' = job /\ fds' = fds /\ maps' = maps
        /\ Valid(file, handle[h].size)
    BY DEF Accept, disk
  <1>3. x.pc = "alive" /\ x.fd = handle[h].fd /\ x.data = handle[h].data
        /\ x.size = handle[h].size
    BY DEF IInv, TypeOK
  <1>4. TypeOK'
    <2>1. x \in [pc : {"absent", "opened", "mapped", "alive"}, fd : Fds \cup {NoFd},
                 data : Addresses \cup {Null}, size : Words]
      BY DEF IInv, TypeOK
    <2> QED  BY <1>1, <1>2, <2>1 DEF IInv, TypeOK
  <1> HIDE DEF x
  <1>5. \A g \in Handles : handle'[g] = IF g = h THEN x ELSE handle[g]
    BY <1>1 DEF IInv, TypeOK
  <1>6. \A g \in Handles : /\ handle'[g].fd = handle[g].fd /\ handle'[g].data = handle[g].data
                           /\ handle'[g].size = handle[g].size
    BY <1>3, <1>5
  <1>7. EverythingIsOwned'  BY <1>2, <1>6 DEF IInv, EverythingIsOwned
  <1>8. Stages'  BY <1>2, <1>3, <1>5 DEF IInv, Stages, At, IsOpen
  <1> QED  BY <1>4, <1>7, <1>8 DEF IInv

LEMMA ConstructKeepsIInv == ASSUME IInv, NEW h \in Handles, ConstructShut(h) PROVE IInv'
  <1>1. handle' = [handle EXCEPT ![h] = Shut] /\ handle[h] = Absent
        /\ file' = file /\ job' = job /\ fds' = fds /\ maps' = maps
    BY DEF ConstructShut, disk, IInv, Stages
  <1>2. Shut.pc = "alive" /\ Shut.fd = NoFd /\ Shut.data = Null /\ Shut.size = 0
        /\ Absent.fd = NoFd /\ Absent.data = Null /\ Absent.size = 0
    BY DEF Shut, Absent
  <1>3. TypeOK'  BY <1>1, AbsentType DEF IInv, TypeOK
  <1>4. \A g \in Handles : handle'[g] = IF g = h THEN Shut ELSE handle[g]
    BY <1>1 DEF IInv, TypeOK
  <1>5. \A g \in Handles : /\ handle'[g].fd = handle[g].fd /\ handle'[g].data = handle[g].data
                           /\ handle'[g].size = handle[g].size
    BY <1>1, <1>2, <1>4
  <1>6. EverythingIsOwned'  BY <1>1, <1>5 DEF IInv, EverythingIsOwned
  <1>7. Stages'  BY <1>1, <1>2, <1>4 DEF IInv, Stages, At, IsOpen
  <1> QED  BY <1>3, <1>6, <1>7 DEF IInv

LEMMA MoveKeepsIInv ==
  ASSUME IInv, NEW h \in Handles, NEW g \in Handles, MoveAssign(h, g) PROVE IInv'
  <1>1. handle' = [handle EXCEPT ![h] = handle[g], ![g] = Shut] /\ h # g
        /\ Close(handle[h]) /\ file' = file /\ job' = job
    BY DEF MoveAssign, disk
  <1>2. \A k \in Handles : handle'[k] = IF k = g THEN Shut
                                        ELSE IF k = h THEN handle[g] ELSE handle[k]
    BY <1>1 DEF IInv, TypeOK
  <1>3. Shut.pc = "alive" /\ Shut.fd = NoFd /\ Shut.data = Null /\ Shut.size = 0
    BY DEF Shut, Absent
  <1>4. TypeOK'
    <2>1. handle' \in [Handles -> [pc : {"absent", "opened", "mapped", "alive"},
                                   fd : Fds \cup {NoFd}, data : Addresses \cup {Null},
                                   size : Words]]
      BY <1>1, AbsentType DEF IInv, TypeOK
    <2> QED  BY <1>1, <2>1, CloseTypes DEF IInv, TypeOK
  <1>5. \A k, m \in Handles : k # m => /\ handle[k].fd = handle[m].fd => handle[k].fd = NoFd
                                       /\ handle[k].data = handle[m].data => handle[k].data = Null
    BY DEF IInv, EverythingIsOwned
  <1>6. EverythingIsOwned'
    <2>1. ASSUME NEW k \in Handles
          PROVE  /\ handle'[k].fd # NoFd => fds'[handle'[k].fd] = "index"
                 /\ handle'[k].data # Null => /\ handle'[k].size # 0
                                              /\ maps'[handle'[k].data] = handle'[k].size
      <3>1. CASE k = g  BY <3>1, <1>2, <1>3
      <3>2. ASSUME NEW m \in Handles, m # h, handle'[k] = handle[m]
            PROVE  /\ handle'[k].fd # NoFd => fds'[handle'[k].fd] = "index"
                   /\ handle'[k].data # Null => /\ handle'[k].size # 0
                                                /\ maps'[handle'[k].data] = handle'[k].size
        <4>1. handle[m].fd # NoFd => handle[m].fd \in Fds /\ fds[handle[m].fd] = "index"
              /\ handle[m].fd # handle[h].fd
          BY <3>2, <1>5 DEF IInv, TypeOK, EverythingIsOwned
        <4>2. handle[m].data # Null =>
                /\ handle[m].data \in Addresses /\ handle[m].size # 0
                /\ maps[handle[m].data] = handle[m].size /\ handle[m].data # handle[h].data
          BY <3>2, <1>5 DEF IInv, TypeOK, EverythingIsOwned
        <4> QED  BY <3>2, <4>1, <4>2, <1>1, CloseTypes
      <3> QED  BY <3>1, <3>2, <1>1, <1>2
    <2>2. ASSUME NEW n \in Fds, fds'[n] = "index" PROVE \E k \in Handles : handle'[k].fd = n
      <3>1. n # handle[h].fd /\ fds[n] = "index"  BY <2>2, <1>1, CloseTypes
      <3>2. PICK k \in Handles : handle[k].fd = n  BY <3>1 DEF IInv, EverythingIsOwned
      <3> QED  BY <3>1, <3>2, <1>1, <1>2
    <2>3. ASSUME NEW a \in Addresses, maps'[a] # 0 PROVE \E k \in Handles : handle'[k].data = a
      <3>1. a # handle[h].data /\ maps[a] # 0  BY <2>3, <1>1, CloseTypes
      <3>2. PICK k \in Handles : handle[k].data = a  BY <3>1 DEF IInv, EverythingIsOwned
      <3> QED  BY <3>1, <3>2, <1>1, <1>2
    <2>4. ASSUME NEW k \in Handles, NEW m \in Handles, k # m
          PROVE  /\ handle'[k].fd = handle'[m].fd => handle'[k].fd = NoFd
                 /\ handle'[k].data = handle'[m].data => handle'[k].data = Null
      <3>1. CASE k = g  BY <3>1, <2>4, <1>2, <1>3
      <3>2. CASE m = g  BY <3>2, <2>4, <1>2, <1>3
      <3>3. CASE k # g /\ m # g
        <4> DEFINE of(x) == IF x = h THEN g ELSE x
        <4>1. of(k) # of(m) /\ of(k) \in Handles /\ of(m) \in Handles  BY <2>4, <3>3
        <4>2. handle'[k] = handle[of(k)] /\ handle'[m] = handle[of(m)]  BY <3>3, <1>2
        <4> HIDE DEF of
        <4> QED  BY <4>1, <4>2, <1>5
      <3> QED  BY <3>1, <3>2, <3>3
    <2> QED  BY <2>1, <2>2, <2>3, <2>4 DEF EverythingIsOwned
  <1>7. Stages'
    <2>1. handle[g].pc = "alive" /\ (handle[g].data # Null =>
              handle[g].size = file.size /\ Valid(file, handle[g].size))
      BY DEF MoveAssign, At, IInv, Stages, IsOpen
    <2>2. \A k \in Handles : k # g => handle'[k] = handle[g] \/ (k # h /\ handle'[k] = handle[k])
      BY <1>2
    <2>3. ASSUME NEW k \in Handles
          PROVE  /\ handle'[k].pc = "absent" => handle'[k] = Absent
                 /\ handle'[k].pc = "opened" => handle'[k].fd # NoFd /\ handle'[k].data = Null
                 /\ handle'[k].pc = "mapped" => handle'[k].data # Null
                 /\ handle'[k].data # Null => handle'[k].size = file.size
                 /\ handle'[k].pc = "alive" /\ handle'[k].data # Null =>
                        Valid(file, handle'[k].size)
      <3>1. CASE k = g  BY <3>1, <1>2, <1>3
      <3>2. CASE handle'[k] = handle[g]  BY <3>2, <2>1
      <3>3. CASE handle'[k] = handle[k]  BY <3>3 DEF IInv, Stages, At, IsOpen
      <3> QED  BY <3>1, <3>2, <3>3, <2>2
    <2> QED  BY <2>3, <1>1 DEF Stages, At, IsOpen
  <1> QED  BY <1>4, <1>6, <1>7 DEF IInv

\* Other code closes only what it has opened.
LEMMA OthersKeepIInv == ASSUME IInv, OtherOpens \/ OtherCloses PROVE IInv'
  <1>1. file' = file /\ job' = job /\ maps' = maps /\ handle' = handle
    BY DEF OtherOpens, OtherCloses, disk
  <1>2. fds' \in [Fds -> {"free", "index", "other"}]
        /\ \A n \in Fds : fds'[n] = "index" <=> fds[n] = "index"
    BY DEF OtherOpens, OtherCloses, IInv, TypeOK
  <1>3. TypeOK'  BY <1>1, <1>2 DEF IInv, TypeOK
  <1>4. EverythingIsOwned'
    BY <1>1, <1>2 DEF IInv, TypeOK, EverythingIsOwned
  <1>5. Stages'  BY <1>1 DEF IInv, Stages, At, IsOpen
  <1> QED  BY <1>3, <1>4, <1>5 DEF IInv

LEMMA NextKeepsIInv == IInv /\ [Next]_vars => IInv'
  <1> SUFFICES ASSUME IInv, [Next]_vars PROVE IInv'  OBVIOUS
  <1>1. CASE UNCHANGED vars
    BY <1>1 DEF vars, IInv, TypeOK, EverythingIsOwned, Stages, At, IsOpen
  <1>2. ASSUME NEW h \in Handles, Open(h) PROVE IInv'  BY <1>2, OpenKeepsIInv
  <1>3. ASSUME NEW h \in Handles, MapFails(h) \/ Refuse(h) \/ Destroy(h) PROVE IInv'
    BY <1>3, ThrowKeepsIInv DEF MapFails, Refuse, Destroy
  <1>4. ASSUME NEW h \in Handles, Map(h) PROVE IInv'  BY <1>4, MapKeepsIInv
  <1>5. ASSUME NEW h \in Handles, Accept(h) PROVE IInv'  BY <1>5, AcceptKeepsIInv
  <1>6. ASSUME NEW h \in Handles, ConstructShut(h) PROVE IInv'  BY <1>6, ConstructKeepsIInv
  <1>7. ASSUME NEW h \in Handles, NEW g \in Handles, MoveAssign(h, g) PROVE IInv'
    BY <1>7, MoveKeepsIInv
  <1>8. CASE OtherOpens \/ OtherCloses  BY <1>8, OthersKeepIInv
  <1> QED  BY <1>1, <1>2, <1>3, <1>4, <1>5, <1>6, <1>7, <1>8 DEF Next

LEMMA Invariant == Spec => []IInv
  <1> QED  BY InitIsIInv, NextKeepsIInv, PTL DEF Spec

------------------------------------------------------------------------------
(* The theorems.                                                           *)

\* Every variable of the handles, the descriptors and the mappings keeps its type.
THEOREM TypeCorrect == Spec => []TypeOK
  <1>1. IInv => TypeOK  BY DEF IInv
  <1> QED  BY <1>1, Invariant, PTL

\* For any number of objects: no descriptor and no mapping is leaked, shared or
\* closed twice by constructors that throw, moves, closes and destructors.
THEOREM EverythingOwned == Spec => []EverythingIsOwned
  <1>1. IInv => EverythingIsOwned  BY DEF IInv
  <1> QED  BY <1>1, Invariant, PTL

\* For every width of the word, size of the structures and content of the file:
\* what validate has accepted is read inside the mapping, every record, vector
\* and string in its own section, although all sums and products may wrap.
THEOREM ReadsInside == Spec => []ReadsStayInside
  <1>1. IInv => ReadsStayInside
    <2> SUFFICES ASSUME IInv, NEW h \in Handles
                 PROVE  /\ At(h, "mapped") /\ HeadersValid(file, handle[h].size) =>
                             \A i \in Items(file) :
                                 Within(RecordAt(file.header, i), 0, handle[h].size)
                        /\ IsOpen(h) => \A i \in Items(file) :
                                 RecordIsInside(file, handle[h].size, i)
      BY DEF ReadsStayInside
    <2>1. file \in File  BY DEF IInv, TypeOK
    <2>2. ASSUME HeadersValid(file, handle[h].size), NEW i \in Items(file)
          PROVE  Within(RecordAt(file.header, i), 0, handle[h].size)
      <3> DEFINE k == file.header
      <3>1. k \in Header /\ RecordsFit(k) /\ k.file_size = handle[h].size
            /\ i \in 0..(k.item_count - 1)
        BY <2>1, <2>2 DEF File, HeadersValid, HeaderValid, SectionsValid, Items
      <3> HIDE DEF k
      <3>2. RecordAt(k, i) = Bytes(k.records_offset + i * RecordBytes, RecordBytes)
            /\ Within(RecordAt(k, i), HeaderBytes, RecordsEnd(k))
            /\ RecordsEnd(k) <= k.file_size /\ RecordsEnd(k) \in Nat
        BY <3>1, RecordsInside
      <3>3. k.records_offset + i * RecordBytes \in Nat /\ RecordBytes \in Nat
            /\ k.file_size \in Nat
        <4>1. k.records_offset \in Nat /\ RecordBytes \in Nat /\ i \in Nat /\ k.file_size \in Nat
          BY <3>1, HeaderTypes
        <4> QED  BY <4>1, MulAssoc
      <3>4. Within(RecordAt(k, i), 0, handle[h].size)
        BY <3>1, <3>2, <3>3 DEF Within, Bytes
      <3> QED  BY <3>4 DEF k
    <2>3. ASSUME IsOpen(h), NEW i \in Items(file)
          PROVE  RecordIsInside(file, handle[h].size, i)
      <3>1. Valid(file, handle[h].size)  BY <2>3 DEF IInv, Stages
      <3> QED  BY <3>1, <2>1, <2>3, AcceptedIsInside
    <2> QED  BY <2>2, <2>3
  <1> QED  BY <1>1, Invariant, PTL

\* For every list of items whose sizes add up to a word: validate accepts the
\* file that write lays out exactly if every item is describable, and the
\* accessors read every vector, source and text from where the stream put it.
THEOREM ReadBack == Spec => []WrittenIsReadBack
  <1> DEFINE Laid == job # NoJob => job \in Jobs /\ file = Written(job.items, job.dimensions)
  <1>1. Init => Laid  BY DEF Init
  <1>2. Laid /\ [Next]_vars => Laid'
    <2> SUFFICES ASSUME Laid, [Next]_vars PROVE Laid'  OBVIOUS
    <2>1. UNCHANGED <<file, job>>
      BY DEF Next, vars, disk, Open, MapFails, Throw, Map, Accept, Refuse, ConstructShut,
             MoveAssign, Destroy, OtherOpens, OtherCloses
    <2> QED  BY <2>1
  <1>3. Laid => WrittenIsReadBack
    <2> SUFFICES ASSUME Laid, job # NoJob
                 PROVE  /\ Valid(file, file.size) <=>
                              \A i \in 1..Len(job.items) : Describable(job.items[i])
                        /\ \A i \in 0..(Len(job.items) - 1) :
                              Accessed(file, i) = Emitted(job.items, job.dimensions, i)
      BY DEF WrittenIsReadBack
    <2>1. /\ job.items \in Seq(Item) /\ job.items # <<>>
          /\ job.dimensions \in Nat \ {0} /\ Fits(job.items, job.dimensions)
      BY JobTypes
    <2> QED  BY <2>1, WrittenIsValid, ReadsAreWrites
  <1> QED  BY <1>1, <1>2, <1>3, PTL DEF Spec
=============================================================================

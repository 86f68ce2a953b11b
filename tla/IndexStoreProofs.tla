-------------------------- MODULE IndexStoreProofs ---------------------------
(***************************************************************************)
(* Proofs about IndexStore, for any indexes, any number of readers and any *)
(* number of files.  Layer 1 (Private) holds under every fault; layer 2    *)
(* (Stored) adds what the files contain and needs that power is not lost.  *)
(* Both need that one command at a time writes the index.                  *)
(***************************************************************************)
EXTENDS IndexStore, TLAPS

------------------------------------------------------------------------------
(* Slots and files.                                                        *)

LEMMA BlocksAreTyped ==
    ASSUME NEW i \in Indexes, NEW p \in Slots
    PROVE  /\ Draft(i) \in Block /\ Sealed(i) \in Block
           /\ Payload(i, p) \in Block /\ Hole \in Block
BY StoreAssumption, SMT DEF Draft, Sealed, Payload, Hole, Block, Kinds, Slots

LEMMA EmptyIsTyped == Empty \in File
BY StoreAssumption, SMT DEF Empty, File, Block, Kinds, Hole, Slots

\* One write keeps a file a file.
LEMMA PutIsTyped ==
    ASSUME NEW f \in File, NEW p \in Slots, NEW b \in Block
    PROVE  Put(f, p, b) \in File
<1>1. Larger(f.size, p + 1) \in 0..(MaxLen + 1)
  BY StoreAssumption, SMT DEF Larger, File, Slots
<1>2. [f.data EXCEPT ![p] = b] \in [Slots -> Block]
  BY SMT DEF File
<1> QED BY <1>1, <1>2, SMT DEF Put, File

LEMMA WholeFileIsTyped ==
    ASSUME NEW i \in Indexes
    PROVE  WholeFile(i) \in File
<1>1. Lens[i] + 1 \in 0..(MaxLen + 1)
  BY StoreAssumption, SMT
<1>2. ASSUME NEW p \in Slots
      PROVE  (IF p = 0 THEN Sealed(i) ELSE IF p <= Lens[i] THEN Payload(i, p) ELSE Hole)
                 \in Block
  BY BlocksAreTyped
<1> QED BY <1>1, <1>2, SMT DEF WholeFile, File

\* What a loss of power leaves of a file is a file.
LEMMA RemainsAreTyped ==
    ASSUME NEW f \in File, NEW g \in Remains(f)
    PROVE  g \in File
<1>1. PICK s \in 0..f.size,
           h \in {f.data[0], Hole} \cup {Draft(i) : i \in {f.data[0].of} \cap Indexes},
           kept \in SUBSET (1..MaxLen) :
        g = [size |-> s, data |-> [p \in Slots |-> IF p >= s THEN Hole
                                                   ELSE IF p = 0 THEN h
                                                   ELSE IF p \in kept THEN f.data[p]
                                                   ELSE Hole]]
  BY DEF Remains
<1>2. f.size \in 0..(MaxLen + 1) /\ f.data \in [Slots -> Block] /\ 0 \in Slots
  BY StoreAssumption, SMT DEF File, Slots
<1>3. Hole \in Block /\ h \in Block
  <2>1. Hole \in Block
    BY StoreAssumption, SMT DEF Hole, Block, Kinds, Slots
  <2>2. ASSUME NEW i \in Indexes PROVE Draft(i) \in Block
    BY <1>2, BlocksAreTyped
  <2> QED BY <1>2, <2>1, <2>2
<1>4. s \in 0..(MaxLen + 1)
  BY <1>2, StoreAssumption, SMT
<1> QED BY <1>1, <1>2, <1>3, <1>4, SMT DEF File

\* A sealed header names its index.
LEMMA ContentOfWhole ==
    ASSUME NEW f, NEW i \in Indexes, Whole(f, i)
    PROVE  IsWhole(f) /\ Content(f) = i
BY SMT DEF Whole, IsWhole, Content, Sealed

LEMMA ContentIsIndex ==
    ASSUME NEW f, IsWhole(f)
    PROVE  Content(f) \in Indexes
BY ContentOfWhole DEF IsWhole

\* A file that validate() accepts at its own size is a whole index.
LEMMA AcceptedFileIsWhole ==
    ASSUME NEW f, Accepts(f, f.size)
    PROVE  IsWhole(f)
BY SMT DEF Accepts, IsWhole, Whole

(* Records: what one and two updates of a field do.                        *)

LEMMA IdleIsTyped == Idle \in Writer /\ Closed \in Reader
BY StoreAssumption, SMT DEF Idle, Closed, Writer, Reader, WriterStates, ReaderStates

\* Create and CloseTmp.
Moved(me, s, n) == [me EXCEPT !.pc = s, !.fd = n]

LEMMA WriterFields ==
    ASSUME NEW me \in Writer, NEW s \in WriterStates, NEW n \in Inodes \cup {NoInode}
    PROVE  /\ Moved(me, s, n) \in Writer
           /\ Moved(me, s, n).pc = s
           /\ Moved(me, s, n).fd = n
           /\ Moved(me, s, n).job = me.job
           /\ Moved(me, s, n).pos = me.pos
           /\ Moved(me, s, n).failed = me.failed
<1> DEFINE mid == [me EXCEPT !.pc = s]
<1>1. mid \in Writer /\ mid.pc = s /\ mid.job = me.job /\ mid.pos = me.pos /\ mid.failed = me.failed
  BY SMT DEF Writer, WriterStates
<1> HIDE DEF mid
<1> DEFINE new == [mid EXCEPT !.fd = n]
<1>2. new \in Writer /\ new.pc = mid.pc /\ new.fd = n /\ new.job = mid.job /\ new.pos = mid.pos /\ new.failed = mid.failed
  BY <1>1, SMT DEF Writer
<1> QED BY <1>1, <1>2 DEF mid, Moved

\* WriteFails.
Failed(me) == [me EXCEPT !.pc = "close", !.failed = TRUE]

LEMMA FailedFields ==
    ASSUME NEW me \in Writer
    PROVE  /\ Failed(me) \in Writer
           /\ Failed(me).pc = "close"
           /\ Failed(me).failed = TRUE
           /\ Failed(me).job = me.job
           /\ Failed(me).fd = me.fd
           /\ Failed(me).pos = me.pos
<1> DEFINE mid == [me EXCEPT !.pc = "close"]
<1>1. mid \in Writer /\ mid.pc = "close" /\ mid.job = me.job /\ mid.fd = me.fd /\ mid.pos = me.pos
  BY SMT DEF Writer, WriterStates
<1> HIDE DEF mid
<1> DEFINE new == [mid EXCEPT !.failed = TRUE]
<1>2. new \in Writer
  BY <1>1, Zenon DEF Writer
<1>4. new.pc = mid.pc /\ new.job = mid.job /\ new.fd = mid.fd /\ new.pos = mid.pos
  BY <1>1, SMT DEF Writer
<1>3. new.failed = TRUE
  BY <1>1, Zenon DEF Writer
<1> QED BY <1>1, <1>2, <1>3, <1>4 DEF mid, Failed

\* Begin.
Begun(i) == [Idle EXCEPT !.pc = "create", !.job = i]

LEMMA BeginFields ==
    ASSUME NEW i \in Indexes
    PROVE  /\ Begun(i) \in Writer
           /\ Begun(i).pc = "create"
           /\ Begun(i).job = i
           /\ Begun(i).fd = NoInode
           /\ Begun(i).pos = 0
           /\ Begun(i).failed = FALSE
<1> DEFINE mid == [Idle EXCEPT !.pc = "create"]
<1>1. mid \in Writer /\ mid.pc = "create" /\ mid.fd = Idle.fd /\ mid.pos = Idle.pos /\ mid.failed = Idle.failed
  BY IdleIsTyped, SMT DEF Writer, WriterStates
<1> HIDE DEF mid
<1> DEFINE new == [mid EXCEPT !.job = i]
<1>2. new \in Writer /\ new.pc = mid.pc /\ new.job = i /\ new.fd = mid.fd /\ new.pos = mid.pos /\ new.failed = mid.failed
  BY <1>1, SMT DEF Writer
<1> QED BY <1>1, <1>2 DEF mid, Begun, Idle

\* OpenIndex.
Opened(me, n) == [me EXCEPT !.pc = "opened", !.fd = n]

LEMMA OpenFields ==
    ASSUME NEW me \in Reader, NEW n \in Inodes
    PROVE  /\ Opened(me, n) \in Reader
           /\ Opened(me, n).pc = "opened"
           /\ Opened(me, n).fd = n
           /\ Opened(me, n).size = me.size
<1> DEFINE mid == [me EXCEPT !.pc = "opened"]
<1>1. mid \in Reader /\ mid.pc = "opened" /\ mid.size = me.size
  BY SMT DEF Reader, ReaderStates
<1> HIDE DEF mid
<1> DEFINE new == [mid EXCEPT !.fd = n]
<1>2. new \in Reader /\ new.pc = mid.pc /\ new.fd = n /\ new.size = mid.size
  BY <1>1, SMT DEF Reader
<1> QED BY <1>1, <1>2 DEF mid, Opened

\* MapIndex.
Mapped(me, s) == [me EXCEPT !.pc = "mapped", !.size = s]

LEMMA MapFields ==
    ASSUME NEW me \in Reader, NEW s \in 0..(MaxLen + 1)
    PROVE  /\ Mapped(me, s) \in Reader
           /\ Mapped(me, s).pc = "mapped"
           /\ Mapped(me, s).size = s
           /\ Mapped(me, s).fd = me.fd
<1> DEFINE mid == [me EXCEPT !.pc = "mapped"]
<1>1. mid \in Reader /\ mid.pc = "mapped" /\ mid.fd = me.fd
  BY SMT DEF Reader, ReaderStates
<1> HIDE DEF mid
<1> DEFINE new == [mid EXCEPT !.size = s]
<1>2. new \in Reader /\ new.pc = mid.pc /\ new.size = s /\ new.fd = mid.fd
  BY <1>1, SMT DEF Reader
<1> QED BY <1>1, <1>2 DEF mid, Mapped

------------------------------------------------------------------------------
(* Type correctness.                                                       *)

LEMMA InitTyped == Init => TypeOK
<1> SUFFICES ASSUME Init PROVE TypeOK
  OBVIOUS
<1>1. file \in [Inodes -> File]
  BY EmptyIsTyped, WholeFileIsTyped DEF Init
<1> QED BY <1>1, IdleIsTyped, SMT DEF Init, TypeOK, Idle, Closed

LEMMA NextTyped == TypeOK /\ [Next]_vars => TypeOK'
<1> SUFFICES ASSUME TypeOK, [Next]_vars PROVE TypeOK'
  OBVIOUS
<1>1. Idle \in Writer /\ Closed \in Reader
  BY IdleIsTyped
<1>a. ASSUME NEW w \in Writers, Ends(w), UNCHANGED <<file, unsynced, reader>>,
             dir' \in [path : Inodes \cup {NoInode}, tmp : Inodes \cup {NoInode}]
      PROVE  TypeOK'
  BY <1>1, <1>a, SMT DEF TypeOK, Ends, Idle
<1>b. ASSUME NEW w \in Writers, NEW s \in WriterStates \ {"idle", "write", "close"},
             writer[w].pc # "idle", Go(w, s), UNCHANGED <<file, unsynced, reader>>,
             dir' \in [path : Inodes \cup {NoInode}, tmp : Inodes \cup {NoInode}]
      PROVE  TypeOK'
  BY <1>b, SMT DEF TypeOK, Go, Writer
<1>c. ASSUME NEW w \in Writers, NEW me \in Writer, writer' = [writer EXCEPT ![w] = me],
             me.pc # "idle" => me.job \in Indexes,
             me.pc \in {"write", "close"} => me.fd \in Inodes,
             dir' \in [path : Inodes \cup {NoInode}, tmp : Inodes \cup {NoInode}],
             file' \in [Inodes -> File], unsynced' \subseteq Inodes, UNCHANGED reader
      PROVE  TypeOK'
  BY <1>c, SMT DEF TypeOK
<1>d. ASSUME NEW r \in Readers, NEW me \in Reader, reader' = [reader EXCEPT ![r] = me],
             me.pc # "closed" => me.fd \in Inodes, UNCHANGED <<dir, file, unsynced, writer>>
      PROVE  TypeOK'
  BY <1>d, SMT DEF TypeOK
<1>2. ASSUME NEW w \in Writers, WriterStep(w) PROVE TypeOK'
  <2>1. ASSUME NEW i \in Indexes, Begin(w, i) PROVE TypeOK'
    <3> DEFINE me == Begun(i)
    <3>1. me \in Writer /\ me.pc = "create" /\ me.job = i
      BY BeginFields
    <3>2. writer' = [writer EXCEPT ![w] = me] /\ UNCHANGED <<dir, file, unsynced, reader>>
      BY <2>1 DEF Begin, fs, Begun
    <3> HIDE DEF me
    <3> QED BY <3>1, <3>2, <1>c, SMT DEF TypeOK
  <2>2. CASE Create(w)
    <3>1. PICK n \in Inodes : /\ dir' = [dir EXCEPT !.tmp = n]
                              /\ file' = [file EXCEPT ![n] = Empty]
                              /\ unsynced' = unsynced \cup {n}
                              /\ writer' = [writer EXCEPT ![w] = [@ EXCEPT !.pc = "write", !.fd = n]]
      BY <2>2 DEF Create
    <3> DEFINE me == Moved(writer[w], "write", n)
    <3>2. me \in Writer /\ me.fd = n /\ me.job \in Indexes
      <4>1. writer[w] \in Writer /\ writer[w].job \in Indexes
        BY <2>2, SMT DEF TypeOK, Create, At
      <4>2. "write" \in WriterStates /\ n \in Inodes \cup {NoInode}
        BY DEF WriterStates
      <4> QED BY <4>1, <4>2, WriterFields
    <3>3. writer' = [writer EXCEPT ![w] = me]
      BY <3>1 DEF Moved
    <3>4. /\ dir' \in [path : Inodes \cup {NoInode}, tmp : Inodes \cup {NoInode}]
          /\ file' \in [Inodes -> File] /\ unsynced' \subseteq Inodes
      BY <3>1, EmptyIsTyped, SMT DEF TypeOK
    <3> HIDE DEF me
    <3>5. UNCHANGED reader
      BY <2>2 DEF Create
    <3> QED BY <3>2, <3>3, <3>4, <3>5, <1>c
  <2>3. CASE CreateFails(w) \/ KillWriter(w)
    BY <2>3, <1>a, SMT DEF CreateFails, KillWriter, fs, TypeOK
  <2>4. CASE Write(w)
    <3> DEFINE me == writer[w]
    <3> DEFINE block == IF me.pos = 0 THEN Draft(me.job) ELSE Payload(me.job, me.pos)
    <3>1. /\ me \in Writer /\ me.job \in Indexes /\ me.fd \in Inodes /\ file[me.fd] \in File
          /\ me.pc = "write" /\ me.pos <= Lens[me.job]
      BY <2>4, SMT DEF Write, At, TypeOK
    <3>2. me.pos \in Slots /\ me.pos + 1 \in 0..(MaxLen + 1)
      BY <3>1, StoreAssumption, SMT DEF Writer, Slots
    <3>3. block \in Block
      BY <3>1, <3>2, BlocksAreTyped
    <3>4. file' = [file EXCEPT ![me.fd] = Put(file[me.fd], me.pos, block)]
      BY <2>4 DEF Write
    <3>5. file' \in [Inodes -> File]
      BY <3>1, <3>2, <3>3, <3>4, PutIsTyped DEF TypeOK
    <3> HIDE DEF block
    <3> QED BY <2>4, <3>1, <3>2, <3>5, SMT DEF Write, TypeOK, Writer
  <2>5. CASE Seal(w)
    <3> DEFINE me == writer[w]
    <3>1. /\ me \in Writer /\ me.job \in Indexes /\ me.fd \in Inodes /\ file[me.fd] \in File
          /\ me.pc = "write"
      BY <2>5, SMT DEF Seal, At, TypeOK
    <3>2. 0 \in Slots
      BY StoreAssumption, SMT DEF Slots
    <3>3. file' \in [Inodes -> File]
      BY <2>5, <3>1, <3>2, BlocksAreTyped, PutIsTyped DEF Seal, TypeOK
    <3> QED BY <2>5, <3>1, <3>3, SMT DEF Seal, Go, TypeOK, Writer, WriterStates
  <2>6. CASE WriteFails(w)
    <3> DEFINE me == Failed(writer[w])
    <3>1. me \in Writer /\ me.fd \in Inodes /\ me.job \in Indexes
      <4>1. writer[w] \in Writer /\ writer[w].job \in Indexes /\ writer[w].fd \in Inodes
        BY <2>6, SMT DEF TypeOK, WriteFails, At
      <4> QED BY <4>1, FailedFields
    <3>2. writer' = [writer EXCEPT ![w] = me] /\ UNCHANGED <<dir, file, unsynced, reader>>
      BY <2>6 DEF WriteFails, fs, Failed
    <3> HIDE DEF me
    <3> QED BY <3>1, <3>2, <1>c, SMT DEF TypeOK
  <2>7. CASE CloseTmp(w)
    <3> DEFINE s == IF writer[w].failed THEN "discard" ELSE "rename"
    <3> DEFINE me == Moved(writer[w], s, NoInode)
    <3>0. s \in {"discard", "rename"}
      OBVIOUS
    <3>2. writer' = [writer EXCEPT ![w] = me] /\ UNCHANGED <<dir, file, unsynced, reader>>
      BY <2>7 DEF CloseTmp, fs, Moved
    <3> HIDE DEF s
    <3>1. me \in Writer /\ me.pc \in {"discard", "rename"} /\ me.job \in Indexes
      <4>1. writer[w] \in Writer /\ writer[w].job \in Indexes
        BY <2>7, SMT DEF TypeOK, CloseTmp, At
      <4>2. s \in WriterStates /\ NoInode \in Inodes \cup {NoInode}
        BY <3>0 DEF WriterStates
      <4>3. me \in Writer /\ me.pc = s /\ me.job = writer[w].job
        BY <4>1, <4>2, WriterFields
      <4> QED BY <3>0, <4>1, <4>3
    <3> HIDE DEF me
    <3> QED BY <3>1, <3>2, <1>c, SMT DEF TypeOK
  <2>8. CASE Rename(w)
    BY <2>8, <1>a, <1>b, SMT DEF Rename, Installs, RenameFails, At, TypeOK, WriterStates
  <2>9. CASE RemoveOld(w)
    BY <2>9, <1>b, SMT DEF RemoveOld, Removes, At, TypeOK, WriterStates
  <2>10. CASE RenameAgain(w)
    BY <2>10, <1>a, <1>b, SMT DEF RenameAgain, Installs, RenameFails, At, TypeOK, WriterStates
  <2>11. CASE Discard(w)
    BY <2>11, <1>a, SMT DEF Discard, Removes, TypeOK
  <2> QED BY <1>2, <2>1, <2>2, <2>3, <2>4, <2>5, <2>6, <2>7, <2>8, <2>9, <2>10, <2>11
          DEF WriterStep
<1>3. ASSUME NEW r \in Readers, ReaderStep(r) PROVE TypeOK'
  <2>1. CASE OpenIndex(r)
    <3> DEFINE me == Opened(reader[r], dir.path)
    <3>1. reader[r] \in Reader /\ dir.path \in Inodes
      BY <2>1, SMT DEF TypeOK, OpenIndex
    <3>2. reader' = [reader EXCEPT ![r] = me] /\ UNCHANGED <<dir, file, unsynced, writer>>
      BY <2>1 DEF OpenIndex, fs, Opened
    <3>3. me \in Reader /\ me.fd \in Inodes
      BY <3>1, OpenFields
    <3> HIDE DEF me
    <3> QED BY <3>2, <3>3, <1>d
  <2>2. CASE MapIndex(r)
    <3> DEFINE size == file[reader[r].fd].size
    <3> DEFINE me == Mapped(reader[r], size)
    <3>1. size \in 0..(MaxLen + 1) /\ reader[r].fd \in Inodes
      BY <2>2, SMT DEF MapIndex, TypeOK, File
    <3>2. /\ UNCHANGED <<dir, file, unsynced, writer>>
          /\ \/ reader' = [reader EXCEPT ![r] = Closed]
             \/ reader' = [reader EXCEPT ![r] = me]
      BY <2>2 DEF MapIndex, fs, Mapped
    <3> HIDE DEF size
    <3>3. me \in Reader /\ me.fd = reader[r].fd
      BY <3>1, MapFields DEF TypeOK
    <3>4. Closed.pc = "closed"
      BY DEF Closed
    <3> HIDE DEF me
    <3> QED BY <3>1, <3>2, <3>3, <3>4, <1>1, <1>d
  <2>3. CASE Validate(r)
    <3> DEFINE me == [reader[r] EXCEPT !.pc = "serving"]
    <3>1. me \in Reader /\ me.fd \in Inodes
      BY <2>3, SMT DEF TypeOK, Validate, Reader, ReaderStates
    <3>2. /\ UNCHANGED <<dir, file, unsynced, writer>>
          /\ \/ reader' = [reader EXCEPT ![r] = Closed]
             \/ reader' = [reader EXCEPT ![r] = me]
      BY <2>3 DEF Validate, fs
    <3>3. Closed.pc = "closed"
      BY DEF Closed
    <3> HIDE DEF me
    <3> QED BY <3>1, <3>2, <3>3, <1>1, <1>d
  <2>4. CASE CloseIndex(r)
    BY <2>4, <1>1, SMT DEF TypeOK, CloseIndex, fs, Closed
  <2> QED BY <1>3, <2>1, <2>2, <2>3, <2>4 DEF ReaderStep
<1>4. ASSUME NEW n \in Inodes, Sync(n) PROVE TypeOK'
  BY <1>4, SMT DEF TypeOK, Sync
<1>5. CASE PowerLoss
  <2>1. file' \in [Inodes -> File]
    <3>1. file \in [Inodes -> File] /\ unsynced \subseteq Inodes
      BY DEF TypeOK
    <3>2. ASSUME NEW name \in {"path", "tmp"} PROVE RemainsUnder(name) \subseteq File
      BY <3>1, EmptyIsTyped, RemainsAreTyped DEF RemainsUnder
    <3>3. PICK p \in RemainsUnder("path"), t \in RemainsUnder("tmp") :
            file' = [n \in Inodes |-> IF n \notin unsynced THEN file[n]
                                     ELSE IF n = dir.path THEN p
                                     ELSE IF n = dir.tmp THEN t
                                     ELSE Empty]
      BY <1>5 DEF PowerLoss
    <3>4. p \in File /\ t \in File
      BY <3>2, <3>3
    <3> QED BY <3>1, <3>3, <3>4, EmptyIsTyped
  <2> QED BY <1>5, <1>1, <2>1, SMT DEF PowerLoss, TypeOK, Idle, Closed
<1>6. CASE UNCHANGED vars
  BY <1>6, SMT DEF TypeOK, vars
<1> QED BY <1>2, <1>3, <1>4, <1>5, <1>6 DEF Next

\* Type correctness, whatever the faults and however many commands write.
THEOREM TypeCorrect == Spec => []TypeOK
BY InitTyped, NextTyped, PTL DEF Spec

------------------------------------------------------------------------------
(* Layer 1: a command writes under INDEX.tmp only, in a file that no query  *)
(* has open.  This is what freezes a mapped file.                           *)

Private ==
    /\ dir.tmp # NoInode => /\ dir.tmp # dir.path
                            /\ \A r \in Readers : reader[r].fd # dir.tmp
    /\ \A w \in Writers : writer[w].pc \in {"write", "close"} => writer[w].fd = dir.tmp
    /\ \A r \in Readers : reader[r].pc \in {"mapped", "serving"}
                              => reader[r].size = file[reader[r].fd].size
    /\ AcceptedIsWhole

LEMMA InitPrivate == Init => Private
BY SMT DEF Init, Private, AcceptedIsWhole, Idle, Closed

\* No step but a loss of power changes a file other than INDEX.tmp.
LEMMA OnlyTmpChanges ==
    ASSUME TypeOK, Private, [Next]_vars, ~PowerLoss, NEW n \in Inodes, n # dir'.tmp
    PROVE  file'[n] = file[n]
<1>1. ASSUME NEW w \in Writers, WriterStep(w) PROVE file'[n] = file[n]
  <2>1. CASE Create(w)
    BY <2>1, SMT DEF Create, TypeOK
  <2>2. CASE Write(w)
    BY <2>2, SMT DEF Write, At, TypeOK, Private
  <2>3. CASE Seal(w)
    BY <2>3, SMT DEF Seal, At, TypeOK, Private
  <2> QED BY <1>1, <2>1, <2>2, <2>3 DEF WriterStep, Begin, CreateFails, WriteFails, CloseTmp,
          Rename, RemoveOld, RenameAgain, Discard, KillWriter, fs
<1>2. ASSUME NEW r \in Readers, ReaderStep(r) PROVE file'[n] = file[n]
  BY <1>2 DEF ReaderStep, OpenIndex, MapIndex, Validate, CloseIndex, fs
<1> QED BY <1>1, <1>2 DEF Next, Sync, vars

\* The open descriptors of readers and the name INDEX never meet INDEX.tmp.
LEMMA TmpStaysPrivate ==
    ASSUME TypeOK, Private, SoleWriter, [Next]_vars, ~PowerLoss, dir'.tmp # NoInode
    PROVE  /\ dir'.tmp # dir'.path
           /\ \A r \in Readers : reader'[r].fd # dir'.tmp
<1>1. ASSUME NEW w \in Writers, WriterStep(w)
      PROVE  /\ dir'.tmp # dir'.path
             /\ \A r \in Readers : reader'[r].fd # dir'.tmp
  <2>1. CASE Create(w)
    BY <2>1, SMT DEF Create, Held, TypeOK, Private
  <2>2. CASE Rename(w) \/ RenameAgain(w)
    BY <2>2, SMT DEF Rename, RenameAgain, Installs, RenameFails, TypeOK, Private
  <2>3. CASE RemoveOld(w) \/ Discard(w)
    BY <2>3, SMT DEF RemoveOld, Discard, Removes, TypeOK, Private
  <2>4. CASE UNCHANGED <<dir, reader>>
    BY <2>4 DEF Private
  <2> QED BY <1>1, <2>1, <2>2, <2>3, <2>4 DEF WriterStep, Begin, CreateFails, Write, Seal,
          WriteFails, CloseTmp, KillWriter, fs
<1>2. ASSUME NEW r \in Readers, ReaderStep(r)
      PROVE  /\ dir'.tmp # dir'.path
             /\ \A q \in Readers : reader'[q].fd # dir'.tmp
  <2>1. UNCHANGED dir
    BY <1>2 DEF ReaderStep, OpenIndex, MapIndex, Validate, CloseIndex, fs
  <2>2. reader'[r].fd \in {reader[r].fd, dir.path, NoInode}
    <3>1. CASE OpenIndex(r)
      <4>1. reader[r] \in Reader /\ dir.path \in Inodes
        BY <3>1, SMT DEF OpenIndex, TypeOK
      <4>2. Opened(reader[r], dir.path).fd = dir.path
        BY <4>1, OpenFields
      <4> QED BY <3>1, <4>2 DEF OpenIndex, Opened, TypeOK
    <3>2. CASE MapIndex(r)
      <4>1. reader[r] \in Reader /\ file[reader[r].fd].size \in 0..(MaxLen + 1)
        BY <3>2, SMT DEF MapIndex, TypeOK, File
      <4>2. Mapped(reader[r], file[reader[r].fd].size).fd = reader[r].fd
        BY <4>1, MapFields
      <4> QED BY <3>2, <4>2 DEF MapIndex, Closed, TypeOK, Mapped
    <3>3. CASE Validate(r)
      BY <3>3, SMT DEF Validate, TypeOK, Reader, Closed
    <3>4. CASE CloseIndex(r)
      BY <3>4, SMT DEF CloseIndex, TypeOK, Closed
    <3> QED BY <1>2, <3>1, <3>2, <3>3, <3>4 DEF ReaderStep
  <2>3. \A q \in Readers : q # r => reader'[q] = reader[q]
    BY <1>2 DEF ReaderStep, OpenIndex, MapIndex, Validate, CloseIndex, TypeOK
  <2> QED BY <2>1, <2>2, <2>3 DEF Private
<1> QED BY <1>1, <1>2 DEF Next, Sync, vars, Private

LEMMA NextPrivate ==
    ASSUME TypeOK, TypeOK', Private, SoleWriter, [Next]_vars
    PROVE  Private'
<1>1. CASE PowerLoss
  BY <1>1, SMT DEF PowerLoss, Private, AcceptedIsWhole, Idle, Closed, TypeOK
<1>2. CASE ~PowerLoss
  <2>1. dir'.tmp # NoInode => /\ dir'.tmp # dir'.path
                              /\ \A r \in Readers : reader'[r].fd # dir'.tmp
    BY <1>2, TmpStaysPrivate
  <2>2. ASSUME NEW w \in Writers, writer'[w].pc \in {"write", "close"}
        PROVE  writer'[w].fd = dir'.tmp
    <3>1. CASE Create(w)
      <4>1. PICK n \in Inodes : /\ dir' = [dir EXCEPT !.tmp = n]
                                /\ writer' = [writer EXCEPT ![w] = Moved(writer[w], "write", n)]
        BY <3>1 DEF Create, Moved
      <4>2. Moved(writer[w], "write", n).fd = n
        BY WriterFields, SMT DEF TypeOK, WriterStates
      <4> QED BY <4>1, <4>2, SMT DEF TypeOK
    <3>2. CASE Write(w)
      BY <3>2, SMT DEF Write, At, TypeOK, Private, Writer
    <3>3. CASE Seal(w)
      BY <3>3, SMT DEF Seal, Go, At, TypeOK, Private, Writer
    <3>4. CASE WriteFails(w)
      <4>1. writer[w] \in Writer /\ writer[w].fd = dir.tmp /\ UNCHANGED dir
        BY <3>4, SMT DEF WriteFails, At, TypeOK, Private, fs
      <4>2. Failed(writer[w]).fd = writer[w].fd
        BY <4>1, FailedFields
      <4> QED BY <3>4, <4>1, <4>2 DEF WriteFails, Failed, TypeOK
    <3>5. CASE CloseTmp(w)
      <4> DEFINE s == IF writer[w].failed THEN "discard" ELSE "rename"
      <4>1. writer' = [writer EXCEPT ![w] = Moved(writer[w], s, NoInode)]
        BY <3>5 DEF CloseTmp, Moved
      <4>2. s \in WriterStates /\ s \notin {"write", "close"}
        BY DEF WriterStates
      <4> HIDE DEF s
      <4>3. Moved(writer[w], s, NoInode).pc = s
        BY <4>2, WriterFields DEF TypeOK
      <4> QED BY <2>2, <4>1, <4>2, <4>3 DEF TypeOK
    <3>6. CASE Rename(w) \/ RenameAgain(w)
      BY <2>2, <3>6, SMT DEF Rename, RenameAgain, Installs, RenameFails, Ends, Go, Idle, TypeOK, Writer
    <3>7. CASE RemoveOld(w)
      BY <2>2, <3>7, SMT DEF RemoveOld, Go, TypeOK, Writer
    <3>8. CASE Discard(w) \/ CreateFails(w) \/ KillWriter(w)
      BY <2>2, <3>8, SMT DEF Discard, CreateFails, KillWriter, Ends, Idle, TypeOK
    <3>9. ASSUME NEW i \in Indexes, Begin(w, i) PROVE FALSE
      <4>1. Begun(i).pc = "create"
        BY BeginFields
      <4> QED BY <2>2, <3>9, <4>1 DEF Begin, Begun, TypeOK
    <3>10. CASE UNCHANGED <<dir, writer>>
      BY <2>2, <3>10 DEF Private
    <3>11. \A v \in Writers : v = w
      BY DEF SoleWriter
    <3> QED BY <1>2, <3>1, <3>2, <3>3, <3>4, <3>5, <3>6, <3>7, <3>8, <3>9, <3>10, <3>11
            DEF Next, WriterStep, ReaderStep, OpenIndex, MapIndex, Validate, CloseIndex, Sync,
                vars, fs
  <2>3. ASSUME NEW r \in Readers, reader'[r].pc # "closed"
        PROVE  /\ reader'[r].pc \in {"mapped", "serving"}
                      => reader'[r].size = file'[reader'[r].fd].size
               /\ reader'[r].pc = "serving" => IsWhole(file'[reader'[r].fd])
    <3>1. file'[reader'[r].fd] = file[reader'[r].fd]
      <4>1. reader'[r].fd \in Inodes
        BY <2>3 DEF TypeOK
      <4>2. reader'[r].fd # dir'.tmp
        BY <2>1, <4>1, StoreAssumption
      <4> QED BY <1>2, <4>1, <4>2, OnlyTmpChanges
    <3>2. CASE reader'[r] = reader[r]
      BY <2>3, <3>1, <3>2 DEF Private, AcceptedIsWhole
    <3>3. CASE OpenIndex(r)
      <4>1. reader[r] \in Reader /\ dir.path \in Inodes
        BY <3>3, SMT DEF OpenIndex, TypeOK
      <4>2. Opened(reader[r], dir.path).pc = "opened"
        BY <4>1, OpenFields
      <4>3. reader'[r] = Opened(reader[r], dir.path)
        BY <3>3 DEF OpenIndex, Opened, TypeOK
      <4> QED BY <4>2, <4>3
    <3>4. CASE MapIndex(r)
      <4> DEFINE size == file[reader[r].fd].size
      <4> DEFINE me == Mapped(reader[r], size)
      <4>1. reader[r] \in Reader /\ size \in 0..(MaxLen + 1)
        BY <3>4, SMT DEF MapIndex, TypeOK, File
      <4>2. me.pc = "mapped" /\ me.fd = reader[r].fd /\ me.size = size
        BY <4>1, MapFields
      <4>3. reader' = [reader EXCEPT ![r] = me] \/ reader' = [reader EXCEPT ![r] = Closed]
        BY <3>4 DEF MapIndex, Mapped
      <4>4. Closed.pc = "closed"
        BY DEF Closed
      <4> HIDE DEF me
      <4> QED BY <2>3, <3>1, <4>2, <4>3, <4>4 DEF TypeOK
    <3>5. CASE Validate(r)
      <4>1. reader[r].size = file[reader[r].fd].size /\ reader[r] \in Reader
        BY <3>5 DEF Validate, Private, TypeOK
      <4>2. Accepts(file[reader[r].fd], reader[r].size) => IsWhole(file[reader[r].fd])
        BY <4>1, AcceptedFileIsWhole
      <4> DEFINE me == [reader[r] EXCEPT !.pc = "serving"]
      <4>3. me.fd = reader[r].fd /\ me.size = reader[r].size
        BY <4>1, SMT DEF Reader
      <4>4. Closed.pc = "closed"
        BY DEF Closed
      <4>5. \/ reader' = [reader EXCEPT ![r] = Closed]
            \/ reader' = [reader EXCEPT ![r] = me] /\ Accepts(file[reader[r].fd], reader[r].size)
        BY <3>5 DEF Validate
      <4> HIDE DEF me
      <4> QED BY <2>3, <3>1, <4>1, <4>2, <4>3, <4>4, <4>5 DEF TypeOK
    <3>6. CASE CloseIndex(r)
      BY <2>3, <3>6, SMT DEF CloseIndex, TypeOK, Closed
    <3>7. reader'[r] = reader[r] \/ ReaderStep(r)
      BY <1>2, Zenon DEF Next, WriterStep, ReaderStep, OpenIndex, MapIndex, Validate, CloseIndex,
          Begin, Create, CreateFails, Write, Seal, WriteFails, CloseTmp, Rename, RemoveOld,
          RenameAgain, Discard, KillWriter, Sync, vars, TypeOK
    <3> QED BY <3>2, <3>3, <3>4, <3>5, <3>6, <3>7 DEF ReaderStep
  <2> QED BY <2>1, <2>2, <2>3, SMT DEF Private, AcceptedIsWhole
<1> QED BY <1>1, <1>2

\* Whatever fails, the machine included, the index a query has accepted is one
\* whole index until the query closes it.
THEOREM AcceptedIndexIsWhole == ASSUME SoleWriter PROVE Spec => []AcceptedIsWhole
<1>1. Init => Private
  BY InitPrivate
<1>2. TypeOK /\ TypeOK' /\ Private /\ [Next]_vars => Private'
  BY NextPrivate
<1>3. Private => AcceptedIsWhole
  BY DEF Private
<1> QED BY <1>1, <1>2, <1>3, TypeCorrect, PTL DEF Spec

\* Between two states in which a reader is open it keeps its descriptor.
LEMMA DescriptorIsKept ==
    ASSUME TypeOK, [Next]_vars, NEW r \in Readers,
           reader[r].pc # "closed", reader'[r].pc # "closed"
    PROVE  reader'[r].fd = reader[r].fd /\ ~PowerLoss
<1>1. ~PowerLoss
  BY SMT DEF PowerLoss, Closed
<1>2. CASE reader'[r] = reader[r]
  BY <1>1, <1>2
<1>3. ASSUME NEW q \in Readers, ReaderStep(q) PROVE reader'[r].fd = reader[r].fd
  <2>1. CASE q # r
    BY <1>3, <2>1 DEF ReaderStep, OpenIndex, MapIndex, Validate, CloseIndex, TypeOK
  <2>2. CASE MapIndex(r)
    <3>1. reader[r] \in Reader /\ file[reader[r].fd].size \in 0..(MaxLen + 1)
      BY <2>2, SMT DEF MapIndex, TypeOK, File
    <3>2. Mapped(reader[r], file[reader[r].fd].size).fd = reader[r].fd
      BY <3>1, MapFields
    <3> QED BY <2>2, <3>2 DEF MapIndex, Closed, TypeOK, Mapped
  <2>3. CASE Validate(r)
    BY <2>3, SMT DEF Validate, TypeOK, Reader, Closed
  <2>4. CASE CloseIndex(r)
    BY <2>4, SMT DEF CloseIndex, TypeOK, Closed
  <2> QED BY <1>3, <2>1, <2>2, <2>3, <2>4 DEF ReaderStep, OpenIndex
<1>4. (\E q \in Readers : ReaderStep(q)) \/ UNCHANGED reader
  BY <1>1, Zenon DEF Next, WriterStep, Begin, Create, CreateFails, Write, Seal, WriteFails, CloseTmp,
      Rename, RemoveOld, RenameAgain, Discard, KillWriter, Sync, vars
<1> QED BY <1>1, <1>2, <1>3, <1>4

LEMMA MappedFileKept ==
    ASSUME TypeOK, TypeOK', Private, SoleWriter, [Next]_vars, NEW r \in Readers,
           reader[r].pc # "closed", reader'[r].pc # "closed"
    PROVE  file'[reader[r].fd] = file[reader[r].fd]
<1>1. reader'[r].fd = reader[r].fd /\ ~PowerLoss /\ reader[r].fd \in Inodes
  BY DescriptorIsKept DEF TypeOK
<1>2. reader[r].fd # dir'.tmp
  BY <1>1, TmpStaysPrivate, StoreAssumption
<1> QED BY <1>1, <1>2, OnlyTmpChanges

\* No command writes into a file that a query has mapped, under any fault.
THEOREM MappedIsFrozen == ASSUME SoleWriter PROVE Spec => MappedFileIsFrozen
<1>1. Init => Private
  BY InitPrivate
<1>2. TypeOK /\ TypeOK' /\ Private /\ [Next]_vars => Private'
  BY NextPrivate
<1>3. TypeOK /\ TypeOK' /\ Private /\ [Next]_vars =>
          [\A r \in Readers : (reader[r].pc # "closed" /\ reader'[r].pc # "closed")
              => file'[reader[r].fd] = file[reader[r].fd]]_vars
  BY MappedFileKept
<1> QED BY <1>1, <1>2, <1>3, TypeCorrect, PTL DEF Spec, MappedFileIsFrozen

------------------------------------------------------------------------------
(* Layer 2: what the files contain, as long as power is not lost.  The file *)
(* under INDEX.tmp is a growing prefix of the index, and whole from the     *)
(* moment its stream is closed without an error.                            *)

Written(f, me) == /\ f.size = me.pos
                  /\ me.pos <= Lens[me.job] + 1
                  /\ \A p \in 1..Lens[me.job] : p < me.pos => f.data[p] = Payload(me.job, p)

Complete == {"rename", "removeOld", "renameAgain"}

WriterStored(w) ==
    /\ writer[w].pc = "idle" => writer[w].job = NoIndex
    /\ writer[w].pc = "create" => writer[w].pos = 0 /\ ~writer[w].failed
    /\ writer[w].pc = "write" => Written(file[dir.tmp], writer[w]) /\ ~writer[w].failed
    /\ writer[w].pc = "close" => writer[w].failed \/ Whole(file[dir.tmp], writer[w].job)
    /\ writer[w].pc \in Complete =>
           dir.tmp # NoInode /\ Whole(file[dir.tmp], writer[w].job)
    /\ "renameError" \notin Faults => writer[w].pc \notin {"removeOld", "renameAgain"}

Stored ==
    /\ PathNeverTorn
    /\ ReaderNeverRefused
    /\ \A w \in Writers : WriterStored(w)

LEMMA InitStored == Init => Stored
BY SMT DEF Init, Stored, WriterStored, PathNeverTorn, ReaderNeverRefused, Complete, Idle, Closed

\* The one step that gives INDEX a new file is the rename.
LEMMA OnlyRenameInstalls ==
    ASSUME TypeOK, [Next]_vars, "powerLoss" \notin Faults
    PROVE  \/ dir'.path \in {dir.path, NoInode}
           \/ \E w \in Writers : /\ writer[w].pc \in {"rename", "renameAgain"}
                                 /\ Installs(w) /\ UNCHANGED file
<1>1. ASSUME NEW w \in Writers, Create(w) PROVE dir'.path = dir.path
  BY <1>1, SMT DEF Create, TypeOK
<1>2. ASSUME NEW w \in Writers, RemoveOld(w) \/ Discard(w) PROVE dir'.path \in {dir.path, NoInode}
  BY <1>2, SMT DEF RemoveOld, Discard, Removes, TypeOK
<1>3. ASSUME NEW w \in Writers, Rename(w) \/ RenameAgain(w)
      PROVE  \/ dir'.path = dir.path
             \/ /\ writer[w].pc \in {"rename", "renameAgain"}
                /\ Installs(w) /\ UNCHANGED file
  BY <1>3 DEF Rename, RenameAgain, RenameFails, At
<1>4. \/ UNCHANGED dir
      \/ \E w \in Writers : \/ Create(w) \/ RemoveOld(w) \/ Discard(w)
                            \/ Rename(w) \/ RenameAgain(w)
  BY Zenon DEF Next, WriterStep, Begin, CreateFails, Write, Seal, WriteFails, CloseTmp, KillWriter,
      ReaderStep, OpenIndex, MapIndex, Validate, CloseIndex, Sync, PowerLoss, vars, fs
<1> QED BY <1>1, <1>2, <1>3, <1>4

LEMMA PathStaysWhole ==
    ASSUME TypeOK, TypeOK', Private, Stored, SoleWriter, [Next]_vars, "powerLoss" \notin Faults
    PROVE  PathNeverTorn'
<1>1. CASE dir'.path = dir.path /\ dir.path # NoInode
  <2>1. dir.path # dir'.tmp /\ ~PowerLoss /\ dir.path \in Inodes
    BY <1>1, TmpStaysPrivate, SMT DEF PowerLoss, TypeOK
  <2> QED BY <1>1, <2>1, OnlyTmpChanges DEF Stored, PathNeverTorn
<1>2. CASE dir'.path = NoInode
  BY <1>2 DEF PathNeverTorn
<1>3. ASSUME NEW w \in Writers, writer[w].pc \in {"rename", "renameAgain"},
             Installs(w), UNCHANGED file
      PROVE  PathNeverTorn'
  <2>1. Whole(file[dir.tmp], writer[w].job) /\ writer[w].job \in Indexes
    BY <1>3 DEF Stored, WriterStored, Complete, TypeOK
  <2>2. dir'.path = dir.tmp
    BY <1>3 DEF Installs
  <2> QED BY <1>3, <2>1, <2>2 DEF PathNeverTorn, IsWhole
<1> QED BY <1>1, <1>2, <1>3, OnlyRenameInstalls

\* A reader becomes open only on the file that INDEX names.
LEMMA OpensPath ==
    ASSUME TypeOK, [Next]_vars, NEW r \in Readers,
           reader[r].pc = "closed", reader'[r].pc # "closed"
    PROVE  dir.path \in Inodes /\ reader'[r].fd = dir.path /\ UNCHANGED <<dir, file, writer>>
<1>1. OpenIndex(r)
  <2>1. ~PowerLoss
    BY SMT DEF PowerLoss, Closed
  <2>2. PICK q \in Readers : ReaderStep(q)
    BY <2>1, Zenon DEF Next, WriterStep, Begin, Create, CreateFails, Write, Seal, WriteFails, CloseTmp,
        Rename, RemoveOld, RenameAgain, Discard, KillWriter, Sync, vars
  <2>3. q = r
    BY <2>2 DEF ReaderStep, OpenIndex, MapIndex, Validate, CloseIndex, TypeOK
  <2> QED BY <2>2, <2>3 DEF ReaderStep, MapIndex, Validate, CloseIndex
<1>2. reader[r] \in Reader /\ dir.path \in Inodes
  BY <1>1, SMT DEF OpenIndex, TypeOK
<1>3. Opened(reader[r], dir.path).fd = dir.path
  BY <1>2, OpenFields
<1> QED BY <1>1, <1>2, <1>3 DEF OpenIndex, Opened, TypeOK, fs

LEMMA ReadersStayWhole ==
    ASSUME TypeOK, TypeOK', Private, Stored, SoleWriter, [Next]_vars, "powerLoss" \notin Faults
    PROVE  ReaderNeverRefused'
<1> SUFFICES ASSUME NEW r \in Readers, reader'[r].pc # "closed"
             PROVE  IsWhole(file'[reader'[r].fd])
  BY DEF ReaderNeverRefused
<1>1. CASE reader[r].pc # "closed"
  BY <1>1, DescriptorIsKept, MappedFileKept DEF Stored, ReaderNeverRefused
<1>2. CASE reader[r].pc = "closed"
  <2>1. dir.path # NoInode /\ reader'[r].fd = dir.path /\ UNCHANGED file
    BY <1>2, OpensPath, StoreAssumption
  <2> QED BY <2>1 DEF Stored, PathNeverTorn
<1> QED BY <1>1, <1>2

\* The payload grows by the slot that is written next.
LEMMA WriteExtends ==
    ASSUME TypeOK, Private, Stored, NEW w \in Writers, Write(w)
    PROVE  Written(file'[dir.tmp], [writer[w] EXCEPT !.pos = @ + 1])
<1> DEFINE me == writer[w]
<1> DEFINE f == file[dir.tmp]
<1> DEFINE block == IF me.pos = 0 THEN Draft(me.job) ELSE Payload(me.job, me.pos)
<1>1. /\ me.pc = "write" /\ me \in Writer /\ me.job \in Indexes
      /\ me.fd = dir.tmp /\ dir.tmp \in Inodes /\ f \in File
      /\ me.pos <= Lens[me.job] /\ Written(f, me)
  BY SMT DEF Write, At, TypeOK, Private, Stored, WriterStored
<1>2. file'[dir.tmp] = Put(f, me.pos, block)
  BY <1>1 DEF Write, TypeOK
<1>3. Lens[me.job] \in 1..MaxLen /\ me.pos \in Nat /\ MaxLen \in Nat
  BY <1>1, StoreAssumption, SMT DEF Writer
<1> DEFINE new == [writer[w] EXCEPT !.pos = @ + 1]
<1>4. new.pos = me.pos + 1 /\ new.job = me.job
  BY <1>1, SMT DEF Writer
<1>5. Put(f, me.pos, block).size = me.pos + 1
  BY <1>1, <1>3, SMT DEF Put, Larger, Written
<1>6. ASSUME NEW p \in 1..Lens[me.job], p < me.pos + 1
      PROVE  Put(f, me.pos, block).data[p] = Payload(me.job, p)
  <2>1. p \in Slots /\ me.pos \in Slots /\ f.data \in [Slots -> Block]
    BY <1>1, <1>3, SMT DEF Slots, File
  <2>2. CASE p = me.pos
    BY <2>1, <2>2, <1>3, SMT DEF Put
  <2>3. CASE p < me.pos
    BY <2>1, <2>3, <1>1, <1>3, SMT DEF Put, Written
  <2> QED BY <1>3, <1>6, <2>2, <2>3, SMT
<1> HIDE DEF block, new
<1>7. new.pos <= Lens[new.job] + 1
  BY <1>1, <1>3, <1>4, SMT
<1>8. Written(file'[dir.tmp], new)
  BY <1>2, <1>4, <1>5, <1>6, <1>7 DEF Written
<1> QED BY <1>8 DEF new

\* The sealed header makes the written payload a whole index.
LEMMA SealCompletes ==
    ASSUME TypeOK, Private, Stored, NEW w \in Writers, Seal(w)
    PROVE  Whole(file'[dir.tmp], writer[w].job)
<1> DEFINE me == writer[w]
<1> DEFINE f == file[dir.tmp]
<1>1. /\ me.pc = "write" /\ me \in Writer /\ me.job \in Indexes
      /\ me.fd = dir.tmp /\ dir.tmp \in Inodes /\ f \in File
      /\ me.pos = Lens[me.job] + 1 /\ Written(f, me)
  BY SMT DEF Seal, At, TypeOK, Private, Stored, WriterStored
<1>2. file'[dir.tmp] = Put(f, 0, Sealed(me.job))
  BY <1>1 DEF Seal, TypeOK
<1>3. Lens[me.job] \in 1..MaxLen /\ MaxLen \in Nat
  BY <1>1, StoreAssumption, SMT
<1>4. Put(f, 0, Sealed(me.job)).size = Lens[me.job] + 1
  BY <1>1, <1>3, SMT DEF Put, Larger, Written
<1>5. 0 \in Slots /\ f.data \in [Slots -> Block]
  BY <1>1, <1>3, SMT DEF Slots, File
<1>6. Put(f, 0, Sealed(me.job)).data[0] = Sealed(me.job)
  BY <1>5, SMT DEF Put
<1>7. ASSUME NEW p \in 1..Lens[me.job]
      PROVE  Put(f, 0, Sealed(me.job)).data[p] = Payload(me.job, p)
  <2>1. p \in Slots /\ p # 0 /\ p < me.pos
    BY <1>1, <1>3, SMT DEF Slots
  <2> QED BY <1>1, <1>5, <2>1, SMT DEF Put, Written
<1> QED BY <1>2, <1>4, <1>6, <1>7 DEF Whole

LEMMA WriterStaysStored ==
    ASSUME TypeOK, Private, Stored, [Next]_vars, "powerLoss" \notin Faults,
           SoleWriter, NEW w \in Writers
    PROVE  WriterStored(w)'
<1>1. WriterStored(w)
  BY DEF Stored
<1>2. CASE UNCHANGED <<dir, file, writer>>
  BY <1>1, <1>2 DEF WriterStored
<1>3. ASSUME NEW i \in Indexes, Begin(w, i) PROVE WriterStored(w)'
  <2>1. writer'[w] = Begun(i)
    BY <1>3 DEF Begin, Begun, TypeOK
  <2>2. Begun(i).pc = "create" /\ Begun(i).pos = 0 /\ Begun(i).failed = FALSE
    BY BeginFields
  <2> QED BY <2>1, <2>2 DEF WriterStored, Complete
<1>4. CASE Create(w)
  <2>1. PICK n \in Inodes : /\ dir' = [dir EXCEPT !.tmp = n]
                            /\ file' = [file EXCEPT ![n] = Empty]
                            /\ writer' = [writer EXCEPT ![w] = Moved(writer[w], "write", n)]
    BY <1>4 DEF Create, Moved
  <2> DEFINE new == Moved(writer[w], "write", n)
  <2>2. writer[w] \in Writer /\ "write" \in WriterStates /\ n \in Inodes \cup {NoInode}
    BY DEF TypeOK, WriterStates
  <2>3. /\ new.pc = "write" /\ new.job = writer[w].job
        /\ new.pos = writer[w].pos /\ new.failed = writer[w].failed
    BY <2>2, WriterFields
  <2>4. writer[w].job \in Indexes /\ writer[w].pos = 0 /\ ~writer[w].failed
    BY <1>1, <1>4 DEF Create, At, WriterStored, TypeOK
  <2> HIDE DEF new
  <2>5. Written(Empty, new)
    <3>1. Lens[new.job] \in Nat
      BY <2>3, <2>4, StoreAssumption, SMT
    <3> QED BY <2>3, <2>4, <3>1, SMT DEF Written, Empty
  <2>6. file'[dir'.tmp] = Empty /\ writer'[w] = new
    BY <2>1, SMT DEF TypeOK, new
  <2> QED BY <2>3, <2>4, <2>5, <2>6 DEF WriterStored, Complete
<1>5. CASE CreateFails(w) \/ KillWriter(w) \/ Discard(w)
  <2>1. writer'[w] = Idle
    BY <1>5 DEF CreateFails, KillWriter, Discard, Ends, TypeOK
  <2> QED BY <2>1 DEF WriterStored, Complete, Idle
<1>6. CASE Write(w)
  <2>1. Written(file'[dir'.tmp], [writer[w] EXCEPT !.pos = @ + 1])
    BY <1>6, WriteExtends DEF Write
  <2>2. writer'[w] = [writer[w] EXCEPT !.pos = @ + 1]
    BY <1>6 DEF Write, TypeOK
  <2>3. writer'[w].pc = "write"
    BY <1>6, SMT DEF Write, At, TypeOK, Writer
  <2>4. writer'[w].failed = writer[w].failed
    <3>1. writer[w] \in Writer
      BY DEF TypeOK
    <3>2. DOMAIN writer[w] = {"pc", "job", "fd", "pos", "failed"}
      BY <3>1 DEF Writer
    <3> QED BY <2>2, <3>2, Zenon
  <2>5. ~writer[w].failed
    BY <1>1, <1>6 DEF Write, At, WriterStored
  <2> QED BY <2>1, <2>2, <2>3, <2>4, <2>5 DEF WriterStored, Complete
<1>7. CASE Seal(w)
  <2>1. Whole(file'[dir'.tmp], writer[w].job)
    BY <1>7, SealCompletes DEF Seal
  <2>2. writer'[w].pc = "close" /\ writer'[w].job = writer[w].job
    BY <1>7, SMT DEF Seal, Go, TypeOK, Writer
  <2> QED BY <2>1, <2>2 DEF WriterStored, Complete
<1>8. CASE WriteFails(w)
  <2>1. writer'[w] = Failed(writer[w]) /\ writer[w] \in Writer
    BY <1>8 DEF WriteFails, Failed, TypeOK
  <2>2. writer'[w].pc = "close" /\ writer'[w].failed = TRUE
    BY <2>1, FailedFields
  <2> QED BY <2>2 DEF WriterStored, Complete
<1>9. CASE CloseTmp(w)
  <2> DEFINE s == IF writer[w].failed THEN "discard" ELSE "rename"
  <2>1. writer'[w] = Moved(writer[w], s, NoInode) /\ UNCHANGED <<dir, file>>
    BY <1>9 DEF CloseTmp, Moved, TypeOK, fs
  <2>2. s \in WriterStates /\ writer[w] \in Writer /\ NoInode \in Inodes \cup {NoInode}
    BY DEF WriterStates, TypeOK
  <2>3. writer[w].failed \/ Whole(file[dir.tmp], writer[w].job)
    BY <1>1, <1>9 DEF CloseTmp, At, WriterStored
  <2>4. dir.tmp # NoInode
    BY <1>9, StoreAssumption DEF CloseTmp, At, TypeOK, Private
  <2>5. s = "discard" \/ (s = "rename" /\ ~writer[w].failed)
    OBVIOUS
  <2> HIDE DEF s
  <2>6. writer'[w].pc = s /\ writer'[w].job = writer[w].job
    BY <2>1, <2>2, WriterFields
  <2> QED BY <2>1, <2>3, <2>4, <2>5, <2>6 DEF WriterStored, Complete
<1>10. CASE Rename(w) \/ RenameAgain(w)
  <2>1. CASE Ends(w)
    BY <2>1 DEF WriterStored, Complete, Ends, Idle, TypeOK
  <2>2. dir.tmp # NoInode /\ Whole(file[dir.tmp], writer[w].job) /\ UNCHANGED file
    BY <1>1, <1>10 DEF Rename, RenameAgain, At, WriterStored, Complete
  <2>3. ASSUME NEW s \in {"removeOld", "discard"}, Go(w, s), RenameFails(w, s)
        PROVE  WriterStored(w)'
    <3>1. writer'[w].pc = s /\ writer'[w].job = writer[w].job
      BY <2>3, SMT DEF Go, TypeOK, Writer
    <3>2. "renameError" \in Faults /\ UNCHANGED dir
      BY <2>2, <2>3 DEF RenameFails
    <3> QED BY <2>2, <3>1, <3>2 DEF WriterStored, Complete
  <2> QED BY <1>10, <2>1, <2>3 DEF Rename, RenameAgain, Installs, RenameFails
<1>11. CASE RemoveOld(w)
  <2>1. /\ dir.tmp # NoInode /\ Whole(file[dir.tmp], writer[w].job) /\ UNCHANGED file
        /\ "renameError" \in Faults
    BY <1>1, <1>11 DEF RemoveOld, At, WriterStored, Complete
  <2>2. dir'.tmp = dir.tmp
    BY <1>11, SMT DEF RemoveOld, Removes, TypeOK
  <2>3. writer'[w].pc = "renameAgain" /\ writer'[w].job = writer[w].job
    BY <1>11, SMT DEF RemoveOld, Go, TypeOK, Writer
  <2> QED BY <2>1, <2>2, <2>3 DEF WriterStored, Complete
<1>12. \A v \in Writers : v = w
  BY DEF SoleWriter
<1> QED BY <1>2, <1>3, <1>4, <1>5, <1>6, <1>7, <1>8, <1>9, <1>10, <1>11, <1>12
        DEF Next, WriterStep, ReaderStep, OpenIndex, MapIndex, Validate, CloseIndex, Sync,
            PowerLoss, vars, fs

LEMMA NextStored ==
    ASSUME TypeOK, TypeOK', Private, Stored, SoleWriter, [Next]_vars, "powerLoss" \notin Faults
    PROVE  Stored'
BY PathStaysWhole, ReadersStayWhole, WriterStaysStored DEF Stored

LEMMA StoredInvariant ==
    ASSUME SoleWriter, "powerLoss" \notin Faults
    PROVE  Spec => [](TypeOK /\ Private /\ Stored)
<1>1. Init => Private /\ Stored
  BY InitPrivate, InitStored
<1>2. TypeOK /\ TypeOK' /\ Private /\ Stored /\ [Next]_vars => Private' /\ Stored'
  BY NextPrivate, NextStored
<1> QED BY <1>1, <1>2, TypeCorrect, PTL DEF Spec

\* As long as power is not lost, INDEX never names a torn file: not while a
\* command writes, nor after one that failed, was killed or fell back to
\* removing INDEX.
THEOREM PathIsNeverTorn ==
    ASSUME SoleWriter, "powerLoss" \notin Faults
    PROVE  Spec => []PathNeverTorn
<1>1. Stored => PathNeverTorn
  BY DEF Stored
<1> QED BY <1>1, StoredInvariant, PTL

\* As long as power is not lost, a query that found INDEX is never refused.
THEOREM ReaderIsNeverRefused ==
    ASSUME SoleWriter, "powerLoss" \notin Faults
    PROVE  Spec => []ReaderNeverRefused
<1>1. Stored => ReaderNeverRefused
  BY DEF Stored
<1> QED BY <1>1, StoredInvariant, PTL

------------------------------------------------------------------------------
(* The refinement of AtomicIndex.                                          *)

Unfailing == {"renameError", "powerLoss"} \cap Faults = {}

LEMMA CurrentOfPath ==
    ASSUME Stored
    PROVE  /\ dir.path = NoInode => Current = NoIndex
           /\ dir.path # NoInode => Current = Content(file[dir.path]) /\ Current \in Indexes
           /\ \A r \in Readers : reader[r].pc # "closed" => Content(file[reader[r].fd]) \in Indexes
BY ContentIsIndex DEF Stored, PathNeverTorn, ReaderNeverRefused, Current

\* INDEX changes at the install only, and the new content is the command's job.
LEMMA CurrentMoves ==
    ASSUME TypeOK, TypeOK', Private, Stored, Stored', SoleWriter, Unfailing, [Next]_vars
    PROVE  \/ UNCHANGED Current
           \/ \E w \in Writers : /\ writer[w].pc \in {"rename", "renameAgain"}
                                 /\ Installs(w) /\ Current' = writer[w].job
                                 /\ UNCHANGED <<file, reader>>
<1>0. "renameError" \notin Faults /\ "powerLoss" \notin Faults
  BY DEF Unfailing
<1>1. ASSUME dir'.path = dir.path PROVE UNCHANGED Current
  <2>1. CASE dir.path = NoInode
    BY <1>1, <2>1 DEF Current
  <2>2. CASE dir.path # NoInode
    <3>1. dir.path # dir'.tmp /\ ~PowerLoss /\ dir.path \in Inodes
      BY <1>0, <1>1, <2>2, TmpStaysPrivate, SMT DEF PowerLoss, TypeOK
    <3>2. file'[dir.path] = file[dir.path]
      BY <3>1, OnlyTmpChanges
    <3> QED BY <1>1, <3>2 DEF Current
  <2> QED BY <2>1, <2>2
<1>2. ASSUME NEW w \in Writers, Rename(w) \/ RenameAgain(w)
      PROVE  \/ dir' = dir
             \/ /\ writer[w].pc \in {"rename", "renameAgain"}
                /\ Installs(w) /\ Current' = writer[w].job /\ UNCHANGED <<file, reader>>
  <2>1. CASE UNCHANGED dir
    BY <2>1
  <2>2. CASE Installs(w)
    <3>1. writer[w].pc \in {"rename", "renameAgain"} /\ UNCHANGED <<file, reader>>
      BY <1>2 DEF Rename, RenameAgain, At
    <3>2. /\ dir.tmp # NoInode /\ Whole(file[dir.tmp], writer[w].job)
          /\ writer[w].job \in Indexes
      BY <3>1 DEF Stored, WriterStored, Complete, TypeOK
    <3>3. dir'.path = dir.tmp
      BY <2>2 DEF Installs
    <3>4. Content(file[dir.tmp]) = writer[w].job
      BY <3>2, ContentOfWhole
    <3> QED BY <2>2, <3>1, <3>2, <3>3, <3>4 DEF Current
  <2> QED BY <1>2, <2>1, <2>2 DEF Rename, RenameAgain, RenameFails
<1>3. ASSUME NEW w \in Writers, Create(w) \/ Discard(w) PROVE dir'.path = dir.path
  <2>1. CASE Create(w)
    BY <2>1, SMT DEF Create, TypeOK
  <2>2. CASE Discard(w)
    BY <2>2, SMT DEF Discard, Removes, TypeOK
  <2> QED BY <1>3, <2>1, <2>2
<1>4. ASSUME NEW w \in Writers, RemoveOld(w) PROVE FALSE
  BY <1>0, <1>4 DEF RemoveOld, At, Stored, WriterStored
<1>5. \/ UNCHANGED dir
      \/ \E w \in Writers : \/ Create(w) \/ RemoveOld(w) \/ Discard(w)
                            \/ Rename(w) \/ RenameAgain(w)
  BY <1>0, Zenon DEF Next, WriterStep, Begin, CreateFails, Write, Seal, WriteFails, CloseTmp,
      KillWriter, ReaderStep, OpenIndex, MapIndex, Validate, CloseIndex, Sync, PowerLoss, vars, fs
<1> QED BY <1>1, <1>2, <1>3, <1>4, <1>5, Zenon

\* Unless a rename can fail or power is lost, an index that is there stays
\* there: no command ever leaves INDEX missing or unreadable.
THEOREM IndexStays ==
    ASSUME SoleWriter, Unfailing
    PROVE  Spec => IndexNeverVanishes
<1>1. "powerLoss" \notin Faults
  BY DEF Unfailing
<1>2. TypeOK /\ TypeOK' /\ Private /\ Stored /\ Stored' /\ [Next]_vars
          => [Current # NoIndex => Current' # NoIndex]_vars
  <2> SUFFICES ASSUME TypeOK, TypeOK', Private, Stored, Stored', [Next]_vars, Current # NoIndex
               PROVE  Current' # NoIndex
    OBVIOUS
  <2>1. ASSUME NEW w \in Writers, writer[w].pc \in {"rename", "renameAgain"}
        PROVE  writer[w].job # NoIndex
    BY <2>1, StoreAssumption, SMT DEF TypeOK
  <2> QED BY <2>1, CurrentMoves
<1> QED BY <1>1, <1>2, StoredInvariant, PTL DEF Spec, IndexNeverVanishes

LEMMA InitRefines == Init => Abstract!Init
<1> SUFFICES ASSUME Init PROVE Abstract!Init
  OBVIOUS
<1>1. Stored
  BY InitStored
<1>2. Current \in Indexes \cup {NoIndex}
  BY <1>1, CurrentOfPath
<1>3. Pending = [w \in Writers |-> NoIndex]
  BY SMT DEF Init, Pending, Idle
<1>4. View = [r \in Readers |-> NoIndex]
  BY SMT DEF Init, View, Closed
<1> QED BY <1>2, <1>3, <1>4 DEF Abstract!Init, Abstract!MaybeIndex

\* What the mapping of a reader's view does in any step.
LEMMA ViewMoves ==
    ASSUME TypeOK, TypeOK', Private, Stored, Stored', SoleWriter, Unfailing, [Next]_vars,
           NEW r \in Readers
    PROVE  /\ reader'[r] = reader[r] => View'[r] = View[r]
           /\ reader[r].pc # "closed" /\ reader'[r].pc # "closed" => View'[r] = View[r]
           /\ reader'[r].pc = "closed" => View'[r] = NoIndex
           /\ reader[r].pc = "closed" => View[r] = NoIndex
           /\ reader[r].pc # "closed" => View[r] \in Indexes
<1>1. ASSUME reader[r].pc # "closed", reader'[r].pc # "closed"
      PROVE  View'[r] = View[r]
  <2>1. file'[reader[r].fd] = file[reader[r].fd] /\ reader'[r].fd = reader[r].fd
    BY <1>1, MappedFileKept, DescriptorIsKept
  <2> QED BY <1>1, <2>1 DEF View
<1>2. reader[r].pc # "closed" => View[r] \in Indexes
  BY CurrentOfPath DEF View
<1> QED BY <1>1, <1>2 DEF View

\* A query's step opens the current index, closes its own, or changes nothing.
LEMMA ReaderStepRefines ==
    ASSUME TypeOK, TypeOK', Private, Stored, Stored', SoleWriter, Unfailing, [Next]_vars,
           NEW r \in Readers, ReaderStep(r)
    PROVE  [Abstract!Next]_(Abstract!vars)
<1>1. UNCHANGED <<dir, file, writer>> /\ \A q \in Readers : q # r => reader'[q] = reader[q]
  BY DEF ReaderStep, OpenIndex, MapIndex, Validate, CloseIndex, fs, TypeOK
<1>2. UNCHANGED <<Current, Pending>>
  BY <1>1 DEF Current, Pending
<1>3. \A q \in Readers : q # r => View'[q] = View[q]
  BY <1>1, ViewMoves
<1>4. View' = [View EXCEPT ![r] = View'[r]]
  BY <1>3 DEF View
<1>5. CASE reader[r].pc = "closed" /\ reader'[r].pc # "closed"
  <2>1. dir.path # NoInode /\ reader'[r].fd = dir.path
    BY <1>5, OpensPath, StoreAssumption
  <2>2. View[r] = NoIndex /\ View'[r] = Current /\ Current # NoIndex
    <3>1. Current = Content(file[dir.path]) /\ Current \in Indexes
      BY <2>1, CurrentOfPath
    <3> QED BY <1>1, <1>5, <2>1, <3>1, StoreAssumption DEF View
  <2>3. Abstract!Open(r)
    BY <1>2, <1>4, <2>2 DEF Abstract!Open
  <2> QED BY <2>3 DEF Abstract!Next
<1>6. CASE reader[r].pc # "closed" /\ reader'[r].pc = "closed"
  <2>1. View[r] # NoIndex /\ View'[r] = NoIndex
    BY <1>6, ViewMoves, StoreAssumption
  <2>2. Abstract!Close(r)
    BY <1>2, <1>4, <2>1 DEF Abstract!Close
  <2> QED BY <2>2 DEF Abstract!Next
<1>7. CASE (reader[r].pc = "closed") <=> (reader'[r].pc = "closed")
  <2>1. View'[r] = View[r]
    BY <1>7, ViewMoves
  <2>2. UNCHANGED View
    BY <1>4, <2>1 DEF View
  <2> QED BY <1>2, <2>2 DEF Abstract!vars
<1> QED BY <1>5, <1>6, <1>7

\* A command's step begins, commits or gives up a write, or changes nothing.
LEMMA WriterStepRefines ==
    ASSUME TypeOK, TypeOK', Private, Stored, Stored', SoleWriter, Unfailing, [Next]_vars,
           NEW w \in Writers, WriterStep(w)
    PROVE  [Abstract!Next]_(Abstract!vars)
<1>1. UNCHANGED reader /\ \A v \in Writers : v = w
  BY DEF WriterStep, Begin, Create, CreateFails, Write, Seal, WriteFails, CloseTmp, KillWriter,
         Rename, RemoveOld, RenameAgain, Discard, fs, SoleWriter
<1>2. UNCHANGED View
  <2>1. \A r \in Readers : View'[r] = View[r]
    BY <1>1, ViewMoves
  <2> QED BY <2>1 DEF View
<1>3. Pending[w] = writer[w].job /\ Pending'[w] = writer'[w].job
  BY DEF Pending
<1>4. Pending' = [Pending EXCEPT ![w] = writer'[w].job]
  BY <1>1 DEF Pending
<1>5. \/ UNCHANGED Current
      \/ writer[w].pc \in {"rename", "renameAgain"} /\ Installs(w) /\ Current' = writer[w].job
  BY <1>1, CurrentMoves
<1>6. writer[w].pc # "idle" => writer[w].job # NoIndex
  BY StoreAssumption DEF TypeOK
<1>7. ASSUME UNCHANGED Current, writer'[w].job = writer[w].job
      PROVE  UNCHANGED Abstract!vars
  <2>1. Pending' = Pending
    BY <1>4, <1>7 DEF Pending
  <2> QED BY <1>2, <1>7, <2>1 DEF Abstract!vars
<1>8. ASSUME NEW i \in Indexes, Begin(w, i) PROVE Abstract!Next
  <2>1. writer[w].pc = "idle" /\ writer[w].job = NoIndex
    BY <1>8 DEF Begin, At, Stored, WriterStored
  <2>2. writer'[w].job = i
    <3>1. Begun(i).job = i
      BY BeginFields
    <3> QED BY <1>8, <3>1 DEF Begin, Begun, TypeOK
  <2>3. Abstract!Begin(w, i)
    BY <1>2, <1>3, <1>4, <1>5, <2>1, <2>2 DEF Abstract!Begin
  <2> QED BY <2>3 DEF Abstract!Next
<1>9. ASSUME Ends(w), writer[w].pc # "idle" PROVE Abstract!Next
  <2>1. writer'[w].job = NoIndex
    BY <1>9 DEF Ends, Idle, TypeOK
  <2>2. Abstract!Commit(w) \/ Abstract!Abort(w)
    BY <1>2, <1>3, <1>4, <1>5, <1>6, <1>9, <2>1 DEF Abstract!Commit, Abstract!Abort
  <2> QED BY <2>2 DEF Abstract!Next
<1>10. CASE Create(w) \/ Write(w) \/ Seal(w) \/ WriteFails(w) \/ CloseTmp(w)
  <2>1. writer[w].pc \in {"create", "write", "close"}
    BY <1>10 DEF Create, Write, Seal, WriteFails, CloseTmp, At
  <2>2. writer'[w].job = writer[w].job
    <3>1. writer[w] \in Writer
      BY DEF TypeOK
    <3>2. CASE Create(w)
      <4>1. PICK n \in Inodes : writer'[w] = Moved(writer[w], "write", n)
        BY <3>2 DEF Create, Moved, TypeOK
      <4>2. "write" \in WriterStates /\ n \in Inodes \cup {NoInode}
        BY DEF WriterStates
      <4> QED BY <3>1, <4>1, <4>2, WriterFields
    <3>3. CASE Write(w)
      BY <3>1, <3>3, SMT DEF Write, Writer, TypeOK
    <3>4. CASE Seal(w)
      BY <3>1, <3>4, SMT DEF Seal, Go, Writer, TypeOK
    <3>5. CASE WriteFails(w)
      BY <3>1, <3>5, FailedFields DEF WriteFails, Failed, TypeOK
    <3>6. CASE CloseTmp(w)
      <4> DEFINE s == IF writer[w].failed THEN "discard" ELSE "rename"
      <4>1. writer'[w] = Moved(writer[w], s, NoInode)
        BY <3>6 DEF CloseTmp, Moved, TypeOK
      <4>2. s \in WriterStates /\ NoInode \in Inodes \cup {NoInode}
        BY DEF WriterStates
      <4> HIDE DEF s
      <4> QED BY <3>1, <4>1, <4>2, WriterFields
    <3> QED BY <1>10, <3>2, <3>3, <3>4, <3>5, <3>6
  <2>3. UNCHANGED Current
    BY <1>5, <2>1
  <2> QED BY <1>7, <2>2, <2>3
<1>11. CASE Rename(w) \/ RemoveOld(w) \/ RenameAgain(w)
  <2>1. CASE Ends(w)
    BY <1>9, <1>11, <2>1 DEF Rename, RemoveOld, RenameAgain, At
  <2>2. Ends(w)
    <3>1. writer[w].pc = "rename" /\ dir.tmp # NoInode /\ "renameError" \notin Faults
      BY <1>11 DEF Rename, RemoveOld, RenameAgain, At, Stored, WriterStored, Complete, Unfailing
    <3> QED BY <1>11, <3>1
            DEF Rename, RemoveOld, RenameAgain, At, Installs, RenameFails
  <2> QED BY <2>1, <2>2
<1>12. CASE CreateFails(w) \/ Discard(w) \/ KillWriter(w)
  BY <1>9, <1>12 DEF CreateFails, Discard, KillWriter, At
<1> QED BY <1>8, <1>10, <1>11, <1>12 DEF WriterStep

\* Unless a rename can fail or power is lost, index files are atomic: every
\* behaviour of the commands, their kills and full disks included, is one in
\* which an index is replaced whole or left alone, at one instant, and in which
\* a query keeps the index it opened.
THEOREM StoreIsAtomic ==
    ASSUME SoleWriter, Unfailing
    PROVE  Spec => ImplementsAtomicIndex
<1>1. "powerLoss" \notin Faults
  BY DEF Unfailing
<1>2. TypeOK /\ TypeOK' /\ Private /\ Stored /\ Stored' /\ [Next]_vars
          => [Abstract!Next]_(Abstract!vars)
  <2> SUFFICES ASSUME TypeOK, TypeOK', Private, Stored, Stored', [Next]_vars
               PROVE  [Abstract!Next]_(Abstract!vars)
    OBVIOUS
  <2>1. ASSUME UNCHANGED <<dir, file, writer, reader>> PROVE UNCHANGED Abstract!vars
    BY <2>1 DEF Abstract!vars, Current, Pending, View
  <2>2. CASE UNCHANGED vars
    BY <2>1, <2>2 DEF vars
  <2>3. ASSUME NEW n \in Inodes, Sync(n) PROVE UNCHANGED Abstract!vars
    BY <2>1, <2>3 DEF Sync
  <2> QED BY <1>1, <2>2, <2>3, ReaderStepRefines, WriterStepRefines DEF Next, PowerLoss
<1>3. Init => Abstract!Init
  BY InitRefines
<1> QED BY <1>1, <1>2, <1>3, StoredInvariant, PTL DEF Spec, ImplementsAtomicIndex, Abstract!Spec
=============================================================================

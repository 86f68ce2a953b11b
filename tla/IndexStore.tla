----------------------------- MODULE IndexStore ------------------------------
(***************************************************************************)
(* The life of an index file (src/src/mmap_index.cpp): `index` commands    *)
(* that run MmapIndex::write, one system call at a time, and query         *)
(* commands that run the MmapIndex constructor, read the mapping and       *)
(* close it.  They are separate processes that share two names of one      *)
(* directory, INDEX ("path") and INDEX.tmp ("tmp").                        *)
(*                                                                         *)
(* A file is a header slot and payload slots.  A slot is what one write    *)
(* left there: the draft header (payload_checksum still 0), the sealed     *)
(* header (the digest of that index's payload), one slot of an index's     *)
(* payload, or a hole.  The FNV-1a digest is taken to be collision free:   *)
(* it matches the payload it was computed from and no other.               *)
(***************************************************************************)
EXTENDS Naturals, FiniteSets

CONSTANTS
    Indexes,    \* the item sets that commands write
    NoIndex,
    Lens,       \* payload slots of each index
    MaxLen,     \* bound on Lens
    Writers,    \* `index` commands
    Readers,    \* `query`, `generate` and `ask` commands
    Inodes,     \* files the file system can hold
    NoInode,
    Faults      \* the faults that may happen, a subset of FaultKinds

FaultKinds == {"kill", "writeError", "renameError", "removeError", "powerLoss"}

ASSUME StoreAssumption ==
    /\ MaxLen \in Nat \ {0}
    /\ Lens \in [Indexes -> 1..MaxLen]
    /\ NoIndex \notin Indexes
    /\ NoInode \notin Inodes
    /\ Faults \subseteq FaultKinds

VARIABLES
    dir,        \* the directory: the file that "path" and "tmp" name
    file,       \* the content of every file
    unsynced,   \* the files whose latest writes are not on the disk yet
    writer,     \* per writer: its next system call (pc), the index it writes
                \* (job), its open file (fd), the slot its next write fills
                \* (pos) and the sticky failure state of its ofstream (failed)
    reader      \* per reader: how far the constructor got (pc), fd_ (fd) and
                \* mapped_size_ (size)

fs == <<dir, file, unsynced>>
vars == <<dir, file, unsynced, writer, reader>>

------------------------------------------------------------------------------
(* Slots and files.                                                        *)

Slots == 0..MaxLen

Kinds == {"draft", "sealed", "payload", "hole"}

Block == [kind : Kinds, of : Indexes \cup {NoIndex}, part : Slots]

Draft(i)      == [kind |-> "draft",   of |-> i,       part |-> 0]
Sealed(i)     == [kind |-> "sealed",  of |-> i,       part |-> 0]
Payload(i, p) == [kind |-> "payload", of |-> i,       part |-> p]
Hole          == [kind |-> "hole",    of |-> NoIndex, part |-> 0]

File == [size : 0..(MaxLen + 1), data : [Slots -> Block]]

Empty == [size |-> 0, data |-> [p \in Slots |-> Hole]]

WholeFile(i) ==
    [size |-> Lens[i] + 1,
     data |-> [p \in Slots |-> IF p = 0 THEN Sealed(i)
                               ELSE IF p <= Lens[i] THEN Payload(i, p)
                               ELSE Hole]]

Larger(a, b) == IF a >= b THEN a ELSE b

\* One write at slot p: a write beyond the end leaves a hole before it.
Put(f, p, b) == [size |-> Larger(f.size, p + 1),
                 data |-> [f.data EXCEPT ![p] = b]]

\* Mutant of Accepts: the payload digest is not compared.
AcceptsHeader(f, m) ==
    \E i \in Indexes : f.data[0] = Sealed(i) /\ m = Lens[i] + 1 /\ m <= f.size

\* MmapIndex::validate on a mapping of m slots.  The record and section
\* checks see nothing the digest does not; touching a page that is no longer
\* in the file is SIGBUS, which ends the reader as a rejection does.
Accepts(f, m) ==
    \E i \in Indexes :
        /\ f.data[0] = Sealed(i)
        /\ m = Lens[i] + 1
        /\ m <= f.size
        /\ \A p \in 1..Lens[i] : f.data[p] = Payload(i, p)

\* The file holds exactly index i.
Whole(f, i) ==
    /\ f.size = Lens[i] + 1
    /\ f.data[0] = Sealed(i)
    /\ \A p \in 1..Lens[i] : f.data[p] = Payload(i, p)

IsWhole(f) == \E i \in Indexes : Whole(f, i)

\* The index a file holds, NoIndex when it holds none whole.
Content(f) == IF IsWhole(f) THEN f.data[0].of ELSE NoIndex

WriterStates == {"idle", "create", "write", "close", "rename", "removeOld",
                 "renameAgain", "discard"}
ReaderStates == {"closed", "opened", "mapped", "serving"}

Writer == [pc : WriterStates, job : Indexes \cup {NoIndex}, fd : Inodes \cup {NoInode},
           pos : 0..(MaxLen + 1), failed : BOOLEAN]

Reader == [pc : ReaderStates, fd : Inodes \cup {NoInode}, size : 0..(MaxLen + 1)]

Idle == [pc |-> "idle", job |-> NoIndex, fd |-> NoInode, pos |-> 0, failed |-> FALSE]

\* close() leaves fd_ = -1, data_ = nullptr and mapped_size_ = 0.
Closed == [pc |-> "closed", fd |-> NoInode, size |-> 0]

\* A file lives while a name or an open descriptor holds it.
Held == {dir.path, dir.tmp} \cup {writer[w].fd : w \in Writers}
                            \cup {reader[r].fd : r \in Readers}

------------------------------------------------------------------------------
\* Before the first command of a run there may be an index, written by an
\* earlier one.
Init ==
    /\ file \in [Inodes -> {Empty} \cup {WholeFile(i) : i \in Indexes}]
    /\ dir \in [path : Inodes \cup {NoInode}, tmp : {NoInode}]
    /\ dir.path # NoInode => IsWhole(file[dir.path])
    /\ \A n \in Inodes : n # dir.path => file[n] = Empty
    /\ unsynced = {}
    /\ writer = [w \in Writers |-> Idle]
    /\ reader = [r \in Readers |-> Closed]

------------------------------------------------------------------------------
(* MmapIndex::write                                                        *)

At(w, pc) == writer[w].pc = pc
Go(w, pc) == writer' = [writer EXCEPT ![w].pc = pc]

\* write() returns or throws, and its locals are gone.
Ends(w) == writer' = [writer EXCEPT ![w] = Idle]

\* run_index has the items of index i and calls write().
Begin(w, i) ==
    /\ At(w, "idle")
    /\ writer' = [writer EXCEPT ![w] = [Idle EXCEPT !.pc = "create", !.job = i]]
    /\ UNCHANGED <<fs, reader>>

\* Mutant of Create: the stream opens INDEX itself.
CreateInPlace(w) ==
    /\ At(w, "create")
    /\ \E n \in Inodes :
        /\ IF dir.path = NoInode THEN n \notin Held ELSE n = dir.path
        /\ dir' = [dir EXCEPT !.path = n]
        /\ file' = [file EXCEPT ![n] = Empty]
        /\ unsynced' = unsynced \cup {n}
        /\ writer' = [writer EXCEPT ![w] = [@ EXCEPT !.pc = "write", !.fd = n]]
    /\ UNCHANGED reader

\* ofstream(INDEX.tmp, trunc): a leftover INDEX.tmp is emptied and reused.
Create(w) ==
    /\ At(w, "create")
    /\ \E n \in Inodes :
        /\ IF dir.tmp = NoInode THEN n \notin Held ELSE n = dir.tmp
        /\ dir' = [dir EXCEPT !.tmp = n]
        /\ file' = [file EXCEPT ![n] = Empty]
        /\ unsynced' = unsynced \cup {n}
        /\ writer' = [writer EXCEPT ![w] = [@ EXCEPT !.pc = "write", !.fd = n]]
    /\ UNCHANGED reader

\* "unable to create index"
CreateFails(w) ==
    /\ "writeError" \in Faults
    /\ At(w, "create")
    /\ Ends(w)
    /\ UNCHANGED <<fs, reader>>

\* The placeholder header, then the payload, each at the stream's own position.
Write(w) ==
    LET me == writer[w]
        block == IF me.pos = 0 THEN Draft(me.job) ELSE Payload(me.job, me.pos)
    IN  /\ At(w, "write")
        /\ me.pos <= Lens[me.job]
        /\ file' = [file EXCEPT ![me.fd] = Put(@, me.pos, block)]
        /\ unsynced' = unsynced \cup {me.fd}
        /\ writer' = [writer EXCEPT ![w].pos = @ + 1]
        /\ UNCHANGED <<dir, reader>>

\* Mutant of Seal: the final header is written before the payload is out.
SealEarly(w) ==
    LET me == writer[w]
    IN  /\ At(w, "write")
        /\ me.pos >= 1
        /\ file' = [file EXCEPT ![me.fd] = Put(@, 0, Sealed(me.job))]
        /\ unsynced' = unsynced \cup {me.fd}
        /\ Go(w, "close")
        /\ UNCHANGED <<dir, reader>>

\* seekp(0) and the header again, now with the digest of the payload.
Seal(w) ==
    LET me == writer[w]
    IN  /\ At(w, "write")
        /\ me.pos = Lens[me.job] + 1
        /\ file' = [file EXCEPT ![me.fd] = Put(@, 0, Sealed(me.job))]
        /\ unsynced' = unsynced \cup {me.fd}
        /\ Go(w, "close")
        /\ UNCHANGED <<dir, reader>>

\* A write, or the last flush in close(), fails (a full disk): every later
\* operation on the stream is a no-op.
WriteFails(w) ==
    /\ "writeError" \in Faults
    /\ At(w, "write") \/ (At(w, "close") /\ ~writer[w].failed)
    /\ writer' = [writer EXCEPT ![w] = [@ EXCEPT !.pc = "close", !.failed = TRUE]]
    /\ UNCHANGED <<fs, reader>>

\* Mutant of CloseTmp: the stream's state is not tested.
CloseUnchecked(w) ==
    /\ At(w, "close")
    /\ writer' = [writer EXCEPT ![w] = [@ EXCEPT !.pc = "rename", !.fd = NoInode]]
    /\ UNCHANGED <<fs, reader>>

\* close(), then the one test of the stream's state.
CloseTmp(w) ==
    /\ At(w, "close")
    /\ LET next == IF writer[w].failed THEN "discard" ELSE "rename"
       IN  writer' = [writer EXCEPT ![w] = [@ EXCEPT !.pc = next, !.fd = NoInode]]
    /\ UNCHANGED <<fs, reader>>

\* rename(INDEX.tmp, INDEX): INDEX names the new file from one instant on.
Installs(w) ==
    /\ dir.tmp # NoInode
    /\ dir' = [path |-> dir.tmp, tmp |-> NoInode]
    /\ Ends(w)

\* ENOENT when no INDEX.tmp is left, or any other error the call may return.
RenameFails(w, next) ==
    /\ dir.tmp = NoInode \/ "renameError" \in Faults
    /\ Go(w, next)
    /\ UNCHANGED dir

\* Mutant of Rename: INDEX is always removed before the rename.
RenameAfterRemove(w) ==
    /\ At(w, "rename")
    /\ Go(w, "removeOld")
    /\ UNCHANGED <<fs, reader>>

Rename(w) ==
    /\ At(w, "rename")
    /\ Installs(w) \/ RenameFails(w, "removeOld")
    /\ UNCHANGED <<file, unsynced, reader>>

\* Removes a name; an error of remove() leaves it.
Removes(name) == \/ dir' = [dir EXCEPT ![name] = NoInode]
                 \/ "removeError" \in Faults /\ UNCHANGED dir

\* The fallback after a failed rename: remove(INDEX), its own error ignored.
RemoveOld(w) ==
    /\ At(w, "removeOld")
    /\ Removes("path")
    /\ Go(w, "renameAgain")
    /\ UNCHANGED <<file, unsynced, reader>>

RenameAgain(w) ==
    /\ At(w, "renameAgain")
    /\ Installs(w) \/ RenameFails(w, "discard")
    /\ UNCHANGED <<file, unsynced, reader>>

\* Mutant of Discard: the wrong name is removed.
DiscardOld(w) ==
    /\ At(w, "discard")
    /\ Removes("path")
    /\ Ends(w)
    /\ UNCHANGED <<file, unsynced, reader>>

\* remove(INDEX.tmp), and write() throws.
Discard(w) ==
    /\ At(w, "discard")
    /\ Removes("tmp")
    /\ Ends(w)
    /\ UNCHANGED <<file, unsynced, reader>>

\* The process is killed: what it wrote stays, INDEX.tmp included.
KillWriter(w) ==
    /\ "kill" \in Faults
    /\ ~At(w, "idle")
    /\ Ends(w)
    /\ UNCHANGED <<fs, reader>>

------------------------------------------------------------------------------
(* MmapIndex::MmapIndex and the reader's use of the mapping                 *)

\* ::open(path); "unable to open index" when the name is missing.
OpenIndex(r) ==
    /\ reader[r].pc = "closed"
    /\ dir.path # NoInode
    /\ reader' = [reader EXCEPT ![r] = [@ EXCEPT !.pc = "opened", !.fd = dir.path]]
    /\ UNCHANGED <<fs, writer>>

\* fstat and mmap; an empty file is refused.
MapIndex(r) ==
    LET size == file[reader[r].fd].size
    IN  /\ reader[r].pc = "opened"
        /\ reader' = [reader EXCEPT ![r] =
                          IF size = 0 THEN Closed
                                      ELSE [@ EXCEPT !.pc = "mapped", !.size = size]]
        /\ UNCHANGED <<fs, writer>>

\* validate(), which reads the file as it is now; close() when it throws.
Validate(r) ==
    /\ reader[r].pc = "mapped"
    /\ reader' = [reader EXCEPT ![r] =
                      IF Accepts(file[reader[r].fd], reader[r].size)
                      THEN [@ EXCEPT !.pc = "serving"] ELSE Closed]
    /\ UNCHANGED <<fs, writer>>

\* The command is done with the index, or ends early.
CloseIndex(r) ==
    /\ reader[r].pc # "closed"
    /\ reader' = [reader EXCEPT ![r] = Closed]
    /\ UNCHANGED <<fs, writer>>

------------------------------------------------------------------------------
(* The file system and the machine                                         *)

\* Write-back: nothing in the code asks for it (there is no fsync).
Sync(n) ==
    /\ "powerLoss" \in Faults
    /\ n \in unsynced
    /\ unsynced' = unsynced \ {n}
    /\ UNCHANGED <<dir, file, writer, reader>>

\* What may be left of file f: any of its slots, up to any length, and for a
\* sealed header also the draft it replaced.
Remains(f) ==
    {[size |-> s, data |-> [p \in Slots |-> IF p >= s THEN Hole
                                            ELSE IF p = 0 THEN h
                                            ELSE IF p \in kept THEN f.data[p]
                                            ELSE Hole]] :
        s \in 0..f.size,
        h \in {f.data[0], Hole} \cup {Draft(i) : i \in {f.data[0].of} \cap Indexes},
        kept \in SUBSET (1..MaxLen)}

RemainsUnder(name) ==
    IF dir[name] \in unsynced THEN Remains(file[dir[name]]) ELSE {Empty}

\* The machine stops: every process ends, and each file that was not written
\* back keeps an arbitrary part of itself; one without a name is gone.
\* Renames survive (a journalled directory), which is the order that hurts: a
\* new name, old data.
PowerLoss ==
    /\ "powerLoss" \in Faults
    /\ \E p \in RemainsUnder("path"), t \in RemainsUnder("tmp") :
        file' = [n \in Inodes |-> IF n \notin unsynced THEN file[n]
                                 ELSE IF n = dir.path THEN p
                                 ELSE IF n = dir.tmp THEN t
                                 ELSE Empty]
    /\ unsynced' = {}
    /\ writer' = [w \in Writers |-> Idle]
    /\ reader' = [r \in Readers |-> Closed]
    /\ UNCHANGED dir

------------------------------------------------------------------------------
WriterStep(w) ==
    \/ \E i \in Indexes : Begin(w, i)
    \/ Create(w) \/ CreateFails(w)
    \/ Write(w) \/ Seal(w) \/ WriteFails(w) \/ CloseTmp(w)
    \/ Rename(w) \/ RemoveOld(w) \/ RenameAgain(w) \/ Discard(w)
    \/ KillWriter(w)

ReaderStep(r) == OpenIndex(r) \/ MapIndex(r) \/ Validate(r) \/ CloseIndex(r)

Next == \/ \E w \in Writers : WriterStep(w)
        \/ \E r \in Readers : ReaderStep(r)
        \/ \E n \in Inodes : Sync(n)
        \/ PowerLoss

Spec == Init /\ [][Next]_vars

------------------------------------------------------------------------------
(* Properties                                                              *)

\* Every variable keeps its type.
TypeOK ==
    /\ dir \in [path : Inodes \cup {NoInode}, tmp : Inodes \cup {NoInode}]
    /\ file \in [Inodes -> File]
    /\ unsynced \subseteq Inodes
    /\ writer \in [Writers -> Writer]
    /\ \A w \in Writers : writer[w].pc # "idle" => writer[w].job \in Indexes
    /\ \A w \in Writers : writer[w].pc \in {"write", "close"} => writer[w].fd \in Inodes
    /\ reader \in [Readers -> Reader]
    /\ \A r \in Readers : reader[r].pc # "closed" => reader[r].fd \in Inodes

\* At most one `index` command works on this index at a time.
SoleWriter == \A v, w \in Writers : v = w

\* INDEX never names a file that is not one whole index: draft headers, half
\* written payloads and files of a failed write stay under INDEX.tmp.
PathNeverTorn == dir.path # NoInode => IsWhole(file[dir.path])

\* A query that opened INDEX at any moment of a rebuild is never refused: the
\* file it holds is a whole index, whatever happens to the names meanwhile.
ReaderNeverRefused ==
    \A r \in Readers : reader[r].pc # "closed" => IsWhole(file[reader[r].fd])

\* The index a query has accepted is one whole index for as long as the query
\* uses it, even after a failed install or a loss of power.
AcceptedIsWhole ==
    \A r \in Readers : reader[r].pc = "serving" =>
        IsWhole(file[reader[r].fd]) /\ file[reader[r].fd].size = reader[r].size

\* No command writes into a file that a query has mapped: the mapping is shared
\* with the page cache, so such a write would change results mid-query.
MappedFileIsFrozen ==
    [][\A r \in Readers :
          (reader[r].pc # "closed" /\ reader'[r].pc # "closed")
              => file'[reader[r].fd] = file[reader[r].fd]]_vars

\* The index a reader would find, seen through INDEX.
Current == IF dir.path = NoInode THEN NoIndex ELSE Content(file[dir.path])

\* Once there is an index there is always one: a reader observes the previous
\* index or the new one, and never finds nothing.
IndexNeverVanishes == [][Current # NoIndex => Current' # NoIndex]_vars

------------------------------------------------------------------------------
(* The store implements AtomicIndex.                                       *)

Pending == [w \in Writers |-> writer[w].job]
View == [r \in Readers |-> IF reader[r].pc = "closed" THEN NoIndex
                              ELSE Content(file[reader[r].fd])]

Abstract == INSTANCE AtomicIndex WITH current <- Current, pending <- Pending, view <- View

\* Commands replace the index whole or leave it alone, at the instant of the
\* rename, and a reader keeps the index it opened.
ImplementsAtomicIndex == Abstract!Spec
=============================================================================

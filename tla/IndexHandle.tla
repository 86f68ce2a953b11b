----------------------------- MODULE IndexHandle -----------------------------
(***************************************************************************)
(* Handles on an index file: the MmapIndex objects of one process          *)
(* (src/src/mmap_index.cpp), what they hold of the process's descriptors   *)
(* and mappings, and what they read.  The file is either one that write()  *)
(* made from a list of items or holds any bytes.  Other code of the        *)
(* process opens and closes descriptors too, so that a number that is      *)
(* closed twice may by then belong to it.                                  *)
(***************************************************************************)
EXTENDS IndexFile

CONSTANTS
    Files,      \* the files that were not made by write()
    Jobs,       \* what write() is called with: the items and the dimensions
    NoJob,
    Handles,    \* the MmapIndex objects
    Fds,        \* the numbers that a descriptor can have
    Addresses   \* where the kernel can put a mapping

ASSUME HandleAssumption ==
    /\ Files \subseteq File
    /\ NoJob \notin Jobs
    /\ \A j \in Jobs : /\ j.items \in Seq(Item) \ {<<>>}
                       /\ j.dimensions \in HalfWords \ {0}
                       /\ Fits(j.items, j.dimensions)
    /\ Fds \subseteq Nat
    /\ Addresses \subseteq Nat \ {0}

VARIABLES
    file,       \* the file that the path names
    job,        \* what it was written from, or NoJob
    fds,        \* the process's descriptors: free, on the index, or another's
    maps,       \* how many bytes are mapped at each address
    handle      \* per object: its stage (pc), fd_, data_ and mapped_size_

vars == <<file, job, fds, maps, handle>>
disk == <<file, job>>

NoFd == -1
Null == 0

\* No object, or one whose constructor has thrown.
Absent == [pc |-> "absent", fd |-> NoFd, data |-> Null, size |-> 0]

\* A default-constructed, closed or moved-from object.
Shut == [Absent EXCEPT !.pc = "alive"]

IsOpen(h) == handle[h].pc = "alive" /\ handle[h].data # Null

------------------------------------------------------------------------------
Init ==
    /\ \/ file \in Files /\ job = NoJob
       \/ job \in Jobs /\ file = Written(job.items, job.dimensions)
    /\ fds = [n \in Fds |-> "free"]
    /\ maps = [a \in Addresses |-> 0]
    /\ handle = [h \in Handles |-> Absent]

\* MmapIndex::close on an object with the members x; munmap needs the size that
\* was mapped.
Close(x) ==
    /\ maps' = IF x.data = Null \/ maps[x.data] # x.size THEN maps
               ELSE [maps EXCEPT ![x.data] = 0]
    /\ fds' = IF x.fd = NoFd THEN fds ELSE [fds EXCEPT ![x.fd] = "free"]

At(h, pc) == handle[h].pc = pc

\* The constructor closes and throws: the object never came to exist.
Throw(h) ==
    /\ Close(handle[h])
    /\ handle' = [handle EXCEPT ![h] = Absent]
    /\ UNCHANGED disk

\* open() returns the lowest number that is free.
Open(h) ==
    /\ At(h, "absent")
    /\ \E n \in Fds :
        /\ fds[n] = "free" /\ \A m \in Fds : m < n => fds[m] # "free"
        /\ fds' = [fds EXCEPT ![n] = "index"]
        /\ handle' = [handle EXCEPT ![h] = [Absent EXCEPT !.pc = "opened", !.fd = n]]
    /\ UNCHANGED <<disk, maps>>

\* fstat or mmap fails, or the file is empty.
MapFails(h) == At(h, "opened") /\ Throw(h)

Map(h) ==
    /\ At(h, "opened") /\ file.size > 0
    /\ \E a \in Addresses :
        /\ maps[a] = 0
        /\ maps' = [maps EXCEPT ![a] = file.size]
        /\ handle' = [handle EXCEPT ![h].pc = "mapped", ![h].data = a,
                                    ![h].size = file.size]
    /\ UNCHANGED <<disk, fds>>

Accept(h) ==
    /\ At(h, "mapped") /\ Valid(file, handle[h].size)
    /\ handle' = [handle EXCEPT ![h].pc = "alive"]
    /\ UNCHANGED <<disk, fds, maps>>

Refuse(h) == At(h, "mapped") /\ ~Valid(file, handle[h].size) /\ Throw(h)

ConstructShut(h) ==
    /\ At(h, "absent")
    /\ handle' = [handle EXCEPT ![h] = Shut]
    /\ UNCHANGED <<disk, fds, maps>>

\* Mutant of MoveAssign: the members are copied and the source keeps them.
CopyAssign(h, g) ==
    /\ h # g /\ handle[h].pc \in {"absent", "alive"} /\ At(g, "alive")
    /\ Close(handle[h])
    /\ handle' = [handle EXCEPT ![h] = handle[g]]
    /\ UNCHANGED disk

\* h = std::move(g), also as the move constructor, whose object is shut before.
MoveAssign(h, g) ==
    /\ h # g /\ handle[h].pc \in {"absent", "alive"} /\ At(g, "alive")
    /\ Close(handle[h])
    /\ handle' = [handle EXCEPT ![h] = handle[g], ![g] = Shut]
    /\ UNCHANGED disk

Destroy(h) == At(h, "alive") /\ Throw(h)

OtherOpens ==
    /\ \E n \in Fds :
        /\ fds[n] = "free" /\ \A m \in Fds : m < n => fds[m] # "free"
        /\ fds' = [fds EXCEPT ![n] = "other"]
    /\ UNCHANGED <<disk, maps, handle>>

OtherCloses ==
    /\ \E n \in Fds : fds[n] = "other" /\ fds' = [fds EXCEPT ![n] = "free"]
    /\ UNCHANGED <<disk, maps, handle>>

Next ==
    \/ \E h \in Handles :
        \/ Open(h) \/ MapFails(h) \/ Map(h) \/ Accept(h) \/ Refuse(h)
        \/ ConstructShut(h) \/ Destroy(h)
        \/ \E g \in Handles : MoveAssign(h, g)
    \/ OtherOpens \/ OtherCloses

Spec == Init /\ [][Next]_vars

------------------------------------------------------------------------------
(* Properties                                                              *)

\* Every variable keeps its type.
TypeOK ==
    /\ file \in File
    /\ job \in Jobs \cup {NoJob}
    /\ fds \in [Fds -> {"free", "index", "other"}]
    /\ maps \in [Addresses -> Words]
    /\ handle \in [Handles -> [pc : {"absent", "opened", "mapped", "alive"},
                               fd : Fds \cup {NoFd}, data : Addresses \cup {Null},
                               size : Words]]

\* What is held is held by one object and nothing is held by none: every
\* descriptor on the index and every mapping belongs to exactly one object,
\* which knows the mapping's size, and no object has the number of another's
\* descriptor, whatever is thrown, moved and closed.
EverythingIsOwned ==
    /\ \A h \in Handles :
        /\ handle[h].fd # NoFd => fds[handle[h].fd] = "index"
        /\ handle[h].data # Null => /\ handle[h].size # 0
                                    /\ maps[handle[h].data] = handle[h].size
    /\ \A n \in Fds : fds[n] = "index" => \E h \in Handles : handle[h].fd = n
    /\ \A a \in Addresses : maps[a] # 0 => \E h \in Handles : handle[h].data = a
    /\ \A h, g \in Handles : h # g =>
        /\ handle[h].fd = handle[g].fd => handle[h].fd = NoFd
        /\ handle[h].data = handle[g].data => handle[h].data = Null

\* The bytes of record r, of its vector and of its strings: inside the file
\* and in the section where they belong, the vector aligned to a float.
RecordIsInside(f, size, i) ==
    LET h == f.header
        r == f.records[i]
    IN  /\ Within(RecordAt(h, i), HeaderBytes, h.vectors_offset)
        /\ Within(VectorOf(h, r), h.vectors_offset, h.strings_offset)
        /\ VectorOf(h, r).from % FloatBytes = 0
        /\ Within(SourceOf(r), h.strings_offset, size)
        /\ Within(TextOf(r), r.source_offset + r.source_size, size)

\* Nothing that is read from an index leaves its mapping, whatever the bytes of
\* the file: neither the records that validate reads before it has accepted
\* the file, nor what the accessors of an open object read for any item.
ReadsStayInside ==
    \A h \in Handles :
        /\ At(h, "mapped") /\ HeadersValid(file, handle[h].size) =>
            \A i \in Items(file) : Within(RecordAt(file.header, i), 0, handle[h].size)
        /\ IsOpen(h) => \A i \in Items(file) : RecordIsInside(file, handle[h].size, i)

\* The range is no range backwards, and the item has a scale or a text whose
\* size is not lost when it is narrowed.
Describable(item) ==
    /\ item.byte_begin <= item.byte_end
    /\ item.scale_bytes # 0 \/ item.text = 0 \/ item.text % HalfWord # 0

\* A file that write has laid out, which write installs whatever the items say,
\* is accepted exactly if its items are describable: one item that is not
\* makes the whole index one that nobody can open.  Every vector, source and
\* text is read back from where write put it.
WrittenIsReadBack ==
    job # NoJob =>
        /\ Valid(file, file.size) <=> \A i \in 1..Len(job.items) : Describable(job.items[i])
        /\ \A i \in 0..(Len(job.items) - 1) :
            Accessed(file, i) = Emitted(job.items, job.dimensions, i)
=============================================================================

----------------------------- MODULE AtomicIndex -----------------------------
(***************************************************************************)
(* What an index file promises its users, with no file system in sight:    *)
(* one index is current, `index` commands replace it whole or leave it     *)
(* alone, and a reader keeps the index it opened until it closes it.       *)
(* README: "a reader observes either the previous index or the new one".   *)
(***************************************************************************)
CONSTANTS Indexes, NoIndex, Writers, Readers

VARIABLES
    current,    \* the index a reader would get now, NoIndex before the first
    pending,    \* per writer: the index its command is writing
    view        \* per reader: the index it has open

vars == <<current, pending, view>>

MaybeIndex == Indexes \cup {NoIndex}

Init == /\ current \in MaybeIndex
        /\ pending = [w \in Writers |-> NoIndex]
        /\ view = [r \in Readers |-> NoIndex]

\* A command has its items and starts to write them.
Begin(w, i) == /\ pending[w] = NoIndex
               /\ pending' = [pending EXCEPT ![w] = i]
               /\ UNCHANGED <<current, view>>

\* The command succeeds: its whole index becomes the current one, at once.
Commit(w) == /\ pending[w] # NoIndex
             /\ current' = pending[w]
             /\ pending' = [pending EXCEPT ![w] = NoIndex]
             /\ UNCHANGED view

\* The command fails or is killed: the previous index stays current.
Abort(w) == /\ pending[w] # NoIndex
            /\ pending' = [pending EXCEPT ![w] = NoIndex]
            /\ UNCHANGED <<current, view>>

\* A reader opens the current index, and sees that one until it closes it.
Open(r) == /\ view[r] = NoIndex
           /\ current # NoIndex
           /\ view' = [view EXCEPT ![r] = current]
           /\ UNCHANGED <<current, pending>>

Close(r) == /\ view[r] # NoIndex
            /\ view' = [view EXCEPT ![r] = NoIndex]
            /\ UNCHANGED <<current, pending>>

Next == \/ \E w \in Writers : \/ \E i \in Indexes : Begin(w, i)
                              \/ Commit(w)
                              \/ Abort(w)
        \/ \E r \in Readers : Open(r) \/ Close(r)

Spec == Init /\ [][Next]_vars
=============================================================================

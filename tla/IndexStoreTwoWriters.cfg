\* Two commands that write the same index at the same time, no fault at all.
SPECIFICATION Spec
CONSTANTS
    i1 = i1  i2 = i2  r1 = r1  r2 = r2  n1 = n1  n2 = n2  n3 = n3  n4 = n4
    Indexes <- MCIndexes
    NoIndex = NoIndex
    Lens <- MCLens
    MaxLen <- MCMaxLen
    Writers = {w1, w2}
    Readers = {r1}
    Inodes = {n1, n2, n3, n4}
    NoInode = NoInode
    Faults = {}
SYMMETRY Symmetric
INVARIANTS PathNeverTorn

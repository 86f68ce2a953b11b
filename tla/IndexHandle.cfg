SPECIFICATION Spec
CONSTANTS
    Word = 32
    HalfWord = 4
    HeaderBytes = 3
    RecordBytes = 4
    FloatBytes = 2
    Alignment = 4
    NoJob = NoJob
    Handles = {h1, h2}
    Fds = {0, 1, 2}
    Addresses = {1, 2}
    Files <- MCFiles
    Jobs <- MCJobs
INVARIANTS EverythingIsOwned ReadsStayInside WrittenIsReadBack

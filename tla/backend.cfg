SPECIFICATION Spec
CONSTANTS
    Clients = {c1, c2}
    Buckets = {b1, b2}
    Written = {b1}
    ChunkSize = 2
    MaxTreeWalkVisits = 9
    MaxTreeDepth = 3
    MaxBytes = 100
    Files <- MCFiles
    Strays <- MCStrays
    Commits <- MCCommits
    ChunkPositions = {0, 4}
    MaxUploads = 2
    MaxLeaves = 7
SYMMETRY Symmetry
INVARIANTS
    TypeOK
    SignedIsAnswerable
    AnswersBindPosition
    ReceiptNamesItsLeaves
    CommittedDataReadable
    StatsExact
CHECK_DEADLOCK FALSE

\* Two requests, two users, two documents.
CONSTANTS
    r1 = r1
    r2 = r2
    r3 = r3
    ann = ann
    bob = bob
    c1 = c1
    NoOwner = NoOwner
    Requests <- MCTwo
    Owners <- MCOwners
    DocumentIds <- MCTwoDocuments
    ChunkIds <- MCChunks
    MaxHistoryId = 2
SPECIFICATION Spec
SYMMETRY MCSymmetry
INVARIANTS
    TypeOK
    AnswersRecorded
    SupportedByContext
    FailedMeansDeleted
PROPERTY ImplementsBook

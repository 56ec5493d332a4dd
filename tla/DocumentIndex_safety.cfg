\* Two requests, two owners: every interleaving of two of the four operations.
CONSTANTS
    r1 = r1
    r2 = r2
    alice = alice
    bob = bob
    NoOwner = NoOwner
    Requests <- MCRequests
    Owners <- MCOwners
    MaxDocumentId = 3
    MaxChunkId = 3
    MaxChunks = 2
    MaxLimit = 2
    VectorSize <- MCVectorSize
    InitialSizes <- MCInitialSizes
SPECIFICATION Spec
SYMMETRY MCSymmetry
INVARIANTS
    TypeOK
    WholeDocuments
    PublishedIsIndexed
    OnlyOwnChunks
    DocumentSearchComplete

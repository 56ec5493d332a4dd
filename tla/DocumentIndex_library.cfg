\* The abstract library and what searches lose.
CONSTANTS
    r1 = r1
    r2 = r2
    alice = alice
    bob = bob
    NoOwner = NoOwner
    Requests <- MCRequests
    Owners <- MCOwners
    MaxDocumentId = 2
    MaxChunkId = 3
    MaxChunks = 2
    MaxLimit = 2
    VectorSize <- MCVectorSize
    InitialSizes <- MCInitialSizes
SPECIFICATION Spec
SYMMETRY MCSymmetry
PROPERTIES
    ImplementsLibrary
    LostToStaleOnly

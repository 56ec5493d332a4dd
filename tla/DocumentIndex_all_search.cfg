\* One user, one request at a time: an all-documents search after a delete.
CONSTANTS
    r1 = r1
    r2 = r2
    alice = alice
    bob = bob
    NoOwner = NoOwner
    Requests <- MCOneRequest
    Owners <- MCOneOwner
    MaxDocumentId = 3
    MaxChunkId = 3
    MaxChunks = 2
    MaxLimit = 1
    VectorSize <- MCVectorSize
    InitialSizes <- MCInitialSizes
SPECIFICATION Spec
PROPERTY AllDocumentsSearched

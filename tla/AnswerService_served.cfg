\* Three requests about one document, under fairness.
CONSTANTS
    r1 = r1
    r2 = r2
    r3 = r3
    ann = ann
    bob = bob
    c1 = c1
    NoOwner = NoOwner
    Requests <- MCThree
    Owners <- MCOneOwner
    DocumentIds <- MCOneDocument
    ChunkIds <- MCChunks
    MaxHistoryId = 1
SPECIFICATION FairSpec
PROPERTY Served

\* Every legal and illegal configuration of small windows over small PDFs.
CONSTANTS
    LongPage = 9
    ShortPage = 2
    Pdfs <- MCPdfs
    ChunkSizes <- MCChunkSizes
    Overlaps <- MCOverlaps
SPECIFICATION Spec
\* the call returns or raises
CHECK_DEADLOCK FALSE
INVARIANTS
    TypeOK
    PhrasesKept
    IndexesConsecutive
    NothingRepeated
    ProcessedHasChunks
PROPERTY Advances

-------------------------- MODULE DocumentLibrary --------------------------
(***************************************************************************)
(* What the document store promises its users, without transactions,       *)
(* requests or a second database: a shelf of documents that appear whole,  *)
(* with every chunk searchable, never change and never trade chunks, until *)
(* their removal takes the document and its chunks in one step; and an id  *)
(* that names one document for good, so that who holds the id of a removed *)
(* one finds nothing, never the document of somebody else.                 *)
(* DocumentIndex implements it: see DocumentIndexRefinement.               *)
(***************************************************************************)
CONSTANTS
    Owners,       \* rows of the users table
    DocumentIds,  \* values of documents.id
    ChunkIds      \* values of document_chunks.id

VARIABLES
    shelf,  \* the documents users see, with their searchable chunks
    spent   \* ids no later document is given

Volume == [id : DocumentIds, owner_id : Owners,
           status : {"processed", "failed"}, searchable : SUBSET ChunkIds]

OnShelf(d) == \E v \in shelf : v.id = d

\* an upload: PROCESSED with all of its chunks searchable, at once
Publish(d, o, ids) ==
    /\ d \notin spent
    /\ spent' = spent \cup {d}
    /\ ids # {}
    /\ \A v \in shelf : v.searchable \cap ids = {}
    /\ shelf' = shelf \cup {[id |-> d, owner_id |-> o,
                             status |-> "processed", searchable |-> ids]}

\* an upload whose PDF has no text: kept, FAILED, with nothing to search
RecordFailure(d, o) ==
    /\ d \notin spent
    /\ spent' = spent \cup {d}
    /\ shelf' = shelf \cup {[id |-> d, owner_id |-> o,
                             status |-> "failed", searchable |-> {}]}

Discard(d) ==
    /\ OnShelf(d)
    /\ shelf' = {v \in shelf : v.id # d}
    /\ UNCHANGED spent

\* uploads that are rolled back use up their ids and leave nothing else
Forfeit(ds) ==
    /\ spent' = spent \cup ds
    /\ UNCHANGED shelf

LibraryInit == shelf = {} /\ spent = {}

Upload ==
    \/ \E d \in DocumentIds, o \in Owners :
         \/ \E ids \in SUBSET ChunkIds : Publish(d, o, ids)
         \/ RecordFailure(d, o)
    \/ \E ds \in SUBSET DocumentIds : Forfeit(ds)

LibraryNext == Upload \/ \E d \in DocumentIds : Discard(d)

LibrarySpec == LibraryInit /\ [][LibraryNext]_<<shelf, spent>>
=============================================================================

---------------------- MODULE DocumentIndexRefinement ----------------------
(***************************************************************************)
(* DocumentIndex implements DocumentLibrary: a committed row is a volume   *)
(* on the shelf, and a chunk of it is searchable when its row is committed *)
(* and Qdrant holds its point, under the document's own id and owner.  The *)
(* commit of an upload is the step that publishes.  An id is spent when    *)
(* the sequence is past it and no upload that could still commit holds it. *)
(***************************************************************************)
EXTENDS DocumentIndexInvariant

Searchable(row) ==
    {c.id : c \in {k \in Rows(row.id) :
       [id |-> k.id, owner_id |-> row.owner_id, document_id |-> row.id]
         \in points}}

Shelf == {[id |-> row.id, owner_id |-> row.owner_id,
           status |-> row.status,
           searchable |-> Searchable(row)] : row \in documents}

Spent == {d \in DocumentIds :
            /\ d < nextDocument
            /\ \A r \in Requests : Uncommitted(r) => req[r].document # d}

Library == INSTANCE DocumentLibrary WITH shelf <- Shelf, spent <- Spent

\* Uploads, deletes and late Qdrant writes, as users see them, are the steps of
\* the library: a document appears complete, keeps all its chunks searchable
\* and disappears whole, under an id that was never seen before and never is
\* again, however requests interleave, abort or crash.
ImplementsLibrary == Library!LibrarySpec
=============================================================================

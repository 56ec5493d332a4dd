----------------------- MODULE DocumentIndexInvariant -----------------------
(***************************************************************************)
(* Why the promises of DocumentIndex hold.  A point once claimed for a     *)
(* chunk id - stored, on its way to Qdrant, about to be sent, returned to  *)
(* a search or due to a committed row - is the only one ever claimed for   *)
(* it, as chunk ids come from a sequence and are never used again; the     *)
(* same holds of the owner of a document id.  So a batch that Qdrant       *)
(* applies late overwrites nothing, and a payload names the row's owner.   *)
(***************************************************************************)
EXTENDS DocumentIndex

\* an upload whose rows are not committed
Uncommitted(r) ==
    req[r].pc \in {"extract", "embed", "collection", "create", "upsert",
                   "indexing", "commit"}

PointOf(row, c) ==
    [id |-> c.id, owner_id |-> row.owner_id, document_id |-> row.id]

\* a point that exists somewhere in the system, or that a committed row needs
Claimed(x) ==
    \/ x \in points
    \/ \E batch \in inflight : x \in batch
    \/ \E r \in Requests : x \in Batch(r)
    \/ \E r \in Requests : x \in req[r].hits
    \/ \E row \in documents, c \in chunks :
         c.document_id = row.id /\ x = PointOf(row, c)

\* d is known somewhere in the system as a document of o
Deed(d, o) ==
    \/ \E row \in documents : row.id = d /\ row.owner_id = o
    \/ \E r \in Requests : req[r].document = d /\ req[r].owner = o
    \/ \E x \in Point : Claimed(x) /\ x.document_id = d /\ x.owner_id = o

\* a running request knows whose it is, and an upload its document
Attributed ==
    \A r \in Requests :
      /\ req[r].pc # "idle" => req[r].owner \in Owners
      /\ req[r].document # NoDocument => req[r].owner \in Owners
      /\ Uncommitted(r) => req[r].document \in DocumentIds

\* a chunk id belongs to one point
ClaimsApart ==
    /\ \A x, y \in Point : Claimed(x) /\ Claimed(y) /\ x.id = y.id => x = y
    /\ \A x \in Point : Claimed(x) => x.id < nextChunk

\* a document id belongs to one owner
DeedsApart ==
    \A d \in DocumentIds, o \in Owners : Deed(d, o) =>
      /\ d < nextDocument
      /\ \A p \in Owners : Deed(d, p) => o = p

\* an uncommitted upload has its document id to itself
UncommittedApart ==
    /\ \A r \in Requests : Uncommitted(r) =>
         \A row \in documents : row.id # req[r].document
    /\ \A r, q \in Requests :
         Uncommitted(r) /\ Uncommitted(q) /\ r # q
           => req[r].document # req[q].document
    /\ \A row1, row2 \in documents : row1.id = row2.id => row1 = row2

\* ON DELETE CASCADE
NoOrphanRows == \A c \in chunks : \E row \in documents : row.id = c.document_id

\* the points of an upload are in Qdrant before its rows can be committed
IndexedFirst ==
    \A r \in Requests :
      /\ At(r, "extract") => req[r].chunk_ids = {}
      /\ At(r, "indexing") => Batch(r) \in inflight \/ Batch(r) \subseteq points
      /\ At(r, "commit") => Batch(r) \subseteq points

\* what a search returned carries the owner and the document it asked for
HitsMatch ==
    \A r \in Requests :
      /\ \A p \in req[r].hits :
           /\ p.owner_id = req[r].owner
           /\ req[r].document \in {NoDocument, p.document_id}
      /\ \A c \in req[r].result :
           [id |-> c.id, owner_id |-> req[r].owner,
            document_id |-> c.document_id] \in req[r].hits
      /\ ~At(r, "reply") => req[r].result = {}

IInv ==
    /\ TypeOK
    /\ Attributed
    /\ ClaimsApart
    /\ DeedsApart
    /\ UncommittedApart
    /\ NoOrphanRows
    /\ IndexedFirst
    /\ PublishedIsIndexed
    /\ HitsMatch

\* an upload is PROCESSED with chunks or FAILED without, before it commits
StatusSettled ==
    \A r \in Requests :
      /\ req[r].pc \in {"embed", "collection", "create", "upsert", "indexing"}
           => req[r].chunk_ids # {}
      /\ At(r, "commit") => /\ req[r].status \in {"processed", "failed"}
                            /\ req[r].status = "failed" <=> req[r].chunk_ids = {}

\* what Qdrant holds, or still may come to hold
Sent(x) == x \in points \/ \E batch \in inflight : x \in batch

\* Of a document that exists, Qdrant has the points of its rows and no others;
\* of one that is being uploaded, the points of that upload.
NoStrayPoints ==
    \A x \in Point : Sent(x) =>
      /\ \A row \in documents :
           row.id = x.document_id => \E c \in Rows(row.id) : c.id = x.id
      /\ \A r \in Requests :
           Uncommitted(r) /\ req[r].document = x.document_id
             => x.id \in req[r].chunk_ids

\* no other request works on a document before its upload has committed
UploadsAlone ==
    \A r, q \in Requests :
      Uncommitted(r) /\ q # r => req[q].document # req[r].document

\* What a search of one document found is still as much as was asked for, as
\* long as the document is there.
HitsCounted ==
    \A r \in Requests :
      /\ req[r].response = "chunks" => At(r, "reply")
      /\ At(r, "load") /\ (\E row \in documents : row.id = req[r].document) =>
           /\ \A p \in req[r].hits :
                \E c \in Rows(req[r].document) : c.id = p.id
           /\ Cardinality(req[r].hits)
                = MinOf(req[r].limit, Cardinality(Rows(req[r].document)))

\* The second inductive invariant, on top of IInv: why a search of one document
\* is complete.
SearchInv ==
    /\ NoStrayPoints
    /\ UploadsAlone
    /\ HitsCounted
    /\ DocumentSearchComplete
=============================================================================

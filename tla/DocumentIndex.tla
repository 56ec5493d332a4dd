--------------------------- MODULE DocumentIndex ---------------------------
(***************************************************************************)
(* The document store of agentic_rag: the rows a request writes to         *)
(* PostgreSQL and the points it writes to Qdrant, for the four kinds of    *)
(* request that touch them: upload, delete, search of one document and     *)
(* search of all the documents of a user.                                  *)
(*                                                                         *)
(* A request runs in one SQL transaction, so its rows appear at Commit and *)
(* at no other step; Qdrant takes no part in that transaction.  A step of  *)
(* a request is the code between two awaits that touch PostgreSQL, Qdrant  *)
(* or the embedding provider; steps of concurrent requests interleave.     *)
(* Any await may raise and any request may be cut off (Abort, Crash).      *)
(***************************************************************************)
EXTENDS Integers, FiniteSets

CONSTANTS
    Requests,       \* slots of requests the server handles concurrently
    Owners,         \* rows of the users table
    NoOwner,        \* the owner of an idle slot
    MaxDocumentId,  \* bound on documents.id, an unbounded sequence in the code
    MaxChunkId,     \* bound on document_chunks.id, likewise
    MaxChunks,      \* bound on the chunks one PDF yields
    MaxLimit,       \* le=20 of DocumentSearchRequest.limit
    VectorSize,     \* OpenAIEmbeddingService.vector_size
    InitialSizes    \* vector sizes the Qdrant collection may have at start-up

ASSUME ConstantsAssumption ==
    /\ NoOwner \notin Owners
    /\ MaxDocumentId \in Nat /\ MaxChunkId \in Nat
    /\ MaxChunks \in Nat /\ MaxLimit \in Nat
    /\ VectorSize \in Nat \ {0}
    /\ InitialSizes \subseteq Nat

NoDocument == 0    \* document_id=None: a search of all the owner's documents
NoCollection == 0  \* the collection is not in client.get_collections()

VARIABLES
    documents,      \* committed rows of documents
    chunks,         \* committed rows of document_chunks
    points,         \* points of the Qdrant collection, by their payload
    collection,     \* its vector size, or NoCollection
    nextDocument,   \* next value of the sequence behind documents.id
    nextChunk,      \* next value of the sequence behind document_chunks.id
    inflight,       \* batches of points sent to Qdrant and not applied yet
    req             \* the local state of each request

rows == <<documents, chunks>>
store == <<points, collection>>
sequences == <<nextDocument, nextChunk>>
vars == <<documents, chunks, points, collection, nextDocument, nextChunk,
          inflight, req>>

DocumentIds == 1..MaxDocumentId
ChunkIds == 1..MaxChunkId

\* chunk_count is 0 where the code stores NULL, on a failed document
Document == [id : DocumentIds, owner_id : Owners,
             status : {"processing", "processed", "failed"}, chunk_count : Nat]
Chunk == [id : ChunkIds, document_id : DocumentIds]
Point == [id : ChunkIds, owner_id : Owners, document_id : DocumentIds]

Steps == {"idle", "extract", "embed", "collection", "create", "upsert",
          "indexing", "commit", "refresh", "delete", "query", "search", "load",
          "reply"}
Responses == {"none", "created", "failed", "deleted", "chunks", "not_found"}

Request == [pc : Steps,
            owner : Owners \cup {NoOwner},
            document : DocumentIds \cup {NoDocument},
            status : {"processing", "processed", "failed"},
            chunk_ids : SUBSET ChunkIds,   \* rows flushed and not committed
            limit : 0..MaxLimit,
            hits : SUBSET Point,           \* what query_points returned
            result : SUBSET Chunk,         \* the rows get_by_ids returned
            response : Responses]

Idle == [pc |-> "idle", owner |-> NoOwner, document |-> NoDocument,
         status |-> "processing", chunk_ids |-> {}, limit |-> 0,
         hits |-> {}, result |-> {}, response |-> "none"]

-----------------------------------------------------------------------------
At(r, step) == req[r].pc = step
Become(r, x) == req' = [req EXCEPT ![r] = x]
Goto(r, step) == Become(r, [req[r] EXCEPT !.pc = step])
Reply(r, response) ==
    Become(r, [req[r] EXCEPT !.pc = "reply", !.response = response])
Drop(r) == Become(r, Idle)

\* get_owned_by_id: the row, whose owner must be the one who asks
Owned(o, d) == \E row \in documents : row.id = d /\ row.owner_id = o

\* the PointStructs upsert_chunks builds from the rows the request flushed
Batch(r) == {[id |-> i, owner_id |-> req[r].owner,
              document_id |-> req[r].document] : i \in req[r].chunk_ids}

\* an upsert overwrites the points that have one of its ids
Upsert(stored, batch) ==
    {p \in stored : \A q \in batch : q.id # p.id} \cup batch

\* Defects of the filter: no owner, no document, document_id=None as a value.
MatchingAnyOwner(r) ==
    {p \in points : req[r].document \in {NoDocument, p.document_id}}
MatchingAnyDocument(r) == {p \in points : p.owner_id = req[r].owner}
MatchingNoneAsValue(r) ==
    {p \in points : p.owner_id = req[r].owner /\ p.document_id = req[r].document}

\* the filter of search_chunks: owner_id, and document_id unless it is None
Matching(r) == {p \in points :
                  /\ p.owner_id = req[r].owner
                  /\ req[r].document \in {NoDocument, p.document_id}}

MinOf(a, b) == IF a <= b THEN a ELSE b

LiveIds == {c.id : c \in chunks}

-----------------------------------------------------------------------------
(* Upload: DocumentProcessingService.process_uploaded_pdf                  *)

\* Defect: the row is added to the session and not flushed, so it has no id.
CreateDocumentUnflushed(r, o) ==
    /\ At(r, "idle")
    /\ Become(r, [Idle EXCEPT !.pc = "extract", !.owner = o])
    /\ UNCHANGED <<rows, store, sequences, inflight>>

\* The row is flushed, not committed; its id comes from the sequence.
CreateDocument(r, o) ==
    /\ At(r, "idle")
    /\ nextDocument <= MaxDocumentId
    /\ nextDocument' = nextDocument + 1
    /\ Become(r, [Idle EXCEPT !.pc = "extract", !.owner = o,
                                              !.document = nextDocument])
    /\ UNCHANGED <<rows, store, nextChunk, inflight>>

\* PdfExtractionError: the document is kept, as FAILED and without chunks.
ExtractFailed(r) ==
    /\ At(r, "extract")
    /\ Become(r, [req[r] EXCEPT !.pc = "commit", !.status = "failed"])
    /\ UNCHANGED <<rows, store, sequences, inflight>>

\* Defect: ids computed from what is committed, so a rolled back upload's ids
\* are handed out again.
CreateChunksReusingIds(r) ==
    /\ At(r, "extract")
    /\ \E i \in ChunkIds :
         /\ \A c \in chunks : c.id < i
         /\ Become(r, [req[r] EXCEPT !.pc = "embed", !.chunk_ids = {i}])
    /\ UNCHANGED <<rows, store, sequences, inflight>>

\* A PDF with text yields at least one chunk; their rows are flushed.
CreateChunks(r) ==
    /\ At(r, "extract")
    /\ \E n \in 1..MaxChunks :
         /\ nextChunk + n <= MaxChunkId + 1
         /\ nextChunk' = nextChunk + n
         /\ Become(r, [req[r] EXCEPT
              !.pc = "embed", !.chunk_ids = nextChunk..(nextChunk + n - 1)])
    /\ UNCHANGED <<rows, store, nextDocument, inflight>>

EmbedTexts(r) ==
    /\ At(r, "embed")
    /\ Goto(r, "collection")
    /\ UNCHANGED <<rows, store, sequences, inflight>>

\* A collection of another vector size ends the request: see Abort.
EnsureCollection(r) ==
    /\ At(r, "collection")
    /\ collection \in {NoCollection, VectorSize}
    /\ Goto(r, IF collection = NoCollection THEN "create" ELSE "upsert")
    /\ UNCHANGED <<rows, store, sequences, inflight>>

\* Another upload may have created it since EnsureCollection looked: Qdrant
\* then refuses and the upload ends by Abort.
CreateCollection(r) ==
    /\ At(r, "create")
    /\ collection = NoCollection
    /\ collection' = VectorSize
    /\ Goto(r, "upsert")
    /\ UNCHANGED <<rows, points, sequences, inflight>>

\* created in Qdrant, and the answer lost
CreateCollectionLost(r) ==
    /\ At(r, "create")
    /\ collection = NoCollection
    /\ collection' = VectorSize
    /\ Drop(r)
    /\ UNCHANGED <<rows, points, sequences, inflight>>

UpsertChunks(r) ==
    /\ At(r, "upsert")
    /\ inflight' = inflight \cup {Batch(r)}
    /\ Goto(r, "indexing")
    /\ UNCHANGED <<rows, store, sequences>>

\* Qdrant applies a batch at any time after it was sent, also when the
\* request that sent it has ended; it refuses vectors of another size.
QdrantApply ==
    \E batch \in inflight :
      /\ collection = VectorSize
      /\ points' = Upsert(points, batch)
      /\ inflight' = inflight \ {batch}
      /\ UNCHANGED <<rows, collection, sequences, req>>

\* Defect: client.upsert(wait=False).
UpsertNotAwaited(r) ==
    /\ At(r, "indexing")
    /\ Become(r, [req[r] EXCEPT !.pc = "commit", !.status = "processed"])
    /\ UNCHANGED <<rows, store, sequences, inflight>>

\* client.upsert waits until the batch is applied.
UpsertAcknowledged(r) ==
    /\ At(r, "indexing")
    /\ Batch(r) \notin inflight
    /\ Become(r, [req[r] EXCEPT !.pc = "commit", !.status = "processed"])
    /\ UNCHANGED <<rows, store, sequences, inflight>>

Publish(r) ==
    /\ documents' = documents \cup
         {[id |-> req[r].document, owner_id |-> req[r].owner,
           status |-> req[r].status,
           chunk_count |-> Cardinality(req[r].chunk_ids)]}
    /\ chunks' = chunks \cup
         {[id |-> i, document_id |-> req[r].document] : i \in req[r].chunk_ids}

Commit(r) ==
    /\ At(r, "commit")
    /\ Publish(r)
    /\ Goto(r, "refresh")
    /\ UNCHANGED <<store, sequences, inflight>>

\* committed in PostgreSQL, and the answer lost: the client is told 500
CommitLost(r) ==
    /\ At(r, "commit")
    /\ Publish(r)
    /\ Drop(r)
    /\ UNCHANGED <<store, sequences, inflight>>

\* session.refresh reads the row again; if a delete came first it raises and
\* the request ends by Abort, its rows committed.
Refresh(r) ==
    /\ At(r, "refresh")
    /\ \E row \in documents : row.id = req[r].document
    /\ Reply(r, IF req[r].status = "failed" THEN "failed" ELSE "created")
    /\ UNCHANGED <<rows, store, sequences, inflight>>

-----------------------------------------------------------------------------
(* Delete: DocumentMetadataService.delete_user_document                    *)

DeleteDocument(r, o, d) ==
    /\ At(r, "idle")
    /\ Owned(o, d)
    /\ Become(r, [Idle EXCEPT !.pc = "delete", !.owner = o,
                                              !.document = d])
    /\ UNCHANGED <<rows, store, sequences, inflight>>

\* Defect: no cascade from documents to document_chunks.
RemoveRowOnly(d) ==
    /\ documents' = {row \in documents : row.id # d}
    /\ UNCHANGED chunks

\* The chunk rows go with the document, the points of Qdrant stay.  A row a
\* concurrent delete has already removed is not an error.
Remove(d) ==
    /\ documents' = {row \in documents : row.id # d}
    /\ chunks' = {c \in chunks : c.document_id # d}

DeleteCommit(r) ==
    /\ At(r, "delete")
    /\ Remove(req[r].document)
    /\ Reply(r, "deleted")
    /\ UNCHANGED <<store, sequences, inflight>>

DeleteLost(r) ==
    /\ At(r, "delete")
    /\ Remove(req[r].document)
    /\ Drop(r)
    /\ UNCHANGED <<store, sequences, inflight>>

-----------------------------------------------------------------------------
(* Search: RetrievalService._search_chunks                                 *)

SearchDocuments(r, o, l) ==
    /\ At(r, "idle")
    /\ Become(r, [Idle EXCEPT !.pc = "query", !.owner = o,
                                              !.limit = l])
    /\ UNCHANGED <<rows, store, sequences, inflight>>

SearchDocument(r, o, d, l) ==
    /\ At(r, "idle")
    /\ Owned(o, d)
    /\ Become(r, [Idle EXCEPT !.pc = "query", !.owner = o,
                                              !.document = d, !.limit = l])
    /\ UNCHANGED <<rows, store, sequences, inflight>>

\* DocumentNotFoundError, of a delete or of a search of one document
NotFound(r, o, d) ==
    /\ At(r, "idle")
    /\ ~Owned(o, d)
    /\ Become(r, [Idle EXCEPT !.pc = "reply", !.owner = o,
                                              !.response = "not_found"])
    /\ UNCHANGED <<rows, store, sequences, inflight>>

EmbedQuery(r) ==
    /\ At(r, "query")
    /\ Goto(r, "search")
    /\ UNCHANGED <<rows, store, sequences, inflight>>

\* Qdrant returns the limit best points of those the filter keeps; which ones
\* are best is open.  Without a collection, or with another vector size, it
\* raises: see Abort.
QueryPoints(r) ==
    /\ At(r, "search")
    /\ collection = VectorSize
    /\ \E found \in SUBSET Matching(r) :
         /\ Cardinality(found) = MinOf(req[r].limit, Cardinality(Matching(r)))
         /\ Become(r, [req[r] EXCEPT !.pc = "load", !.hits = found])
    /\ UNCHANGED <<rows, store, sequences, inflight>>

\* get_by_ids: an id that has no row is dropped, and no owner is compared.
LoadChunks(r) ==
    /\ At(r, "load")
    /\ Become(r, [req[r] EXCEPT
         !.pc = "reply", !.response = "chunks",
         !.result = {c \in chunks : \E p \in req[r].hits : p.id = c.id}])
    /\ UNCHANGED <<rows, store, sequences, inflight>>

-----------------------------------------------------------------------------
Return(r) ==
    /\ At(r, "reply")
    /\ Drop(r)
    /\ UNCHANGED <<rows, store, sequences, inflight>>

\* An exception leaves the request: the session is closed and rolls back.
Abort(r) ==
    /\ req[r].pc \notin {"idle", "reply"}
    /\ Drop(r)
    /\ UNCHANGED <<rows, store, sequences, inflight>>

\* The process stops: every open transaction rolls back.
Crash ==
    /\ req' = [r \in Requests |-> Idle]
    /\ UNCHANGED <<rows, store, sequences, inflight>>

\* A batch the process sent never reaches Qdrant, or Qdrant refuses it.
BatchLost ==
    \E batch \in inflight :
      /\ \A r \in Requests : ~(At(r, "indexing") /\ Batch(r) = batch)
      /\ inflight' = inflight \ {batch}
      /\ UNCHANGED <<rows, store, sequences, req>>

UploadStep(r) ==
    \/ \E o \in Owners : CreateDocument(r, o)
    \/ ExtractFailed(r) \/ CreateChunks(r) \/ EmbedTexts(r)
    \/ EnsureCollection(r) \/ CreateCollection(r) \/ CreateCollectionLost(r)
    \/ UpsertChunks(r) \/ UpsertAcknowledged(r)
    \/ Commit(r) \/ CommitLost(r) \/ Refresh(r)

DeleteStep(r) ==
    \/ \E o \in Owners, d \in DocumentIds : DeleteDocument(r, o, d)
    \/ DeleteCommit(r) \/ DeleteLost(r)

SearchStep(r) ==
    \/ \E o \in Owners, l \in 1..MaxLimit : SearchDocuments(r, o, l)
    \/ \E o \in Owners, d \in DocumentIds, l \in 1..MaxLimit :
         SearchDocument(r, o, d, l)
    \/ EmbedQuery(r) \/ QueryPoints(r) \/ LoadChunks(r)

RequestStep(r) ==
    \/ UploadStep(r) \/ DeleteStep(r) \/ SearchStep(r)
    \/ \E o \in Owners, d \in DocumentIds : NotFound(r, o, d)
    \/ Return(r) \/ Abort(r)

Init ==
    /\ documents = {} /\ chunks = {} /\ points = {}
    /\ collection \in InitialSizes
    /\ nextDocument = 1 /\ nextChunk = 1
    /\ inflight = {}
    /\ req = [r \in Requests |-> Idle]

Next ==
    \/ \E r \in Requests : RequestStep(r)
    \/ QdrantApply \/ BatchLost \/ Crash

Spec == Init /\ [][Next]_vars
-----------------------------------------------------------------------------
(* What the store promises                                                 *)

\* Every variable keeps to its type; the sequences only ever point past the
\* ids they have handed out (documents.id and document_chunks.id columns).
TypeOK ==
    /\ documents \subseteq Document
    /\ chunks \subseteq Chunk
    /\ points \subseteq Point
    /\ collection \in InitialSizes \cup {NoCollection, VectorSize}
    /\ nextDocument \in 1..(MaxDocumentId + 1)
    /\ nextChunk \in 1..(MaxChunkId + 1)
    /\ inflight \subseteq SUBSET Point
    /\ req \in [Requests -> Request]

Rows(d) == {c \in chunks : c.document_id = d}
OwnRows(o) == {c \in chunks :
                 \E row \in documents : row.id = c.document_id /\ row.owner_id = o}

\* A reader never meets a half-written document: whatever was aborted, lost
\* or deleted concurrently, a committed document is PROCESSED with exactly
\* chunk_count chunk rows or FAILED with none, its id is its own, and no chunk
\* row outlives it (one transaction per upload, ON DELETE CASCADE).
WholeDocuments ==
    /\ \A row \in documents :
         /\ row.status \in {"processed", "failed"}
         /\ Cardinality(Rows(row.id)) = row.chunk_count
         /\ row.status = "failed" <=> row.chunk_count = 0
    /\ \A row1, row2 \in documents : row1.id = row2.id => row1 = row2
    /\ \A c \in chunks : \E row \in documents : row.id = c.document_id

\* Every committed chunk is searchable under its owner and its document, and
\* stays so: the points are acknowledged before the rows are committed, and
\* no batch of another upload, however late, overwrites them.
PublishedIsIndexed ==
    \A row \in documents : \A c \in Rows(row.id) :
      [id |-> c.id, owner_id |-> row.owner_id, document_id |-> row.id]
        \in points

\* Isolation of users: a search answers only with chunks of the asker's own
\* documents, and of the document asked about.  get_by_ids compares no owner,
\* so this rests on the payloads in Qdrant and on ids that are never reused.
\* A row of the result may be deleted, with its document, before the reply.
OnlyOwnChunks ==
    \A r \in Requests : \A c \in req[r].result :
      /\ req[r].document \in {NoDocument, c.document_id}
      /\ \A row \in documents :
           row.id = c.document_id => row.owner_id = req[r].owner

\* A search of one document that is still there returns as many chunks as
\* were asked for, or all of them: no point of a rolled back upload or of a
\* deleted document takes the place of a chunk.
DocumentSearchComplete ==
    \A r \in Requests :
      /\ req[r].response = "chunks"
      /\ \E row \in documents : row.id = req[r].document
      => Cardinality(req[r].result)
           = MinOf(req[r].limit, Cardinality(Rows(req[r].document)))

\* A search of all documents loses live chunks to stale points only, those of
\* the asker's deleted documents and rolled back uploads, and loses at most
\* one chunk to each.
LostToStaleOnly ==
    [][\A r \in Requests :
         /\ At(r, "search") /\ req'[r].pc = "load"
         /\ req[r].document = NoDocument
         => LET o == req[r].owner
                stale == {p \in points : p.owner_id = o /\ p.id \notin LiveIds}
                live == {p \in req'[r].hits : p.id \in LiveIds}
            IN  MinOf(req[r].limit, Cardinality(OwnRows(o)))
                  <= Cardinality(live) + Cardinality(stale)]_vars

\* What the bot's help and the API table say of a search of all documents: it
\* searches all the uploaded documents, so it finds some chunk of an owner who
\* has one.  The code breaks this: stale points use up the limit.
AllDocumentsSearched ==
    [][\A r \in Requests :
         /\ At(r, "search") /\ req'[r].pc = "load"
         /\ req[r].document = NoDocument
         /\ OwnRows(req[r].owner) # {}
         => \E p \in req'[r].hits : p.id \in LiveIds]_vars
=============================================================================

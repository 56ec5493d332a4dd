--------------------- MODULE DocumentIndexPromiseProofs ---------------------
(***************************************************************************)
(* What the store promises its users, for every value of the constants:    *)
(* a committed document is whole, a search of it is complete, a search of  *)
(* all documents loses to stale points only, and the store implements      *)
(* DocumentLibrary.  All of it rests on the invariant of                   *)
(* DocumentIndexProofs.                                                    *)
(***************************************************************************)
EXTENDS DocumentIndexRefinement, DocumentIndexProofs

-----------------------------------------------------------------------------
(* Documents are whole                                                     *)

\* The rows of an upload are as many as the ids it took.
LEMMA FlushedRows ==
    ASSUME NEW ids, IsFiniteSet(ids), NEW d
    PROVE  LET new == {[id |-> i, document_id |-> d] : i \in ids}
           IN  IsFiniteSet(new) /\ Cardinality(new) = Cardinality(ids)
<1> DEFINE new == {[id |-> i, document_id |-> d] : i \in ids}
           f == [i \in ids |-> [id |-> i, document_id |-> d]]
<1>1. f \in [ids -> new]
  OBVIOUS
<1>2. \A i, j \in ids : f[i] = f[j] => i = j
  OBVIOUS
<1>3. \A t \in new : \E i \in ids : f[i] = t
  OBVIOUS
<1> HIDE DEF f, new
<1>4. f \in Bijection(ids, new)
  BY <1>1, <1>2, <1>3 DEF Bijection, Injection, Surjection, IsInjective
<1>5. ExistsBijection(ids, new)
  BY <1>4 DEF ExistsBijection
<1> QED BY <1>5, FS_Bijection DEF new

\* An upload knows whether it has chunks before it can commit.
LEMMA StatusStep ==
    ASSUME IInv, StatusSettled, [Next]_vars
    PROVE  StatusSettled'
<1> USE DEF rows, store, sequences
<1> SUFFICES ASSUME NEW q \in Requests
             PROVE  /\ req'[q].pc \in {"embed", "collection", "create", "upsert",
                                       "indexing"} => req'[q].chunk_ids # {}
                    /\ req'[q].pc = "commit" =>
                         /\ req'[q].status \in {"processed", "failed"}
                         /\ req'[q].status = "failed" <=> req'[q].chunk_ids = {}
  BY DEF StatusSettled, At
<1>0. /\ req[q] \in Request
      /\ req[q].pc \in {"embed", "collection", "create", "upsert", "indexing"}
           => req[q].chunk_ids # {}
      /\ req[q].pc = "commit" =>
           /\ req[q].status \in {"processed", "failed"}
           /\ req[q].status = "failed" <=> req[q].chunk_ids = {}
  BY DEF IInv, TypeOK, StatusSettled, At
<1>1. CASE req'[q] = req[q]
  BY <1>0, <1>1
<1>2. CASE req'[q] = Idle
  BY <1>2 DEF Idle
<1>3. CASE ExtractFailed(q)
  <2>1. req[q].chunk_ids = {}
    BY <1>3 DEF ExtractFailed, IInv, IndexedFirst
  <2>2. req'[q] = [req[q] EXCEPT !.pc = "commit", !.status = "failed"]
    BY <1>3, BecomeSlot DEF ExtractFailed, IInv
  <2>3. /\ req'[q].pc = "commit" /\ req'[q].status = "failed"
        /\ req'[q].chunk_ids = req[q].chunk_ids
    BY <1>0, <2>2 DEF Request
  <2> QED BY <2>1, <2>3
<1>4. CASE CreateChunks(q)
  <2>1. PICK n \in 1..MaxChunks :
          Become(q, [req[q] EXCEPT
            !.pc = "embed", !.chunk_ids = nextChunk..(nextChunk + n - 1)])
    BY <1>4 DEF CreateChunks
  <2>2. req'[q] = [req[q] EXCEPT !.pc = "embed",
                                 !.chunk_ids = nextChunk..(nextChunk + n - 1)]
    BY <2>1, BecomeSlot DEF IInv
  <2>3. /\ req'[q].pc = "embed"
        /\ req'[q].chunk_ids = nextChunk..(nextChunk + n - 1)
    BY <1>0, <2>2 DEF Request
  <2>4. nextChunk \in nextChunk..(nextChunk + n - 1)
    BY ConstantsAssumption DEF IInv, TypeOK
  <2> QED BY <2>3, <2>4
<1>5. CASE EmbedTexts(q) \/ EnsureCollection(q) \/ CreateCollection(q)
           \/ UpsertChunks(q)
  <2>1. PICK s \in {"collection", "create", "upsert", "indexing"} : Goto(q, s)
    BY <1>5 DEF EmbedTexts, EnsureCollection, CreateCollection, UpsertChunks
  <2>2. req'[q] = [req[q] EXCEPT !.pc = s]
    BY <2>1, BecomeSlot DEF IInv, Goto
  <2>3. req'[q].pc = s /\ req'[q].chunk_ids = req[q].chunk_ids
    BY <1>0, <2>2 DEF Request
  <2>4. req[q].chunk_ids # {}
    BY <1>0, <1>5
       DEF EmbedTexts, EnsureCollection, CreateCollection, UpsertChunks, At
  <2> QED BY <2>3, <2>4
<1>6. CASE UpsertAcknowledged(q)
  <2>1. req'[q] = [req[q] EXCEPT !.pc = "commit", !.status = "processed"]
    BY <1>6, BecomeSlot DEF UpsertAcknowledged, IInv
  <2>2. /\ req'[q].pc = "commit" /\ req'[q].status = "processed"
        /\ req'[q].chunk_ids = req[q].chunk_ids
    BY <1>0, <2>1 DEF Request
  <2>3. req[q].chunk_ids # {}
    BY <1>0, <1>6 DEF UpsertAcknowledged, At
  <2> QED BY <2>2, <2>3
<1> DEFINE Elsewhere ==
      req'[q].pc \in {"idle", "extract", "refresh", "delete", "query", "search",
                      "load", "reply"}
<1>7. CASE Elsewhere
  BY <1>7
<1>8. ASSUME NEW r \in Requests, RequestStep(r)
      PROVE  \/ Elsewhere
             \/ req'[q] = req[q] \/ req'[q] = Idle
             \/ ExtractFailed(q) \/ CreateChunks(q) \/ EmbedTexts(q)
             \/ EnsureCollection(q) \/ CreateCollection(q) \/ UpsertChunks(q)
             \/ UpsertAcknowledged(q)
  <2>0. req[r] \in Request
    BY DEF IInv, TypeOK
  <2>1. CASE r # q
    <3>1. PICK x : Become(r, x)
      BY <1>8 DEF RequestStep, UploadStep, DeleteStep, SearchStep,
        CreateDocument, ExtractFailed, CreateChunks, EmbedTexts,
        EnsureCollection, CreateCollection, CreateCollectionLost, UpsertChunks,
        UpsertAcknowledged, Commit, CommitLost, Refresh, DeleteDocument,
        DeleteCommit, DeleteLost, SearchDocuments, SearchDocument, NotFound,
        EmbedQuery, QueryPoints, LoadChunks, Return, Abort, Goto, Reply, Drop
    <3> QED BY <2>1, <3>1, BecomeSlot DEF IInv
  <2>2. ASSUME NEW o \in Owners, CreateDocument(r, o) PROVE Elsewhere \/ r # q
    <3>1. [Idle EXCEPT !.pc = "extract", !.owner = o,
                       !.document = nextDocument].pc = "extract"
      BY DEF Idle
    <3> QED BY <2>2, <3>1, BecomeSlot DEF CreateDocument, IInv
  <2>3. ASSUME NEW s \in {"refresh", "search"}, Goto(r, s)
        PROVE  Elsewhere \/ r # q
    <3>1. [req[r] EXCEPT !.pc = s].pc = s
      BY <2>0 DEF Request
    <3> QED BY <2>3, <3>1, BecomeSlot DEF Goto, IInv
  <2>4. ASSUME NEW a, Reply(r, a) PROVE Elsewhere \/ r # q
    <3>1. [req[r] EXCEPT !.pc = "reply", !.response = a].pc = "reply"
      BY <2>0 DEF Request
    <3> QED BY <2>4, <3>1, BecomeSlot DEF Reply, IInv
  <2>5. ASSUME NEW o, NEW d, NEW l,
               \/ DeleteDocument(r, o, d) \/ SearchDocuments(r, o, l)
               \/ SearchDocument(r, o, d, l) \/ NotFound(r, o, d)
        PROVE  Elsewhere \/ r # q
    <3>1. PICK x : /\ Become(r, x)
                   /\ \/ x = [Idle EXCEPT !.pc = "delete", !.owner = o,
                                           !.document = d]
                      \/ x = [Idle EXCEPT !.pc = "query", !.owner = o,
                                           !.limit = l]
                      \/ x = [Idle EXCEPT !.pc = "query", !.owner = o,
                                           !.document = d, !.limit = l]
                      \/ x = [Idle EXCEPT !.pc = "reply", !.owner = o,
                                           !.response = "not_found"]
      BY <2>5 DEF DeleteDocument, SearchDocuments, SearchDocument, NotFound
    <3>2. x.pc \in {"delete", "query", "reply"}
      BY <3>1 DEF Idle
    <3> QED BY <3>1, <3>2, BecomeSlot DEF IInv
  <2>6. ASSUME QueryPoints(r) \/ LoadChunks(r) PROVE Elsewhere \/ r # q
    <3>1. PICK x, h : /\ Become(r, x)
                      /\ \/ x = [req[r] EXCEPT !.pc = "load", !.hits = h]
                         \/ x = [req[r] EXCEPT !.pc = "reply",
                                   !.response = "chunks", !.result = h]
      BY <2>6 DEF QueryPoints, LoadChunks
    <3>2. x.pc \in {"load", "reply"}
      BY <2>0, <3>1 DEF Request
    <3> QED BY <3>1, <3>2, BecomeSlot DEF IInv
  <2>7. ASSUME Drop(r) PROVE req'[q] = Idle \/ r # q
    BY <2>7, BecomeSlot DEF Drop, IInv
  <2>8. CASE r = q
    BY <1>8, <2>2, <2>3, <2>4, <2>5, <2>6, <2>7, <2>8
       DEF RequestStep, UploadStep, DeleteStep, SearchStep,
           CreateCollectionLost, Commit, CommitLost, Refresh, DeleteCommit,
           DeleteLost, EmbedQuery, Return, Abort
  <2> QED BY <2>1, <2>8
<1>9. CASE QdrantApply \/ BatchLost \/ Crash \/ UNCHANGED vars
  BY <1>1, <1>2, <1>9 DEF QdrantApply, BatchLost, Crash, vars
<1> QED BY <1>1, <1>2, <1>3, <1>4, <1>5, <1>6, <1>7, <1>8, <1>9 DEF Next
\* Only commits and deletes change rows.
LEMMA OtherStepsKeepRows ==
    ASSUME [Next]_vars,
           \A r \in Requests : ~Commit(r) /\ ~CommitLost(r)
                               /\ ~DeleteCommit(r) /\ ~DeleteLost(r)
    PROVE  UNCHANGED rows
BY DEF Next, vars, rows, RequestStep, UploadStep, DeleteStep, SearchStep,
       CreateDocument, ExtractFailed, CreateChunks, EmbedTexts,
       EnsureCollection, CreateCollection, CreateCollectionLost, UpsertChunks,
       UpsertAcknowledged, Refresh, DeleteDocument, SearchDocuments,
       SearchDocument, NotFound, EmbedQuery, QueryPoints, LoadChunks, Return,
       Abort, Crash, QdrantApply, BatchLost

LEMMA CommitWhole ==
    ASSUME IInv, StatusSettled, WholeDocuments, NEW r \in Requests, Publish(r),
           At(r, "commit"), NEW row \in documents'
    PROVE  /\ row.status \in {"processed", "failed"}
           /\ Cardinality(Rows(row.id)') = row.chunk_count
           /\ row.status = "failed" <=> row.chunk_count = 0
<1>0. PICK d, ids, new : /\ d = req[r].document /\ ids = req[r].chunk_ids
                         /\ documents' = documents \cup {new}
                         /\ new.id = d /\ new.status = req[r].status
                         /\ new.chunk_count = Cardinality(ids)
  <2> DEFINE new == [id |-> req[r].document, owner_id |-> req[r].owner,
                     status |-> req[r].status,
                     chunk_count |-> Cardinality(req[r].chunk_ids)]
  <2>1. documents' = documents \cup {new}
    BY DEF Publish
  <2>2. /\ new.id = req[r].document /\ new.status = req[r].status
        /\ new.chunk_count = Cardinality(req[r].chunk_ids)
    OBVIOUS
  <2> HIDE DEF new
  <2> QED BY <2>1, <2>2
<1>1. IsFiniteSet(ids)
  <2>1. ids \in SUBSET ChunkIds
    BY <1>0 DEF IInv, TypeOK, Request
  <2> QED BY <2>1, ChunkCountType
<1>2. \A k \in documents : k.id # d
  BY <1>0 DEF IInv, UncommittedApart, Uncommitted, At
<1>3. chunks' = chunks \cup {[id |-> i, document_id |-> d] : i \in ids}
  BY <1>0 DEF Publish
<1>4. CASE row \in documents
  <2>1. Rows(row.id)' = Rows(row.id)
    BY <1>2, <1>3, <1>4 DEF Rows
  <2> QED BY <1>4, <2>1 DEF WholeDocuments
<1>5. CASE row = new
  <2>1. Rows(d)' = {[id |-> i, document_id |-> d] : i \in ids}
    BY <1>2, <1>3 DEF Rows, IInv, NoOrphanRows
  <2>2. Cardinality(Rows(d)') = Cardinality(ids)
    BY <1>1, <2>1, FlushedRows
  <2>3. Cardinality(ids) = 0 <=> ids = {}
    BY <1>1, FS_EmptySet
  <2> QED BY <1>0, <1>5, <2>2, <2>3 DEF StatusSettled
<1> QED BY <1>0, <1>4, <1>5

LEMMA WholeStep ==
    ASSUME IInv, IInv', StatusSettled, WholeDocuments, [Next]_vars
    PROVE  WholeDocuments'
<1>1. /\ \A row1, row2 \in documents' : row1.id = row2.id => row1 = row2
      /\ \A c \in chunks' : \E row \in documents' : row.id = c.document_id
  BY DEF IInv, UncommittedApart, NoOrphanRows
<1> SUFFICES ASSUME NEW row \in documents'
             PROVE  /\ row.status \in {"processed", "failed"}
                    /\ Cardinality(Rows(row.id)') = row.chunk_count
                    /\ row.status = "failed" <=> row.chunk_count = 0
  BY <1>1 DEF WholeDocuments
<1>2. ASSUME NEW r \in Requests, Commit(r) \/ CommitLost(r)
      PROVE  /\ row.status \in {"processed", "failed"}
             /\ Cardinality(Rows(row.id)') = row.chunk_count
             /\ row.status = "failed" <=> row.chunk_count = 0
  BY <1>2, CommitWhole DEF Commit, CommitLost
<1>3. ASSUME NEW r \in Requests, DeleteCommit(r) \/ DeleteLost(r)
      PROVE  row \in documents /\ Rows(row.id)' = Rows(row.id)
  <2>1. Remove(req[r].document)
    BY <1>3 DEF DeleteCommit, DeleteLost
  <2> QED BY <2>1 DEF Remove, Rows
<1>4. CASE \A r \in Requests : ~Commit(r) /\ ~CommitLost(r)
                               /\ ~DeleteCommit(r) /\ ~DeleteLost(r)
  <2>1. row \in documents /\ Rows(row.id)' = Rows(row.id)
    BY <1>4, OtherStepsKeepRows DEF rows, Rows
  <2> QED BY <2>1 DEF WholeDocuments
<1> QED BY <1>2, <1>3, <1>4 DEF WholeDocuments

\* A reader never meets a half-written document: it is PROCESSED with exactly
\* chunk_count rows of chunks or FAILED with none, whatever is aborted or
\* deleted while it is read, and no chunk row outlives it.
THEOREM WholeTheorem == Spec => []WholeDocuments
<1>1. Init => StatusSettled /\ WholeDocuments
  BY DEF Init, StatusSettled, WholeDocuments, At, Idle
<1>2. IInv /\ IInv' /\ StatusSettled /\ WholeDocuments /\ [Next]_vars
        => StatusSettled' /\ WholeDocuments'
  BY StatusStep, WholeStep
<1> QED BY <1>1, <1>2, InvariantTheorem, PTL DEF Spec

\* The same argument keeps the status of a running upload in step with the
\* chunks it has flushed, which the refinement needs.
THEOREM StatusTheorem == Spec => []StatusSettled
<1>1. Init => StatusSettled
  BY DEF Init, StatusSettled, At, Idle
<1>2. IInv /\ StatusSettled /\ [Next]_vars => StatusSettled'
  BY StatusStep
<1> QED BY <1>1, <1>2, InvariantTheorem, PTL DEF Spec

-----------------------------------------------------------------------------
(* What one step does to one request slot                                  *)

\* A request's step changes its own slot only.
LEMMA OthersStay ==
    ASSUME IInv, NEW r \in Requests, RequestStep(r), NEW q \in Requests, q # r
    PROVE  req'[q] = req[q]
<1>1. PICK x : Become(r, x)
  BY DEF RequestStep, UploadStep, DeleteStep, SearchStep,
    CreateDocument, ExtractFailed, CreateChunks, EmbedTexts,
    EnsureCollection, CreateCollection, CreateCollectionLost, UpsertChunks,
    UpsertAcknowledged, Commit, CommitLost, Refresh, DeleteDocument,
    DeleteCommit, DeleteLost, SearchDocuments, SearchDocument, NotFound,
    EmbedQuery, QueryPoints, LoadChunks, Return, Abort, Goto, Reply, Drop
<1> QED BY <1>1, BecomeSlot DEF IInv

\* a request takes up a document that exists, or none
Started(q) ==
    /\ \/ req'[q].document = NoDocument
       \/ \E row \in documents : row.id = req'[q].document
    /\ ~Uncommitted(q)' /\ ~At(q, "load")'
    /\ req'[q].response # "chunks"

\* an upload takes the next document id
Created(q) ==
    /\ nextDocument \in DocumentIds
    /\ req'[q].document = nextDocument /\ req'[q].pc = "extract"
    /\ req'[q].response # "chunks"
    /\ \A p \in Requests : p # q => req'[p] = req[p]

\* an upload has flushed its chunks
Flushed(q) ==
    /\ At(q, "extract")
    /\ req'[q].document = req[q].document /\ req'[q].pc = "embed"
    /\ req'[q].response = req[q].response

\* a request goes on with its document and what it has flushed
Onward(q) ==
    /\ req'[q].document = req[q].document
    /\ req'[q].chunk_ids = req[q].chunk_ids
    /\ Uncommitted(q)' => Uncommitted(q)
    /\ ~At(q, "reply") /\ ~At(q, "load")'
    /\ req'[q].response \in {req[q].response, "created", "failed", "deleted"}

LEMMA SlotSteps ==
    ASSUME IInv, [Next]_vars, NEW q \in Requests
    PROVE  \/ req'[q] \in {req[q], Idle}
           \/ Started(q) \/ Created(q) \/ Flushed(q) \/ Onward(q)
           \/ QueryPoints(q) \/ LoadChunks(q)
<1> USE DEF rows, store, sequences
<1>0. req[q] \in Request
  BY DEF IInv, TypeOK
<1>1. CASE QdrantApply \/ BatchLost \/ Crash \/ UNCHANGED vars
  BY <1>1 DEF QdrantApply, BatchLost, Crash, vars
<1>2. ASSUME NEW o \in Owners, CreateDocument(q, o) PROVE Created(q)
  <2>1. req'[q] = [Idle EXCEPT !.pc = "extract", !.owner = o,
                               !.document = nextDocument]
        /\ \A p \in Requests : p # q => req'[p] = req[p]
    BY <1>2, BecomeSlot DEF CreateDocument, IInv
  <2>2. /\ req'[q].document = nextDocument /\ req'[q].pc = "extract"
        /\ req'[q].response = "none"
    BY <2>1 DEF Idle
  <2>3. nextDocument \in DocumentIds
    BY <1>2, ConstantsAssumption DEF CreateDocument, IInv, TypeOK, DocumentIds
  <2> QED BY <2>1, <2>2, <2>3 DEF Created
<1>3. ASSUME CreateChunks(q) PROVE Flushed(q)
  <2>1. PICK ids : Become(q, [req[q] EXCEPT !.pc = "embed", !.chunk_ids = ids])
    BY <1>3 DEF CreateChunks
  <2>2. req'[q] = [req[q] EXCEPT !.pc = "embed", !.chunk_ids = ids]
    BY <2>1, BecomeSlot DEF IInv
  <2>3. /\ req'[q].document = req[q].document /\ req'[q].pc = "embed"
        /\ req'[q].response = req[q].response
    BY <1>0, <2>2 DEF Request
  <2> QED BY <1>3, <2>3 DEF CreateChunks, Flushed
<1>4. ASSUME ExtractFailed(q) \/ UpsertAcknowledged(q) PROVE Onward(q)
  <2>1. PICK s : Become(q, [req[q] EXCEPT !.pc = "commit", !.status = s])
    BY <1>4 DEF ExtractFailed, UpsertAcknowledged
  <2>2. req'[q] = [req[q] EXCEPT !.pc = "commit", !.status = s]
    BY <2>1, BecomeSlot DEF IInv
  <2>3. /\ req'[q].document = req[q].document /\ req'[q].pc = "commit"
        /\ req'[q].chunk_ids = req[q].chunk_ids
        /\ req'[q].response = req[q].response
    BY <1>0, <2>2 DEF Request
  <2> QED BY <1>4, <2>3
          DEF ExtractFailed, UpsertAcknowledged, Onward, At, Uncommitted
<1>5. ASSUME \/ EmbedTexts(q) \/ EnsureCollection(q) \/ CreateCollection(q)
             \/ UpsertChunks(q) \/ Commit(q) \/ EmbedQuery(q)
      PROVE  Onward(q)
  <2>1. PICK s : /\ Goto(q, s)
                 /\ \/ s \in {"collection", "create", "upsert", "indexing"}
                       /\ Uncommitted(q)
                    \/ s \in {"refresh", "search"}
    BY <1>5 DEF EmbedTexts, EnsureCollection, CreateCollection, UpsertChunks,
                Commit, EmbedQuery, At, Uncommitted
  <2>2. req'[q] = [req[q] EXCEPT !.pc = s]
    BY <2>1, BecomeSlot DEF IInv, Goto
  <2>3. /\ req'[q].document = req[q].document /\ req'[q].pc = s
        /\ req'[q].chunk_ids = req[q].chunk_ids
        /\ req'[q].response = req[q].response
    BY <1>0, <2>2 DEF Request
  <2>4. ~At(q, "reply")
    BY <1>5 DEF EmbedTexts, EnsureCollection, CreateCollection, UpsertChunks,
                Commit, EmbedQuery, At
  <2> QED BY <2>1, <2>3, <2>4 DEF Onward, At, Uncommitted
<1>6. ASSUME Refresh(q) \/ DeleteCommit(q) PROVE Onward(q)
  <2>1. PICK a \in {"created", "failed", "deleted"} : Reply(q, a)
    BY <1>6 DEF Refresh, DeleteCommit
  <2>2. req'[q] = [req[q] EXCEPT !.pc = "reply", !.response = a]
    BY <2>1, BecomeSlot DEF IInv, Reply
  <2>3. /\ req'[q].document = req[q].document /\ req'[q].pc = "reply"
        /\ req'[q].chunk_ids = req[q].chunk_ids
        /\ req'[q].response = a
    BY <1>0, <2>2 DEF Request
  <2> QED BY <1>6, <2>3 DEF Refresh, DeleteCommit, Onward, At, Uncommitted
<1>7. ASSUME NEW o, NEW d, NEW l,
             \/ DeleteDocument(q, o, d) \/ SearchDocuments(q, o, l)
             \/ SearchDocument(q, o, d, l) \/ NotFound(q, o, d)
      PROVE  Started(q)
  <2>1. PICK x : /\ Become(q, x)
                 /\ \/ /\ x = [Idle EXCEPT !.pc = "delete", !.owner = o,
                                           !.document = d]
                       /\ Owned(o, d)
                    \/ x = [Idle EXCEPT !.pc = "query", !.owner = o,
                                         !.limit = l]
                    \/ /\ x = [Idle EXCEPT !.pc = "query", !.owner = o,
                                           !.document = d, !.limit = l]
                       /\ Owned(o, d)
                    \/ x = [Idle EXCEPT !.pc = "reply", !.owner = o,
                                         !.response = "not_found"]
    BY <1>7 DEF DeleteDocument, SearchDocuments, SearchDocument, NotFound
  <2>2. /\ x.pc \in {"delete", "query", "reply"}
        /\ x.response \in {"none", "not_found"}
        /\ x.document = NoDocument \/ (x.document = d /\ Owned(o, d))
    BY <2>1 DEF Idle
  <2>3. req'[q] = x
    BY <2>1, BecomeSlot DEF IInv
  <2> QED BY <2>2, <2>3 DEF Started, Owned, At, Uncommitted
<1>8. ASSUME Drop(q) PROVE req'[q] = Idle
  BY <1>8, BecomeSlot DEF Drop, IInv
<1>9. ASSUME RequestStep(q)
      PROVE  \/ req'[q] = Idle
             \/ Started(q) \/ Created(q) \/ Flushed(q) \/ Onward(q)
             \/ QueryPoints(q) \/ LoadChunks(q)
  BY <1>2, <1>3, <1>4, <1>5, <1>6, <1>7, <1>8, <1>9
     DEF RequestStep, UploadStep, DeleteStep, SearchStep, CreateCollectionLost,
         CommitLost, DeleteLost, Return, Abort
<1>10. ASSUME NEW r \in Requests, RequestStep(r), r # q PROVE req'[q] = req[q]
  BY <1>10, OthersStay
<1> QED BY <1>1, <1>9, <1>10 DEF Next

-----------------------------------------------------------------------------
(* What Qdrant holds of a document                                         *)

\* The next document id is nobody's.
LEMMA NextIsFree ==
    ASSUME IInv
    PROVE  /\ \A row \in documents : row.id # nextDocument
           /\ \A q \in Requests : req[q].document # nextDocument
           /\ \A x \in Point : Sent(x) => x.document_id # nextDocument
<1>0. nextDocument \in Nat /\ nextDocument # NoDocument
  BY ConstantsAssumption DEF IInv, TypeOK, NoDocument
<1>1. ASSUME NEW d \in DocumentIds, NEW o \in Owners, Deed(d, o)
      PROVE  d # nextDocument
  BY <1>0, <1>1 DEF IInv, DeedsApart, DocumentIds
<1>2. ASSUME NEW row \in documents PROVE row.id # nextDocument
  BY <1>1 DEF IInv, TypeOK, Document, Deed
<1>3. ASSUME NEW q \in Requests PROVE req[q].document # nextDocument
  <2>1. CASE req[q].document = NoDocument
    BY <1>0, <2>1
  <2>2. CASE req[q].document # NoDocument
    <3>1. req[q].document \in DocumentIds /\ req[q].owner \in Owners
      BY <2>2 DEF IInv, TypeOK, Request, Attributed
    <3> QED BY <1>1, <3>1 DEF Deed
  <2> QED BY <2>1, <2>2
<1>4. ASSUME NEW x \in Point, Sent(x) PROVE x.document_id # nextDocument
  <2>1. Claimed(x)
    BY <1>4 DEF Sent, Claimed
  <2> QED BY <1>1, <2>1 DEF Point, Deed
<1> QED BY <1>2, <1>3, <1>4

\* The two reads of a search keep its document and its limit.
LEMMA ReadsKeepDocument ==
    ASSUME IInv, NEW q \in Requests, QueryPoints(q) \/ LoadChunks(q)
    PROVE  /\ req'[q].document = req[q].document
           /\ req'[q].limit = req[q].limit
           /\ req'[q].owner = req[q].owner
           /\ ~Uncommitted(q)'
<1>1. PICK h, x : /\ Become(q, x)
                  /\ \/ x = [req[q] EXCEPT !.pc = "load", !.hits = h]
                     \/ x = [req[q] EXCEPT !.pc = "reply",
                               !.response = "chunks", !.result = h]
  BY DEF QueryPoints, LoadChunks
<1>2. /\ x.document = req[q].document /\ x.limit = req[q].limit
      /\ x.owner = req[q].owner
      /\ x.pc \in {"load", "reply"}
  BY <1>1 DEF IInv, TypeOK, Request
<1> QED BY <1>1, <1>2, BecomeSlot DEF IInv, Uncommitted

\* An upload takes a new id and keeps it until it commits or ends.
LEMMA UncommittedStep ==
    ASSUME IInv, [Next]_vars, NEW r \in Requests, Uncommitted(r)'
    PROVE  Created(r) \/ (Uncommitted(r) /\ req'[r].document = req[r].document)
<1>1. req'[r] # Idle
  BY DEF Uncommitted, Idle
<1> QED BY <1>1, SlotSteps, ReadsKeepDocument
        DEF Started, Flushed, Onward, Uncommitted, At

\* An upload's document is known to no row and to no other request.
LEMMA AloneStep ==
    ASSUME IInv, UploadsAlone, [Next]_vars
    PROVE  UploadsAlone'
<1> SUFFICES ASSUME NEW r \in Requests, NEW q \in Requests, q # r,
                    Uncommitted(r)'
             PROVE  req'[q].document # req'[r].document
  BY DEF UploadsAlone
<1>1. ASSUME NEW p \in Requests
      PROVE  \/ req'[p].document = req[p].document
             \/ Created(p)
             \/ req'[p].document = NoDocument
             \/ \E row \in documents : row.id = req'[p].document
  <2>1. Idle.document = NoDocument
    BY DEF Idle
  <2> QED BY <2>1, SlotSteps, ReadsKeepDocument DEF Started, Flushed, Onward
<1>2. Created(r) \/ (Uncommitted(r) /\ req'[r].document = req[r].document)
  BY UncommittedStep
<1>3. CASE Created(r)
  BY <1>3, NextIsFree DEF Created
<1>4. CASE Uncommitted(r) /\ req'[r].document = req[r].document
  <2>1. req[r].document \in DocumentIds
    BY <1>4 DEF IInv, Attributed
  <2>2. req[r].document # NoDocument
    BY <2>1 DEF DocumentIds, NoDocument
  <2>3. \A row \in documents : row.id # req[r].document
    BY <1>4 DEF IInv, UncommittedApart
  <2>4. CASE Created(q)
    BY <1>4, <2>4, NextIsFree DEF Created
  <2> QED BY <1>1, <1>4, <2>2, <2>3, <2>4 DEF UploadsAlone
<1> QED BY <1>2, <1>3, <1>4

\* Rows of a document that nobody is uploading stay until it is deleted.
LEMMA RowsStay ==
    ASSUME IInv, UploadsAlone, [Next]_vars, NEW d,
           \A r \in Requests : Uncommitted(r) => req[r].document # d,
           NEW row \in documents', row.id = d
    PROVE  row \in documents /\ Rows(d)' = Rows(d)
<1>1. ASSUME NEW r \in Requests, Commit(r) \/ CommitLost(r)
      PROVE  row \in documents /\ Rows(d)' = Rows(d)
  <2>1. Publish(r) /\ Uncommitted(r)
    BY <1>1 DEF Commit, CommitLost, At, Uncommitted
  <2>2. req[r].document # d
    BY <2>1
  <2>3. PICK ids, e : /\ e = req[r].document
                      /\ chunks' = chunks \cup
                           {[id |-> i, document_id |-> e] : i \in ids}
    BY <2>1 DEF Publish
  <2>4. PICK new : documents' = documents \cup {new} /\ new.id = e
    <3> DEFINE n == [id |-> req[r].document, owner_id |-> req[r].owner,
                     status |-> req[r].status,
                     chunk_count |-> Cardinality(req[r].chunk_ids)]
    <3>1. documents' = documents \cup {n} /\ n.id = req[r].document
      BY <2>1 DEF Publish
    <3> HIDE DEF n
    <3> QED BY <2>3, <3>1
  <2> QED BY <2>2, <2>3, <2>4 DEF Rows
<1>2. ASSUME NEW r \in Requests, DeleteCommit(r) \/ DeleteLost(r)
      PROVE  row \in documents /\ Rows(d)' = Rows(d)
  <2>1. Remove(req[r].document)
    BY <1>2 DEF DeleteCommit, DeleteLost
  <2> QED BY <2>1 DEF Remove, Rows
<1>3. CASE \A r \in Requests : ~Commit(r) /\ ~CommitLost(r)
                               /\ ~DeleteCommit(r) /\ ~DeleteLost(r)
  BY <1>3, OtherStepsKeepRows DEF rows, Rows
<1> QED BY <1>1, <1>2, <1>3

\* Qdrant has what it had, and what an upload sends.
LEMMA SentStep ==
    ASSUME [Next]_vars, NEW x, Sent(x)'
    PROVE  Sent(x) \/ \E r \in Requests : UpsertChunks(r) /\ x \in Batch(r)
<1>1. ASSUME NEW r \in Requests, UpsertChunks(r)
      PROVE  Sent(x) \/ x \in Batch(r)
  <2>1. PICK b : b = Batch(r) /\ inflight' = inflight \cup {b}
    BY <1>1 DEF UpsertChunks
  <2> QED BY <1>1, <2>1 DEF UpsertChunks, Sent, store
<1>2. CASE QdrantApply
  BY <1>2 DEF QdrantApply, Upsert, Sent
<1>3. CASE UNCHANGED points /\ inflight' \subseteq inflight
  BY <1>3 DEF Sent
<1>4. CASE /\ \A r \in Requests : ~UpsertChunks(r)
           /\ ~QdrantApply
  <2>1. UNCHANGED points /\ inflight' \subseteq inflight
    BY <1>4 DEF Next, vars, store, RequestStep, UploadStep, DeleteStep,
      SearchStep, CreateDocument, ExtractFailed, CreateChunks, EmbedTexts,
      EnsureCollection, CreateCollection, CreateCollectionLost,
      UpsertAcknowledged, Commit, CommitLost, Refresh, DeleteDocument,
      DeleteCommit, DeleteLost, SearchDocuments, SearchDocument, NotFound,
      EmbedQuery, QueryPoints, LoadChunks, Return, Abort, Crash, BatchLost
  <2> QED BY <1>3, <2>1
<1> QED BY <1>1, <1>2, <1>4

\* The row of what an upload flushed is there once its document is.
LEMMA CommitBringsRow ==
    ASSUME NEW r \in Requests, Publish(r), NEW d, req[r].document = d,
           NEW i \in req[r].chunk_ids
    PROVE  \E c \in Rows(d)' : c.id = i
<1>1. [id |-> i, document_id |-> d] \in chunks'
  BY DEF Publish
<1>2. [id |-> i, document_id |-> d] \in Rows(d)'
  BY <1>1 DEF Rows
<1> QED BY <1>2

LEMMA NoStrayStep ==
    ASSUME IInv, UploadsAlone, NoStrayPoints, [Next]_vars
    PROVE  NoStrayPoints'
<1> SUFFICES ASSUME NEW x \in Point, Sent(x)'
             PROVE  /\ \A row \in documents' :
                         row.id = x.document_id =>
                           \E c \in Rows(x.document_id)' : c.id = x.id
                    /\ \A r \in Requests :
                         Uncommitted(r)' /\ req'[r].document = x.document_id
                           => x.id \in req'[r].chunk_ids
  BY DEF NoStrayPoints, Rows
<1>0. PICK d : d = x.document_id
  OBVIOUS
<1>1. ASSUME NEW r \in Requests, UpsertChunks(r), x \in Batch(r)
      PROVE  /\ \A row \in documents' : row.id # d
             /\ \A q \in Requests :
                  Uncommitted(q)' /\ req'[q].document = d => x.id \in req'[q].chunk_ids
  <2>1. Uncommitted(r) /\ req[r].document = d /\ x.id \in req[r].chunk_ids
    BY <1>0, <1>1 DEF UpsertChunks, At, Uncommitted, Batch
  <2>2. \A row \in documents' : row.id # d
    BY <1>1, <2>1 DEF UpsertChunks, rows, IInv, UncommittedApart
  <2>3. req'[r].chunk_ids = req[r].chunk_ids
    <3>1. req'[r] = [req[r] EXCEPT !.pc = "indexing"]
      BY <1>1, BecomeSlot DEF UpsertChunks, Goto, IInv
    <3> QED BY <3>1 DEF IInv, TypeOK, Request
  <2>4. ASSUME NEW q \in Requests, q # r PROVE req'[q].document # d
    <3>1. req'[q] = req[q]
      BY <1>1, <2>4, BecomeSlot DEF UpsertChunks, Goto, IInv
    <3> QED BY <2>1, <2>4, <3>1 DEF UploadsAlone
  <2> QED BY <2>1, <2>2, <2>3, <2>4
<1>2. CASE Sent(x)
  <2>1. ASSUME NEW row \in documents', row.id = d
        PROVE  \E c \in Rows(d)' : c.id = x.id
    <3>1. CASE \A r \in Requests : Uncommitted(r) => req[r].document # d
      BY <1>0, <1>2, <2>1, <3>1, RowsStay DEF NoStrayPoints
    <3>2. ASSUME NEW r \in Requests, Uncommitted(r), req[r].document = d
          PROVE  \E c \in Rows(d)' : c.id = x.id
      <4>1. row \notin documents
        BY <2>1, <3>2 DEF IInv, UncommittedApart
      <4>2. PICK q \in Requests : Publish(q) /\ Uncommitted(q)
        <5>1. \E q \in Requests : Commit(q) \/ CommitLost(q)
          <6>1. CASE \A q \in Requests : ~Commit(q) /\ ~CommitLost(q)
                                         /\ ~DeleteCommit(q) /\ ~DeleteLost(q)
            BY <4>1, <6>1, OtherStepsKeepRows DEF rows
          <6>2. ASSUME NEW q \in Requests, DeleteCommit(q) \/ DeleteLost(q)
                PROVE  FALSE
            BY <4>1, <6>2 DEF DeleteCommit, DeleteLost, Remove
          <6> QED BY <6>1, <6>2
        <5> QED BY <5>1 DEF Commit, CommitLost, At, Uncommitted
      <4>3. req[q].document = d
        <5> DEFINE n == [id |-> req[q].document, owner_id |-> req[q].owner,
                         status |-> req[q].status,
                         chunk_count |-> Cardinality(req[q].chunk_ids)]
        <5>1. documents' = documents \cup {n} /\ n.id = req[q].document
          BY <4>2 DEF Publish
        <5> HIDE DEF n
        <5> QED BY <2>1, <4>1, <5>1
      <4>4. x.id \in req[q].chunk_ids
        BY <1>0, <1>2, <4>2, <4>3 DEF NoStrayPoints
      <4> QED BY <4>2, <4>3, <4>4, CommitBringsRow
    <3> QED BY <3>1, <3>2
  <2>2. ASSUME NEW q \in Requests, Uncommitted(q)', req'[q].document = d
        PROVE  x.id \in req'[q].chunk_ids
    <3>1. ~Created(q)
      BY <1>0, <1>2, <2>2, NextIsFree DEF Created
    <3>2. ~Flushed(q)
      <4> SUFFICES ASSUME Flushed(q) PROVE FALSE
        OBVIOUS
      <4>1. Uncommitted(q) /\ req[q].document = d /\ req[q].chunk_ids = {}
        BY <2>2 DEF Flushed, At, Uncommitted, IInv, IndexedFirst
      <4> QED BY <1>0, <1>2, <4>1 DEF NoStrayPoints
    <3>3. Uncommitted(q) /\ req[q].document = d
          /\ req'[q].chunk_ids = req[q].chunk_ids
      <4>1. ~(QueryPoints(q) \/ LoadChunks(q))
        BY <2>2, ReadsKeepDocument
      <4>2. req'[q] # Idle
        BY <2>2 DEF Uncommitted, Idle
      <4> QED BY <2>2, <3>1, <3>2, <4>1, <4>2, SlotSteps
              DEF Started, Onward, Uncommitted
    <3> QED BY <1>0, <1>2, <3>3 DEF NoStrayPoints
  <2> QED BY <1>0, <2>1, <2>2
<1> QED BY <1>0, <1>1, <1>2, SentStep

-----------------------------------------------------------------------------
(* Searches of one document are complete                                   *)

LEMMA SameSize ==
    ASSUME NEW S, NEW T, IsFiniteSet(S), NEW f \in [S -> T],
           \A x, y \in S : f[x] = f[y] => x = y,
           \A t \in T : \E x \in S : f[x] = t
    PROVE  IsFiniteSet(T) /\ Cardinality(T) = Cardinality(S)
<1>1. f \in Bijection(S, T)
  BY DEF Bijection, Injection, Surjection, IsInjective
<1>2. ExistsBijection(S, T)
  BY <1>1 DEF ExistsBijection
<1> QED BY <1>2, FS_Bijection

LEMMA NotLarger ==
    ASSUME NEW S, NEW T, IsFiniteSet(T), NEW f \in [S -> T],
           \A x, y \in S : f[x] = f[y] => x = y
    PROVE  IsFiniteSet(S) /\ Cardinality(S) <= Cardinality(T)
<1>1. f \in Injection(S, T)
  BY DEF Injection, IsInjective
<1> QED BY <1>1, FS_Injection

LEMMA RowsFinite ==
    ASSUME IInv, NEW d
    PROVE  IsFiniteSet(Rows(d)) /\ Cardinality(Rows(d)) \in Nat
<1> DEFINE f == [c \in Rows(d) |-> c.id]
<1>1. IsFiniteSet(ChunkIds)
  BY FS_Interval, ConstantsAssumption DEF ChunkIds
<1>2. \A c \in Rows(d) : c \in Chunk /\ c.document_id = d
  BY DEF Rows, IInv, TypeOK
<1>3. f \in [Rows(d) -> ChunkIds]
  BY <1>2 DEF Chunk
<1>4. \A x, y \in Rows(d) : f[x] = f[y] => x = y
  BY <1>2 DEF Chunk
<1> HIDE DEF f
<1>5. IsFiniteSet(Rows(d))
  BY <1>1, <1>3, <1>4, NotLarger
<1> QED BY <1>5, FS_CardinalityType

\* Points share no id, so there are finitely many.
LEMMA PointsFinite ==
    ASSUME IInv
    PROVE  IsFiniteSet(points) /\ Cardinality(points) \in Nat
<1> DEFINE f == [x \in points |-> x.id]
<1>1. IsFiniteSet(ChunkIds)
  BY FS_Interval, ConstantsAssumption DEF ChunkIds
<1>2. \A x \in points : x \in Point /\ Claimed(x)
  BY DEF IInv, TypeOK, Claimed
<1>3. f \in [points -> ChunkIds]
  BY <1>2 DEF Point
<1>4. \A x, y \in points : f[x] = f[y] => x = y
  BY <1>2 DEF IInv, ClaimsApart
<1> HIDE DEF f
<1>5. IsFiniteSet(points)
  BY <1>1, <1>3, <1>4, NotLarger
<1> QED BY <1>5, FS_CardinalityType

\* What a committed row needs is a claim, and a claim with its id is it.
LEMMA RowPoint ==
    ASSUME IInv, NEW row \in documents, NEW c \in Rows(row.id)
    PROVE  /\ PointOf(row, c) \in points /\ PointOf(row, c) \in Point
           /\ PointOf(row, c).id = c.id
           /\ PointOf(row, c).document_id = row.id
           /\ PointOf(row, c).owner_id = row.owner_id
           /\ \A x \in Point : Claimed(x) /\ x.id = c.id => x = PointOf(row, c)
<1>1. PointOf(row, c) \in points
  BY DEF IInv, PublishedIsIndexed, PointOf
<1>2. PointOf(row, c) \in Point /\ Claimed(PointOf(row, c))
  BY <1>1 DEF IInv, TypeOK, Claimed
<1>3. /\ PointOf(row, c).id = c.id
      /\ PointOf(row, c).document_id = row.id
      /\ PointOf(row, c).owner_id = row.owner_id
  BY DEF PointOf
<1> QED BY <1>1, <1>2, <1>3 DEF IInv, ClaimsApart

\* A request that works on a document has its owner.
LEMMA OwnerOfRow ==
    ASSUME IInv, NEW q \in Requests, NEW row \in documents,
           req[q].document = row.id
    PROVE  req[q].owner = row.owner_id /\ row.id # NoDocument
<1>1. row.id \in DocumentIds /\ row.owner_id \in Owners
  BY DEF IInv, TypeOK, Document
<1>2. req[q].document # NoDocument
  BY <1>1 DEF DocumentIds, NoDocument
<1>3. req[q].owner \in Owners
  BY <1>2 DEF IInv, Attributed
<1>4. Deed(row.id, row.owner_id) /\ Deed(row.id, req[q].owner)
  BY DEF Deed
<1> QED BY <1>1, <1>2, <1>3, <1>4 DEF IInv, DeedsApart

\* The filter of a search of one document keeps its rows and nothing else.
LEMMA MatchingRows ==
    ASSUME IInv, NoStrayPoints, NEW q \in Requests, NEW row \in documents,
           req[q].document = row.id
    PROVE  /\ IsFiniteSet(Matching(q))
           /\ Cardinality(Matching(q)) = Cardinality(Rows(row.id))
           /\ \A p \in Matching(q) : \E c \in Rows(row.id) : c.id = p.id
<1>0. req[q].owner = row.owner_id /\ row.id # NoDocument
  BY OwnerOfRow
<1>1. ASSUME NEW c \in Rows(row.id) PROVE PointOf(row, c) \in Matching(q)
  BY <1>0, RowPoint DEF Matching
<1>2. ASSUME NEW p \in Matching(q)
      PROVE  \E c \in Rows(row.id) : c.id = p.id /\ p = PointOf(row, c)
  <2>1. /\ p \in points /\ p \in Point /\ p.document_id = row.id
        /\ Sent(p) /\ Claimed(p)
    BY <1>0 DEF Matching, IInv, TypeOK, Sent, Claimed
  <2>2. PICK c \in Rows(row.id) : c.id = p.id
    BY <2>1 DEF NoStrayPoints
  <2> QED BY <2>1, <2>2, RowPoint
<1> DEFINE f == [c \in Rows(row.id) |-> PointOf(row, c)]
<1>3. f \in [Rows(row.id) -> Matching(q)]
  BY <1>1
<1>4. \A x, y \in Rows(row.id) : f[x] = f[y] => x = y
  <2> SUFFICES ASSUME NEW x \in Rows(row.id), NEW y \in Rows(row.id), f[x] = f[y]
               PROVE  x = y
    OBVIOUS
  <2>1. x.id = y.id
    BY RowPoint
  <2>2. x \in Chunk /\ y \in Chunk /\ x.document_id = y.document_id
    BY DEF Rows, IInv, TypeOK
  <2> QED BY <2>1, <2>2 DEF Chunk
<1>5. \A t \in Matching(q) : \E x \in Rows(row.id) : f[x] = t
  BY <1>2
<1>6. IsFiniteSet(Rows(row.id))
  BY RowsFinite
<1> HIDE DEF f
<1>7. /\ IsFiniteSet(Matching(q))
      /\ Cardinality(Matching(q)) = Cardinality(Rows(row.id))
  BY <1>3, <1>4, <1>5, <1>6, SameSize
<1> QED BY <1>2, <1>7

\* get_by_ids loads one row for each hit of a document that is still there.
LEMMA LoadedRows ==
    ASSUME IInv, NEW q \in Requests, NEW row \in documents,
           IsFiniteSet(req[q].hits),
           \A p \in req[q].hits : \E c \in Rows(row.id) : c.id = p.id
    PROVE  Cardinality({c \in chunks : \E p \in req[q].hits : p.id = c.id})
             = Cardinality(req[q].hits)
<1> DEFINE found == {c \in chunks : \E p \in req[q].hits : p.id = c.id}
           f == [p \in req[q].hits |-> [id |-> p.id, document_id |-> row.id]]
<1>1. ASSUME NEW p \in req[q].hits
      PROVE  /\ p \in Point /\ Claimed(p)
             /\ \E c \in Rows(row.id) : c.id = p.id
             /\ [id |-> p.id, document_id |-> row.id] \in Rows(row.id)
  <2>1. PICK c \in Rows(row.id) : c.id = p.id
    OBVIOUS
  <2>2. c \in Chunk /\ c.document_id = row.id
    BY DEF Rows, IInv, TypeOK
  <2>3. c = [id |-> p.id, document_id |-> row.id]
    BY <2>1, <2>2 DEF Chunk
  <2>4. p \in Point /\ Claimed(p)
    BY DEF IInv, TypeOK, Request, Claimed
  <2> QED BY <2>1, <2>3, <2>4
<1>2. f \in [req[q].hits -> found]
  <2> SUFFICES ASSUME NEW p \in req[q].hits
               PROVE  [id |-> p.id, document_id |-> row.id] \in found
    OBVIOUS
  <2>1. [id |-> p.id, document_id |-> row.id].id = p.id
    OBVIOUS
  <2> QED BY <1>1, <2>1 DEF Rows
<1>3. \A x, y \in req[q].hits : f[x] = f[y] => x = y
  BY <1>1 DEF IInv, ClaimsApart
<1>4. ASSUME NEW c \in found PROVE \E p \in req[q].hits : f[p] = c
  <2>1. PICK p \in req[q].hits : p.id = c.id
    OBVIOUS
  <2>2. PICK k \in Rows(row.id) : k.id = p.id
    BY <1>1
  <2>3. p = PointOf(row, k)
    BY <1>1, <2>2, RowPoint
  <2>4. c \in chunks /\ c \in Chunk
    BY DEF IInv, TypeOK
  <2>5. PICK other \in documents : other.id = c.document_id
    BY <2>4 DEF IInv, NoOrphanRows
  <2>6. c \in Rows(other.id)
    BY <2>4, <2>5 DEF Rows
  <2>7. p = PointOf(other, c)
    BY <1>1, <2>1, <2>6, RowPoint
  <2>8. c.document_id = row.id
    <3>1. p.document_id = row.id
      BY <2>3, RowPoint
    <3>2. p.document_id = other.id
      BY <2>6, <2>7, RowPoint
    <3> QED BY <2>5, <3>1, <3>2
  <2>9. c = [id |-> p.id, document_id |-> row.id]
    BY <2>1, <2>4, <2>8 DEF Chunk
  <2> QED BY <2>9
<1> HIDE DEF f, found
<1> QED BY <1>2, <1>3, <1>4, SameSize DEF found

LEMMA HitsFinite ==
    ASSUME IInv, NEW q \in Requests
    PROVE  IsFiniteSet(req[q].hits)
<1> DEFINE f == [x \in req[q].hits |-> x.id]
<1>1. IsFiniteSet(ChunkIds)
  BY FS_Interval, ConstantsAssumption DEF ChunkIds
<1>2. \A x \in req[q].hits : x \in Point /\ Claimed(x)
  BY DEF IInv, TypeOK, Request, Claimed
<1>3. f \in [req[q].hits -> ChunkIds]
  BY <1>2 DEF Point
<1>4. \A x, y \in req[q].hits : f[x] = f[y] => x = y
  BY <1>2 DEF IInv, ClaimsApart
<1> HIDE DEF f
<1> QED BY <1>1, <1>3, <1>4, NotLarger

\* The first read of a search finds all it should, the second loses nothing.
LEMMA HitsStep ==
    ASSUME IInv, SearchInv, [Next]_vars
    PROVE  HitsCounted' /\ DocumentSearchComplete'
<1> SUFFICES
      ASSUME NEW q \in Requests, NEW d, d = req'[q].document
      PROVE  /\ req'[q].response = "chunks" => req'[q].pc = "reply"
             /\ \A row \in documents' : row.id = d =>
                  /\ req'[q].pc = "load" =>
                       /\ \A p \in req'[q].hits : \E c \in Rows(d)' : c.id = p.id
                       /\ Cardinality(req'[q].hits)
                            = MinOf(req'[q].limit, Cardinality(Rows(d)'))
                  /\ req'[q].response = "chunks" =>
                       Cardinality(req'[q].result)
                         = MinOf(req'[q].limit, Cardinality(Rows(d)'))
  BY DEF HitsCounted, DocumentSearchComplete, Rows, At, MinOf
<1>0. /\ req[q] \in Request
      /\ req[q].response = "chunks" => req[q].pc = "reply"
      /\ \A row \in documents : row.id = req[q].document =>
           /\ req[q].pc = "load" =>
                /\ \A p \in req[q].hits :
                     \E c \in Rows(row.id) : c.id = p.id
                /\ Cardinality(req[q].hits)
                     = MinOf(req[q].limit, Cardinality(Rows(row.id)))
           /\ req[q].response = "chunks" =>
                Cardinality(req[q].result)
                  = MinOf(req[q].limit, Cardinality(Rows(row.id)))
  BY DEF IInv, TypeOK, SearchInv, HitsCounted, DocumentSearchComplete, At
<1>1. CASE req'[q] = req[q]
  <2>1. CASE req[q].pc = "load" \/ req[q].response = "chunks"
    <3>1. ~Uncommitted(q)
      BY <1>0, <2>1 DEF Uncommitted
    <3>2. \A r \in Requests : Uncommitted(r) => req[r].document # d
      BY <1>1, <3>1 DEF SearchInv, UploadsAlone
    <3>3. \A row \in documents' : row.id = d => row \in documents /\ Rows(d)' = Rows(d)
      BY <3>2, RowsStay DEF SearchInv
    <3> QED BY <1>0, <1>1, <3>3
  <2>2. CASE ~(req[q].pc = "load" \/ req[q].response = "chunks")
    BY <1>1, <2>2
  <2> QED BY <2>1, <2>2
<1>2. CASE \/ req'[q] = Idle \/ Started(q) \/ Created(q)
           \/ Flushed(q) \/ Onward(q)
  BY <1>0, <1>2 DEF Idle, Started, Created, Flushed, Onward, At
<1>3. CASE QueryPoints(q)
  <2>1. PICK found \in SUBSET Matching(q) :
          /\ Cardinality(found) = MinOf(req[q].limit, Cardinality(Matching(q)))
          /\ Become(q, [req[q] EXCEPT !.pc = "load", !.hits = found])
    BY <1>3 DEF QueryPoints
  <2>2. req'[q] = [req[q] EXCEPT !.pc = "load", !.hits = found]
    BY <2>1, BecomeSlot DEF IInv
  <2>3. /\ req'[q].pc = "load" /\ req'[q].hits = found
        /\ req'[q].limit = req[q].limit /\ req'[q].response = req[q].response
        /\ req'[q].document = req[q].document
    BY <1>0, <2>2 DEF Request
  <2>4. req[q].response # "chunks"
    BY <1>0, <1>3 DEF QueryPoints, At
  <2>5. documents' = documents /\ Rows(d)' = Rows(d)
    BY <1>3 DEF QueryPoints, rows, Rows
  <2>6. ASSUME NEW row \in documents, row.id = d
        PROVE  /\ Cardinality(Matching(q)) = Cardinality(Rows(d))
               /\ \A p \in Matching(q) : \E c \in Rows(d) : c.id = p.id
    BY <2>3, <2>6, MatchingRows DEF SearchInv
  <2> QED BY <2>1, <2>3, <2>4, <2>5, <2>6
<1>4. CASE LoadChunks(q)
  <2> DEFINE found == {c \in chunks : \E p \in req[q].hits : p.id = c.id}
  <2>1. req'[q] = [req[q] EXCEPT !.pc = "reply", !.response = "chunks",
                                 !.result = found]
    BY <1>4, BecomeSlot DEF LoadChunks, IInv
  <2>2. /\ req'[q].pc = "reply" /\ req'[q].result = found
        /\ req'[q].limit = req[q].limit
        /\ req'[q].document = req[q].document
    <3> HIDE DEF found
    <3> QED BY <1>0, <2>1 DEF Request
  <2>3. req[q].pc = "load"
    BY <1>4 DEF LoadChunks, At
  <2>4. documents' = documents /\ Rows(d)' = Rows(d)
    BY <1>4 DEF LoadChunks, rows, Rows
  <2>5. IsFiniteSet(req[q].hits)
    BY HitsFinite
  <2>6. ASSUME NEW row \in documents, row.id = d
        PROVE  Cardinality(found) = Cardinality(req[q].hits)
    BY <1>0, <2>2, <2>3, <2>5, <2>6, LoadedRows
  <2> HIDE DEF found
  <2> QED BY <1>0, <2>2, <2>3, <2>4, <2>6
<1> QED BY <1>1, <1>2, <1>3, <1>4, SlotSteps

\* A search of one document that is still there returns as many chunks as were
\* asked for, or all of them, whatever other requests abort, upload or delete,
\* and however late Qdrant applies their batches (search_chunks, get_by_ids).
THEOREM SearchTheorem == Spec => []DocumentSearchComplete
<1>1. Init => SearchInv
  BY DEF Init, SearchInv, NoStrayPoints, UploadsAlone, HitsCounted,
         DocumentSearchComplete, Sent, At, Uncommitted, Idle
<1>2. IInv /\ SearchInv /\ [Next]_vars => SearchInv'
  BY AloneStep, NoStrayStep, HitsStep DEF SearchInv
<1>3. SearchInv => DocumentSearchComplete
  BY DEF SearchInv
<1> QED BY <1>1, <1>2, <1>3, InvariantTheorem, PTL DEF Spec

-----------------------------------------------------------------------------
(* Searches of all documents lose to stale points only                     *)

\* An owner's committed rows are no more than the points the filter keeps.
LEMMA OwnRowsMatched ==
    ASSUME IInv, NEW q \in Requests, req[q].document = NoDocument
    PROVE  /\ IsFiniteSet(Matching(q)) /\ Cardinality(Matching(q)) \in Nat
           /\ Cardinality(OwnRows(req[q].owner)) \in Nat
           /\ Cardinality(OwnRows(req[q].owner)) <= Cardinality(Matching(q))
<1> DEFINE o == req[q].owner
           f == [c \in OwnRows(o) |->
                   [id |-> c.id, owner_id |-> o, document_id |-> c.document_id]]
<1>1. IsFiniteSet(Matching(q)) /\ Cardinality(Matching(q)) \in Nat
  <2>1. Matching(q) \subseteq points
    BY DEF Matching
  <2> QED BY <2>1, PointsFinite, FS_Subset, FS_CardinalityType
<1>2. ASSUME NEW c \in OwnRows(o)
      PROVE  [id |-> c.id, owner_id |-> o, document_id |-> c.document_id]
               \in Matching(q)
  <2>1. PICK row \in documents : row.id = c.document_id /\ row.owner_id = o
    BY DEF OwnRows
  <2>2. c \in Rows(row.id)
    BY <2>1 DEF OwnRows, Rows
  <2>3. PointOf(row, c) \in points
    BY <2>2, RowPoint
  <2> QED BY <2>1, <2>3 DEF PointOf, Matching
<1>3. f \in [OwnRows(o) -> Matching(q)]
  BY <1>2
<1>4. \A x, y \in OwnRows(o) : f[x] = f[y] => x = y
  <2>1. \A c \in OwnRows(o) : c \in Chunk
    BY DEF OwnRows, IInv, TypeOK
  <2> QED BY <2>1 DEF Chunk
<1> HIDE DEF f
<1>5. IsFiniteSet(OwnRows(o)) /\ Cardinality(OwnRows(o)) <= Cardinality(Matching(q))
  BY <1>1, <1>3, <1>4, NotLarger
<1> QED BY <1>1, <1>5, FS_CardinalityType

\* A search of all documents misses chunks for nothing but stale points, those
\* of deleted documents and rolled back uploads, and one chunk at most for each.
THEOREM LostTheorem == Spec => LostToStaleOnly
<1>1. ASSUME IInv, [Next]_vars, NEW r \in Requests,
             At(r, "search"), req'[r].pc = "load", req[r].document = NoDocument
      PROVE  LET o == req[r].owner
                 stale == {p \in points : p.owner_id = o /\ p.id \notin LiveIds}
                 live == {p \in req'[r].hits : p.id \in LiveIds}
             IN  MinOf(req[r].limit, Cardinality(OwnRows(o)))
                   <= Cardinality(live) + Cardinality(stale)
  <2>1. QueryPoints(r)
    <3>1. ~LoadChunks(r) /\ req'[r] # req[r] /\ req'[r] # Idle
      BY <1>1 DEF LoadChunks, At, Idle
    <3> QED BY <1>1, <3>1, SlotSteps DEF Started, Created, Flushed, Onward, At
  <2>2. PICK found \in SUBSET Matching(r) :
          /\ Cardinality(found) = MinOf(req[r].limit, Cardinality(Matching(r)))
          /\ Become(r, [req[r] EXCEPT !.pc = "load", !.hits = found])
    BY <2>1 DEF QueryPoints
  <2>3. req'[r].hits = found
    <3>1. req'[r] = [req[r] EXCEPT !.pc = "load", !.hits = found]
      BY <1>1, <2>2, BecomeSlot DEF IInv
    <3> QED BY <1>1, <3>1 DEF IInv, TypeOK, Request
  <2> DEFINE o == req[r].owner
             stale == {p \in points : p.owner_id = o /\ p.id \notin LiveIds}
             live == {p \in found : p.id \in LiveIds}
  <2>4. IsFiniteSet(stale) /\ IsFiniteSet(live) /\ IsFiniteSet(found)
    BY <1>1, PointsFinite, FS_Subset DEF Matching
  <2>5. found \ live \subseteq stale
    BY DEF Matching
  <2>6. /\ Cardinality(found \ live) <= Cardinality(stale)
        /\ Cardinality(found) = Cardinality(live) + Cardinality(found \ live)
        /\ Cardinality(live) \in Nat /\ Cardinality(stale) \in Nat
        /\ Cardinality(found \ live) \in Nat
    <3>1. IsFiniteSet(found \ live) /\ Cardinality(found \ live) <= Cardinality(stale)
      BY <2>4, <2>5, FS_Subset
    <3>2. live \cap (found \ live) = {} /\ found = live \cup (found \ live)
      OBVIOUS
    <3> HIDE DEF live, stale
    <3>3. /\ Cardinality(live) \in Nat /\ Cardinality(stale) \in Nat
          /\ Cardinality(found \ live) \in Nat
      BY <2>4, <3>1, FS_CardinalityType
    <3>4. PICK rest : rest = found \ live
      OBVIOUS
    <3>5. Cardinality(live \cup rest)
            = Cardinality(live) + Cardinality(rest) - Cardinality(live \cap rest)
      BY <2>4, <3>1, <3>4, FS_Union
    <3>6. Cardinality(live \cap rest) = 0 /\ Cardinality(live \cup rest) = Cardinality(found)
      BY <3>2, <3>4, FS_EmptySet, Zenon
    <3> QED BY <3>1, <3>3, <3>4, <3>5, <3>6
  <2>7. req[r].limit \in Nat
    BY <1>1, ConstantsAssumption DEF IInv, TypeOK, Request
  <2>8. /\ Cardinality(Matching(r)) \in Nat /\ Cardinality(OwnRows(o)) \in Nat
        /\ Cardinality(OwnRows(o)) <= Cardinality(Matching(r))
    BY <1>1, OwnRowsMatched
  <2> HIDE DEF live, stale, o
  <2>9. MinOf(req[r].limit, Cardinality(OwnRows(o)))
          <= Cardinality(live) + Cardinality(stale)
    BY <2>2, <2>6, <2>7, <2>8 DEF MinOf
  <2> QED BY <2>3, <2>9 DEF live, stale, o
<1>2. IInv /\ [Next]_vars =>
        [\A r \in Requests :
           /\ At(r, "search") /\ req'[r].pc = "load"
           /\ req[r].document = NoDocument
           => LET o == req[r].owner
                  stale == {p \in points : p.owner_id = o /\ p.id \notin LiveIds}
                  live == {p \in req'[r].hits : p.id \in LiveIds}
              IN  MinOf(req[r].limit, Cardinality(OwnRows(o)))
                    <= Cardinality(live) + Cardinality(stale)]_vars
  BY <1>1
<1> QED BY <1>2, InvariantTheorem, PTL DEF Spec, LostToStaleOnly
-----------------------------------------------------------------------------
(* The store implements the library                                        *)

\* Given the invariant, every chunk row of a document is searchable.
RowIds(d) == {c.id : c \in Rows(d)}
Volume(row) == [id |-> row.id, owner_id |-> row.owner_id,
                status |-> row.status, searchable |-> RowIds(row.id)]
PlainShelf == {Volume(row) : row \in documents}

LEMMA ShelfIsPlain ==
    ASSUME PublishedIsIndexed
    PROVE  Shelf = PlainShelf
<1>1. ASSUME NEW row \in documents PROVE Searchable(row) = RowIds(row.id)
  BY DEF Searchable, RowIds, PublishedIsIndexed
<1> QED BY <1>1 DEF Shelf, PlainShelf, Volume

LEMMA SameRowsSameShelf ==
    ASSUME UNCHANGED rows
    PROVE  PlainShelf' = PlainShelf
BY DEF rows, PlainShelf, Volume, RowIds, Rows

\* The sequence goes up only, one id at a time.
LEMMA SequenceStep ==
    ASSUME IInv, [Next]_vars
    PROVE  /\ nextDocument \in Nat /\ nextDocument' \in Nat
           /\ nextDocument <= nextDocument'
<1>1. nextDocument \in Nat
  BY ConstantsAssumption DEF IInv, TypeOK
<1>2. nextDocument' \in {nextDocument, nextDocument + 1}
  BY DEF Next, vars, sequences, RequestStep, UploadStep, DeleteStep, SearchStep,
     CreateDocument, ExtractFailed, CreateChunks, EmbedTexts,
     EnsureCollection, CreateCollection, CreateCollectionLost, UpsertChunks,
     UpsertAcknowledged, Commit, CommitLost, Refresh, DeleteDocument,
     DeleteCommit, DeleteLost, SearchDocuments, SearchDocument, NotFound,
     EmbedQuery, QueryPoints, LoadChunks, Return, Abort, Crash, QdrantApply,
     BatchLost
<1> QED BY <1>1, <1>2

\* No step frees an id: an upload that begins takes one the sequence has not
\* given to anybody.
LEMMA SpentGrows ==
    ASSUME IInv, [Next]_vars
    PROVE  Spent \subseteq Spent'
<1>1. ASSUME NEW d \in Spent PROVE d < nextDocument'
  BY <1>1, SequenceStep DEF Spent, DocumentIds
<1>2. ASSUME NEW d \in Spent, NEW r \in Requests, Uncommitted(r)'
      PROVE  req'[r].document # d
  <2>1. CASE Created(r)
    BY <2>1, SequenceStep DEF Created, Spent, DocumentIds
  <2>2. CASE Uncommitted(r) /\ req'[r].document = req[r].document
    BY <2>2 DEF Spent
  <2> QED BY <1>2, <2>1, <2>2, UncommittedStep
<1> QED BY <1>1, <1>2 DEF Spent

\* A step that uses up ids and shows nothing is one of the library too.
LEMMA ShelfStays ==
    ASSUME IInv, [Next]_vars, UNCHANGED Shelf
    PROVE  Library!LibraryNext
<1>1. Spent' = Spent \cup Spent'
  BY SpentGrows
<1>2. Spent' \in SUBSET DocumentIds
  BY DEF Spent
<1>3. Library!Forfeit(Spent')
  BY <1>1 DEF Library!Forfeit
<1> QED BY <1>2, <1>3 DEF Library!LibraryNext, Library!Upload

\* The id of an upload is spent by its commit, and by nothing before.
LEMMA CommitSpends ==
    ASSUME IInv, NEW r \in Requests, Commit(r) \/ CommitLost(r)
    PROVE  /\ req[r].document \notin Spent
           /\ Spent' = Spent \cup {req[r].document}
<1> DEFINE d == req[r].document
<1>1. At(r, "commit") /\ UNCHANGED nextDocument
  BY DEF Commit, CommitLost, sequences
<1>2. Uncommitted(r) /\ d \in DocumentIds
  BY <1>1 DEF At, Uncommitted, IInv, Attributed
<1>3. d < nextDocument
  <2>1. Deed(d, req[r].owner) /\ req[r].owner \in Owners
    BY <1>1 DEF At, Deed, IInv, Attributed
  <2> QED BY <1>2, <2>1 DEF IInv, DeedsApart
<1>4. \A q \in Requests : q # r => req'[q] = req[q]
  BY OthersStay DEF RequestStep, UploadStep
<1>5. ~Uncommitted(r)'
  <2>1. PICK x : Become(r, x) /\ x.pc \in {"refresh", "idle"}
    <3>1. CASE Commit(r)
      <4>1. Become(r, [req[r] EXCEPT !.pc = "refresh"])
        BY <3>1 DEF Commit, Goto
      <4>2. [req[r] EXCEPT !.pc = "refresh"].pc = "refresh"
        BY DEF IInv, TypeOK, Request
      <4> QED BY <4>1, <4>2
    <3>2. CASE CommitLost(r)
      BY <3>2 DEF CommitLost, Drop, Idle
    <3> QED BY <3>1, <3>2
  <2> QED BY <2>1, BecomeSlot DEF IInv, Uncommitted
<1>6. \A q \in Requests : Uncommitted(q)' => req'[q].document # d
  BY <1>2, <1>4, <1>5 DEF IInv, UncommittedApart, Uncommitted
<1>7. ASSUME NEW e \in DocumentIds, e # d PROVE e \in Spent' <=> e \in Spent
  BY <1>1, <1>4, <1>5, <1>7 DEF Spent, Uncommitted
<1>8. d \in Spent' /\ d \notin Spent
  BY <1>1, <1>2, <1>3, <1>6 DEF Spent
<1> QED BY <1>7, <1>8 DEF Spent

\* A delete spends nothing: its id is spent since the upload.
LEMMA DeleteSpendsNothing ==
    ASSUME IInv, NEW r \in Requests, DeleteCommit(r) \/ DeleteLost(r)
    PROVE  Spent' = Spent
<1>1. At(r, "delete") /\ UNCHANGED nextDocument
  BY DEF DeleteCommit, DeleteLost, sequences
<1>2. \A q \in Requests : q # r => req'[q] = req[q]
  BY OthersStay DEF RequestStep, DeleteStep
<1>3. ~Uncommitted(r)
  BY <1>1 DEF Uncommitted, At
<1>4. ~Uncommitted(r)'
  <2>1. PICK x : Become(r, x) /\ x.pc \in {"reply", "idle"}
    <3>1. CASE DeleteCommit(r)
      <4>1. Become(r, [req[r] EXCEPT !.pc = "reply", !.response = "deleted"])
        BY <3>1 DEF DeleteCommit, Reply
      <4>2. [req[r] EXCEPT !.pc = "reply", !.response = "deleted"].pc = "reply"
        BY DEF IInv, TypeOK, Request
      <4> QED BY <4>1, <4>2
    <3>2. CASE DeleteLost(r)
      BY <3>2 DEF DeleteLost, Drop, Idle
    <3> QED BY <3>1, <3>2
  <2> QED BY <2>1, BecomeSlot DEF IInv, Uncommitted
<1> QED BY <1>1, <1>2, <1>3, <1>4 DEF Spent, Uncommitted

\* A commit puts one volume on the shelf and leaves the others.
LEMMA CommitPublishes ==
    ASSUME IInv, StatusSettled, NEW r \in Requests, Commit(r) \/ CommitLost(r),
           Shelf = PlainShelf, Shelf' = PlainShelf'
    PROVE  Library!LibraryNext
<1> Publish(r) /\ At(r, "commit")
  BY DEF Commit, CommitLost
<1>0. PICK d, o, ids, st : /\ d = req[r].document /\ o = req[r].owner
                           /\ ids = req[r].chunk_ids /\ st = req[r].status
                           /\ st \in {"processed", "failed"}
                           /\ st = "failed" <=> ids = {}
  BY DEF StatusSettled
<1>1. /\ d \in DocumentIds /\ o \in Owners /\ ids \in SUBSET ChunkIds
      /\ Uncommitted(r)
  <2>1. req[r] \in Request
    BY DEF IInv, TypeOK
  <2> QED BY <1>0, <2>1 DEF IInv, Attributed, Uncommitted, At, Request
<1>2. PICK new : /\ documents' = documents \cup {new}
                 /\ new.id = d /\ new.owner_id = o
                 /\ new.status = st
  <2> DEFINE new == [id |-> req[r].document, owner_id |-> req[r].owner,
                     status |-> req[r].status,
                     chunk_count |-> Cardinality(req[r].chunk_ids)]
  <2>1. documents' = documents \cup {new}
    BY DEF Publish
  <2>2. new.id = d /\ new.owner_id = o /\ new.status = st
    BY <1>0
  <2> HIDE DEF new
  <2> QED BY <2>1, <2>2
<1>3. chunks' = chunks \cup {[id |-> i, document_id |-> d] : i \in ids}
  BY <1>0 DEF Publish
<1>4. \A row \in documents : row.id # d
  BY <1>0, <1>1 DEF IInv, UncommittedApart
<1>5. \A c \in chunks : c.document_id # d
  BY <1>4 DEF IInv, NoOrphanRows
<1>6. RowIds(d)' = ids
  <2>1. Rows(d)' = {[id |-> i, document_id |-> d] : i \in ids}
    BY <1>3, <1>5 DEF Rows
  <2>2. ASSUME NEW i \in ids PROVE i \in RowIds(d)'
    <3>1. [id |-> i, document_id |-> d] \in Rows(d)'
      BY <2>1
    <3>2. [id |-> i, document_id |-> d].id = i
      OBVIOUS
    <3> QED BY <3>1, <3>2 DEF RowIds
  <2>3. ASSUME NEW i \in RowIds(d)' PROVE i \in ids
    BY <2>1, <2>3 DEF RowIds
  <2> QED BY <2>2, <2>3
<1>7. ASSUME NEW row \in documents PROVE Volume(row)' = Volume(row)
  <2>1. row.id # d
    BY <1>4
  <2>2. Rows(row.id)' = Rows(row.id)
    BY <1>3, <2>1 DEF Rows
  <2> QED BY <2>2 DEF Volume, RowIds
<1>8. PlainShelf' = PlainShelf \cup {[id |-> d, owner_id |-> o,
                                     status |-> st, searchable |-> ids]}
  <2>1. Volume(new)' = [id |-> d, owner_id |-> o, status |-> st,
                        searchable |-> ids]
    BY <1>2, <1>6 DEF Volume
  <2>2. PlainShelf' = {Volume(row)' : row \in documents'}
    BY DEF PlainShelf
  <2>3. PlainShelf = {Volume(row) : row \in documents}
    BY DEF PlainShelf
  <2> QED BY <1>2, <1>7, <2>1, <2>2, <2>3
<1>9. d \notin Spent /\ Spent' = Spent \cup {d}
  BY <1>0, CommitSpends
<1>10. CASE ids = {}
  <2>1. Library!RecordFailure(d, o)
    BY <1>0, <1>8, <1>9, <1>10 DEF Library!RecordFailure
  <2> QED BY <1>1, <2>1 DEF Library!LibraryNext, Library!Upload
<1>11. CASE ids # {}
  <2>1. ASSUME NEW v \in Shelf, NEW i \in v.searchable \cap ids PROVE FALSE
    <3>1. PICK row \in documents : v = Volume(row)
      BY DEF PlainShelf
    <3>2. PICK c \in Rows(row.id) : c.id = i
      BY <2>1, <3>1 DEF Volume, RowIds
    <3> DEFINE x == [id |-> i, owner_id |-> o, document_id |-> d]
    <3>3. x.id = i /\ x.document_id = d
      OBVIOUS
    <3>4. x \in Point /\ x \in Batch(r)
      BY <1>0, <1>1, <2>1 DEF Point, Batch
    <3> HIDE DEF x
    <3>5. PointOf(row, c) \in points /\ PointOf(row, c).id = i
          /\ PointOf(row, c).document_id = row.id
      BY <3>2 DEF IInv, PublishedIsIndexed, PointOf
    <3>6. PointOf(row, c) = x
      BY <3>3, <3>4, <3>5 DEF IInv, TypeOK, ClaimsApart, Claimed
    <3> QED BY <1>4, <3>3, <3>5, <3>6
  <2>2. \A v \in Shelf : v.searchable \cap ids = {}
    BY <2>1
  <2>3. Library!Publish(d, o, ids)
    <3>1. Shelf' = Shelf \cup {[id |-> d, owner_id |-> o,
                                status |-> "processed", searchable |-> ids]}
      BY <1>0, <1>8, <1>11
    <3> QED BY <1>9, <1>11, <2>2, <3>1 DEF Library!Publish
  <2> QED BY <1>1, <2>3 DEF Library!LibraryNext, Library!Upload
<1> QED BY <1>10, <1>11

\* A delete takes one volume off the shelf, or finds it gone.
LEMMA RemoveDiscards ==
    ASSUME IInv, NEW d \in DocumentIds, Remove(d), Spent' = Spent,
           Shelf = PlainShelf, Shelf' = PlainShelf'
    PROVE  Library!LibraryNext \/ UNCHANGED Shelf
<1>1. documents' = {row \in documents : row.id # d}
  BY DEF Remove
<1>2. ASSUME NEW row \in documents' PROVE Volume(row)' = Volume(row)
  <2>1. Rows(row.id)' = Rows(row.id)
    BY <1>1, <1>2 DEF Remove, Rows
  <2> QED BY <2>1 DEF Volume, RowIds
<1>3. Shelf' = {v \in Shelf : v.id # d}
  <2>1. PlainShelf' = {Volume(row)' : row \in documents'}
    BY DEF PlainShelf
  <2>2. PlainShelf = {Volume(row) : row \in documents}
    BY DEF PlainShelf
  <2>3. \A row \in documents : Volume(row).id = row.id
    BY DEF Volume
  <2> QED BY <1>1, <1>2, <2>1, <2>2, <2>3
<1>4. CASE Library!OnShelf(d)
  BY <1>3, <1>4 DEF Library!Discard, Library!LibraryNext
<1>5. CASE ~Library!OnShelf(d)
  BY <1>3, <1>5 DEF Library!OnShelf
<1> QED BY <1>4, <1>5

LEMMA StepImplements ==
    ASSUME IInv, IInv', StatusSettled, [Next]_vars
    PROVE  Library!LibraryNext
<1>1. Shelf = PlainShelf /\ Shelf' = PlainShelf'
  <2>1. (PublishedIsIndexed => Shelf = PlainShelf)'
    BY ShelfIsPlain, PTL
  <2> QED BY <2>1, ShelfIsPlain DEF IInv
<1>2. ASSUME NEW r \in Requests, Commit(r) \/ CommitLost(r)
      PROVE  Library!LibraryNext
  BY <1>1, <1>2, CommitPublishes
<1>3. ASSUME NEW r \in Requests, DeleteCommit(r) \/ DeleteLost(r)
      PROVE  Library!LibraryNext
  <2>1. PICK d : d = req[r].document
    OBVIOUS
  <2>2. Remove(d) /\ Spent' = Spent
    BY <1>3, <2>1, DeleteSpendsNothing DEF DeleteCommit, DeleteLost, Remove
  <2>3. CASE d \in DocumentIds
    BY <1>1, <2>2, <2>3, RemoveDiscards, ShelfStays
  <2>4. CASE d \notin DocumentIds
    <3>1. /\ \A row \in documents : row.id \in DocumentIds
          /\ \A c \in chunks : c.document_id \in DocumentIds
      BY DEF IInv, TypeOK, Document, Chunk
    <3>2. UNCHANGED rows
      BY <2>2, <2>4, <3>1 DEF Remove, rows
    <3> QED BY <1>1, <3>2, SameRowsSameShelf, ShelfStays
  <2> QED BY <2>3, <2>4
<1>4. CASE \A r \in Requests : ~Commit(r) /\ ~CommitLost(r)
                               /\ ~DeleteCommit(r) /\ ~DeleteLost(r)
  BY <1>1, <1>4, OtherStepsKeepRows, SameRowsSameShelf, ShelfStays
<1> QED BY <1>2, <1>3, <1>4

\* To its users the store is the library: documents appear whole, with all of
\* their chunks searchable, keep them, go whole, and leave their ids to nobody,
\* however requests overlap, fail or die between PostgreSQL and Qdrant.
THEOREM ImplementsTheorem == Spec => ImplementsLibrary
<1>1. Init => Library!LibraryInit
  BY DEF Init, Library!LibraryInit, Shelf, Spent, DocumentIds
<1>2. IInv /\ IInv' /\ StatusSettled /\ [Next]_vars
        => [Library!LibraryNext]_<<Shelf, Spent>>
  BY StepImplements
<1> QED
  BY <1>1, <1>2, InvariantTheorem, StatusTheorem, PTL
     DEF Spec, ImplementsLibrary, Library!LibrarySpec
=============================================================================

------------------------ MODULE DocumentIndexProofs ------------------------
(* Theorems about DocumentIndex, for every value of its constants.         *)
EXTENDS DocumentIndexInvariant, FiniteSetTheorems, TLAPS

-----------------------------------------------------------------------------
(* Types                                                                   *)

\* Become rewrites one slot and leaves the others.
LEMMA BecomeSlot ==
    ASSUME TypeOK, NEW r \in Requests, NEW x, Become(r, x)
    PROVE  /\ req'[r] = x
           /\ \A q \in Requests : q # r => req'[q] = req[q]
           /\ x \in Request => req' \in [Requests -> Request]
BY DEF Become, TypeOK

LEMMA IdleType == Idle \in Request
BY ConstantsAssumption DEF Idle, Request, Steps, Responses, NoDocument

\* A step that only moves the program counter keeps the request's type.
LEMMA GotoType ==
    ASSUME TypeOK, NEW r \in Requests, NEW step \in Steps, Goto(r, step)
    PROVE  req' \in [Requests -> Request]
<1>1. [req[r] EXCEPT !.pc = step] \in Request
  <2>1. req[r] \in Request
    BY DEF TypeOK
  <2> QED BY <2>1 DEF Request
<1> QED BY <1>1, BecomeSlot DEF Goto

LEMMA ReplyType ==
    ASSUME TypeOK, NEW r \in Requests, NEW a \in Responses, Reply(r, a)
    PROVE  req' \in [Requests -> Request]
<1>1. [req[r] EXCEPT !.pc = "reply", !.response = a] \in Request
  <2>1. req[r] \in Request
    BY DEF TypeOK
  <2> QED BY <2>1 DEF Request, Steps
<1> QED BY <1>1, BecomeSlot DEF Reply

LEMMA DropType ==
    ASSUME TypeOK, NEW r \in Requests, Drop(r)
    PROVE  req' \in [Requests -> Request]
BY BecomeSlot, IdleType DEF Drop

\* The rows of an upload are counted by a natural number.
LEMMA ChunkCountType ==
    ASSUME NEW ids \in SUBSET ChunkIds
    PROVE  IsFiniteSet(ids) /\ Cardinality(ids) \in Nat
<1>1. IsFiniteSet(ChunkIds)
  BY FS_Interval, ConstantsAssumption DEF ChunkIds
<1>2. IsFiniteSet(ids)
  BY <1>1, FS_Subset
<1> QED BY <1>2, FS_CardinalityType

LEMMA InitType == Init => TypeOK
BY IdleType, ConstantsAssumption DEF Init, TypeOK, NoCollection

LEMMA PublishType ==
    ASSUME TypeOK, NEW r \in Requests, Publish(r),
           req[r].owner \in Owners, req[r].document \in DocumentIds
    PROVE  documents' \subseteq Document /\ chunks' \subseteq Chunk
<1>1. req[r] \in Request
  BY DEF TypeOK
<1>2. Cardinality(req[r].chunk_ids) \in Nat
  BY <1>1, ChunkCountType DEF Request
<1>3. documents' \subseteq Document
  BY <1>1, <1>2 DEF Publish, TypeOK, Request, Document
<1>4. chunks' \subseteq Chunk
  BY <1>1 DEF Publish, TypeOK, Request, Chunk
<1> QED BY <1>3, <1>4
\* Every step keeps the types, given that uploads know their owner and id.
LEMMA UploadType ==
    ASSUME TypeOK, Attributed, NEW r \in Requests, UploadStep(r)
    PROVE  TypeOK'
<1> USE DEF rows, store, sequences
<1>0. req[r] \in Request
  BY DEF TypeOK
<1>1. ASSUME NEW o \in Owners, CreateDocument(r, o) PROVE TypeOK'
  <2>1. nextDocument \in DocumentIds /\ nextDocument + 1 \in 1..(MaxDocumentId + 1)
    BY <1>1, ConstantsAssumption DEF CreateDocument, TypeOK, DocumentIds
  <2>2. [Idle EXCEPT !.pc = "extract", !.owner = o, !.document = nextDocument]
          \in Request
    BY <2>1, IdleType DEF Request, Steps
  <2>3. req' \in [Requests -> Request]
    BY <1>1, <2>2, BecomeSlot DEF CreateDocument
  <2> QED BY <1>1, <2>1, <2>3 DEF CreateDocument, TypeOK
<1>2. ASSUME ExtractFailed(r) PROVE TypeOK'
  <2>1. [req[r] EXCEPT !.pc = "commit", !.status = "failed"] \in Request
    BY <1>0 DEF Request, Steps
  <2>2. req' \in [Requests -> Request]
    BY <1>2, <2>1, BecomeSlot DEF ExtractFailed
  <2> QED BY <1>2, <2>2 DEF ExtractFailed, TypeOK
<1>3. ASSUME CreateChunks(r) PROVE TypeOK'
  <2>1. PICK n \in 1..MaxChunks :
          /\ nextChunk + n <= MaxChunkId + 1
          /\ nextChunk' = nextChunk + n
          /\ Become(r, [req[r] EXCEPT
               !.pc = "embed", !.chunk_ids = nextChunk..(nextChunk + n - 1)])
    BY <1>3 DEF CreateChunks
  <2>2. /\ nextChunk..(nextChunk + n - 1) \subseteq ChunkIds
        /\ nextChunk' \in 1..(MaxChunkId + 1)
    BY <2>1, ConstantsAssumption DEF ChunkIds, TypeOK
  <2>3. [req[r] EXCEPT !.pc = "embed",
                       !.chunk_ids = nextChunk..(nextChunk + n - 1)] \in Request
    BY <1>0, <2>2 DEF Request, Steps
  <2>4. req' \in [Requests -> Request]
    BY <2>1, <2>3, BecomeSlot
  <2> QED BY <1>3, <2>2, <2>4 DEF CreateChunks, TypeOK
<1>4. ASSUME EmbedTexts(r) PROVE TypeOK'
  <2>1. req' \in [Requests -> Request]
    BY <1>4, GotoType DEF EmbedTexts, Steps
  <2> QED BY <1>4, <2>1 DEF EmbedTexts, TypeOK
<1>5. ASSUME EnsureCollection(r) PROVE TypeOK'
  <2>1. req' \in [Requests -> Request]
    BY <1>5, GotoType DEF EnsureCollection, Steps
  <2> QED BY <1>5, <2>1 DEF EnsureCollection, TypeOK
<1>6. ASSUME CreateCollection(r) PROVE TypeOK'
  <2>1. req' \in [Requests -> Request]
    BY <1>6, GotoType DEF CreateCollection, Steps
  <2> QED BY <1>6, <2>1 DEF CreateCollection, TypeOK
<1>7. ASSUME CreateCollectionLost(r) PROVE TypeOK'
  BY <1>7, DropType DEF CreateCollectionLost, TypeOK
<1>8. ASSUME UpsertChunks(r) PROVE TypeOK'
  <2>1. req[r].owner \in Owners /\ req[r].document \in DocumentIds
    BY <1>8 DEF UpsertChunks, At, Attributed, Uncommitted
  <2>2. Batch(r) \subseteq Point
    BY <1>0, <2>1 DEF Batch, Point, Request
  <2>3. req' \in [Requests -> Request]
    BY <1>8, GotoType DEF UpsertChunks, Steps
  <2> QED BY <1>8, <2>2, <2>3 DEF UpsertChunks, TypeOK
<1>9. ASSUME UpsertAcknowledged(r) PROVE TypeOK'
  <2>1. [req[r] EXCEPT !.pc = "commit", !.status = "processed"] \in Request
    BY <1>0 DEF Request, Steps
  <2>2. req' \in [Requests -> Request]
    BY <1>9, <2>1, BecomeSlot DEF UpsertAcknowledged
  <2> QED BY <1>9, <2>2 DEF UpsertAcknowledged, TypeOK
<1>10. ASSUME Commit(r) \/ CommitLost(r) PROVE TypeOK'
  <2>1. req[r].owner \in Owners /\ req[r].document \in DocumentIds
    BY <1>10 DEF Commit, CommitLost, At, Attributed, Uncommitted
  <2>2. documents' \subseteq Document /\ chunks' \subseteq Chunk
    BY <1>10, <2>1, PublishType DEF Commit, CommitLost
  <2>3. req' \in [Requests -> Request]
    BY <1>10, GotoType, DropType DEF Commit, CommitLost, Steps
  <2> QED BY <1>10, <2>2, <2>3 DEF Commit, CommitLost, TypeOK
<1>11. ASSUME Refresh(r) PROVE TypeOK'
  <2>1. req' \in [Requests -> Request]
    BY <1>11, ReplyType DEF Refresh, Responses
  <2> QED BY <1>11, <2>1 DEF Refresh, TypeOK
<1> QED
  BY <1>1, <1>2, <1>3, <1>4, <1>5, <1>6, <1>7, <1>8, <1>9, <1>10, <1>11
     DEF UploadStep
\* A request that starts in an idle slot, or reads, changes no row.
LEMMA StartType ==
    ASSUME TypeOK, NEW r \in Requests, NEW x \in Request, Become(r, x),
           UNCHANGED <<rows, store, sequences, inflight>>
    PROVE  TypeOK'
BY BecomeSlot DEF TypeOK, rows, store, sequences

LEMMA DeleteType ==
    ASSUME TypeOK, NEW r \in Requests, DeleteStep(r)
    PROVE  TypeOK'
<1>1. ASSUME NEW o \in Owners, NEW d \in DocumentIds, DeleteDocument(r, o, d)
      PROVE  TypeOK'
  <2>1. [Idle EXCEPT !.pc = "delete", !.owner = o, !.document = d] \in Request
    BY IdleType DEF Request, Steps
  <2> QED BY <1>1, <2>1, StartType DEF DeleteDocument
<1>2. ASSUME DeleteCommit(r) \/ DeleteLost(r) PROVE TypeOK'
  <2>1. req' \in [Requests -> Request]
    BY <1>2, ReplyType, DropType DEF DeleteCommit, DeleteLost, Responses
  <2> QED BY <1>2, <2>1
          DEF DeleteCommit, DeleteLost, Remove, TypeOK, store, sequences
<1> QED BY <1>1, <1>2 DEF DeleteStep

LEMMA SearchType ==
    ASSUME TypeOK, NEW r \in Requests, SearchStep(r)
    PROVE  TypeOK'
<1>0. req[r] \in Request
  BY DEF TypeOK
<1>1. ASSUME NEW o \in Owners, NEW l \in 1..MaxLimit, SearchDocuments(r, o, l)
      PROVE  TypeOK'
  <2>1. l \in 0..MaxLimit
    BY ConstantsAssumption
  <2>2. [Idle EXCEPT !.pc = "query", !.owner = o, !.limit = l] \in Request
    BY <2>1, IdleType DEF Request, Steps
  <2> QED BY <1>1, <2>2, StartType DEF SearchDocuments
<1>2. ASSUME NEW o \in Owners, NEW d \in DocumentIds, NEW l \in 1..MaxLimit,
             SearchDocument(r, o, d, l)
      PROVE  TypeOK'
  <2>1. l \in 0..MaxLimit
    BY ConstantsAssumption
  <2>2. [Idle EXCEPT !.pc = "query", !.owner = o, !.document = d, !.limit = l]
          \in Request
    BY <2>1, IdleType DEF Request, Steps
  <2> QED BY <1>2, <2>2, StartType DEF SearchDocument
<1>3. ASSUME EmbedQuery(r) PROVE TypeOK'
  <2>1. req' \in [Requests -> Request]
    BY <1>3, GotoType DEF EmbedQuery, Steps
  <2> QED BY <1>3, <2>1 DEF EmbedQuery, TypeOK, rows, store, sequences
<1>4. ASSUME QueryPoints(r) PROVE TypeOK'
  <2>1. PICK found \in SUBSET Matching(r) :
          Become(r, [req[r] EXCEPT !.pc = "load", !.hits = found])
    BY <1>4 DEF QueryPoints
  <2>2. found \subseteq Point
    BY DEF Matching, TypeOK
  <2>3. [req[r] EXCEPT !.pc = "load", !.hits = found] \in Request
    BY <1>0, <2>2 DEF Request, Steps
  <2> QED BY <1>4, <2>1, <2>3, StartType DEF QueryPoints
<1>5. ASSUME LoadChunks(r) PROVE TypeOK'
  <2> DEFINE found == {c \in chunks : \E p \in req[r].hits : p.id = c.id}
  <2>1. found \subseteq Chunk
    BY DEF TypeOK
  <2> HIDE DEF found
  <2>2. [req[r] EXCEPT !.pc = "reply", !.response = "chunks", !.result = found]
          \in Request
    BY <1>0, <2>1 DEF Request, Steps, Responses
  <2>3. Become(r, [req[r] EXCEPT !.pc = "reply", !.response = "chunks",
                                 !.result = found])
    BY <1>5 DEF LoadChunks, found
  <2> QED BY <1>5, <2>2, <2>3, StartType DEF LoadChunks
<1> QED BY <1>1, <1>2, <1>3, <1>4, <1>5 DEF SearchStep

LEMMA NextType ==
    ASSUME TypeOK, Attributed, [Next]_vars
    PROVE  TypeOK'
<1> USE DEF rows, store, sequences
<1>1. ASSUME NEW r \in Requests, RequestStep(r) PROVE TypeOK'
  <2>1. ASSUME NEW o \in Owners, NEW d \in DocumentIds, NotFound(r, o, d)
        PROVE  TypeOK'
    <3>1. [Idle EXCEPT !.pc = "reply", !.owner = o, !.response = "not_found"]
            \in Request
      BY IdleType DEF Request, Steps, Responses
    <3> QED BY <2>1, <3>1, StartType DEF NotFound
  <2>2. ASSUME Return(r) \/ Abort(r) PROVE TypeOK'
    BY <2>2, DropType DEF Return, Abort, TypeOK
  <2> QED BY <1>1, <2>1, <2>2, UploadType, DeleteType, SearchType DEF RequestStep
<1>2. ASSUME QdrantApply PROVE TypeOK'
  BY <1>2 DEF QdrantApply, Upsert, TypeOK
<1>3. ASSUME BatchLost PROVE TypeOK'
  BY <1>3 DEF BatchLost, TypeOK
<1>4. ASSUME Crash PROVE TypeOK'
  BY <1>4, IdleType DEF Crash, TypeOK
<1>5. ASSUME UNCHANGED vars PROVE TypeOK'
  BY <1>5 DEF vars, TypeOK
<1> QED BY <1>1, <1>2, <1>3, <1>4, <1>5 DEF Next
-----------------------------------------------------------------------------
(* Claims.  Only CreateDocument and CreateChunks bring something new into  *)
(* the system; every other step passes on what was already claimed.        *)

ClaimsKept == \A x \in Point : Claimed(x)' => Claimed(x)
DeedsKept == \A d \in DocumentIds, o \in Owners : Deed(d, o)' => Deed(d, o)

\* a request goes on with what it has, or its slot becomes idle
Kept(q) ==
    \/ req'[q] = Idle
    \/ /\ req'[q].owner = req[q].owner
       /\ req'[q].document = req[q].document
       /\ req'[q].chunk_ids = req[q].chunk_ids
       /\ req'[q].hits = req[q].hits
       /\ req'[q].result = req[q].result
       /\ req[q].pc = "idle" => req'[q].pc = "idle"
       /\ Uncommitted(q)' => Uncommitted(q)
       /\ At(q, "extract")' => At(q, "extract")
       /\ At(q, "reply") => At(q, "reply")'

Calm == \A q \in Requests : Kept(q)

\* Moving the program counter forward is calm, and so is ending the request.
LEMMA GotoCalm ==
    ASSUME TypeOK, NEW r \in Requests, NEW x, Become(r, x),
           \/ x = Idle
           \/ /\ x.owner = req[r].owner /\ x.document = req[r].document
              /\ x.chunk_ids = req[r].chunk_ids
              /\ x.hits = req[r].hits /\ x.result = req[r].result
              /\ req[r].pc \notin {"idle", "reply"} /\ x.pc # "extract"
              /\ Uncommitted(r) \/ x.pc \in {"refresh", "search", "reply"}
    PROVE  Calm
<1>1. ASSUME NEW q \in Requests, q # r PROVE Kept(q)
  BY <1>1, BecomeSlot DEF Kept, Uncommitted, At
<1>2. Kept(r)
  BY BecomeSlot DEF Kept, Uncommitted, At
<1> QED BY <1>1, <1>2 DEF Calm

\* A calm request claims no point and no document it did not claim before.
LEMMA CalmRequest ==
    ASSUME TypeOK, Calm, NEW q \in Requests
    PROVE  /\ Batch(q)' \subseteq Batch(q)
           /\ req'[q].hits \subseteq req[q].hits
           /\ req'[q].result \subseteq req[q].result
           /\ \/ req'[q].document = NoDocument
              \/ /\ req'[q].document = req[q].document
                 /\ req'[q].owner = req[q].owner
           /\ Uncommitted(q)' => Uncommitted(q)
           /\ At(q, "extract")' => At(q, "extract")
BY DEF Calm, Kept, Batch, Idle, Uncommitted, At

LEMMA CalmClaims ==
    ASSUME TypeOK, Calm,
           \A x \in points' : Claimed(x),
           \A batch \in inflight' : \A x \in batch : Claimed(x),
           \A row \in documents', c \in chunks' :
             c.document_id = row.id => Claimed(PointOf(row, c))
    PROVE  ClaimsKept
<1> SUFFICES ASSUME NEW x \in Point, Claimed(x)' PROVE Claimed(x)
  BY DEF ClaimsKept
<1>1. CASE x \in points'
  BY <1>1
<1>2. CASE \E batch \in inflight' : x \in batch
  BY <1>2
<1>3. CASE \E q \in Requests : x \in Batch(q)'
  BY <1>3, CalmRequest DEF Claimed
<1>4. CASE \E q \in Requests : x \in req'[q].hits
  BY <1>4, CalmRequest DEF Claimed
<1>5. CASE \E row \in documents', c \in chunks' :
             c.document_id = row.id /\ x = PointOf(row, c)
  BY <1>5
<1> QED BY <1>1, <1>2, <1>3, <1>4, <1>5 DEF Claimed, PointOf

LEMMA CalmDeeds ==
    ASSUME TypeOK, Calm, ClaimsKept,
           \A row \in documents' : Deed(row.id, row.owner_id)
    PROVE  DeedsKept
<1> SUFFICES ASSUME NEW d \in DocumentIds, NEW o \in Owners, Deed(d, o)'
             PROVE  Deed(d, o)
  BY DEF DeedsKept
<1>1. CASE \E row \in documents' : row.id = d /\ row.owner_id = o
  BY <1>1
<1>2. CASE \E q \in Requests : req'[q].document = d /\ req'[q].owner = o
  <2>1. d # NoDocument
    BY DEF DocumentIds, NoDocument
  <2> QED BY <1>2, <2>1, CalmRequest DEF Deed
<1>3. CASE \E x \in Point : Claimed(x)' /\ x.document_id = d /\ x.owner_id = o
  BY <1>3 DEF ClaimsKept, Deed
<1> QED BY <1>1, <1>2, <1>3 DEF Deed

LEMMA ClaimsStayApart ==
    ASSUME ClaimsApart, ClaimsKept, nextChunk' = nextChunk
    PROVE  ClaimsApart'
BY DEF ClaimsApart, ClaimsKept

LEMMA DeedsStayApart ==
    ASSUME DeedsApart, DeedsKept, nextDocument' = nextDocument
    PROVE  DeedsApart'
BY DEF DeedsApart, DeedsKept
LEMMA CalmAttributed ==
    ASSUME Attributed, Calm
    PROVE  Attributed'
<1> SUFFICES ASSUME NEW q \in Requests
             PROVE  /\ req'[q].pc # "idle" => req'[q].owner \in Owners
                    /\ req'[q].document # NoDocument => req'[q].owner \in Owners
                    /\ Uncommitted(q)' => req'[q].document \in DocumentIds
  BY DEF Attributed
<1>1. CASE req'[q] = Idle
  BY <1>1 DEF Idle, Uncommitted
<1>2. CASE req'[q] # Idle
  BY <1>2 DEF Calm, Kept, Attributed
<1> QED BY <1>1, <1>2

LEMMA CalmHits ==
    ASSUME HitsMatch, Calm
    PROVE  HitsMatch'
<1> SUFFICES ASSUME NEW q \in Requests
             PROVE  /\ \A p \in req'[q].hits :
                         /\ p.owner_id = req'[q].owner
                         /\ req'[q].document \in {NoDocument, p.document_id}
                    /\ \A c \in req'[q].result :
                         [id |-> c.id, owner_id |-> req'[q].owner,
                          document_id |-> c.document_id] \in req'[q].hits
                    /\ ~At(q, "reply")' => req'[q].result = {}
  BY DEF HitsMatch
<1>1. CASE req'[q] = Idle
  BY <1>1 DEF Idle
<1>2. CASE req'[q] # Idle
  BY <1>2 DEF Calm, Kept, HitsMatch
<1> QED BY <1>1, <1>2

\* What is left to show of a calm step that changes no row.
LEMMA CalmStep ==
    ASSUME IInv, TypeOK', Calm, UNCHANGED <<rows, sequences>>,
           points \subseteq points',
           \A x \in points' : Claimed(x),
           \A batch \in inflight' : \A x \in batch : Claimed(x),
           IndexedFirst'
    PROVE  IInv'
<1> USE DEF rows, sequences
<1>1. Attributed' /\ HitsMatch'
  BY CalmAttributed, CalmHits DEF IInv
<1>2. ClaimsKept
  <2>1. \A row \in documents', c \in chunks' :
          c.document_id = row.id => Claimed(PointOf(row, c))
    BY DEF Claimed
  <2> QED BY <2>1, CalmClaims DEF IInv
<1>3. ClaimsApart'
  BY <1>2, ClaimsStayApart DEF IInv
<1>4. DeedsApart'
  <2>1. \A row \in documents' : Deed(row.id, row.owner_id)
    BY DEF Deed
  <2> QED BY <1>2, <2>1, CalmDeeds, DeedsStayApart DEF IInv
<1>5. UncommittedApart'
  <2>1. \A q \in Requests : Uncommitted(q)' =>
          Uncommitted(q) /\ req'[q].document = req[q].document
    BY DEF Calm, Kept, Uncommitted, Idle
  <2> QED BY <2>1 DEF IInv, UncommittedApart
<1>6. NoOrphanRows' /\ PublishedIsIndexed'
  BY DEF IInv, NoOrphanRows, PublishedIsIndexed, Rows
<1> QED BY <1>1, <1>3, <1>4, <1>5, <1>6 DEF IInv

\* A step that moves one request on, or ends it, and writes nowhere.
LEMMA QuietStep ==
    ASSUME IInv, TypeOK', Calm, UNCHANGED <<rows, sequences, points, inflight>>,
           \A q \in Requests :
             \/ req'[q] = Idle
             \/ /\ At(q, "indexing")' => At(q, "indexing")
                /\ At(q, "commit")' => At(q, "commit") \/ Batch(q) \subseteq points
    PROVE  IInv'
<1>1. \A x \in points' : Claimed(x)
  BY DEF Claimed
<1>2. \A batch \in inflight' : \A x \in batch : Claimed(x)
  BY DEF Claimed
<1>3. IndexedFirst'
  <2> SUFFICES ASSUME NEW q \in Requests
               PROVE  /\ At(q, "extract")' => req'[q].chunk_ids = {}
                      /\ At(q, "indexing")' =>
                           Batch(q)' \in inflight \/ Batch(q)' \subseteq points
                      /\ At(q, "commit")' => Batch(q)' \subseteq points
    BY DEF IndexedFirst
  <2>1. CASE req'[q] = Idle
    BY <2>1 DEF At, Idle
  <2>2. CASE req'[q] # Idle
    <3>1. /\ Batch(q)' = Batch(q) /\ req'[q].chunk_ids = req[q].chunk_ids
          /\ At(q, "extract")' => At(q, "extract")
      BY <2>2 DEF Calm, Kept, Batch
    <3> QED BY <2>2, <3>1 DEF IInv, IndexedFirst
  <2> QED BY <2>1, <2>2
<1> QED BY <1>1, <1>2, <1>3, CalmStep
\* The same, for one slot.
LEMMA QuietMove ==
    ASSUME IInv, TypeOK', NEW r \in Requests, NEW x, Become(r, x),
           UNCHANGED <<rows, sequences, points, inflight>>,
           \/ x = Idle
           \/ /\ x.owner = req[r].owner /\ x.document = req[r].document
              /\ x.chunk_ids = req[r].chunk_ids
              /\ x.hits = req[r].hits /\ x.result = req[r].result
              /\ req[r].pc \notin {"idle", "reply"}
              /\ x.pc \notin {"extract", "indexing"}
              /\ Uncommitted(r) \/ x.pc \in {"refresh", "search", "reply"}
              /\ x.pc = "commit" => Batch(r) \subseteq points
    PROVE  IInv'
<1>1. Calm
  BY GotoCalm DEF IInv
<1>2. \A q \in Requests :
        \/ req'[q] = Idle
        \/ /\ At(q, "indexing")' => At(q, "indexing")
           /\ At(q, "commit")' => At(q, "commit") \/ Batch(q) \subseteq points
  <2>1. req'[r] = x /\ \A q \in Requests : q # r => req'[q] = req[q]
    BY BecomeSlot DEF IInv
  <2> QED BY <2>1 DEF At
<1> QED BY <1>1, <1>2, QuietStep

LEMMA DropQuiet ==
    ASSUME IInv, TypeOK', NEW r \in Requests, Drop(r),
           UNCHANGED <<rows, sequences, points, inflight>>
    PROVE  IInv'
BY QuietMove DEF Drop

LEMMA UploadQuiet ==
    ASSUME IInv, TypeOK', NEW r \in Requests,
           \/ ExtractFailed(r) \/ EmbedTexts(r) \/ EnsureCollection(r)
           \/ CreateCollection(r) \/ CreateCollectionLost(r)
           \/ UpsertAcknowledged(r) \/ Refresh(r)
    PROVE  IInv'
<1> USE DEF rows, store, sequences, At
<1>0. req[r] \in Request
  BY DEF IInv, TypeOK
<1>1. CASE ExtractFailed(r)
  <2> DEFINE x == [req[r] EXCEPT !.pc = "commit", !.status = "failed"]
  <2>1. /\ x.owner = req[r].owner /\ x.document = req[r].document
        /\ x.chunk_ids = req[r].chunk_ids /\ x.hits = req[r].hits
        /\ x.result = req[r].result /\ x.pc = "commit"
    BY <1>0 DEF Request
  <2>2. Become(r, x) /\ req[r].pc = "extract"
    BY <1>1 DEF ExtractFailed
  <2> HIDE DEF x
  <2>3. Batch(r) = {}
    BY <2>2 DEF IInv, IndexedFirst, Batch
  <2> QED BY <1>1, <2>1, <2>2, <2>3, QuietMove DEF ExtractFailed, Uncommitted
<1>2. CASE EmbedTexts(r) \/ EnsureCollection(r) \/ CreateCollection(r)
  <2>1. PICK s \in {"collection", "create", "upsert"} : Goto(r, s)
    BY <1>2 DEF EmbedTexts, EnsureCollection, CreateCollection
  <2> DEFINE x == [req[r] EXCEPT !.pc = s]
  <2>2. /\ x.owner = req[r].owner /\ x.document = req[r].document
        /\ x.chunk_ids = req[r].chunk_ids /\ x.hits = req[r].hits
        /\ x.result = req[r].result /\ x.pc = s
    BY <1>0 DEF Request
  <2>3. Become(r, x) /\ Uncommitted(r)
    BY <1>2, <2>1
       DEF Goto, EmbedTexts, EnsureCollection, CreateCollection, Uncommitted
  <2> HIDE DEF x
  <2> QED BY <1>2, <2>2, <2>3, QuietMove
          DEF EmbedTexts, EnsureCollection, CreateCollection, Uncommitted
<1>3. CASE CreateCollectionLost(r)
  BY <1>3, DropQuiet DEF CreateCollectionLost
<1>4. CASE UpsertAcknowledged(r)
  <2> DEFINE x == [req[r] EXCEPT !.pc = "commit", !.status = "processed"]
  <2>1. /\ x.owner = req[r].owner /\ x.document = req[r].document
        /\ x.chunk_ids = req[r].chunk_ids /\ x.hits = req[r].hits
        /\ x.result = req[r].result /\ x.pc = "commit"
    BY <1>0 DEF Request
  <2>2. Become(r, x) /\ req[r].pc = "indexing"
    BY <1>4 DEF UpsertAcknowledged
  <2> HIDE DEF x
  <2>3. Batch(r) \subseteq points
    BY <1>4 DEF UpsertAcknowledged, IInv, IndexedFirst
  <2> QED BY <1>4, <2>1, <2>2, <2>3, QuietMove DEF UpsertAcknowledged, Uncommitted
<1>5. CASE Refresh(r)
  <2>1. PICK a \in Responses : Reply(r, a)
    BY <1>5 DEF Refresh, Responses
  <2> DEFINE x == [req[r] EXCEPT !.pc = "reply", !.response = a]
  <2>2. /\ x.owner = req[r].owner /\ x.document = req[r].document
        /\ x.chunk_ids = req[r].chunk_ids /\ x.hits = req[r].hits
        /\ x.result = req[r].result /\ x.pc = "reply"
    BY <1>0 DEF Request
  <2>3. Become(r, x) /\ req[r].pc = "refresh"
    BY <1>5, <2>1 DEF Refresh, Reply
  <2> HIDE DEF x
  <2> QED BY <1>5, <2>2, <2>3, QuietMove DEF Refresh
<1> QED BY <1>1, <1>2, <1>3, <1>4, <1>5
-----------------------------------------------------------------------------
(* Qdrant                                                                  *)

LEMMA UpsertStep ==
    ASSUME IInv, TypeOK', NEW r \in Requests, UpsertChunks(r)
    PROVE  IInv'
<1> DEFINE x == [req[r] EXCEPT !.pc = "indexing"]
<1>1. /\ x.owner = req[r].owner /\ x.document = req[r].document
      /\ x.chunk_ids = req[r].chunk_ids /\ x.hits = req[r].hits
      /\ x.result = req[r].result /\ x.pc = "indexing"
  <2>1. req[r] \in Request
    BY DEF IInv, TypeOK
  <2> QED BY <2>1 DEF Request
<1>2. Become(r, x) /\ req[r].pc = "upsert"
  BY DEF UpsertChunks, Goto, At
<1> HIDE DEF x
<1>3. req'[r] = x /\ \A q \in Requests : q # r => req'[q] = req[q]
  BY <1>2, BecomeSlot DEF IInv
<1>4. Calm
  BY <1>1, <1>2, GotoCalm DEF IInv, Uncommitted
<1>5. /\ \A y \in points' : Claimed(y)
      /\ \A batch \in inflight' : \A y \in batch : Claimed(y)
  BY DEF UpsertChunks, store, Claimed
<1>6. IndexedFirst'
  <2>1. Batch(r)' = Batch(r)
    BY <1>1, <1>3 DEF Batch
  <2>2. ASSUME NEW q \in Requests, q # r PROVE Batch(q)' = Batch(q)
    BY <2>2, <1>3 DEF Batch
  <2> QED BY <1>1, <1>3, <2>1, <2>2
          DEF IInv, IndexedFirst, UpsertChunks, At, store
<1> QED BY <1>4, <1>5, <1>6, CalmStep DEF UpsertChunks, rows, sequences, store

\* A late batch overwrites nothing: the points it replaces are its own.
LEMMA UpsertKeepsPoints ==
    ASSUME IInv, NEW batch \in inflight
    PROVE  points \subseteq Upsert(points, batch)
<1> SUFFICES ASSUME NEW p \in points, NEW q \in batch, p.id = q.id
             PROVE  p = q
  BY DEF Upsert
<1>1. p \in Point /\ q \in Point
  BY DEF IInv, TypeOK
<1>2. Claimed(p) /\ Claimed(q)
  BY DEF Claimed
<1> QED BY <1>1, <1>2 DEF IInv, ClaimsApart

LEMMA StillCalm ==
    ASSUME req' = req
    PROVE  Calm
BY DEF Calm, Kept, Uncommitted, At

LEMMA QdrantStep ==
    ASSUME IInv, TypeOK', QdrantApply \/ BatchLost
    PROVE  IInv'
<1> USE DEF rows, store, sequences
<1>1. CASE QdrantApply
  <2>1. PICK batch \in inflight :
          /\ points' = Upsert(points, batch)
          /\ inflight' = inflight \ {batch}
          /\ UNCHANGED <<rows, sequences, req>>
    BY <1>1 DEF QdrantApply
  <2>2. points \subseteq points'
    BY <2>1, UpsertKeepsPoints
  <2>3. batch \subseteq points'
    BY <2>1 DEF Upsert
  <2>4. /\ \A y \in points' : Claimed(y)
        /\ \A b \in inflight' : \A y \in b : Claimed(y)
    BY <2>1 DEF Upsert, Claimed
  <2>5. IndexedFirst'
    <3>1. \A q \in Requests : Batch(q)' = Batch(q)
      BY <2>1 DEF Batch
    <3> QED BY <2>1, <2>2, <2>3, <3>1 DEF IInv, IndexedFirst, At
  <2> QED BY <2>1, <2>2, <2>4, <2>5, StillCalm, CalmStep
<1>2. CASE BatchLost
  <2>1. PICK batch \in inflight :
          /\ \A r \in Requests : ~(At(r, "indexing") /\ Batch(r) = batch)
          /\ inflight' = inflight \ {batch}
          /\ UNCHANGED <<rows, store, sequences, req>>
    BY <1>2 DEF BatchLost
  <2>2. /\ \A y \in points' : Claimed(y)
        /\ \A b \in inflight' : \A y \in b : Claimed(y)
    BY <2>1 DEF Claimed
  <2>3. IndexedFirst'
    <3>1. \A q \in Requests : Batch(q)' = Batch(q)
      BY <2>1 DEF Batch
    <3> QED BY <2>1, <3>1 DEF IInv, IndexedFirst, At
  <2> QED BY <2>1, <2>2, <2>3, StillCalm, CalmStep
<1> QED BY <1>1, <1>2

LEMMA CrashStep ==
    ASSUME IInv, TypeOK', Crash
    PROVE  IInv'
<1>1. \A q \in Requests : req'[q] = Idle
  BY DEF Crash
<1>2. Calm
  BY <1>1 DEF Calm, Kept
<1> QED BY <1>1, <1>2, QuietStep DEF Crash, rows, store, sequences

-----------------------------------------------------------------------------
(* Commits                                                                 *)

\* The rows an upload commits claim the points it has already sent.
LEMMA PublishClaims ==
    ASSUME IInv, NEW r \in Requests, Publish(r), Uncommitted(r),
           NEW row \in documents', NEW c \in chunks', c.document_id = row.id
    PROVE  \/ row \in documents /\ c \in chunks
           \/ PointOf(row, c) \in Batch(r)
<1> DEFINE new == [id |-> req[r].document, owner_id |-> req[r].owner,
                   status |-> req[r].status,
                   chunk_count |-> Cardinality(req[r].chunk_ids)]
<1>1. documents' = documents \cup {new} /\ new.id = req[r].document
      /\ new.owner_id = req[r].owner
  BY DEF Publish
<1> HIDE DEF new
<1>2. CASE row \in documents
  <2>1. row.id # req[r].document
    BY <1>2 DEF IInv, UncommittedApart
  <2> QED BY <1>2, <2>1 DEF Publish
<1>3. CASE row = new
  <2>1. c \notin chunks
    BY <1>1, <1>3 DEF IInv, NoOrphanRows, UncommittedApart
  <2>2. PICK i \in req[r].chunk_ids : c = [id |-> i, document_id |-> req[r].document]
    BY <2>1 DEF Publish
  <2> QED BY <1>1, <1>3, <2>2 DEF PointOf, Batch
<1> QED BY <1>1, <1>2, <1>3
LEMMA CommitStep ==
    ASSUME IInv, TypeOK', NEW r \in Requests, Commit(r) \/ CommitLost(r)
    PROVE  IInv'
<1> USE DEF store, sequences
<1>0. PICK x : Become(r, x) /\ (x = Idle \/ x = [req[r] EXCEPT !.pc = "refresh"])
  BY DEF Commit, CommitLost, Goto, Drop
<1>1. \/ x = Idle
      \/ /\ x.owner = req[r].owner /\ x.document = req[r].document
         /\ x.chunk_ids = req[r].chunk_ids /\ x.hits = req[r].hits
         /\ x.result = req[r].result /\ x.pc = "refresh"
  <2>1. req[r] \in Request
    BY DEF IInv, TypeOK
  <2> QED BY <1>0, <2>1 DEF Request
<1>2. /\ req[r].pc = "commit" /\ Publish(r)
      /\ UNCHANGED <<store, sequences, inflight>>
  BY DEF Commit, CommitLost, At
<1>3. Uncommitted(r)
  BY <1>2 DEF Uncommitted
<1>4. req'[r] = x /\ \A q \in Requests : q # r => req'[q] = req[q]
  BY <1>0, BecomeSlot DEF IInv
<1>5. Calm
  BY <1>0, <1>1, <1>2, <1>3, GotoCalm DEF IInv
<1>6. PICK new : /\ documents' = documents \cup {new}
                 /\ new.id = req[r].document /\ new.owner_id = req[r].owner
  <2> DEFINE new == [id |-> req[r].document, owner_id |-> req[r].owner,
                     status |-> req[r].status,
                     chunk_count |-> Cardinality(req[r].chunk_ids)]
  <2>1. documents' = documents \cup {new}
    BY <1>2 DEF Publish
  <2>2. new.id = req[r].document /\ new.owner_id = req[r].owner
    OBVIOUS
  <2> HIDE DEF new
  <2> QED BY <2>1, <2>2
<1>7. Attributed' /\ HitsMatch'
  BY <1>5, CalmAttributed, CalmHits DEF IInv
<1>8. ClaimsKept
  <2>1. \A y \in points' : Claimed(y)
    BY <1>2 DEF Claimed
  <2>2. \A batch \in inflight' : \A y \in batch : Claimed(y)
    BY <1>2 DEF Claimed
  <2>3. \A row \in documents', c \in chunks' :
          c.document_id = row.id => Claimed(PointOf(row, c))
    BY <1>2, <1>3, PublishClaims DEF Claimed
  <2> QED BY <1>5, <2>1, <2>2, <2>3, CalmClaims DEF IInv
<1>9. ClaimsApart'
  BY <1>2, <1>8, ClaimsStayApart DEF IInv
<1>10. DeedsApart'
  <2>1. \A row \in documents' : Deed(row.id, row.owner_id)
    BY <1>6 DEF Deed
  <2> QED BY <1>2, <1>5, <1>8, <2>1, CalmDeeds, DeedsStayApart DEF IInv
<1>11. UncommittedApart'
  <2>1. ASSUME NEW q \in Requests, Uncommitted(q)'
        PROVE  q # r /\ req'[q] = req[q] /\ Uncommitted(q)
    BY <1>1, <1>4, <2>1 DEF Uncommitted, Idle
  <2>2. \A row \in documents : row.id # new.id
    BY <1>3, <1>6 DEF IInv, UncommittedApart
  <2>3. \A q \in Requests : Uncommitted(q)' => req'[q].document # new.id
    BY <1>3, <1>6, <2>1 DEF IInv, UncommittedApart
  <2>4. /\ \A q \in Requests : Uncommitted(q)' =>
             \A row \in documents' : row.id # req'[q].document
        /\ \A row1, row2 \in documents' : row1.id = row2.id => row1 = row2
    BY <1>6, <2>1, <2>2, <2>3 DEF IInv, UncommittedApart
  <2>5. \A p, q \in Requests :
          Uncommitted(p)' /\ Uncommitted(q)' /\ p # q
            => req'[p].document # req'[q].document
    BY <2>1 DEF IInv, UncommittedApart
  <2> QED BY <2>4, <2>5 DEF UncommittedApart
<1>12. NoOrphanRows'
  <2> SUFFICES ASSUME NEW c \in chunks'
               PROVE  \E row \in documents' : row.id = c.document_id
    BY DEF NoOrphanRows
  <2>1. CASE c \in chunks
    BY <1>6, <2>1 DEF IInv, NoOrphanRows
  <2>2. CASE c \notin chunks
    BY <1>2, <1>6, <2>2 DEF Publish
  <2> QED BY <2>1, <2>2
<1>13. IndexedFirst'
  <2> SUFFICES ASSUME NEW q \in Requests
               PROVE  /\ At(q, "extract")' => req'[q].chunk_ids = {}
                      /\ At(q, "indexing")' =>
                           Batch(q)' \in inflight' \/ Batch(q)' \subseteq points'
                      /\ At(q, "commit")' => Batch(q)' \subseteq points'
    BY DEF IndexedFirst
  <2>1. CASE q = r
    BY <1>1, <1>4, <2>1 DEF At, Idle
  <2>2. CASE q # r
    BY <1>2, <1>4, <2>2 DEF At, Batch, IInv, IndexedFirst
  <2> QED BY <2>1, <2>2
<1>14. PublishedIsIndexed'
  <2> SUFFICES ASSUME NEW row \in documents', NEW c \in chunks',
                      c.document_id = row.id
               PROVE  PointOf(row, c) \in points'
    BY DEF PublishedIsIndexed, Rows, PointOf
  <2>1. Batch(r) \subseteq points
    BY <1>2 DEF IInv, IndexedFirst, At
  <2>2. CASE row \in documents /\ c \in chunks
    BY <1>2, <2>2 DEF IInv, PublishedIsIndexed, Rows, PointOf
  <2> QED BY <1>2, <1>3, <2>1, <2>2, PublishClaims
<1> QED BY <1>7, <1>9, <1>10, <1>11, <1>12, <1>13, <1>14 DEF IInv
LEMMA RemoveStep ==
    ASSUME IInv, TypeOK', NEW r \in Requests, DeleteCommit(r) \/ DeleteLost(r)
    PROVE  IInv'
<1> USE DEF store, sequences
<1> DEFINE y == [req[r] EXCEPT !.pc = "reply", !.response = "deleted"]
<1>0. PICK x : Become(r, x) /\ (x = Idle \/ x = y)
  BY DEF DeleteCommit, DeleteLost, Reply, Drop
<1>1. \/ x = Idle
      \/ /\ x.owner = req[r].owner /\ x.document = req[r].document
         /\ x.chunk_ids = req[r].chunk_ids /\ x.hits = req[r].hits
         /\ x.result = req[r].result /\ x.pc = "reply"
  <2>1. req[r] \in Request
    BY DEF IInv, TypeOK
  <2> QED BY <1>0, <2>1 DEF Request
<1> HIDE DEF y
<1>2. /\ req[r].pc = "delete" /\ Remove(req[r].document)
      /\ UNCHANGED <<store, sequences, inflight>>
  BY DEF DeleteCommit, DeleteLost, At
<1>3. documents' \subseteq documents /\ chunks' \subseteq chunks
  BY <1>2 DEF Remove
<1>4. req'[r] = x /\ \A q \in Requests : q # r => req'[q] = req[q]
  BY <1>0, BecomeSlot DEF IInv
<1>5. Calm
  BY <1>0, <1>1, <1>2, GotoCalm DEF IInv
<1>6. Attributed' /\ HitsMatch'
  BY <1>5, CalmAttributed, CalmHits DEF IInv
<1>7. ClaimsKept
  <2>1. \A p \in points' : Claimed(p)
    BY <1>2 DEF Claimed
  <2>2. \A batch \in inflight' : \A p \in batch : Claimed(p)
    BY <1>2 DEF Claimed
  <2>3. \A row \in documents', c \in chunks' :
          c.document_id = row.id => Claimed(PointOf(row, c))
    BY <1>3 DEF Claimed
  <2> QED BY <1>5, <2>1, <2>2, <2>3, CalmClaims DEF IInv
<1>8. ClaimsApart'
  BY <1>2, <1>7, ClaimsStayApart DEF IInv
<1>9. DeedsApart'
  <2>1. \A row \in documents' : Deed(row.id, row.owner_id)
    BY <1>3 DEF Deed
  <2> QED BY <1>2, <1>5, <1>7, <2>1, CalmDeeds, DeedsStayApart DEF IInv
<1>10. UncommittedApart'
  <2>1. ASSUME NEW q \in Requests, Uncommitted(q)'
        PROVE  req'[q] = req[q] /\ Uncommitted(q)
    BY <1>1, <1>2, <1>4, <2>1 DEF Uncommitted, Idle
  <2> QED BY <1>3, <2>1 DEF IInv, UncommittedApart
<1>11. NoOrphanRows' /\ PublishedIsIndexed'
  BY <1>2, <1>3 DEF IInv, NoOrphanRows, PublishedIsIndexed, Rows, Remove
<1>12. IndexedFirst'
  <2> SUFFICES ASSUME NEW q \in Requests
               PROVE  /\ At(q, "extract")' => req'[q].chunk_ids = {}
                      /\ At(q, "indexing")' =>
                           Batch(q)' \in inflight' \/ Batch(q)' \subseteq points'
                      /\ At(q, "commit")' => Batch(q)' \subseteq points'
    BY DEF IndexedFirst
  <2>1. CASE q = r
    BY <1>1, <1>4, <2>1 DEF At, Idle
  <2>2. CASE q # r
    BY <1>2, <1>4, <2>2 DEF At, Batch, IInv, IndexedFirst
  <2> QED BY <2>1, <2>2
<1> QED BY <1>6, <1>8, <1>9, <1>10, <1>11, <1>12 DEF IInv
-----------------------------------------------------------------------------
(* Requests that start, and searches                                       *)

\* A step of one slot that writes nowhere and claims nothing new.
LEMMA ReadStep ==
    ASSUME IInv, TypeOK', NEW r \in Requests, NEW x, Become(r, x),
           UNCHANGED <<rows, store, sequences, inflight>>,
           x.pc \in {"delete", "query", "load", "reply"},
           x.owner \in Owners,
           x.document = NoDocument \/ Deed(x.document, x.owner),
           \/ x.chunk_ids = {}
           \/ /\ x.chunk_ids = req[r].chunk_ids
              /\ x.owner = req[r].owner /\ x.document = req[r].document,
           x.hits \subseteq points \cup req[r].hits,
           \A p \in x.hits : /\ p.owner_id = x.owner
                             /\ x.document \in {NoDocument, p.document_id},
           \A c \in x.result : [id |-> c.id, owner_id |-> x.owner,
                                document_id |-> c.document_id] \in x.hits,
           x.pc # "reply" => x.result = {}
    PROVE  IInv'
<1> USE DEF rows, store, sequences
<1>1. req'[r] = x /\ \A q \in Requests : q # r => req'[q] = req[q]
  BY BecomeSlot DEF IInv
<1>2. \A q \in Requests : Batch(q)' \subseteq Batch(q)
  BY <1>1 DEF Batch
<1>3. \A q \in Requests : q # r => Batch(q)' = Batch(q)
  BY <1>1 DEF Batch
<1>4. \A q \in Requests : Uncommitted(q)' => q # r /\ Uncommitted(q)
  BY <1>1 DEF Uncommitted
<1>5. ClaimsKept
  <2> SUFFICES ASSUME NEW y \in Point, Claimed(y)' PROVE Claimed(y)
    BY DEF ClaimsKept
  <2>1. CASE \E q \in Requests : y \in Batch(q)'
    BY <1>2, <2>1 DEF Claimed
  <2>2. CASE \E q \in Requests : y \in req'[q].hits
    BY <1>1, <2>2 DEF Claimed
  <2>3. CASE \/ y \in points
             \/ \E batch \in inflight : y \in batch
             \/ \E row \in documents, c \in chunks :
                  c.document_id = row.id /\ y = PointOf(row, c)
    BY <2>3 DEF Claimed
  <2> QED BY <2>1, <2>2, <2>3 DEF Claimed, PointOf
<1>6. DeedsKept
  <2> SUFFICES ASSUME NEW d \in DocumentIds, NEW o \in Owners, Deed(d, o)'
               PROVE  Deed(d, o)
    BY DEF DeedsKept
  <2>1. CASE \E row \in documents : row.id = d /\ row.owner_id = o
    BY <2>1 DEF Deed
  <2>2. CASE \E q \in Requests : req'[q].document = d /\ req'[q].owner = o
    <3>1. d # NoDocument
      BY DEF DocumentIds, NoDocument
    <3> QED BY <1>1, <2>2, <3>1 DEF Deed
  <2>3. CASE \E y \in Point : Claimed(y)' /\ y.document_id = d /\ y.owner_id = o
    BY <1>5, <2>3 DEF ClaimsKept, Deed
  <2> QED BY <2>1, <2>2, <2>3 DEF Deed
<1>7. ClaimsApart' /\ DeedsApart'
  BY <1>5, <1>6, ClaimsStayApart, DeedsStayApart DEF IInv
<1>8. Attributed'
  BY <1>1, <1>4 DEF IInv, Attributed
<1>9. UncommittedApart'
  BY <1>1, <1>4 DEF IInv, UncommittedApart
<1>10. NoOrphanRows' /\ PublishedIsIndexed'
  BY DEF IInv, NoOrphanRows, PublishedIsIndexed, Rows
<1>11. IndexedFirst'
  BY <1>1, <1>3 DEF IInv, IndexedFirst, At
<1>12. HitsMatch'
  BY <1>1 DEF IInv, HitsMatch, At
<1> QED BY <1>7, <1>8, <1>9, <1>10, <1>11, <1>12 DEF IInv

LEMMA OwnedIsDeed ==
    ASSUME NEW o, NEW d, Owned(o, d)
    PROVE  Deed(d, o)
BY DEF Owned, Deed

LEMMA SearchAllStep ==
    ASSUME IInv, TypeOK', NEW r \in Requests, NEW o \in Owners, NEW l,
           SearchDocuments(r, o, l)
    PROVE  IInv'
<1> DEFINE x == [Idle EXCEPT !.pc = "query", !.owner = o, !.limit = l]
<1>1. /\ x.pc = "query" /\ x.owner = o /\ x.document = NoDocument
      /\ x.chunk_ids = {} /\ x.hits = {} /\ x.result = {}
  BY DEF Idle
<1>2. Become(r, x)
  BY DEF SearchDocuments
<1> HIDE DEF x
<1> QED BY <1>1, <1>2, ReadStep DEF SearchDocuments

\* The requests about one document, and the answer "not found".
LEMMA StartStep ==
    ASSUME IInv, TypeOK', NEW r \in Requests, NEW o \in Owners,
           NEW d \in DocumentIds, NEW l,
           \/ DeleteDocument(r, o, d) \/ SearchDocument(r, o, d, l)
           \/ NotFound(r, o, d)
    PROVE  IInv'
<1>1. CASE DeleteDocument(r, o, d)
  <2> DEFINE x == [Idle EXCEPT !.pc = "delete", !.owner = o, !.document = d]
  <2>1. /\ x.pc = "delete" /\ x.owner = o /\ x.document = d
        /\ x.chunk_ids = {} /\ x.hits = {} /\ x.result = {}
    BY DEF Idle
  <2>2. Become(r, x)
    BY <1>1 DEF DeleteDocument
  <2> HIDE DEF x
  <2> QED BY <1>1, <2>1, <2>2, OwnedIsDeed, ReadStep DEF DeleteDocument
<1>2. CASE SearchDocument(r, o, d, l)
  <2> DEFINE x == [Idle EXCEPT !.pc = "query", !.owner = o, !.document = d,
                               !.limit = l]
  <2>1. /\ x.pc = "query" /\ x.owner = o /\ x.document = d
        /\ x.chunk_ids = {} /\ x.hits = {} /\ x.result = {}
    BY DEF Idle
  <2>2. Become(r, x)
    BY <1>2 DEF SearchDocument
  <2> HIDE DEF x
  <2> QED BY <1>2, <2>1, <2>2, OwnedIsDeed, ReadStep DEF SearchDocument
<1>3. CASE NotFound(r, o, d)
  <2> DEFINE x == [Idle EXCEPT !.pc = "reply", !.owner = o,
                               !.response = "not_found"]
  <2>1. /\ x.pc = "reply" /\ x.owner = o /\ x.document = NoDocument
        /\ x.chunk_ids = {} /\ x.hits = {} /\ x.result = {}
    BY DEF Idle
  <2>2. Become(r, x)
    BY <1>3 DEF NotFound
  <2> HIDE DEF x
  <2> QED BY <1>3, <2>1, <2>2, ReadStep DEF NotFound
<1> QED BY <1>1, <1>2, <1>3
LEMMA QueryStep ==
    ASSUME IInv, TypeOK', NEW r \in Requests, QueryPoints(r)
    PROVE  IInv'
<1>1. PICK found \in SUBSET Matching(r) :
        Become(r, [req[r] EXCEPT !.pc = "load", !.hits = found])
  BY DEF QueryPoints
<1> DEFINE x == [req[r] EXCEPT !.pc = "load", !.hits = found]
<1>2. /\ x.pc = "load" /\ x.owner = req[r].owner
      /\ x.document = req[r].document /\ x.chunk_ids = req[r].chunk_ids
      /\ x.hits = found /\ x.result = req[r].result
  <2>1. req[r] \in Request
    BY DEF IInv, TypeOK
  <2> QED BY <2>1 DEF Request
<1>3. Become(r, x)
  BY <1>1
<1> HIDE DEF x
<1>4. req[r].owner \in Owners
  BY DEF IInv, Attributed, QueryPoints, At
<1>5. req[r].document = NoDocument \/ Deed(req[r].document, req[r].owner)
  BY DEF Deed
<1>6. found \subseteq points /\ \A p \in found :
        p.owner_id = req[r].owner /\ req[r].document \in {NoDocument, p.document_id}
  BY DEF Matching
<1>7. req[r].result = {}
  BY DEF IInv, HitsMatch, QueryPoints, At
<1> QED BY <1>2, <1>3, <1>4, <1>5, <1>6, <1>7, ReadStep DEF QueryPoints

\* The row of a hit belongs to the document, and so to the owner, in its payload.
LEMMA LoadStep ==
    ASSUME IInv, TypeOK', NEW r \in Requests, LoadChunks(r)
    PROVE  IInv'
<1> DEFINE found == {c \in chunks : \E p \in req[r].hits : p.id = c.id}
<1> DEFINE x == [req[r] EXCEPT !.pc = "reply", !.response = "chunks",
                               !.result = found]
<1>1. Become(r, x)
  BY DEF LoadChunks
<1> HIDE DEF found
<1>2. /\ x.pc = "reply" /\ x.owner = req[r].owner
      /\ x.document = req[r].document /\ x.chunk_ids = req[r].chunk_ids
      /\ x.hits = req[r].hits /\ x.result = found
  <2>1. req[r] \in Request
    BY DEF IInv, TypeOK
  <2> QED BY <2>1 DEF Request
<1> HIDE DEF x
<1>3. req[r].owner \in Owners
  BY DEF IInv, Attributed, LoadChunks, At
<1>4. req[r].document = NoDocument \/ Deed(req[r].document, req[r].owner)
  BY DEF Deed
<1>5. ASSUME NEW c \in found
      PROVE  [id |-> c.id, owner_id |-> req[r].owner,
              document_id |-> c.document_id] \in req[r].hits
  <2>1. PICK p \in req[r].hits : p.id = c.id
    BY <1>5 DEF found
  <2>2. c \in chunks
    BY <1>5 DEF found
  <2>3. PICK row \in documents : row.id = c.document_id
    BY <2>2 DEF IInv, NoOrphanRows
  <2>4. PointOf(row, c) \in Point /\ p \in Point
    <3>1. row \in Document /\ c \in Chunk /\ req[r] \in Request
      BY <2>2 DEF IInv, TypeOK
    <3> QED BY <3>1 DEF PointOf, Document, Chunk, Point, Request
  <2>5. Claimed(PointOf(row, c)) /\ Claimed(p)
    BY <2>2, <2>3 DEF Claimed
  <2>6. PointOf(row, c) = p
    BY <2>1, <2>4, <2>5 DEF IInv, ClaimsApart, PointOf
  <2>7. p.owner_id = req[r].owner
    BY DEF IInv, HitsMatch
  <2> QED BY <2>3, <2>6, <2>7 DEF PointOf
<1>6. \A p \in req[r].hits :
        p.owner_id = req[r].owner /\ req[r].document \in {NoDocument, p.document_id}
  BY DEF IInv, HitsMatch
<1> QED BY <1>1, <1>2, <1>3, <1>4, <1>5, <1>6, ReadStep DEF LoadChunks
LEMMA EmbedQueryStep ==
    ASSUME IInv, TypeOK', NEW r \in Requests, EmbedQuery(r)
    PROVE  IInv'
<1> DEFINE x == [req[r] EXCEPT !.pc = "search"]
<1>1. /\ x.owner = req[r].owner /\ x.document = req[r].document
      /\ x.chunk_ids = req[r].chunk_ids /\ x.hits = req[r].hits
      /\ x.result = req[r].result /\ x.pc = "search"
  <2>1. req[r] \in Request
    BY DEF IInv, TypeOK
  <2> QED BY <2>1 DEF Request
<1>2. Become(r, x) /\ req[r].pc = "query"
  BY DEF EmbedQuery, Goto, At
<1> HIDE DEF x
<1> QED BY <1>1, <1>2, QuietMove DEF EmbedQuery, rows, store, sequences

-----------------------------------------------------------------------------
(* The two steps that take ids from a sequence                             *)

LEMMA CreateDocumentStep ==
    ASSUME IInv, TypeOK', NEW r \in Requests, NEW o \in Owners,
           CreateDocument(r, o)
    PROVE  IInv'
<1> USE DEF rows, store
<1> DEFINE x == [Idle EXCEPT !.pc = "extract", !.owner = o,
                             !.document = nextDocument]
<1>1. /\ x.pc = "extract" /\ x.owner = o /\ x.document = nextDocument
      /\ x.chunk_ids = {} /\ x.hits = {} /\ x.result = {}
  BY DEF Idle
<1>2. Become(r, x)
  BY DEF CreateDocument
<1> HIDE DEF x
<1>3. /\ nextDocument \in DocumentIds /\ nextDocument' = nextDocument + 1
      /\ UNCHANGED <<rows, store, nextChunk, inflight>>
  BY ConstantsAssumption DEF CreateDocument, IInv, TypeOK, DocumentIds
<1>4. req'[r] = x /\ \A q \in Requests : q # r => req'[q] = req[q]
  BY <1>2, BecomeSlot DEF IInv
<1>5. /\ Batch(r)' = {}
      /\ \A q \in Requests : q # r => Batch(q)' = Batch(q)
  BY <1>1, <1>4 DEF Batch
<1>6. ClaimsKept
  <2> SUFFICES ASSUME NEW y \in Point, Claimed(y)' PROVE Claimed(y)
    BY DEF ClaimsKept
  <2>1. CASE \E q \in Requests : y \in Batch(q)'
    BY <1>5, <2>1 DEF Claimed
  <2>2. CASE \E q \in Requests : y \in req'[q].hits
    BY <1>1, <1>4, <2>2 DEF Claimed
  <2>3. CASE \/ y \in points
             \/ \E batch \in inflight : y \in batch
             \/ \E row \in documents, c \in chunks :
                  c.document_id = row.id /\ y = PointOf(row, c)
    BY <2>3 DEF Claimed
  <2> QED BY <1>3, <2>1, <2>2, <2>3 DEF Claimed, PointOf
<1>7. ASSUME NEW d \in DocumentIds, NEW p \in Owners, Deed(d, p)'
      PROVE  Deed(d, p) \/ (d = nextDocument /\ p = o)
  <2>1. CASE \E row \in documents : row.id = d /\ row.owner_id = p
    BY <2>1 DEF Deed
  <2>2. CASE \E q \in Requests : req'[q].document = d /\ req'[q].owner = p
    BY <1>1, <1>4, <2>2 DEF Deed
  <2>3. CASE \E y \in Point : Claimed(y)' /\ y.document_id = d /\ y.owner_id = p
    BY <1>6, <2>3 DEF ClaimsKept, Deed
  <2> QED BY <1>3, <1>7, <2>1, <2>2, <2>3 DEF Deed
<1>8. \A p \in Owners : ~Deed(nextDocument, p)
  BY <1>3 DEF IInv, DeedsApart, DocumentIds
<1>9. ClaimsApart'
  BY <1>3, <1>6, ClaimsStayApart DEF IInv
<1>10. DeedsApart'
  <2> SUFFICES ASSUME NEW d \in DocumentIds, NEW p \in Owners, Deed(d, p)'
               PROVE  /\ d < nextDocument'
                      /\ \A s \in Owners : Deed(d, s)' => p = s
    BY DEF DeedsApart
  <2>1. CASE d = nextDocument
    BY <1>3, <1>7, <1>8, <2>1 DEF DocumentIds
  <2>2. CASE d # nextDocument
    BY <1>3, <1>7, <2>2 DEF IInv, DeedsApart, DocumentIds
  <2> QED BY <2>1, <2>2
<1>11. /\ \A row \in documents : row.id # nextDocument
       /\ \A q \in Requests : Uncommitted(q) => req[q].document # nextDocument
  <2>1. \A row \in documents : row.owner_id \in Owners
    BY DEF IInv, TypeOK, Document
  <2>2. \A q \in Requests : Uncommitted(q) => req[q].owner \in Owners
    BY DEF IInv, Attributed, Uncommitted
  <2> QED BY <1>8, <2>1, <2>2 DEF Deed
<1>12. UncommittedApart'
  <2>1. \A q \in Requests : q # r =>
          (Uncommitted(q)' <=> Uncommitted(q)) /\ req'[q].document = req[q].document
    BY <1>4 DEF Uncommitted
  <2>2. req'[r].document = nextDocument
    BY <1>1, <1>4
  <2>3. \A q \in Requests : Uncommitted(q)' =>
          \A row \in documents' : row.id # req'[q].document
    BY <1>3, <1>11, <2>1, <2>2 DEF IInv, UncommittedApart
  <2>4. \A p, q \in Requests :
          Uncommitted(p)' /\ Uncommitted(q)' /\ p # q
            => req'[p].document # req'[q].document
    BY <1>11, <2>1, <2>2 DEF IInv, UncommittedApart
  <2> QED BY <1>3, <2>3, <2>4 DEF IInv, UncommittedApart
<1>13. Attributed'
  BY <1>1, <1>3, <1>4 DEF IInv, Attributed, Uncommitted
<1>14. NoOrphanRows' /\ PublishedIsIndexed'
  BY <1>3 DEF IInv, NoOrphanRows, PublishedIsIndexed, Rows
<1>15. IndexedFirst'
  BY <1>1, <1>3, <1>4, <1>5 DEF IInv, IndexedFirst, At
<1>16. HitsMatch'
  BY <1>1, <1>4 DEF IInv, HitsMatch, At
<1> QED BY <1>9, <1>10, <1>12, <1>13, <1>14, <1>15, <1>16 DEF IInv
LEMMA CreateChunksStep ==
    ASSUME IInv, TypeOK', NEW r \in Requests, CreateChunks(r)
    PROVE  IInv'
<1> USE DEF rows, store
<1>1. PICK n \in 1..MaxChunks :
        /\ nextChunk' = nextChunk + n
        /\ Become(r, [req[r] EXCEPT
             !.pc = "embed", !.chunk_ids = nextChunk..(nextChunk + n - 1)])
  BY DEF CreateChunks
<1> DEFINE x == [req[r] EXCEPT !.pc = "embed",
                               !.chunk_ids = nextChunk..(nextChunk + n - 1)]
<1>2. /\ x.pc = "embed" /\ x.owner = req[r].owner
      /\ x.document = req[r].document
      /\ x.chunk_ids = nextChunk..(nextChunk + n - 1)
      /\ x.hits = req[r].hits /\ x.result = req[r].result
  <2>1. req[r] \in Request
    BY DEF IInv, TypeOK
  <2> QED BY <2>1 DEF Request
<1>3. Become(r, x)
  BY <1>1
<1> HIDE DEF x
<1>4. /\ nextChunk \in Nat /\ nextChunk' = nextChunk + n
      /\ UNCHANGED <<rows, store, nextDocument, inflight>>
  BY <1>1, ConstantsAssumption DEF CreateChunks, IInv, TypeOK
<1>5. req'[r] = x /\ \A q \in Requests : q # r => req'[q] = req[q]
  BY <1>3, BecomeSlot DEF IInv
<1>6. req[r].pc = "extract" /\ Uncommitted(r)
  BY DEF CreateChunks, At, Uncommitted
<1>7. \A q \in Requests : q # r => Batch(q)' = Batch(q)
  BY <1>5 DEF Batch
<1>8. \A y \in Batch(r)' : /\ y.id \in nextChunk..(nextChunk + n - 1)
                           /\ y.owner_id = req[r].owner
                           /\ y.document_id = req[r].document
  <2>1. PICK ids : ids = nextChunk..(nextChunk + n - 1)
    OBVIOUS
  <2>2. Batch(r)' = {[id |-> i, owner_id |-> req[r].owner,
                      document_id |-> req[r].document] : i \in ids}
    BY <1>2, <1>5, <2>1 DEF Batch
  <2> QED BY <2>1, <2>2
<1>9. ASSUME NEW y \in Point, Claimed(y)'
      PROVE  Claimed(y) \/ y \in Batch(r)'
  <2>1. CASE \E q \in Requests : y \in Batch(q)'
    BY <1>7, <2>1 DEF Claimed
  <2>2. CASE \E q \in Requests : y \in req'[q].hits
    BY <1>2, <1>5, <2>2 DEF Claimed
  <2>3. CASE \/ y \in points
             \/ \E batch \in inflight : y \in batch
             \/ \E row \in documents, c \in chunks :
                  c.document_id = row.id /\ y = PointOf(row, c)
    BY <2>3 DEF Claimed
  <2> QED BY <1>4, <1>9, <2>1, <2>2, <2>3 DEF Claimed, PointOf
<1>10. ClaimsApart'
  <2>1. ASSUME NEW y \in Point, NEW z \in Point, Claimed(y)', Claimed(z)',
               y.id = z.id
        PROVE  y = z
    <3>1. /\ Claimed(y) => y.id < nextChunk
          /\ Claimed(z) => z.id < nextChunk
          /\ y \in Batch(r)' => y.id >= nextChunk
          /\ z \in Batch(r)' => z.id >= nextChunk
      BY <1>4, <1>8 DEF IInv, ClaimsApart
    <3>2. y.id \in Nat
      BY DEF Point, ChunkIds
    <3>3. CASE Claimed(y) /\ Claimed(z)
      BY <2>1, <3>3 DEF IInv, ClaimsApart
    <3>4. CASE y \in Batch(r)' /\ z \in Batch(r)'
      BY <1>8, <2>1, <3>4 DEF Point
    <3> QED BY <1>4, <1>9, <2>1, <3>1, <3>2, <3>3, <3>4
  <2>2. ASSUME NEW y \in Point, Claimed(y)' PROVE y.id < nextChunk'
    <3>1. y.id \in Nat
      BY DEF Point, ChunkIds
    <3>2. CASE Claimed(y)
      BY <1>4, <3>1, <3>2 DEF IInv, ClaimsApart
    <3>3. CASE y \in Batch(r)'
      BY <1>4, <1>8, <3>1, <3>3
    <3> QED BY <1>9, <2>2, <3>2, <3>3
  <2> QED BY <2>1, <2>2 DEF ClaimsApart
<1>11. DeedsApart'
  <2>1. DeedsKept
    <3> SUFFICES ASSUME NEW d \in DocumentIds, NEW o \in Owners, Deed(d, o)'
                 PROVE  Deed(d, o)
      BY DEF DeedsKept
    <3>1. CASE \E row \in documents : row.id = d /\ row.owner_id = o
      BY <3>1 DEF Deed
    <3>2. CASE \E q \in Requests : req'[q].document = d /\ req'[q].owner = o
      BY <1>2, <1>5, <3>2 DEF Deed
    <3>3. CASE \E y \in Point : Claimed(y)' /\ y.document_id = d /\ y.owner_id = o
      BY <1>8, <1>9, <3>3 DEF Deed
    <3> QED BY <1>4, <3>1, <3>2, <3>3 DEF Deed
  <2> QED BY <1>4, <2>1, DeedsStayApart DEF IInv
<1>12. UncommittedApart'
  <2>1. \A q \in Requests : /\ Uncommitted(q)' <=> Uncommitted(q)
                            /\ req'[q].document = req[q].document
    BY <1>2, <1>5, <1>6 DEF Uncommitted
  <2> QED BY <1>4, <2>1 DEF IInv, UncommittedApart
<1>13. Attributed'
  BY <1>2, <1>5, <1>6 DEF IInv, Attributed, Uncommitted
<1>14. NoOrphanRows' /\ PublishedIsIndexed'
  BY <1>4 DEF IInv, NoOrphanRows, PublishedIsIndexed, Rows
<1>15. IndexedFirst'
  <2> SUFFICES ASSUME NEW q \in Requests
               PROVE  /\ At(q, "extract")' => req'[q].chunk_ids = {}
                      /\ At(q, "indexing")' =>
                           Batch(q)' \in inflight' \/ Batch(q)' \subseteq points'
                      /\ At(q, "commit")' => Batch(q)' \subseteq points'
    BY DEF IndexedFirst
  <2>1. CASE q = r
    BY <1>2, <1>5, <2>1 DEF At
  <2>2. CASE q # r
    BY <1>4, <1>5, <1>7, <2>2 DEF At, IInv, IndexedFirst
  <2> QED BY <2>1, <2>2
<1>16. HitsMatch'
  BY <1>2, <1>5, <1>6 DEF IInv, HitsMatch, At
<1> QED BY <1>10, <1>11, <1>12, <1>13, <1>14, <1>15, <1>16 DEF IInv

-----------------------------------------------------------------------------
(* The invariant is inductive                                              *)

LEMMA InitInvariant == Init => IInv
<1> SUFFICES ASSUME Init PROVE IInv
  OBVIOUS
<1>1. TypeOK
  BY InitType
<1>2. \A q \in Requests : /\ req[q] = Idle /\ Batch(q) = {} /\ req[q].hits = {}
                          /\ req[q].document = NoDocument /\ ~Uncommitted(q)
  BY DEF Init, Idle, Batch, Uncommitted
<1>3. \A x \in Point : ~Claimed(x)
  BY <1>2 DEF Init, Claimed
<1>4. \A d \in DocumentIds, o \in Owners : ~Deed(d, o)
  BY <1>2, <1>3 DEF Init, Deed, DocumentIds, NoDocument
<1>5. Attributed /\ HitsMatch /\ IndexedFirst
  BY <1>2 DEF Attributed, HitsMatch, IndexedFirst, At, Idle
<1>6. UncommittedApart /\ NoOrphanRows /\ PublishedIsIndexed
  BY <1>2 DEF Init, UncommittedApart, NoOrphanRows, PublishedIsIndexed
<1> QED BY <1>1, <1>3, <1>4, <1>5, <1>6 DEF IInv, ClaimsApart, DeedsApart

LEMMA NextInvariant == IInv /\ [Next]_vars => IInv'
<1> SUFFICES ASSUME IInv, [Next]_vars PROVE IInv'
  OBVIOUS
<1>0. TypeOK'
  BY NextType DEF IInv
<1>1. ASSUME NEW r \in Requests, UploadStep(r) PROVE IInv'
  BY <1>0, <1>1, CreateDocumentStep, CreateChunksStep, UpsertStep, CommitStep,
     UploadQuiet DEF UploadStep
<1>2. ASSUME NEW r \in Requests, DeleteStep(r) PROVE IInv'
  BY <1>0, <1>2, StartStep, RemoveStep DEF DeleteStep
<1>3. ASSUME NEW r \in Requests, SearchStep(r) PROVE IInv'
  <2>1. ASSUME NEW o \in Owners, NEW l \in 1..MaxLimit, SearchDocuments(r, o, l)
        PROVE  IInv'
    BY <1>0, <2>1, SearchAllStep
  <2>2. ASSUME NEW o \in Owners, NEW d \in DocumentIds, NEW l \in 1..MaxLimit,
               SearchDocument(r, o, d, l)
        PROVE  IInv'
    BY <1>0, <2>2, StartStep
  <2> QED BY <1>0, <1>3, <2>1, <2>2, EmbedQueryStep, QueryStep, LoadStep
          DEF SearchStep
<1>4. ASSUME NEW r \in Requests, Return(r) \/ Abort(r) PROVE IInv'
  BY <1>0, <1>4, DropQuiet DEF Return, Abort, rows, store, sequences
<1>5. ASSUME NEW r \in Requests, RequestStep(r) PROVE IInv'
  BY <1>0, <1>1, <1>2, <1>3, <1>4, <1>5, StartStep DEF RequestStep
<1>6. CASE QdrantApply \/ BatchLost \/ Crash
  BY <1>0, <1>6, QdrantStep, CrashStep
<1>7. CASE UNCHANGED vars
  <2>1. Calm
    BY <1>7, StillCalm DEF vars
  <2> QED BY <1>0, <1>7, <2>1, QuietStep DEF vars, rows, sequences, At
<1> QED BY <1>5, <1>6, <1>7 DEF Next
-----------------------------------------------------------------------------
(* What the store promises                                                 *)

\* The inductive invariant holds in every state the service can reach.
THEOREM InvariantTheorem == Spec => []IInv
BY InitInvariant, NextInvariant, PTL DEF Spec

\* Rows, points, sequences and requests keep to their types; what an upload
\* commits has a documents.id and an owner of the users table.
THEOREM TypeTheorem == Spec => []TypeOK
<1>1. IInv => TypeOK
  BY DEF IInv
<1> QED BY <1>1, InvariantTheorem, PTL

\* Every committed chunk has its point in Qdrant, with the payload of its own
\* document and owner, whatever uploads abort and whenever Qdrant applies
\* their batches (process_uploaded_pdf indexes before it commits).
THEOREM PublishedTheorem == Spec => []PublishedIsIndexed
<1>1. IInv => PublishedIsIndexed
  BY DEF IInv
<1> QED BY <1>1, InvariantTheorem, PTL

\* No search answers with a chunk of another user's document, nor with one of
\* a document other than the one asked about, although get_by_ids loads rows
\* by chunk id alone.
THEOREM IsolationTheorem == Spec => []OnlyOwnChunks
<1>1. IInv => OnlyOwnChunks
  <2> SUFFICES ASSUME IInv, NEW r \in Requests, NEW c \in req[r].result
               PROVE  /\ req[r].document \in {NoDocument, c.document_id}
                      /\ \A row \in documents :
                           row.id = c.document_id => row.owner_id = req[r].owner
    BY DEF OnlyOwnChunks
  <2> DEFINE x == [id |-> c.id, owner_id |-> req[r].owner,
                   document_id |-> c.document_id]
  <2>1. /\ x \in req[r].hits
        /\ x.document_id = c.document_id /\ x.owner_id = req[r].owner
    BY DEF IInv, HitsMatch
  <2> HIDE DEF x
  <2>2. req[r].document \in {NoDocument, c.document_id}
    BY <2>1 DEF IInv, HitsMatch
  <2>3. x \in Point /\ Claimed(x)
    BY <2>1 DEF IInv, TypeOK, Request, Claimed
  <2>4. Deed(c.document_id, req[r].owner)
    BY <2>1, <2>3 DEF Deed
  <2>5. ASSUME NEW row \in documents, row.id = c.document_id
        PROVE  row.owner_id = req[r].owner
    <3>1. Deed(row.id, row.owner_id)
      BY DEF Deed
    <3>2. /\ row.id \in DocumentIds /\ row.owner_id \in Owners
          /\ req[r].owner \in Owners
      BY <2>1, <2>3 DEF IInv, TypeOK, Document, Point
    <3> QED BY <2>4, <2>5, <3>1, <3>2 DEF IInv, DeedsApart
  <2> QED BY <2>2, <2>5
<1> QED BY <1>1, InvariantTheorem, PTL
=============================================================================

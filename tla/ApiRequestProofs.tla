------------------------- MODULE ApiRequestProofs -------------------------
(***************************************************************************)
(* Connections, files and statuses, for any number of requests, users,     *)
(* scopes, connections and files: a step changes one request, so it is     *)
(* enough to look at what it makes of that request and of what it shares.  *)
(***************************************************************************)
EXTENDS ApiRequest, FiniteSetTheorems, TLAPS

\* What a request says of itself: the parts of the invariant that look at
\* one request only.
Consistent(x) ==
    /\ x \in Request
    /\ x.pc # "reply" => x.response = 0
    /\ IF x.pc \in {"refresh_document", "read_document"} THEN x.committed = "document"
       ELSE IF x.pc \in {"refresh_failed", "read_failed"} THEN x.committed = "failed"
       ELSE x.pc = "reply" \/ x.committed = "nothing"
    /\ x.response \in {400, 401, 404, 413, 429, 502, 504} => x.committed = "nothing"
    /\ x.response = 422 => x.committed \in {"nothing", "failed"}
    /\ x.response = 201 => x.committed = "document"
    /\ x.response = 204 => x.committed = "deletion"
    /\ x.response = 200 /\ x.kind = "ask" => x.committed = "answer"
    /\ x.pc \in {"lookup", "user", "refresh_user", "read_user"} => x.user \in Users

\* What r may do to the pool, when it becomes x.
PoolUse(r, x) ==
    /\ \/ UNCHANGED connections
       \/ Release(r)
       \/ Connect(r)
    /\ r \in connections' => x.pc \notin Waits \cup {"idle"} /\ x.response < 400

\* What r may do to the temporary files, when it becomes x.
FileUse(r, x) ==
    \/ /\ UNCHANGED tempFiles
       /\ x.file = req[r].file
       /\ x.pc \in Uploading <=> req[r].pc \in Uploading
    \/ /\ x.file = NoFile
       /\ x.pc \notin Uploading
       /\ RemoveFile(r)
    \/ /\ x.file = NoFile
       /\ x.pc \notin Uploading
       /\ req[r].file \in files
       /\ lost' = lost \cup {req[r].file}
       /\ UNCHANGED files
    \/ /\ req[r].pc \notin Uploading
       /\ x.pc \in Uploading
       /\ x.file \in FileIds \ files
       /\ files' = files \cup {x.file}
       /\ UNCHANGED lost

\* The limiter's part of the invariant.
LimiterOK ==
    /\ LimiterTypeOK
    /\ \A r \in Requests : check[r].pc \in {"hit", "stats"} =>
         check[r].rule \in Scopes /\ check[r].user \in Users

LEMMA RequestsConsistent ==
  ASSUME IInv
  PROVE  /\ \A r \in Requests : Consistent(req[r])
         /\ LimiterOK
BY DEF IInv, TypeOK, CommittedLate, StatusTellsCommit, UserKnown, Consistent,
   LimiterOK, At

LEMMA Others ==
  ASSUME IInv, NEW r \in Requests, NEW x, Consistent(x), Become(r, x)
  PROVE  /\ req' \in [Requests -> Request]
         /\ req'[r] = x
         /\ \A q \in Requests \ {r} : req'[q] = req[q]
BY DEF IInv, TypeOK, Become, Consistent

LEMMA ConsistentStep ==
  ASSUME IInv, NEW r \in Requests, NEW x, Consistent(x), Become(r, x)
  PROVE  /\ CommittedLate' /\ StatusTellsCommit'
         /\ \A q \in Requests :
              req'[q].pc \in {"lookup", "user", "refresh_user", "read_user"}
                => req'[q].user \in Users
<1>1. \A q \in Requests : Consistent(req'[q])
  BY Others, RequestsConsistent
<1> QED
  BY <1>1 DEF Consistent, CommittedLate, StatusTellsCommit, At

LEMMA PoolStep ==
  ASSUME IInv, NEW r \in Requests, NEW x, Consistent(x), Become(r, x), PoolUse(r, x)
  PROVE  /\ connections' \subseteq Requests
         /\ IsFiniteSet(connections') /\ Cardinality(connections') <= PoolSize
         /\ ConnectionsReturned'
<1>1. /\ req'[r] = x
      /\ \A q \in Requests \ {r} : req'[q] = req[q]
  BY Others
<1>2. /\ connections \subseteq Requests
      /\ IsFiniteSet(connections) /\ Cardinality(connections) <= PoolSize
  BY DEF IInv, TypeOK
<1>3. PoolSize \in Nat /\ Cardinality(connections) \in Nat
  BY <1>2, ApiRequestAssumption, FS_CardinalityType
<1>4. /\ IsFiniteSet(connections') /\ Cardinality(connections') <= PoolSize
  <2>1. CASE UNCHANGED connections  BY <2>1, <1>2
  <2>2. CASE Release(r)
    <3>1. /\ IsFiniteSet(connections \ {r})
          /\ Cardinality(connections \ {r}) <= Cardinality(connections)
          /\ Cardinality(connections \ {r}) \in Nat
      BY <1>2, <1>3, FS_RemoveElement, FS_CardinalityType, FS_Subset
    <3> QED  BY <3>1, <2>2, <1>2, <1>3 DEF Release
  <2>3. CASE Connect(r)
    <3>1. /\ IsFiniteSet(connections \cup {r})
          /\ \/ Cardinality(connections \cup {r}) = Cardinality(connections)
             \/ Cardinality(connections \cup {r}) = Cardinality(connections) + 1
      BY <1>2, FS_AddElement
    <3> QED  BY <3>1, <2>3, <1>3 DEF Connect
  <2> QED  BY <2>1, <2>2, <2>3 DEF PoolUse
<1>5. connections' \subseteq Requests /\ connections' \subseteq connections \cup {r}
  BY <1>2 DEF PoolUse, Release, Connect
<1>6. ConnectionsReturned'
  BY <1>1, <1>5 DEF IInv, ConnectionsReturned, PoolUse
<1> QED  BY <1>4, <1>5, <1>6

LEMMA FileStep ==
  ASSUME IInv, NEW r \in Requests, NEW x, Consistent(x), Become(r, x), FileUse(r, x)
  PROVE  /\ lost' \subseteq files' /\ files' \subseteq FileIds
         /\ FilesOfUploads' /\ FileKept'
<1>1. /\ req'[r] = x
      /\ \A q \in Requests \ {r} : req'[q] = req[q]
  BY Others
<1>2. /\ NoFile \notin FileIds
      /\ lost \subseteq files /\ files \subseteq FileIds
      /\ FilesOfUploads /\ FileKept
  BY ApiRequestAssumption DEF IInv, TypeOK, NoFile
<1>3. CASE /\ UNCHANGED tempFiles /\ x.file = req[r].file
           /\ x.pc \in Uploading <=> req[r].pc \in Uploading
  BY <1>1, <1>2, <1>3 DEF FilesOfUploads, FileKept, tempFiles, At, Uploading
<1>4. CASE x.file = NoFile /\ x.pc \notin Uploading /\ RemoveFile(r)
  BY <1>1, <1>2, <1>4 DEF FilesOfUploads, FileKept, RemoveFile, At, Uploading
<1>5. CASE /\ x.file = NoFile /\ x.pc \notin Uploading /\ req[r].file \in files
           /\ lost' = lost \cup {req[r].file} /\ UNCHANGED files
  BY <1>1, <1>2, <1>5 DEF FilesOfUploads, FileKept, At, Uploading
<1>6. CASE /\ req[r].pc \notin Uploading /\ x.pc \in Uploading
           /\ x.file \in FileIds \ files
           /\ files' = files \cup {x.file} /\ UNCHANGED lost
  BY <1>1, <1>2, <1>6 DEF FilesOfUploads, FileKept, At, Uploading
<1> QED  BY <1>3, <1>4, <1>5, <1>6 DEF FileUse

\* A step of one request preserves the invariant if it leaves the request
\* consistent and uses pool and files as it may.
LEMMA RequestStep ==
  ASSUME IInv, NEW r \in Requests, NEW x, Consistent(x), Become(r, x),
         PoolUse(r, x), FileUse(r, x), LimiterOK'
  PROVE  IInv'
<1>1. req' \in [Requests -> Request]  BY Others
<1>2. CommittedLate' /\ StatusTellsCommit' /\ UserKnown'
  BY ConsistentStep DEF UserKnown, LimiterOK
<1>3. /\ connections' \subseteq Requests
      /\ IsFiniteSet(connections') /\ Cardinality(connections') <= PoolSize
      /\ ConnectionsReturned'
  BY PoolStep
<1>4. /\ lost' \subseteq files' /\ files' \subseteq FileIds
      /\ FilesOfUploads' /\ FileKept'
  BY FileStep
<1> QED  BY <1>1, <1>2, <1>3, <1>4 DEF IInv, TypeOK, LimiterOK

LEMMA LimiterSame ==
  ASSUME IInv, UNCHANGED limiterVars
  PROVE  LimiterOK'
BY RequestsConsistent DEF LimiterOK, LimiterTypeOK, limiterVars

LEMMA ErrorStatuses ==
  /\ \A e \in DOMAIN ErrorStatus : ErrorStatus[e] \in Nat /\ ErrorStatus[e] >= 400
  /\ ErrorStatus["Internal"] = 500 /\ ErrorStatus["PdfProcessing"] = 422
  /\ {"InvalidUpload", "Unauthorized", "DocumentNotFound", "UploadTooLarge",
      "PdfProcessing", "RequestValidation", "RateLimitExceeded", "Internal",
      "ProviderError", "ProviderTimeout"} = DOMAIN ErrorStatus
BY DEF ErrorStatus

\* An error ends the request: with nothing committed, or a 500, or the 422
\* that follows the FAILED row.
LEMMA RaiseStep ==
  ASSUME IInv, NEW r \in Requests, NEW error \in DOMAIN ErrorStatus,
         Raise(r, error), req[r].pc # "idle",
         \/ error = "Internal"
         \/ error = "PdfProcessing" /\ req[r].committed = "failed"
         \/ req[r].committed = "nothing",
         \/ RemoveFile(r)
         \/ UNCHANGED tempFiles /\ req[r].pc \notin Uploading
         \/ /\ req[r].file \in files
            /\ lost' = lost \cup {req[r].file} /\ UNCHANGED files,
         LimiterOK'
  PROVE  IInv'
<1> DEFINE x == [req[r] EXCEPT !.pc = "reply", !.user = NoUser,
                   !.file = NoFile, !.response = ErrorStatus[error]]
<1>1. Become(r, x) /\ connections' = connections \ {r}
  BY DEF Raise, Release
<1>2. ErrorStatus[error] \in Nat /\ ErrorStatus[error] >= 400
      /\ (error = "Internal" => ErrorStatus[error] = 500)
      /\ (error = "PdfProcessing" => ErrorStatus[error] = 422)
  BY ErrorStatuses
<1>3. req[r] \in Request /\ Consistent(req[r])
  BY RequestsConsistent DEF Consistent
<1>4. /\ x \in Request /\ x.pc = "reply" /\ x.file = NoFile
      /\ x.response = ErrorStatus[error] /\ x.committed = req[r].committed
  BY <1>2, <1>3 DEF Request
<1>5. Consistent(x)
  BY <1>2, <1>4 DEF Consistent
<1>6. PoolUse(r, x)
  BY <1>1 DEF PoolUse, Release
<1>7. FileUse(r, x)
  <2>1. req[r].pc \notin Uploading => req[r].file = NoFile
    BY DEF IInv, FileKept
  <2> QED  BY <1>4, <2>1 DEF FileUse, Uploading
<1> HIDE DEF x
<1> QED  BY <1>1, <1>5, <1>6, <1>7, RequestStep

\* Any other step that has no part in the limit.
LEMMA OwnStep ==
  ASSUME IInv, NEW r \in Requests, NEW x, Become(r, x), Consistent(x),
         PoolUse(r, x), FileUse(r, x), UNCHANGED limiterVars
  PROVE  IInv'
BY RequestStep, LimiterSame

LEMMA EarlyErrors ==
  ASSUME IInv, NEW r \in Requests,
         \/ InvalidRequest(r) \/ NotFound(r) \/ InvalidUpload(r)
         \/ TooLarge(r) \/ ProviderFails(r)
  PROVE  IInv'
<1>1. /\ req[r].pc \in {"handler", "spool", "process"}
      /\ req[r].committed = "nothing"
      /\ UNCHANGED limiterVars
  BY DEF InvalidRequest, NotFound, InvalidUpload, TooLarge, ProviderFails, Handles,
     At, IInv, CommittedLate
<1>2. LimiterOK'  BY <1>1, LimiterSame
<1>3. RemoveFile(r) \/ (UNCHANGED tempFiles /\ req[r].pc \notin Uploading)
  BY DEF InvalidRequest, NotFound, InvalidUpload, TooLarge, ProviderFails, Handles,
     At, Uploading
<1>4. PICK error \in DOMAIN ErrorStatus : Raise(r, error)
  BY ErrorStatuses DEF InvalidRequest, NotFound, InvalidUpload, TooLarge, ProviderFails
<1> QED  BY <1>1, <1>2, <1>3, <1>4, RaiseStep

LEMMA LateErrors ==
  ASSUME IInv, NEW r \in Requests,
         RefreshFailed(r) \/ PoolTimeout(r) \/ Fail(r) \/ SpoolFails(r)
  PROVE  IInv'
<1>1. LimiterOK' /\ req[r].pc # "idle"
  BY LimiterSame DEF RefreshFailed, PoolTimeout, Fail, SpoolFails, At, Waits, Reads
<1>2. "PdfProcessing" \in DOMAIN ErrorStatus
      /\ "Internal" \in DOMAIN ErrorStatus
  BY ErrorStatuses
<1>3. CASE RefreshFailed(r)
  <2>1. req[r].committed = "failed" /\ RemoveFile(r) /\ Raise(r, "PdfProcessing")
    BY <1>3 DEF RefreshFailed, IInv, CommittedLate, At
  <2> QED  BY <1>1, <1>2, <2>1, RaiseStep
<1>4. CASE PoolTimeout(r) \/ Fail(r)
  <2>1. RemoveFile(r) /\ Raise(r, "Internal")
    BY <1>4 DEF PoolTimeout, Fail
  <2> QED  BY <1>1, <1>2, <2>1, RaiseStep
<1>5. CASE SpoolFails(r)
  <2>1. /\ req[r].file \in files /\ lost' = lost \cup {req[r].file}
        /\ UNCHANGED files /\ Raise(r, "Internal")
    BY <1>5 DEF SpoolFails, IInv, FileKept, Uploading, At
  <2> QED  BY <1>1, <1>2, <2>1, RaiseStep
<1> QED  BY <1>3, <1>4, <1>5

LEMMA UserSteps ==
  ASSUME IInv, NEW r \in Requests, LookUpUser(r) \/ CommitUser(r) \/ Return(r)
  PROVE  IInv'
<1> DEFINE y == req[r]
<1>0. Consistent(y) /\ y \in Request  BY RequestsConsistent DEF Consistent
<1>1. CASE LookUpUser(r)
  <2> DEFINE x == [y EXCEPT !.pc = "user"]
  <2>1. Become(r, x)  BY <1>1 DEF LookUpUser, Goto, Commit, Reply
  <2>2. /\ x \in Request
        /\ x.pc = "user" /\ x.committed = y.committed /\ x.response = y.response
        /\ x.kind = y.kind /\ x.user = y.user
    BY <1>0 DEF Request, Idle, NoUser, NoFile, Waits, Reads, Kinds
  <2>5. Consistent(x)
    BY <1>0, <1>1, <2>2 DEF LookUpUser, Consistent, Handles, At
  <2>3. PoolUse(r, x)
    BY <1>0, <1>1 DEF LookUpUser, PoolUse, Commit, Reply, Release, Connect, IInv,
       ConnectionsReturned, Consistent, Request, Handles, At, Waits, Reads, Idle
  <2>4. FileUse(r, x) /\ UNCHANGED limiterVars
    BY <1>0, <1>1 DEF LookUpUser, FileUse, RemoveFile, tempFiles, Uploading, IInv,
       FileKept, Request, Handles, At, Idle, NoFile, Waits, Reads
  <2> HIDE DEF x
  <2> QED  BY <2>1, <2>3, <2>4, <2>5, OwnStep
<1>2. CASE CommitUser(r)
  <2> DEFINE x == [y EXCEPT !.pc = "refresh_user"]
  <2>1. Become(r, x)  BY <1>2 DEF CommitUser, Goto, Commit, Reply
  <2>2. /\ x \in Request
        /\ x.pc = "refresh_user" /\ x.committed = y.committed /\ x.response = y.response
        /\ x.kind = y.kind /\ x.user = y.user
    BY <1>0 DEF Request, Idle, NoUser, NoFile, Waits, Reads, Kinds
  <2>5. Consistent(x)
    BY <1>0, <1>2, <2>2 DEF CommitUser, Consistent, Handles, At
  <2>3. PoolUse(r, x)
    BY <1>0, <1>2 DEF CommitUser, PoolUse, Commit, Reply, Release, Connect, IInv,
       ConnectionsReturned, Consistent, Request, Handles, At, Waits, Reads, Idle
  <2>4. FileUse(r, x) /\ UNCHANGED limiterVars
    BY <1>0, <1>2 DEF CommitUser, FileUse, RemoveFile, tempFiles, Uploading, IInv,
       FileKept, Request, Handles, At, Idle, NoFile, Waits, Reads
  <2> HIDE DEF x
  <2> QED  BY <2>1, <2>3, <2>4, <2>5, OwnStep
<1>3. CASE Return(r)
  <2> DEFINE x == Idle
  <2>1. Become(r, x)  BY <1>3 DEF Return, Goto, Commit, Reply
  <2>2. /\ x \in Request
        /\ x.pc = "idle" /\ x.committed = "nothing" /\ x.response = 0
        /\ x.kind = "read" /\ x.user = NoUser
    BY <1>0 DEF Request, Idle, NoUser, NoFile, Waits, Reads, Kinds
  <2>5. Consistent(x)
    BY <1>0, <1>3, <2>2 DEF Return, Consistent, Handles, At
  <2>3. PoolUse(r, x)
    BY <1>0, <1>3 DEF Return, PoolUse, Commit, Reply, Release, Connect, IInv,
       ConnectionsReturned, Consistent, Request, Handles, At, Waits, Reads, Idle
  <2>4. FileUse(r, x) /\ UNCHANGED limiterVars
    BY <1>0, <1>3 DEF Return, FileUse, RemoveFile, tempFiles, Uploading, IInv,
       FileKept, Request, Handles, At, Idle, NoFile, Waits, Reads
  <2> HIDE DEF x
  <2> QED  BY <2>1, <2>3, <2>4, <2>5, OwnStep
<1> QED  BY <1>1, <1>2, <1>3

\* The connection for a refresh: nothing else changes.
LEMMA ReconnectStep ==
  ASSUME IInv, NEW r \in Requests, Reconnect(r)
  PROVE  IInv'
<1>1. Consistent(req[r]) /\ req[r] \in Request
  BY RequestsConsistent DEF Consistent
<1>2. ASSUME NEW from \in Waits, NEW to \in Reads, At(r, from), Goto(r, to),
             \/ from = "refresh_user" /\ to = "read_user"
             \/ from = "refresh_document" /\ to = "read_document"
             \/ from = "refresh_failed" /\ to = "read_failed"
      PROVE  IInv'
  <2> DEFINE x == [req[r] EXCEPT !.pc = to]
  <2>1. /\ x \in Request /\ x.pc = to /\ x.file = req[r].file
        /\ x.response = req[r].response /\ x.committed = req[r].committed
        /\ x.kind = req[r].kind /\ x.user = req[r].user
    BY <1>1 DEF Request
  <2>2. Become(r, x)  BY <1>2 DEF Goto
  <2> HIDE DEF x
  <2>3. Consistent(x) /\ x.response = 0
    BY <1>1, <1>2, <2>1 DEF Consistent, At
  <2>4. PoolUse(r, x)
    BY <1>2, <2>1, <2>3 DEF Reconnect, PoolUse, Waits
  <2>5. FileUse(r, x) /\ UNCHANGED limiterVars
    BY <1>2, <2>1 DEF Reconnect, FileUse, Uploading, At
  <2> QED  BY <2>2, <2>3, <2>4, <2>5, OwnStep
<1> QED  BY <1>2 DEF Reconnect, Waits, Reads

LEMMA HandlerSteps ==
  ASSUME IInv, NEW r \in Requests, Read(r) \/ Answer(r) \/ Delete(r)
  PROVE  IInv'
<1> DEFINE y == req[r]
<1>0. Consistent(y) /\ y \in Request  BY RequestsConsistent DEF Consistent
<1>1. CASE Read(r)
  <2> DEFINE x == [y EXCEPT !.pc = "reply", !.response = 200]
  <2>1. Become(r, x)  BY <1>1 DEF Read, Goto, Commit, Reply
  <2>2. /\ x \in Request
        /\ x.pc = "reply" /\ x.committed = y.committed /\ x.response = 200
        /\ x.kind = y.kind /\ x.user = y.user
    BY <1>0 DEF Request, Idle, NoUser, NoFile, Waits, Reads, Kinds
  <2>5. Consistent(x)
    BY <1>0, <1>1, <2>2 DEF Read, Consistent, Handles, At
  <2>3. PoolUse(r, x)
    BY <1>0, <1>1 DEF Read, PoolUse, Commit, Reply, Release, Connect, IInv,
       ConnectionsReturned, Consistent, Request, Handles, At, Waits, Reads, Idle
  <2>4. FileUse(r, x) /\ UNCHANGED limiterVars
    BY <1>0, <1>1 DEF Read, FileUse, RemoveFile, tempFiles, Uploading, IInv,
       FileKept, Request, Handles, At, Idle, NoFile, Waits, Reads
  <2> HIDE DEF x
  <2> QED  BY <2>1, <2>3, <2>4, <2>5, OwnStep
<1>2. CASE Answer(r)
  <2> DEFINE x == [y EXCEPT !.pc = "reply", !.committed = "answer", !.response = 200]
  <2>1. Become(r, x)  BY <1>2 DEF Answer, Goto, Commit, Reply
  <2>2. /\ x \in Request
        /\ x.pc = "reply" /\ x.committed = "answer" /\ x.response = 200
        /\ x.kind = y.kind /\ x.user = y.user
    BY <1>0 DEF Request, Idle, NoUser, NoFile, Waits, Reads, Kinds
  <2>5. Consistent(x)
    BY <1>0, <1>2, <2>2 DEF Answer, Consistent, Handles, At
  <2>3. PoolUse(r, x)
    BY <1>0, <1>2 DEF Answer, PoolUse, Commit, Reply, Release, Connect, IInv,
       ConnectionsReturned, Consistent, Request, Handles, At, Waits, Reads, Idle
  <2>4. FileUse(r, x) /\ UNCHANGED limiterVars
    BY <1>0, <1>2 DEF Answer, FileUse, RemoveFile, tempFiles, Uploading, IInv,
       FileKept, Request, Handles, At, Idle, NoFile, Waits, Reads
  <2> HIDE DEF x
  <2> QED  BY <2>1, <2>3, <2>4, <2>5, OwnStep
<1>3. CASE Delete(r)
  <2> DEFINE x == [y EXCEPT !.pc = "reply", !.committed = "deletion", !.response = 204]
  <2>1. Become(r, x)  BY <1>3 DEF Delete, Goto, Commit, Reply
  <2>2. /\ x \in Request
        /\ x.pc = "reply" /\ x.committed = "deletion" /\ x.response = 204
        /\ x.kind = y.kind /\ x.user = y.user
    BY <1>0 DEF Request, Idle, NoUser, NoFile, Waits, Reads, Kinds
  <2>5. Consistent(x)
    BY <1>0, <1>3, <2>2 DEF Delete, Consistent, Handles, At
  <2>3. PoolUse(r, x)
    BY <1>0, <1>3 DEF Delete, PoolUse, Commit, Reply, Release, Connect, IInv,
       ConnectionsReturned, Consistent, Request, Handles, At, Waits, Reads, Idle
  <2>4. FileUse(r, x) /\ UNCHANGED limiterVars
    BY <1>0, <1>3 DEF Delete, FileUse, RemoveFile, tempFiles, Uploading, IInv,
       FileKept, Request, Handles, At, Idle, NoFile, Waits, Reads
  <2> HIDE DEF x
  <2> QED  BY <2>1, <2>3, <2>4, <2>5, OwnStep
<1> QED  BY <1>1, <1>2, <1>3

LEMMA UploadSteps ==
  ASSUME IInv, NEW r \in Requests, Spooled(r) \/ PdfFails(r) \/ Indexed(r) \/ RefreshDocument(r)
  PROVE  IInv'
<1> DEFINE y == req[r]
<1>0. Consistent(y) /\ y \in Request  BY RequestsConsistent DEF Consistent
<1>1. CASE Spooled(r)
  <2> DEFINE x == [y EXCEPT !.pc = "process"]
  <2>1. Become(r, x)  BY <1>1 DEF Spooled, Goto, Commit, Reply
  <2>2. /\ x \in Request
        /\ x.pc = "process" /\ x.committed = y.committed /\ x.response = y.response
        /\ x.kind = y.kind /\ x.user = y.user
    BY <1>0 DEF Request, Idle, NoUser, NoFile, Waits, Reads, Kinds
  <2>5. Consistent(x)
    BY <1>0, <1>1, <2>2 DEF Spooled, Consistent, Handles, At
  <2>3. PoolUse(r, x)
    BY <1>0, <1>1 DEF Spooled, PoolUse, Commit, Reply, Release, Connect, IInv,
       ConnectionsReturned, Consistent, Request, Handles, At, Waits, Reads, Idle
  <2>4. FileUse(r, x) /\ UNCHANGED limiterVars
    BY <1>0, <1>1 DEF Spooled, FileUse, RemoveFile, tempFiles, Uploading, IInv,
       FileKept, Request, Handles, At, Idle, NoFile, Waits, Reads
  <2> HIDE DEF x
  <2> QED  BY <2>1, <2>3, <2>4, <2>5, OwnStep
<1>2. CASE PdfFails(r)
  <2> DEFINE x == [y EXCEPT !.pc = "refresh_failed", !.committed = "failed", !.response = 0]
  <2>1. Become(r, x)  BY <1>2 DEF PdfFails, Goto, Commit, Reply
  <2>2. /\ x \in Request
        /\ x.pc = "refresh_failed" /\ x.committed = "failed" /\ x.response = 0
        /\ x.kind = y.kind /\ x.user = y.user
    BY <1>0 DEF Request, Idle, NoUser, NoFile, Waits, Reads, Kinds
  <2>5. Consistent(x)
    BY <1>0, <1>2, <2>2 DEF PdfFails, Consistent, Handles, At
  <2>3. PoolUse(r, x)
    BY <1>0, <1>2 DEF PdfFails, PoolUse, Commit, Reply, Release, Connect, IInv,
       ConnectionsReturned, Consistent, Request, Handles, At, Waits, Reads, Idle
  <2>4. FileUse(r, x) /\ UNCHANGED limiterVars
    BY <1>0, <1>2 DEF PdfFails, FileUse, RemoveFile, tempFiles, Uploading, IInv,
       FileKept, Request, Handles, At, Idle, NoFile, Waits, Reads
  <2> HIDE DEF x
  <2> QED  BY <2>1, <2>3, <2>4, <2>5, OwnStep
<1>3. CASE Indexed(r)
  <2> DEFINE x == [y EXCEPT !.pc = "refresh_document", !.committed = "document", !.response = 0]
  <2>1. Become(r, x)  BY <1>3 DEF Indexed, Goto, Commit, Reply
  <2>2. /\ x \in Request
        /\ x.pc = "refresh_document" /\ x.committed = "document" /\ x.response = 0
        /\ x.kind = y.kind /\ x.user = y.user
    BY <1>0 DEF Request, Idle, NoUser, NoFile, Waits, Reads, Kinds
  <2>5. Consistent(x)
    BY <1>0, <1>3, <2>2 DEF Indexed, Consistent, Handles, At
  <2>3. PoolUse(r, x)
    BY <1>0, <1>3 DEF Indexed, PoolUse, Commit, Reply, Release, Connect, IInv,
       ConnectionsReturned, Consistent, Request, Handles, At, Waits, Reads, Idle
  <2>4. FileUse(r, x) /\ UNCHANGED limiterVars
    BY <1>0, <1>3 DEF Indexed, FileUse, RemoveFile, tempFiles, Uploading, IInv,
       FileKept, Request, Handles, At, Idle, NoFile, Waits, Reads
  <2> HIDE DEF x
  <2> QED  BY <2>1, <2>3, <2>4, <2>5, OwnStep
<1>4. CASE RefreshDocument(r)
  <2> DEFINE x == [y EXCEPT !.pc = "reply", !.file = NoFile, !.response = 201]
  <2>1. Become(r, x)  BY <1>4 DEF RefreshDocument, Goto, Commit, Reply
  <2>2. /\ x \in Request
        /\ x.pc = "reply" /\ x.committed = y.committed /\ x.response = 201
        /\ x.kind = y.kind /\ x.user = y.user
    BY <1>0 DEF Request, Idle, NoUser, NoFile, Waits, Reads, Kinds
  <2>5. Consistent(x)
    BY <1>0, <1>4, <2>2 DEF RefreshDocument, Consistent, Handles, At
  <2>3. PoolUse(r, x)
    BY <1>0, <1>4 DEF RefreshDocument, PoolUse, Commit, Reply, Release, Connect, IInv,
       ConnectionsReturned, Consistent, Request, Handles, At, Waits, Reads, Idle
  <2>4. FileUse(r, x) /\ UNCHANGED limiterVars
    BY <1>0, <1>4 DEF RefreshDocument, FileUse, RemoveFile, tempFiles, Uploading, IInv,
       FileKept, Request, Handles, At, Idle, NoFile, Waits, Reads
  <2> HIDE DEF x
  <2> QED  BY <2>1, <2>3, <2>4, <2>5, OwnStep
<1> QED  BY <1>1, <1>2, <1>3, <1>4

LEMMA CreateFileStep ==
  ASSUME IInv, NEW r \in Requests, CreateFile(r)
  PROVE  IInv'
<1>1. PICK f \in FileIds \ files :
        /\ files' = files \cup {f}
        /\ Become(r, [req[r] EXCEPT !.pc = "spool", !.file = f])
  BY DEF CreateFile
<1> DEFINE x == [req[r] EXCEPT !.pc = "spool", !.file = f]
<1>2. Consistent(req[r]) /\ req[r] \in Request
  BY RequestsConsistent DEF Consistent
<1>3. /\ req[r].pc = "handler"
      /\ UNCHANGED <<limiterVars, connections, lost>>
  BY DEF CreateFile, Handles, At
<1>4. /\ x \in Request /\ x.pc = "spool" /\ x.file = f
      /\ x.response = req[r].response /\ x.committed = req[r].committed
  BY <1>2 DEF Request
<1>5. Consistent(x) /\ x.response = 0
  BY <1>2, <1>3, <1>4 DEF Consistent
<1>6. PoolUse(r, x) /\ FileUse(r, x)
  BY <1>1, <1>3, <1>4, <1>5 DEF PoolUse, FileUse, Waits, Uploading
<1>7. Become(r, x)  BY <1>1
<1> HIDE DEF x
<1> QED  BY <1>3, <1>5, <1>6, <1>7, OwnStep

LEMMA ArriveAs ==
  ASSUME IInv, NEW r \in Requests, req[r].pc = "idle",
         UNCHANGED <<limiterVars, connections, tempFiles>>,
         NEW x \in Request, Become(r, x), x.file = NoFile, x.committed = "nothing",
         \/ x.pc = "reply" /\ x.response \in {401, 422}
         \/ x.pc = "lookup" /\ x.response = 0 /\ x.user \in Users
  PROVE  IInv'
<1>1. Consistent(x)
  BY DEF Consistent
<1>2. req[r].file = NoFile /\ r \notin connections /\ req[r].pc \notin Uploading
  BY DEF IInv, FileKept, ConnectionsReturned, Uploading
<1>3. PoolUse(r, x) /\ FileUse(r, x)
  BY <1>2 DEF PoolUse, FileUse, Uploading
<1> QED  BY <1>1, <1>3, OwnStep

LEMMA RefusedRecord ==
  ASSUME NEW kind \in Kinds, NEW status \in Nat
  PROVE  LET x == [Idle EXCEPT !.pc = "reply", !.kind = kind, !.response = status]
         IN  /\ x \in Request /\ x.pc = "reply" /\ x.file = NoFile
             /\ x.response = status /\ x.committed = "nothing"
BY DEF Idle, Request, NoFile, NoUser

LEMMA ArriveStep ==
  ASSUME IInv, NEW r \in Requests, Arrive(r)
  PROVE  IInv'
<1>1. PICK kind \in Kinds :
        Unauthorized(r, kind) \/ \E user \in Users : Authorized(r, kind, user)
  BY DEF Arrive
<1>2. CASE Unauthorized(r, kind)
  <2>1. PICK error \in {"Unauthorized", "RequestValidation"} :
          Become(r, [Idle EXCEPT !.pc = "reply", !.kind = kind,
                                 !.response = ErrorStatus[error]])
    BY <1>2 DEF Unauthorized
  <2> DEFINE x == [Idle EXCEPT !.pc = "reply", !.kind = kind,
                               !.response = ErrorStatus[error]]
  <2>2. ErrorStatus[error] \in {401, 422}
    BY DEF ErrorStatus
  <2>3. /\ x \in Request /\ x.pc = "reply" /\ x.file = NoFile
        /\ x.response = ErrorStatus[error] /\ x.committed = "nothing"
    <3> DEFINE status == ErrorStatus[error]
    <3>1. status \in Nat  BY <2>2
    <3> HIDE DEF status
    <3>2. LET z == [Idle EXCEPT !.pc = "reply", !.kind = kind, !.response = status]
          IN  /\ z \in Request /\ z.pc = "reply" /\ z.file = NoFile
              /\ z.response = status /\ z.committed = "nothing"
      BY <3>1, RefusedRecord
    <3> QED  BY <3>2 DEF status
  <2>4. req[r].pc = "idle" /\ UNCHANGED <<limiterVars, connections, tempFiles>>
    BY <1>2 DEF Unauthorized, At
  <2>5. Become(r, x)  BY <2>1
  <2> HIDE DEF x
  <2> QED  BY <2>2, <2>3, <2>4, <2>5, ArriveAs
<1>3. ASSUME NEW user \in Users, Authorized(r, kind, user)  PROVE IInv'
  <2> DEFINE x == [Idle EXCEPT !.pc = "lookup", !.kind = kind, !.user = user]
  <2>1. /\ x \in Request /\ x.pc = "lookup" /\ x.file = NoFile /\ x.user = user
        /\ x.response = 0 /\ x.committed = "nothing"
    BY DEF Idle, Request, NoFile, NoUser, Waits
  <2>2. req[r].pc = "idle" /\ UNCHANGED <<limiterVars, connections, tempFiles>>
    BY <1>3 DEF Authorized, At
  <2>3. Become(r, x)  BY <1>3 DEF Authorized
  <2> HIDE DEF x
  <2> QED  BY <2>1, <2>2, <2>3, ArriveAs
<1> QED  BY <1>1, <1>2, <1>3

LEMMA CountTriples ==
  ASSUME NEW s, NEW u, NEW n \in Nat, NEW S,
         \A x : x \in S <=> \E i \in 1 .. n : x = <<s, u, i>>
  PROVE  Cardinality(S) = n
<1> DEFINE f == [i \in 1 .. n |-> <<s, u, i>>]
<1>1. IsFiniteSet(1 .. n) /\ Cardinality(1 .. n) = n
  <2>1. n \in Int /\ 1 \in Int  OBVIOUS
  <2>2. IsFiniteSet(1 .. n) /\ Cardinality(1 .. n) = IF 1 > n THEN 0 ELSE n - 1 + 1
    BY <2>1, FS_Interval
  <2> QED  BY <2>2
<1>2. /\ f \in [1 .. n -> S]
      /\ \A i, j \in 1 .. n : f[i] = f[j] => i = j
      /\ \A x \in S : \E i \in 1 .. n : f[i] = x
  OBVIOUS
<1> HIDE DEF f
<1>3. f \in Bijection(1 .. n, S)
  <2>1. DOMAIN f = 1 .. n  BY <1>2
  <2>2. IsInjective(f)  BY <1>2, <2>1 DEF IsInjective
  <2> QED  BY <1>2, <2>2 DEF Bijection, Injection, Surjection
<1>4. Cardinality(S) = Cardinality(1 .. n)
  BY <1>1, <1>3, FS_Bijection DEF ExistsBijection
<1> QED  BY <1>1, <1>4

\* What Redis has counted under a user's key are that user's own hits.
LEMMA CountedOwn ==
  ASSUME LimiterTypeOK, NEW s \in Scopes, NEW u \in Users
  PROVE  Counted(BuildUserKey(s, u)) = hits[s][u]
<1> DEFINE n == hits[s][u]
           own == {<<s, u, i>> : i \in 1 .. n}
<1>1. n \in Nat  BY DEF LimiterTypeOK
<1>2. {q \in Scopes \X Users : BuildUserKey(q[1], q[2]) = BuildUserKey(s, u)} = {<<s, u>>}
  <2>1. ASSUME NEW q \in Scopes \X Users, BuildUserKey(q[1], q[2]) = BuildUserKey(s, u)
        PROVE  q = <<s, u>>
    <3>1. q[1] = s /\ q[2] = u  BY <2>1 DEF BuildUserKey
    <3>2. q = <<q[1], q[2]>>  BY <2>1
    <3> QED  BY <3>1, <3>2
  <2>2. <<s, u>> \in Scopes \X Users
        /\ BuildUserKey(<<s, u>>[1], <<s, u>>[2]) = BuildUserKey(s, u)
    OBVIOUS
  <2> QED  BY <2>1, <2>2
<1>3. UNION {{<<p[1], p[2], i>> : i \in 1 .. hits[p[1]][p[2]]} : p \in {<<s, u>>}} = own
  <2> DEFINE G(p) == {<<p[1], p[2], i>> : i \in 1 .. hits[p[1]][p[2]]}
  <2>1. G(<<s, u>>) = own  OBVIOUS
  <2> HIDE DEF own, G
  <2>2. UNION {G(p) : p \in {<<s, u>>}} = own  BY <2>1
  <2> QED  BY <2>2 DEF G
<1>4. Cardinality(own) = n
  <2>1. \A x : x \in own <=> \E i \in 1 .. n : x = <<s, u, i>>
    OBVIOUS
  <2> HIDE DEF n, own
  <2> QED  BY <1>1, <2>1, CountTriples
<1> QED  BY <1>2, <1>3, <1>4 DEF Counted

LEMMA CheckStep ==
  ASSUME LimiterTypeOK, NEW r \in Requests, NEW y \in Check,
         check' = [check EXCEPT ![r] = y]
  PROVE  /\ check' \in [Requests -> Check]
         /\ check'[r] = y
         /\ \A q \in Requests \ {r} : check'[q] = check[q]
BY DEF LimiterTypeOK

\* What the calls of the limiter make of the check.
LEMMA CheckOfCall ==
  ASSUME LimiterTypeOK, NEW r \in Requests, LimiterStep(r)
  PROVE  /\ check' \in [Requests -> Check]
         /\ \A q \in Requests \ {r} : check'[q] = check[q]
         /\ check'[r].pc \in {"stats", "done"}
         /\ check'[r].rule = check[r].rule /\ check'[r].user = check[r].user
         /\ \/ check'[r].exceeded = check[r].exceeded
            \/ Hit(r) /\ check'[r].exceeded = Exceeds(check[r].rule, check[r].user)
<1> DEFINE over == Exceeds(check[r].rule, check[r].user)
<1>1. check[r] \in Check  BY DEF LimiterTypeOK
<1>2. over \in BOOLEAN /\ (check[r].rule \notin FailClosed) \in BOOLEAN
  BY DEF Exceeds
<1>3. CASE Hit(r)
  <2> DEFINE y == [check[r] EXCEPT !.pc = "stats", !.exceeded = over]
  <2>1. check' = [check EXCEPT ![r] = y]
    BY <1>3 DEF Hit
  <2> HIDE DEF over
  <2>2. /\ y \in Check /\ y.pc = "stats" /\ y.exceeded = over
        /\ y.rule = check[r].rule /\ y.user = check[r].user
    BY <1>1, <1>2 DEF Check
  <2> HIDE DEF y
  <2>3. /\ check' \in [Requests -> Check] /\ check'[r] = y
        /\ \A q \in Requests \ {r} : check'[q] = check[q]
    BY <2>1, <2>2, CheckStep
  <2> QED  BY <1>3, <2>2, <2>3 DEF over
<1>4. CASE Stats(r)
  <2> DEFINE y == [check[r] EXCEPT !.pc = "done", !.allowed = ~check[r].exceeded]
  <2>1. check' = [check EXCEPT ![r] = y]
    BY <1>4 DEF Stats
  <2>2. /\ y \in Check /\ y.pc = "done" /\ y.exceeded = check[r].exceeded
        /\ y.rule = check[r].rule /\ y.user = check[r].user
    BY <1>1 DEF Check
  <2> HIDE DEF y
  <2>3. /\ check' \in [Requests -> Check] /\ check'[r] = y
        /\ \A q \in Requests \ {r} : check'[q] = check[q]
    BY <2>1, <2>2, CheckStep
  <2> QED  BY <2>2, <2>3
<1>5. CASE HitFails(r) \/ StatsFail(r)
  <2> DEFINE y == [check[r] EXCEPT !.pc = "done",
                     !.allowed = check[r].rule \notin FailClosed]
  <2>1. check' = [check EXCEPT ![r] = y]
    BY <1>5 DEF HitFails, StatsFail, HandleStorageFailure
  <2>2. /\ y \in Check /\ y.pc = "done" /\ y.exceeded = check[r].exceeded
        /\ y.rule = check[r].rule /\ y.user = check[r].user
    BY <1>1, <1>2 DEF Check
  <2> HIDE DEF y
  <2>3. /\ check' \in [Requests -> Check] /\ check'[r] = y
        /\ \A q \in Requests \ {r} : check'[q] = check[q]
    BY <2>1, <2>2, CheckStep
  <2> QED  BY <2>2, <2>3
<1> QED  BY <1>3, <1>4, <1>5 DEF LimiterStep

LEMMA LimiterStepOK ==
  ASSUME IInv, NEW r \in Requests, LimiterStep(r)
  PROVE  LimiterOK'
<1> DEFINE s == check[r].rule
           u == check[r].user
<1>1. LimiterOK /\ LimiterTypeOK  BY RequestsConsistent DEF LimiterOK
<1>2. /\ check' \in [Requests -> Check]
      /\ \A q \in Requests \ {r} : check'[q] = check[q]
      /\ check'[r].rule = s /\ check'[r].user = u
  BY <1>1, CheckOfCall
<1>3. s \in Scopes /\ u \in Users
  BY <1>1 DEF LimiterStep, Hit, Stats, HitFails, StatsFail, LimiterOK
<1>4. Exceeds(s, u) <=> hits[s][u] + 1 > Limits[s]
  BY <1>1, <1>3, CountedOwn DEF Exceeds
<1>5. hits' = hits \/ (~Exceeds(s, u) /\ hits' = [hits EXCEPT ![s][u] = @ + 1])
  BY DEF LimiterStep, Hit, HitFails, Stats, StatsFail
<1>6. /\ hits' \in [Scopes -> [Users -> Nat]]
      /\ \A t \in Scopes, v \in Users : hits'[t][v] <= Limits[t]
  BY <1>1, <1>3, <1>4, <1>5, RateLimitAssumption DEF LimiterTypeOK
<1> QED  BY <1>1, <1>2, <1>3, <1>6 DEF LimiterOK, LimiterTypeOK

\* A step of the limiter or of the window alone.
LEMMA LimiterAlone ==
  ASSUME IInv, LimiterOK', UNCHANGED <<req, connections, tempFiles>>
  PROVE  IInv'
BY RequestsConsistent DEF IInv, TypeOK, LimiterOK, ConnectionsReturned, FilesOfUploads,
   StatusTellsCommit, FileKept, CommittedLate, UserKnown, At, tempFiles

LEMMA SlideStep ==
  ASSUME IInv, Slide
  PROVE  LimiterOK'
<1>1. LimiterOK  BY RequestsConsistent
<1>2. PICK s \in Scopes, u \in Users :
        hits[s][u] > 0 /\ hits' = [hits EXCEPT ![s][u] = @ - 1]
  BY DEF Slide
<1>3. /\ hits' \in [Scopes -> [Users -> Nat]]
      /\ \A t \in Scopes, v \in Users : hits'[t][v] <= hits[t][v]
  BY <1>1, <1>2 DEF LimiterOK, LimiterTypeOK
<1>4. \A t \in Scopes, v \in Users : hits'[t][v] <= Limits[t]
  BY <1>1, <1>3, RateLimitAssumption DEF LimiterOK, LimiterTypeOK
<1> QED  BY <1>1, <1>3, <1>4 DEF Slide, LimiterOK, LimiterTypeOK

\* The limiter's state when a check begins or ends.
LEMMA CheckReplaced ==
  ASSUME IInv, NEW r \in Requests, NEW y \in Check,
         check' = [check EXCEPT ![r] = y], UNCHANGED hits,
         y.pc \in {"hit", "stats"} => y.rule \in Scopes /\ y.user \in Users
  PROVE  LimiterOK'
<1>1. LimiterOK /\ LimiterTypeOK  BY RequestsConsistent DEF LimiterOK
<1>2. /\ check' \in [Requests -> Check] /\ check'[r] = y
      /\ \A q \in Requests \ {r} : check'[q] = check[q]
  BY <1>1, CheckStep
<1> QED  BY <1>1, <1>2 DEF LimiterOK, LimiterTypeOK

LEMMA UncheckedType == Unchecked \in Check /\ Unchecked.pc = "off"
BY DEF Unchecked, Check

LEMMA EnterStep ==
  ASSUME IInv, NEW r \in Requests, EnterHandler(r), LimiterOK',
         req[r].pc \in {"read_user", "limit"},
         UNCHANGED connections, UNCHANGED tempFiles
  PROVE  IInv'
<1> DEFINE x == [req[r] EXCEPT !.pc = "handler", !.user = NoUser]
<1>1. Consistent(req[r]) /\ req[r] \in Request
  BY RequestsConsistent DEF Consistent
<1>2. Become(r, x)  BY DEF EnterHandler
<1>3. /\ x \in Request /\ x.pc = "handler" /\ x.file = req[r].file
      /\ x.response = req[r].response /\ x.committed = req[r].committed
  BY <1>1 DEF Request
<1> HIDE DEF x
<1>4. Consistent(x) /\ x.response = 0
  BY <1>1, <1>3 DEF Consistent
<1>5. PoolUse(r, x) /\ FileUse(r, x)
  BY <1>3, <1>4 DEF PoolUse, FileUse, Waits, Uploading
<1> QED  BY <1>2, <1>4, <1>5, RequestStep

LEMMA RefreshUserStep ==
  ASSUME IInv, NEW r \in Requests, RefreshUser(r)
  PROVE  IInv'
<1>1. /\ Consistent(req[r]) /\ req[r] \in Request /\ req[r].pc = "read_user"
      /\ UNCHANGED connections /\ UNCHANGED tempFiles /\ UNCHANGED hits
  BY RequestsConsistent DEF Consistent, RefreshUser, At
<1>2. CASE UNCHANGED check /\ EnterHandler(r)
  <2>1. LimiterOK'  BY <1>1, <1>2, LimiterSame DEF limiterVars
  <2> QED  BY <1>1, <1>2, <2>1, EnterStep
<1>3. CASE /\ req[r].kind \in DOMAIN Limited
           /\ BeginCheck(r, Limited[req[r].kind], req[r].user)
           /\ Goto(r, "limit")
  <2> DEFINE s == Limited[req[r].kind]
             u == req[r].user
             x == [req[r] EXCEPT !.pc = "limit"]
  <2>1. s \in Scopes /\ u \in Users
    BY <1>1, <1>3, ApiRequestAssumption DEF Consistent
  <2> HIDE DEF s, u
  <2> DEFINE y == [Unchecked EXCEPT !.pc = "hit", !.rule = s, !.user = u]
  <2>2. y \in Check /\ y.rule = s /\ y.user = u
    BY <2>1 DEF Unchecked, Check
  <2>3. check' = [check EXCEPT ![r] = y]
    BY <1>3 DEF BeginCheck, s, u
  <2> HIDE DEF y
  <2>4. LimiterOK'
    BY <1>1, <2>1, <2>2, <2>3, CheckReplaced
  <2>5. Become(r, x)  BY <1>3 DEF Goto
  <2>6. /\ x \in Request /\ x.pc = "limit" /\ x.file = req[r].file
        /\ x.response = req[r].response /\ x.committed = req[r].committed
    BY <1>1 DEF Request
  <2> HIDE DEF x
  <2>7. Consistent(x) /\ x.response = 0
    BY <1>1, <2>6 DEF Consistent
  <2>8. PoolUse(r, x) /\ FileUse(r, x)
    BY <1>1, <2>6, <2>7 DEF PoolUse, FileUse, Waits, Uploading
  <2> QED  BY <2>4, <2>5, <2>7, <2>8, RequestStep
<1> QED  BY <1>2, <1>3 DEF RefreshUser

LEMMA ApplyRateLimitStep ==
  ASSUME IInv, NEW r \in Requests, ApplyRateLimit(r)
  PROVE  IInv'
<1>1. /\ req[r].pc = "limit" /\ req[r].committed = "nothing"
      /\ UNCHANGED <<hits, tempFiles>>
      /\ check' = [check EXCEPT ![r] = Unchecked]
  BY DEF ApplyRateLimit, At, IInv, CommittedLate, EndCheck
<1>2. LimiterOK'
  BY <1>1, UncheckedType, CheckReplaced
<1>3. CASE EnterHandler(r) /\ UNCHANGED connections
  BY <1>1, <1>2, <1>3, EnterStep DEF tempFiles
<1>4. CASE Raise(r, "RateLimitExceeded")
  <2>1. "RateLimitExceeded" \in DOMAIN ErrorStatus  BY ErrorStatuses
  <2> QED  BY <1>1, <1>2, <1>4, <2>1, RaiseStep DEF Uploading, tempFiles
<1> QED  BY <1>3, <1>4 DEF ApplyRateLimit

LEMMA IdleType ==
  /\ Idle \in Request /\ Idle.pc = "idle" /\ Idle.file = NoFile
  /\ Idle.committed = "nothing" /\ Idle.response = 0
BY DEF Idle, Request, Waits, Reads, Kinds, NoUser, NoFile

\* Nothing is in progress: initially, and after a crash.
LEMMA AtRest ==
  ASSUME req = [r \in Requests |-> Idle], check = [r \in Requests |-> Unchecked],
         connections = {}, lost = files, files \subseteq FileIds,
         hits \in [Scopes -> [Users -> Nat]],
         \A s \in Scopes, u \in Users : hits[s][u] <= Limits[s]
  PROVE  IInv
<1>1. IsFiniteSet(connections) /\ Cardinality(connections) <= PoolSize
  BY FS_EmptySet, ApiRequestAssumption
<1>2. LimiterTypeOK /\ req \in [Requests -> Request]
  BY IdleType, UncheckedType DEF LimiterTypeOK
<1>3. TypeOK /\ ConnectionsReturned
  BY <1>1, <1>2 DEF TypeOK, ConnectionsReturned
<1>4. FilesOfUploads /\ StatusTellsCommit
  BY IdleType DEF FilesOfUploads, StatusTellsCommit, At
<1>5. FileKept /\ CommittedLate /\ UserKnown
  BY IdleType, UncheckedType DEF FileKept, CommittedLate, UserKnown, Uploading, At
<1> QED  BY <1>1, <1>3, <1>4, <1>5 DEF IInv

LEMMA InitInvariant == Init => IInv
<1>1. ASSUME Init  PROVE \A s \in Scopes, u \in Users : hits[s][u] <= Limits[s]
  BY <1>1, RateLimitAssumption DEF Init, LimiterInit
<1>2. ASSUME Init  PROVE hits \in [Scopes -> [Users -> Nat]]
  BY <1>2 DEF Init, LimiterInit
<1> QED  BY <1>1, <1>2, AtRest DEF Init, LimiterInit

\* One step of a request.
LEMMA ProceedStep ==
  ASSUME IInv, NEW r \in Requests, Proceed(r)
  PROVE  IInv'
<1>1. CASE LookUpUser(r) \/ CommitUser(r) \/ Return(r)
  BY <1>1, UserSteps
<1>2. CASE Reconnect(r) \/ RefreshUser(r)
  BY <1>2, ReconnectStep, RefreshUserStep
<1>3. CASE Limiter(r)
  BY <1>3, LimiterStepOK, LimiterAlone DEF Limiter
<1>4. CASE ApplyRateLimit(r)
  BY <1>4, ApplyRateLimitStep
<1>5. CASE InvalidRequest(r) \/ NotFound(r) \/ InvalidUpload(r) \/ TooLarge(r)
           \/ ProviderFails(r)
  BY <1>5, EarlyErrors
<1>6. CASE RefreshFailed(r) \/ PoolTimeout(r) \/ Fail(r) \/ SpoolFails(r)
  BY <1>6, LateErrors
<1>7. CASE Read(r) \/ Answer(r) \/ Delete(r)
  BY <1>7, HandlerSteps
<1>8. CASE Spooled(r) \/ PdfFails(r) \/ Indexed(r) \/ RefreshDocument(r)
  BY <1>8, UploadSteps
<1>9. CASE CreateFile(r)
  BY <1>9, CreateFileStep
<1> QED
  BY <1>1, <1>2, <1>3, <1>4, <1>5, <1>6, <1>7, <1>8, <1>9 DEF Proceed, Depend, Handle

LEMMA CrashStep ==
  ASSUME IInv, Crash
  PROVE  IInv'
<1>1. /\ req' = [r \in Requests |-> Idle]
      /\ check' = [r \in Requests |-> Unchecked]
      /\ connections' = {} /\ lost' = files' /\ files' = files /\ hits' = hits
  BY DEF Crash
<1>2. /\ files' \subseteq FileIds
      /\ hits' \in [Scopes -> [Users -> Nat]]
      /\ \A s \in Scopes, u \in Users : hits'[s][u] <= Limits[s]
  BY <1>1 DEF IInv, TypeOK, LimiterTypeOK
<1>3. IsFiniteSet(connections') /\ Cardinality(connections') <= PoolSize
  BY <1>1, FS_EmptySet, ApiRequestAssumption
<1>4. LimiterTypeOK' /\ req' \in [Requests -> Request]
  BY <1>1, <1>2, IdleType, UncheckedType DEF LimiterTypeOK
<1>5. TypeOK' /\ ConnectionsReturned'
  BY <1>1, <1>2, <1>3, <1>4 DEF TypeOK, ConnectionsReturned
<1>6. FilesOfUploads' /\ StatusTellsCommit'
  BY <1>1, IdleType DEF FilesOfUploads, StatusTellsCommit, At
<1>7. FileKept' /\ CommittedLate' /\ UserKnown'
  BY <1>1, IdleType, UncheckedType
  DEF FileKept, CommittedLate, UserKnown, Uploading, At
<1> QED  BY <1>3, <1>5, <1>6, <1>7 DEF IInv

LEMMA StutterStep ==
  ASSUME IInv, UNCHANGED vars
  PROVE  IInv'
BY DEF IInv, TypeOK, LimiterTypeOK, ConnectionsReturned, FilesOfUploads,
   StatusTellsCommit, FileKept, CommittedLate, UserKnown, At, vars, limiterVars

LEMMA NextInvariant == IInv /\ [Next]_vars => IInv'
<1> SUFFICES ASSUME IInv, [Next]_vars  PROVE IInv'
  OBVIOUS
<1>1. ASSUME NEW r \in Requests, Arrive(r) \/ Proceed(r)  PROVE IInv'
  BY <1>1, ArriveStep, ProceedStep
<1>2. CASE Slide /\ UNCHANGED <<req, connections, tempFiles>>
  BY <1>2, SlideStep, LimiterAlone
<1>3. CASE Crash  BY <1>3, CrashStep
<1>4. CASE UNCHANGED vars  BY <1>4, StutterStep
<1> QED  BY <1>1, <1>2, <1>3, <1>4 DEF Next
-----------------------------------------------------------------------------
\* The invariant of the server: what every request has and has not at each of
\* its stages, whatever the others do.
THEOREM InvariantTheorem == Spec => []IInv
BY InitInvariant, NextInvariant, PTL DEF Spec

\* Every variable keeps its type, and the pool its bound.
THEOREM TypeTheorem == Spec => []TypeOK
<1>1. IInv => TypeOK  BY DEF IInv
<1> QED  BY <1>1, InvariantTheorem, PTL

\* get_db_session gives back its connection however the request ends, and
\* nobody waits for the pool while he has one.
THEOREM ConnectionsTheorem == Spec => []ConnectionsReturned
<1>1. IInv => ConnectionsReturned  BY DEF IInv
<1> QED  BY <1>1, InvariantTheorem, PTL

\* upload_document removes its temporary file, and no other upload's.
THEOREM FilesTheorem == Spec => []FilesOfUploads
<1>1. IInv => FilesOfUploads  BY DEF IInv
<1> QED  BY <1>1, InvariantTheorem, PTL

\* The exception handlers answer with a status that tells what is committed.
THEOREM StatusTheorem == Spec => []StatusTellsCommit
<1>1. IInv => StatusTellsCommit  BY DEF IInv
<1> QED  BY <1>1, InvariantTheorem, PTL

\* RateLimitService.hit refuses a request for its user's own hits only.
THEOREM RefusedOwnLimitTheorem == Spec => RefusedOwnLimit
<1> DEFINE Refusal ==
      \A r \in Requests :
        ~check[r].exceeded /\ check'[r].exceeded =>
          hits[check[r].rule][check[r].user] = Limits[check[r].rule]
<1>1. IInv /\ [Next]_vars => [Refusal]_limiterVars
  <2> SUFFICES ASSUME IInv, Next  PROVE Refusal
    BY DEF vars, limiterVars
  <2>0. LimiterTypeOK /\ LimiterOK
    BY RequestsConsistent DEF LimiterOK
  <2>1. ASSUME NEW r \in Requests, LimiterStep(r)  PROVE Refusal
    <3> DEFINE s == check[r].rule
               u == check[r].user
    <3>1. /\ \A q \in Requests \ {r} : check'[q] = check[q]
          /\ \/ check'[r].exceeded = check[r].exceeded
             \/ Hit(r) /\ check'[r].exceeded = Exceeds(s, u)
      BY <2>0, <2>1, CheckOfCall
    <3>2. ASSUME Hit(r), Exceeds(s, u)  PROVE hits[s][u] = Limits[s]
      <4>1. s \in Scopes /\ u \in Users
        BY <2>0, <3>2 DEF Hit, LimiterOK
      <4>2. hits[s][u] \in Nat /\ hits[s][u] <= Limits[s] /\ Limits[s] \in Nat
        BY <2>0, <4>1, RateLimitAssumption DEF LimiterTypeOK
      <4>3. hits[s][u] + 1 > Limits[s]
        BY <2>0, <3>2, <4>1, CountedOwn DEF Exceeds
      <4> QED  BY <4>2, <4>3
    <3> QED  BY <3>1, <3>2
  <2>2. CASE UNCHANGED check
    BY <2>2
  <2>3. ASSUME NEW r \in Requests, NEW y \in Check, ~y.exceeded,
               check' = [check EXCEPT ![r] = y]
        PROVE  Refusal
    BY <2>0, <2>3, CheckStep
  <2>4. ASSUME NEW r \in Requests, RefreshUser(r)  PROVE Refusal
    <3> DEFINE s == Limited[req[r].kind]
               y == [Unchecked EXCEPT !.pc = "hit", !.rule = s, !.user = req[r].user]
    <3>1. CASE UNCHANGED check  BY <2>2, <3>1
    <3>2. CASE /\ req[r].kind \in DOMAIN Limited
               /\ BeginCheck(r, s, req[r].user)
      <4>1. s \in Scopes /\ req[r].user \in Users
        BY <2>4, <3>2, ApiRequestAssumption DEF RefreshUser, At, IInv, UserKnown
      <4> HIDE DEF s
      <4>2. y \in Check /\ ~y.exceeded
        BY <4>1 DEF Unchecked, Check
      <4>3. check' = [check EXCEPT ![r] = y]
        BY <3>2 DEF BeginCheck
      <4> HIDE DEF y
      <4> QED  BY <4>2, <4>3, <2>3
    <3> QED  BY <2>4, <3>1, <3>2 DEF RefreshUser
  <2>5. ASSUME NEW r \in Requests, ApplyRateLimit(r)  PROVE Refusal
    <3>1. Unchecked \in Check /\ ~Unchecked.exceeded
      BY DEF Unchecked, Check
    <3> QED  BY <2>3, <2>5, <3>1 DEF ApplyRateLimit, EndCheck
  <2>6. CASE Crash
    BY <2>6 DEF Crash, Unchecked
  <2>7. ASSUME NEW r \in Requests, Arrive(r)  PROVE Refusal
    BY <2>2, <2>7 DEF Arrive, Unauthorized, Authorized, limiterVars
  <2>8. ASSUME NEW r \in Requests, Proceed(r)  PROVE Refusal
    <3>1. LimiterStep(r) \/ RefreshUser(r) \/ ApplyRateLimit(r) \/ UNCHANGED check
      BY <2>8 DEF Proceed, Depend, Handle, Limiter, limiterVars, LookUpUser,
         CommitUser, Reconnect, InvalidRequest, NotFound, Read, Answer, Delete, InvalidUpload,
         CreateFile, TooLarge, Spooled, PdfFails, Indexed, RefreshFailed,
         RefreshDocument, ProviderFails, PoolTimeout, Fail, SpoolFails, Return
    <3> QED  BY <3>1, <2>1, <2>2, <2>4, <2>5
  <2> QED  BY <2>2, <2>6, <2>7, <2>8 DEF Next, Slide
<1> QED  BY <1>1, InvariantTheorem, PTL DEF Spec, RefusedOwnLimit
=============================================================================

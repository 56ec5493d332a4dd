----------------------------- MODULE ApiRequest -----------------------------
(***************************************************************************)
(* A request from its arrival to its response: authentication, the user's  *)
(* row, the rate limit, the handler, and the exception handlers that turn  *)
(* errors into statuses.  Requests share the pool of database connections, *)
(* the windows of the rate limits and the directory of temporary files.    *)
(*                                                                         *)
(* What handlers do to documents and to the history is in DocumentIndex    *)
(* and AnswerService; here it is what they have committed, if anything.    *)
(***************************************************************************)
EXTENDS RateLimit

CONSTANTS
    RateLimitEnabled,  \* rate_limit_enabled of the settings
    PoolSize,  \* connections of the engine's pool, overflow included
    FileIds,   \* bound on the temporary files that exist at once
    MaxHits    \* bound on the hits in all windows together

\* the scope of the rule of each route that has one
Limited == [upload |-> "document_upload", search |-> "document_search",
            ask |-> "document_ask", history |-> "qa_history_read"]

ASSUME ApiRequestAssumption ==
    /\ RateLimitEnabled \in BOOLEAN
    /\ MaxHits \in Nat
    /\ PoolSize \in Nat \ {0}
    /\ FileIds \subseteq Nat \ {0}
    /\ 0 \notin Users
    /\ \A kind \in DOMAIN Limited : Limited[kind] \in Scopes

VARIABLES
    req,          \* the local state of each request
    connections,  \* the requests whose session has a connection
    files,        \* the temporary files on disk
    lost          \* those nobody will remove: the spool failed or the server

vars == <<limiterVars, req, connections, files, lost>>
tempFiles == <<files, lost>>

NoUser == 0
NoFile == 0

Kinds == DOMAIN Limited \cup {"read", "delete"}

\* status_code of the exceptions, and what no exception handler maps
ErrorStatus ==
    [InvalidUpload |-> 400, Unauthorized |-> 401, DocumentNotFound |-> 404,
     UploadTooLarge |-> 413, PdfProcessing |-> 422, RequestValidation |-> 422,
     RateLimitExceeded |-> 429, Internal |-> 500,
     ProviderError |-> 502, ProviderTimeout |-> 504]

Waits == {"lookup", "refresh_user", "refresh_document", "refresh_failed"}
\* the same with a connection, and the row asked for
Reads == {"read_user", "read_document", "read_failed"}
Request == [pc : Waits \cup Reads \cup {"idle", "user", "limit", "handler", "spool",
                                        "process", "reply"},
            kind : Kinds,
            user : Users \cup {NoUser},  \* until the limit is applied
            file : FileIds \cup {NoFile},
            committed : {"nothing", "document", "failed", "answer", "deletion"},
            response : Nat]  \* 0 until there is one
Idle == [pc |-> "idle", kind |-> "read", user |-> NoUser, file |-> NoFile,
         committed |-> "nothing", response |-> 0]

At(r, step) == req[r].pc = step
Handles(r, kinds) == At(r, "handler") /\ req[r].kind \in kinds
Become(r, x) == req' = [req EXCEPT ![r] = x]
Goto(r, step) == Become(r, [req[r] EXCEPT !.pc = step])

\* session.commit() and the exit of get_db_session: back to the pool
Release(r) == connections' = connections \ {r}

\* Defect: the session of a request that fails stays open.
RaiseUnclosed(r, error) ==
    /\ Become(r, [req[r] EXCEPT !.pc = "reply", !.response = ErrorStatus[error]])
    /\ UNCHANGED connections

\* The dependencies are closed before the exception handler answers.
Raise(r, error) ==
    /\ Become(r, [req[r] EXCEPT !.pc = "reply", !.user = NoUser,
                      !.file = NoFile, !.response = ErrorStatus[error]])
    /\ Release(r)

\* The response goes out before the dependencies are closed.
Reply(r, status) ==
    /\ Become(r, [req[r] EXCEPT !.pc = "reply", !.response = status])
    /\ UNCHANGED connections

Commit(r, what, step, status) ==
    /\ Become(r, [req[r] EXCEPT !.pc = step, !.committed = what,
                                !.response = status])
    /\ Release(r)

\* Defect: no unlink when an upload ends.
KeepFile(r) == UNCHANGED tempFiles

\* the finally of upload_document, and an upload found too large
RemoveFile(r) ==
    /\ files' = files \ {req[r].file}
    /\ UNCHANGED lost

\* a file may still be had by one more upload
MayUpload ==
    Cardinality(lost) + Cardinality({r \in Requests :
      ~At(r, "idle") /\ req[r].kind = "upload"}) < Cardinality(FileIds)

\* and one more hit be counted
MayHit ==
    Cardinality({h \in Scopes \X Users \X (1 .. MaxHits) : h[3] <= hits[h[1]][h[2]]})
      + Cardinality({r \in Requests :
          ~At(r, "idle") /\ req[r].kind \in DOMAIN Limited}) < MaxHits
-----------------------------------------------------------------------------
(* Dependencies: the API key, the user, the rate limit                     *)

\* verify_internal_api_key, and a Telegram id that is missing, not positive,
\* or not a number: nobody is looked up.
Unauthorized(r, kind) ==
    /\ At(r, "idle")
    /\ \E error \in {"Unauthorized", "RequestValidation"} :
         Become(r, [Idle EXCEPT !.pc = "reply", !.kind = kind,
                                !.response = ErrorStatus[error]])
    /\ UNCHANGED <<limiterVars, connections, tempFiles>>

Authorized(r, kind, user) ==
    /\ At(r, "idle")
    /\ kind = "upload" => MayUpload
    /\ kind \in DOMAIN Limited => MayHit
    /\ Become(r, [Idle EXCEPT !.pc = "lookup", !.kind = kind, !.user = user])
    /\ UNCHANGED <<limiterVars, connections, tempFiles>>

\* Defect: an engine whose pool has no bound.
ConnectUnbounded(r) == connections' = connections \cup {r}

\* A session without a connection asks the pool for one at its next statement.
Connect(r) ==
    /\ Cardinality(connections) < PoolSize
    /\ connections' = connections \cup {r}

\* get_by_telegram_user_id, and create if there is no row
LookUpUser(r) ==
    /\ At(r, "lookup")
    /\ Connect(r)
    /\ Goto(r, "user")
    /\ UNCHANGED <<limiterVars, tempFiles>>

CommitUser(r) ==
    /\ At(r, "user")
    /\ Release(r)
    /\ Goto(r, "refresh_user")
    /\ UNCHANGED <<limiterVars, tempFiles>>

\* The model does not follow the user into the handler.
EnterHandler(r) ==
    Become(r, [req[r] EXCEPT !.pc = "handler", !.user = NoUser])

\* session.refresh needs a connection again, which the request keeps from now on.
Reconnect(r) ==
    /\ Connect(r)
    /\ \/ At(r, "refresh_user") /\ Goto(r, "read_user")
       \/ At(r, "refresh_document") /\ Goto(r, "read_document")
       \/ At(r, "refresh_failed") /\ Goto(r, "read_failed")
    /\ UNCHANGED <<limiterVars, tempFiles>>

RefreshUser(r) ==
    /\ At(r, "read_user")
    /\ IF RateLimitEnabled /\ req[r].kind \in DOMAIN Limited
       THEN /\ BeginCheck(r, Limited[req[r].kind], req[r].user)
            /\ Goto(r, "limit")
       ELSE /\ UNCHANGED check
            /\ EnterHandler(r)
    /\ UNCHANGED <<hits, connections, tempFiles>>

ApplyRateLimit(r) ==
    /\ At(r, "limit")
    /\ check[r].pc = "done"
    /\ EndCheck(r)
    /\ IF check[r].allowed
       THEN EnterHandler(r) /\ UNCHANGED connections
       ELSE Raise(r, "RateLimitExceeded")
    /\ UNCHANGED <<hits, tempFiles>>

\* Body and path are validated last: the hit is counted all the same.
InvalidRequest(r) ==
    /\ Handles(r, Kinds \ {"history"})
    /\ Raise(r, "RequestValidation")
    /\ UNCHANGED <<limiterVars, tempFiles>>
-----------------------------------------------------------------------------
(* Handlers                                                                *)

NotFound(r) ==
    /\ Handles(r, {"read", "search", "ask", "delete"})
    /\ Raise(r, "DocumentNotFound")
    /\ UNCHANGED <<limiterVars, tempFiles>>

Read(r) ==
    /\ Handles(r, {"read", "search", "history"})
    /\ Reply(r, 200)
    /\ UNCHANGED <<limiterVars, tempFiles>>

Answer(r) ==
    /\ Handles(r, {"ask"})
    /\ Commit(r, "answer", "reply", 200)
    /\ UNCHANGED <<limiterVars, tempFiles>>

Delete(r) ==
    /\ Handles(r, {"delete"})
    /\ Commit(r, "deletion", "reply", 204)
    /\ UNCHANGED <<limiterVars, tempFiles>>

InvalidUpload(r) ==
    /\ Handles(r, {"upload"})
    /\ Raise(r, "InvalidUpload")
    /\ UNCHANGED <<limiterVars, tempFiles>>

CreateFile(r) ==
    /\ Handles(r, {"upload"})
    /\ \E f \in FileIds \ files :
         /\ files' = files \cup {f}
         /\ Become(r, [req[r] EXCEPT !.pc = "spool", !.file = f])
    /\ UNCHANGED <<limiterVars, connections, lost>>

TooLarge(r) ==
    /\ At(r, "spool")
    /\ RemoveFile(r)
    /\ Raise(r, "UploadTooLarge")
    /\ UNCHANGED limiterVars

Spooled(r) ==
    /\ At(r, "spool")
    /\ Goto(r, "process")
    /\ UNCHANGED <<limiterVars, connections, tempFiles>>

\* The PDF cannot be used: its row is kept, and read again before the 422.
PdfFails(r) ==
    /\ At(r, "process")
    /\ Commit(r, "failed", "refresh_failed", 0)
    /\ UNCHANGED <<limiterVars, tempFiles>>

RefreshFailed(r) ==
    /\ At(r, "read_failed")
    /\ RemoveFile(r)
    /\ Raise(r, "PdfProcessing")
    /\ UNCHANGED limiterVars

Indexed(r) ==
    /\ At(r, "process")
    /\ Commit(r, "document", "refresh_document", 0)
    /\ UNCHANGED <<limiterVars, tempFiles>>

RefreshDocument(r) ==
    /\ At(r, "read_document")
    /\ RemoveFile(r)
    /\ Become(r, [req[r] EXCEPT !.pc = "reply", !.file = NoFile, !.response = 201])
    /\ UNCHANGED <<limiterVars, connections>>

\* Defect: the row is committed before its chunks are indexed.
ProviderFailsCommitted(r) ==
    /\ At(r, "process")
    /\ RemoveFile(r)
    /\ Commit(r, "document", "reply", ErrorStatus["ProviderError"])
    /\ UNCHANGED limiterVars

\* An embedding, of chunks or of a question, or the LLM
ProviderFails(r) ==
    /\ At(r, "process") \/ Handles(r, {"search", "ask"})
    /\ RemoveFile(r)
    /\ Raise(r, "ProviderError") \/ Raise(r, "ProviderTimeout")
    /\ UNCHANGED limiterVars
-----------------------------------------------------------------------------
(* Failures                                                                *)

\* Defect: an engine whose pool has no timeout.
WaitForPool(r) ==
    /\ req[r].pc \in Waits
    /\ Cardinality(connections) = PoolSize
    /\ UNCHANGED vars

\* No connection within the timeout of the pool.
PoolTimeout(r) ==
    /\ req[r].pc \in Waits
    /\ Cardinality(connections) = PoolSize
    /\ RemoveFile(r)
    /\ Raise(r, "Internal")
    /\ UNCHANGED limiterVars

\* Anything else: the database, Qdrant, a lost race for a unique value.
Fail(r) ==
    /\ req[r].pc \in Waits \cup Reads \cup {"user", "handler", "process"}
    /\ RemoveFile(r)
    /\ Raise(r, "Internal")
    /\ UNCHANGED limiterVars

\* Reading the upload or writing the file: the handler's finally is not yet
\* entered, and the file stays.
SpoolFails(r) ==
    /\ At(r, "spool")
    /\ lost' = lost \cup {req[r].file}
    /\ Raise(r, "Internal")
    /\ UNCHANGED <<limiterVars, files>>

\* The response is out and the session is closed.
Return(r) ==
    /\ At(r, "reply")
    /\ Become(r, Idle)
    /\ Release(r)
    /\ UNCHANGED <<limiterVars, tempFiles>>

Crash ==
    /\ req' = [r \in Requests |-> Idle]
    /\ check' = [r \in Requests |-> Unchecked]
    /\ connections' = {}
    /\ lost' = files
    /\ UNCHANGED <<hits, files>>

Limiter(r) == LimiterStep(r) /\ UNCHANGED <<req, connections, tempFiles>>

Arrive(r) ==
    \E kind \in Kinds :
      Unauthorized(r, kind) \/ \E user \in Users : Authorized(r, kind, user)

Depend(r) ==
    \/ LookUpUser(r) \/ CommitUser(r)
    \/ Reconnect(r) \/ RefreshUser(r)
    \/ Limiter(r) \/ ApplyRateLimit(r) \/ InvalidRequest(r)

Handle(r) ==
    \/ NotFound(r) \/ Read(r) \/ Answer(r) \/ Delete(r) \/ InvalidUpload(r)
    \/ CreateFile(r) \/ TooLarge(r) \/ Spooled(r) \/ PdfFails(r) \/ Indexed(r)
    \/ RefreshFailed(r) \/ RefreshDocument(r) \/ ProviderFails(r)

Proceed(r) ==
    Depend(r) \/ Handle(r) \/ PoolTimeout(r) \/ Fail(r) \/ SpoolFails(r) \/ Return(r)

Init ==
    /\ LimiterInit
    /\ req = [r \in Requests |-> Idle]
    /\ connections = {} /\ files = {} /\ lost = {}

Next ==
    \/ \E r \in Requests : Arrive(r) \/ Proceed(r)
    \/ Slide /\ UNCHANGED <<req, connections, tempFiles>>
    \/ Crash

Spec == Init /\ [][Next]_vars

\* the steps for which nothing outside the server has to answer
Alone(r) ==
    \/ LookUpUser(r) \/ Reconnect(r) \/ PoolTimeout(r)
    \/ ApplyRateLimit(r)
    \/ CreateFile(r) \/ TooLarge(r) \/ Spooled(r) \/ SpoolFails(r)
    \/ Return(r)

\* The event loop runs every request and the pool times out.  Redis and the
\* statements of PostgreSQL have no timeout, and a provider need not be quick.
FairSpec == Spec /\ \A r \in Requests : WF_vars(Alone(r))
-----------------------------------------------------------------------------
\* The variables keep to their types.
TypeOK ==
    /\ LimiterTypeOK
    /\ req \in [Requests -> Request]
    /\ connections \subseteq Requests
    /\ Cardinality(connections) <= PoolSize
    /\ lost \subseteq files /\ files \subseteq FileIds

\* However a request ends, its connection is back in the pool before the
\* next one begins; who waits for the pool has no connection others wait for,
\* and neither has an error on its way to a slow client.
ConnectionsReturned ==
    \A r \in connections :
      /\ req[r].pc \notin Waits \cup {"idle"}
      /\ req[r].response < 400

\* A temporary file is the file of one upload in progress, and there as long
\* as it is processed; only a failed spool and a crash leave files behind.
FilesOfUploads ==
    /\ files \ lost \subseteq {req[r].file : r \in Requests}
    /\ \A r \in Requests : At(r, "process") => req[r].file \in files \ lost
    /\ \A r, q \in Requests : r # q /\ req[r].file = req[q].file => req[r].file = NoFile

\* The status tells what was committed, so that a client may repeat what was
\* refused or failed at a provider; of a 500 it can tell nothing.
StatusTellsCommit ==
    \A r \in Requests :
      LET status == req[r].response
          committed == req[r].committed
      IN /\ status \in {400, 401, 404, 413, 429, 502, 504} => committed = "nothing"
         /\ status = 422 => committed \in {"nothing", "failed"}
         /\ status = 201 => committed = "document"
         /\ status = 204 => committed = "deletion"
         /\ status = 200 /\ req[r].kind = "ask" => committed = "answer"

\* A request that never ends has a connection, and so waits for Redis, PostgreSQL
\* or a provider that does not answer: while these keep all connections, the
\* others get one in the end or an error, on every way through the pool.
WaitersServed ==
    \A r \in Requests : <>[]~At(r, "idle") => <>[](r \in connections)
-----------------------------------------------------------------------------
(* Why they hold                                                           *)

\* Only uploads from their spool to their end have a file, and it exists.
Uploading == {"spool", "process", "refresh_document", "refresh_failed",
              "read_document", "read_failed"}
FileKept ==
    \A r \in Requests :
      IF req[r].pc \in Uploading
      THEN req[r].file \in files \ lost
      ELSE req[r].file = NoFile

\* Handlers commit at their end, uploads before they read the row again.
CommittedLate ==
    \A r \in Requests :
      /\ ~At(r, "reply") => req[r].response = 0
      /\ IF req[r].pc \in {"refresh_document", "read_document"}
         THEN req[r].committed = "document"
         ELSE IF req[r].pc \in {"refresh_failed", "read_failed"}
         THEN req[r].committed = "failed"
         ELSE At(r, "reply") \/ req[r].committed = "nothing"

\* Who is limited is a user, and the rule has a scope.
UserKnown ==
    \A r \in Requests :
      /\ req[r].pc \in {"lookup", "user", "refresh_user", "read_user"} =>
           req[r].user \in Users
      /\ check[r].pc \in {"hit", "stats"} =>
           check[r].rule \in Scopes /\ check[r].user \in Users

\* The inductive invariant: types, the properties, and what each stage of a
\* request has and has not yet.
IInv ==
    /\ TypeOK /\ IsFiniteSet(connections)
    /\ ConnectionsReturned /\ FilesOfUploads /\ StatusTellsCommit
    /\ FileKept /\ CommittedLate /\ UserKnown
=============================================================================

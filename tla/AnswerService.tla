--------------------------- MODULE AnswerService ---------------------------
(***************************************************************************)
(* Questions and the history of their answers: retrieve, generate, verify, *)
(* record, beside uploads and deletes of the documents asked about.  Two   *)
(* calls of an LLM lie between the look at the document and the row of     *)
(* qa_history that refers to it.                                           *)
(*                                                                         *)
(* The documents are those of DocumentLibrary, which DocumentIndex         *)
(* implements; what is below that promise (points, embeddings) is left     *)
(* out.  A delete locks rows of history and of the document in an order    *)
(* that depends on what it has loaded, an INSERT that refers to a document *)
(* shares the lock of its row: they wait for each other, and deletes may   *)
(* wait in a ring, which PostgreSQL breaks.                                *)
(***************************************************************************)
EXTENDS DocumentLibrary, Integers, FiniteSets

CONSTANTS
    Requests,     \* slots of requests the server handles concurrently
    NoOwner,      \* the owner of an idle slot
    MaxHistoryId  \* bound on qa_history.id, an unbounded sequence in the code

ASSUME AnswerServiceAssumption ==
    /\ 0 \notin DocumentIds  \* see NoDocument
    /\ NoOwner \notin Owners
    /\ MaxHistoryId \in Nat

VARIABLES
    history,      \* committed rows of qa_history
    nextHistory,  \* next value of the sequence behind qa_history.id
    req           \* the local state of each request

vars == <<shelf, spent, history, nextHistory, req>>

NoDocument == 0  \* document_id=None: a question to all the owner's documents
NoAnswer == "no_answer"  \* NO_USER_ANSWER_FOUND or NO_DOCUMENT_ANSWER_FOUND
\* what the LLM says: an answer, that it found none, or nothing at all
Completions == {"answer", "abstention", "empty"}
Answers == Completions \cup {NoAnswer}
Verdicts == {"supported", "unsupported"}

HistoryRow == [id : Nat \ {0}, user_id : Owners,
               document_id : DocumentIds \cup {NoDocument},
               answer : Answers, verification_verdict : Verdicts]

Steps == {"idle", "retrieve", "generate", "verify", "record", "flushed",
          "delete", "flush", "deleting", "deleted", "reply"}
Request == [pc : Steps,
            owner : Owners \cup {NoOwner},
            document : DocumentIds \cup {NoDocument},
            found : SUBSET ChunkIds,   \* the chunks retrieved
            answer : Answers,
            status : {"answered", "not_found"},
            verdict : Verdicts,
            row : Nat,                 \* id of the row of qa_history
            loaded : SUBSET Nat,       \* rows of qa_history a delete has yet to delete
            locked : SUBSET Nat,       \* rows of qa_history it has deleted
            response : {"none", "answer", "deleted", "no_document", "failed"}]
Idle == [pc |-> "idle", owner |-> NoOwner, document |-> NoDocument,
         found |-> {}, answer |-> NoAnswer, status |-> "not_found",
         verdict |-> "unsupported", row |-> 0, loaded |-> {}, locked |-> {},
         response |-> "none"]

At(r, step) == req[r].pc = step
Become(r, x) == req' = [req EXCEPT ![r] = x]
Goto(r, step) == Become(r, [req[r] EXCEPT !.pc = step])
\* before it replies, a request has committed or rolled back: its locks are free
Reply(r, response) ==
    Become(r, [req[r] EXCEPT !.pc = "reply", !.locked = {}, !.response = response])

\* Defect: the session stays open, and the rows it has deleted stay locked.
DropUnclosed(r) == Become(r, [Idle EXCEPT !.locked = req[r].locked])
Drop(r) == Become(r, Idle)

\* get_owned_by_id: the row, whose owner must be the one who asks
Owned(o, d) == \E v \in shelf : v.id = d /\ v.owner_id = o

\* the chunks a search of r may return
Searchable(r) ==
    UNION {v.searchable : v \in {u \in shelf :
             /\ u.owner_id = req[r].owner
             /\ req[r].document \in {NoDocument, u.id}}}

\* slots that may still take a value of qa_history.id
Asking == {r \in Requests :
             req[r].pc \in {"retrieve", "generate", "verify", "record"}}
MayAsk == nextHistory + Cardinality(Asking) <= MaxHistoryId

\* the rows of history about d, committed ones
HistoryOf(d) == {h.id : h \in {g \in history : g.document_id = d}}

\* r has deleted the row of d and not committed
DeletePending(r, d) ==
    req[r].pc \in {"deleting", "deleted"} /\ req[r].document = d /\ OnShelf(d)

\* r has inserted a row that refers to the row of d and not committed
RefersTo(r, d) == At(r, "flushed") /\ req[r].document = d

\* the flush deletes the rows that were loaded in the order of their ids
NextLoaded(r) == {id \in req[r].loaded : \A other \in req[r].loaded : id <= other}

\* r waits for a lock that q holds: of the document it refers to, of the next
\* loaded row, of the document after these, of the rows the cascade finds
Waits(r, q) ==
    LET d == req[r].document IN
    /\ q # r
    /\ \/ At(r, "record") /\ DeletePending(q, d)
       \/ At(r, "flush") /\ NextLoaded(r) \cap req[q].locked # {}
       \/ At(r, "flush") /\ req[r].loaded = {} /\ (DeletePending(q, d) \/ RefersTo(q, d))
       \/ At(r, "deleting") /\ HistoryOf(d) \cap req[q].locked # {}
Granted(r) == \A q \in Requests : ~Waits(r, q)

\* r is one of a ring of requests that wait for each other
Deadlocked(r) ==
    \E ring \in SUBSET Requests :
      /\ r \in ring
      /\ \A q \in ring : (\E p \in ring : Waits(q, p)) /\ (\E p \in ring : Waits(p, q))
-----------------------------------------------------------------------------
(* The documents, as DocumentIndex lets others see them                    *)

\* Defect: the id of a deleted document is given to a new one.
UploadReusingIds(o) ==
    /\ \E d \in DocumentIds, ids \in SUBSET ChunkIds \ {{}} :
         /\ ~OnShelf(d)
         /\ shelf' = shelf \cup {[id |-> d, owner_id |-> o,
                                  status |-> "processed", searchable |-> ids]}
         /\ spent' = spent \cup {d}
    /\ UNCHANGED <<history, nextHistory, req>>

UploadDocument(o) ==
    /\ \E d \in DocumentIds :
         \/ \E ids \in SUBSET ChunkIds : Publish(d, o, ids)
         \/ RecordFailure(d, o)
    /\ UNCHANGED <<history, nextHistory, req>>

\* an upload that ends before its COMMIT
UploadRolledBack ==
    /\ \E d \in DocumentIds : Forfeit({d})
    /\ UNCHANGED <<history, nextHistory, req>>

DeleteDocument(r, o, d) ==
    /\ At(r, "idle")
    /\ Owned(o, d)
    /\ Become(r, [Idle EXCEPT !.pc = "delete", !.owner = o, !.document = d])
    /\ UNCHANGED <<shelf, spent, history, nextHistory>>

\* session.delete reads the rows that go with the document.
LoadHistory(r) ==
    /\ At(r, "delete")
    /\ Become(r, [req[r] EXCEPT !.pc = "flush", !.loaded = HistoryOf(req[r].document)])
    /\ UNCHANGED <<shelf, spent, history, nextHistory>>

\* The flush begins with them; one that is gone already locks nothing.
DeleteHistory(r) ==
    /\ At(r, "flush") /\ req[r].loaded # {} /\ Granted(r)
    /\ Become(r, [req[r] EXCEPT
         !.loaded = @ \ NextLoaded(r),
         !.locked = @ \cup (NextLoaded(r) \cap HistoryOf(req[r].document))])
    /\ UNCHANGED <<shelf, spent, history, nextHistory>>

\* The row of the document comes after them.
DeleteFlush(r) ==
    /\ At(r, "flush") /\ req[r].loaded = {} /\ Granted(r)
    /\ Goto(r, "deleting")
    /\ UNCHANGED <<shelf, spent, history, nextHistory>>

\* ON DELETE CASCADE takes the rows that were committed since the load, one
\* after the other as they become free.
Cascade(r) ==
    LET rest == HistoryOf(req[r].document) \ req[r].locked
        free == {id \in rest : \A q \in Requests \ {r} : id \notin req[q].locked}
    IN
    /\ At(r, "deleting")
    /\ rest = {} \/ free # {}
    /\ Become(r, [req[r] EXCEPT
         !.pc = IF free = rest THEN "deleted" ELSE "deleting",
         !.locked = @ \cup free])
    /\ UNCHANGED <<shelf, spent, history, nextHistory>>

\* A row that a concurrent delete has removed already is not an error.
Remove(d) ==
    /\ shelf' = {v \in shelf : v.id # d}
    /\ history' = {h \in history : h.document_id # d}

DeleteCommit(r) ==
    /\ At(r, "deleted")
    /\ Remove(req[r].document)
    /\ Reply(r, "deleted")
    /\ UNCHANGED <<spent, nextHistory>>

\* deleted in PostgreSQL, and the answer lost
DeleteLost(r) ==
    /\ At(r, "deleted")
    /\ Remove(req[r].document)
    /\ Drop(r)
    /\ UNCHANGED <<spent, nextHistory>>
-----------------------------------------------------------------------------
(* Questions                                                               *)

AskDocuments(r, o) ==
    /\ At(r, "idle") /\ MayAsk
    /\ Become(r, [Idle EXCEPT !.pc = "retrieve", !.owner = o])
    /\ UNCHANGED <<shelf, spent, history, nextHistory>>

AskDocument(r, o, d) ==
    /\ At(r, "idle") /\ MayAsk
    /\ Owned(o, d)
    /\ Become(r, [Idle EXCEPT !.pc = "retrieve", !.owner = o, !.document = d])
    /\ UNCHANGED <<shelf, spent, history, nextHistory>>

\* DocumentNotFoundError, of a question or of a delete
NotFound(r, o, d) ==
    /\ At(r, "idle")
    /\ ~Owned(o, d)
    /\ Become(r, [Idle EXCEPT !.pc = "reply", !.owner = o,
                              !.response = "no_document"])
    /\ UNCHANGED <<shelf, spent, history, nextHistory>>

\* Defect: the LLM is asked whether anything was found or not.
RetrieveUnchecked(r) ==
    /\ At(r, "retrieve")
    /\ \E found \in SUBSET Searchable(r) :
         Become(r, [req[r] EXCEPT !.found = found, !.pc = "generate"])
    /\ UNCHANGED <<shelf, spent, history, nextHistory>>

\* Without a chunk nobody is asked: the answer is the constant, unsupported.
Retrieve(r) ==
    /\ At(r, "retrieve")
    /\ \E found \in SUBSET Searchable(r) :
         Become(r, [req[r] EXCEPT
           !.found = found,
           !.pc = IF found = {} THEN "record" ELSE "generate"])
    /\ UNCHANGED <<shelf, spent, history, nextHistory>>

\* is_no_answer_text reads the status off the text of the answer.
Generate(r) ==
    /\ At(r, "generate")
    /\ \E answer \in Completions :
         Become(r, [req[r] EXCEPT
           !.pc = "verify", !.answer = answer,
           !.status = IF answer = "abstention" THEN "not_found" ELSE "answered"])
    /\ UNCHANGED <<shelf, spent, history, nextHistory>>

\* Defect: the verifier's text is taken for the verdict.
VerifyUnparsed(r) ==
    /\ At(r, "verify")
    /\ \E reply \in Verdicts \cup {"invalid"} :
         Become(r, [req[r] EXCEPT !.pc = "record", !.verdict = reply])
    /\ UNCHANGED <<shelf, spent, history, nextHistory>>

\* parse_verification_result: what is not a verdict in valid JSON is none.
Verify(r) ==
    /\ At(r, "verify")
    /\ \E reply \in Verdicts \cup {"invalid"} :
         Become(r, [req[r] EXCEPT
           !.pc = "record",
           !.verdict = IF reply = "supported" THEN reply ELSE "unsupported"])
    /\ UNCHANGED <<shelf, spent, history, nextHistory>>

\* Defect: no foreign key from qa_history to documents.
RecordUnchecked(r) ==
    /\ At(r, "record")
    /\ Become(r, [req[r] EXCEPT !.pc = "flushed", !.row = nextHistory])
    /\ nextHistory' = nextHistory + 1
    /\ UNCHANGED <<shelf, spent, history>>

\* The INSERT waits for a delete of its document and raises IntegrityError if
\* the document is gone, which no handler maps: the client is told 500.
Record(r) ==
    /\ At(r, "record") /\ Granted(r)
    /\ IF req[r].document = NoDocument \/ OnShelf(req[r].document)
       THEN Become(r, [req[r] EXCEPT !.pc = "flushed", !.row = nextHistory])
       ELSE Reply(r, "failed")
    /\ nextHistory' = nextHistory + 1
    /\ UNCHANGED <<shelf, spent, history>>

\* Defect: the answer is returned without a COMMIT.
StoreNothing(r) == UNCHANGED history

Store(r) ==
    history' = history \cup
      {[id |-> req[r].row, user_id |-> req[r].owner,
        document_id |-> req[r].document, answer |-> req[r].answer,
        verification_verdict |-> req[r].verdict]}

CommitAnswer(r) ==
    /\ At(r, "flushed")
    /\ Store(r)
    /\ Reply(r, "answer")
    /\ UNCHANGED <<shelf, spent, nextHistory>>

\* recorded, and the answer lost
CommitAnswerLost(r) ==
    /\ At(r, "flushed")
    /\ Store(r)
    /\ Drop(r)
    /\ UNCHANGED <<shelf, spent, nextHistory>>
-----------------------------------------------------------------------------
Return(r) ==
    /\ At(r, "reply")
    /\ Drop(r)
    /\ UNCHANGED <<shelf, spent, history, nextHistory>>

\* A provider or the database fails: the session is closed and rolls back.
Abort(r) ==
    /\ req[r].pc \notin {"idle", "reply"}
    /\ Drop(r)
    /\ UNCHANGED <<shelf, spent, history, nextHistory>>

\* PostgreSQL ends a transaction of a ring with an error: a 500.
Deadlock(r) ==
    /\ Deadlocked(r)
    /\ Drop(r)
    /\ UNCHANGED <<shelf, spent, history, nextHistory>>

Crash ==
    /\ req' = [r \in Requests |-> Idle]
    /\ UNCHANGED <<shelf, spent, history, nextHistory>>

Arrive(r, o) ==
    \/ AskDocuments(r, o)
    \/ \E d \in DocumentIds :
         AskDocument(r, o, d) \/ DeleteDocument(r, o, d) \/ NotFound(r, o, d)

\* the steps that wait for locks
Lock(r) == Record(r) \/ DeleteHistory(r) \/ DeleteFlush(r) \/ Cascade(r)

Proceed(r) ==
    \/ Retrieve(r) \/ Generate(r) \/ Verify(r)
    \/ CommitAnswer(r) \/ CommitAnswerLost(r)
    \/ LoadHistory(r) \/ DeleteCommit(r) \/ DeleteLost(r)
    \/ Return(r)

Init ==
    /\ LibraryInit
    /\ history = {} /\ nextHistory = 1
    /\ req = [r \in Requests |-> Idle]

Next ==
    \/ \E r \in Requests :
         (\E o \in Owners : Arrive(r, o)) \/ Proceed(r) \/ Lock(r) \/ Abort(r) \/ Deadlock(r)
    \/ \E o \in Owners : UploadDocument(o)
    \/ UploadRolledBack
    \/ Crash

Spec == Init /\ [][Next]_vars

\* The event loop runs every request, providers answer or time out, and
\* PostgreSQL serves those that wait for a row in turn and looks for rings.
FairSpec ==
    /\ Spec
    /\ \A r \in Requests : WF_vars(Proceed(r)) /\ SF_vars(Lock(r))
    /\ WF_vars(\E r \in Requests : Deadlock(r))
-----------------------------------------------------------------------------
(* What the service promises                                               *)

\* The variables keep to their types.
TypeOK ==
    /\ shelf \subseteq Volume
    /\ spent \subseteq DocumentIds
    /\ history \subseteq HistoryRow
    /\ nextHistory \in Nat \ {0}
    /\ req \in [Requests -> Request]

\* To its users the service is the book of AnswerBook: history grows by one
\* answer at a time, about a document that exists and is the asker's own at
\* that very step, no answer is changed or lost, and those about a document go
\* with it, although deletes and uploads interleave with the LLM calls between
\* the check of the owner and the INSERT.
Book == INSTANCE AnswerBook WITH book <- history
ImplementsBook == Book!BookSpec

\* An answer a user was given is in the user's history, with the verdict the
\* user was given, once; it leaves history with its document only.
AnswersRecorded ==
    /\ \A r \in Requests : req[r].response = "answer" =>
         \/ \E h \in history :
              /\ h.id = req[r].row /\ h.user_id = req[r].owner
              /\ h.document_id = req[r].document /\ h.answer = req[r].answer
              /\ h.verification_verdict = req[r].verdict
         \/ req[r].document # NoDocument /\ ~OnShelf(req[r].document)
    /\ \A h1, h2 \in history : h1.id = h2.id => h1 = h2

\* No verdict "supported" without retrieved chunks, in answers or in history:
\* the constant answer is never supported, nor an answer from nothing.
SupportedByContext ==
    /\ \A r \in Requests : req[r].verdict = "supported" => req[r].found # {}
    /\ \A h \in history : h.answer = NoAnswer => h.verification_verdict = "unsupported"

\* The 500 at the end of a question means that its document was deleted while
\* the LLM worked; as ids are not reused, the same question again is a 404.
FailedMeansDeleted ==
    \A r \in Requests : req[r].response = "failed" =>
      req[r].document # NoDocument /\ ~OnShelf(req[r].document)

\* Questions and deletes that wait for each other's rows come to an end, two
\* deletes also when each has the row the other one needs: a delete that had
\* loaded an answer holds its row and wants the document, one that had loaded
\* the document before that answer holds the document and wants the row.
Served ==
    \A r \in Requests : ~At(r, "idle") ~> At(r, "idle")
-----------------------------------------------------------------------------
(* Why they hold                                                           *)

\* What history shows of a document question is about a document that exists
\* and is the user's own.
HistoryOwned ==
    \A h \in history : h.document_id # NoDocument =>
      Owned(h.user_id, h.document_id)

\* one volume per id, and no id free for another
ShelfApart ==
    /\ \A v \in shelf : v.id \in spent
    /\ \A v, w \in shelf : v.id = w.id => v = w

\* rows of history, committed or not, have ids of their own
RowsApart ==
    /\ \A h \in history : h.id < nextHistory
    /\ \A r \in Requests : At(r, "flushed") =>
         /\ 0 < req[r].row /\ req[r].row < nextHistory
         /\ \A h \in history : h.id # req[r].row
         /\ \A q \in Requests \ {r} : At(q, "flushed") => req[q].row # req[r].row

Deleting == {"delete", "flush", "deleting", "deleted"}

\* the document of a request was the asker's and can be nobody else's
AskedOwn ==
    \A r \in Requests :
      /\ req[r].pc \notin {"idle", "reply"} => req[r].owner \in Owners
      /\ req[r].pc \in Deleting => req[r].document # NoDocument
      /\ req[r].document # NoDocument =>
           /\ req[r].document \in spent
           /\ \A v \in shelf : v.id = req[r].document => v.owner_id = req[r].owner

\* the locks: a row referred to is not deleted, a row deleted is not referred to
LocksHeld ==
    \A r \in Requests : At(r, "flushed") /\ req[r].document # NoDocument =>
      /\ OnShelf(req[r].document)
      /\ \A q \in Requests : ~DeletePending(q, req[r].document)

\* rows of history are locked by deletes alone, from their flush on
DeletesLock ==
    \A r \in Requests :
      req[r].locked # {} => req[r].pc \in {"flush", "deleting", "deleted"}

\* PostgreSQL never ends a question to break a ring, nor a delete that has all
\* it needs: a question that holds a lock waits for nothing but its COMMIT.
QuestionsNotDeadlocked ==
    \A r \in Requests : Deadlocked(r) => req[r].pc \in {"flush", "deleting"}

\* a verdict is reached only after something was found
VerdictLate ==
    \A r \in Requests :
      /\ req[r].pc \in {"generate", "verify"} => req[r].found # {}
      /\ At(r, "retrieve") \/ req[r].answer = NoAnswer
           => req[r].verdict = "unsupported"
      /\ ~At(r, "reply") => req[r].response = "none"
      /\ At(r, "verify") => req[r].answer # NoAnswer

\* The inductive invariant: what spent ids, the sequence of history, the foreign
\* key and the row locks guarantee, beside the properties.
IInv ==
    /\ TypeOK
    /\ AnswersRecorded /\ SupportedByContext /\ FailedMeansDeleted
    /\ HistoryOwned /\ ShelfApart /\ RowsApart /\ AskedOwn /\ LocksHeld
    /\ DeletesLock /\ VerdictLate
=============================================================================

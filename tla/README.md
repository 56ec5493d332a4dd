# agentic-doc-rag in TLA+

A verification project for the backend and the Telegram bot of agentic-doc-rag:
TLA+ models of its components, TLC runs on small instances, and theorems checked
by TLAPS for every value of the constants. Source paths are relative to the
repository root; `src/agentic_rag/` is left out of them.

## 1. The system

A FastAPI process (`api/`) serves a trusted HTTP client, the aiogram bot (`bot/`).
Every HTTP request gets its own SQLAlchemy session (`db/session.py`), i.e. one
connection of a pool and one PostgreSQL transaction at a time, and runs as one
coroutine: other requests run whenever it awaits PostgreSQL, Qdrant, Redis or the
OpenAI-compatible provider. Nothing else is shared inside the process.

| Component | State | Operations | Talks to |
|---|---|---|---|
| Document store: `services/document.py`, `services/indexing.py`, `services/retrieval.py`, `vectorstores/qdrant.py`, `repositories/document.py`, `repositories/chunk.py` | rows of `documents` and `document_chunks`, points of one Qdrant collection | upload, delete, search of one or of all documents | PostgreSQL, Qdrant, embedding provider |
| Text chunking: `services/chunk.py`, `services/pdf.py` | none that outlives a call | split the text of each page into overlapping windows | called by upload |
| Users: `services/user.py`, `repositories/user.py` | rows of `users` | find or create the Telegram user of a request, on every request | PostgreSQL |
| Question answering: `services/answer.py`, `services/verification.py`, `services/llm.py`, `services/qa_history.py`, `repositories/qa_history.py` | rows of `qa_history` | ask one or all documents, list the history | document store, LLM provider |
| Rate limiting: `rate_limit/` | counters in Redis, per user and scope | admit or refuse a request | Redis |
| Request dependencies and errors: `api/deps.py`, `api/main.py`, `core/exceptions.py` | none | API key, user, rate limit, handler, in this order; error to status code | all of the above |
| Upload files: `api/upload.py` | a temporary file | spool, check the size, remove | upload handler |
| Connection pool: `db/session.py` | connections | a session takes one at its first statement and keeps it until commit, rollback or close | PostgreSQL |
| Bot sessions: `bot/handlers.py`, `bot/client.py` | per chat: active document, last answer, in memory | thirteen handlers, of which several may run at once for one user | API, Telegram |
| Telegram texts: `bot/formatters.py` | none | split and truncate texts at 4096 characters | called by handlers |

What is hard here:

- PostgreSQL and Qdrant share no transaction. Points are written before the rows
  are committed and never removed, so rollbacks and deletes leave stale points
  (`services/document.py:93`, `:46`).
- A request can be cut off at every await; its Qdrant write may still be applied
  later; its commit may succeed and the answer be lost (`services/document.py:101`).
- Two requests of one new user may both try to create it (`services/user.py:18`).
- A question reads chunks, awaits two LLM answers and only then writes its history
  row, for a document that may be gone (`services/answer.py:96`).
- The rate limiter counts a hit and reads the window in two calls and fails open
  (`rate_limit/service.py:76`).
- The bot gives up after 60 s while the backend goes on (`bot/client.py:87`), and its
  handlers read the chat state before an await and write it after.

What makes each component correct, in a sentence each: the document store shows
documents whole, complete and to their owner only; chunking loses no text and ends;
there is one user per Telegram id and a request never acts as another; an answer is
recorded with the verdict on that very answer; no more than the limit is admitted
while Redis answers; a temporary file does not outlive its request; a request
waiting for a connection gets one or an error; the bot asks about the document the user chose.

## 2. Modules

| Module | Content | State |
|---|---|---|
| `DocumentIndex` | the document store: upload, delete, search, crashes, late Qdrant writes | done |
| `DocumentLibrary` | what the store promises, without transactions or a second database | done |
| `DocumentIndexRefinement` | `DocumentIndex` implements `DocumentLibrary` | checked and proved |
| `DocumentIndexInvariant` | the inductive invariants | proved |
| `DocumentIndexProofs`, `DocumentIndexPromiseProofs` | its invariance; what follows from it, the refinement included | proved |
| `Chunker`, `ChunkerProofs` | the windows of `_chunk_text` over every PDF | checked and proved |
| `UserDirectory`, `UserDirectoryProofs` | whom a request acts as, with concurrent first requests | checked and proved |
| `AnswerBook` | what the question service promises, without locks or requests | done |
| `AnswerService`, `AnswerServiceProofs` | questions and their history, over `DocumentLibrary` | checked and proved |
| `BotSession`, `BotSessionProofs` | the active document and last answer of a chat, under concurrent updates | checked and proved |
| `RateLimit` | hits, statistics and storage errors of the limiter | part of `ApiRequest` |
| `ApiRequest`, `ApiRequestProofs` | a request from API key to status: pool, limiter, temporary file, errors | checked and proved |
| `TelegramText`, `TelegramTextProofs` | splitting, truncating and sending a text of the bot | checked and proved |
| `MCDocumentIndex`, `MCChunker`, `MCUserDirectory`, `MCAnswerService`, `MCBotSession`, `MCApiRequest`, `MCTelegramText` | small instances | - |

`DocumentLibrary` joins the modules: `DocumentIndex` implements it, `AnswerService`
uses it, and both are theorems. So the answer service is modelled over what the store is
proved to promise, without points and embeddings, and the id a question refers to
behaves as the store's ids do: it names one document for good.
`AnswerService` in turn implements `AnswerBook`.
The other modules meet these at values only: the chunks of an
upload (`CreateChunks` takes at least one, which `ProcessedHasChunks` justifies), the
owner of a request (`Owners`, which `ActsAsItself` justifies), and the documents the
bot is shown (whole ones, in one step, under ids that are not reused, which
`ImplementsLibrary` justifies).

`ApiRequest` extends `RateLimit` and puts what the other modules look at in detail in
its place in a request: `LookUpUser` to `RefreshUser` are `UserDirectory`, `CreateFile`
to `RefreshDocument` the upload of `DocumentIndex`, `Answer` the question of
`AnswerService`. There the question is what documents and rows become; here it is what
a request holds, and what it has committed when it is answered.

The plan for what follows is in section 6.

### DocumentIndex

`documents` and `chunks` are the committed rows. A request (`req[r]`) is one HTTP
request with its open transaction: `chunk_ids` are the rows it has flushed, and
nobody else sees them until `Commit`. `points` is the Qdrant collection by payload,
`collection` its vector size (0 when it does not exist), `inflight` the upserts sent
and not applied, `nextDocument` and `nextChunk` the sequences behind the ids, which
a rollback does not give back.

One action is the code between two awaits that reach another process:

| Code | Actions |
|---|---|
| `process_uploaded_pdf` | `CreateDocument`, `ExtractFailed` or `CreateChunks`, `EmbedTexts`, `EnsureCollection`, `CreateCollection`, `UpsertChunks`, `UpsertAcknowledged`, `Commit`, `Refresh` |
| `delete_user_document` | `DeleteDocument` (or `NotFound`), `DeleteCommit` |
| `_search_chunks` | `SearchDocuments` or `SearchDocument` (or `NotFound`), `EmbedQuery`, `QueryPoints`, `LoadChunks` |
| any exception, cancelled request | `Abort`: the session closes and rolls back |
| process stops | `Crash` |
| Qdrant | `QdrantApply`, `BatchLost` |
| answer lost after the effect | `CommitLost`, `DeleteLost`, `CreateCollectionLost` |

A step that fails (embedding timeout, Qdrant refusing a second creation of the
collection or another vector size, a refresh of a row deleted meanwhile) is `Abort`,
which is enabled in every step of a running request, so the model needs no failing
variant of each action. Flush and commit of a delete are one step: between them the
deletion is visible to its own transaction only. Which points are the best is not
modelled: `QueryPoints` picks any set of the right size. Texts, vectors, scores,
pages and file names are abstracted; `chunk_count` is 0 where the code stores NULL.

### DocumentLibrary and the refinement

The library is one set of volumes and the set of ids that are spent. `Publish` puts a
complete volume on the shelf, `RecordFailure` an empty FAILED one, each under an id that
is not spent, and spends it; `Discard` takes a volume away, and its id stays spent;
`Forfeit` spends ids and shows nothing. The mapping (`Shelf`) makes a volume of each
committed row, with those of its chunks that Qdrant holds under the right owner and
document. A chunk that lost its point, or a point overwritten by a late batch, would
change the shelf in a step the library does not have. An id is `Spent` when the sequence
is past it and no upload that may still commit holds it: uploads commit in any order,
so this is not a line between low and high ids. A rollback or a crash is a `Forfeit`.

### Chunker

A raw character is blank or not. `Normalize` is `" ".join(text.split())`: it tells
which characters stay and where they go; a chunk is the set of positions of the
normalised page text that it holds, so a chunk can be compared with its page. An
upload is a PDF with its pages and the two arguments of `TextChunker`: `Extract`
(or `ExtractionError`, for a PDF without text), `Configure` with the checks of the
constructor, `BeginPage`, then `TakeWindow` for each turn of the `while` loop
(`SkipPage` if the page has no text) and `Finish`. `NextStart` is
`start = end - overlap`, `Strip` the `strip()` of a window; a window of blanks only
makes no chunk.

### UserDirectory

`users` are the committed rows, `nextUser` the sequence behind `users.id`, `req[r]`
the dependency `get_current_telegram_user` of one request: API key and header
(`Arrive`), SELECT (`Find`), then UPDATE and COMMIT (`Update`) or INSERT (`Create`)
and COMMIT (`CommitCreate`), then `Refresh`. UPDATE and COMMIT are one step because
the UPDATE is the only statement of its transaction: nobody sees the row between.
The INSERT of a key another transaction has inserted waits for it (`HoldsKey`) and
raises `IntegrityError` if that commits (`failed`, a 500, as no handler maps it).
Every statement may fail (`Abort`), every COMMIT may lose its answer.

### AnswerService

One request is a question (`AskDocument`, `AskDocuments`) or a delete. A question is
`Retrieve`, `Generate`, `Verify`, `Record`, `CommitAnswer`: SELECT of the chunks, two
calls of the LLM, INSERT and COMMIT. The LLM may answer, abstain or say nothing, and
the verifier may say anything. `UploadDocument` and `UploadRolledBack` are the uploads of
others, by the actions of `DocumentLibrary`; `Remove` is the DELETE with its
cascades to `qa_history`. `Waits` says who waits for whom:

| Statement | Action | Waits for | Then holds |
|---|---|---|---|
| INSERT of an answer | `Record` | a delete of its document | a share of the document's row (`RefersTo`) |
| SELECT of `session.delete` | `LoadHistory` | nobody | - (`loaded`) |
| DELETE of each loaded row of `qa_history` | `DeleteHistory` | a delete that holds that row | the row (`locked`) |
| DELETE of the document | `DeleteFlush` | a delete or an INSERT that holds its row | it (`DeletePending`) |
| its `ON DELETE CASCADE` | `Cascade` | deletes that hold answers committed since the load | these answers |

Two deletes can wait for each other: one loaded an answer, holds it and wants the
document, the other loaded before that answer was committed, holds the document and its
cascade wants the answer. PostgreSQL ends one of such a ring with an error (`Deadlocked`,
`Deadlock`), which is a 500. Rows of chunks are left out: every delete of a document loads
all of them and deletes them before the answers and in the same order, so they only make
a second delete wait earlier; a FAILED document has none, so the ring is real. Which chunks are found is open: any of those a search may
return, also none, since an all-documents search may lose live chunks.
GET `/qa-history` only reads the rows `AnswerBook` speaks of.

### AnswerBook

The book is the library and a set of entries, as users can list them. `Shelve` is an
upload of the library, unnoticed in the book; `Record` adds one entry with a number of
its own, about a document that is its asker's and on the shelf in that very step;
`Withdraw` takes a document and all entries about it. `AnswerService` implements it with
`history` for `book`: an entry is made at the COMMIT of an answer, minutes and two LLM
calls after its document was looked up. An entry that is changed, dropped or made for a
document that went in between is a step the book does not have.

### BotSession

`session` is the bot's `MemoryStorage`: one entry per user and chat, `active` for the
two keys that `set_active_document` always writes together. A step of a handler is
the code between two calls of the backend; reading and writing the storage does not
suspend a handler, so what follows the last call is one step, in which the handler
also ends. `handler[h]` is an update being handled:

| Code | Actions |
|---|---|
| `ask_documents` | `SendQuestion`, `ServeList`, `Ask`, `ServeQuestion`, `StoreAnswer` |
| `upload_document` | `SendPdf`, `ServeUpload`, `AfterUpload` |
| `delete_document` | `PressDelete`, `ServeDelete`, `ServeList`, `AfterDelete` |
| `select_document`, `view_document` | `PressSelect` or `PressView`, `ServeList`, `Select` or `View` |
| `select_all_documents`, `select_all_documents_from_details` | `PressSelectAll` or `PressUnselect`, `ServeList`, `SelectAll` or `Unselect` |
| `except` branches, the client's timeout | `GiveUp` |
| `main` | `Restart` |

The backend serves a call at one moment (`Serve...`) and the handler goes on at a
later one. A call the handler has given up may still be served (`late`, `ServeLate`).
`shown` is the set of documents with select and delete buttons in a chat: messages
stay, so buttons outlive their documents, a restart and the choice of who may press
them. `chosen` and `gone` are history variables for the properties. Status, history,
the list, the answer buttons and help change neither a session nor the backend and
are left out, as is a failing Telegram call, which comes after the last change.
A user's name for a document, its status and the text of answers are abstracted:
`last_answer` is what the question was about.

### RateLimit and ApiRequest

`check[r]` is the call of `RateLimitService.hit` of request `r`: `Hit` and `Stats` are
the two calls of Redis, `HitFails` and `StatsFail` their `StorageError`s, after which
`HandleStorageFailure` lets the rule decide. A hit that fails may have been counted.
`hits` is the window of the limits library, by scope and user, which `Slide` lets
forget; `Counted` reads it by key, so that a key that names too little counts the hits
of others. Every rule of `rate_limit/rules.py` has `failure_mode="open"`; the code has
the other mode too, and the instance gives it to one scope.

`req[r]` is a request, `connections` those whose session has a connection of the pool,
`files` the temporary files on disk, `lost` the ones nobody will remove any more.

| Code | Actions |
|---|---|
| `verify_internal_api_key`, `get_current_telegram_user` | `Arrive`, `LookUpUser`, `CommitUser`, `Reconnect`, `RefreshUser` |
| `rate_limit_user`, `apply_rate_limit` | `RefreshUser`, `Limiter`, `ApplyRateLimit` |
| validation of body and path | `InvalidRequest` |
| GET routes and search | `Read`, `NotFound`, `ProviderFails` |
| `ask_documents`, `delete_document` | `Answer`, `Delete`, `NotFound`, `ProviderFails` |
| `upload_document` | `InvalidUpload`, `CreateFile`, `TooLarge`, `Spooled`, `SpoolFails`, `PdfFails` or `Indexed`, `Reconnect`, `RefreshFailed` or `RefreshDocument`, `ProviderFails` |
| `app_error_handler` and the handler of last resort | `Raise` (in every action above that fails), `Fail`, `PoolTimeout` |
| `get_db_session` | `Connect`, `Release`, `Return` |
| end of the process | `Crash` |

A COMMIT gives the connection back and the next statement asks for one again, so a
request waits for the pool up to twice: for its user, and for the row it has just
committed (`Waits`, `Reconnect`; the read itself is the next step). Between those it keeps its connection while it awaits Redis and
the providers. FastAPI closes the dependencies before an exception handler answers and
after an ordinary response is sent: `Raise` gives the connection back, `Reply` leaves
that to `Return`. The `finally` of `upload_document` removes the file; a spool that fails
has not reached it. A server that stops with a file on disk loses it too. What requests
hold is modelled for every kind; what they read and answer is not.

### TelegramText

A text is a sequence of characters that are blank, line ends or neither. `current` and
the parts of `split_telegram_text` are intervals of it, so a part can be compared with
the text it came from. `LongLine`, `Flush` and `AddLine` are the three ways through the
loop, `Short` and `Fit` the ways around it; `RStrip` is `rstrip()`. `Send` sends the
parts as `edit_answer_message` does, the first in place of the old message; Telegram
refuses a message that is blank or too long, and the handler ends there.

## 3. Runs

| Run | Bounds | Shows |
|---|---|---|
| `safety` | 2 requests, 2 owners, 3 document ids, 3 chunk ids, up to 2 chunks a PDF, limit up to 2; collection absent, right or wrong at start | `TypeOK`, `WholeDocuments`, `PublishedIsIndexed`, `OnlyOwnChunks`, `DocumentSearchComplete` |
| `library` | 2 requests, 2 owners, 2 document ids, 3 chunk ids, limit up to 2, all initial collections | `ImplementsLibrary`, `LostToStaleOnly` |
| `stale_points` | 1 request, 1 owner, 3 documents, limit 1 | `AllDocumentsSearched` is violated |
| `chunker` | sizes 0 to 4, overlaps -1 to 4, legal or not; one page of up to 9 characters, or 2 or 3 pages of up to 2 | `TypeOK`, `PhrasesKept`, `IndexesConsecutive`, `NothingRepeated`, `ProcessedHasChunks`, `Advances` |
| `user_directory` | 2 requests, Telegram ids 0, 7, 8, 2 names or none, 3 user ids, fairness | `TypeOK`, `OneRowPerUser`, `ActsAsItself`, `NameNeverErased`, `Served` |
| `answers` | 2 requests, 2 owners, 2 documents, 1 chunk, 2 history ids | `TypeOK`, `AnswersRecorded`, `SupportedByContext`, `FailedMeansDeleted`, `ImplementsBook` |
| `answers_served` | 3 requests of one user about one document, fairness | `Served` |
| `bot_group` | 2 users of one chat, 2 updates at a time, 2 document ids, no late calls | `TypeOK`, `OwnDocumentsOnly`, `ScopeAsChosen` |
| `bot_late` | 1 user, 2 updates at a time, 1 document id, 1 late call, fairness | `NeverReactivated`, `Served` |
| `api` | 2 requests of any kind, 2 users, 1 connection, 2 files, a limit of 1 in each scope, at most 2 hits in all windows, one scope fails closed, fairness | `TypeOK`, `ConnectionsReturned`, `FilesOfUploads`, `StatusTellsCommit`, `RefusedOwnLimit`, `WaitersServed` |
| `api_refused` | the same | `ExceededIsRefused` is violated |
| `telegram_text` | every text of up to 7 characters, limits 2 to 4, a suffix of 1 | `TypeOK`, `PartsFit`, `NothingLost`, `LinesWhole`, `RefusedAtBorder` |

Two requests are enough for every pair of operations to interleave; three document
and chunk ids let one upload be aborted or deleted, a second one reuse its slot, and
a third exist beside it, which is what an overwrite, a stale point and a
crowded-out chunk need. Ids are never reused, so the bound on ids ends a behaviour's
uploads, not its searches and deletes. Request slots and owners are symmetric.

`stale_points` is a disagreement with the documentation. The bot says that a search
of all documents covers all that were uploaded (`bot/handlers.py:43`), and so does
the API table of the README. Qdrant counts stale points towards the limit and
`get_by_ids` drops them afterwards, so an owner who deleted a document, or whose
upload was rolled back, can get no chunk at all from the documents that are left.
`LostToStaleOnly` is what does hold: each stale point costs at most one chunk. A
search of one document is not affected (`DocumentSearchComplete`), as document ids
are not reused.

A page of 9 characters gives windows of size 4 every possible end: exact, one short,
one over, and overlaps of 0 to 3; three pages let chunk numbers run on across a page
that is skipped. In `user_directory` one request inserts while the other waits for it
or reads, and later requests use the same slots; ids are taken by failed inserts too,
hence three. In `answers` a
question, a delete and (as uploads need no slot) a later document meet; two history
ids are two answers to confuse; one chunk tells found from not found, all the
properties need. `answers_served` has a question and two deletes of one document, and
one answer: the fewest that make the ring of two deletes. With the fairness of `Deadlock`
taken away, `Served` is violated by that ring.

In `bot_group` a user can press the buttons of the other's document, and one document
is active while another is chosen, deleted or uploaded; two handlers are a question
and what overtakes it. One document is enough for `bot_late`, where it is deleted, by
a handler or by a late call, while a button, a choice or a question refers to it.

In `api` one connection makes every second request wait, and two files are as many as
two uploads have; a lost file takes one of them for good, so `MayUpload` lets an upload
begin only while one is left, and `MayHit` a limited request only while a hit is left of
`MaxHits`. Both bound what may begin and nothing of what has begun. A limit of one hit
lets a user be refused by his own second request, and only by that one.
In `telegram_text` every way a line can end at, before or beyond the limit occurs, with
blank lines before and after, and a line of three messages at limit 2; the real limit
of 4096 only makes these larger.

`api_refused` is the other disagreement with the documentation. `src/README.md` says that
beyond the limit the API answers 429. `hit` learns that the limit is exceeded from one
call of Redis and reads the window with another, inside one `try`: if the second fails,
the refusal is forgotten and, as every rule fails open, the request is let through.
`RefusedOwnLimit` is what holds in any case: nobody is refused for the hits of others.

`StatusTellsCommit` leaves 500 out on purpose: after the COMMIT of an upload its row is
read again, and when that fails, or no connection is to be had, the document is there
and the client is told of an error. `FilesOfUploads` allows for the files of failed spools
and crashes (`lost`), which nothing in the code removes. `WaitersServed` is
about the pool alone: no request waits for a connection without end. That every request
ends is not so, see fairness below.

`RefusedAtBorder` says when Telegram refuses a part, in terms of the text: if blank lines
stand where a message begins and the next line does not fit behind them (it is nearly a
message long itself), or if a line longer than a message has a blank stretch from one
multiple of the limit to the next or to its end. `format_answer_message` puts blank lines
between headings, answer and sources in every answer; anywhere else these do no harm.

`NeverReactivated` says no more than is true: a document that is deleted while a
choice of it is being checked, or while the answer to its upload is on the way, is
active afterwards, and so is one whose delete the bot took for failed. The next
question about it is a 404, which the bot shows as a failed request, until the user
chooses all documents in the list; `ScopeAsChosen` says it is not answered from
other documents in the meantime.

Deadlock checking is off in `chunker` and `telegram_text` alone: the calls they model
return. Elsewhere a slot can always start a request.

**Fairness.** Only the runs that check `Served` or `WaitersServed` assume any.
`UserDirectory` and `AnswerService` have weak fairness of each request's next step: the
event loop runs every coroutine whose await has completed, PostgreSQL answers what waits
for no lock, and providers answer or time out. They have strong fairness of the statements
that wait for another transaction's lock (`Create`; `Lock`: `Record`, `DeleteHistory`,
`DeleteFlush`, `Cascade`), which others may take again and again: PostgreSQL queues those
who wait for a lock. Rings are found by PostgreSQL's detector, weakly fair. Redis is in
neither.

In `ApiRequest` only what depends on the event loop and the pool is fair (`Alone`): the
pool hands out a connection or times out, temporary files are written and removed, an
answer is sent. `RedisStorage` is built without a socket timeout
(`rate_limit/service.py:45`) and sessions without a statement timeout (`db/session.py:7`),
so a call of Redis or a statement may hang, and its request then keeps its connection for
ever. What remains is that the others do not wait for it (`WaitersServed`).

In `BotSession` the backend is not fair: that a handler goes on or gives up is, since
the client has a timeout of 60 s. Failures are not fair: `Abort`, `Crash` and
`Restart` may happen always or never. A request may end by any of them,
so `Served` says that it does not wait forever, not that it succeeds.

## 4. Proofs

All theorems are about a module's `Spec`, for every value of its constants that its
assumption allows. `DocumentIndex`, in the two `DocumentIndex...Proofs` modules:

- `InvariantTheorem`: `Spec => []IInv` (`DocumentIndexInvariant`). The promises are not inductive: that a
  committed chunk keeps its point depends on batches still in flight, on aborted
  uploads and on what running searches returned. `IInv` therefore speaks of every
  place a point can be claimed (`Claimed`) and of every place that ties a document
  id to an owner (`Deed`), and says that no two claims share a chunk id, no two
  deeds a document id with different owners, and that all of them are below the
  sequences. The step lemmas show that each action claims nothing new except
  `CreateChunks`, whose ids come from the sequence.
- `PublishedTheorem`, `IsolationTheorem`, `TypeTheorem` follow from `IInv`.
- `WholeTheorem` and `StatusTheorem` add the counting of chunk rows, with the
  library's theorems on finite sets.
- `SearchTheorem`: a search of one document is complete. This needs a second invariant,
  `SearchInv`, over `IInv`: Qdrant holds, or may still be sent, no point of an existing
  document but those of its rows (`NoStrayPoints`: points that are left over belong to
  documents that are gone), a document is nobody else's business before its upload
  commits (`UploadsAlone`), and what a search found is as much as was asked for while its
  document is there (`HitsCounted`). `SlotSteps` says once, for all actions, what a step
  can do to one request, so that each part is proved from six cases.
- `LostTheorem`: an all-documents search loses live chunks to stale points only. The
  chunks of the owner are as many as their points, all of which match; a hit that is not
  live is a stale point.
- `ImplementsTheorem`: every step of `DocumentIndex` is a step of `DocumentLibrary`
  on the mapped shelf and spent ids. `CommitSpends` shows that a commit takes an id that
  is not spent, `SpentGrows` that no step frees one.

They rest on `ConstantsAssumption` only.

`ChunkerProofs`, for every PDF, chunk size and overlap: `PhrasesTheorem`,
`NothingRepeatedTheorem`, `IndexesTheorem`, `ProcessedTheorem`, `AdvancesTheorem`,
`TypeTheorem`. The
invariant of the loop (`LoopInv`) says that every phrase of up to `overlap + 1`
characters before the end of the last window is whole in a chunk, and that the next
window starts `overlap` characters before that end, so a phrase the border cuts is
whole in the next window. `TextFound` and `ConfigChecked` carry the checks of
`extract` and of the constructor to the loop. Each window ends later than the one
before, within the text: that bounds the loop, termination itself being liveness and
out of the prover's reach. `NothingRepeated` says that no chunk is contained in another,
although windows overlap and `strip()` takes blanks off them, provided windows advance by
two characters at least. `WindowsApart` says that every chunk made so far begins before
the next window and lies before the end of the last. Normalised text has no two blanks
in a row, so two characters that only one window holds are never both blank.

`UserDirectoryProofs`, for any number of requests, users and names: `OneRowTheorem`,
`ActsAsItselfTheorem`, `NameNeverErasedTheorem`, `TypeTheorem`. `OneRowPerUser` is not
inductive, as a row may be inserted and not committed; `IdsApart` and `KeysApart` say
that such a row shares its id and its key with no other row, committed or not. That
`Create` tests for the key at its own step, and not at `Find`, is where the proof
uses the unique index. `Authorized` and `Found` carry the checks of `Arrive` and
`Find` to the steps that rely on them; rows of users are never deleted.

`AnswerServiceProofs`, for any number of requests, users and documents:
`HistoryOwnedTheorem`, `AnswersRecordedTheorem`, `SupportedTheorem`,
`FailedMeansDeletedTheorem`, `TypeTheorem`; `ImplementsBookTheorem`: every step of the
service is a step of `AnswerBook` or changes nothing of it (`CommitRecords`,
`DeleteWithdraws`, `UploadShelves`); and from it `UsesLibraryTheorem`: the documents change
by steps of `DocumentLibrary` only. The strengthening is `HistoryOwned`; `LocksHeld`: between
INSERT and COMMIT of a history row its document is on the shelf and nobody is deleting
it; `DeletesLock`: rows of history are locked by deletes in their flush only; `AskedOwn`: a document id a request holds was its owner's and is spent, so no upload
can give it to another; and `VerdictLate`. `DeadlockTheorem`: whoever PostgreSQL may end
to break a ring is a delete in its flush, never a question (`RingOfDeletes`). They rest on `AnswerServiceAssumption`: no
document has the number that stands for none.

`BotSessionProofs`, for any number of users, chats, concurrent handlers and late calls:
`OwnDocumentsTheorem`, `ScopeTheorem`, `NeverReactivatedTheorem`, `TypeTheorem`. `IInv`
says what a handler that waits still knows (`Knows`): the list it has read is of its
user's documents (`Belongs`: no document with this id has another owner, and none will,
since ids are not handed out again), none of them was gone when its update arrived, and
what its session has active is among what was active since. `BackendStep` shows that
no upload or delete, in time or late, makes any of it untrue; `SetActiveStep` is the one
step that writes a session while others work in it.

`ApiRequestProofs`, for any number of requests, users, scopes, limits, connections and
files: `ConnectionsTheorem`, `FilesTheorem`, `StatusTheorem`, `RefusedOwnLimitTheorem`,
`TypeTheorem`. A step changes one request, so `IInv` is split into what a request says
of itself (`Consistent`), what it may do to the pool (`PoolUse`) and to the files
(`FileUse`), and `RequestStep` puts them together once for all steps. `CommittedLate` is
the strengthening: nothing is committed before the last step of a handler, save by an
upload that reads its row again. `FileKept` says that from spool to end an upload's file
is on disk and its own. `CountedOwn` is what keys are for: what Redis has counted under a
user's key are that user's hits. They rest on `RateLimitAssumption` and
`ApiRequestAssumption`.

`TelegramTextProofs`, for every text, limit and suffix: `FitTheorem`,
`NothingLostTheorem`, `LinesWholeTheorem`, `RefusedTheorem`, `TypeTheorem`. `LoopInv` says
that the parts and `current`, in order, cover the text up to the line the loop stands at
(`Covers`: nothing between two neighbours but blanks, nothing twice), and that each is
within the limit and holds all or nothing of each line that fits (`GoodPart`). It also
says of `current` that a message may begin where it does (`MayBeginAt`), which is what
`BlankAtBorder` is about: a part with nothing but blanks in it gives a border of that kind
in the text. A turn of the loop
appends parts that cover the next interval (`CoversJoin`), so the coverings join; two
different lines have a line end between them (`BordersApart`). The pieces of a long line
are counted with division, for which `MulGrows`, `DivBetween` and `DivGrows` are proved
first; the first and the last character of an interval that is not blank (`RStrip`)
exist because the order of the naturals is well-founded. They rest on
`TelegramTextAssumption`.

Each module's `InvariantTheorem` proves its `IInv`. Every property of a passing run that is
an invariant or an action property, and the refinement, is a theorem; the liveness
properties (`Served` in three runs, `WaitersServed`) are only model-checked, since the
prover does not reason about fairness, and so is that the loops of `Chunker` and `TelegramText` end.

## 5. Not modelled

Logging and request ids, schemas and presenters (field-by-field conversion),
configuration, migrations, deployment and CI: no control flow whose interleavings
matter. `create_document_metadata` and `healthcheck` have no caller in the
application. Of the rate limit, what the headers say; of the bot's texts, wording and
layout, and which quotes and sources are in them; of the bot, handlers that only read
(status, history, the list, the answer buttons, help), as they change neither a session
nor the backend. The clients of providers and Qdrant that a request builds and closes
have no state of their own here. What Qdrant, PostgreSQL, Redis, Telegram and the
provider do inside is external: they appear by their effect as `src/` relies on it.

## 6. Plan

1. `ApiRequest` with `UserDirectory` as its first stage, so that the lock a first
   request waits for and the connection it holds meanwhile meet in one model.
2. `BotSession` over `DocumentLibrary`, as `AnswerService` is: its backend hands out ids
   as the store does, and its whole documents are the shelf.

A theorem worth adding with 2 is that the bot's backend is the library, next to
`UsesLibraryTheorem`.

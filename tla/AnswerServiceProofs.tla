------------------------ MODULE AnswerServiceProofs ------------------------
(***************************************************************************)
(* History shows users what they were answered, about documents of their   *)
(* own that exist, for any number of requests, users and documents.        *)
(***************************************************************************)
EXTENDS AnswerService, TLAPS

\* What the invariant says of one request apart from the others and history.
Sound(x) ==
    /\ x.response = "failed" =>
         x.document # NoDocument /\ \A v \in shelf : v.id # x.document
    /\ x.verdict = "supported" => x.found # {}
    /\ x.pc \notin {"idle", "reply"} => x.owner \in Owners
    /\ x.pc \in Deleting => x.document # NoDocument
    /\ x.document # NoDocument =>
         /\ x.document \in spent
         /\ \A v \in shelf : v.id = x.document => v.owner_id = x.owner
    /\ x.pc \in {"generate", "verify"} => x.found # {}
    /\ x.pc = "retrieve" \/ x.answer = NoAnswer => x.verdict = "unsupported"
    /\ x.pc # "reply" => x.response = "none"
    /\ x.pc = "verify" => x.answer # NoAnswer
    /\ x.locked # {} => x.pc \in {"flush", "deleting", "deleted"}

LEMMA IdleSound ==
  /\ Idle \in Request /\ Sound(Idle) /\ Idle.pc = "idle"
  /\ Idle.response = "none" /\ Idle.document = NoDocument
BY DEF Idle, Request, Steps, NoDocument, NoAnswer, Answers, Verdicts, Sound, Deleting

LEMMA RequestsSound ==
  ASSUME IInv
  PROVE  \A r \in Requests : Sound(req[r])
BY DEF IInv, Sound, FailedMeansDeleted, SupportedByContext, AskedOwn,
   DeletesLock, VerdictLate, OnShelf, At

LEMMA SoundRequests ==
  ASSUME \A r \in Requests : Sound(req[r])',
         \A h \in history' : h.answer = NoAnswer => h.verification_verdict = "unsupported"
  PROVE  (FailedMeansDeleted /\ SupportedByContext /\ AskedOwn /\ DeletesLock /\ VerdictLate)'
BY DEF Sound, FailedMeansDeleted, SupportedByContext, AskedOwn,
   DeletesLock, VerdictLate, OnShelf, At

LEMMA InitInvariant ==
  ASSUME Init
  PROVE  IInv
<1>1. /\ shelf = {} /\ spent = {} /\ history = {} /\ nextHistory = 1
      /\ req \in [Requests -> Request]
      /\ \A r \in Requests : Sound(req[r]) /\ req[r].pc = "idle" /\ req[r].response = "none"
  <2> DEFINE x == Idle
  <2>1. x \in Request /\ Sound(x) /\ x.pc = "idle" /\ x.response = "none"
    BY IdleSound
  <2>2. req = [r \in Requests |-> x]  BY DEF Init
  <2> HIDE DEF x
  <2> QED  BY <2>1, <2>2 DEF Init, LibraryInit
<1>2. FailedMeansDeleted /\ SupportedByContext /\ AskedOwn /\ DeletesLock /\ VerdictLate
  BY <1>1 DEF Sound, FailedMeansDeleted, SupportedByContext, AskedOwn,
     DeletesLock, VerdictLate, OnShelf, At
<1>3. TypeOK /\ HistoryOwned /\ ShelfApart
  BY <1>1 DEF TypeOK, HistoryOwned, ShelfApart
<1>4. AnswersRecorded /\ RowsApart /\ LocksHeld
  BY <1>1 DEF AnswersRecorded, RowsApart, LocksHeld, At
<1> QED  BY <1>2, <1>3, <1>4 DEF IInv

\* What a request looks like after its own step; the others stay as they are.
LEMMA Others ==
  ASSUME IInv, NEW r \in Requests, NEW x \in Request, Become(r, x)
  PROVE  /\ req' \in [Requests -> Request]
         /\ req'[r] = x
         /\ \A q \in Requests \ {r} : req'[q] = req[q]
BY DEF IInv, TypeOK, Become

\* As long as nothing is written to the documents, what is Sound stays so.
LEMMA OthersSound ==
  ASSUME IInv, NEW r \in Requests, NEW x \in Request, Become(r, x), Sound(x),
         UNCHANGED <<shelf, spent>>
  PROVE  \A q \in Requests : Sound(req[q])'
<1>1. \A q \in Requests : Sound(req'[q])
  BY Others, RequestsSound
<1> QED  BY <1>1 DEF Sound

\* A step of one request that writes no row and takes no value of a sequence
\* for itself.
LEMMA QuietStep ==
  ASSUME IInv, NEW r \in Requests, NEW x \in Request, Become(r, x), Sound(x),
         UNCHANGED <<shelf, spent, history>>,
         nextHistory' \in Nat, nextHistory <= nextHistory',
         x.pc # "flushed", x.response # "answer",
         x.pc \in {"deleting", "deleted"} =>
           \A q \in Requests \ {r} : ~RefersTo(q, x.document)
  PROVE  IInv'
<1>1. /\ req' \in [Requests -> Request] /\ req'[r] = x
      /\ \A q \in Requests \ {r} : req'[q] = req[q]
  BY Others
<1>2. \A q \in Requests : Sound(req[q])'  BY OthersSound
<1>3. \A h \in history' : h.answer = NoAnswer => h.verification_verdict = "unsupported"
  BY DEF IInv, SupportedByContext
<1>4. (FailedMeansDeleted /\ SupportedByContext /\ AskedOwn /\ DeletesLock /\ VerdictLate)'
  BY <1>2, <1>3, SoundRequests
<1>5. TypeOK' /\ HistoryOwned' /\ ShelfApart'
  BY <1>1 DEF IInv, TypeOK, HistoryOwned, Owned, ShelfApart
<1>6. AnswersRecorded'
  BY <1>1 DEF IInv, AnswersRecorded, OnShelf
<1>7. RowsApart'
  <2>1. \A h \in history : h.id < nextHistory'
    BY DEF IInv, TypeOK, RowsApart, HistoryRow
  <2>2. ASSUME NEW q \in Requests, req'[q].pc = "flushed"
        PROVE  /\ 0 < req'[q].row /\ req'[q].row < nextHistory'
               /\ \A h \in history : h.id # req'[q].row
               /\ \A p \in Requests \ {q} : req'[p].pc = "flushed" => req'[p].row # req'[q].row
    <3>1. q # r /\ req'[q] = req[q]  BY <1>1, <2>2
    <3>2. req[q].row \in Nat /\ 0 < req[q].row /\ req[q].row < nextHistory
          /\ \A h \in history : h.id # req[q].row
      BY <3>1, <2>2 DEF IInv, TypeOK, Request, RowsApart, At
    <3>3. req[q].row < nextHistory'
      BY <3>2 DEF IInv, TypeOK
    <3>4. \A p \in Requests \ {q} : req'[p].pc = "flushed" => req'[p].row # req'[q].row
      BY <3>1, <1>1, <2>2 DEF IInv, RowsApart, At
    <3> QED  BY <3>1, <3>2, <3>3, <3>4
  <2> QED  BY <2>1, <2>2 DEF RowsApart, At
<1>8. LocksHeld'
  BY <1>1 DEF IInv, LocksHeld, DeletePending, RefersTo, OnShelf, At
<1> QED  BY <1>4, <1>5, <1>6, <1>7, <1>8 DEF IInv

LEMMA ArriveStep ==
  ASSUME IInv, NEW r \in Requests, NEW o \in Owners, Arrive(r, o)
  PROVE  IInv'
<1>1. /\ nextHistory' \in Nat /\ nextHistory <= nextHistory'
      /\ UNCHANGED <<shelf, spent, history>>
  <2>1. UNCHANGED <<shelf, spent, history, nextHistory>>
    BY DEF Arrive, AskDocuments, AskDocument, DeleteDocument, NotFound
  <2>2. nextHistory \in Nat /\ nextHistory <= nextHistory  BY DEF IInv, TypeOK
  <2> QED  BY <2>1, <2>2
<1>2. ASSUME NEW pc \in {"retrieve", "delete"}, NEW d \in DocumentIds,
             Owned(o, d),
             Become(r, [Idle EXCEPT !.pc = pc, !.owner = o, !.document = d])
      PROVE  IInv'
  <2> DEFINE x == [Idle EXCEPT !.pc = pc, !.owner = o, !.document = d]
  <2>1. /\ x \in Request /\ x.pc = pc /\ x.owner = o /\ x.document = d
        /\ x.response = "none" /\ x.verdict = "unsupported" /\ x.locked = {}
    BY <1>2 DEF Idle, Request, Steps, NoAnswer, Answers, Verdicts
  <2>2. d \in spent /\ \A v \in shelf : v.id = d => v.owner_id = o
    BY <1>2 DEF IInv, Owned, ShelfApart
  <2>3. d # NoDocument  BY AnswerServiceAssumption DEF NoDocument
  <2>4. Become(r, x)  BY <1>2
  <2> HIDE DEF x
  <2>5. Sound(x)  BY <2>1, <2>2, <2>3 DEF Sound
  <2> QED  BY <1>1, <2>1, <2>4, <2>5, QuietStep
<1>3. CASE AskDocuments(r, o)
  <2> DEFINE x == [Idle EXCEPT !.pc = "retrieve", !.owner = o]
  <2>1. /\ x \in Request /\ x.pc = "retrieve" /\ x.owner = o /\ x.document = NoDocument
        /\ x.response = "none" /\ x.verdict = "unsupported" /\ x.locked = {}
    BY DEF Idle, Request, Steps, NoAnswer, NoDocument, Answers, Verdicts
  <2>2. Become(r, x)  BY <1>3 DEF AskDocuments
  <2> HIDE DEF x
  <2>3. Sound(x)  BY <2>1 DEF Sound, Deleting
  <2> QED  BY <1>1, <2>1, <2>2, <2>3, QuietStep
<1>4. ASSUME NEW d \in DocumentIds, NotFound(r, o, d)
      PROVE  IInv'
  <2> DEFINE x == [Idle EXCEPT !.pc = "reply", !.owner = o,
                               !.response = "no_document"]
  <2>1. /\ x \in Request /\ x.pc = "reply" /\ x.document = NoDocument
        /\ x.response = "no_document" /\ x.verdict = "unsupported" /\ x.locked = {}
    BY DEF Idle, Request, Steps, NoAnswer, NoDocument, Answers, Verdicts
  <2>2. Become(r, x)  BY <1>4 DEF NotFound
  <2> HIDE DEF x
  <2>3. Sound(x)  BY <2>1 DEF Sound, Deleting
  <2> QED  BY <1>1, <2>1, <2>2, <2>3, QuietStep
<1> QED
  BY <1>2, <1>3, <1>4 DEF Arrive, AskDocument, DeleteDocument

\* A step that ends a request or hands out its answer.
LEMMA LeaveStep ==
  ASSUME IInv, NEW r \in Requests, Return(r) \/ Abort(r) \/ Deadlock(r)
  PROVE  IInv'
<1> DEFINE x == Idle
<1>1. /\ x \in Request /\ Sound(x) /\ x.pc = "idle" /\ x.response = "none"
  BY IdleSound
<1>2. Become(r, x) /\ UNCHANGED <<shelf, spent, history, nextHistory>>
  BY DEF Return, Abort, Deadlock, Drop
<1> HIDE DEF x
<1>3. nextHistory' \in Nat /\ nextHistory <= nextHistory'
  BY <1>2 DEF IInv, TypeOK
<1> QED  BY <1>1, <1>2, <1>3, QuietStep

\* The steps from the look at the document to the verdict.
LEMMA AnswerStep ==
  ASSUME IInv, NEW r \in Requests, Retrieve(r) \/ Generate(r) \/ Verify(r)
  PROVE  IInv'
<1>1. /\ nextHistory' \in Nat /\ nextHistory <= nextHistory'
      /\ UNCHANGED <<shelf, spent, history>>
  <2>1. UNCHANGED <<shelf, spent, history, nextHistory>>
    BY DEF Retrieve, Generate, Verify
  <2>2. nextHistory \in Nat /\ nextHistory <= nextHistory  BY DEF IInv, TypeOK
  <2> QED  BY <2>1, <2>2
<1>2. req[r] \in Request /\ Sound(req[r])
  BY RequestsSound DEF IInv, TypeOK
<1>3. CASE Retrieve(r)
  <2>1. PICK found \in SUBSET Searchable(r) :
          Become(r, [req[r] EXCEPT !.found = found,
                       !.pc = IF found = {} THEN "record" ELSE "generate"])
    BY <1>3 DEF Retrieve
  <2>2. found \in SUBSET ChunkIds
    BY DEF Searchable, IInv, TypeOK, Volume
  <2> DEFINE x == [req[r] EXCEPT !.found = found,
                     !.pc = IF found = {} THEN "record" ELSE "generate"]
  <2>3. /\ x \in Request /\ x.found = found
        /\ x.pc = IF found = {} THEN "record" ELSE "generate"
        /\ x.owner = req[r].owner /\ x.document = req[r].document
        /\ x.answer = req[r].answer /\ x.verdict = req[r].verdict
        /\ x.response = req[r].response /\ x.locked = req[r].locked
    BY <1>2, <2>2 DEF Request, Steps
  <2>4. Become(r, x)  BY <2>1
  <2> HIDE DEF x
  <2>5. req[r].pc = "retrieve"  BY <1>3 DEF Retrieve, At
  <2>6. req[r].verdict = "unsupported"
    BY <1>2, <1>3, <2>5 DEF Sound
  <2>7. Sound(x)  BY <1>2, <2>3, <2>5, <2>6 DEF Sound, Deleting
  <2>8. x.response = "none"  BY <1>2, <2>3, <2>5 DEF Sound
  <2> QED  BY <1>1, <2>3, <2>4, <2>7, <2>8, QuietStep
<1>4. CASE Generate(r)
  <2>1. PICK answer \in Completions :
          Become(r, [req[r] EXCEPT !.pc = "verify", !.answer = answer,
            !.status = IF answer = "abstention" THEN "not_found" ELSE "answered"])
    BY <1>4 DEF Generate
  <2> DEFINE x == [req[r] EXCEPT !.pc = "verify", !.answer = answer,
            !.status = IF answer = "abstention" THEN "not_found" ELSE "answered"]
  <2>2. answer \in Answers /\ answer # NoAnswer
    BY DEF Completions, Answers, NoAnswer
  <2>3. /\ x \in Request /\ x.pc = "verify" /\ x.answer = answer
        /\ x.owner = req[r].owner /\ x.document = req[r].document
        /\ x.found = req[r].found /\ x.verdict = req[r].verdict
        /\ x.response = req[r].response /\ x.locked = req[r].locked
    BY <1>2, <2>2 DEF Request, Steps
  <2>4. Become(r, x)  BY <2>1
  <2> HIDE DEF x
  <2>5. req[r].pc = "generate"  BY <1>4 DEF Generate, At
  <2>6. Sound(x) /\ x.response = "none"  BY <1>2, <2>2, <2>3, <2>5 DEF Sound, Deleting
  <2> QED  BY <1>1, <2>3, <2>4, <2>6, QuietStep
<1>5. CASE Verify(r)
  <2>1. PICK reply \in Verdicts \cup {"invalid"} :
          Become(r, [req[r] EXCEPT !.pc = "record",
            !.verdict = IF reply = "supported" THEN reply ELSE "unsupported"])
    BY <1>5 DEF Verify
  <2> DEFINE x == [req[r] EXCEPT !.pc = "record",
            !.verdict = IF reply = "supported" THEN reply ELSE "unsupported"]
  <2>2. /\ x \in Request /\ x.pc = "record"
        /\ x.owner = req[r].owner /\ x.document = req[r].document
        /\ x.found = req[r].found /\ x.answer = req[r].answer
        /\ x.response = req[r].response /\ x.locked = req[r].locked
    BY <1>2 DEF Request, Steps, Verdicts
  <2>3. Become(r, x)  BY <2>1
  <2> HIDE DEF x
  <2>4. req[r].pc = "verify"  BY <1>5 DEF Verify, At
  <2>5. Sound(x) /\ x.response = "none"  BY <1>2, <2>2, <2>4 DEF Sound, Deleting
  <2> QED  BY <1>1, <2>2, <2>3, <2>5, QuietStep
<1> QED  BY <1>3, <1>4, <1>5

LEMMA RecordStep ==
  ASSUME IInv, NEW r \in Requests, Record(r)
  PROVE  IInv'
<1>1. /\ req[r] \in Request /\ Sound(req[r]) /\ req[r].pc = "record"
      /\ UNCHANGED <<shelf, spent, history>>
      /\ nextHistory' = nextHistory + 1
  BY RequestsSound DEF IInv, TypeOK, Record, At
<1>2. nextHistory \in Nat \ {0} /\ nextHistory' \in Nat /\ nextHistory <= nextHistory'
  BY <1>1 DEF IInv, TypeOK
<1>3. ASSUME req[r].document # NoDocument, ~OnShelf(req[r].document),
             Reply(r, "failed")
      PROVE  IInv'
  <2> DEFINE x == [req[r] EXCEPT !.pc = "reply", !.locked = {}, !.response = "failed"]
  <2>1. /\ x \in Request /\ x.pc = "reply" /\ x.response = "failed" /\ x.locked = {}
        /\ x.owner = req[r].owner /\ x.document = req[r].document
        /\ x.found = req[r].found /\ x.answer = req[r].answer
        /\ x.verdict = req[r].verdict
    BY <1>1 DEF Request, Steps
  <2>2. Become(r, x)  BY <1>3 DEF Reply
  <2> HIDE DEF x
  <2>3. Sound(x)  BY <1>1, <1>3, <2>1 DEF Sound, OnShelf, Deleting
  <2> QED  BY <1>1, <1>2, <2>1, <2>2, <2>3, QuietStep
<1>4. ASSUME req[r].document = NoDocument \/ OnShelf(req[r].document),
             Become(r, [req[r] EXCEPT !.pc = "flushed", !.row = nextHistory])
      PROVE  IInv'
  <2> DEFINE x == [req[r] EXCEPT !.pc = "flushed", !.row = nextHistory]
  <2>1. /\ x \in Request /\ x.pc = "flushed" /\ x.row = nextHistory
        /\ x.owner = req[r].owner /\ x.document = req[r].document
        /\ x.found = req[r].found /\ x.answer = req[r].answer
        /\ x.verdict = req[r].verdict /\ x.response = req[r].response
        /\ x.locked = req[r].locked
    BY <1>1, <1>2 DEF Request, Steps
  <2>2. Become(r, x)  BY <1>4
  <2> HIDE DEF x
  <2>3. Sound(x) /\ x.response = "none"  BY <1>1, <2>1 DEF Sound, Deleting
  <2>4. /\ req' \in [Requests -> Request] /\ req'[r] = x
        /\ \A q \in Requests \ {r} : req'[q] = req[q]
    BY <2>1, <2>2, Others
  <2>5. \A q \in Requests : Sound(req[q])'
    BY <1>1, <2>1, <2>2, <2>3, OthersSound
  <2>6. \A h \in history' : h.answer = NoAnswer => h.verification_verdict = "unsupported"
    BY <1>1 DEF IInv, SupportedByContext
  <2>7. (FailedMeansDeleted /\ SupportedByContext /\ AskedOwn /\ DeletesLock /\ VerdictLate)'
    BY <2>5, <2>6, SoundRequests
  <2>8. TypeOK' /\ HistoryOwned' /\ ShelfApart'
    <3>1. nextHistory' \in Nat \ {0}  BY <1>1, <1>2
    <3> QED  BY <1>1, <3>1, <2>4 DEF IInv, TypeOK, HistoryOwned, Owned, ShelfApart
  <2>9. AnswersRecorded'
    BY <1>1, <2>3, <2>4 DEF IInv, AnswersRecorded, OnShelf
  <2>10. RowsApart'
    <3>1. \A h \in history : h.id < nextHistory /\ h.id < nextHistory' /\ h.id # nextHistory
      BY <1>1, <1>2 DEF IInv, TypeOK, RowsApart, HistoryRow
    <3>2. \A q \in Requests \ {r} : req'[q].pc = "flushed" =>
            /\ 0 < req'[q].row /\ req'[q].row < nextHistory'
            /\ req'[q].row # nextHistory
            /\ \A h \in history : h.id # req'[q].row
            /\ \A p \in Requests \ {q, r} : req'[p].pc = "flushed" => req'[p].row # req'[q].row
      <4>1. ASSUME NEW q \in Requests \ {r}, req[q].pc = "flushed"
            PROVE  /\ 0 < req[q].row /\ req[q].row < nextHistory'
                   /\ req[q].row # nextHistory
                   /\ \A h \in history : h.id # req[q].row
        <5>1. req[q].row \in Nat /\ 0 < req[q].row /\ req[q].row < nextHistory
              /\ \A h \in history : h.id # req[q].row
          BY <4>1 DEF IInv, TypeOK, Request, RowsApart, At
        <5> QED  BY <5>1, <1>1, <1>2
      <4>2. \A q, p \in Requests \ {r} : q # p /\ req[q].pc = "flushed" /\ req[p].pc = "flushed"
              => req[p].row # req[q].row
        BY DEF IInv, RowsApart, At
      <4> QED  BY <2>4, <4>1, <4>2
    <3>3. 0 < x.row /\ x.row < nextHistory'
      BY <1>1, <1>2, <2>1
    <3> QED  BY <1>1, <2>1, <2>4, <3>1, <3>2, <3>3 DEF RowsApart, At
  <2>11. LocksHeld'
    <3>1. \A q \in Requests \ {r} : ~DeletePending(q, req[r].document)
      BY DEF Record, Granted, Waits
    <3>2. ~DeletePending(r, x.document)'
      BY <2>1, <2>4 DEF DeletePending
    <3> QED
      BY <1>1, <1>4, <2>1, <2>4, <3>1, <3>2 DEF IInv, LocksHeld, DeletePending, OnShelf, At
  <2> QED  BY <2>7, <2>8, <2>9, <2>10, <2>11 DEF IInv
<1> QED  BY <1>3, <1>4 DEF Record

\* The COMMIT of an answer.  Its row refers to a document that is locked, so
\* it is still there.
LEMMA CommitStep ==
  ASSUME IInv, NEW r \in Requests, CommitAnswer(r) \/ CommitAnswerLost(r)
  PROVE  IInv'
<1> DEFINE x == IF CommitAnswer(r)
                THEN [req[r] EXCEPT !.pc = "reply", !.locked = {}, !.response = "answer"] ELSE Idle
           new == [id |-> req[r].row, user_id |-> req[r].owner,
                   document_id |-> req[r].document, answer |-> req[r].answer,
                   verification_verdict |-> req[r].verdict]
<1>1. /\ req[r] \in Request /\ Sound(req[r]) /\ req[r].pc = "flushed"
      /\ UNCHANGED <<shelf, spent, nextHistory>>
      /\ history' = history \cup {new}
  <2>1. req[r] \in Request /\ Sound(req[r])
    BY RequestsSound DEF IInv, TypeOK
  <2> QED
    BY <2>1 DEF CommitAnswer, CommitAnswerLost, Store, At
<1>2. /\ x \in Request /\ x.pc \in {"reply", "idle"} /\ Sound(x)
      /\ x.response # "failed"
      /\ x.response = "answer" =>
           /\ x.row = req[r].row /\ x.owner = req[r].owner
           /\ x.document = req[r].document /\ x.answer = req[r].answer
           /\ x.verdict = req[r].verdict
  <2>1. CASE CommitAnswer(r)
    <3> DEFINE y == [req[r] EXCEPT !.pc = "reply", !.locked = {}, !.response = "answer"]
    <3>1. /\ y \in Request /\ y.pc = "reply" /\ y.response = "answer"
          /\ y.row = req[r].row /\ y.owner = req[r].owner
          /\ y.document = req[r].document /\ y.answer = req[r].answer
          /\ y.verdict = req[r].verdict /\ y.found = req[r].found /\ y.locked = {}
      BY <1>1 DEF Request, Steps
    <3>2. x = y  BY <2>1
    <3> HIDE DEF x, y
    <3>3. Sound(y)  BY <1>1, <3>1 DEF Sound, Deleting
    <3> QED  BY <3>1, <3>2, <3>3
  <2>2. CASE ~CommitAnswer(r)
    <3>1. x = Idle  BY <2>2
    <3> HIDE DEF x
    <3> QED  BY <3>1, IdleSound
  <2> QED  BY <2>1, <2>2
<1>3. Become(r, x)  BY DEF CommitAnswer, CommitAnswerLost, Reply, Drop
<1>4. /\ new.id = req[r].row /\ new.user_id = req[r].owner
      /\ new.document_id = req[r].document /\ new.answer = req[r].answer
      /\ new.verification_verdict = req[r].verdict
  OBVIOUS
<1>5. new \in HistoryRow
  <2>1. req[r].row \in Nat \ {0} /\ req[r].owner \in Owners
    BY <1>1 DEF IInv, RowsApart, Sound, Request, At
  <2> QED  BY <1>1, <2>1 DEF HistoryRow, Request
<1> HIDE DEF x, new
<1>6. /\ req' \in [Requests -> Request] /\ req'[r] = x
      /\ \A q \in Requests \ {r} : req'[q] = req[q]
  BY <1>2, <1>3, Others
<1>7. \A q \in Requests : Sound(req[q])'
  BY <1>1, <1>2, <1>3, OthersSound
<1>8. \A h \in history' : h.answer = NoAnswer => h.verification_verdict = "unsupported"
  BY <1>1, <1>4 DEF IInv, SupportedByContext, Sound
<1>9. (FailedMeansDeleted /\ SupportedByContext /\ AskedOwn /\ DeletesLock /\ VerdictLate)'
  BY <1>7, <1>8, SoundRequests
<1>10. TypeOK' /\ ShelfApart'
  BY <1>1, <1>5, <1>6 DEF IInv, TypeOK, ShelfApart
<1>11. HistoryOwned'
  <2>1. new.document_id # NoDocument => Owned(new.user_id, new.document_id)
    BY <1>1, <1>4 DEF IInv, LocksHeld, OnShelf, Owned, Sound, At
  <2> QED  BY <1>1, <2>1 DEF IInv, HistoryOwned, Owned
<1>12. \A h \in history : h.id # new.id
  BY <1>1, <1>4 DEF IInv, RowsApart, At
<1>13. AnswersRecorded'
  <2>1. \A h1, h2 \in history' : h1.id = h2.id => h1 = h2
    BY <1>1, <1>12 DEF IInv, AnswersRecorded
  <2>2. ASSUME NEW q \in Requests, req'[q].response = "answer"
        PROVE  \/ \E h \in history' :
                    /\ h.id = req'[q].row /\ h.user_id = req'[q].owner
                    /\ h.document_id = req'[q].document /\ h.answer = req'[q].answer
                    /\ h.verification_verdict = req'[q].verdict
               \/ req'[q].document # NoDocument /\ \A v \in shelf : v.id # req'[q].document
    <3>1. CASE q = r
      BY <1>1, <1>2, <1>4, <1>6, <2>2, <3>1
    <3>2. CASE q # r
      BY <1>1, <1>6, <2>2, <3>2 DEF IInv, AnswersRecorded, OnShelf
    <3> QED  BY <3>1, <3>2
  <2> QED  BY <1>1, <2>1, <2>2 DEF AnswersRecorded, OnShelf
<1>14. ASSUME NEW q \in Requests, req'[q].pc = "flushed"
       PROVE  q # r /\ req'[q] = req[q]
  BY <1>2, <1>6, <1>14
<1>15. RowsApart'
  <2>1. new.id < nextHistory  BY <1>1, <1>4 DEF IInv, RowsApart, At
  <2>2. \A q \in Requests : req'[q].pc = "flushed" => req'[q].row # new.id
    BY <1>1, <1>4, <1>14 DEF IInv, RowsApart, At
  <2> QED  BY <1>1, <1>14, <2>1, <2>2 DEF IInv, RowsApart, At
<1>16. LocksHeld'
  BY <1>1, <1>2, <1>6, <1>14 DEF IInv, LocksHeld, DeletePending, OnShelf, At
<1> QED
  BY <1>9, <1>10, <1>11, <1>13, <1>15, <1>16 DEF IInv

\* The steps of a delete up to its COMMIT.  No row that refers to the document
\* is open when its flush reaches the document, nor becomes open afterwards.
LEMMA DeleteStep ==
  ASSUME IInv, NEW r \in Requests,
         LoadHistory(r) \/ DeleteHistory(r) \/ DeleteFlush(r) \/ Cascade(r)
  PROVE  IInv'
<1>1. /\ req[r] \in Request /\ Sound(req[r])
      /\ UNCHANGED <<shelf, spent, history, nextHistory>>
      /\ nextHistory' \in Nat /\ nextHistory <= nextHistory'
  <2>1. req[r] \in Request /\ Sound(req[r]) /\ nextHistory \in Nat
    BY RequestsSound DEF IInv, TypeOK
  <2>2. UNCHANGED <<shelf, spent, history, nextHistory>>
    BY DEF LoadHistory, DeleteHistory, DeleteFlush, Cascade
  <2> QED  BY <2>1, <2>2
<1>2. HistoryOf(req[r].document) \in SUBSET Nat
  BY DEF HistoryOf, IInv, TypeOK, HistoryRow
<1>3. ASSUME req[r].pc \in Deleting,
             NEW pc \in Deleting, pc # "delete",
             NEW loaded \in SUBSET Nat, NEW locked \in SUBSET Nat,
             Become(r, [req[r] EXCEPT !.pc = pc, !.loaded = loaded, !.locked = locked]),
             pc \in {"deleting", "deleted"} =>
               \A q \in Requests \ {r} : ~RefersTo(q, req[r].document)
      PROVE  IInv'
  <2> DEFINE x == [req[r] EXCEPT !.pc = pc, !.loaded = loaded, !.locked = locked]
  <2>1. /\ x \in Request /\ x.pc = pc /\ x.response = req[r].response
        /\ x.owner = req[r].owner /\ x.document = req[r].document
        /\ x.found = req[r].found /\ x.answer = req[r].answer
        /\ x.verdict = req[r].verdict
    BY <1>1, <1>3 DEF Request, Steps, Deleting
  <2>2. Become(r, x)  BY <1>3
  <2> HIDE DEF x
  <2>3. Sound(x) /\ x.response = "none"
    BY <1>1, <1>3, <2>1 DEF Sound, Deleting
  <2>4. x.pc # "flushed" /\ x.response # "answer"
    BY <1>3, <2>1, <2>3 DEF Deleting
  <2> QED  BY <1>1, <1>3, <2>1, <2>2, <2>3, <2>4, QuietStep
<1>4. req[r].loaded \in SUBSET Nat /\ req[r].locked \in SUBSET Nat
  BY <1>1 DEF Request
<1>5. CASE LoadHistory(r)
  <2>1. Become(r, [req[r] EXCEPT !.pc = "flush", !.loaded = HistoryOf(req[r].document),
                                 !.locked = req[r].locked])
    BY <1>1, <1>5 DEF LoadHistory, Become, Request
  <2>2. req[r].pc \in Deleting  BY <1>5 DEF LoadHistory, At, Deleting
  <2> QED  BY <1>2, <1>3, <1>4, <2>1, <2>2 DEF Deleting
<1>6. CASE DeleteHistory(r)
  <2> DEFINE loaded == req[r].loaded \ NextLoaded(r)
             locked == req[r].locked
                         \cup (NextLoaded(r) \cap HistoryOf(req[r].document))
  <2>1. Become(r, [req[r] EXCEPT !.pc = "flush", !.loaded = loaded, !.locked = locked])
    BY <1>1, <1>6 DEF DeleteHistory, Become, Request, At
  <2>2. req[r].pc \in Deleting  BY <1>6 DEF DeleteHistory, At, Deleting
  <2>3. loaded \in SUBSET Nat /\ locked \in SUBSET Nat  BY <1>2, <1>4
  <2> HIDE DEF loaded, locked
  <2> QED  BY <1>3, <2>1, <2>2, <2>3 DEF Deleting
<1>7. CASE DeleteFlush(r)
  <2>1. Become(r, [req[r] EXCEPT !.pc = "deleting", !.loaded = req[r].loaded,
                                 !.locked = req[r].locked])
    BY <1>1, <1>7 DEF DeleteFlush, Goto, Become, Request
  <2>2. req[r].pc \in Deleting  BY <1>7 DEF DeleteFlush, At, Deleting
  <2>3. \A q \in Requests \ {r} : ~RefersTo(q, req[r].document)
    BY <1>7 DEF DeleteFlush, Granted, Waits
  <2> QED  BY <1>3, <1>4, <2>1, <2>2, <2>3 DEF Deleting
<1>8. CASE Cascade(r)
  <2>1. req[r].pc = "deleting" /\ req[r].pc \in Deleting
    BY <1>8 DEF Cascade, At, Deleting
  <2>2. PICK free \in SUBSET HistoryOf(req[r].document), pc \in {"deleting", "deleted"} :
          Become(r, [req[r] EXCEPT !.pc = pc, !.locked = @ \cup free])
    <3> DEFINE rest == HistoryOf(req[r].document) \ req[r].locked
               free == {id \in rest : \A q \in Requests \ {r} : id \notin req[q].locked}
               pc == IF free = rest THEN "deleted" ELSE "deleting"
    <3>1. Become(r, [req[r] EXCEPT !.pc = pc, !.locked = @ \cup free])
      BY <1>8 DEF Cascade
    <3>2. free \in SUBSET HistoryOf(req[r].document) /\ pc \in {"deleting", "deleted"}
      OBVIOUS
    <3> HIDE DEF free, pc
    <3> QED  BY <3>1, <3>2
  <2>3. Become(r, [req[r] EXCEPT !.pc = pc, !.loaded = req[r].loaded,
                                 !.locked = req[r].locked \cup free])
    BY <1>1, <2>2 DEF Become, Request
  <2>4. \A q \in Requests \ {r} : ~RefersTo(q, req[r].document)
    BY <1>1, <2>1 DEF IInv, LocksHeld, DeletePending, RefersTo, Sound
  <2>5. req[r].locked \cup free \in SUBSET Nat  BY <1>2, <1>4
  <2>6. pc \in Deleting /\ pc # "delete"  BY DEF Deleting
  <2> QED  BY <1>3, <1>4, <2>1, <2>3, <2>4, <2>5, <2>6
<1> QED  BY <1>5, <1>6, <1>7, <1>8

\* The COMMIT of a delete takes the rows of history with the document: no
\* uncommitted row refers to it, and no answer about it is owed to history.
LEMMA DeleteCommitStep ==
  ASSUME IInv, NEW r \in Requests, DeleteCommit(r) \/ DeleteLost(r)
  PROVE  IInv'
<1> DEFINE x == IF DeleteCommit(r)
                THEN [req[r] EXCEPT !.pc = "reply", !.locked = {}, !.response = "deleted"] ELSE Idle
           d == req[r].document
<1>1. /\ req[r] \in Request /\ Sound(req[r]) /\ req[r].pc = "deleted"
      /\ d # NoDocument
      /\ UNCHANGED <<spent, nextHistory>>
      /\ shelf' = {v \in shelf : v.id # d}
      /\ history' = {h \in history : h.document_id # d}
  <2>1. req[r] \in Request /\ Sound(req[r])
    BY RequestsSound DEF IInv, TypeOK
  <2> QED  BY <2>1 DEF DeleteCommit, DeleteLost, Remove, Sound, Deleting, At
<1>2. x \in Request /\ x.pc \in {"reply", "idle"} /\ Sound(x)
      /\ x.response \notin {"answer", "failed"}
  <2>1. CASE DeleteCommit(r)
    <3> DEFINE y == [req[r] EXCEPT !.pc = "reply", !.locked = {}, !.response = "deleted"]
    <3>1. /\ y \in Request /\ y.pc = "reply" /\ y.response = "deleted"
          /\ y.owner = req[r].owner /\ y.document = req[r].document
          /\ y.answer = req[r].answer /\ y.verdict = req[r].verdict
          /\ y.found = req[r].found /\ y.locked = {}
      BY <1>1 DEF Request, Steps
    <3>2. x = y  BY <2>1
    <3> HIDE DEF x, y
    <3>3. Sound(y)  BY <1>1, <3>1 DEF Sound, Deleting
    <3> QED  BY <3>1, <3>2, <3>3
  <2>2. CASE ~DeleteCommit(r)
    <3>1. x = Idle  BY <2>2
    <3> HIDE DEF x
    <3> QED  BY <3>1, IdleSound
  <2> QED  BY <2>1, <2>2
<1>3. Become(r, x)  BY DEF DeleteCommit, DeleteLost, Reply, Drop
<1> HIDE DEF x, d
<1>4. /\ req' \in [Requests -> Request] /\ req'[r] = x
      /\ \A q \in Requests \ {r} : req'[q] = req[q]
  BY <1>2, <1>3, Others
<1>5. \A q \in Requests : Sound(req'[q])
  BY <1>2, <1>4, RequestsSound
<1>6. \A q \in Requests : Sound(req[q])'
  BY <1>1, <1>5 DEF Sound
<1>7. \A h \in history' : h.answer = NoAnswer => h.verification_verdict = "unsupported"
  BY <1>1 DEF IInv, SupportedByContext
<1>8. (FailedMeansDeleted /\ SupportedByContext /\ AskedOwn /\ DeletesLock /\ VerdictLate)'
  BY <1>6, <1>7, SoundRequests
<1>9. TypeOK' /\ ShelfApart'
  BY <1>1, <1>4 DEF IInv, TypeOK, ShelfApart
<1>10. HistoryOwned'
  <2>1. ASSUME NEW h \in history', h.document_id # NoDocument
        PROVE  \E v \in shelf' : v.id = h.document_id /\ v.owner_id = h.user_id
    <3>1. h \in history /\ h.document_id # d  BY <1>1, <2>1
    <3>2. PICK v \in shelf : v.id = h.document_id /\ v.owner_id = h.user_id
      BY <2>1, <3>1 DEF IInv, HistoryOwned, Owned
    <3> QED  BY <1>1, <3>1, <3>2
  <2> QED  BY <2>1 DEF HistoryOwned, Owned
<1>11. AnswersRecorded'
  <2>1. \A h1, h2 \in history' : h1.id = h2.id => h1 = h2
    BY <1>1 DEF IInv, AnswersRecorded
  <2>2. ASSUME NEW q \in Requests, req'[q].response = "answer"
        PROVE  \/ \E h \in history' :
                    /\ h.id = req'[q].row /\ h.user_id = req'[q].owner
                    /\ h.document_id = req'[q].document /\ h.answer = req'[q].answer
                    /\ h.verification_verdict = req'[q].verdict
               \/ req'[q].document # NoDocument /\ \A v \in shelf' : v.id # req'[q].document
    <3>1. q # r /\ req'[q] = req[q]  BY <1>2, <1>4, <2>2
    <3>2. CASE req[q].document = d
      BY <1>1, <3>1, <3>2
    <3>3. CASE req[q].document # d
      BY <1>1, <2>2, <3>1, <3>3 DEF IInv, AnswersRecorded, OnShelf
    <3> QED  BY <3>2, <3>3
  <2> QED  BY <2>1, <2>2 DEF AnswersRecorded, OnShelf
<1>12. ASSUME NEW q \in Requests, req'[q].pc = "flushed"
       PROVE  q # r /\ req'[q] = req[q]
  BY <1>2, <1>4, <1>12
<1>13. RowsApart'
  BY <1>1, <1>12 DEF IInv, RowsApart, At
<1>14. LocksHeld'
  <2>1. ASSUME NEW q \in Requests, req'[q].pc = "flushed", req'[q].document # NoDocument
        PROVE  /\ \E v \in shelf' : v.id = req'[q].document
               /\ \A p \in Requests :
                    ~(/\ req'[p].pc \in {"deleting", "deleted"}
                      /\ req'[p].document = req'[q].document)
    <3>1. q # r /\ req'[q] = req[q]  BY <1>12, <2>1
    <3>2. /\ \E v \in shelf : v.id = req[q].document
          /\ \A p \in Requests :
               ~(/\ req[p].pc \in {"deleting", "deleted"}
                 /\ req[p].document = req[q].document)
      BY <2>1, <3>1 DEF IInv, LocksHeld, OnShelf, DeletePending, At
    <3>3. req[q].document # d  BY <1>1, <3>2 DEF d
    <3> QED  BY <1>1, <1>2, <1>4, <3>1, <3>2, <3>3
  <2> QED  BY <2>1 DEF LocksHeld, OnShelf, DeletePending, At
<1> QED
  BY <1>8, <1>9, <1>10, <1>11, <1>13, <1>14 DEF IInv

\* A new document has an id no request and no row of history has heard of.
LEMMA UploadStep ==
  ASSUME IInv, NEW o \in Owners, UploadDocument(o)
  PROVE  IInv'
<1>1. PICK d \in DocumentIds, new \in Volume :
        /\ d \notin spent /\ spent' = spent \cup {d}
        /\ new.id = d /\ shelf' = shelf \cup {new}
  <2>1. ASSUME NEW d \in DocumentIds, NEW ids \in SUBSET ChunkIds, Publish(d, o, ids)
        PROVE  \E new \in Volume :
                 /\ d \notin spent /\ spent' = spent \cup {d}
                 /\ new.id = d /\ shelf' = shelf \cup {new}
    <3> DEFINE v == [id |-> d, owner_id |-> o,
                     status |-> "processed", searchable |-> ids]
    <3>1. v \in Volume /\ v.id = d  BY DEF Volume
    <3>2. shelf' = shelf \cup {v}  BY <2>1 DEF Publish
    <3> QED  BY <2>1, <3>1, <3>2 DEF Publish
  <2>2. ASSUME NEW d \in DocumentIds, RecordFailure(d, o)
        PROVE  \E new \in Volume :
                 /\ d \notin spent /\ spent' = spent \cup {d}
                 /\ new.id = d /\ shelf' = shelf \cup {new}
    <3> DEFINE v == [id |-> d, owner_id |-> o,
                     status |-> "failed", searchable |-> {}]
    <3>1. v \in Volume /\ v.id = d  BY DEF Volume
    <3>2. shelf' = shelf \cup {v}  BY <2>2 DEF RecordFailure
    <3> QED  BY <2>2, <3>1, <3>2 DEF RecordFailure
  <2> QED  BY <2>1, <2>2 DEF UploadDocument
<1>2. UNCHANGED <<history, nextHistory, req>>  BY DEF UploadDocument
<1>3. /\ \A q \in Requests : req[q].document # NoDocument => req[q].document # d
      /\ \A v \in shelf : v.id # d
  BY <1>1, RequestsSound DEF Sound, IInv, ShelfApart
<1>4. \A q \in Requests : Sound(req[q])'
  <2>1. d # NoDocument
    BY AnswerServiceAssumption DEF NoDocument
  <2> QED  BY <1>1, <1>2, <1>3, <2>1, RequestsSound DEF Sound
<1>5. \A h \in history' : h.answer = NoAnswer => h.verification_verdict = "unsupported"
  BY <1>2 DEF IInv, SupportedByContext
<1>6. (FailedMeansDeleted /\ SupportedByContext /\ AskedOwn /\ DeletesLock /\ VerdictLate)'
  BY <1>4, <1>5, SoundRequests
<1>7. ShelfApart'
  BY <1>1, <1>3 DEF IInv, ShelfApart
<1>8. TypeOK' /\ HistoryOwned'
  BY <1>1, <1>2 DEF IInv, TypeOK, HistoryOwned, Owned
<1>9. AnswersRecorded'
  BY <1>1, <1>2, <1>3 DEF IInv, AnswersRecorded, OnShelf
<1>10. RowsApart' /\ LocksHeld'
  BY <1>1, <1>2 DEF IInv, RowsApart, LocksHeld, OnShelf, DeletePending, At
<1> QED  BY <1>6, <1>7, <1>8, <1>9, <1>10 DEF IInv

\* An id that is used up was nobody's, and now never will be.
LEMMA RolledBackStep ==
  ASSUME IInv, UploadRolledBack
  PROVE  IInv'
<1>1. PICK d \in DocumentIds : spent' = spent \cup {d}
  BY DEF UploadRolledBack, Forfeit
<1>2. UNCHANGED <<shelf, history, nextHistory, req>>
  BY DEF UploadRolledBack, Forfeit
<1>3. \A q \in Requests : Sound(req[q])'
  BY <1>1, <1>2, RequestsSound DEF Sound
<1>4. \A h \in history' : h.answer = NoAnswer => h.verification_verdict = "unsupported"
  BY <1>2 DEF IInv, SupportedByContext
<1>5. (FailedMeansDeleted /\ SupportedByContext /\ AskedOwn /\ DeletesLock /\ VerdictLate)'
  BY <1>3, <1>4, SoundRequests
<1>6. TypeOK' /\ HistoryOwned' /\ AnswersRecorded' /\ ShelfApart'
  BY <1>1, <1>2 DEF IInv, TypeOK, HistoryOwned, Owned, AnswersRecorded,
     OnShelf, ShelfApart
<1>7. RowsApart' /\ LocksHeld'
  BY <1>2 DEF IInv, RowsApart, LocksHeld, OnShelf, DeletePending, At
<1> QED  BY <1>5, <1>6, <1>7 DEF IInv

LEMMA CrashStep ==
  ASSUME IInv, Crash
  PROVE  IInv'
<1> DEFINE x == Idle
<1>1. /\ x \in Request /\ Sound(x) /\ x.pc = "idle" /\ x.response = "none"
  BY IdleSound
<1>2. UNCHANGED <<shelf, spent, history, nextHistory>>
      /\ req' = [r \in Requests |-> x]
  BY DEF Crash
<1> HIDE DEF x
<1>3. req' \in [Requests -> Request] /\ \A q \in Requests : req'[q] = x
  BY <1>1, <1>2
<1>4. \A q \in Requests : Sound(req[q])'
  BY <1>1, <1>2, <1>3 DEF Sound
<1>5. \A h \in history' : h.answer = NoAnswer => h.verification_verdict = "unsupported"
  BY <1>2 DEF IInv, SupportedByContext
<1>6. (FailedMeansDeleted /\ SupportedByContext /\ AskedOwn /\ DeletesLock /\ VerdictLate)'
  BY <1>4, <1>5, SoundRequests
<1>7. TypeOK' /\ HistoryOwned' /\ ShelfApart' /\ AnswersRecorded'
  BY <1>1, <1>2, <1>3 DEF IInv, TypeOK, HistoryOwned, Owned, ShelfApart, AnswersRecorded
<1>8. RowsApart' /\ LocksHeld'
  BY <1>1, <1>2, <1>3 DEF IInv, RowsApart, LocksHeld, At
<1> QED  BY <1>6, <1>7, <1>8 DEF IInv

LEMMA NextInvariant ==
  ASSUME IInv, [Next]_vars
  PROVE  IInv'
<1>1. CASE UNCHANGED vars
  <2>1. UNCHANGED <<shelf, spent, history, nextHistory, req>>
    BY <1>1 DEF vars
  <2>2. TypeOK' /\ HistoryOwned' /\ AnswersRecorded' /\ SupportedByContext'
        /\ FailedMeansDeleted'
    BY <2>1 DEF IInv, TypeOK, HistoryOwned, Owned, AnswersRecorded, OnShelf,
       SupportedByContext, FailedMeansDeleted
  <2>3. ShelfApart' /\ RowsApart' /\ AskedOwn' /\ LocksHeld' /\ DeletesLock'
        /\ VerdictLate'
    BY <2>1 DEF IInv, ShelfApart, RowsApart, AskedOwn, LocksHeld, OnShelf,
       DeletePending, DeletesLock, VerdictLate, At
  <2> QED  BY <2>2, <2>3 DEF IInv
<1>2. ASSUME NEW r \in Requests,
             \/ \E o \in Owners : Arrive(r, o)
             \/ Proceed(r) \/ Lock(r) \/ Abort(r) \/ Deadlock(r)
      PROVE  IInv'
  BY <1>2, ArriveStep, LeaveStep, AnswerStep, RecordStep, CommitStep,
     DeleteStep, DeleteCommitStep DEF Proceed, Lock
<1>3. ASSUME NEW o \in Owners, UploadDocument(o)
      PROVE  IInv'
  BY <1>3, UploadStep
<1>4. CASE UploadRolledBack  BY <1>4, RolledBackStep
<1>5. CASE Crash  BY <1>5, CrashStep
<1> QED  BY <1>1, <1>2, <1>3, <1>4, <1>5 DEF Next

\* The strengthened invariant, for every number of requests and documents.
THEOREM InvariantTheorem == Spec => []IInv
<1>1. Init => IInv  BY InitInvariant
<1>2. IInv /\ [Next]_vars => IInv'  BY NextInvariant
<1> QED  BY <1>1, <1>2, PTL DEF Spec

\* The variables keep to their types.
THEOREM TypeTheorem == Spec => []TypeOK
<1>1. IInv => TypeOK  BY DEF IInv
<1> QED  BY <1>1, InvariantTheorem, PTL

\* History of a document question is about an existing document of the asker.
THEOREM HistoryOwnedTheorem == Spec => []HistoryOwned
<1>1. IInv => HistoryOwned  BY DEF IInv
<1> QED  BY <1>1, InvariantTheorem, PTL

\* An answer given is recorded as it was given, once.
THEOREM AnswersRecordedTheorem == Spec => []AnswersRecorded
<1>1. IInv => AnswersRecorded  BY DEF IInv
<1> QED  BY <1>1, InvariantTheorem, PTL

\* Nothing is supported without context.
THEOREM SupportedTheorem == Spec => []SupportedByContext
<1>1. IInv => SupportedByContext  BY DEF IInv
<1> QED  BY <1>1, InvariantTheorem, PTL

\* A question fails at its INSERT for one reason only, and for good.
THEOREM FailedMeansDeletedTheorem == Spec => []FailedMeansDeleted
<1>1. IInv => FailedMeansDeleted  BY DEF IInv
<1> QED  BY <1>1, InvariantTheorem, PTL

\* Who waits is a question at its INSERT or a delete; who is waited for is a
\* question after its INSERT or a delete.  Of a ring, questions are no part.
LEMMA RingOfDeletes ==
  ASSUME IInv, NEW r \in Requests, Deadlocked(r)
  PROVE  req[r].pc \in {"flush", "deleting"}
<1>1. PICK ring \in SUBSET Requests :
        /\ r \in ring
        /\ (\E p \in ring : Waits(r, p)) /\ (\E p \in ring : Waits(p, r))
  BY DEF Deadlocked
<1>2. PICK p \in Requests : Waits(r, p)  BY <1>1
<1>3. PICK q \in Requests : Waits(q, r)  BY <1>1
<1>4. req[r].pc \in {"record", "flush", "deleting"}
  BY <1>2 DEF Waits, At
<1>5. req[r].pc \in {"flushed", "deleting", "deleted"} \/ req[r].locked # {}
  BY <1>3 DEF Waits, DeletePending, RefersTo, At
<1> QED  BY <1>4, <1>5 DEF IInv, DeletesLock

\* Only deletes that still wait for a lock are ended to break a ring.
THEOREM DeadlockTheorem == Spec => []QuestionsNotDeadlocked
<1>1. IInv => QuestionsNotDeadlocked
  BY RingOfDeletes DEF QuestionsNotDeadlocked
<1> QED  BY <1>1, InvariantTheorem, PTL

\* A COMMIT of an answer writes one entry, about a document of the asker.
LEMMA CommitRecords ==
  ASSUME IInv, NEW r \in Requests, CommitAnswer(r) \/ CommitAnswerLost(r)
  PROVE  Book!Record
<1>1. PICK e : /\ history' = history \cup {e}
               /\ e.id = req[r].row /\ e.user_id = req[r].owner
               /\ e.document_id = req[r].document
  <2> DEFINE e == [id |-> req[r].row, user_id |-> req[r].owner,
                   document_id |-> req[r].document, answer |-> req[r].answer,
                   verification_verdict |-> req[r].verdict]
  <2>1. history' = history \cup {e}
    BY DEF CommitAnswer, CommitAnswerLost, Store
  <2>2. e.id = req[r].row /\ e.user_id = req[r].owner /\ e.document_id = req[r].document
    OBVIOUS
  <2> HIDE DEF e
  <2> QED  BY <2>1, <2>2
<1>2. At(r, "flushed") /\ UNCHANGED <<shelf, spent>>
  BY DEF CommitAnswer, CommitAnswerLost
<1>3. \A h \in history : h.id # e.id
  BY <1>1, <1>2 DEF IInv, RowsApart
<1>4. ASSUME e.document_id # NoDocument
      PROVE  \E v \in shelf : v.id = e.document_id /\ v.owner_id = e.user_id
  BY <1>1, <1>2, <1>4 DEF IInv, LocksHeld, OnShelf, AskedOwn
<1>5. e \in history' \ history
  BY <1>1, <1>3
<1> QED  BY <1>1, <1>2, <1>3, <1>4, <1>5 DEF Book!Record

\* An upload is one of the library's.
LEMMA UploadShelves ==
  ASSUME (\E o \in Owners : UploadDocument(o)) \/ UploadRolledBack
  PROVE  Book!Shelve
<1>1. ASSUME NEW o \in Owners, NEW d \in DocumentIds,
             (\E ids \in SUBSET ChunkIds : Publish(d, o, ids)) \/ RecordFailure(d, o)
      PROVE  Book!Upload
  BY <1>1 DEF Publish, RecordFailure, Book!Upload, Book!Publish, Book!RecordFailure
<1>2. ASSUME NEW d \in DocumentIds, Forfeit({d})
      PROVE  Book!Upload
  <2>1. {d} \in SUBSET DocumentIds /\ Book!Forfeit({d})
    BY <1>2 DEF Forfeit, Book!Forfeit
  <2> QED  BY <2>1 DEF Book!Upload
<1> QED  BY <1>1, <1>2 DEF UploadDocument, UploadRolledBack, Book!Shelve

\* A delete takes a document and its entries, or finds both gone.
LEMMA DeleteWithdraws ==
  ASSUME IInv, NEW r \in Requests, DeleteCommit(r) \/ DeleteLost(r)
  PROVE  Book!BookNext \/ UNCHANGED <<shelf, spent, history>>
<1>1. PICK d : d = req[r].document
  OBVIOUS
<1>2. /\ shelf' = {v \in shelf : v.id # d} /\ UNCHANGED spent
      /\ history' = {h \in history : h.document_id # d}
  BY <1>1 DEF DeleteCommit, DeleteLost, Remove
<1>3. CASE OnShelf(d)
  <2>1. d \in DocumentIds
    BY <1>3 DEF IInv, TypeOK, Volume, OnShelf
  <2>2. Book!Withdraw(d)
    BY <1>2, <1>3 DEF OnShelf, Book!OnShelf, Book!Discard, Book!Withdraw
  <2> QED  BY <2>1, <2>2 DEF Book!BookNext
<1>4. CASE ~OnShelf(d)
  <2>1. d # NoDocument
    BY <1>1, RequestsSound DEF DeleteCommit, DeleteLost, At, Sound, Deleting
  <2>2. \A h \in history : h.document_id # d
    BY <1>4, <2>1 DEF IInv, HistoryOwned, Owned, OnShelf
  <2> QED  BY <1>2, <1>4, <2>2 DEF OnShelf
<1> QED  BY <1>3, <1>4

LEMMA BookStep ==
  ASSUME IInv, [Next]_vars
  PROVE  [Book!BookNext]_<<shelf, spent, history>>
<1>1. CASE (\E o \in Owners : UploadDocument(o)) \/ UploadRolledBack
  BY <1>1, UploadShelves DEF Book!BookNext
<1>2. ASSUME NEW r \in Requests, DeleteCommit(r) \/ DeleteLost(r)
      PROVE  [Book!BookNext]_<<shelf, spent, history>>
  BY <1>2, DeleteWithdraws
<1>3. ASSUME NEW r \in Requests, CommitAnswer(r) \/ CommitAnswerLost(r)
      PROVE  Book!BookNext
  BY <1>3, CommitRecords DEF Book!BookNext
<1>4. ASSUME NEW r \in Requests,
             \/ \E o \in Owners : Arrive(r, o)
             \/ Retrieve(r) \/ Generate(r) \/ Verify(r) \/ Record(r)
             \/ LoadHistory(r) \/ DeleteHistory(r) \/ DeleteFlush(r) \/ Cascade(r)
             \/ Return(r) \/ Abort(r) \/ Deadlock(r)
      PROVE  UNCHANGED <<shelf, spent, history>>
  BY <1>4 DEF Arrive, AskDocuments, AskDocument, DeleteDocument, NotFound,
     Retrieve, Generate, Verify, Record, LoadHistory, DeleteHistory,
     DeleteFlush, Cascade, Return, Abort, Deadlock
<1>5. CASE Crash  BY <1>5 DEF Crash
<1>6. CASE UNCHANGED vars  BY <1>6 DEF vars
<1> QED  BY <1>1, <1>2, <1>3, <1>4, <1>5, <1>6 DEF Next, Proceed, Lock

\* To its users the service is the book: answers are entered one by one, for
\* owners of documents that exist, stay as they are, and go with their document.
THEOREM ImplementsBookTheorem == Spec => ImplementsBook
<1>1. Init => Book!BookInit
  BY DEF Init, LibraryInit, Book!BookInit, Book!LibraryInit
<1>2. IInv /\ [Next]_vars => [Book!BookNext]_<<shelf, spent, history>>
  BY BookStep
<1> QED
  BY <1>1, <1>2, InvariantTheorem, PTL DEF Spec, ImplementsBook, Book!BookSpec

\* Questions are asked of documents that behave as DocumentIndex is proved to
\* make them behave: the service adds no step the library does not allow.
THEOREM UsesLibraryTheorem == Spec => LibrarySpec
<1>1. Book!BookInit => LibraryInit
  BY DEF Book!BookInit, Book!LibraryInit, LibraryInit
<1>2. [Book!BookNext]_<<shelf, spent, history>> => [LibraryNext]_<<shelf, spent>>
  <2>1. Book!Upload => Upload
    BY DEF Book!Upload, Upload, Book!Publish, Publish, Book!RecordFailure,
       RecordFailure, Book!Forfeit, Forfeit
  <2>2. ASSUME NEW d \in DocumentIds, Book!Withdraw(d) PROVE Discard(d)
    BY <2>2 DEF Book!Withdraw, Book!Discard, Book!OnShelf, Discard, OnShelf
  <2> QED
    BY <2>1, <2>2 DEF Book!BookNext, Book!Shelve, Book!Record, LibraryNext
<1> QED
  BY <1>1, <1>2, ImplementsBookTheorem, PTL
     DEF ImplementsBook, Book!BookSpec, LibrarySpec
=============================================================================

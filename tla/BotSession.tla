----------------------------- MODULE BotSession -----------------------------
(***************************************************************************)
(* The Telegram bot: what a user has chosen (the active document) and was  *)
(* last answered, kept per user and chat in the bot's memory, and the      *)
(* handlers that read and write it.  Every update has a handler of its     *)
(* own, and handlers of one user run concurrently: each await of a call to *)
(* the backend lets the others in.                                         *)
(*                                                                         *)
(* The backend is what DocumentLibrary shows of it, owners and documents.  *)
(* It takes a call at one moment and its answer reaches the bot later, or  *)
(* never; a call the bot has given up may still be carried out.  Handlers  *)
(* that change nothing but a message on the screen are left out, but for   *)
(* view_document, which shows the buttons that others need.                *)
(***************************************************************************)
EXTENDS Integers, FiniteSets

CONSTANTS
    Users,       \* Telegram users
    Chats,       \* chats, each with any of the users
    Handlers,    \* slots of updates the bot handles concurrently
    NoSession,   \* the session of an idle slot
    MaxDocument, \* bound on documents.id, an unbounded sequence in the code
    MaxLate      \* bound on calls under way that no handler awaits

ASSUME BotSessionAssumption ==
    /\ NoSession \notin Chats \X Users
    /\ MaxDocument \in Nat
    /\ MaxLate \in Nat

VARIABLES
    documents,     \* the documents of the backend
    nextDocument,  \* next value of the sequence behind documents.id
    late,          \* calls under way at the backend that no handler awaits
    session,       \* MemoryStorage
    shown,         \* documents with buttons in messages of a chat
    handler        \* the local state of each handler

vars == <<documents, nextDocument, late, session, shown, handler>>
backend == <<documents, nextDocument, late>>

NoDocument == 0  \* no active document; a question to all documents
NoAnswer == -1
DocumentIds == 1..MaxDocument
Scopes == DocumentIds \cup {NoDocument}
Sessions == Chats \X Users  \* the FSM key: a user in a chat
ChatOf(s) == s[1]
UserOf(s) == s[2]

Fresh == [active |-> NoDocument, last_answer |-> NoAnswer]

Buttons == {"view", "select", "delete"}      \* with a document id
ResetButtons == {"select_all", "unselect"}
Kinds == Buttons \cup ResetButtons \cup {"upload", "ask"}
Awaiting == {"upload", "delete", "list", "ask"}          \* the backend
Answered == {"uploaded", "listed", "answered"}
\* chosen and gone are history, which no handler looks at: what was active
\* since a question arrived, what was gone when a choice or a PDF did
Handler == [pc : {"idle"} \cup Awaiting \cup Answered, kind : Kinds,
            session : Sessions \cup {NoSession}, document : Scopes,
            listed : SUBSET DocumentIds,
            chosen : SUBSET Scopes, gone : SUBSET DocumentIds]
Idle == [pc |-> "idle", kind |-> "ask", session |-> NoSession,
         document |-> NoDocument, listed |-> {}, chosen |-> {}, gone |-> {}]

At(h, step) == handler[h].pc = step
Become(h, x) == handler' = [handler EXCEPT ![h] = x]
Goto(h, step) == Become(h, [handler[h] EXCEPT !.pc = step])
Drop(h) == Become(h, Idle)
Mine(h) == handler[h].session
Me(h) == UserOf(Mine(h))

Own(u) == {x.id : x \in {y \in documents : y.owner_id = u}}
Gone == {d \in DocumentIds : d < nextDocument /\ \A x \in documents : x.id # d}
-----------------------------------------------------------------------------
(* Updates from Telegram                                                   *)

Start(h, s, kind, step, d) ==
    /\ At(h, "idle")
    /\ Become(h, [Idle EXCEPT
         !.pc = step, !.kind = kind, !.session = s, !.document = d,
         !.chosen = IF kind = "ask" THEN {session[s].active} ELSE {},
         !.gone = IF kind \in {"select", "upload"} THEN Gone ELSE {}])
    /\ UNCHANGED <<backend, session, shown>>

SendQuestion(h, s) == Start(h, s, "ask", "list", NoDocument)

SendPdf(h, s) == Start(h, s, "upload", "upload", NoDocument)

\* A number of a list: lists show any of their user's documents, old and new.
PressView(h, s, d) ==
    d < nextDocument /\ Start(h, s, "view", "list", d)

\* Anyone in the chat can press a button, whoever's documents it is about.
PressSelect(h, s, d) ==
    d \in shown[ChatOf(s)] /\ Start(h, s, "select", "list", d)

PressDelete(h, s, d) ==
    d \in shown[ChatOf(s)] /\ Start(h, s, "delete", "delete", d)

\* Pressed with no document active, the button changes nothing.
PressSelectAll(h, s) ==
    /\ session[s].active # NoDocument
    /\ Start(h, s, "select_all", "list", NoDocument)

\* the same from a document's details: it remembers which one was active
PressUnselect(h, s) ==
    /\ session[s].active # NoDocument
    /\ Start(h, s, "unselect", "list", session[s].active)
-----------------------------------------------------------------------------
(* The backend                                                             *)

\* Defect: ids of documents are handed out twice.
AddReusingIds(u) ==
    /\ nextDocument \in DocumentIds
    /\ documents' = documents \cup {[id |-> nextDocument, owner_id |-> u]}
    /\ UNCHANGED nextDocument

Add(u) ==
    /\ nextDocument \in DocumentIds
    /\ documents' = documents \cup {[id |-> nextDocument, owner_id |-> u]}
    /\ nextDocument' = nextDocument + 1

\* A PDF without text is kept as a FAILED document and answered with 422.
ServeUpload(h) ==
    /\ At(h, "upload")
    /\ Add(Me(h))
    /\ \/ Become(h, [handler[h] EXCEPT !.pc = "uploaded", !.document = nextDocument])
       \/ Drop(h)
    /\ UNCHANGED <<late, session, shown>>

Remove(u, d) == documents' = documents \ {[id |-> d, owner_id |-> u]}

\* The bot asks for the new list before it looks at the session.
ServeDelete(h) ==
    /\ At(h, "delete")
    /\ IF handler[h].document \in Own(Me(h)) THEN Goto(h, "list") ELSE Drop(h)
    /\ Remove(Me(h), handler[h].document)
    /\ UNCHANGED <<nextDocument, late, session, shown>>

ServeList(h) ==
    /\ At(h, "list")
    /\ Become(h, [handler[h] EXCEPT !.pc = "listed", !.listed = Own(Me(h))])
    /\ UNCHANGED <<backend, session, shown>>

\* A question about a document that is not there is a 404.
ServeQuestion(h) ==
    /\ At(h, "ask")
    /\ IF handler[h].document \in Own(Me(h)) \cup {NoDocument}
       THEN Goto(h, "answered") ELSE Drop(h)
    /\ UNCHANGED <<backend, session, shown>>

\* A call whose handler has given up: carried out, and nobody is told.
ServeLate(call) ==
    /\ late' = late \ {call}
    /\ \/ call.kind = "upload" /\ Add(call.user)
       \/ /\ call.kind = "delete"
          /\ Remove(call.user, call.document)
          /\ UNCHANGED nextDocument
    /\ UNCHANGED <<session, shown, handler>>
-----------------------------------------------------------------------------
(* The handlers, once the backend has answered                             *)

\* set_active_document, the last that its handler does with the session; a
\* question at work in the same session lives through it
SetActive(h, d) ==
    /\ session' = [session EXCEPT ![Mine(h)].active = d]
    /\ handler' = [k \in Handlers |->
         IF k = h THEN Idle
         ELSE IF handler[k].session = Mine(h) /\ handler[k].kind = "ask"
         THEN [handler[k] EXCEPT !.chosen = @ \cup {d}]
         ELSE handler[k]]

LeaveActive(h) == Drop(h) /\ UNCHANGED session

View(h) ==
    /\ At(h, "listed") /\ handler[h].kind = "view"
    /\ shown' = IF handler[h].document \in handler[h].listed
                THEN [shown EXCEPT ![ChatOf(Mine(h))] = @ \cup {handler[h].document}]
                ELSE shown
    /\ Drop(h)
    /\ UNCHANGED <<backend, session>>

\* Defect: the button is believed.
SelectUnchecked(h) ==
    /\ At(h, "listed") /\ handler[h].kind = "select"
    /\ SetActive(h, handler[h].document)
    /\ UNCHANGED <<backend, shown>>

Select(h) ==
    /\ At(h, "listed") /\ handler[h].kind = "select"
    /\ IF handler[h].document \in handler[h].listed
       THEN SetActive(h, handler[h].document) ELSE LeaveActive(h)
    /\ UNCHANGED <<backend, shown>>

SelectAll(h) ==
    /\ At(h, "listed") /\ handler[h].kind = "select_all"
    /\ SetActive(h, NoDocument)
    /\ UNCHANGED <<backend, shown>>

\* A document that is gone cannot be unselected here, only by select_all.
Unselect(h) ==
    /\ At(h, "listed") /\ handler[h].kind = "unselect"
    /\ IF handler[h].document \in handler[h].listed
       THEN SetActive(h, NoDocument) ELSE LeaveActive(h)
    /\ UNCHANGED <<backend, shown>>

AfterDelete(h) ==
    /\ At(h, "listed") /\ handler[h].kind = "delete"
    /\ IF session[Mine(h)].active = handler[h].document
       THEN SetActive(h, NoDocument) ELSE LeaveActive(h)
    /\ UNCHANGED <<backend, shown>>

AfterUpload(h) ==
    /\ At(h, "uploaded")
    /\ SetActive(h, handler[h].document)
    /\ UNCHANGED <<backend, shown>>

\* Defect: a document that is not in the list is no reason not to answer.
AskAnyway(h) ==
    /\ At(h, "listed") /\ handler[h].kind = "ask"
    /\ IF handler[h].listed = {} THEN Drop(h)
       ELSE Become(h, [handler[h] EXCEPT
              !.pc = "ask",
              !.document = IF session[Mine(h)].active \in handler[h].listed
                           THEN session[Mine(h)].active ELSE NoDocument])
    /\ UNCHANGED <<backend, session, shown>>

\* Whoever has no document is told to send one.
Ask(h) ==
    /\ At(h, "listed") /\ handler[h].kind = "ask"
    /\ IF handler[h].listed = {} THEN Drop(h)
       ELSE Become(h, [handler[h] EXCEPT
              !.pc = "ask", !.document = session[Mine(h)].active])
    /\ UNCHANGED <<backend, session, shown>>

StoreAnswer(h) ==
    /\ At(h, "answered")
    /\ session' = [session EXCEPT ![Mine(h)].last_answer = handler[h].document]
    /\ Drop(h)
    /\ UNCHANGED <<backend, shown>>
-----------------------------------------------------------------------------
(* Failures                                                                *)

\* what the handlers in hs leave behind at the backend
Left(hs) ==
    {[kind |-> handler[h].pc, user |-> Me(h), document |-> handler[h].document] :
       h \in {k \in hs : handler[k].pc \in {"upload", "delete"}}}

LeaveBehind(hs) ==
    \E calls \in SUBSET Left(hs) :
      /\ late' = late \cup calls
      /\ calls # {} => Cardinality(late') <= MaxLate

\* Defect: no timeout; an answer is waited for.
GiveUpAnswered(h) ==
    /\ handler[h].pc \in Answered
    /\ Drop(h)
    /\ UNCHANGED <<backend, session, shown>>

\* An error status, an invalid answer, a broken connection or 60 seconds: the
\* user is told.  The call may have reached the backend, which does not stop.
GiveUp(h) ==
    /\ handler[h].pc \in Awaiting \cup Answered
    /\ LeaveBehind({h})
    /\ Drop(h)
    /\ UNCHANGED <<documents, nextDocument, session, shown>>

\* Messages and their buttons stay; the sessions are forgotten.
Restart ==
    /\ LeaveBehind(Handlers)
    /\ session' = [s \in Sessions |-> Fresh]
    /\ handler' = [h \in Handlers |-> Idle]
    /\ UNCHANGED <<documents, nextDocument, shown>>
-----------------------------------------------------------------------------
Update(h, s) ==
    \/ SendQuestion(h, s) \/ SendPdf(h, s)
    \/ PressSelectAll(h, s) \/ PressUnselect(h, s)
    \/ \E d \in DocumentIds :
         PressView(h, s, d) \/ PressSelect(h, s, d) \/ PressDelete(h, s, d)

Serve(h) == ServeUpload(h) \/ ServeDelete(h) \/ ServeList(h) \/ ServeQuestion(h)

Proceed(h) ==
    \/ View(h) \/ Select(h) \/ SelectAll(h) \/ Unselect(h)
    \/ AfterDelete(h) \/ AfterUpload(h)
    \/ Ask(h) \/ StoreAnswer(h)

Init ==
    /\ documents = {} /\ nextDocument = 1 /\ late = {}
    /\ session = [s \in Sessions |-> Fresh]
    /\ shown = [c \in Chats |-> {}]
    /\ handler = [h \in Handlers |-> Idle]

Next ==
    \/ \E h \in Handlers :
         \/ \E s \in Sessions : Update(h, s)
         \/ Serve(h) \/ Proceed(h) \/ GiveUp(h)
    \/ \E call \in late : ServeLate(call)
    \/ Restart

Spec == Init /\ [][Next]_vars

\* The event loop runs each handler, and no call lasts longer than its
\* timeout.  Nothing is assumed of the backend.
FairSpec == Spec /\ \A h \in Handlers : WF_vars(Proceed(h) \/ GiveUp(h))
-----------------------------------------------------------------------------
(* What the bot promises                                                   *)

\* The variables keep to their types; no id is ahead of the sequence.
TypeOK ==
    /\ documents \subseteq [id : DocumentIds, owner_id : Users]
    /\ nextDocument \in 1..(MaxDocument + 1)
    /\ \A x \in documents : x.id < nextDocument
    /\ late \subseteq [kind : {"upload", "delete"}, user : Users, document : Scopes]
    /\ session \in [Sessions -> [active : Scopes, last_answer : Scopes \cup {NoAnswer}]]
    /\ shown \in [Chats -> SUBSET DocumentIds]
    /\ handler \in [Handlers -> Handler]

\* What a user has chosen and was answered from is the user's own document or
\* is gone, whoever else presses buttons in the chat and however late answers
\* and deletes come: the list a choice is checked with is the user's.
OwnDocumentsOnly ==
    \A s \in Sessions, x \in documents :
      x.id \in {session[s].active, session[s].last_answer}
        => x.owner_id = UserOf(s)

\* A question goes to a document, or to all, that was chosen at some time
\* between its arrival and its answer: never to all because the chosen one
\* cannot be asked, and never to a choice the user had left before asking.
ScopeAsChosen ==
    \A h \in Handlers : handler[h].pc \in {"ask", "answered"} =>
      handler[h].document \in handler[h].chosen

\* A document that was gone before an update arrived is not made active by
\* that update, although old messages keep its buttons and deletes are
\* carried out late.  (One that goes while the update is handled may be.)
NeverReactivated ==
    [][\A s \in Sessions :
         session'[s].active \notin {session[s].active, NoDocument} =>
           \E h \in Handlers :
             /\ handler[h].session = s /\ handler'[h] = Idle
             /\ session'[s].active = handler[h].document
             /\ handler[h].document \notin handler[h].gone]_vars

\* Every update is handled to its end, whether the backend answers or not.
Served ==
    \A h \in Handlers : ~At(h, "idle") ~> At(h, "idle")
-----------------------------------------------------------------------------
(* Why they hold                                                           *)

\* Nobody else's, now or ever: ids are not handed out again.
Belongs(d, u) ==
    /\ d < nextDocument
    /\ \A x \in documents : x.id = d => x.owner_id = u

\* What a handler has read stays true while it waits: a list is of its user's
\* documents, and of none that was gone when the update arrived.
Knows(y) ==
    LET u == UserOf(y.session)
    IN /\ y.pc # "idle" => y.session \in Sessions
       /\ y.gone \subseteq Gone
       /\ y.pc = "listed" => \A d \in y.listed : Belongs(d, u) /\ d \notin y.gone
       /\ y.pc = "uploaded" => Belongs(y.document, u) /\ y.document \notin y.gone
       /\ y.pc = "answered" => Belongs(y.document, u)
       /\ y.pc # "idle" /\ y.kind = "ask" => session[y.session].active \in y.chosen
       /\ y.pc \in {"ask", "answered"} => y.kind = "ask" /\ y.document \in y.chosen

\* The inductive invariant.
IInv ==
    /\ TypeOK
    /\ \A x, y \in documents : x.id = y.id => x = y
    /\ \A s \in Sessions : /\ Belongs(session[s].active, UserOf(s))
                           /\ Belongs(session[s].last_answer, UserOf(s))
    /\ \A h \in Handlers : Knows(handler[h])
=============================================================================

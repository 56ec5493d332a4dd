------------------------- MODULE BotSessionProofs -------------------------
(***************************************************************************)
(* The bot's promises for any number of users, chats, concurrent handlers  *)
(* and late calls.  The backend only ever hands out new ids, so what a     *)
(* handler has read of it once (a document is its user's, a document is    *)
(* gone) is still true when it acts on it; and each handler acts on the    *)
(* session in one step.                                                    *)
(***************************************************************************)
EXTENDS BotSession, TLAPS

\* The part of the invariant that is about the backend.
BackendOK ==
    /\ documents \subseteq [id : DocumentIds, owner_id : Users]
    /\ nextDocument \in 1..(MaxDocument + 1)
    /\ \A x \in documents : x.id < nextDocument
    /\ \A x, y \in documents : x.id = y.id => x = y

\* What is read of the backend stays true.
Remains ==
    /\ \A d \in Scopes \cup {NoAnswer}, u \in Users : Belongs(d, u) => Belongs(d, u)'
    /\ Gone \subseteq Gone'

SessionsOK ==
    /\ session \in [Sessions -> [active : Scopes, last_answer : Scopes \cup {NoAnswer}]]
    /\ \A s \in Sessions : /\ Belongs(session[s].active, UserOf(s))
                           /\ Belongs(session[s].last_answer, UserOf(s))

LEMMA Numbers ==
  /\ MaxDocument \in Nat
  /\ DocumentIds \subseteq Nat \ {0}
  /\ NoDocument \in Scopes /\ Scopes \subseteq Nat
  /\ \A s \in Sessions : UserOf(s) \in Users /\ ChatOf(s) \in Chats
  /\ NoSession \notin Sessions
BY BotSessionAssumption DEF DocumentIds, NoDocument, Scopes, Sessions, UserOf, ChatOf

LEMMA Parts ==
  IInv <=> /\ BackendOK /\ SessionsOK
           /\ late \subseteq [kind : {"upload", "delete"}, user : Users, document : Scopes]
           /\ shown \in [Chats -> SUBSET DocumentIds]
           /\ handler \in [Handlers -> Handler]
           /\ \A h \in Handlers : Knows(handler[h])
BY DEF IInv, TypeOK, BackendOK, SessionsOK

\* Ids are not handed out again: what is gone is gone for good.
LEMMA BackendStep ==
  ASSUME BackendOK,
         \/ UNCHANGED <<documents, nextDocument>>
         \/ \E u \in Users : Add(u)
         \/ \E u \in Users, d \in Scopes : Remove(u, d) /\ UNCHANGED nextDocument
  PROVE  BackendOK' /\ Remains
<1>1. CASE UNCHANGED <<documents, nextDocument>>
  BY <1>1 DEF BackendOK, Remains, Belongs, Gone
<1>2. ASSUME NEW u \in Users, Add(u)  PROVE BackendOK' /\ Remains
  <2> DEFINE new == [id |-> nextDocument, owner_id |-> u]
  <2>1. /\ new \in [id : DocumentIds, owner_id : Users]
        /\ new.id = nextDocument /\ nextDocument \in DocumentIds
        /\ documents' = documents \cup {new} /\ nextDocument' = nextDocument + 1
    BY <1>2 DEF Add
  <2> HIDE DEF new
  <2>2. BackendOK'
    BY <2>1, Numbers DEF BackendOK, DocumentIds
  <2>3. Remains
    <3>1. nextDocument \in Nat /\ nextDocument' = nextDocument + 1
      BY <2>1, Numbers
    <3>2. ASSUME NEW d \in Scopes \cup {NoAnswer}, NEW v \in Users, Belongs(d, v)
          PROVE  Belongs(d, v)'
      BY <2>1, <3>1, <3>2, Numbers DEF Belongs, NoAnswer
    <3>3. Gone \subseteq Gone'
      <4>1. ASSUME NEW d \in Gone  PROVE d \in Gone'
        <5>1. d \in DocumentIds /\ d \in Nat /\ d < nextDocument
              /\ \A x \in documents : x.id # d
          BY Numbers DEF Gone
        <5>2. d < nextDocument' /\ new.id # d
          BY <2>1, <3>1, <5>1
        <5>3. \A x \in documents' : x.id # d
          BY <2>1, <5>1, <5>2
        <5> QED  BY <5>1, <5>2, <5>3 DEF Gone
      <4> QED  BY <4>1
    <3> QED  BY <3>2, <3>3 DEF Remains
  <2> QED  BY <2>2, <2>3
<1>3. ASSUME NEW u \in Users, NEW d \in Scopes, Remove(u, d), UNCHANGED nextDocument
      PROVE  BackendOK' /\ Remains
  <2>1. documents' \subseteq documents /\ nextDocument' = nextDocument
    BY <1>3 DEF Remove
  <2> QED  BY <2>1 DEF BackendOK, Remains, Belongs, Gone
<1> QED  BY <1>1, <1>2, <1>3

LEMMA NothingBelongs ==
  ASSUME BackendOK, NEW u \in Users
  PROVE  Belongs(NoDocument, u) /\ Belongs(NoAnswer, u)
BY Numbers DEF BackendOK, Belongs, NoDocument, NoAnswer, DocumentIds

\* A document the backend shows to u
LEMMA OwnBelong ==
  ASSUME BackendOK, NEW u \in Users
  PROVE  /\ Own(u) \subseteq DocumentIds
         /\ \A d \in Own(u) : Belongs(d, u) /\ d \notin Gone
<1>1. ASSUME NEW d \in Own(u)
      PROVE  d \in DocumentIds /\ Belongs(d, u) /\ d \notin Gone
  <2>1. PICK x \in documents : x.owner_id = u /\ d = x.id
    BY DEF Own
  <2>2. x.id \in DocumentIds /\ x.id < nextDocument
    BY DEF BackendOK
  <2>3. \A y \in documents : y.id = d => y = x
    BY <2>1 DEF BackendOK
  <2> QED  BY <2>1, <2>2, <2>3 DEF Belongs, Gone
<1> QED  BY <1>1

\* What other handlers know survives a step of the backend, if the sessions
\* they have at work keep their choices.
LEMMA KnowsStep ==
  ASSUME NEW y \in Handler, Knows(y), Remains,
         \A s \in Sessions : session'[s].active = session[s].active
  PROVE  Knows(y)'
<1>1. y.document \in Scopes /\ y.listed \subseteq Scopes
  BY DEF Handler, Scopes
<1>2. y.pc # "idle" => y.session \in Sessions /\ UserOf(y.session) \in Users
  BY Numbers DEF Knows
<1> QED  BY <1>1, <1>2 DEF Knows, Remains

LEMMA SessionsStep ==
  ASSUME SessionsOK, Remains, UNCHANGED session
  PROVE  SessionsOK'
BY Numbers DEF SessionsOK, Remains

LEMMA BecomeStep ==
  ASSUME IInv, NEW h \in Handlers, NEW y \in Handler, Become(h, y)
  PROVE  /\ handler' \in [Handlers -> Handler]
         /\ handler'[h] = y
         /\ \A k \in Handlers \ {h} : handler'[k] = handler[k]
BY Parts DEF Become

\* A step of one handler that may change the backend, but no choice.
LEMMA HandlerStep ==
  ASSUME IInv, NEW h \in Handlers, NEW y \in Handler, Become(h, y), Knows(y)',
         BackendOK' /\ Remains, SessionsOK',
         \A s \in Sessions : session'[s].active = session[s].active,
         late' \subseteq [kind : {"upload", "delete"}, user : Users, document : Scopes],
         shown' \in [Chats -> SUBSET DocumentIds]
  PROVE  IInv'
<1>1. /\ handler' \in [Handlers -> Handler]
      /\ handler'[h] = y
      /\ \A k \in Handlers \ {h} : handler'[k] = handler[k]
  BY BecomeStep
<1>2. ASSUME NEW k \in Handlers \ {h}, NEW z \in Handler, z = handler[k]
      PROVE  Knows(handler[k])'
  <2>1. Knows(z)  BY <1>2, Parts
  <2>2. Knows(z)'  BY <2>1, KnowsStep
  <2>3. handler'[k] = z  BY <1>1, <1>2
  <2> QED  BY <2>2, <2>3 DEF Knows
<1>3. Knows(handler[h])'
  BY <1>1 DEF Knows
<1>4. \A k \in Handlers : Knows(handler[k])'
  BY <1>2, <1>3, Parts
<1> QED  BY <1>1, <1>4 DEF IInv, TypeOK, BackendOK, SessionsOK

\* A handler that chooses d in its session: set_active_document.
LEMMA SetActiveStep ==
  ASSUME IInv, NEW h \in Handlers, NEW d \in Scopes, handler[h].pc # "idle",
         Belongs(d, Me(h)), SetActive(h, d), UNCHANGED <<backend, shown>>
  PROVE  IInv'
<1>0. PICK s \in Sessions : s = handler[h].session
  BY Parts DEF Knows
<1>1. s \in Sessions /\ UserOf(s) = Me(h)
  BY <1>0 DEF Me, Mine
<1>2. /\ session' = [session EXCEPT ![s].active = d]
      /\ session' \in [Sessions -> [active : Scopes, last_answer : Scopes \cup {NoAnswer}]]
      /\ session'[s].active = d /\ session'[s].last_answer = session[s].last_answer
      /\ \A t \in Sessions \ {s} : session'[t] = session[t]
  BY <1>0, Parts DEF SessionsOK, SetActive, Mine
<1>3. BackendOK' /\ Remains
  BY Parts, BackendStep DEF backend
<1>4. SessionsOK'
  <2>1. Belongs(d, UserOf(s))'
    BY <1>1, <1>3, Numbers DEF Remains
  <2> QED  BY <1>2, <1>3, <2>1, Parts, Numbers DEF SessionsOK, Remains, Belongs
<1>5. ASSUME NEW k \in Handlers
      PROVE  /\ handler'[k] \in Handler
             /\ Knows(handler[k])'
  <2>1. CASE k = h
    <3>1. handler'[k] = Idle
      BY <2>1 DEF SetActive
    <3>2. Idle \in Handler /\ Idle.pc = "idle" /\ Idle.gone = {}
      BY DEF Idle, Handler, Scopes, Kinds, Awaiting, NoDocument
    <3> QED  BY <3>1, <3>2 DEF Knows
  <2>2. CASE k # h /\ handler[k].session = s /\ handler[k].kind = "ask"
    <3>0. handler[k] \in Handler /\ Knows(handler[k])
      BY Parts
    <3>1. handler'[k] = [handler[k] EXCEPT !.chosen = @ \cup {d}]
      BY <1>0, <2>2 DEF SetActive, Mine
    <3>2. /\ handler'[k] \in Handler
          /\ handler'[k].pc = handler[k].pc /\ handler'[k].kind = handler[k].kind
          /\ handler'[k].session = s /\ handler'[k].gone = handler[k].gone
          /\ handler'[k].listed = handler[k].listed
          /\ handler'[k].document = handler[k].document
          /\ handler'[k].chosen = handler[k].chosen \cup {d}
      BY <2>2, <3>0, <3>1 DEF Handler
    <3>3. handler[k].document \in Scopes /\ handler[k].listed \subseteq Scopes
      BY <3>0 DEF Handler, Scopes
    <3> QED  BY <1>1, <1>2, <1>3, <2>2, <3>0, <3>2, <3>3, Numbers DEF Knows, Remains, Belongs
  <2>3. CASE k # h /\ ~(handler[k].session = s /\ handler[k].kind = "ask")
    <3>0. handler[k] \in Handler /\ Knows(handler[k])
      BY Parts
    <3>1. handler'[k] = handler[k]
      BY <1>0, <2>3 DEF SetActive, Mine
    <3>3. handler[k].document \in Scopes /\ handler[k].listed \subseteq Scopes
      BY <3>0 DEF Handler, Scopes
    <3> QED  BY <1>1, <1>2, <1>3, <2>3, <3>0, <3>1, <3>3, Numbers DEF Knows, Remains, Belongs
  <2> QED  BY <2>1, <2>2, <2>3
<1>6. handler' \in [Handlers -> Handler]
  BY <1>5 DEF SetActive
<1> QED
  BY <1>3, <1>4, <1>5, <1>6, Parts
  DEF IInv, TypeOK, BackendOK, SessionsOK, backend

LEMMA IdleKnows ==
  /\ Idle \in Handler /\ Idle.pc = "idle" /\ Idle.gone = {}
  /\ Knows(Idle) /\ Knows(Idle)'
BY DEF Knows, Idle, Handler, Scopes, Kinds, Awaiting, NoDocument

\* A handler that ends, and leaves choices and the backend alone.
LEMMA DropStep ==
  ASSUME IInv, NEW h \in Handlers, Drop(h),
         UNCHANGED <<documents, nextDocument, session>>,
         late' \subseteq [kind : {"upload", "delete"}, user : Users, document : Scopes],
         shown' \in [Chats -> SUBSET DocumentIds]
  PROVE  IInv'
<1>1. BackendOK' /\ Remains
  BY Parts, BackendStep
<1>2. SessionsOK'  BY <1>1, Parts, SessionsStep
<1> QED  BY <1>1, <1>2, IdleKnows, HandlerStep DEF Drop

LEMMA StartStep ==
  ASSUME IInv, NEW h \in Handlers, NEW s \in Sessions,
         NEW kind \in Kinds, NEW step \in {"list", "upload", "delete"}, NEW d \in Scopes,
         Start(h, s, kind, step, d)
  PROVE  IInv'
<1> DEFINE y == [Idle EXCEPT
         !.pc = step, !.kind = kind, !.session = s, !.document = d,
         !.chosen = IF kind = "ask" THEN {session[s].active} ELSE {},
         !.gone = IF kind \in {"select", "upload"} THEN Gone ELSE {}]
<1>1. Become(h, y) /\ UNCHANGED <<backend, session, shown>>
  BY DEF Start
<1>2. session[s].active \in Scopes /\ Gone \subseteq DocumentIds
  BY Parts DEF SessionsOK, Gone
<1>3. /\ y \in Handler
      /\ y.pc = step /\ y.kind = kind /\ y.session = s
      /\ kind = "ask" => y.chosen = {session[s].active}
      /\ y.gone \subseteq Gone
  BY <1>2 DEF Idle, Handler, Awaiting, Scopes
<1> HIDE DEF y
<1>4. BackendOK' /\ Remains
  BY <1>1, Parts, BackendStep DEF backend
<1>5. SessionsOK'  BY <1>1, <1>4, Parts, SessionsStep
<1>6. PICK z \in Handler : z = y  BY <1>3
<1>7. Knows(z)
  BY <1>3, <1>6 DEF Knows
<1>8. Knows(z)'
  BY <1>1, <1>4, <1>7, KnowsStep
<1> QED  BY <1>1, <1>4, <1>5, <1>6, <1>8, Parts, HandlerStep DEF backend

LEMMA UpdateStep ==
  ASSUME IInv, NEW h \in Handlers, NEW s \in Sessions, Update(h, s)
  PROVE  IInv'
<1>1. session[s].active \in Scopes /\ NoDocument \in Scopes /\ DocumentIds \subseteq Scopes
  BY Parts DEF SessionsOK, Scopes
<1>2. PICK kind \in Kinds, step \in {"list", "upload", "delete"}, d \in Scopes :
        Start(h, s, kind, step, d)
  BY <1>1 DEF Update, SendQuestion, SendPdf, PressSelectAll, PressUnselect, PressView,
     PressSelect, PressDelete, Kinds, Buttons, ResetButtons
<1> QED  BY <1>2, StartStep

\* The handler whose call is served, when the call changes no session
LEMMA ServedStep ==
  ASSUME IInv, NEW h \in Handlers, NEW y \in Handler, Become(h, y), Knows(y)',
         BackendOK', Remains, UNCHANGED <<late, session, shown>>
  PROVE  IInv'
<1>1. SessionsOK'  BY Parts, SessionsStep
<1> QED  BY <1>1, Parts, HandlerStep

LEMMA ServeUploadStep ==
  ASSUME IInv, NEW h \in Handlers, ServeUpload(h)
  PROVE  IInv'
<1>0. PICK x \in Handler : x = handler[h] /\ x.pc = "upload" /\ Knows(x)
  BY Parts DEF ServeUpload, At
<1>1. PICK u \in Users : u = Me(h) /\ u = UserOf(x.session)
  BY <1>0, Numbers DEF Me, Mine, Knows
<1>2. PICK n : n = nextDocument
  OBVIOUS
<1>3. /\ Add(u) /\ n \in DocumentIds /\ nextDocument' = n + 1
      /\ documents' = documents \cup {[id |-> n, owner_id |-> u]}
      /\ UNCHANGED <<late, session, shown>>
  BY <1>1, <1>2 DEF ServeUpload, Add
<1>4. BackendOK' /\ Remains
  BY <1>3, Parts, BackendStep
<1>5. CASE Drop(h)
  BY <1>3, <1>4, <1>5, IdleKnows, ServedStep DEF Drop
<1>6. CASE Become(h, [x EXCEPT !.pc = "uploaded", !.document = n])
  <2> DEFINE y == [x EXCEPT !.pc = "uploaded", !.document = n]
  <2>1. /\ y \in Handler /\ y.pc = "uploaded" /\ y.document = n
        /\ y.kind = x.kind /\ y.session = x.session
        /\ y.gone = x.gone /\ y.chosen = x.chosen
    BY <1>0, <1>3 DEF Handler, Answered, Scopes
  <2>2. Become(h, y)  BY <1>6
  <2> HIDE DEF y
  <2>3. Belongs(n, u)'
    BY <1>2, <1>3, Numbers, Parts DEF Belongs, BackendOK
  <2>4. n \notin x.gone
    BY <1>0, <1>2, <1>3, Numbers DEF Knows, Gone
  <2>5. Knows(x)'
    BY <1>0, <1>3, <1>4, KnowsStep
  <2>6. Knows(y)'
    BY <1>0, <1>1, <2>1, <2>3, <2>4, <2>5 DEF Knows
  <2> QED  BY <1>3, <1>4, <2>1, <2>2, <2>6, ServedStep
<1> QED  BY <1>0, <1>2, <1>5, <1>6 DEF ServeUpload

LEMMA ServeDeleteStep ==
  ASSUME IInv, NEW h \in Handlers, ServeDelete(h)
  PROVE  IInv'
<1>0. PICK x \in Handler : x = handler[h] /\ x.pc = "delete" /\ Knows(x)
  BY Parts DEF ServeDelete, At
<1>1. Me(h) \in Users /\ x.document \in Scopes
  BY <1>0, Numbers DEF Me, Mine, Knows, Handler
<1>2. /\ Remove(Me(h), x.document)
      /\ UNCHANGED <<nextDocument, late, session, shown>>
  BY <1>0 DEF ServeDelete
<1>3. BackendOK' /\ Remains
  BY <1>1, <1>2, Parts, BackendStep
<1>4. CASE Drop(h)
  BY <1>2, <1>3, <1>4, IdleKnows, ServedStep DEF Drop
<1>5. CASE Goto(h, "list")
  <2> DEFINE y == [x EXCEPT !.pc = "list"]
  <2>1. /\ y \in Handler /\ y.pc = "list" /\ y.kind = x.kind
        /\ y.session = x.session /\ y.gone = x.gone /\ y.chosen = x.chosen
    BY <1>0 DEF Handler, Awaiting
  <2>2. Become(h, y)  BY <1>0, <1>5 DEF Goto
  <2> HIDE DEF y
  <2>3. Knows(x)'
    BY <1>0, <1>2, <1>3, KnowsStep
  <2>4. Knows(y)'
    BY <1>0, <2>1, <2>3 DEF Knows
  <2> QED  BY <1>2, <1>3, <2>1, <2>2, <2>4, ServedStep
<1> QED  BY <1>4, <1>5 DEF ServeDelete

LEMMA ServeListStep ==
  ASSUME IInv, NEW h \in Handlers, ServeList(h)
  PROVE  IInv'
<1>0. PICK x \in Handler : x = handler[h] /\ x.pc = "list" /\ Knows(x)
  BY Parts DEF ServeList, At
<1>1. PICK u \in Users : u = Me(h) /\ u = UserOf(x.session)
  BY <1>0, Numbers DEF Me, Mine, Knows
<1>2. PICK own \in SUBSET DocumentIds :
        own = Own(u) /\ \A d \in own : Belongs(d, u) /\ d \notin Gone
  BY Parts, OwnBelong
<1> DEFINE y == [x EXCEPT !.pc = "listed", !.listed = own]
<1>3. /\ y \in Handler /\ y.pc = "listed" /\ y.kind = x.kind /\ y.listed = own
      /\ y.session = x.session /\ y.gone = x.gone /\ y.chosen = x.chosen
  BY <1>0 DEF Handler, Answered
<1>4. Become(h, y) /\ UNCHANGED <<backend, session, shown>>
  BY <1>0, <1>1, <1>2 DEF ServeList
<1> HIDE DEF y
<1>5. BackendOK' /\ Remains
  BY <1>4, Parts, BackendStep DEF backend
<1>6. Knows(y)
  BY <1>0, <1>1, <1>2, <1>3 DEF Knows
<1>7. Knows(y)'
  BY <1>3, <1>4, <1>5, <1>6, KnowsStep
<1> QED  BY <1>3, <1>4, <1>5, <1>7, ServedStep DEF backend

LEMMA ServeQuestionStep ==
  ASSUME IInv, NEW h \in Handlers, ServeQuestion(h)
  PROVE  IInv'
<1>0. PICK x \in Handler : x = handler[h] /\ x.pc = "ask" /\ Knows(x)
  BY Parts DEF ServeQuestion, At
<1>1. PICK u \in Users : u = Me(h) /\ u = UserOf(x.session)
  BY <1>0, Numbers DEF Me, Mine, Knows
<1>2. UNCHANGED <<backend, session, shown>>  BY DEF ServeQuestion
<1>3. BackendOK' /\ Remains
  BY <1>2, Parts, BackendStep DEF backend
<1>4. CASE Drop(h)
  BY <1>2, <1>3, <1>4, IdleKnows, ServedStep DEF Drop, backend
<1>5. CASE x.document \in Own(u) \cup {NoDocument} /\ Goto(h, "answered")
  <2> DEFINE y == [x EXCEPT !.pc = "answered"]
  <2>1. /\ y \in Handler /\ y.pc = "answered" /\ y.kind = x.kind
        /\ y.session = x.session /\ y.gone = x.gone /\ y.chosen = x.chosen
        /\ y.document = x.document
    BY <1>0 DEF Handler, Answered
  <2>2. Become(h, y)  BY <1>0, <1>5 DEF Goto
  <2> HIDE DEF y
  <2>3. Belongs(x.document, u)
    BY <1>5, Parts, OwnBelong, NothingBelongs
  <2>4. Knows(y)
    BY <1>0, <1>1, <2>1, <2>3 DEF Knows
  <2>5. Knows(y)'
    BY <1>2, <1>3, <2>1, <2>4, KnowsStep
  <2> QED  BY <1>2, <1>3, <2>1, <2>2, <2>5, ServedStep DEF backend
<1> QED  BY <1>0, <1>1, <1>4, <1>5 DEF ServeQuestion

LEMMA ServeLateStep ==
  ASSUME IInv, NEW call \in late, ServeLate(call)
  PROVE  IInv'
<1>1. call.user \in Users /\ call.document \in Scopes
  BY Parts
<1>2. UNCHANGED <<session, shown, handler>> /\ late' \subseteq late
  BY DEF ServeLate
<1>3. BackendOK' /\ Remains
  BY <1>1, Parts, BackendStep DEF ServeLate
<1>4. SessionsOK'  BY <1>2, <1>3, Parts, SessionsStep
<1>5. ASSUME NEW h \in Handlers, NEW x \in Handler, x = handler[h]
      PROVE  Knows(handler[h])'
  <2>1. Knows(x)  BY <1>5, Parts
  <2>2. Knows(x)'  BY <1>2, <1>3, <2>1, KnowsStep
  <2>3. handler'[h] = x  BY <1>2, <1>5
  <2> QED  BY <2>2, <2>3 DEF Knows
<1>6. \A h \in Handlers : Knows(handler[h])'
  BY <1>5, Parts
<1> QED
  BY <1>2, <1>3, <1>4, <1>6, Parts DEF IInv, TypeOK, BackendOK, SessionsOK

LEMMA LeaveActiveStep ==
  ASSUME IInv, NEW h \in Handlers, LeaveActive(h), UNCHANGED <<backend, shown>>
  PROVE  IInv'
BY Parts, DropStep DEF LeaveActive, backend

LEMMA ChoiceSteps ==
  ASSUME IInv, NEW h \in Handlers,
         \/ Select(h) \/ SelectAll(h) \/ Unselect(h)
         \/ AfterDelete(h) \/ AfterUpload(h)
  PROVE  IInv'
<1>0. handler[h] \in Handler /\ Knows(handler[h])  BY Parts
<1>1. /\ handler[h].pc # "idle" /\ UNCHANGED <<backend, shown>>
      /\ handler[h].document \in Scopes
  BY <1>0 DEF Select, SelectAll, Unselect, AfterDelete, AfterUpload, At, Handler
<1>2. Me(h) \in Users /\ Me(h) = UserOf(handler[h].session)
  BY <1>0, <1>1, Numbers DEF Me, Mine, Knows
<1>3. CASE LeaveActive(h)  BY <1>1, <1>3, LeaveActiveStep
<1>4. CASE SetActive(h, NoDocument)
  BY <1>1, <1>2, <1>4, Numbers, Parts, NothingBelongs, SetActiveStep
<1>5. CASE SetActive(h, handler[h].document) /\ (Select(h) \/ AfterUpload(h))
           /\ ~LeaveActive(h)
  <2>1. Belongs(handler[h].document, Me(h))
    BY <1>0, <1>2, <1>5 DEF Select, AfterUpload, At, Knows
  <2>2. PICK d \in Scopes : d = handler[h].document  BY <1>1
  <2> QED  BY <1>1, <1>5, <2>1, <2>2, SetActiveStep
<1> QED
  BY <1>3, <1>4, <1>5 DEF Select, SelectAll, Unselect, AfterDelete, AfterUpload

LEMMA AskStep ==
  ASSUME IInv, NEW h \in Handlers, Ask(h)
  PROVE  IInv'
<1>0. PICK x \in Handler :
        x = handler[h] /\ x.pc = "listed" /\ x.kind = "ask" /\ Knows(x)
  BY Parts DEF Ask, At
<1>1. PICK d \in Scopes : d = session[x.session].active
  BY <1>0, Parts DEF Knows, SessionsOK
<1>2. UNCHANGED <<backend, session, shown>>  BY DEF Ask
<1>3. BackendOK' /\ Remains
  BY <1>2, Parts, BackendStep DEF backend
<1>4. CASE Drop(h)
  BY <1>2, <1>3, <1>4, IdleKnows, ServedStep DEF Drop, backend
<1>5. CASE Become(h, [x EXCEPT !.pc = "ask", !.document = d])
  <2> DEFINE y == [x EXCEPT !.pc = "ask", !.document = d]
  <2>1. /\ y \in Handler /\ y.pc = "ask" /\ y.kind = "ask"
        /\ y.session = x.session /\ y.gone = x.gone /\ y.chosen = x.chosen
        /\ y.document = d
    BY <1>0 DEF Handler, Awaiting
  <2>2. Become(h, y)  BY <1>5
  <2> HIDE DEF y
  <2>3. Knows(y)
    BY <1>0, <1>1, <2>1 DEF Knows
  <2>4. Knows(y)'
    BY <1>2, <1>3, <2>1, <2>3, KnowsStep
  <2> QED  BY <1>2, <1>3, <2>1, <2>2, <2>4, ServedStep DEF backend
<1> QED  BY <1>0, <1>1, <1>4, <1>5 DEF Ask, Mine

LEMMA StoreAnswerStep ==
  ASSUME IInv, NEW h \in Handlers, StoreAnswer(h)
  PROVE  IInv'
<1>0. PICK x \in Handler : x = handler[h] /\ x.pc = "answered" /\ Knows(x)
  BY Parts DEF StoreAnswer, At
<1>1. PICK s \in Sessions : s = x.session
  BY <1>0 DEF Knows
<1>2. /\ UNCHANGED <<backend, shown>> /\ Drop(h)
      /\ session' = [session EXCEPT ![s].last_answer = x.document]
  BY <1>0, <1>1 DEF StoreAnswer, Mine
<1>3. BackendOK' /\ Remains
  BY <1>2, Parts, BackendStep DEF backend
<1>4. /\ session' \in [Sessions -> [active : Scopes, last_answer : Scopes \cup {NoAnswer}]]
      /\ session'[s].active = session[s].active /\ session'[s].last_answer = x.document
      /\ \A t \in Sessions \ {s} : session'[t] = session[t]
  BY <1>0, <1>2, Parts DEF SessionsOK, Handler
<1>5. Belongs(x.document, UserOf(s))'
  BY <1>0, <1>1, <1>3, Numbers DEF Knows, Remains, Handler
<1>6. SessionsOK'
  <2>1. ASSUME NEW t \in Sessions
        PROVE  /\ Belongs(session[t].active, UserOf(t))'
               /\ Belongs(session[t].last_answer, UserOf(t))'
    <3>1. PICK a \in Scopes, b \in Scopes \cup {NoAnswer} :
            /\ a = session'[t].active /\ b = session'[t].last_answer
            /\ a = session[t].active
            /\ b = session[t].last_answer \/ (t = s /\ b = x.document)
      BY <1>4, Parts DEF SessionsOK
    <3>2. Belongs(a, UserOf(t))'
      BY <1>3, <3>1, Parts, Numbers DEF Remains, SessionsOK
    <3>3. Belongs(b, UserOf(t))'
      BY <1>3, <1>5, <3>1, Parts, Numbers DEF Remains, SessionsOK
    <3> QED  BY <3>1, <3>2, <3>3 DEF Belongs
  <2> QED  BY <1>4, <2>1 DEF SessionsOK
<1>7. \A t \in Sessions : session'[t].active = session[t].active
  BY <1>4
<1> QED  BY <1>2, <1>3, <1>6, <1>7, Parts, IdleKnows, HandlerStep DEF Drop, backend

LEMMA ViewStep ==
  ASSUME IInv, NEW h \in Handlers, View(h)
  PROVE  IInv'
<1>1. handler[h] \in Handler /\ ChatOf(Mine(h)) \in Chats
  BY Parts, Numbers DEF View, At, Knows, Mine
<1>2. shown' \in [Chats -> SUBSET DocumentIds]
  BY <1>1, Parts DEF View, Handler
<1> QED  BY <1>2, Parts, DropStep DEF View, backend

LEMMA LeftBehind ==
  ASSUME IInv, NEW hs \in SUBSET Handlers, LeaveBehind(hs)
  PROVE  late' \subseteq [kind : {"upload", "delete"}, user : Users, document : Scopes]
<1>1. ASSUME NEW h \in hs, handler[h].pc \in {"upload", "delete"}
      PROVE  Me(h) \in Users /\ handler[h].document \in Scopes
  BY <1>1, Parts, Numbers DEF Knows, Me, Mine, Handler
<1>2. ASSUME NEW call \in Left(hs)
      PROVE  call \in [kind : {"upload", "delete"}, user : Users, document : Scopes]
  <2>1. PICK h \in hs :
          /\ handler[h].pc \in {"upload", "delete"}
          /\ call = [kind |-> handler[h].pc, user |-> Me(h), document |-> handler[h].document]
    BY DEF Left
  <2> QED  BY <1>1, <2>1
<1> QED  BY <1>2, Parts DEF LeaveBehind

LEMMA GiveUpStep ==
  ASSUME IInv, NEW h \in Handlers, GiveUp(h)
  PROVE  IInv'
BY LeftBehind, DropStep, Parts DEF GiveUp

LEMMA FreshType ==
  /\ Fresh \in [active : Scopes, last_answer : Scopes \cup {NoAnswer}]
  /\ Fresh.active = NoDocument /\ Fresh.last_answer = NoAnswer
BY Numbers DEF Fresh

LEMMA RestartStep ==
  ASSUME IInv, Restart
  PROVE  IInv'
<1>1. /\ session' = [s \in Sessions |-> Fresh]
      /\ handler' = [h \in Handlers |-> Idle]
      /\ UNCHANGED <<documents, nextDocument, shown>>
  BY DEF Restart
<1>2. late' \subseteq [kind : {"upload", "delete"}, user : Users, document : Scopes]
  BY LeftBehind DEF Restart
<1>3. BackendOK' /\ Remains
  BY <1>1, Parts, BackendStep
<1>4. \A u \in Users : Belongs(NoDocument, u)' /\ Belongs(NoAnswer, u)'
  BY <1>3, Parts, NothingBelongs, Numbers DEF Remains
<1>5. SessionsOK'
  BY <1>1, <1>4, FreshType, Numbers DEF SessionsOK, Belongs
<1>6. handler' \in [Handlers -> Handler] /\ \A h \in Handlers : Knows(handler[h])'
  BY <1>1, IdleKnows DEF Knows
<1> QED
  BY <1>1, <1>2, <1>3, <1>5, <1>6, Parts DEF IInv, TypeOK, BackendOK, SessionsOK

LEMMA StutterStep ==
  ASSUME IInv, UNCHANGED vars
  PROVE  IInv'
BY DEF IInv, TypeOK, Knows, Belongs, Gone, vars, backend

LEMMA InitInvariant == Init => IInv
<1> SUFFICES ASSUME Init  PROVE IInv
  OBVIOUS
<1>1. BackendOK
  BY Numbers DEF Init, BackendOK
<1>2. SessionsOK
  BY <1>1, NothingBelongs, FreshType, Numbers DEF Init, SessionsOK
<1>3. \A h \in Handlers : Knows(handler[h])
  BY IdleKnows DEF Init
<1>4. handler \in [Handlers -> Handler]
  BY IdleKnows DEF Init
<1> QED  BY <1>1, <1>2, <1>3, <1>4, Parts DEF Init

LEMMA NextInvariant == IInv /\ [Next]_vars => IInv'
<1> SUFFICES ASSUME IInv, [Next]_vars  PROVE IInv'
  OBVIOUS
<1>1. ASSUME NEW h \in Handlers, NEW s \in Sessions, Update(h, s)  PROVE IInv'
  BY <1>1, UpdateStep
<1>2. ASSUME NEW h \in Handlers, Serve(h)  PROVE IInv'
  BY <1>2, ServeUploadStep, ServeDeleteStep, ServeListStep, ServeQuestionStep DEF Serve
<1>3. ASSUME NEW h \in Handlers, Proceed(h)  PROVE IInv'
  BY <1>3, ViewStep, ChoiceSteps, AskStep, StoreAnswerStep DEF Proceed
<1>4. ASSUME NEW h \in Handlers, GiveUp(h)  PROVE IInv'
  BY <1>4, GiveUpStep
<1>5. ASSUME NEW call \in late, ServeLate(call)  PROVE IInv'
  BY <1>5, ServeLateStep
<1>6. CASE Restart  BY <1>6, RestartStep
<1>7. CASE UNCHANGED vars  BY <1>7, StutterStep
<1> QED  BY <1>1, <1>2, <1>3, <1>4, <1>5, <1>6, <1>7 DEF Next
-----------------------------------------------------------------------------
\* Every session and handler of the bot, whatever the others do meanwhile.
THEOREM InvariantTheorem == Spec => []IInv
BY InitInvariant, NextInvariant, PTL DEF Spec

\* Every variable keeps its type.
THEOREM TypeTheorem == Spec => []TypeOK
<1>1. IInv => TypeOK  BY DEF IInv
<1> QED  BY <1>1, InvariantTheorem, PTL

\* The session of a user never names a document of another: the list that
\* select_document and the others check is the user's, and stays true.
THEOREM OwnDocumentsTheorem == Spec => []OwnDocumentsOnly
<1>1. IInv => OwnDocumentsOnly
  BY DEF IInv, OwnDocumentsOnly, Belongs
<1> QED  BY <1>1, InvariantTheorem, PTL

\* answer_question asks the document, or all, that its user had chosen at some
\* time since the question came.
THEOREM ScopeTheorem == Spec => []ScopeAsChosen
<1>1. IInv => ScopeAsChosen
  BY DEF IInv, ScopeAsChosen, Knows
<1> QED  BY <1>1, InvariantTheorem, PTL

\* No button of an old message and no late upload makes a document active that
\* was gone before.
THEOREM NeverReactivatedTheorem == Spec => NeverReactivated
<1> DEFINE Choice ==
      \A s \in Sessions :
         session'[s].active \notin {session[s].active, NoDocument} =>
           \E h \in Handlers :
             /\ handler[h].session = s /\ handler'[h] = Idle
             /\ session'[s].active = handler[h].document
             /\ handler[h].document \notin handler[h].gone
<1>1. IInv /\ [Next]_vars => [Choice]_vars
  <2> SUFFICES ASSUME IInv, Next  PROVE Choice
    BY DEF vars
  <2>1. CASE UNCHANGED session
    BY <2>1
  <2>2. CASE Restart
    BY <2>2, FreshType DEF Restart
  <2>3. ASSUME NEW h \in Handlers, StoreAnswer(h)  PROVE Choice
    <3>1. \A s \in Sessions : session'[s].active = session[s].active
      BY <2>3, Parts DEF StoreAnswer, SessionsOK
    <3> QED  BY <3>1
  <2>4. ASSUME NEW h \in Handlers, NEW d \in Scopes, SetActive(h, d),
               d = NoDocument \/ (d = handler[h].document /\ d \notin handler[h].gone)
        PROVE  Choice
    <3>1. ASSUME NEW s \in Sessions
          PROVE  \/ session'[s].active = session[s].active
                 \/ s = handler[h].session /\ session'[s].active = d
      BY <2>4, Parts DEF SetActive, Mine, SessionsOK
    <3>2. handler'[h] = Idle  BY <2>4 DEF SetActive
    <3> QED  BY <2>4, <3>1, <3>2
  <2>5. ASSUME NEW h \in Handlers, Proceed(h)  PROVE Choice
    <3>0. handler[h] \in Handler /\ Knows(handler[h])  BY Parts
    <3>1. CASE View(h) \/ Ask(h)  BY <2>1, <3>1 DEF View, Ask
    <3>2. CASE StoreAnswer(h)  BY <2>3, <3>2
    <3>3. CASE LeaveActive(h)  BY <2>1, <3>3 DEF LeaveActive
    <3>4. CASE SetActive(h, NoDocument)  BY <2>4, <3>4, Numbers
    <3>5. CASE /\ SetActive(h, handler[h].document)
               /\ \/ Select(h) /\ handler[h].document \in handler[h].listed
                  \/ AfterUpload(h)
      <4>1. handler[h].document \in Scopes /\ handler[h].document \notin handler[h].gone
        BY <3>0, <3>5 DEF Knows, Select, AfterUpload, At, Handler
      <4>2. PICK d \in Scopes : d = handler[h].document  BY <4>1
      <4> QED  BY <2>4, <3>5, <4>1, <4>2
    <3> QED
      BY <2>5, <3>1, <3>2, <3>3, <3>4, <3>5
      DEF Proceed, Select, SelectAll, Unselect, AfterDelete, AfterUpload
  <2>6. ASSUME NEW h \in Handlers, \/ \E s \in Sessions : Update(h, s)
                                   \/ Serve(h) \/ GiveUp(h)
        PROVE  UNCHANGED session
    BY <2>6 DEF Update, Serve, GiveUp, SendQuestion, SendPdf, PressSelectAll,
       PressUnselect, PressView, PressSelect, PressDelete, Start, ServeUpload,
       ServeDelete, ServeList, ServeQuestion
  <2>7. ASSUME NEW call \in late, ServeLate(call)  PROVE UNCHANGED session
    BY <2>7 DEF ServeLate
  <2> QED  BY <2>1, <2>2, <2>5, <2>6, <2>7 DEF Next
<1> QED  BY <1>1, InvariantTheorem, PTL DEF Spec, NeverReactivated
=============================================================================

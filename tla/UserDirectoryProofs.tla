------------------------ MODULE UserDirectoryProofs ------------------------
(***************************************************************************)
(* One row per Telegram user, and every request acts as its own user, for  *)
(* any number of requests, users and names.                                *)
(***************************************************************************)
EXTENDS UserDirectory, TLAPS

LEMMA IdleType == Idle \in Request
BY DEF Idle, Request, Steps, NoUser, UserIds

LEMMA InitInvariant ==
  ASSUME Init
  PROVE  IInv
<1>1. TypeOK
  BY IdleType, UserDirectoryAssumption DEF Init, TypeOK, UserIds
<1> QED
  BY <1>1 DEF Init, IInv, OneRowPerUser, ActsAsItself, IdsApart, KeysApart,
     Authorized, Found, Idle, At

\* What a request looks like after its own step; the others stay as they are.
LEMMA Others ==
  ASSUME TypeOK, NEW r \in Requests, NEW x \in Request, Become(r, x)
  PROVE  /\ req' \in [Requests -> Request]
         /\ req'[r] = x
         /\ \A q \in Requests \ {r} : req'[q] = req[q]
BY DEF TypeOK, Become

\* A step of one request that writes no row, takes no new key and leaves the
\* request with its user, or without a claim to one.
LEMMA QuietStep ==
  ASSUME IInv, NEW r \in Requests, NEW x \in Request, Become(r, x),
         UNCHANGED users, nextUser' \in UserIds, nextUser <= nextUser',
         x.pc # "flushed",
         x.pc \in {"refresh", "authenticated", "update"} =>
           \E row \in users : /\ row.id = x.user
                              /\ row.telegram_user_id = x.telegram_user_id,
         x.pc \in {"find", "update", "create", "refresh"} => x.telegram_user_id > 0,
         x.rename => x.username # NoName
  PROVE  IInv'
<1>1. /\ req' \in [Requests -> Request] /\ req'[r] = x
      /\ \A q \in Requests \ {r} : req'[q] = req[q]
  BY Others DEF IInv
<1>2. TypeOK'  BY <1>1 DEF IInv, TypeOK
<1>3. OneRowPerUser'  BY DEF IInv, OneRowPerUser
<1>4. ActsAsItself' /\ Found' /\ Authorized'
  BY <1>1 DEF IInv, ActsAsItself, Found, Authorized, At
<1>5. IdsApart'
  <2>1. \A row \in users : row.id < nextUser'
    BY DEF IInv, TypeOK, IdsApart, User, UserIds
  <2>2. ASSUME NEW q \in Requests, req'[q].pc = "flushed"
        PROVE  /\ req'[q].user \in UserIds /\ req'[q].user < nextUser'
               /\ \A row \in users : row.id # req'[q].user
               /\ \A p \in Requests \ {q} : req'[p].pc = "flushed" => req'[p].user # req'[q].user
    <3>1. q # r /\ req'[q] = req[q]  BY <1>1, <2>2
    <3>2. req[q].user \in UserIds /\ req[q].user < nextUser
          /\ \A row \in users : row.id # req[q].user
      BY <3>1, <2>2 DEF IInv, IdsApart, At
    <3>3. req[q].user < nextUser'
      BY <3>2 DEF IInv, TypeOK, UserIds
    <3>4. \A p \in Requests \ {q} : req'[p].pc = "flushed" => req'[p].user # req'[q].user
      BY <3>1, <1>1, <2>2 DEF IInv, IdsApart, At
    <3> QED  BY <3>1, <3>2, <3>3, <3>4
  <2> QED  BY <2>1, <2>2 DEF IdsApart, At
<1>6. KeysApart'
  BY <1>1 DEF IInv, KeysApart, Known, HoldsKey, At
<1> QED  BY <1>2, <1>3, <1>4, <1>5, <1>6 DEF IInv

LEMMA ArriveStep ==
  ASSUME IInv, NEW r \in Requests, NEW key \in BOOLEAN, NEW t \in TelegramIds,
         NEW n \in Names \cup {NoName}, Arrive(r, key, t, n)
  PROVE  IInv'
<1> DEFINE x == [Idle EXCEPT !.telegram_user_id = t, !.username = n,
                   !.pc = IF key /\ t > 0 THEN "find" ELSE "unauthorized"]
<1>1. x \in Request /\ x.pc \in {"find", "unauthorized"} /\ ~x.rename
      /\ (x.pc = "find" => x.telegram_user_id > 0)
  BY DEF Idle, Request, Steps, NoUser
<1>2. Become(r, x) /\ UNCHANGED <<users, nextUser>>  BY DEF Arrive
<1> HIDE DEF x
<1>3. nextUser' \in UserIds /\ nextUser <= nextUser'
  BY <1>2 DEF IInv, TypeOK, UserIds
<1> QED  BY <1>1, <1>2, <1>3, QuietStep

LEMMA FindStep ==
  ASSUME IInv, NEW r \in Requests, Find(r)
  PROVE  IInv'
<1>1. /\ req[r] \in Request /\ req[r].pc = "find" /\ req[r].telegram_user_id > 0
      /\ UNCHANGED <<users, nextUser>>
      /\ nextUser' \in UserIds /\ nextUser <= nextUser'
  <2>1. req[r].pc = "find" /\ UNCHANGED <<users, nextUser>>  BY DEF Find, At
  <2>2. req[r] \in Request /\ req[r].telegram_user_id > 0
    BY <2>1 DEF IInv, TypeOK, Authorized
  <2>3. nextUser \in UserIds /\ nextUser <= nextUser
    BY DEF IInv, TypeOK, UserIds
  <2> QED  BY <2>1, <2>2, <2>3
<1>2. CASE Goto(r, "create")
  <2> DEFINE x == [req[r] EXCEPT !.pc = "create"]
  <2>1. x \in Request /\ x.pc = "create" /\ x.telegram_user_id > 0
        /\ x.rename = req[r].rename /\ x.username = req[r].username
    BY <1>1 DEF Request, Steps
  <2>2. Become(r, x)  BY <1>2 DEF Goto
  <2> HIDE DEF x
  <2> QED  BY <1>1, <2>1, <2>2, QuietStep DEF IInv, Authorized
<1>3. ASSUME NEW row \in users, row.telegram_user_id = req[r].telegram_user_id,
             Become(r, [req[r] EXCEPT !.pc = "update", !.user = row.id,
                                      !.rename = Renames(r, row)])
      PROVE  IInv'
  <2> DEFINE x == [req[r] EXCEPT !.pc = "update", !.user = row.id,
                                 !.rename = Renames(r, row)]
  <2>1. row.id \in UserIds /\ Renames(r, row) \in BOOLEAN
    BY DEF IInv, TypeOK, User, Renames
  <2>2. /\ x \in Request /\ x.pc = "update" /\ x.telegram_user_id > 0
        /\ x.user = row.id /\ x.telegram_user_id = row.telegram_user_id
        /\ x.rename = Renames(r, row) /\ x.username = req[r].username
    BY <1>1, <1>3, <2>1 DEF Request, Steps
  <2>3. x.rename => x.username # NoName  BY <2>2 DEF Renames
  <2>4. Become(r, x)  BY <1>3
  <2> HIDE DEF x
  <2> QED  BY <1>1, <2>2, <2>3, <2>4, QuietStep
<1> QED  BY <1>2, <1>3 DEF Find

\* a step of r that ends or fails its request, or hands it to its endpoint
LEMMA LeaveStep ==
  ASSUME IInv, NEW r \in Requests, Answer(r) \/ Abort(r) \/ Refresh(r)
  PROVE  IInv'
<1>1. /\ req[r] \in Request /\ UNCHANGED <<users, nextUser>>
      /\ nextUser' \in UserIds /\ nextUser <= nextUser'
  BY DEF IInv, TypeOK, UserIds, Answer, Abort, Refresh
<1>2. CASE Answer(r) \/ Abort(r)
  <2>1. Become(r, Idle)  BY <1>2 DEF Answer, Abort, Drop
  <2> DEFINE x == Idle
  <2>2. Become(r, x) /\ x \in Request /\ x.pc = "idle" /\ ~x.rename
    BY <2>1, IdleType DEF Idle
  <2> HIDE DEF x
  <2> QED  BY <1>1, <2>2, QuietStep
<1>3. CASE Refresh(r)
  <2> DEFINE x == [req[r] EXCEPT !.pc = "authenticated"]
  <2>1. /\ x \in Request /\ x.pc = "authenticated" /\ x.user = req[r].user
        /\ x.telegram_user_id = req[r].telegram_user_id
        /\ x.rename = req[r].rename /\ x.username = req[r].username
    BY <1>1 DEF Request, Steps
  <2>2. Become(r, x) /\ req[r].pc = "refresh"  BY <1>3 DEF Refresh, Goto, At
  <2> HIDE DEF x
  <2> QED  BY <1>1, <2>1, <2>2, QuietStep DEF IInv, ActsAsItself, Authorized
<1> QED  BY <1>2, <1>3

LEMMA CreateStep ==
  ASSUME IInv, NEW r \in Requests, Create(r)
  PROVE  IInv'
<1>1. /\ req[r] \in Request /\ req[r].pc = "create" /\ UNCHANGED users
      /\ req[r].telegram_user_id > 0
      /\ nextUser' = nextUser + 1
  BY DEF IInv, TypeOK, Authorized, Create, At
<1>2. nextUser' \in UserIds /\ nextUser <= nextUser'
  BY <1>1 DEF IInv, TypeOK, UserIds
<1>3. CASE Goto(r, "failed")
  <2> DEFINE x == [req[r] EXCEPT !.pc = "failed"]
  <2>1. x \in Request /\ x.pc = "failed"
        /\ x.rename = req[r].rename /\ x.username = req[r].username
    BY <1>1 DEF Request, Steps
  <2>2. Become(r, x)  BY <1>3 DEF Goto
  <2> HIDE DEF x
  <2> QED  BY <1>1, <1>2, <2>1, <2>2, QuietStep DEF IInv, Authorized
<1>4. CASE /\ ~Known(req[r].telegram_user_id)
           /\ Become(r, [req[r] EXCEPT !.pc = "flushed", !.user = nextUser])
  <2> DEFINE x == [req[r] EXCEPT !.pc = "flushed", !.user = nextUser]
  <2>1. /\ x \in Request /\ x.pc = "flushed" /\ x.user = nextUser
        /\ x.telegram_user_id = req[r].telegram_user_id
        /\ x.rename = req[r].rename /\ x.username = req[r].username
    BY <1>1 DEF Request, Steps, IInv, TypeOK
  <2>2. Become(r, x)  BY <1>4
  <2> HIDE DEF x
  <2>3. /\ req' \in [Requests -> Request] /\ req'[r] = x
        /\ \A q \in Requests \ {r} : req'[q] = req[q]
    BY <2>1, <2>2, Others DEF IInv
  <2>4. TypeOK' /\ OneRowPerUser'
    BY <1>1, <1>2, <2>3 DEF IInv, TypeOK, OneRowPerUser
  <2>5. ActsAsItself' /\ Found'
    BY <1>1, <2>1, <2>3 DEF IInv, ActsAsItself, Found, At
  <2>6. Authorized'
    BY <1>1, <2>1, <2>3 DEF IInv, Authorized
  <2>7. IdsApart'
    <3>1. \A row \in users : row.id < nextUser /\ row.id < nextUser' /\ row.id # nextUser
      BY <1>1 DEF IInv, TypeOK, IdsApart, User, UserIds
    <3>2. \A q \in Requests \ {r} : req'[q].pc = "flushed" =>
            /\ req'[q].user \in UserIds /\ req'[q].user < nextUser
            /\ req'[q].user < nextUser' /\ req'[q].user # nextUser
            /\ \A row \in users : row.id # req'[q].user
            /\ \A p \in Requests \ {q, r} : req'[p].pc = "flushed" => req'[p].user # req'[q].user
      BY <1>1, <2>3 DEF IInv, TypeOK, IdsApart, At, UserIds
    <3>3. x.user \in UserIds /\ x.user < nextUser'
      BY <1>1, <2>1 DEF IInv, TypeOK, UserIds
    <3> QED  BY <1>1, <2>1, <2>3, <3>1, <3>2, <3>3 DEF IdsApart, At
  <2>8. KeysApart'
    BY <1>1, <1>4, <2>1, <2>3 DEF IInv, KeysApart, Known, HoldsKey, At, Create
  <2> QED  BY <2>4, <2>5, <2>6, <2>7, <2>8 DEF IInv
<1> QED  BY <1>3, <1>4 DEF Create

\* UPDATE changes no id and no Telegram id.
LEMMA RenameKeepsKeys ==
  ASSUME IInv, NEW r \in Requests, At(r, "update"), Rename(r)
  PROVE  /\ users' \subseteq User
         /\ OneRowPerUser'
         /\ \A row \in users : \E new \in users' :
              new.id = row.id /\ new.telegram_user_id = row.telegram_user_id
         /\ \A new \in users' : \E row \in users :
              new.id = row.id /\ new.telegram_user_id = row.telegram_user_id
<1> DEFINE New(row) == IF row.id = req[r].user /\ req[r].rename
                       THEN [row EXCEPT !.username = req[r].username] ELSE row
<1>1. ASSUME NEW row \in users
      PROVE  /\ New(row) \in User /\ New(row).id = row.id
             /\ New(row).telegram_user_id = row.telegram_user_id
  BY <1>1 DEF IInv, TypeOK, User, Request
<1>2. users' = {New(row) : row \in users}  BY DEF Rename
<1> HIDE DEF New
<1>3. OneRowPerUser'
  <2>1. ASSUME NEW a \in users', NEW b \in users',
               a.id = b.id \/ a.telegram_user_id = b.telegram_user_id
        PROVE  a = b
    <3>1. PICK a0 \in users : a = New(a0)  BY <1>2
    <3>2. PICK b0 \in users : b = New(b0)  BY <1>2
    <3>3. a0 = b0  BY <1>1, <2>1, <3>1, <3>2 DEF IInv, OneRowPerUser
    <3> QED  BY <3>1, <3>2, <3>3
  <2> QED  BY <2>1 DEF OneRowPerUser
<1> QED  BY <1>1, <1>2, <1>3

\* Once users keep their ids and Telegram ids, so does the invariant.
LEMMA UpdateStep ==
  ASSUME IInv, NEW r \in Requests, Update(r) \/ UpdateLost(r)
  PROVE  IInv'
<1> DEFINE x == IF Update(r) THEN [req[r] EXCEPT !.pc = "refresh"] ELSE Idle
<1>1. /\ req[r] \in Request /\ req[r].pc = "update" /\ req[r].telegram_user_id > 0
      /\ At(r, "update") /\ Rename(r) /\ nextUser' = nextUser
  BY DEF IInv, TypeOK, Authorized, Update, UpdateLost, At
<1>2. /\ x \in Request /\ x.pc \in {"refresh", "idle"}
      /\ x.pc = "refresh" => /\ x.user = req[r].user
                             /\ x.telegram_user_id = req[r].telegram_user_id
      /\ x.rename => x.username # NoName
  <2>1. CASE Update(r)
    BY <1>1, <2>1 DEF Request, Steps, IInv, Authorized
  <2>2. CASE ~Update(r)
    BY <2>2, IdleType DEF Idle
  <2> QED  BY <2>1, <2>2
<1>3. Become(r, x)  BY DEF Update, UpdateLost, Goto, Drop
<1> HIDE DEF x
<1>4. /\ req' \in [Requests -> Request] /\ req'[r] = x
      /\ \A q \in Requests \ {r} : req'[q] = req[q]
  BY <1>2, <1>3, Others DEF IInv
<1>5. /\ users' \subseteq User /\ OneRowPerUser'
      /\ \A row \in users : \E new \in users' :
           new.id = row.id /\ new.telegram_user_id = row.telegram_user_id
      /\ \A new \in users' : \E row \in users :
           new.id = row.id /\ new.telegram_user_id = row.telegram_user_id
  BY <1>1, RenameKeepsKeys
<1>6. TypeOK'  BY <1>1, <1>4, <1>5 DEF IInv, TypeOK
<1>7. ActsAsItself'
  <2>1. ASSUME NEW q \in Requests, req'[q].pc \in {"refresh", "authenticated"}
        PROVE  \E row \in users : /\ row.id = req'[q].user
                                  /\ row.telegram_user_id = req'[q].telegram_user_id
    BY <1>1, <1>2, <1>4, <2>1 DEF IInv, ActsAsItself, Found, At
  <2> QED  BY <1>5, <2>1 DEF ActsAsItself
<1>8. Found'
  <2>1. ASSUME NEW q \in Requests, req'[q].pc = "update"
        PROVE  \E row \in users : /\ row.id = req'[q].user
                                  /\ row.telegram_user_id = req'[q].telegram_user_id
    BY <1>1, <1>2, <1>4, <2>1 DEF IInv, Found, At
  <2> QED  BY <1>5, <2>1 DEF Found, At
<1>9. Authorized'
  BY <1>1, <1>2, <1>4 DEF IInv, Authorized
<1>10. IdsApart'
  BY <1>1, <1>2, <1>4, <1>5 DEF IInv, IdsApart, At
<1>11. KeysApart'
  BY <1>1, <1>2, <1>4, <1>5 DEF IInv, KeysApart, Known, HoldsKey, At
<1> QED  BY <1>5, <1>6, <1>7, <1>8, <1>9, <1>10, <1>11 DEF IInv

\* The COMMIT of a new row frees the key it holds for the row that has it.
LEMMA CommitStep ==
  ASSUME IInv, NEW r \in Requests, CommitCreate(r) \/ CommitCreateLost(r)
  PROVE  IInv'
<1> DEFINE x == IF CommitCreate(r) THEN [req[r] EXCEPT !.pc = "refresh"] ELSE Idle
           new == [id |-> req[r].user, telegram_user_id |-> req[r].telegram_user_id,
                   username |-> req[r].username]
<1>1. /\ req[r] \in Request /\ req[r].pc = "flushed" /\ req[r].telegram_user_id > 0
      /\ req[r].telegram_user_id \in TelegramIds
      /\ req[r].user \in UserIds /\ req[r].user < nextUser
      /\ nextUser' = nextUser /\ users' = users \cup {new}
  <2>1. req[r] \in Request /\ req[r].pc = "flushed" /\ req[r].telegram_user_id > 0
        /\ req[r].user \in UserIds /\ req[r].user < nextUser
    BY DEF IInv, TypeOK, Authorized, IdsApart, CommitCreate, CommitCreateLost, At
  <2>2. req[r].telegram_user_id \in TelegramIds  BY <2>1 DEF Request
  <2>3. nextUser' = nextUser /\ users' = users \cup {new}
    BY DEF CommitCreate, CommitCreateLost, Insert
  <2> QED  BY <2>1, <2>2, <2>3
<1>2. /\ x \in Request /\ x.pc \in {"refresh", "idle"}
      /\ x.pc = "refresh" => /\ x.user = req[r].user
                             /\ x.telegram_user_id = req[r].telegram_user_id
      /\ x.rename => x.username # NoName
  <2>1. CASE CommitCreate(r)
    BY <1>1, <2>1 DEF Request, Steps, IInv, Authorized
  <2>2. CASE ~CommitCreate(r)
    BY <2>2, IdleType DEF Idle
  <2> QED  BY <2>1, <2>2
<1>3. Become(r, x)  BY DEF CommitCreate, CommitCreateLost, Goto, Drop
<1>4. /\ new \in User /\ new.id = req[r].user
      /\ new.telegram_user_id = req[r].telegram_user_id
  BY <1>1 DEF User, Request
<1> HIDE DEF x, new
<1>5. /\ req' \in [Requests -> Request] /\ req'[r] = x
      /\ \A q \in Requests \ {r} : req'[q] = req[q]
  BY <1>2, <1>3, Others DEF IInv
<1>6. TypeOK'  BY <1>1, <1>4, <1>5 DEF IInv, TypeOK
<1>7. \A row \in users : /\ row.id # new.id
                         /\ row.telegram_user_id # new.telegram_user_id
  BY <1>1, <1>4 DEF IInv, IdsApart, KeysApart, Known, At
<1>8. OneRowPerUser'
  BY <1>1, <1>7 DEF IInv, OneRowPerUser
<1>9. ActsAsItself'
  BY <1>1, <1>2, <1>4, <1>5 DEF IInv, ActsAsItself
<1>10. Found'
  BY <1>1, <1>2, <1>5 DEF IInv, Found, At
<1>11. Authorized'
  BY <1>1, <1>2, <1>5 DEF IInv, Authorized
<1>12. ASSUME NEW q \in Requests, req'[q].pc = "flushed"
       PROVE  q # r /\ req'[q] = req[q]
  BY <1>2, <1>5, <1>12
<1>13. IdsApart'
  BY <1>1, <1>4, <1>5, <1>12 DEF IInv, IdsApart, At
<1>14. KeysApart'
  <2>1. ASSUME NEW q \in Requests, req'[q].pc = "flushed"
        PROVE  /\ \A row \in users' : row.telegram_user_id # req'[q].telegram_user_id
               /\ \A p \in Requests \ {q} : req'[p].pc = "flushed" =>
                    req'[p].telegram_user_id # req'[q].telegram_user_id
    <3>1. q # r /\ req'[q] = req[q]  BY <1>12, <2>1
    <3>2. req[q].telegram_user_id # new.telegram_user_id
      BY <1>1, <1>4, <2>1, <3>1 DEF IInv, KeysApart, HoldsKey, At
    <3>3. \A row \in users : row.telegram_user_id # req[q].telegram_user_id
      BY <2>1, <3>1 DEF IInv, KeysApart, Known, At
    <3>4. \A p \in Requests \ {q} : req'[p].pc = "flushed" =>
            req'[p].telegram_user_id # req[q].telegram_user_id
      BY <1>12, <2>1, <3>1 DEF IInv, KeysApart, HoldsKey, At
    <3> QED  BY <1>1, <3>1, <3>2, <3>3, <3>4
  <2> QED  BY <2>1 DEF KeysApart, Known, HoldsKey, At
<1> QED  BY <1>6, <1>8, <1>9, <1>10, <1>11, <1>13, <1>14 DEF IInv

LEMMA CrashStep ==
  ASSUME IInv, Crash
  PROVE  IInv'
<1>1. /\ \A q \in Requests : req'[q] = Idle
      /\ req' \in [Requests -> Request] /\ UNCHANGED <<users, nextUser>>
  BY IdleType DEF Crash
<1>2. Idle.pc = "idle" /\ ~Idle.rename  BY DEF Idle
<1> QED
  BY <1>1, <1>2 DEF IInv, TypeOK, OneRowPerUser, ActsAsItself, IdsApart,
     KeysApart, Authorized, Found, At, HoldsKey

LEMMA NextInvariant ==
  ASSUME IInv, [Next]_vars
  PROVE  IInv'
<1>1. CASE UNCHANGED vars
  BY <1>1 DEF vars, IInv, TypeOK, OneRowPerUser, ActsAsItself, IdsApart,
     KeysApart, Authorized, Found, At, HoldsKey, Known
<1>2. ASSUME NEW r \in Requests, NEW key \in BOOLEAN, NEW t \in TelegramIds,
             NEW n \in Names \cup {NoName}, Arrive(r, key, t, n)
      PROVE  IInv'
  BY <1>2, ArriveStep
<1>3. ASSUME NEW r \in Requests, Proceed(r) \/ Abort(r)
      PROVE  IInv'
  BY <1>3, FindStep, LeaveStep, CreateStep, UpdateStep, CommitStep DEF Proceed
<1>4. CASE Crash  BY <1>4, CrashStep
<1> QED  BY <1>1, <1>2, <1>3, <1>4 DEF Next

\* The strengthened invariant, for every number of requests, users and names.
THEOREM InvariantTheorem == Spec => []IInv
<1>1. Init => IInv  BY InitInvariant
<1>2. IInv /\ [Next]_vars => IInv'  BY NextInvariant
<1> QED  BY <1>1, <1>2, PTL DEF Spec

\* The variables keep to their types.
THEOREM TypeTheorem == Spec => []TypeOK
<1>1. IInv => TypeOK  BY DEF IInv
<1> QED  BY <1>1, InvariantTheorem, PTL

\* However many first requests of a user run at once, the user gets one row.
THEOREM OneRowTheorem == Spec => []OneRowPerUser
<1>1. IInv => OneRowPerUser  BY DEF IInv
<1> QED  BY <1>1, InvariantTheorem, PTL

\* A request acts as the user whose Telegram id it carries.
THEOREM ActsAsItselfTheorem == Spec => []ActsAsItself
<1>1. IInv => ActsAsItself  BY DEF IInv
<1> QED  BY <1>1, InvariantTheorem, PTL

LEMMA NamesKept ==
  ASSUME IInv, Next, NEW row \in users, NEW new \in users', row.id = new.id,
         row.username # NoName
  PROVE  new.username # NoName
<1>1. CASE UNCHANGED users
  BY <1>1 DEF IInv, OneRowPerUser
<1>2. ASSUME NEW r \in Requests, Update(r) \/ UpdateLost(r)
      PROVE  new.username # NoName
  <2>1. At(r, "update") /\ Rename(r) /\ req[r] \in Request
    BY <1>2 DEF Update, UpdateLost, IInv, TypeOK
  <2>2. PICK old \in users :
          new = IF old.id = req[r].user /\ req[r].rename
                THEN [old EXCEPT !.username = req[r].username] ELSE old
    BY <2>1 DEF Rename
  <2>3. old \in User /\ new.id = old.id  BY <2>2 DEF IInv, TypeOK, User
  <2>4. old = row  BY <2>3 DEF IInv, OneRowPerUser
  <2>5. req[r].rename => req[r].username # NoName  BY DEF IInv, Authorized
  <2> QED  BY <2>2, <2>3, <2>4, <2>5 DEF User
<1>3. ASSUME NEW r \in Requests, CommitCreate(r) \/ CommitCreateLost(r)
      PROVE  new.username # NoName
  <2>1. At(r, "flushed") /\ Insert(r)
    BY <1>3 DEF CommitCreate, CommitCreateLost
  <2>2. row.id # req[r].user  BY <2>1 DEF IInv, IdsApart
  <2>3. new \in users  BY <2>1, <2>2 DEF Insert
  <2> QED  BY <2>3 DEF IInv, OneRowPerUser
<1> QED
  BY <1>1, <1>2, <1>3 DEF Next, Proceed, Arrive, Find, Create, Refresh,
     Answer, Abort, Crash

\* A user who once had a username keeps one, whatever requests interleave.
THEOREM NameNeverErasedTheorem == Spec => NameNeverErased
<1>1. IInv /\ [Next]_vars =>
        [\A row \in users, new \in users' :
           row.id = new.id /\ row.username # NoName => new.username # NoName]_vars
  BY NamesKept
<1> QED  BY <1>1, InvariantTheorem, PTL DEF Spec, NameNeverErased
=============================================================================

--------------------------- MODULE UserDirectory ---------------------------
(***************************************************************************)
(* Who a request acts as: get_current_telegram_user, which every endpoint  *)
(* depends on, and UserService.get_or_create_telegram_user, run by         *)
(* concurrent requests of one or several Telegram users.                   *)
(*                                                                         *)
(* A row appears at its commit.  An INSERT whose key another transaction   *)
(* has inserted and not committed waits for that transaction.              *)
(***************************************************************************)
EXTENDS Integers, FiniteSets

CONSTANTS
    Requests,     \* slots of requests the server handles concurrently
    TelegramIds,  \* values of the X-Telegram-User-Id header, legal or not
    Names,        \* values of the X-Telegram-Username header
    NoName,       \* no such header; NULL in users.username
    MaxUserId     \* bound on users.id, an unbounded sequence in the code

ASSUME UserDirectoryAssumption ==
    /\ TelegramIds \subseteq Int
    /\ NoName \notin Names
    /\ MaxUserId \in Nat

VARIABLES
    users,     \* committed rows of users
    nextUser,  \* next value of the sequence behind users.id
    req        \* the local state of each request

vars == <<users, nextUser, req>>

UserIds == Nat \ {0}
NoUser == 0
User == [id : UserIds, telegram_user_id : {t \in TelegramIds : t > 0},
         username : Names \cup {NoName}]
Steps == {"idle", "find", "update", "create", "flushed", "refresh",
          "authenticated", "unauthorized", "failed"}
Request == [pc : Steps,
            telegram_user_id : TelegramIds \cup {0},
            username : Names \cup {NoName},  \* of the header
            user : UserIds \cup {NoUser},
            rename : BOOLEAN]                \* the name read differs
Idle == [pc |-> "idle", telegram_user_id |-> 0, username |-> NoName,
         user |-> NoUser, rename |-> FALSE]

At(r, step) == req[r].pc = step
Become(r, x) == req' = [req EXCEPT ![r] = x]
Goto(r, step) == Become(r, [req[r] EXCEPT !.pc = step])
Drop(r) == Become(r, Idle)

Known(t) == \E row \in users : row.telegram_user_id = t

\* Slots that may still take a value of the sequence: MaxUserId bounds arrivals.
Arriving == {r \in Requests : req[r].pc \in {"find", "create"}}

\* Defect: the name is compared, and a missing header is a name.
RenamesNull(r, row) == row.username # req[r].username

Renames(r, row) ==
    req[r].username # NoName /\ row.username # req[r].username

\* Defect: the key is locked before it is inserted.
HoldsKeyEarly(r, t) ==
    req[r].pc \in {"create", "flushed"} /\ req[r].telegram_user_id = t

\* the row r has inserted and not committed
HoldsKey(r, t) == At(r, "flushed") /\ req[r].telegram_user_id = t
-----------------------------------------------------------------------------
\* Defect: the Telegram id is not looked at.
ArriveUnchecked(r, key, t, n) ==
    /\ At(r, "idle")
    /\ nextUser + Cardinality(Arriving) <= MaxUserId
    /\ Become(r, [Idle EXCEPT !.telegram_user_id = t, !.username = n,
                              !.pc = IF key THEN "find" ELSE "unauthorized"])
    /\ UNCHANGED <<users, nextUser>>

\* The API key and the Telegram id are checked before the database is asked.
Arrive(r, key, t, n) ==
    /\ At(r, "idle")
    /\ nextUser + Cardinality(Arriving) <= MaxUserId
    /\ Become(r, [Idle EXCEPT
         !.telegram_user_id = t, !.username = n,
         !.pc = IF key /\ t > 0 THEN "find" ELSE "unauthorized"])
    /\ UNCHANGED <<users, nextUser>>

\* Defect: the query has no WHERE.
FindAny(r) ==
    /\ At(r, "find")
    /\ \/ /\ users = {} /\ Goto(r, "create")
       \/ \E row \in users :
            Become(r, [req[r] EXCEPT !.pc = "update", !.user = row.id,
                                     !.rename = Renames(r, row)])
    /\ UNCHANGED <<users, nextUser>>

Find(r) ==
    /\ At(r, "find")
    /\ \/ /\ ~Known(req[r].telegram_user_id)
          /\ Goto(r, "create")
       \/ \E row \in users :
            /\ row.telegram_user_id = req[r].telegram_user_id
            /\ Become(r, [req[r] EXCEPT !.pc = "update", !.user = row.id,
                                        !.rename = Renames(r, row)])
    /\ UNCHANGED <<users, nextUser>>

Rename(r) ==
    users' = {IF row.id = req[r].user /\ req[r].rename
              THEN [row EXCEPT !.username = req[r].username]
              ELSE row : row \in users}

\* The row is written if the name was found to differ, whatever another
\* request has written since: the last writer wins.
Update(r) ==
    /\ At(r, "update")
    /\ Rename(r)
    /\ Goto(r, "refresh")
    /\ UNCHANGED nextUser

UpdateLost(r) ==
    /\ At(r, "update")
    /\ Rename(r)
    /\ Drop(r)
    /\ UNCHANGED nextUser

\* Defect: no unique index on users.telegram_user_id.
CreateUnchecked(r) ==
    /\ At(r, "create")
    /\ Become(r, [req[r] EXCEPT !.pc = "flushed", !.user = nextUser])
    /\ nextUser' = nextUser + 1
    /\ UNCHANGED users

\* The INSERT waits for an uncommitted one of the same key, takes a value of
\* the sequence either way, and raises IntegrityError if the key is taken.
Create(r) ==
    /\ At(r, "create")
    /\ \A q \in Requests \ {r} : ~HoldsKey(q, req[r].telegram_user_id)
    /\ IF Known(req[r].telegram_user_id)
       THEN Goto(r, "failed")
       ELSE Become(r, [req[r] EXCEPT !.pc = "flushed", !.user = nextUser])
    /\ nextUser' = nextUser + 1
    /\ UNCHANGED users

Insert(r) ==
    users' = users \cup {[id |-> req[r].user,
                          telegram_user_id |-> req[r].telegram_user_id,
                          username |-> req[r].username]}

CommitCreate(r) ==
    /\ At(r, "flushed")
    /\ Insert(r)
    /\ Goto(r, "refresh")
    /\ UNCHANGED nextUser

CommitCreateLost(r) ==
    /\ At(r, "flushed")
    /\ Insert(r)
    /\ Drop(r)
    /\ UNCHANGED nextUser

\* the user is handed to the endpoint
Refresh(r) ==
    /\ At(r, "refresh")
    /\ \E row \in users : row.id = req[r].user
    /\ Goto(r, "authenticated")
    /\ UNCHANGED <<users, nextUser>>

Answer(r) ==
    /\ req[r].pc \in {"authenticated", "unauthorized", "failed"}
    /\ Drop(r)
    /\ UNCHANGED <<users, nextUser>>

\* PostgreSQL fails a statement, or the connection is gone.
Abort(r) ==
    /\ req[r].pc \in {"find", "update", "create", "flushed", "refresh"}
    /\ Drop(r)
    /\ UNCHANGED <<users, nextUser>>

Crash ==
    /\ req' = [r \in Requests |-> Idle]
    /\ UNCHANGED <<users, nextUser>>

Proceed(r) ==
    \/ Find(r) \/ Update(r) \/ UpdateLost(r)
    \/ Create(r) \/ CommitCreate(r) \/ CommitCreateLost(r)
    \/ Refresh(r) \/ Answer(r)

Init ==
    /\ users = {}
    /\ nextUser = 1
    /\ req = [r \in Requests |-> Idle]

Next ==
    \/ \E r \in Requests :
         \/ \E key \in BOOLEAN, t \in TelegramIds, n \in Names \cup {NoName} :
              Arrive(r, key, t, n)
         \/ Proceed(r) \/ Abort(r)
    \/ Crash

Spec == Init /\ [][Next]_vars

\* The event loop runs every accepted request, and PostgreSQL answers every
\* statement that waits for no other transaction; it serves those that wait
\* for a key in turn.
FairSpec ==
    Spec /\ \A r \in Requests : WF_vars(Proceed(r)) /\ SF_vars(Create(r))
-----------------------------------------------------------------------------
(* What the directory promises                                             *)

\* The variables keep to their types; no row has an illegal Telegram id.
TypeOK ==
    /\ users \subseteq User
    /\ nextUser \in UserIds
    /\ req \in [Requests -> Request]

\* However many first requests of a user run at once, the user gets one row,
\* and no two rows share an id (get_or_create_telegram_user).
OneRowPerUser ==
    \A row1, row2 \in users :
      \/ row1.id = row2.id
      \/ row1.telegram_user_id = row2.telegram_user_id
      => row1 = row2

\* A request acts as the user whose Telegram id it carries and as nobody
\* else, also when it found its row while others were creating theirs.
ActsAsItself ==
    \A r \in Requests : req[r].pc \in {"refresh", "authenticated"} =>
      \E row \in users : /\ row.id = req[r].user
                         /\ row.telegram_user_id = req[r].telegram_user_id

\* A user who once had a username keeps one: a request without the header
\* writes none, whatever it read before others wrote.
NameNeverErased ==
    [][\A row \in users, new \in users' :
         row.id = new.id /\ row.username # NoName => new.username # NoName]_vars

\* No request waits forever, though an INSERT waits for others of its key.
Served ==
    \A r \in Requests : At(r, "find") ~>
      req[r].pc \in {"authenticated", "failed", "idle"}
-----------------------------------------------------------------------------
(* Why they hold                                                           *)

\* ids are taken from the sequence, by one request each
IdsApart ==
    /\ \A row \in users : row.id < nextUser
    /\ \A r \in Requests : At(r, "flushed") =>
         /\ req[r].user \in UserIds /\ req[r].user < nextUser
         /\ \A row \in users : row.id # req[r].user
         /\ \A q \in Requests \ {r} : At(q, "flushed") => req[q].user # req[r].user

\* the unique index: a key is held by one request or by a row, not by both
KeysApart ==
    \A r \in Requests : At(r, "flushed") =>
      /\ ~Known(req[r].telegram_user_id)
      /\ \A q \in Requests \ {r} : ~HoldsKey(q, req[r].telegram_user_id)

Authorized ==
    \A r \in Requests :
      /\ req[r].pc \in {"find", "update", "create", "flushed", "refresh"}
           => req[r].telegram_user_id > 0
      /\ req[r].rename => req[r].username # NoName

\* found rows are never deleted
Found ==
    \A r \in Requests : At(r, "update") =>
      \E row \in users : /\ row.id = req[r].user
                         /\ row.telegram_user_id = req[r].telegram_user_id

\* The inductive invariant: OneRowPerUser and ActsAsItself with what the
\* sequence and the unique index guarantee of uncommitted rows.
IInv ==
    /\ TypeOK
    /\ OneRowPerUser
    /\ ActsAsItself
    /\ IdsApart
    /\ KeysApart
    /\ Authorized
    /\ Found
=============================================================================

----------------------------- MODULE RateLimit -----------------------------
(***************************************************************************)
(* The rate limit of one request: the hit and the statistics of its window *)
(* are two calls of Redis, each of which may fail.                         *)
(*                                                                         *)
(* The window of the limits library is external: it counts the hits it     *)
(* admits under a key, and forgets them as it slides.  What the headers    *)
(* say (limit, remaining, reset) is left out.                              *)
(***************************************************************************)
EXTENDS Naturals, FiniteSets

CONSTANTS
    Requests,   \* slots of requests the server handles concurrently
    Users,      \* users.id of the users who ask
    Limits,     \* scope -> hits per window, of the rules
    FailClosed  \* the scopes whose rule has failure_mode="closed"

Scopes == DOMAIN Limits

ASSUME RateLimitAssumption ==
    /\ \A s \in Scopes : Limits[s] \in Nat \ {0}
    /\ FailClosed \subseteq Scopes

VARIABLES
    hits,   \* hits of each scope and user still in the window
    check   \* the call of RateLimitService.hit of each request

limiterVars == <<hits, check>>

Check == [pc : {"off", "hit", "stats", "done"},
          rule : Scopes \cup {"none"},
          user : Users \cup {0},
          exceeded : BOOLEAN,   \* limiter.hit returned False
          allowed : BOOLEAN]
Unchecked == [pc |-> "off", rule |-> "none", user |-> 0,
              exceeded |-> FALSE, allowed |-> FALSE]

\* Defect: the key names the scope and not the user.
ScopeKey(s, u) == <<"rate-limit", s>>

BuildUserKey(s, u) == <<"rate-limit", s, "user", u>>

\* the hits Redis has counted under a key
Counted(key) ==
    Cardinality(UNION {{<<p[1], p[2], i>> : i \in 1 .. hits[p[1]][p[2]]} :
      p \in {q \in Scopes \X Users : BuildUserKey(q[1], q[2]) = key}})

Exceeds(s, u) == Counted(BuildUserKey(s, u)) + 1 > Limits[s]
-----------------------------------------------------------------------------
BeginCheck(r, s, u) ==
    check' = [check EXCEPT ![r] = [Unchecked EXCEPT
                !.pc = "hit", !.rule = s, !.user = u]]

EndCheck(r) == check' = [check EXCEPT ![r] = Unchecked]

\* One hit is tested and counted atomically; one that is refused costs nothing.
Hit(r) ==
    LET s == check[r].rule
        u == check[r].user
    IN /\ check[r].pc = "hit"
       /\ hits' = IF Exceeds(s, u) THEN hits
                  ELSE [hits EXCEPT ![s][u] = @ + 1]
       /\ check' = [check EXCEPT ![r] = [@ EXCEPT
                      !.pc = "stats", !.exceeded = Exceeds(s, u)]]

Stats(r) ==
    /\ check[r].pc = "stats"
    /\ check' = [check EXCEPT ![r] = [@ EXCEPT
                   !.pc = "done", !.allowed = ~check[r].exceeded]]
    /\ UNCHANGED hits

\* StorageError of either call: what limiter.hit may have said is forgotten
\* and the rule decides.
HandleStorageFailure(r) ==
    check' = [check EXCEPT ![r] = [@ EXCEPT
                !.pc = "done", !.allowed = check[r].rule \notin FailClosed]]

\* The hit is lost before Redis counts it, or its answer is lost after.
HitFails(r) ==
    LET s == check[r].rule
        u == check[r].user
    IN /\ check[r].pc = "hit"
       /\ \/ UNCHANGED hits
          \/ ~Exceeds(s, u) /\ hits' = [hits EXCEPT ![s][u] = @ + 1]
       /\ HandleStorageFailure(r)

StatsFail(r) ==
    /\ check[r].pc = "stats"
    /\ HandleStorageFailure(r)
    /\ UNCHANGED hits

\* Time passes and the window forgets a hit.
Slide ==
    /\ \E s \in Scopes, u \in Users :
         hits[s][u] > 0 /\ hits' = [hits EXCEPT ![s][u] = @ - 1]
    /\ UNCHANGED check

LimiterInit ==
    /\ hits = [s \in Scopes |-> [u \in Users |-> 0]]
    /\ check = [r \in Requests |-> Unchecked]

LimiterStep(r) == Hit(r) \/ Stats(r) \/ HitFails(r) \/ StatsFail(r)
-----------------------------------------------------------------------------
LimiterTypeOK ==
    /\ hits \in [Scopes -> [Users -> Nat]]
    /\ \A s \in Scopes, u \in Users : hits[s][u] <= Limits[s]
    /\ check \in [Requests -> Check]

\* Only the user's own hits on the same scope refuse a request: users and
\* scopes do not use up each other's limits.
RefusedOwnLimit ==
    [][\A r \in Requests :
         ~check[r].exceeded /\ check'[r].exceeded =>
           hits[check[r].rule][check[r].user] = Limits[check[r].rule]]_limiterVars

\* README.md, "Rate limiting": beyond the limit the API answers 429, so a
\* request whose hit was refused is not let through.
ExceededIsRefused ==
    \A r \in Requests :
      check[r].pc = "done" /\ check[r].exceeded => ~check[r].allowed
=============================================================================

---------------------------- MODULE AuthService ----------------------------
(***************************************************************************)
(* The session half of the Master Gateway: AuthService (auth.service.ts)   *)
(* working on the refresh_tokens table, and UsersService.remove, which     *)
(* revokes the same rows.                                                  *)
(*                                                                         *)
(* A handler is an async function: between two awaits nothing else of it   *)
(* runs, but any other handler, of this replica or of another one, may.    *)
(* So one action is the code from one database call to the next, the call  *)
(* included, and req[r] keeps the locals that live across the awaits.      *)
(* Every database call is one PostgreSQL statement (atomic, and the        *)
(* conditional updateMany re-evaluates its WHERE after waiting for a row   *)
(* lock); only UsersService.remove runs a multi-statement transaction, at  *)
(* the default isolation READ COMMITTED.                                   *)
(*                                                                         *)
(* Not kept: the contents and signatures of the tokens, password and token *)
(* hashes (a jti belongs to one token, so the argon2 comparison of a token *)
(* that verified always succeeds), rate limits and logging.                *)
(***************************************************************************)
EXTENDS Naturals, FiniteSets

CONSTANTS
  Users,     \* user ids
  Roles,     \* role ids
  Jtis,      \* what randomUUID() can return for a refresh token's jti
  Requests,  \* concurrent HTTP requests the backend is serving
  None       \* null / undefined

VARIABLES
  userActive,  \* users.estado = ACTIVO
  assigned,    \* ACTIVE rows of user_roles (their role ACTIVE too)
  temp,        \* users that hold an unexpired tempToken
  expired,     \* refresh tokens issued more than seven days ago
  tokens,      \* the refresh_tokens table, by jti
  req,         \* the requests and their locals
  removal,     \* the DELETE /users/:id transaction of each user
  delivered,   \* jtis of the refresh tokens that reached a client
  root,        \* history: the first jti of the session a jti was drawn for
  raced        \* history: sessions being issued while their user was removed

vars == <<userActive, assigned, temp, expired, tokens, req, removal,
          delivered, root, raced>>

-----------------------------------------------------------------------------
(* Rows, requests and transactions *)

Token == [user: Users, role: Roles, estado: {"ACTIVO", "INACTIVO"},
          revoked: BOOLEAN, replacedBy: Jtis \cup {None}, reuse: BOOLEAN]

ASSUME NoneAssumption == None \notin Users \cup Roles \cup Jtis \cup Token

\* What a request is about to do. An answered one is idle, or remembers
\* that it was answered "Refresh token reutilizado".
Step == {"select", "read", "expire", "claim", "revoke", "issue", "replace",
         "reply", "idle", "reused"}

Over == {"idle", "reused"}

Request == [pc: Step, user: Users \cup {None}, role: Roles \cup {None},
            jti: Jtis \cup {None}, next: Jtis \cup {None}]

\* rows is what the transaction's first statement has updated and locked.
Removal == [pc: {"none", "checked", "revoked"}, rows: SUBSET Jtis]

NoRemoval == [pc |-> "none", rows |-> {}]

Checked == [pc |-> "checked", rows |-> {}]

Doing(step, u, ro, j, n) ==
  [pc |-> step, user |-> u, role |-> ro, jti |-> j, next |-> n]

IdleRequest == Doing("idle", None, None, None, None)

To(q, step) == Doing(step, q.user, q.role, q.jti, q.next)

Active(j) == tokens[j] # None /\ tokens[j].estado = "ACTIVO"

\* A row an uncommitted transaction has updated: other writers wait for it.
Locked(j) == \E u \in Users : j \in removal[u].rows

\* Values randomUUID() can still return: never drawn, nor promised to the
\* end of a request that has not got that far.
Fresh == {j \in Jtis : root[j] = None /\ \A r \in Requests : req[r].next # j}

\* Every write that takes a row out of use sets estado and revokedAt; some
\* also set replacedByJti or reuseDetected.
RetireEstadoOnly(t, by, reuse) ==
  [user |-> t.user, role |-> t.role, estado |-> "INACTIVO",
   revoked |-> t.revoked, replacedBy |-> by, reuse |-> reuse]

Retire(t, by, reuse) ==
  [user |-> t.user, role |-> t.role, estado |-> "INACTIVO",
   revoked |-> TRUE, replacedBy |-> by, reuse |-> reuse]

\* UPDATE refresh_tokens SET revocado_en, estado (and, where reuse was
\* detected, reutilizacion_detectada) WHERE the row is in J.
Revoke(J, reuse) ==
  [j \in Jtis |-> IF j \in J
                   THEN Retire(tokens[j], tokens[j].replacedBy,
                               reuse \/ tokens[j].reuse)
                   ELSE tokens[j]]

-----------------------------------------------------------------------------
Init ==
  /\ userActive = [u \in Users |-> TRUE]
  /\ assigned \in SUBSET (Users \X Roles)
  /\ temp = {}
  /\ expired = {}
  /\ tokens = [j \in Jtis |-> None]
  /\ req = [r \in Requests |-> IdleRequest]
  /\ removal = [u \in Users |-> NoRemoval]
  /\ delivered = {}
  /\ root = [j \in Jtis |-> None]
  /\ raced = {}

(* login: the password check abstracted to its success, the tempToken of   *)
(* five minutes to membership in temp. It can be used more than once.      *)
Login(u) ==
  /\ userActive[u]
  /\ temp' = temp \cup {u}
  /\ UNCHANGED <<userActive, assigned, expired, tokens, req, removal,
                 delivered, root, raced>>

TempTokenExpires(u) ==
  /\ temp' = temp \ {u}
  /\ UNCHANGED <<userActive, assigned, expired, tokens, req, removal,
                 delivered, root, raced>>

(* selectRole: verifyTempToken passed and the assignment is about to be    *)
(* looked up.                                                              *)
SelectRole(r, u, ro) ==
  /\ req[r].pc \in Over
  /\ u \in temp
  /\ \E n \in Fresh :
       req' = [req EXCEPT ![r] = Doing("select", u, ro, None, n)]
  /\ UNCHANGED <<userActive, assigned, temp, expired, tokens, removal,
                 delivered, root, raced>>

\* A session under way for a user whose removal has locked its tokens but
\* not committed is one the removal's first statement could not see.
RacedBy(u, s) ==
  IF removal[u].pc = "revoked" THEN raced \cup {s} ELSE raced

FindAssignment(r) ==
  LET q == req[r] IN
  /\ q.pc = "select"
  /\ IF userActive[q.user] /\ <<q.user, q.role>> \in assigned
       THEN /\ req' = [req EXCEPT ![r] = To(@, "issue")]
            /\ root' = [root EXCEPT ![q.next] = q.next]
            /\ raced' = RacedBy(q.user, q.next)
       ELSE /\ req' = [req EXCEPT ![r] = IdleRequest]
            /\ UNCHANGED <<root, raced>>
  /\ UNCHANGED <<userActive, assigned, temp, expired, tokens, removal,
                 delivered>>

-----------------------------------------------------------------------------
(* refresh *)

(* verifyRefreshToken: the JWT has its own expiry, checked before the      *)
(* database is read (a token it rejects changes nothing and is not         *)
(* modelled). A client may present any token it was ever given.            *)
RefreshVerify(r, j) ==
  /\ req[r].pc \in Over
  /\ j \in delivered
  /\ j \notin expired
  /\ \E n \in Fresh :
       req' = [req EXCEPT ![r] = Doing("read", None, None, j, n)]
  /\ UNCHANGED <<userActive, assigned, temp, expired, tokens, removal,
                 delivered, root, raced>>

\* The checks on the row that was read, in the order of the code.
Verdict(t, isExpired) ==
  IF t = None \/ t.estado # "ACTIVO" THEN "denied"
  ELSE IF t.revoked \/ t.replacedBy # None THEN "revoke"
  ELSE IF isExpired THEN "expire"
  ELSE "claim"

(* findUnique by jti. The row is read once: what is used of it after later *)
(* awaits is its user and its role.                                        *)
RefreshRead(r) ==
  LET q == req[r]
      t == tokens[q.jti]
      verdict == Verdict(t, q.jti \in expired)
  IN
  /\ q.pc = "read"
  /\ req' = [req EXCEPT ![r] =
               IF verdict = "denied" THEN IdleRequest
               ELSE Doing(verdict, t.user, t.role, q.jti,
                          IF verdict = "claim" THEN q.next ELSE None)]
  /\ UNCHANGED <<userActive, assigned, temp, expired, tokens, removal,
                 delivered, root, raced>>

RefreshExpire(r) ==
  LET q == req[r] IN
  /\ q.pc = "expire"
  /\ ~Locked(q.jti)
  /\ tokens' = Revoke({q.jti}, FALSE)
  /\ req' = [req EXCEPT ![r] = IdleRequest]
  /\ UNCHANGED <<userActive, assigned, temp, expired, removal, delivered,
                 root, raced>>

(* The conditional updateMany that only one request can win. (Without its  *)
(* WHERE, or without writing the row before issuing, it is the code the    *)
(* comment in refresh says was replaced.)                                  *)
ClaimableById(t) == TRUE

Claimable(t) == t.estado = "ACTIVO" /\ ~t.revoked /\ t.replacedBy = None

ConsumedLater(q) == {}

Consumed(q) == {q.jti}

RefreshClaim(r) ==
  LET q == req[r] IN
  /\ q.pc = "claim"
  /\ ~Locked(q.jti)
  /\ IF Claimable(tokens[q.jti])
       THEN /\ tokens' = Revoke(Consumed(q), FALSE)
            /\ req' = [req EXCEPT ![r] = To(@, "issue")]
            /\ root' = [root EXCEPT ![q.next] = root[q.jti]]
            /\ raced' = RacedBy(q.user, root[q.jti])
       ELSE /\ req' = [req EXCEPT ![r] = Doing("revoke", q.user, q.role, q.jti,
                                               None)]
            /\ UNCHANGED <<tokens, root, raced>>
  /\ UNCHANGED <<userActive, assigned, temp, expired, removal, delivered>>

(* revokeTokenFamily: every ACTIVE row of the user and role, whatever      *)
(* session it belongs to.                                                  *)
Family(u, ro) ==
  {j \in Jtis : Active(j) /\ tokens[j].user = u /\ tokens[j].role = ro}

RevokeTokenFamily(r) ==
  LET q == req[r]
      F == Family(q.user, q.role)
  IN
  /\ q.pc = "revoke"
  /\ \A j \in F : ~Locked(j)
  /\ tokens' = Revoke(F, TRUE)
  /\ req' = [req EXCEPT ![r] = Doing("reused", None, None, q.jti,
                                      None)]
  /\ UNCHANGED <<userActive, assigned, temp, expired, removal, delivered,
                 root, raced>>

(* issueSessionTokens: both tokens are signed, then the new row inserted.  *)
(* Its caller is selectRole (no token presented) or refresh.               *)
NewRow(q) ==
  [user |-> q.user, role |-> q.role, estado |-> "ACTIVO", revoked |-> FALSE,
   replacedBy |-> None, reuse |-> FALSE]

InsertLost(q) == tokens

Insert(q) == [tokens EXCEPT ![q.next] = NewRow(q)]

IssueSessionTokens(r) ==
  LET q == req[r] IN
  /\ q.pc = "issue"
  /\ tokens' = Insert(q)
  /\ req' = [req EXCEPT ![r] =
               To(@, IF q.jti = None THEN "reply" ELSE "replace")]
  /\ UNCHANGED <<userActive, assigned, temp, expired, removal, delivered,
                 root, raced>>

(* The old row learns its successor, after the successor exists.           *)
ReplacedByItself(q) == q.jti

ReplacedBy(q) == q.next

RefreshReplace(r) ==
  LET q == req[r] IN
  /\ q.pc = "replace"
  /\ ~Locked(q.jti)
  /\ tokens' = [tokens EXCEPT ![q.jti] = Retire(@, ReplacedBy(q), @.reuse)]
  /\ req' = [req EXCEPT ![r] = To(@, "reply")]
  /\ UNCHANGED <<userActive, assigned, temp, expired, removal, delivered,
                 root, raced>>

Reply(r) ==
  /\ req[r].pc = "reply"
  /\ delivered' = delivered \cup {req[r].next}
  /\ req' = [req EXCEPT ![r] = IdleRequest]
  /\ UNCHANGED <<userActive, assigned, temp, expired, tokens, removal, root,
                 raced>>

(* The replica dies, a database call throws, or the answer is lost: what   *)
(* was committed stays, nothing more of this request happens.              *)
Fail(r) ==
  /\ req[r].pc \notin Over
  /\ req' = [req EXCEPT ![r] = IdleRequest]
  /\ UNCHANGED <<userActive, assigned, temp, expired, tokens, removal,
                 delivered, root, raced>>

(* logout: the access token names the user, the body carries any refresh   *)
(* token; a token that does not verify is answered with success as well.   *)
Logout(u, j) ==
  /\ \E k \in delivered : tokens[k].user = u
  /\ j \in delivered
  /\ j \notin expired
  /\ ~Locked(j)
  /\ tokens' = Revoke({k \in {j} : Active(k) /\ tokens[k].user = u}, FALSE)
  /\ UNCHANGED <<userActive, assigned, temp, expired, req, removal, delivered,
                 root, raced>>

(* Seven days pass for a token, for its JWT and its row alike.             *)
TokenExpires(j) ==
  /\ tokens[j] # None
  /\ expired' = expired \cup {j}
  /\ UNCHANGED <<userActive, assigned, temp, tokens, req, removal, delivered,
                 root, raced>>

-----------------------------------------------------------------------------
(* UsersService.remove *)

RemoveCheck(u) ==
  /\ userActive[u]
  /\ removal[u].pc = "none"
  /\ removal' = [removal EXCEPT ![u] = Checked]
  /\ UNCHANGED <<userActive, assigned, temp, expired, tokens, req, delivered,
                 root, raced>>

(* The transaction's first statement. What it updates is visible to others *)
(* at commit; what it did not see it will not revoke. Forgetting it leaves *)
(* the sessions of the user alone.                                         *)
RowsOfNobody(u) == {}

RowsOf(u) == {j \in Jtis : Active(j) /\ tokens[j].user = u}

RemoveRevoke(u) ==
  /\ removal[u].pc = "checked"
  /\ removal' = [removal EXCEPT ![u] = [pc |-> "revoked", rows |-> RowsOf(u)]]
  /\ raced' = raced \cup {root[req[r].next] : r \in
                {r \in Requests : req[r].pc = "issue" /\ req[r].user = u}}
  /\ UNCHANGED <<userActive, assigned, temp, expired, tokens, req, delivered,
                 root>>

ReleaseNothing(u) == removal

Release(u) == [removal EXCEPT ![u] = NoRemoval]

RemoveCommit(u) ==
  /\ removal[u].pc = "revoked"
  /\ tokens' = Revoke(removal[u].rows, FALSE)
  /\ assigned' = assigned \ ({u} \X Roles)
  /\ userActive' = [userActive EXCEPT ![u] = FALSE]
  /\ removal' = Release(u)
  /\ UNCHANGED <<temp, expired, req, delivered, root, raced>>

RemoveRollback(u) ==
  /\ removal[u].pc # "none"
  /\ removal' = Release(u)
  /\ UNCHANGED <<userActive, assigned, temp, expired, tokens, req, delivered,
                 root, raced>>

-----------------------------------------------------------------------------
RequestStep(r) ==
  \/ FindAssignment(r)
  \/ RefreshRead(r)
  \/ RefreshExpire(r)
  \/ RefreshClaim(r)
  \/ RevokeTokenFamily(r)
  \/ IssueSessionTokens(r)
  \/ RefreshReplace(r)
  \/ Reply(r)

RemovalStep(u) == RemoveRevoke(u) \/ RemoveCommit(u)

Next ==
  \/ \E r \in Requests : RequestStep(r) \/ Fail(r)
  \/ \E r \in Requests, u \in Users, ro \in Roles : SelectRole(r, u, ro)
  \/ \E r \in Requests, j \in Jtis : RefreshVerify(r, j)
  \/ \E u \in Users : Login(u) \/ TempTokenExpires(u)
  \/ \E u \in Users, j \in Jtis : Logout(u, j)
  \/ \E j \in Jtis : TokenExpires(j)
  \/ \E u \in Users : RemoveCheck(u) \/ RemovalStep(u) \/ RemoveRollback(u)

Spec == Init /\ [][Next]_vars

(* Node runs a handler's continuation once its await settles (WF). A       *)
(* statement that waits for a row lock is queued and gets it after a       *)
(* commit or rollback, however many transactions follow (SF). A            *)
(* transaction that was opened is committed or rolled back (WF).           *)
Fairness ==
  /\ \A r \in Requests : SF_vars(RequestStep(r))
  /\ \A u \in Users : WF_vars(RemovalStep(u))

FairSpec == Spec /\ Fairness

-----------------------------------------------------------------------------
(* Safety *)

(* The shape of the state: rows exist only for jtis drawn by a session     *)
(* being issued, and a client only ever holds tokens that were stored.     *)
TypeOK ==
  /\ userActive \in [Users -> BOOLEAN]
  /\ assigned \subseteq Users \X Roles
  /\ temp \subseteq Users
  /\ expired \subseteq Jtis
  /\ tokens \in [Jtis -> Token \cup {None}]
  /\ req \in [Requests -> Request]
  /\ removal \in [Users -> Removal]
  /\ root \in [Jtis -> Jtis \cup {None}]
  /\ delivered \subseteq {j \in Jtis : tokens[j] # None}
  /\ raced \subseteq Jtis

\* The session request r is issuing a token for: past its claim, or past
\* the check of the assignment, and before the row is inserted.
Issuing(r, s) == req[r].pc = "issue" /\ root[req[r].next] = s

(* A session is never forked: whatever requests replay, race, fail or are  *)
(* revoked, at most one refresh token of a session is ACTIVE, none while a *)
(* request is about to insert the next one, and never two requests are.    *)
(* This is what the atomic consumption in refresh is for.                  *)
OneLiveTokenPerSession ==
  /\ \A j, k \in Jtis :
       Active(j) /\ Active(k) /\ root[j] = root[k] => j = k
  /\ \A r \in Requests, j \in Jtis : Active(j) => ~Issuing(r, root[j])
  /\ \A r, p \in Requests :
       req[r].pc = "issue" /\ req[p].pc = "issue"
         /\ root[req[r].next] = root[req[p].next] => r = p

(* The chain replacedByJti records is the session's history: a successor   *)
(* exists, belongs to the same session, user and role, has one             *)
(* predecessor, and the row it replaced is out of use.                     *)
ReplacementIsSuccessor ==
  \A j \in Jtis : tokens[j] # None /\ tokens[j].replacedBy # None =>
    LET k == tokens[j].replacedBy IN
    /\ tokens[k] # None /\ k # j /\ ~Active(j)
    /\ root[k] = root[j]
    /\ tokens[k].user = tokens[j].user /\ tokens[k].role = tokens[j].role
    /\ \A i \in Jtis :
         tokens[i] # None /\ tokens[i].replacedBy = k => i = j

(* estado and revokedAt say the same thing: every write that sets one sets *)
(* the other, so an ACTIVE row is never a revoked or a replaced one.       *)
ActiveIffNotRevoked ==
  \A j \in Jtis : tokens[j] # None =>
    /\ (tokens[j].estado = "ACTIVO") = ~tokens[j].revoked
    /\ tokens[j].replacedBy # None => tokens[j].revoked

(* Removing a user ends every session of theirs, except the ones that were *)
(* being issued while the removal's transaction ran.                       *)
RemovalEndsSettledSessions ==
  \A j \in Jtis :
    Active(j) /\ ~userActive[tokens[j].user] => root[j] \in raced

-----------------------------------------------------------------------------
(* What makes the safety invariants inductive *)

(* What the locals of a request say of the table, at each of its awaits.   *)
RequestLocals(r) ==
  LET q == req[r] IN
  /\ q.pc \in {"select", "read", "claim"} =>
       q.next \in Jtis /\ root[q.next] = None
  /\ q.pc \in {"issue", "replace", "reply"} =>
       q.next \in Jtis /\ root[q.next] \in Jtis
  /\ q.pc \in {"idle", "reused", "expire", "revoke"} => q.next = None
  /\ q.pc \in {"replace", "reply"} => tokens[q.next] # None
  /\ q.pc \notin {"idle", "reused", "read"} =>
       q.user \in Users /\ q.role \in Roles
  /\ q.pc \in {"read", "expire", "claim", "revoke", "replace"} =>
       q.jti \in Jtis
  /\ q.pc = "select" => q.jti = None
  /\ q.pc = "issue" =>
       /\ tokens[q.next] = None
       /\ q.jti = None => root[q.next] = q.next
  /\ q.jti # None => tokens[q.jti] # None
  /\ q.pc \in {"claim", "issue", "replace"} /\ q.jti # None =>
       q.user = tokens[q.jti].user /\ q.role = tokens[q.jti].role
  /\ q.pc \in {"issue", "replace"} /\ q.jti # None =>
       /\ ~Active(q.jti)
       /\ q.jti # q.next
       /\ root[q.next] = root[q.jti]
  /\ q.pc = "replace" =>
       /\ tokens[q.next].user = q.user /\ tokens[q.next].role = q.role
       /\ \A i \in Jtis : tokens[i] # None => tokens[i].replacedBy # q.next

NextsDiffer ==
  \A r, p \in Requests :
    req[r].next # None /\ req[r].next = req[p].next => r = p

RootsAreSessions ==
  /\ \A j \in Jtis : tokens[j] # None => root[j] # None
  /\ \A j \in Jtis : root[j] # None => root[root[j]] = root[j]

LockedRowsExist ==
  \A u \in Users : \A j \in removal[u].rows : tokens[j] # None

SessionInv ==
  /\ TypeOK
  /\ \A r \in Requests : RequestLocals(r)
  /\ NextsDiffer
  /\ RootsAreSessions
  /\ LockedRowsExist
  /\ ReplacementIsSuccessor
  /\ OneLiveTokenPerSession

-----------------------------------------------------------------------------
(* Actions *)

(* A session that has ended, by logout, expiry, reuse, removal or a failed *)
(* refresh, never has a usable token again.                                *)
Open(s) == \/ \E j \in Jtis : Active(j) /\ root[j] = s
           \/ \E r \in Requests : Issuing(r, s)

EndedSessionsStayEnded ==
  [][\A s \in Jtis : root[s] = s /\ ~Open(s) => ~Open(s)']_vars

-----------------------------------------------------------------------------
(* Refinement *)

SessionPhase(s) ==
  CASE root[s] # s -> "unopened"
    [] root[s] = s /\ (\E r \in Requests : Issuing(r, s)) -> "transit"
    [] OTHER -> IF \E j \in Jtis : Active(j) /\ root[j] = s
                  THEN "live" ELSE "closed"

SessionHolder(s) ==
  IF SessionPhase(s) = "live"
    THEN CHOOSE j \in Jtis : Active(j) /\ root[j] = s
    ELSE None

(* Every step of the service is a step of SessionChain or none at all: the *)
(* service implements the one-place-at-a-time capability.                  *)
Chain == INSTANCE SessionChain WITH
  Sessions <- Jtis, Tokens <- Jtis, NoToken <- None,
  phase <- [s \in Jtis |-> SessionPhase(s)],
  holder <- [s \in Jtis |-> SessionHolder(s)],
  used <- {j \in Jtis : tokens[j] # None}

ImplementsSessionChain == Chain!Spec

-----------------------------------------------------------------------------
(* Liveness *)

(* Every request is answered, also one whose statement waits for the rows  *)
(* a user's removal has locked.                                            *)
RequestsAnswered ==
  \A r \in Requests : req[r].pc \notin Over ~> req[r].pc \in Over

-----------------------------------------------------------------------------
(* What the documentation says and the code does not do *)

(* docs/seguridad.md: reuse of a refresh token marks the active family     *)
(* inactive. Here: once a request has been told its token was reused, the  *)
(* session of that token has no ACTIVE token.                              *)
ReuseEndsSession ==
  \A r \in Requests : req[r].pc = "reused" =>
    \A j \in Jtis : Active(j) => root[j] # root[req[r].jti]

(* The same sentence for a token presented after it was rotated: the       *)
(* request that reads a row with a replacedByJti goes on to revoke.        *)
RotatedTokenReplayRevokes ==
  [][\A r \in Requests :
       RefreshRead(r) /\ tokens[req[r].jti].replacedBy # None
         => req'[r].pc = "revoke"]_vars

(* users.service.spec.ts: removal blocks the user. Here: a removed user    *)
(* has no ACTIVE refresh token.                                            *)
RemovedUserHasNoSession ==
  \A j \in Jtis : Active(j) => userActive[tokens[j].user]
=============================================================================

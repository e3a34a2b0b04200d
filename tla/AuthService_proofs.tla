------------------------- MODULE AuthService_proofs -------------------------
(***************************************************************************)
(* What holds of AuthService for every set of users, roles, jtis and       *)
(* concurrent requests. SessionInv is the inductive invariant: the first   *)
(* part proves what an UPDATE that revokes rows preserves, the second that *)
(* every action preserves SessionInv, the last the theorems.               *)
(***************************************************************************)
EXTENDS AuthService, TLAPS

-----------------------------------------------------------------------------
(* Revoking rows *)

(* The rows of J are out of use afterwards, the others are as they were.   *)
Retired(J) ==
  \A j \in Jtis :
    IF j \in J
      THEN /\ tokens'[j] # None /\ tokens'[j].estado = "INACTIVO"
           /\ tokens'[j].user = tokens[j].user
           /\ tokens'[j].role = tokens[j].role
           /\ tokens'[j].replacedBy = tokens[j].replacedBy
      ELSE tokens'[j] = tokens[j]

(* The UPDATE behind expiry, consumption, logout, reuse and removal.       *)
LEMMA RevokedRows ==
  ASSUME tokens \in [Jtis -> Token \cup {None}],
         NEW J \in SUBSET Jtis, \A j \in J : tokens[j] # None,
         NEW reuse \in BOOLEAN, tokens' = Revoke(J, reuse)
  PROVE  tokens' \in [Jtis -> Token \cup {None}] /\ Retired(J)
<1>1. ASSUME NEW j \in J
      PROVE  /\ tokens'[j] \in Token /\ tokens'[j] # None
             /\ tokens'[j].estado = "INACTIVO"
             /\ tokens'[j].user = tokens[j].user
             /\ tokens'[j].role = tokens[j].role
             /\ tokens'[j].replacedBy = tokens[j].replacedBy
  <2>1. tokens[j] \in Token
    BY <1>1
  <2>2. tokens[j].replacedBy \in Jtis \cup {None}
    BY <2>1 DEF Token
  <2>3. PICK b \in BOOLEAN : b = (reuse \/ tokens[j].reuse)
    OBVIOUS
  <2>4. tokens'[j] = Retire(tokens[j], tokens[j].replacedBy, b)
    BY <1>1, <2>3 DEF Revoke
  <2>5. tokens'[j] \in Token
    BY <2>1, <2>2, <2>3, <2>4 DEF Retire, Token
  <2>6. tokens'[j] # None
    BY <2>5, NoneAssumption
  <2>7. tokens'[j].estado = "INACTIVO"
    BY <2>4 DEF Retire
  <2>8. tokens'[j].user = tokens[j].user /\ tokens'[j].role = tokens[j].role
    BY <2>4 DEF Retire
  <2>9. tokens'[j].replacedBy = tokens[j].replacedBy
    BY <2>4 DEF Retire
  <2> QED
    BY <2>5, <2>6, <2>7, <2>8, <2>9
<1>2. \A j \in Jtis \ J : tokens'[j] = tokens[j]
  BY DEF Revoke
<1>3. tokens' = [j \in Jtis |-> tokens'[j]]
  BY DEF Revoke
<1> QED
  BY <1>1, <1>2, <1>3 DEF Retired

(* No request's knowledge of the table is spoiled by a revocation...       *)
LEMMA LocalsSurvive ==
  ASSUME TypeOK, NEW J \in SUBSET Jtis, \A j \in J : tokens[j] # None,
         Retired(J), root' = root,
         NEW x \in Requests, req'[x] = req[x], RequestLocals(x)
  PROVE  RequestLocals(x)'
BY SMTT(60) DEF RequestLocals, Retired, Active, TypeOK, Request

(* ...nor is the chain of successors...                                    *)
LEMMA ReplacementSurvives ==
  ASSUME TypeOK, NEW J \in SUBSET Jtis, \A j \in J : tokens[j] # None,
         Retired(J), root' = root, ReplacementIsSuccessor
  PROVE  ReplacementIsSuccessor'
BY SMTT(60) DEF ReplacementIsSuccessor, Retired, Active, TypeOK, Token

(* ...and no token becomes live by it.                                     *)
LEMMA OneLiveSurvives ==
  ASSUME NEW J \in SUBSET Jtis, \A j \in J : tokens[j] # None,
         Retired(J), root' = root, OneLiveTokenPerSession,
         \A x \in Requests : req'[x].pc = "issue" => req'[x] = req[x]
  PROVE  OneLiveTokenPerSession'
BY SMTT(60) DEF OneLiveTokenPerSession, Retired, Active, Issuing

(* Together: a step that revokes existing rows and ends or redirects one   *)
(* request that is not issuing.                                            *)
LEMMA RevocationStep ==
  ASSUME SessionInv, NEW J \in SUBSET Jtis, \A j \in J : tokens[j] # None,
         NEW reuse \in BOOLEAN, tokens' = Revoke(J, reuse),
         userActive' \in [Users -> BOOLEAN], assigned' \subseteq assigned,
         req' \in [Requests -> Request], removal' \in [Users -> Removal],
         \A u \in Users : removal'[u].rows \subseteq removal[u].rows,
         UNCHANGED <<temp, expired, delivered, root, raced>>,
         \A x \in Requests : req'[x] = req[x] \/ req'[x] = IdleRequest
                               \/ /\ req'[x] = Doing("reused", None, None,
                                                     req[x].jti, None)
                                  /\ tokens[req[x].jti] # None
                                  /\ req[x].jti \in Jtis
  PROVE  SessionInv'
<1>1. Retired(J) /\ tokens' \in [Jtis -> Token \cup {None}]
  BY RevokedRows DEF SessionInv, TypeOK
<1>a. \A j \in Jtis : tokens[j] # None => tokens'[j] # None
  BY <1>1 DEF Retired
<1>b. TypeOK'
  BY <1>1, <1>a DEF SessionInv, TypeOK
<1>c. LockedRowsExist'
  <2>1. \A u \in Users : removal[u].rows \subseteq Jtis
    BY DEF SessionInv, TypeOK, Removal
  <2> QED
    BY <1>a, <2>1 DEF SessionInv, LockedRowsExist
<1>2. ASSUME NEW x \in Requests
      PROVE  RequestLocals(x)'
  <2>1. CASE req'[x] = req[x]
    BY <1>1, <2>1, LocalsSurvive DEF SessionInv
  <2>2. CASE req'[x] = IdleRequest
    BY <2>2, NoneAssumption DEF RequestLocals, IdleRequest, Doing
  <2>3. CASE /\ req'[x] = Doing("reused", None, None, req[x].jti, None)
             /\ tokens[req[x].jti] # None
             /\ req[x].jti \in Jtis
    BY <1>1, <2>3, NoneAssumption DEF RequestLocals, Doing, Retired
  <2> QED
    BY <2>1, <2>2, <2>3
<1>3. RootsAreSessions'
  BY <1>1, SMTT(60) DEF SessionInv, RootsAreSessions, Retired
<1>4. ReplacementIsSuccessor'
  BY <1>1, ReplacementSurvives DEF SessionInv
<1>5. ASSUME NEW x \in Requests, req'[x].pc = "issue"
      PROVE  req'[x] = req[x]
  <2>1. /\ IdleRequest.pc # "issue"
        /\ Doing("reused", None, None, req[x].jti, None).pc # "issue"
    BY DEF IdleRequest, Doing
  <2> QED
    BY <1>5, <2>1
<1>6. OneLiveTokenPerSession'
  BY <1>1, <1>5, OneLiveSurvives DEF SessionInv
<1>7. NextsDiffer'
  <2>1. /\ IdleRequest.next = None
        /\ \A j : Doing("reused", None, None, j, None).next = None
    BY DEF IdleRequest, Doing
  <2> QED
    BY <2>1 DEF SessionInv, NextsDiffer
<1> QED
  BY <1>b, <1>c, <1>2, <1>3, <1>4, <1>6, <1>7 DEF SessionInv

(* A step that revives no token and lets no request start issuing cannot   *)
(* fork a session.                                                         *)
LEMMA NoTokenRevived ==
  ASSUME OneLiveTokenPerSession, root' = root,
         \A i \in Jtis : Active(i)' => Active(i),
         NEW r \in Requests, req'[r].pc # "issue",
         \A x \in Requests \ {r} : req'[x] = req[x]
  PROVE  OneLiveTokenPerSession'
<1>1. \A x \in Requests : req'[x].pc = "issue" => req'[x] = req[x]
  OBVIOUS
<1> HIDE DEF Active
<1>2. ASSUME NEW x \in Requests, NEW k \in Jtis, Issuing(x, root[k])'
      PROVE  Issuing(x, root[k])
  BY <1>1, <1>2 DEF Issuing
<1>3. \A i, k \in Jtis : Active(i)' /\ Active(k)' /\ root'[i] = root'[k] => i = k
  BY DEF OneLiveTokenPerSession
<1>4. \A x \in Requests, k \in Jtis : Active(k)' => ~Issuing(x, root[k])'
  BY <1>2 DEF OneLiveTokenPerSession
<1>5. \A x, y \in Requests :
        req'[x].pc = "issue" /\ req'[y].pc = "issue"
          /\ root'[req'[x].next] = root'[req'[y].next] => x = y
  BY <1>1 DEF OneLiveTokenPerSession
<1> QED
  BY <1>3, <1>4, <1>5 DEF OneLiveTokenPerSession, Issuing

-----------------------------------------------------------------------------
(* The actions preserve SessionInv *)

(* Selecting a role reserves a jti nobody has drawn.                     *)
LEMMA SelectRoleInv ==
  ASSUME NEW r \in Requests, NEW u \in Users, NEW ro \in Roles,
         SessionInv, SelectRole(r, u, ro)
  PROVE  SessionInv'
<1>1. TypeOK'
  BY SMTT(60) DEF SessionInv, TypeOK, SelectRole, Doing, Request, Step, Fresh
<1>2. ASSUME NEW x \in Requests
      PROVE  RequestLocals(x)'
  BY NoneAssumption, SMTT(60) DEF SessionInv, TypeOK, RequestLocals,
     SelectRole, Doing, Request,
     Fresh, Active
<1>3. NextsDiffer'
  BY SMTT(60) DEF SessionInv, TypeOK, NextsDiffer, SelectRole, Doing, Fresh
<1>4. OneLiveTokenPerSession'
  <2>1. /\ req'[r].pc = "select"
        /\ \A x \in Requests \ {r} : req'[x] = req[x]
    BY DEF SessionInv, TypeOK, SelectRole, Doing
  <2>2. root' = root /\ \A i \in Jtis : Active(i)' => Active(i)
    BY DEF SelectRole, Active
  <2> QED
    BY <2>1, <2>2, NoTokenRevived DEF SessionInv
<1>5. RootsAreSessions' /\ LockedRowsExist' /\ ReplacementIsSuccessor'
  BY DEF SessionInv, RootsAreSessions, LockedRowsExist,
     ReplacementIsSuccessor, Active, SelectRole
<1> QED
  BY <1>1, <1>2, <1>3, <1>4, <1>5 DEF SessionInv

(* A session is opened for one user and role, or the request is denied.  *)
LEMMA FindAssignmentInv ==
  ASSUME NEW r \in Requests, SessionInv, FindAssignment(r)
  PROVE  SessionInv'
<1>1. TypeOK'
  BY SMTT(60) DEF SessionInv, TypeOK, RequestLocals, FindAssignment, To,
     IdleRequest, Doing, Request, Step, RacedBy
<1>2. ASSUME NEW x \in Requests
      PROVE  RequestLocals(x)'
  BY NoneAssumption, SMTT(60) DEF SessionInv, TypeOK, RequestLocals,
     NextsDiffer, RootsAreSessions, FindAssignment, To, IdleRequest, Doing,
     Request, Active
<1>3. NextsDiffer'
  BY SMTT(60) DEF SessionInv, TypeOK, NextsDiffer, FindAssignment, To,
     IdleRequest, Doing
<1>4. RootsAreSessions'
  BY NoneAssumption, SMTT(60) DEF SessionInv, TypeOK, RootsAreSessions,
     RequestLocals, FindAssignment
<1>5. LockedRowsExist'
  BY DEF SessionInv, LockedRowsExist, FindAssignment
<1>6. ReplacementIsSuccessor'
  BY SMTT(60) DEF SessionInv, TypeOK, ReplacementIsSuccessor, RequestLocals,
     RootsAreSessions, Token, Active, FindAssignment
<1>7. OneLiveTokenPerSession'
  <2>1. CASE req' = [req EXCEPT ![r] = IdleRequest] /\ root' = root
    <3>1. /\ req'[r].pc # "issue"
          /\ \A x \in Requests \ {r} : req'[x] = req[x]
      BY <2>1 DEF SessionInv, TypeOK, IdleRequest, Doing
    <3>2. \A i \in Jtis : Active(i)' => Active(i)
      BY DEF FindAssignment, Active
    <3> QED
      BY <2>1, <3>1, <3>2, NoTokenRevived DEF SessionInv
  <2>2. CASE /\ req' = [req EXCEPT ![r] = To(req[r], "issue")]
             /\ root' = [root EXCEPT ![req[r].next] = req[r].next]
    <3> DEFINE n == req[r].next
    <3>1. n \in Jtis /\ n # None /\ root[n] = None
      BY NoneAssumption DEF SessionInv, RequestLocals, FindAssignment
    <3>2. /\ req'[r].next = n
          /\ \A x \in Requests \ {r} : req'[x] = req[x]
      BY <2>2 DEF SessionInv, TypeOK, To, Doing
    <3>3. root'[n] = n /\ \A i \in Jtis \ {n} : root'[i] = root[i]
      BY <2>2, <3>1 DEF SessionInv, TypeOK
    <3>4. \A i \in Jtis : root[i] # n
      BY <3>1, NoneAssumption DEF SessionInv, RootsAreSessions
    <3>5. \A i \in Jtis : Active(i)' => Active(i) /\ i # n
      BY <3>1 DEF SessionInv, RootsAreSessions, FindAssignment, Active
    <3>6. ASSUME NEW x \in Requests, x # r, req'[x].pc = "issue"
          PROVE  /\ req[x].pc = "issue" /\ req'[x] = req[x]
                 /\ root'[req[x].next] = root[req[x].next]
                 /\ root[req[x].next] # n
      <4>1. req[x].next \in Jtis /\ req[x].next # n
        BY <3>1, <3>2, <3>6 DEF SessionInv, NextsDiffer, RequestLocals
      <4> QED
        BY <3>2, <3>3, <3>4, <3>6, <4>1
    <3> HIDE DEF n, Active
    <3> QED
      BY <3>2, <3>3, <3>4, <3>5, <3>6, SMTT(60)
         DEF SessionInv, OneLiveTokenPerSession, Issuing
  <2> QED
    BY <2>1, <2>2 DEF FindAssignment
<1> QED
  BY <1>1, <1>2, <1>3, <1>4, <1>5, <1>6, <1>7 DEF SessionInv

(* A refresh starts with a token that was delivered, so it is stored.    *)
LEMMA RefreshVerifyInv ==
  ASSUME NEW r \in Requests, NEW j \in Jtis, SessionInv, RefreshVerify(r, j)
  PROVE  SessionInv'
<1>1. TypeOK'
  BY NoneAssumption, SMTT(60) DEF SessionInv, TypeOK, RequestLocals, Request,
     Step, Removal, Token, RefreshVerify, Fresh, Doing
<1>2. ASSUME NEW x \in Requests
      PROVE  RequestLocals(x)'
  BY NoneAssumption, SMTT(60) DEF SessionInv, TypeOK, RequestLocals,
     NextsDiffer, RootsAreSessions, ReplacementIsSuccessor, Request, Active,
     RefreshVerify, Fresh, Doing
<1>3. NextsDiffer'
  BY SMTT(60) DEF SessionInv, TypeOK, NextsDiffer, RefreshVerify, Fresh, Doing
<1>4. RootsAreSessions'
  BY NoneAssumption, SMTT(60) DEF SessionInv, TypeOK, RootsAreSessions,
     RequestLocals, RefreshVerify, Fresh, Doing
<1>5. LockedRowsExist'
  BY NoneAssumption, SMTT(60) DEF SessionInv, TypeOK, LockedRowsExist,
     Removal, RefreshVerify, Fresh, Doing
<1>6. ReplacementIsSuccessor'
  BY NoneAssumption, SMTT(60) DEF SessionInv, TypeOK, ReplacementIsSuccessor,
     RequestLocals, RootsAreSessions, Token, Active, RefreshVerify, Fresh,
     Doing
<1>7. OneLiveTokenPerSession'
  <2>1. /\ req'[r].pc = "read"
        /\ \A x \in Requests \ {r} : req'[x] = req[x]
    BY DEF SessionInv, TypeOK, RefreshVerify, Doing
  <2>2. root' = root /\ \A i \in Jtis : Active(i)' => Active(i)
    BY DEF RefreshVerify, Active
  <2> QED
    BY <2>1, <2>2, NoTokenRevived DEF SessionInv
<1> QED
  BY <1>1, <1>2, <1>3, <1>4, <1>5, <1>6, <1>7 DEF SessionInv

(* What refresh keeps of the row it read stays true of that row.         *)
LEMMA RefreshReadInv ==
  ASSUME NEW r \in Requests, SessionInv, RefreshRead(r)
  PROVE  SessionInv'
<1>1. TypeOK'
  BY NoneAssumption, SMTT(60) DEF SessionInv, TypeOK, RequestLocals, Request,
     Step, Removal, Token, RefreshRead, Verdict, IdleRequest, Doing
<1>2. ASSUME NEW x \in Requests
      PROVE  RequestLocals(x)'
  <2>1. CASE x # r
    BY <2>1, SMTT(60) DEF SessionInv, TypeOK, RequestLocals, Active,
       RefreshRead
  <2>2. CASE x = r
    <3> DEFINE q == req[r]
               t == tokens[q.jti]
               verdict == Verdict(t, q.jti \in expired)
    <3>1. /\ q.jti \in Jtis /\ t \in Token /\ t # None
          /\ q.next \in Jtis /\ root[q.next] = None
      BY NoneAssumption DEF SessionInv, TypeOK, RequestLocals, RefreshRead
    <3>2. t.user \in Users /\ t.role \in Roles
      BY <3>1 DEF Token
    <3>3. CASE verdict = "denied"
      <4>1. req'[x] = IdleRequest
        BY <2>2, <3>3 DEF SessionInv, TypeOK, RefreshRead
      <4> QED
        BY <4>1, NoneAssumption DEF RequestLocals, IdleRequest, Doing
    <3>4. CASE verdict # "denied"
      <4>1. verdict \in {"revoke", "expire", "claim"}
        BY <3>4 DEF Verdict
      <4>2. req'[x] = Doing(verdict, t.user, t.role, q.jti,
                            IF verdict = "claim" THEN q.next ELSE None)
        BY <2>2, <3>4 DEF SessionInv, TypeOK, RefreshRead
      <4>3. tokens' = tokens /\ root' = root
        BY DEF RefreshRead
      <4> QED
        BY <3>1, <3>2, <4>1, <4>2, <4>3, NoneAssumption, SMTT(60)
           DEF RequestLocals, Doing
    <3> QED
      BY <3>3, <3>4
  <2> QED
    BY <2>1, <2>2
<1>3. NextsDiffer'
  BY SMTT(60) DEF SessionInv, TypeOK, NextsDiffer, RefreshRead, Verdict,
     IdleRequest, Doing
<1>4. RootsAreSessions'
  BY NoneAssumption, SMTT(60) DEF SessionInv, TypeOK, RootsAreSessions,
     RequestLocals, RefreshRead, Verdict, IdleRequest, Doing
<1>5. LockedRowsExist'
  BY NoneAssumption, SMTT(60) DEF SessionInv, TypeOK, LockedRowsExist,
     Removal, RefreshRead, Verdict, IdleRequest, Doing
<1>6. ReplacementIsSuccessor'
  BY NoneAssumption, SMTT(60) DEF SessionInv, TypeOK, ReplacementIsSuccessor,
     RequestLocals, RootsAreSessions, Token, Active, RefreshRead, Verdict,
     IdleRequest, Doing
<1>7. OneLiveTokenPerSession'
  <2> DEFINE v == Verdict(tokens[req[r].jti], req[r].jti \in expired)
             n == IF v = "claim" THEN req[r].next ELSE None
             q == IF v = "denied" THEN IdleRequest
                  ELSE Doing(v, tokens[req[r].jti].user,
                             tokens[req[r].jti].role, req[r].jti, n)
  <2>1. v # "issue" /\ req' = [req EXCEPT ![r] = q]
    BY DEF RefreshRead, Verdict
  <2> HIDE DEF v, n
  <2>4. q.pc # "issue"
    BY <2>1 DEF IdleRequest, Doing
  <2> HIDE DEF q
  <2>2. /\ req'[r].pc # "issue"
        /\ \A x \in Requests \ {r} : req'[x] = req[x]
    BY <2>1, <2>4 DEF SessionInv, TypeOK
  <2>3. root' = root /\ \A i \in Jtis : Active(i)' => Active(i)
    BY DEF RefreshRead, Active
  <2> QED
    BY <2>2, <2>3, NoTokenRevived DEF SessionInv
<1> QED
  BY <1>1, <1>2, <1>3, <1>4, <1>5, <1>6, <1>7 DEF SessionInv

(* The inserted row is the only live one of its session.                 *)
LEMMA IssueSessionTokensInv ==
  ASSUME NEW r \in Requests, SessionInv, IssueSessionTokens(r)
  PROVE  SessionInv'
<1> DEFINE n == req[r].next
<1>a. /\ n \in Jtis /\ tokens[n] = None
      /\ req[r].user \in Users /\ req[r].role \in Roles
      /\ \A i \in Jtis : tokens[i] # None => tokens[i].replacedBy # n
  BY NoneAssumption DEF SessionInv, TypeOK, RequestLocals,
     ReplacementIsSuccessor, IssueSessionTokens
<1>b. NewRow(req[r]) \in Token
  BY <1>a DEF NewRow, Token
<1>c. /\ tokens'[n] = NewRow(req[r]) /\ tokens'[n] # None
      /\ \A i \in Jtis \ {n} : tokens'[i] = tokens[i]
  BY <1>a, <1>b, NoneAssumption DEF SessionInv, TypeOK, IssueSessionTokens,
     Insert
<1>d. /\ tokens'[n].user = req[r].user /\ tokens'[n].role = req[r].role
      /\ tokens'[n].estado = "ACTIVO" /\ tokens'[n].replacedBy = None
  BY <1>c DEF NewRow
<1>e. tokens' \in [Jtis -> Token \cup {None}]
  BY <1>a, <1>b DEF SessionInv, TypeOK, IssueSessionTokens, Insert
<1>1. TypeOK'
  BY <1>a, <1>c, <1>d, <1>e, NoneAssumption, SMTT(60) DEF SessionInv, TypeOK,
     RequestLocals, Request, Step, Removal, IssueSessionTokens, To, Doing
<1>2. ASSUME NEW x \in Requests
      PROVE  RequestLocals(x)'
  BY <1>a, <1>c, <1>d, <1>e, NoneAssumption, SMTT(60) DEF SessionInv, TypeOK,
     RequestLocals, NextsDiffer, RootsAreSessions, ReplacementIsSuccessor,
     Request, Active, IssueSessionTokens, To, Doing
<1>3. NextsDiffer'
  BY <1>a, <1>c, <1>d, <1>e, SMTT(60) DEF SessionInv, TypeOK, NextsDiffer,
     IssueSessionTokens, To, Doing
<1>4. RootsAreSessions'
  BY <1>a, <1>c, <1>d, <1>e, NoneAssumption, SMTT(60) DEF SessionInv, TypeOK,
     RootsAreSessions, RequestLocals, IssueSessionTokens, To, Doing
<1>5. LockedRowsExist'
  BY <1>a, <1>c, <1>d, <1>e, NoneAssumption, SMTT(60) DEF SessionInv, TypeOK,
     LockedRowsExist, Removal, IssueSessionTokens, To, Doing
<1>6. ReplacementIsSuccessor'
  BY <1>a, <1>c, <1>d, <1>e, NoneAssumption, SMTT(60) DEF SessionInv, TypeOK,
     ReplacementIsSuccessor, RequestLocals, RootsAreSessions, Token, Active,
     IssueSessionTokens, To, Doing
<1>7. OneLiveTokenPerSession'
  <2>1. /\ req[r].pc = "issue" /\ req'[r].pc # "issue" /\ root' = root
        /\ \A x \in Requests \ {r} : req'[x] = req[x]
    BY DEF SessionInv, TypeOK, IssueSessionTokens, To, Doing
  <2>2. \A i \in Jtis : Active(i)' => Active(i) \/ i = n
    BY <1>c DEF Active
  <2>3. \A i \in Jtis : Active(i) => root[i] # root[n]
    BY <2>1 DEF SessionInv, OneLiveTokenPerSession, Issuing
  <2>4. ASSUME NEW x \in Requests, req'[x].pc = "issue"
        PROVE  /\ req[x].pc = "issue" /\ req'[x] = req[x]
               /\ root[req[x].next] # root[n]
    BY <2>1, <2>4 DEF SessionInv, OneLiveTokenPerSession
  <2> HIDE DEF n, Active
  <2> QED
    BY <2>1, <2>2, <2>3, <2>4, SMTT(60)
       DEF SessionInv, OneLiveTokenPerSession, Issuing
<1> QED
  BY <1>1, <1>2, <1>3, <1>4, <1>5, <1>6, <1>7 DEF SessionInv

(* The consumed row is linked to the row issued in its place.            *)
LEMMA RefreshReplaceInv ==
  ASSUME NEW r \in Requests, SessionInv, RefreshReplace(r)
  PROVE  SessionInv'
<1> DEFINE j == req[r].jti
           n == req[r].next
<1>a. /\ j \in Jtis /\ n \in Jtis /\ tokens[j] \in Token /\ tokens[n] # None
      /\ j # n /\ ~Active(j)
  BY NoneAssumption DEF SessionInv, TypeOK, RequestLocals, RefreshReplace
<1>b. tokens'[j] = Retire(tokens[j], n, tokens[j].reuse)
  BY <1>a DEF SessionInv, TypeOK, RefreshReplace, ReplacedBy
<1>c. tokens'[j] \in Token /\ tokens'[j] # None
  <2>1. /\ tokens[j].user \in Users /\ tokens[j].role \in Roles
        /\ tokens[j].reuse \in BOOLEAN
    BY <1>a DEF Token
  <2>2. Retire(tokens[j], n, tokens[j].reuse) \in Token
    BY <1>a, <2>1 DEF Retire, Token
  <2> QED
    BY <1>b, <2>2, NoneAssumption
<1>d. /\ tokens'[j].user = tokens[j].user /\ tokens'[j].role = tokens[j].role
      /\ tokens'[j].estado = "INACTIVO" /\ tokens'[j].replacedBy = n
  BY <1>b DEF Retire
<1>e. /\ tokens' \in [Jtis -> Token \cup {None}]
      /\ \A i \in Jtis \ {j} : tokens'[i] = tokens[i]
  BY <1>a, <1>b, <1>c DEF SessionInv, TypeOK, RefreshReplace, ReplacedBy
<1>f. /\ req' = [req EXCEPT ![r] = Doing("reply", req[r].user, req[r].role,
                                         j, n)]
      /\ root' = root
      /\ UNCHANGED <<userActive, assigned, temp, expired, removal, delivered,
                     root, raced>>
  BY DEF RefreshReplace, To
<1>g. /\ req'[r] = Doing("reply", req[r].user, req[r].role, j, n)
      /\ req'[r].pc = "reply" /\ req'[r].next = n /\ req'[r].jti = j
      /\ \A x \in Requests \ {r} : req'[x] = req[x]
  BY <1>f DEF SessionInv, TypeOK, Doing
<1>h. /\ root[n] = root[j] /\ root[n] \in Jtis
      /\ tokens[n].user = tokens[j].user /\ tokens[n].role = tokens[j].role
      /\ req[r].user \in Users /\ req[r].role \in Roles
      /\ \A i \in Jtis : tokens[i] # None => tokens[i].replacedBy # n
  BY <1>a, NoneAssumption DEF SessionInv, RequestLocals, RefreshReplace
<1>k. ASSUME NEW i \in Jtis
      PROVE  /\ tokens'[i] # None <=> tokens[i] # None
             /\ tokens'[i].user = tokens[i].user
             /\ tokens'[i].role = tokens[i].role
             /\ Active(i)' => Active(i)
  <2>1. CASE i = j
    BY <1>a, <1>c, <1>d, <2>1, NoneAssumption DEF Active
  <2>2. CASE i # j
    BY <1>e, <2>2 DEF Active
  <2> QED
    BY <2>1, <2>2
<1>l. \A i \in Jtis \ {j} : tokens'[i].replacedBy = tokens[i].replacedBy
  BY <1>e
<1> HIDE DEF j, n
<1>1. TypeOK'
  <2>1. Doing("reply", req[r].user, req[r].role, j, n) \in Request
    BY <1>a, <1>h DEF Doing, Request, Step
  <2>2. req' \in [Requests -> Request]
    BY <1>f, <2>1 DEF SessionInv, TypeOK
  <2>3. delivered' \subseteq {i \in Jtis : tokens'[i] # None}
    BY <1>f, <1>k DEF SessionInv, TypeOK
  <2> QED
    BY <1>e, <1>f, <2>2, <2>3 DEF SessionInv, TypeOK
<1>2. ASSUME NEW x \in Requests
      PROVE  RequestLocals(x)'
  <2>1. CASE x = r
    <3>1. tokens'[n] # None /\ tokens'[j] # None
      BY <1>a, <1>c, <1>k
    <3> QED
      BY <1>a, <1>f, <1>g, <1>h, <2>1, <3>1, NoneAssumption
         DEF RequestLocals, Doing
  <2>2. CASE x # r
    <3>1. req'[x] = req[x] /\ RequestLocals(x) /\ req[x] \in Request
      BY <1>g, <2>2 DEF SessionInv, TypeOK
    <3>2. req[x].jti \in Jtis \cup {None} /\ req[x].next \in Jtis \cup {None}
      BY <3>1 DEF Request
    <3>3. req[x].next # n
      BY <1>a, <2>2, NoneAssumption DEF SessionInv, NextsDiffer, n
    <3>4. \A i \in Jtis : tokens'[i] # None /\ tokens[i].replacedBy # req[x].next
                            => tokens'[i].replacedBy # req[x].next
      BY <1>d, <1>l, <3>3
    <3> HIDE DEF Active
    <3> QED
      BY <1>f, <1>k, <3>1, <3>2, <3>4, SMTT(60) DEF RequestLocals
  <2> QED
    BY <2>1, <2>2
<1>3. NextsDiffer'
  BY <1>g DEF SessionInv, NextsDiffer, n
<1>4. RootsAreSessions'
  BY <1>f, <1>k DEF SessionInv, RootsAreSessions
<1>5. LockedRowsExist'
  BY <1>f, <1>k DEF SessionInv, TypeOK, LockedRowsExist, Removal
<1>6. ReplacementIsSuccessor'
  <2>5. ASSUME NEW i \in Jtis, tokens'[i] # None,
               tokens'[i].replacedBy # None, i # j
        PROVE  /\ tokens[i].replacedBy \in Jtis
               /\ tokens'[i].replacedBy = tokens[i].replacedBy
               /\ tokens[i].replacedBy # n
    <3>1. tokens[i] \in Token
      BY <1>k, <2>5 DEF SessionInv, TypeOK
    <3> QED
      BY <1>h, <1>k, <1>l, <2>5, <3>1 DEF Token
  <2> HIDE DEF Active
  <2> QED
    BY <1>a, <1>d, <1>f, <1>h, <1>k, <2>5, SMTT(60)
       DEF SessionInv, ReplacementIsSuccessor
<1>7. OneLiveTokenPerSession'
  BY <1>f, <1>g, <1>k, NoTokenRevived DEF SessionInv
<1> QED
  BY <1>1, <1>2, <1>3, <1>4, <1>5, <1>6, <1>7 DEF SessionInv

(* The removal's first statement locks existing rows.                    *)
LEMMA RemoveRevokeInv ==
  ASSUME NEW u \in Users, SessionInv, RemoveRevoke(u)
  PROVE  SessionInv'
<1>1. TypeOK'
  BY NoneAssumption, SMTT(60) DEF SessionInv, TypeOK, RequestLocals, Request,
     Step, Removal, Token, RemoveRevoke, RowsOf, Active
<1>2. ASSUME NEW x \in Requests
      PROVE  RequestLocals(x)'
  BY NoneAssumption, SMTT(60) DEF SessionInv, TypeOK, RequestLocals,
     NextsDiffer, RootsAreSessions, ReplacementIsSuccessor, Request, Active,
     RemoveRevoke, RowsOf, Active
<1>3. NextsDiffer'
  BY SMTT(60) DEF SessionInv, TypeOK, NextsDiffer, RemoveRevoke, RowsOf,
     Active
<1>4. RootsAreSessions'
  BY NoneAssumption, SMTT(60) DEF SessionInv, TypeOK, RootsAreSessions,
     RequestLocals, RemoveRevoke, RowsOf, Active
<1>5. LockedRowsExist'
  BY NoneAssumption, SMTT(60) DEF SessionInv, TypeOK, LockedRowsExist,
     Removal, RemoveRevoke, RowsOf, Active
<1>6. ReplacementIsSuccessor'
  BY NoneAssumption, SMTT(60) DEF SessionInv, TypeOK, ReplacementIsSuccessor,
     RequestLocals, RootsAreSessions, Token, Active, RemoveRevoke, RowsOf,
     Active
<1>7. OneLiveTokenPerSession'
  BY DEF SessionInv, OneLiveTokenPerSession, Issuing, Active, RemoveRevoke
<1> QED
  BY <1>1, <1>2, <1>3, <1>4, <1>5, <1>6, <1>7 DEF SessionInv

(* The claim: the session is in transit for the winner alone.            *)
LEMMA RefreshClaimInv ==
  ASSUME NEW r \in Requests, SessionInv, RefreshClaim(r)
  PROVE  SessionInv'
<1> DEFINE j == req[r].jti
           n == req[r].next
<1>a. /\ j \in Jtis /\ tokens[j] # None
      /\ root[j] \in Jtis /\ root[root[j]] = root[j]
      /\ n \in Jtis /\ root[n] = None /\ tokens[n] = None
      /\ req[r].user \in Users /\ req[r].role \in Roles
      /\ req[r].user = tokens[j].user /\ req[r].role = tokens[j].role
  BY NoneAssumption
     DEF SessionInv, TypeOK, RequestLocals, RootsAreSessions, RefreshClaim
<1>1. CASE Claimable(tokens[j])
  <2>a. /\ tokens' = Revoke({j}, FALSE)
        /\ req' = [req EXCEPT ![r] = Doing("issue", req[r].user, req[r].role,
                                           j, n)]
        /\ root' = [root EXCEPT ![n] = root[j]]
    BY <1>1 DEF RefreshClaim, Consumed, To
  <2>b. Retired({j}) /\ tokens' \in [Jtis -> Token \cup {None}]
    BY <1>a, <2>a, RevokedRows DEF SessionInv, TypeOK
  <2>c. Active(j)
    BY <1>1, <1>a DEF Claimable, Active
  <2>1. TypeOK'
    <3>1. req' \in [Requests -> Request]
      BY <1>a, <2>a DEF SessionInv, TypeOK, Request, Step, Doing
    <3>2. root' \in [Jtis -> Jtis \cup {None}]
      BY <1>a, <2>a DEF SessionInv, TypeOK
    <3>3. delivered' \subseteq {i \in Jtis : tokens'[i] # None}
      BY <2>b DEF SessionInv, TypeOK, RefreshClaim, Retired
    <3>4. raced' \subseteq Jtis
      BY <1>a, <1>1 DEF SessionInv, TypeOK, RefreshClaim, RacedBy
    <3> QED
      BY <2>b, <3>1, <3>2, <3>3, <3>4 DEF SessionInv, TypeOK, RefreshClaim
  <2>2. ASSUME NEW x \in Requests
        PROVE  RequestLocals(x)'
    <3>1. CASE x # r
      <4>1. req'[x] = req[x] /\ req[x].next # n
        BY <1>a, <2>a, <3>1, NoneAssumption
           DEF SessionInv, TypeOK, NextsDiffer
      <4>2. root[j] # None /\ \A i \in Jtis \ {n} : root'[i] = root[i]
        BY <1>a, <2>a, NoneAssumption DEF SessionInv, TypeOK
      <4>3. req[x].jti # None => req[x].jti # n
        BY <1>a DEF SessionInv, RequestLocals
      <4>4. /\ RequestLocals(x)
            /\ req[x].next \in Jtis \cup {None}
            /\ req[x].jti \in Jtis \cup {None}
        BY DEF SessionInv, TypeOK, Request
      <4>5. \A i \in Jtis : /\ tokens'[i] # None <=> tokens[i] # None
                            /\ tokens'[i].user = tokens[i].user
                            /\ tokens'[i].role = tokens[i].role
                            /\ tokens'[i].replacedBy = tokens[i].replacedBy
                            /\ Active(i)' => Active(i)
        BY <1>a, <2>b, <2>c DEF Retired, Active
      <4> QED
        BY <4>1, <4>2, <4>3, <4>4, <4>5, SMTT(60) DEF RequestLocals
    <3>2. CASE x = r
      <4>1. /\ req'[x] = Doing("issue", req[r].user, req[r].role, j, n)
            /\ root'[n] = root[j] /\ root'[j] = root[j] /\ j # n
        BY <1>a, <2>a, <3>2 DEF SessionInv, TypeOK
      <4>2. /\ tokens'[j] # None /\ tokens'[j].estado = "INACTIVO"
            /\ tokens'[j].user = tokens[j].user
            /\ tokens'[j].role = tokens[j].role
            /\ tokens'[n] = None
        BY <1>a, <2>b, <4>1 DEF Retired
      <4> QED
        BY <1>a, <4>1, <4>2, NoneAssumption, SMTT(60)
           DEF RequestLocals, Doing, Active
    <3> QED
      BY <3>1, <3>2
  <2>3. NextsDiffer'
    BY <2>a, SMTT(60) DEF SessionInv, TypeOK, NextsDiffer, Doing
  <2>4. RootsAreSessions'
    <3>1. root'[n] = root[j] /\ \A i \in Jtis \ {n} : root'[i] = root[i]
      BY <1>a, <2>a DEF SessionInv, TypeOK
    <3>2. \A i \in Jtis : root[i] # None => root[i] \in Jtis \ {n}
      BY <1>a DEF SessionInv, TypeOK, RootsAreSessions
    <3>3. root[j] # None
      BY <1>a, NoneAssumption
    <3>4. \A i \in Jtis : tokens'[i] # None => tokens[i] # None
      BY <1>a, <2>b DEF Retired
    <3>5. \A i \in Jtis : root'[i] # None => root'[root'[i]] = root'[i]
      BY <1>a, <3>1, <3>2, <3>3 DEF SessionInv, RootsAreSessions
    <3>6. \A i \in Jtis : tokens'[i] # None => root'[i] # None
      BY <3>1, <3>3, <3>4 DEF SessionInv, RootsAreSessions
    <3> QED
      BY <3>5, <3>6 DEF RootsAreSessions
  <2>5. LockedRowsExist'
    BY <2>b, SMTT(60)
       DEF SessionInv, TypeOK, LockedRowsExist, Removal, Retired, RefreshClaim
  <2>6. ReplacementIsSuccessor'
    <3>1. \A i \in Jtis : tokens[i] # None => root'[i] = root[i]
      BY <1>a, <2>a DEF SessionInv, TypeOK
    <3> QED
      BY <1>a, <2>b, <3>1, SMTT(60)
         DEF SessionInv, TypeOK, ReplacementIsSuccessor, Retired, Active,
             Token
  <2>7. OneLiveTokenPerSession'
    <3>1. \A i \in Jtis : /\ i # n => root'[i] = root[i]
                          /\ Active(i)' => Active(i) /\ i # j /\ i # n
      <4>1. \A i \in Jtis : i # n => root'[i] = root[i]
        BY <1>a, <2>a DEF SessionInv, TypeOK
      <4>2. \A i \in Jtis : Active(i)' => i # j
        BY <2>b DEF Retired, Active
      <4>3. \A i \in Jtis : i # j => tokens'[i] = tokens[i]
        BY <2>b DEF Retired
      <4>4. \A i \in Jtis : Active(i)' => Active(i)
        BY <4>2, <4>3 DEF Active
      <4>5. \A i \in Jtis : Active(i) => i # n
        BY <1>a DEF Active
      <4> QED
        BY <4>1, <4>2, <4>4, <4>5
    <3>2. \A i \in Jtis : Active(i)' => root'[i] # root[j]
      BY <1>a, <2>c, <3>1 DEF SessionInv, OneLiveTokenPerSession
    <3>3. root'[n] = root[j]
      BY <1>a, <2>a DEF SessionInv, TypeOK
    <3>4. ASSUME NEW x \in Requests, x # r, req'[x].pc = "issue"
          PROVE  /\ req[x].pc = "issue" /\ req'[x] = req[x]
                 /\ root'[req[x].next] = root[req[x].next]
                 /\ root[req[x].next] # root[j]
      <4>1. req'[x] = req[x]
        BY <2>a, <3>4 DEF SessionInv, TypeOK
      <4>2. req[x].next # n /\ req[x].next \in Jtis
        BY <1>a, <3>4, <4>1, NoneAssumption
           DEF SessionInv, NextsDiffer, RequestLocals
      <4> QED
        BY <1>a, <2>c, <3>1, <3>4, <4>1, <4>2
           DEF SessionInv, OneLiveTokenPerSession, Issuing
    <3>5. req'[r].next = n
      BY <2>a DEF SessionInv, TypeOK, Doing
    <3> QED
      BY <3>1, <3>2, <3>3, <3>4, <3>5, SMTT(60)
         DEF SessionInv, OneLiveTokenPerSession, Issuing
  <2> QED
    BY <2>1, <2>2, <2>3, <2>4, <2>5, <2>6, <2>7 DEF SessionInv
<1>2. CASE ~Claimable(tokens[j])
  <2>a. /\ req' = [req EXCEPT ![r] = Doing("revoke", req[r].user,
                                           req[r].role, j, None)]
        /\ UNCHANGED <<userActive, assigned, temp, expired, tokens, removal,
                       delivered, root, raced>>
    BY <1>2 DEF RefreshClaim
  <2>1. TypeOK'
    BY <1>a, <2>a DEF SessionInv, TypeOK, Request, Step, Doing
  <2>2. \A x \in Requests : RequestLocals(x)'
    BY <1>a, <2>a, NoneAssumption, SMTT(60)
       DEF SessionInv, TypeOK, RequestLocals, Active, Doing
  <2>3. NextsDiffer'
    BY <2>a, SMTT(60) DEF SessionInv, TypeOK, NextsDiffer, Doing
  <2>4. RootsAreSessions' /\ LockedRowsExist' /\ ReplacementIsSuccessor'
    BY <2>a DEF SessionInv, RootsAreSessions, LockedRowsExist,
                ReplacementIsSuccessor, Active
  <2>5. OneLiveTokenPerSession'
    BY <2>a, SMTT(60)
       DEF SessionInv, TypeOK, OneLiveTokenPerSession, Active, Issuing, Doing
  <2> QED
    BY <2>1, <2>2, <2>3, <2>4, <2>5 DEF SessionInv
<1> QED
  BY <1>1, <1>2

(* An expired row is retired.                                            *)
LEMMA RefreshExpireInv ==
  ASSUME NEW r \in Requests, SessionInv, RefreshExpire(r)
  PROVE  SessionInv'
<1>1. req[r].jti \in Jtis /\ tokens[req[r].jti] # None
  BY NoneAssumption DEF SessionInv, RequestLocals, RefreshExpire
<1>2. IdleRequest \in Request
  BY DEF IdleRequest, Doing, Request, Step
<1>3. /\ req' \in [Requests -> Request]
      /\ \A x \in Requests : req'[x] = req[x] \/ req'[x] = IdleRequest
  BY <1>2 DEF SessionInv, TypeOK, RefreshExpire
<1> QED
  BY <1>1, <1>3, RevocationStep DEF SessionInv, TypeOK, RefreshExpire

(* Detected reuse retires every live row of the user and role.           *)
LEMMA RevokeTokenFamilyInv ==
  ASSUME NEW r \in Requests, SessionInv, RevokeTokenFamily(r)
  PROVE  SessionInv'
<1> DEFINE F == Family(req[r].user, req[r].role)
<1>1. F \in SUBSET Jtis /\ \A j \in F : tokens[j] # None
  BY DEF Family, Active
<1>2. req[r].jti \in Jtis /\ tokens[req[r].jti] # None
  BY NoneAssumption DEF SessionInv, RequestLocals, RevokeTokenFamily
<1>3. Doing("reused", None, None, req[r].jti, None) \in Request
  BY <1>2 DEF Doing, Request, Step
<1>4. /\ req' \in [Requests -> Request]
      /\ \A x \in Requests : \/ req'[x] = req[x]
                             \/ /\ x = r
                                /\ req'[x] = Doing("reused", None, None,
                                                   req[x].jti, None)
  BY <1>3 DEF SessionInv, TypeOK, RevokeTokenFamily
<1> QED
  BY <1>1, <1>2, <1>4, RevocationStep
     DEF SessionInv, TypeOK, RevokeTokenFamily

(* Logout retires at most the row of the token it is given.              *)
LEMMA LogoutInv ==
  ASSUME NEW u \in Users, NEW j \in Jtis, SessionInv, Logout(u, j)
  PROVE  SessionInv'
<1> DEFINE J == {k \in {j} : Active(k) /\ tokens[k].user = u}
<1>1. J \in SUBSET Jtis /\ \A k \in J : tokens[k] # None
  BY DEF Active
<1> QED
  BY <1>1, RevocationStep DEF SessionInv, TypeOK, Logout

(* Committing a removal retires the rows it locked.                      *)
LEMMA RemoveCommitInv ==
  ASSUME NEW u \in Users, SessionInv, RemoveCommit(u)
  PROVE  SessionInv'
<1>1. /\ removal[u].rows \in SUBSET Jtis
      /\ \A j \in removal[u].rows : tokens[j] # None
  BY DEF SessionInv, TypeOK, LockedRowsExist, Removal
<1>2. NoRemoval \in Removal /\ NoRemoval.rows = {}
  BY DEF NoRemoval, Removal
<1>3. /\ removal' \in [Users -> Removal]
      /\ \A x \in Users : removal'[x].rows \subseteq removal[x].rows
  BY <1>2 DEF SessionInv, TypeOK, RemoveCommit, Release
<1>4. /\ userActive' \in [Users -> BOOLEAN] /\ assigned' \subseteq assigned
      /\ UNCHANGED <<temp, expired, req, delivered, root, raced>>
  BY DEF SessionInv, TypeOK, RemoveCommit
<1> QED
  BY <1>1, <1>3, <1>4, RevocationStep DEF SessionInv, TypeOK, RemoveCommit

(* Steps that leave the table and the sessions alone: they may end a       *)
(* request, open or abandon a removal, or let time pass.                   *)
LEMMA QuietStep ==
  ASSUME SessionInv, TypeOK', UNCHANGED <<tokens, root>>,
         \A x \in Requests : req'[x] = req[x] \/ req'[x] = IdleRequest,
         \A u \in Users : removal'[u].rows \subseteq removal[u].rows
  PROVE  SessionInv'
<1>1. ASSUME NEW x \in Requests
      PROVE  RequestLocals(x)'
  <2>1. CASE req'[x] = req[x]
    BY <2>1 DEF SessionInv, RequestLocals, Active
  <2>2. CASE req'[x] = IdleRequest
    BY <2>2, NoneAssumption DEF RequestLocals, IdleRequest, Doing
  <2> QED
    BY <2>1, <2>2
<1>2. IdleRequest.pc # "issue" /\ IdleRequest.next = None
  BY DEF IdleRequest, Doing
<1>3. NextsDiffer'
  BY <1>2 DEF SessionInv, NextsDiffer
<1>4. OneLiveTokenPerSession'
  BY <1>2 DEF SessionInv, OneLiveTokenPerSession, Issuing, Active
<1>5. RootsAreSessions' /\ LockedRowsExist' /\ ReplacementIsSuccessor'
  BY DEF SessionInv, RootsAreSessions, LockedRowsExist,
         ReplacementIsSuccessor, Active
<1> QED
  BY <1>1, <1>3, <1>4, <1>5 DEF SessionInv

(* A request that is answered or fails lets go of its locals.            *)
LEMMA RequestEndsInv ==
  ASSUME NEW r \in Requests, SessionInv, Reply(r) \/ Fail(r)
  PROVE  SessionInv'
<1>1. IdleRequest \in Request
  BY DEF IdleRequest, Doing, Request, Step
<1>2. Reply(r) => req[r].next \in Jtis /\ tokens[req[r].next] # None
  BY DEF SessionInv, RequestLocals, Reply
<1>3. TypeOK'
  BY <1>1, <1>2 DEF SessionInv, TypeOK, Reply, Fail
<1>4. \A x \in Requests : req'[x] = req[x] \/ req'[x] = IdleRequest
  BY DEF SessionInv, TypeOK, Reply, Fail
<1> QED
  BY <1>3, <1>4, QuietStep DEF Reply, Fail

(* Login and the tempToken do not touch sessions.                        *)
LEMMA LoginInv ==
  ASSUME NEW u \in Users, SessionInv, Login(u) \/ TempTokenExpires(u)
  PROVE  SessionInv'
<1>1. TypeOK'
  BY DEF SessionInv, TypeOK, Login, TempTokenExpires
<1> QED
  BY <1>1, QuietStep DEF Login, TempTokenExpires

(* The passing of time does not touch the table.                         *)
LEMMA TokenExpiresInv ==
  ASSUME NEW j \in Jtis, SessionInv, TokenExpires(j)
  PROVE  SessionInv'
<1>1. TypeOK'
  BY DEF SessionInv, TypeOK, TokenExpires
<1> QED
  BY <1>1, QuietStep DEF TokenExpires

(* Opening or abandoning a removal does not touch the table.             *)
LEMMA RemovalInv ==
  ASSUME NEW u \in Users, SessionInv, RemoveCheck(u) \/ RemoveRollback(u)
  PROVE  SessionInv'
<1>1. PICK w \in {Checked, NoRemoval} : removal' = [removal EXCEPT ![u] = w]
  BY DEF RemoveCheck, RemoveRollback, Release
<1>2. w \in Removal /\ w.rows = {}
  BY DEF NoRemoval, Checked, Removal
<1>3. removal' \in [Users -> Removal]
  BY <1>1, <1>2 DEF SessionInv, TypeOK
<1>4. \A x \in Users : removal'[x].rows \subseteq removal[x].rows
  BY <1>1, <1>2 DEF SessionInv, TypeOK
<1>5. UNCHANGED <<userActive, assigned, temp, expired, tokens, req, delivered,
                  root, raced>>
  BY DEF RemoveCheck, RemoveRollback
<1>6. TypeOK'
  BY <1>3, <1>5 DEF SessionInv, TypeOK
<1> QED
  BY <1>4, <1>5, <1>6, QuietStep

(* One step of the service, whichever it is, preserves SessionInv.       *)
LEMMA NextInv ==
  SessionInv /\ [Next]_vars => SessionInv'
<1> SUFFICES ASSUME SessionInv, [Next]_vars
             PROVE  SessionInv'
  OBVIOUS
<1>1. ASSUME NEW r \in Requests, RequestStep(r) \/ Fail(r)
      PROVE  SessionInv'
  BY <1>1, FindAssignmentInv, RefreshReadInv, RefreshExpireInv,
     RefreshClaimInv, RevokeTokenFamilyInv, IssueSessionTokensInv,
     RefreshReplaceInv, RequestEndsInv DEF RequestStep
<1>2. ASSUME NEW r \in Requests, NEW u \in Users, NEW ro \in Roles,
             SelectRole(r, u, ro)
      PROVE  SessionInv'
  BY <1>2, SelectRoleInv
<1>3. ASSUME NEW r \in Requests, NEW j \in Jtis, RefreshVerify(r, j)
      PROVE  SessionInv'
  BY <1>3, RefreshVerifyInv
<1>4. ASSUME NEW u \in Users, NEW j \in Jtis, Logout(u, j)
      PROVE  SessionInv'
  BY <1>4, LogoutInv
<1>5. ASSUME NEW u \in Users, Login(u) \/ TempTokenExpires(u)
      PROVE  SessionInv'
  BY <1>5, LoginInv
<1>6. ASSUME NEW j \in Jtis, TokenExpires(j)
      PROVE  SessionInv'
  BY <1>6, TokenExpiresInv
<1>7. ASSUME NEW u \in Users,
             RemoveCheck(u) \/ RemovalStep(u) \/ RemoveRollback(u)
      PROVE  SessionInv'
  BY <1>7, RemovalInv, RemoveRevokeInv, RemoveCommitInv DEF RemovalStep
<1>8. CASE UNCHANGED vars
  BY <1>8, QuietStep DEF vars, SessionInv, TypeOK
<1> QED
  BY <1>1, <1>2, <1>3, <1>4, <1>5, <1>6, <1>7, <1>8 DEF Next

(* No session is open at first.                                          *)
LEMMA InitInv == Init => SessionInv
<1> SUFFICES ASSUME Init
             PROVE  SessionInv
  OBVIOUS
<1>1. /\ IdleRequest \in Request /\ IdleRequest.pc = "idle"
      /\ IdleRequest.next = None /\ IdleRequest.jti = None
      /\ NoRemoval \in Removal /\ NoRemoval.rows = {}
  BY DEF IdleRequest, Doing, Request, Step, NoRemoval, Removal
<1>2. TypeOK
  BY <1>1 DEF Init, TypeOK
<1>3. \A r \in Requests : RequestLocals(r)
  BY <1>1 DEF Init, RequestLocals
<1> QED
  BY <1>1, <1>2, <1>3
     DEF Init, SessionInv, NextsDiffer, RootsAreSessions, LockedRowsExist,
         ReplacementIsSuccessor, OneLiveTokenPerSession, Active, Issuing

-----------------------------------------------------------------------------
(* Theorems *)

(* Every reachable state is a session state: the invariant the rest of the *)
(* module's theorems follow from.                                          *)
THEOREM SessionInvariance == Spec => []SessionInv
BY InitInv, NextInv, PTL DEF Spec

(* The table, the requests and the transactions keep their shape.          *)
THEOREM TypeCorrect == Spec => []TypeOK
<1>1. SessionInv => TypeOK
  BY DEF SessionInv
<1> QED
  BY <1>1, SessionInvariance, PTL

(* However many requests present one refresh token, at the same time or    *)
(* later, at most one of them is replaced by a new one: refresh never      *)
(* forks a session.                                                        *)
THEOREM SessionNeverForks == Spec => []OneLiveTokenPerSession
<1>1. SessionInv => OneLiveTokenPerSession
  BY DEF SessionInv
<1> QED
  BY <1>1, SessionInvariance, PTL

(* reemplazado_por_jti is the history of the session it was written for.   *)
THEOREM SuccessorsAreRight == Spec => []ReplacementIsSuccessor
<1>1. SessionInv => ReplacementIsSuccessor
  BY DEF SessionInv
<1> QED
  BY <1>1, SessionInvariance, PTL

-----------------------------------------------------------------------------
(***************************************************************************)
(* That AuthService implements SessionChain, that a session which ended    *)
(* never comes back, and that a removed user keeps only the sessions that  *)
(* raced with the removal, for every set of users, roles, jtis and         *)
(* requests. SessionInv says what each step starts from; the first part    *)
(* sorts the steps by what they do to sessions: three are steps of one     *)
(* session, all others at most close some.                                 *)
(***************************************************************************)
-----------------------------------------------------------------------------
(* What steps do to sessions *)

(* No row comes, goes or changes hands.                                    *)
SameRows ==
  \A j \in Jtis : /\ tokens'[j] # None <=> tokens[j] # None
                 /\ tokens'[j].user = tokens[j].user

(* No token becomes live, and no request comes to issue.                   *)
Narrows ==
  /\ SameRows /\ root' = root
  /\ \A j \in Jtis : Active(j)' => Active(j)
  /\ \A x \in Requests : req'[x].pc = "issue" => req'[x] = req[x]

(* Request r issues for next from now on; the others go on as they were.   *)
Begins(r) ==
  LET n == req[r].next IN
  /\ n \in Jtis /\ root[n] = None /\ req[r].pc # "issue"
  /\ \A i \in Jtis \ {n} : root'[i] = root[i]
  /\ req'[r].pc = "issue" /\ req'[r].next = n /\ req'[r].user = req[r].user
  /\ \A x \in Requests \ {r} : req'[x] = req[x]
  /\ SameRows

(* selectRole opens a session.                                             *)
Opens(r) ==
  /\ Begins(r) /\ root'[req[r].next] = req[r].next
  /\ \A j \in Jtis : Active(j)' <=> Active(j)

(* refresh spends the live token of one.                                   *)
Spends(r) ==
  /\ Begins(r) /\ req[r].jti \in Jtis /\ Active(req[r].jti)
  /\ root'[req[r].next] = root[req[r].jti]
  /\ \A j \in Jtis : Active(j)' <=> Active(j) /\ j # req[r].jti

(* issueSessionTokens stores the next.                                     *)
Stores(r) ==
  LET n == req[r].next IN
  /\ n \in Jtis /\ tokens[n] = None /\ req[r].pc = "issue" /\ root' = root
  /\ tokens'[n] # None /\ tokens'[n].estado = "ACTIVO" /\ tokens'[n].user = req[r].user
  /\ \A j \in Jtis \ {n} : tokens'[j] = tokens[j]
  /\ req'[r].pc # "issue" /\ \A x \in Requests \ {r} : req'[x] = req[x]

LEMMA RevocationNarrows ==
  ASSUME SessionInv, NEW J \in SUBSET Jtis, \A j \in J : tokens[j] # None,
         NEW reuse \in BOOLEAN, tokens' = Revoke(J, reuse), root' = root,
         \A x \in Requests : req'[x].pc = "issue" => req'[x] = req[x]
  PROVE  Narrows
<1>1. Retired(J)
  BY RevokedRows DEF SessionInv, TypeOK
<1>2. SameRows /\ \A j \in Jtis : Active(j)' => Active(j)
  BY <1>1 DEF Retired, Active, SameRows
<1> QED
  BY <1>2 DEF Narrows

LEMMA IdleIsNotIssuing ==
  ASSUME SessionInv, NEW r \in Requests, NEW q, q.pc # "issue",
         req' = [req EXCEPT ![r] = q]
  PROVE  /\ req'[r] = q /\ \A x \in Requests \ {r} : req'[x] = req[x]
         /\ \A x \in Requests : req'[x].pc = "issue" => req'[x] = req[x]
BY DEF SessionInv, TypeOK

(* A step that leaves the table alone and ends or moves one request.       *)
LEMMA QuietNarrows ==
  ASSUME SessionInv, NEW r \in Requests, NEW q, q.pc # "issue",
         req' = [req EXCEPT ![r] = q], UNCHANGED <<tokens, root>>
  PROVE  Narrows
BY IdleIsNotIssuing DEF Narrows, Active, SameRows

LEMMA FindAssignmentMoves ==
  ASSUME SessionInv, NEW r \in Requests, FindAssignment(r)
  PROVE  Narrows \/ Opens(r)
<1> DEFINE n == req[r].next
<1>1. CASE req' = [req EXCEPT ![r] = IdleRequest] /\ root' = root
  BY <1>1, QuietNarrows DEF FindAssignment, IdleRequest, Doing
<1>2. CASE /\ req' = [req EXCEPT ![r] = To(req[r], "issue")]
           /\ root' = [root EXCEPT ![n] = n]
  <2>1. n \in Jtis /\ root[n] = None /\ req[r].pc # "issue" /\ tokens' = tokens
    BY DEF SessionInv, RequestLocals, FindAssignment
  <2>2. /\ req'[r].pc = "issue" /\ req'[r].next = n /\ req'[r].user = req[r].user
        /\ \A x \in Requests \ {r} : req'[x] = req[x]
    BY <1>2 DEF SessionInv, TypeOK, To, Doing
  <2>3. root'[n] = n /\ \A i \in Jtis \ {n} : root'[i] = root[i]
    BY <1>2, <2>1 DEF SessionInv, TypeOK
  <2> QED
    BY <2>1, <2>2, <2>3 DEF Opens, Begins, Active, SameRows
<1> QED
  BY <1>1, <1>2 DEF FindAssignment

LEMMA RefreshReadMoves ==
  ASSUME SessionInv, NEW r \in Requests, RefreshRead(r)
  PROVE  Narrows
<1> DEFINE v == Verdict(tokens[req[r].jti], req[r].jti \in expired)
           n == IF v = "claim" THEN req[r].next ELSE None
           q == IF v = "denied" THEN IdleRequest
                ELSE Doing(v, tokens[req[r].jti].user,
                           tokens[req[r].jti].role, req[r].jti, n)
<1>1. v # "issue" /\ req' = [req EXCEPT ![r] = q] /\ UNCHANGED <<tokens, root>>
  BY DEF RefreshRead, Verdict
<1> HIDE DEF v, n
<1>2. q.pc # "issue"
  BY <1>1 DEF IdleRequest, Doing
<1> HIDE DEF q
<1> QED
  BY <1>1, <1>2, QuietNarrows

LEMMA RefreshExpireMoves ==
  ASSUME SessionInv, NEW r \in Requests, RefreshExpire(r)
  PROVE  Narrows
<1>1. req[r].jti \in Jtis /\ tokens[req[r].jti] # None
  BY NoneAssumption DEF SessionInv, RequestLocals, RefreshExpire
<1>2. IdleRequest.pc # "issue"
  BY DEF IdleRequest, Doing
<1>3. \A x \in Requests : req'[x].pc = "issue" => req'[x] = req[x]
  BY <1>2, IdleIsNotIssuing DEF RefreshExpire
<1> QED
  BY <1>1, <1>3, RevocationNarrows DEF RefreshExpire

LEMMA RevokeTokenFamilyMoves ==
  ASSUME SessionInv, NEW r \in Requests, RevokeTokenFamily(r)
  PROVE  Narrows
<1> DEFINE F == Family(req[r].user, req[r].role)
           q == Doing("reused", None, None, req[r].jti, None)
<1>1. F \in SUBSET Jtis /\ \A j \in F : tokens[j] # None
  BY DEF Family, Active
<1>2. q.pc # "issue" /\ req' = [req EXCEPT ![r] = q]
  BY DEF Doing, RevokeTokenFamily
<1> HIDE DEF q
<1>3. \A x \in Requests : req'[x].pc = "issue" => req'[x] = req[x]
  BY <1>2, IdleIsNotIssuing
<1> QED
  BY <1>1, <1>3, RevocationNarrows DEF RevokeTokenFamily

LEMMA RefreshClaimMoves ==
  ASSUME SessionInv, NEW r \in Requests, RefreshClaim(r)
  PROVE  Narrows \/ Spends(r)
<1> DEFINE j == req[r].jti
           n == req[r].next
<1>1. /\ j \in Jtis /\ tokens[j] # None /\ n \in Jtis /\ root[n] = None
      /\ req[r].pc # "issue"
  BY NoneAssumption DEF SessionInv, TypeOK, RequestLocals, RefreshClaim
<1>2. CASE Claimable(tokens[j])
  <2>1. /\ tokens' = Revoke({j}, FALSE)
        /\ req' = [req EXCEPT ![r] = To(req[r], "issue")]
        /\ root' = [root EXCEPT ![n] = root[j]]
    BY <1>2 DEF RefreshClaim, Consumed
  <2>2. Retired({j})
    BY <1>1, <2>1, RevokedRows DEF SessionInv, TypeOK
  <2>3. /\ Active(j)
        /\ \A i \in Jtis : Active(i)' <=> Active(i) /\ i # j
        /\ SameRows
    BY <1>1, <1>2, <2>2 DEF Claimable, Active, Retired, SameRows
  <2>4. /\ req'[r].pc = "issue" /\ req'[r].next = n /\ req'[r].user = req[r].user
        /\ \A x \in Requests \ {r} : req'[x] = req[x]
    BY <2>1 DEF SessionInv, TypeOK, To, Doing
  <2>5. root'[n] = root[j] /\ \A i \in Jtis \ {n} : root'[i] = root[i]
    BY <1>1, <2>1 DEF SessionInv, TypeOK
  <2> QED
    BY <1>1, <2>3, <2>4, <2>5 DEF Spends, Begins
<1>3. CASE ~Claimable(tokens[j])
  <2> DEFINE q == Doing("revoke", req[r].user, req[r].role, j, None)
  <2>1. q.pc # "issue" /\ req' = [req EXCEPT ![r] = q] /\ UNCHANGED <<tokens, root>>
    BY <1>3 DEF RefreshClaim, Doing
  <2> HIDE DEF q
  <2> QED
    BY <2>1, QuietNarrows
<1> QED
  BY <1>2, <1>3

LEMMA IssueSessionTokensMoves ==
  ASSUME SessionInv, NEW r \in Requests, IssueSessionTokens(r)
  PROVE  Stores(r)
<1> DEFINE n == req[r].next
<1>1. /\ n \in Jtis /\ tokens[n] = None /\ req[r].pc = "issue" /\ root' = root
      /\ req[r].user \in Users /\ req[r].role \in Roles
  BY DEF SessionInv, RequestLocals, IssueSessionTokens
<1>2. NewRow(req[r]) \in Token
  BY <1>1 DEF NewRow, Token
<1>3. /\ tokens'[n] = NewRow(req[r]) /\ tokens'[n] # None
      /\ \A i \in Jtis \ {n} : tokens'[i] = tokens[i]
  BY <1>1, <1>2, NoneAssumption DEF SessionInv, TypeOK, IssueSessionTokens, Insert
<1>4. tokens'[n].user = req[r].user /\ tokens'[n].estado = "ACTIVO"
  BY <1>3 DEF NewRow
<1>5. req'[r].pc # "issue" /\ \A x \in Requests \ {r} : req'[x] = req[x]
  BY DEF SessionInv, TypeOK, IssueSessionTokens, To, Doing
<1> QED
  BY <1>1, <1>3, <1>4, <1>5 DEF Stores

LEMMA RefreshReplaceMoves ==
  ASSUME SessionInv, NEW r \in Requests, RefreshReplace(r)
  PROVE  Narrows
<1> DEFINE j == req[r].jti
           q == To(req[r], "reply")
           t == Retire(tokens[j], req[r].next, tokens[j].reuse)
<1>1. /\ j \in Jtis /\ req[r].next \in Jtis /\ tokens[j] \in Token
      /\ tokens \in [Jtis -> Token \cup {None}]
  BY NoneAssumption DEF SessionInv, TypeOK, RequestLocals, RefreshReplace
<1>2. t \in Token /\ t.estado = "INACTIVO" /\ t.user = tokens[j].user
  BY <1>1 DEF Retire, Token
<1>3. tokens' = [tokens EXCEPT ![j] = t]
  BY <1>1 DEF RefreshReplace, ReplacedBy
<1> HIDE DEF t
<1>4. SameRows /\ \A i \in Jtis : Active(i)' => Active(i)
  BY <1>1, <1>2, <1>3, NoneAssumption DEF Active, SameRows
<1>5. q.pc # "issue" /\ req' = [req EXCEPT ![r] = q] /\ root' = root
  BY DEF RefreshReplace, To, Doing
<1> HIDE DEF q
<1>6. \A x \in Requests : req'[x].pc = "issue" => req'[x] = req[x]
  BY <1>5, IdleIsNotIssuing
<1> QED
  BY <1>4, <1>5, <1>6 DEF Narrows

LEMMA RequestEndsMoves ==
  ASSUME SessionInv, NEW r \in Requests, Reply(r) \/ Fail(r)
  PROVE  Narrows
<1>1. IdleRequest.pc # "issue"
  BY DEF IdleRequest, Doing
<1> QED
  BY <1>1, QuietNarrows DEF Reply, Fail

LEMMA RequestBeginsMoves ==
  ASSUME SessionInv, NEW r \in Requests,
         \/ \E u \in Users, ro \in Roles : SelectRole(r, u, ro)
         \/ \E j \in Jtis : RefreshVerify(r, j)
  PROVE  Narrows
<1>1. UNCHANGED <<tokens, root>>
  BY DEF SelectRole, RefreshVerify
<1>2. ASSUME NEW u, NEW ro, NEW n, req' = [req EXCEPT ![r] = Doing("select", u, ro, None, n)]
      PROVE  Narrows
  <2>1. Doing("select", u, ro, None, n).pc # "issue"
    BY DEF Doing
  <2> QED
    BY <1>1, <1>2, <2>1, QuietNarrows
<1>3. ASSUME NEW j, NEW n, req' = [req EXCEPT ![r] = Doing("read", None, None, j, n)]
      PROVE  Narrows
  <2>1. Doing("read", None, None, j, n).pc # "issue"
    BY DEF Doing
  <2> QED
    BY <1>1, <1>3, <2>1, QuietNarrows
<1> QED
  BY <1>2, <1>3 DEF SelectRole, RefreshVerify

LEMMA LogoutMoves ==
  ASSUME SessionInv, NEW u \in Users, NEW j \in Jtis, Logout(u, j)
  PROVE  Narrows
<1> DEFINE J == {k \in {j} : Active(k) /\ tokens[k].user = u}
<1>1. J \in SUBSET Jtis /\ \A k \in J : tokens[k] # None
  BY DEF Active
<1> QED
  BY <1>1, RevocationNarrows DEF Logout

LEMMA RemoveCommitMoves ==
  ASSUME SessionInv, NEW u \in Users, RemoveCommit(u)
  PROVE  Narrows
<1>1. /\ removal[u].rows \in SUBSET Jtis
      /\ \A j \in removal[u].rows : tokens[j] # None
  BY DEF SessionInv, TypeOK, LockedRowsExist, Removal
<1> QED
  BY <1>1, RevocationNarrows DEF RemoveCommit

(* Every step.                                                             *)
LEMMA Moves ==
  ASSUME SessionInv, [Next]_vars
  PROVE  Narrows \/ \E r \in Requests : Opens(r) \/ Spends(r) \/ Stores(r)
<1>1. ASSUME UNCHANGED <<tokens, req, root>>
      PROVE  Narrows
  BY <1>1 DEF Narrows, Active, SameRows
<1>2. CASE UNCHANGED vars
  BY <1>1, <1>2 DEF vars
<1>3. ASSUME NEW u \in Users, \/ Login(u) \/ TempTokenExpires(u) \/ RemoveCheck(u)
                              \/ RemoveRevoke(u) \/ RemoveRollback(u)
      PROVE  Narrows
  BY <1>1, <1>3 DEF Login, TempTokenExpires, RemoveCheck, RemoveRevoke, RemoveRollback
<1>4. ASSUME NEW j \in Jtis, TokenExpires(j)
      PROVE  Narrows
  BY <1>1, <1>4 DEF TokenExpires
<1>5. ASSUME NEW r \in Requests, RequestStep(r) \/ Fail(r)
      PROVE  Narrows \/ Opens(r) \/ Spends(r) \/ Stores(r)
  BY <1>5, FindAssignmentMoves, RefreshReadMoves, RefreshExpireMoves,
     RefreshClaimMoves, RevokeTokenFamilyMoves, IssueSessionTokensMoves,
     RefreshReplaceMoves, RequestEndsMoves DEF RequestStep
<1> QED
  BY <1>2, <1>3, <1>4, <1>5, RequestBeginsMoves, LogoutMoves, RemoveCommitMoves
     DEF Next, RemovalStep

-----------------------------------------------------------------------------
(* A session that has ended stays so *)

LEMMA NoneReopens ==
  ASSUME SessionInv, [Next]_vars, NEW s \in Jtis, root[s] = s, ~Open(s)
  PROVE  ~Open(s)'
<1> USE DEF Open, Issuing
<1>1. s # None
  BY NoneAssumption
<1>2. CASE Narrows
  BY <1>2 DEF Narrows
<1>3. ASSUME NEW r \in Requests, Begins(r), root'[req[r].next] # s,
             \A j \in Jtis : Active(j)' => Active(j)
      PROVE  ~Open(s)'
  <2> DEFINE n == req[r].next
  <2>1. ASSUME NEW j \in Jtis, Active(j)', root'[j] = s
        PROVE  Active(j) /\ root[j] = s
    <3>1. j # n
      BY <1>3, <2>1
    <3> QED
      BY <1>3, <2>1, <3>1 DEF Begins
  <2>2. ASSUME NEW x \in Requests, req'[x].pc = "issue", root'[req'[x].next] = s
        PROVE  Issuing(x, s)
    <3>1. x # r /\ req'[x] = req[x] /\ req[x].next # n
      BY <1>3, <2>2 DEF Begins
    <3>2. req[x].next \in Jtis
      BY <2>2, <3>1 DEF SessionInv, RequestLocals
    <3> QED
      BY <1>3, <2>2, <3>1, <3>2 DEF Begins
  <2> QED
    BY <2>1, <2>2
<1>4. ASSUME NEW r \in Requests, Opens(r)
      PROVE  ~Open(s)'
  <2>1. root'[req[r].next] # s
    BY <1>1, <1>4 DEF Opens, Begins
  <2> QED
    BY <1>3, <1>4, <2>1 DEF Opens
<1>5. ASSUME NEW r \in Requests, Spends(r)
      PROVE  ~Open(s)'
  <2>1. root'[req[r].next] # s
    BY <1>5 DEF Spends
  <2> QED
    BY <1>3, <1>5, <2>1 DEF Spends
<1>6. ASSUME NEW r \in Requests, Stores(r)
      PROVE  ~Open(s)'
  <2>1. root[req[r].next] # s
    BY <1>6 DEF Stores
  <2> QED
    BY <1>6, <2>1 DEF Stores, Active
<1> QED
  BY <1>2, <1>4, <1>5, <1>6, Moves

(* A session that ended, by logout, expiry, reuse, removal or a refresh    *)
(* that failed half-way, never has a usable token again, whatever tokens   *)
(* clients still present.                                                  *)
THEOREM EndedSessionsStay == Spec => EndedSessionsStayEnded
<1>1. SessionInv /\ [Next]_vars =>
        [\A s \in Jtis : root[s] = s /\ ~Open(s) => ~Open(s)']_vars
  BY NoneReopens
<1> QED
  BY <1>1, SessionInvariance, PTL DEF Spec, EndedSessionsStayEnded

-----------------------------------------------------------------------------
(* estado and revokedAt *)

(* A row that is written is taken out of use by both, or new.              *)
Written(j) ==
  \/ tokens'[j].estado = "INACTIVO" /\ tokens'[j].revoked = TRUE
  \/ /\ tokens'[j].estado = "ACTIVO" /\ tokens'[j].revoked = FALSE
     /\ tokens'[j].replacedBy = None

LEMMA RevokeWrites ==
  ASSUME NEW J \in SUBSET Jtis, NEW reuse, tokens' = Revoke(J, reuse), NEW j \in Jtis
  PROVE  tokens'[j] = tokens[j] \/ Written(j)
<1>1. CASE j \in J
  BY <1>1 DEF Revoke, Retire, Written
<1>2. CASE j \notin J
  BY <1>2 DEF Revoke
<1> QED
  BY <1>1, <1>2

LEMMA RowsAreWritten ==
  ASSUME SessionInv, [Next]_vars, NEW j \in Jtis
  PROVE  tokens'[j] = tokens[j] \/ Written(j)
<1>1. tokens \in [Jtis -> Token \cup {None}]
  BY DEF SessionInv, TypeOK
<1>2. ASSUME NEW r \in Requests, RequestStep(r)
      PROVE  tokens'[j] = tokens[j] \/ Written(j)
  <2>1. CASE FindAssignment(r) \/ RefreshRead(r) \/ Reply(r)
    BY <2>1 DEF FindAssignment, RefreshRead, Reply
  <2>2. CASE RefreshExpire(r) \/ RefreshClaim(r)
    <3>1. req[r].jti \in Jtis
      BY <2>2 DEF SessionInv, RequestLocals, RefreshExpire, RefreshClaim
    <3> QED
      BY <2>2, <3>1, RevokeWrites DEF RefreshExpire, RefreshClaim, Consumed
  <2>3. CASE RevokeTokenFamily(r)
    BY <2>3, RevokeWrites DEF RevokeTokenFamily, Family
  <2>4. CASE IssueSessionTokens(r)
    BY <1>1, <2>4 DEF IssueSessionTokens, Insert, NewRow, Written
  <2>5. CASE RefreshReplace(r)
    BY <1>1, <2>5 DEF RefreshReplace, ReplacedBy, Retire, Written
  <2> QED
    BY <1>2, <2>1, <2>2, <2>3, <2>4, <2>5 DEF RequestStep
<1>3. ASSUME NEW u \in Users, RemoveCommit(u)
      PROVE  tokens'[j] = tokens[j] \/ Written(j)
  <2>1. removal[u].rows \in SUBSET Jtis
    BY DEF SessionInv, TypeOK, Removal
  <2> QED
    BY <1>3, <2>1, RevokeWrites DEF RemoveCommit
<1>4. ASSUME NEW u \in Users, NEW k \in Jtis, Logout(u, k)
      PROVE  tokens'[j] = tokens[j] \/ Written(j)
  <2> DEFINE J == {i \in {k} : Active(i) /\ tokens[i].user = u}
  <2>1. J \in SUBSET Jtis /\ tokens' = Revoke(J, FALSE)
    BY <1>4 DEF Logout
  <2> HIDE DEF J
  <2> QED
    BY <2>1, RevokeWrites
<1>5. CASE UNCHANGED tokens
  BY <1>5
<1> QED
  BY <1>2, <1>3, <1>4, <1>5
     DEF Next, vars, Fail, SelectRole, RefreshVerify, Login, TempTokenExpires,
         TokenExpires, RemoveCheck, RemovalStep, RemoveRevoke, RemoveRollback

LEMMA StatesAgree ==
  ASSUME SessionInv, ActiveIffNotRevoked, [Next]_vars
  PROVE  ActiveIffNotRevoked'
<1> SUFFICES ASSUME NEW j \in Jtis, tokens'[j] # None
             PROVE  /\ (tokens'[j].estado = "ACTIVO") = ~tokens'[j].revoked
                    /\ tokens'[j].replacedBy # None => tokens'[j].revoked
  BY DEF ActiveIffNotRevoked
<1>1. CASE tokens'[j] = tokens[j]
  BY <1>1 DEF ActiveIffNotRevoked
<1>2. CASE Written(j)
  BY <1>2 DEF Written
<1> QED
  BY <1>1, <1>2, RowsAreWritten

(* The two columns that say whether a refresh token may be used never      *)
(* disagree, so it does not matter which of them a query looks at.         *)
THEOREM EstadoSaysRevoked == Spec => []ActiveIffNotRevoked
<1>1. Init => ActiveIffNotRevoked
  BY DEF Init, ActiveIffNotRevoked
<1>2. SessionInv /\ ActiveIffNotRevoked /\ [Next]_vars => ActiveIffNotRevoked'
  BY StatesAgree
<1> QED
  BY <1>1, <1>2, SessionInvariance, PTL DEF Spec

-----------------------------------------------------------------------------
(* Removed users *)

(* Once a removal has locked the rows it revokes, its user's other tokens, *)
(* stored or about to be, belong to sessions that raced with it.           *)
RemovalsSettle ==
  \A u \in Users :
    /\ removal[u].pc = "revoked" => \A j \in Jtis :
         Active(j) /\ tokens[j].user = u => j \in removal[u].rows \/ root[j] \in raced
    /\ ~userActive[u] => \A j \in Jtis :
         Active(j) /\ tokens[j].user = u => root[j] \in raced
    /\ removal[u].pc = "revoked" \/ ~userActive[u] => \A x \in Requests :
         req[x].pc = "issue" /\ req[x].user = u => root[req[x].next] \in raced

LEMMA NarrowsSettle ==
  ASSUME RemovalsSettle, Narrows, raced \subseteq raced', userActive' = userActive,
         \A u \in Users : removal'[u].pc = "revoked" =>
           removal[u].pc = "revoked" /\ removal'[u].rows = removal[u].rows
  PROVE  RemovalsSettle'
<1> SUFFICES ASSUME NEW u \in Users
             PROVE  /\ removal'[u].pc = "revoked" => \A j \in Jtis :
                         Active(j)' /\ tokens'[j].user = u =>
                           j \in removal'[u].rows \/ root'[j] \in raced'
                    /\ ~userActive'[u] => \A j \in Jtis :
                         Active(j)' /\ tokens'[j].user = u => root'[j] \in raced'
                    /\ removal'[u].pc = "revoked" \/ ~userActive'[u] =>
                         \A x \in Requests :
                           req'[x].pc = "issue" /\ req'[x].user = u =>
                             root'[req'[x].next] \in raced'
  BY DEF RemovalsSettle
<1>1. \A j \in Jtis : Active(j)' /\ tokens'[j].user = u =>
        Active(j) /\ tokens[j].user = u /\ root'[j] = root[j]
  BY DEF Narrows, SameRows
<1>2. \A x \in Requests : req'[x].pc = "issue" =>
        req'[x] = req[x] /\ root'[req'[x].next] = root[req[x].next]
  BY DEF Narrows
<1> HIDE DEF Active
<1> QED
  BY <1>1, <1>2 DEF RemovalsSettle

(* A request that comes to issue for a user whose removal has locked their *)
(* rows, or has committed, is noted.                                       *)
LEMMA BeginsSettle ==
  ASSUME SessionInv, RemovalsSettle, NEW r \in Requests, Begins(r),
         UNCHANGED <<userActive, removal>>, raced \subseteq raced',
         \A j \in Jtis : Active(j)' => Active(j),
         \A u \in Users :
           u = req[r].user /\ (removal[u].pc = "revoked" \/ ~userActive[u])
             => root'[req[r].next] \in raced'
  PROVE  RemovalsSettle'
<1> SUFFICES ASSUME NEW u \in Users
             PROVE  /\ removal[u].pc = "revoked" => \A j \in Jtis :
                         Active(j)' /\ tokens'[j].user = u =>
                           j \in removal[u].rows \/ root'[j] \in raced'
                    /\ ~userActive[u] => \A j \in Jtis :
                         Active(j)' /\ tokens'[j].user = u => root'[j] \in raced'
                    /\ removal[u].pc = "revoked" \/ ~userActive[u] =>
                         \A x \in Requests :
                           req'[x].pc = "issue" /\ req'[x].user = u =>
                             root'[req'[x].next] \in raced'
  BY DEF RemovalsSettle
<1>1. ASSUME NEW j \in Jtis, Active(j)', tokens'[j].user = u
      PROVE  Active(j) /\ tokens[j].user = u /\ root'[j] = root[j]
  <2>1. Active(j) /\ tokens[j].user = u
    BY <1>1 DEF Begins, SameRows
  <2>2. root[j] # None
    BY <2>1 DEF SessionInv, RootsAreSessions, Active
  <2> QED
    BY <2>1, <2>2 DEF Begins
<1>2. ASSUME NEW x \in Requests, x # r, req'[x].pc = "issue"
      PROVE  req'[x] = req[x] /\ root'[req'[x].next] = root[req[x].next]
  <2>1. req'[x] = req[x] /\ req[x].next \in Jtis
    BY <1>2 DEF Begins, SessionInv, RequestLocals
  <2>2. req[x].next # req[r].next
    BY <1>2, <2>1, NoneAssumption DEF SessionInv, NextsDiffer
  <2> QED
    BY <2>1, <2>2 DEF Begins
<1>3. req'[r].user = req[r].user /\ req'[r].next = req[r].next
  BY DEF Begins
<1> HIDE DEF Active
<1>4. /\ removal[u].pc = "revoked" => \A j \in Jtis :
           Active(j)' /\ tokens'[j].user = u =>
             j \in removal[u].rows \/ root'[j] \in raced'
      /\ ~userActive[u] => \A j \in Jtis :
           Active(j)' /\ tokens'[j].user = u => root'[j] \in raced'
  BY <1>1 DEF RemovalsSettle
<1>5. removal[u].pc = "revoked" \/ ~userActive[u] => \A x \in Requests :
        req'[x].pc = "issue" /\ req'[x].user = u => root'[req'[x].next] \in raced'
  BY <1>2, <1>3 DEF RemovalsSettle
<1> QED
  BY <1>4, <1>5

LEMMA FindAssignmentSettles ==
  ASSUME SessionInv, RemovalsSettle, NEW r \in Requests, FindAssignment(r)
  PROVE  RemovalsSettle'
<1>1. /\ UNCHANGED <<userActive, removal>> /\ raced \subseteq raced'
  BY DEF FindAssignment, RacedBy
<1>2. CASE Narrows
  BY <1>1, <1>2, NarrowsSettle
<1>3. CASE Opens(r)
  <2>1. userActive[req[r].user] /\ raced' = RacedBy(req[r].user, req[r].next)
    <3>1. root' # root
      BY <1>3, NoneAssumption DEF Opens, Begins
    <3> QED
      BY <3>1 DEF FindAssignment
  <2>2. removal[req[r].user].pc = "revoked" => req[r].next \in raced'
    BY <2>1 DEF RacedBy
  <2> QED
    BY <1>1, <1>3, <2>1, <2>2, BeginsSettle DEF Opens
<1> QED
  BY <1>2, <1>3, FindAssignmentMoves

(* The row a refresh consumes was live: after the removal, its session is  *)
(* one that raced.                                                         *)
LEMMA RefreshClaimSettles ==
  ASSUME SessionInv, RemovalsSettle, NEW r \in Requests, RefreshClaim(r)
  PROVE  RemovalsSettle'
<1> DEFINE j == req[r].jti
<1>1. UNCHANGED <<userActive, removal>> /\ raced \subseteq raced'
  BY DEF RefreshClaim, RacedBy
<1>2. CASE Narrows
  BY <1>1, <1>2, NarrowsSettle
<1>3. CASE Spends(r)
  <2>1. raced' = RacedBy(req[r].user, root[j])
    <3>1. root' # root
      BY <1>3, NoneAssumption DEF Spends, Begins, SessionInv, RootsAreSessions, Active
    <3> QED
      BY <3>1 DEF RefreshClaim
  <2>2. j \in Jtis /\ Active(j) /\ req[r].user = tokens[j].user
    BY <1>3, NoneAssumption DEF Spends, SessionInv, RequestLocals, RefreshClaim
  <2>3. req[r].user \in Users
    BY DEF SessionInv, RequestLocals, RefreshClaim
  <2>4. ~userActive[req[r].user] => root[j] \in raced
    BY <2>2, <2>3 DEF RemovalsSettle
  <2>5. removal[req[r].user].pc = "revoked" => root[j] \in raced'
    BY <2>1 DEF RacedBy
  <2> QED
    BY <1>1, <1>3, <2>4, <2>5, BeginsSettle DEF Spends
<1> QED
  BY <1>2, <1>3, RefreshClaimMoves

LEMMA IssueSettles ==
  ASSUME SessionInv, RemovalsSettle, NEW r \in Requests, IssueSessionTokens(r)
  PROVE  RemovalsSettle'
<1> DEFINE n == req[r].next
<1>1. Stores(r) /\ UNCHANGED <<userActive, removal, raced>>
  BY IssueSessionTokensMoves DEF IssueSessionTokens
<1>2. ASSUME NEW u \in Users, NEW j \in Jtis, Active(j)', tokens'[j].user = u
      PROVE  \/ Active(j) /\ tokens[j].user = u
             \/ j = n /\ req[r].user = u /\ req[r].pc = "issue"
  BY <1>1, <1>2 DEF Stores, Active
<1>3. \A x \in Requests : req'[x].pc = "issue" => req'[x] = req[x]
  BY <1>1 DEF Stores
<1>4. root' = root
  BY <1>1 DEF Stores
<1> HIDE DEF Active
<1>5. ASSUME NEW u \in Users
      PROVE  /\ removal[u].pc = "revoked" => \A j \in Jtis :
                  Active(j)' /\ tokens'[j].user = u =>
                    j \in removal[u].rows \/ root[j] \in raced
             /\ ~userActive[u] => \A j \in Jtis :
                  Active(j)' /\ tokens'[j].user = u => root[j] \in raced
  BY <1>2 DEF RemovalsSettle
<1> QED
  BY <1>1, <1>3, <1>4, <1>5 DEF RemovalsSettle

(* The first statement of the removal sees every live token of the user;   *)
(* the ones being issued are noted.                                        *)
LEMMA RemoveRevokeSettles ==
  ASSUME SessionInv, RemovalsSettle, NEW w \in Users, RemoveRevoke(w)
  PROVE  RemovalsSettle'
<1>1. /\ UNCHANGED <<userActive, tokens, req, root>>
      /\ removal \in [Users -> Removal]
      /\ removal' = [removal EXCEPT ![w] = [pc |-> "revoked", rows |-> RowsOf(w)]]
      /\ raced' = raced \cup {root[req[x].next] : x \in
                     {x \in Requests : req[x].pc = "issue" /\ req[x].user = w}}
  BY DEF RemoveRevoke, SessionInv, TypeOK
<1>2. /\ removal'[w].rows = RowsOf(w)
      /\ \A u \in Users \ {w} : removal'[u] = removal[u]
  BY <1>1
<1>3. /\ raced \subseteq raced'
      /\ \A x \in Requests : req[x].pc = "issue" /\ req[x].user = w
           => root[req[x].next] \in raced'
  BY <1>1
<1>4. ASSUME NEW u \in Users
      PROVE  /\ removal'[u].pc = "revoked" => \A j \in Jtis :
                  Active(j) /\ tokens[j].user = u =>
                    j \in removal'[u].rows \/ root[j] \in raced'
             /\ ~userActive[u] => \A j \in Jtis :
                  Active(j) /\ tokens[j].user = u => root[j] \in raced'
             /\ removal'[u].pc = "revoked" \/ ~userActive[u] => \A x \in Requests :
                  req[x].pc = "issue" /\ req[x].user = u => root[req[x].next] \in raced'
  <2>1. CASE u = w
    BY <1>2, <1>3, <2>1 DEF RemovalsSettle, RowsOf
  <2>2. CASE u # w
    BY <1>2, <1>3, <2>2 DEF RemovalsSettle
  <2> QED
    BY <2>1, <2>2
<1> QED
  BY <1>1, <1>4 DEF RemovalsSettle, Active

(* The commit takes the locked rows out of use with the user.              *)
LEMMA RemoveCommitSettles ==
  ASSUME SessionInv, RemovalsSettle, NEW w \in Users, RemoveCommit(w)
  PROVE  RemovalsSettle'
<1>1. /\ UNCHANGED <<req, root, raced>> /\ removal[w].pc = "revoked"
      /\ removal \in [Users -> Removal] /\ userActive \in [Users -> BOOLEAN]
      /\ removal' = [removal EXCEPT ![w] = NoRemoval]
      /\ userActive' = [userActive EXCEPT ![w] = FALSE]
      /\ tokens' = Revoke(removal[w].rows, FALSE)
  BY DEF RemoveCommit, Release, SessionInv, TypeOK
<1>2. /\ removal'[w].pc = "none"
      /\ \A u \in Users \ {w} : /\ removal'[u] = removal[u]
                                /\ userActive'[u] <=> userActive[u]
  BY <1>1 DEF NoRemoval
<1>3. Narrows
  BY RemoveCommitMoves
<1>4. Retired(removal[w].rows)
  BY <1>1, RevokedRows DEF SessionInv, TypeOK, LockedRowsExist, Removal
<1>5. \A j \in Jtis : Active(j)' =>
        Active(j) /\ tokens'[j].user = tokens[j].user /\ j \notin removal[w].rows
  BY <1>3, <1>4 DEF Narrows, SameRows, Retired, Active
<1> HIDE DEF Active
<1>6. ASSUME NEW u \in Users
      PROVE  /\ removal'[u].pc = "revoked" => \A j \in Jtis :
                  Active(j)' /\ tokens'[j].user = u =>
                    j \in removal'[u].rows \/ root[j] \in raced
             /\ ~userActive'[u] => \A j \in Jtis :
                  Active(j)' /\ tokens'[j].user = u => root[j] \in raced
             /\ removal'[u].pc = "revoked" \/ ~userActive'[u] => \A x \in Requests :
                  req[x].pc = "issue" /\ req[x].user = u => root[req[x].next] \in raced
  <2>1. CASE u = w
    BY <1>1, <1>2, <1>5, <2>1 DEF RemovalsSettle
  <2>2. CASE u # w
    BY <1>2, <1>5, <2>2 DEF RemovalsSettle
  <2> QED
    BY <2>1, <2>2
<1> QED
  BY <1>1, <1>6 DEF RemovalsSettle

LEMMA StepsSettle ==
  ASSUME SessionInv, RemovalsSettle, [Next]_vars
  PROVE  RemovalsSettle'
<1>1. ASSUME Narrows, UNCHANGED <<userActive, removal, raced>>
      PROVE  RemovalsSettle'
  BY <1>1, NarrowsSettle
<1>2. ASSUME UNCHANGED <<userActive, tokens, req, root, raced>>,
             \A u \in Users : removal'[u].pc = "revoked" =>
               removal[u].pc = "revoked" /\ removal'[u].rows = removal[u].rows
      PROVE  RemovalsSettle'
  <2>1. Narrows
    BY <1>2 DEF Narrows, SameRows, Active
  <2> QED
    BY <1>2, <2>1, NarrowsSettle
<1>3. CASE UNCHANGED vars
  BY <1>2, <1>3 DEF vars
<1>4. ASSUME NEW r \in Requests, RequestStep(r) \/ Fail(r)
      PROVE  RemovalsSettle'
  <2>1. CASE RefreshRead(r)
    BY <1>1, <2>1, RefreshReadMoves DEF RefreshRead
  <2>2. CASE RefreshExpire(r)
    BY <1>1, <2>2, RefreshExpireMoves DEF RefreshExpire
  <2>3. CASE RevokeTokenFamily(r)
    BY <1>1, <2>3, RevokeTokenFamilyMoves DEF RevokeTokenFamily
  <2>4. CASE RefreshReplace(r)
    BY <1>1, <2>4, RefreshReplaceMoves DEF RefreshReplace
  <2>5. CASE Reply(r) \/ Fail(r)
    BY <1>1, <2>5, RequestEndsMoves DEF Reply, Fail
  <2> QED
    BY <1>4, <2>1, <2>2, <2>3, <2>4, <2>5, FindAssignmentSettles,
       RefreshClaimSettles, IssueSettles DEF RequestStep
<1>5. ASSUME NEW r \in Requests,
             \/ \E u \in Users, ro \in Roles : SelectRole(r, u, ro)
             \/ \E j \in Jtis : RefreshVerify(r, j)
      PROVE  RemovalsSettle'
  BY <1>1, <1>5, RequestBeginsMoves DEF SelectRole, RefreshVerify
<1>6. ASSUME NEW u \in Users, NEW j \in Jtis, Logout(u, j)
      PROVE  RemovalsSettle'
  BY <1>1, <1>6, LogoutMoves DEF Logout
<1>7. ASSUME NEW u \in Users, Login(u) \/ TempTokenExpires(u)
      PROVE  RemovalsSettle'
  BY <1>2, <1>7 DEF Login, TempTokenExpires
<1>8. ASSUME NEW j \in Jtis, TokenExpires(j)
      PROVE  RemovalsSettle'
  BY <1>2, <1>8 DEF TokenExpires
<1>9. ASSUME NEW u \in Users, RemoveCheck(u) \/ RemoveRollback(u)
      PROVE  RemovalsSettle'
  <2>1. PICK w \in {Checked, NoRemoval} : removal' = [removal EXCEPT ![u] = w]
    BY <1>9 DEF RemoveCheck, RemoveRollback, Release
  <2>2. w.pc # "revoked"
    BY DEF Checked, NoRemoval
  <2>3. \A x \in Users : removal'[x].pc = "revoked" => removal'[x] = removal[x]
    BY <2>1, <2>2 DEF SessionInv, TypeOK
  <2> QED
    BY <1>2, <1>9, <2>3 DEF RemoveCheck, RemoveRollback
<1>10. ASSUME NEW u \in Users, RemovalStep(u)
       PROVE  RemovalsSettle'
  BY <1>10, RemoveRevokeSettles, RemoveCommitSettles DEF RemovalStep
<1> QED
  BY <1>3, <1>4, <1>5, <1>6, <1>7, <1>8, <1>9, <1>10 DEF Next

(* UsersService.remove ends the sessions of its user but for those that    *)
(* were being issued while its transaction ran, and what these become.     *)
THEOREM RemovalEndsSessions == Spec => []RemovalEndsSettledSessions
<1>1. Init => RemovalsSettle
  BY DEF Init, RemovalsSettle, NoRemoval, Active, IdleRequest, Doing
<1>2. SessionInv /\ RemovalsSettle /\ [Next]_vars => RemovalsSettle'
  BY StepsSettle
<1>3. SessionInv /\ RemovalsSettle => RemovalEndsSettledSessions
  <2> SUFFICES ASSUME SessionInv, RemovalsSettle, NEW j \in Jtis,
                      Active(j), ~userActive[tokens[j].user]
               PROVE  root[j] \in raced
    BY DEF RemovalEndsSettledSessions
  <2>1. tokens[j].user \in Users
    BY DEF SessionInv, TypeOK, Token, Active
  <2> QED
    BY <2>1 DEF RemovalsSettle
<1> QED
  BY <1>1, <1>2, <1>3, SessionInvariance, PTL DEF Spec

-----------------------------------------------------------------------------
(* The refinement *)

(* Session s is in transit, or held by j.                                  *)
Transit(s) == \E r \in Requests : Issuing(r, s)
Held(s, j) == Active(j) /\ root[j] = s

(* SessionPhase and SessionHolder, without CASE and CHOOSE.                *)
Phased ==
  \A s \in Jtis :
    /\ root[s] # s => SessionPhase(s) = "unopened" /\ SessionHolder(s) = None
    /\ root[s] = s /\ Transit(s)
         => SessionPhase(s) = "transit" /\ SessionHolder(s) = None
    /\ root[s] = s /\ ~Transit(s) /\ (\A j \in Jtis : ~Held(s, j))
         => SessionPhase(s) = "closed" /\ SessionHolder(s) = None
    /\ \A j \in Jtis : Held(s, j) =>
         /\ root[s] = s /\ ~Transit(s)
         /\ SessionPhase(s) = "live" /\ SessionHolder(s) = j

LEMMA PhasesAreRight == SessionInv => Phased
<1> SUFFICES ASSUME SessionInv, NEW s \in Jtis
             PROVE  /\ root[s] # s => SessionPhase(s) = "unopened" /\ SessionHolder(s) = None
                    /\ root[s] = s /\ Transit(s)
                         => SessionPhase(s) = "transit" /\ SessionHolder(s) = None
                    /\ root[s] = s /\ ~Transit(s) /\ (\A j \in Jtis : ~Held(s, j))
                         => SessionPhase(s) = "closed" /\ SessionHolder(s) = None
                    /\ \A j \in Jtis : Held(s, j) =>
                         /\ root[s] = s /\ ~Transit(s)
                         /\ SessionPhase(s) = "live" /\ SessionHolder(s) = j
  BY DEF Phased
<1>1. CASE root[s] # s
  <2>1. SessionPhase(s) = "unopened"
    BY <1>1 DEF SessionPhase
  <2>2. \A j \in Jtis : ~Held(s, j)
    BY <1>1 DEF SessionInv, RootsAreSessions, Held, Active
  <2> QED
    BY <1>1, <2>1, <2>2 DEF SessionHolder
<1>2. CASE root[s] = s /\ Transit(s)
  <2>1. SessionPhase(s) = "transit"
    BY <1>2 DEF SessionPhase, Transit
  <2>2. \A j \in Jtis : ~Held(s, j)
    BY <1>2 DEF SessionInv, OneLiveTokenPerSession, Held, Transit
  <2> QED
    BY <1>2, <2>1, <2>2 DEF SessionHolder
<1>3. CASE root[s] = s /\ ~Transit(s) /\ \A j \in Jtis : ~Held(s, j)
  <2>1. SessionPhase(s) = "closed"
    BY <1>3 DEF SessionPhase, Transit, Held
  <2> QED
    BY <1>3, <2>1 DEF SessionHolder
<1>4. CASE root[s] = s /\ ~Transit(s) /\ \E j \in Jtis : Held(s, j)
  <2>1. PICK j \in Jtis : Held(s, j)
    BY <1>4
  <2>2. SessionPhase(s) = "live"
    BY <1>4 DEF SessionPhase, Transit, Held
  <2>3. \A k \in Jtis : Held(s, k) => k = j
    BY <2>1 DEF SessionInv, OneLiveTokenPerSession, Held
  <2>4. SessionHolder(s) = CHOOSE k \in Jtis : Held(s, k)
    BY <2>2 DEF SessionHolder, Held
  <2>5. SessionHolder(s) = j
    BY <2>1, <2>3, <2>4
  <2> QED
    BY <1>4, <2>1, <2>2, <2>3, <2>5
<1> QED
  BY <1>1, <1>2, <1>3, <1>4

(* A step that adds no transit, token or row closes sessions at most.      *)
LEMMA NarrowsCloses ==
  ASSUME SessionInv, Phased, Phased', Narrows
  PROVE  \E S \in SUBSET Jtis : Chain!Close(S)
<1> DEFINE S == {s \in Jtis : SessionPhase(s) \in {"live", "transit"}
                               /\ SessionPhase(s)' = "closed"}
<1>1. root' = root
  BY DEF Narrows
<1>2. ASSUME NEW s \in Jtis
      PROVE  /\ Transit(s)' => Transit(s)
             /\ \A j \in Jtis : Held(s, j)' => Held(s, j)
  BY DEF Narrows, Transit, Held, Issuing
<1> HIDE DEF Transit, Held
<1>3. ASSUME NEW s \in Jtis
      PROVE  /\ SessionPhase(s)' = IF s \in S THEN "closed" ELSE SessionPhase(s)
             /\ SessionHolder(s)' = IF s \in S THEN None ELSE SessionHolder(s)
  <2>1. CASE root[s] # s
    BY <1>1, <2>1 DEF Phased
  <2>2. CASE root[s] = s /\ Transit(s)
    <3>1. \A j \in Jtis : ~Held(s, j)
      BY <2>2 DEF Phased
    <3> QED
      BY <1>1, <1>2, <2>2, <3>1 DEF Phased
  <2>3. CASE root[s] = s /\ ~Transit(s) /\ \A j \in Jtis : ~Held(s, j)
    BY <1>1, <1>2, <2>3 DEF Phased
  <2>4. ASSUME NEW j \in Jtis, Held(s, j)
        PROVE  /\ SessionPhase(s)' = IF s \in S THEN "closed" ELSE SessionPhase(s)
               /\ SessionHolder(s)' = IF s \in S THEN None ELSE SessionHolder(s)
    <3>1. root[s] = s /\ SessionPhase(s) = "live" /\ SessionHolder(s) = j /\ ~Transit(s)
      BY <2>4 DEF Phased
    <3>2. \A k \in Jtis : Held(s, k) => k = j
      BY <3>1 DEF Phased
    <3>3. CASE Held(s, j)'
      BY <3>1, <3>3 DEF Phased
    <3>4. CASE ~Held(s, j)'
      BY <1>1, <1>2, <3>1, <3>2, <3>4 DEF Phased
    <3> QED
      BY <3>3, <3>4
  <2> QED
    BY <2>1, <2>2, <2>3, <2>4
<1>4. {j \in Jtis : tokens'[j] # None} = {j \in Jtis : tokens[j] # None}
  BY DEF Narrows, SameRows
<1>5. S \in SUBSET Jtis /\ \A s \in S : SessionPhase(s) \in {"live", "transit"}
  OBVIOUS
<1> HIDE DEF S
<1>6. Chain!Close(S)
  BY <1>3, <1>4, <1>5 DEF Chain!Close
<1> QED
  BY <1>5, <1>6

(* Issuing for a new jti changes where one session is, the jti's own.      *)
LEMMA BeginsTransit ==
  ASSUME SessionInv, NEW r \in Requests, Begins(r)
  PROVE  \A s \in Jtis : Transit(s)' <=> Transit(s) \/ root'[req[r].next] = s
<1> DEFINE n == req[r].next
<1>1. ASSUME NEW s \in Jtis, NEW x \in Requests \ {r}
      PROVE  Issuing(x, s)' <=> Issuing(x, s)
  <2>1. req'[x] = req[x]
    BY DEF Begins
  <2>2. req[x].pc = "issue" => req[x].next \in Jtis /\ req[x].next # n
    BY NoneAssumption DEF SessionInv, RequestLocals, NextsDiffer, Begins
  <2> QED
    BY <2>1, <2>2 DEF Begins, Issuing
<1>2. \A s \in Jtis : /\ Issuing(r, s)' <=> root'[n] = s
                     /\ ~Issuing(r, s)
  BY DEF Begins, Issuing
<1> QED
  BY <1>1, <1>2 DEF Transit

LEMMA OpensIsOpen ==
  ASSUME SessionInv, Phased, Phased', NEW r \in Requests, Opens(r)
  PROVE  Chain!Open(req[r].next)
<1> DEFINE n == req[r].next
<1>1. /\ n \in Jtis /\ root[n] = None /\ n # None /\ root'[n] = n
      /\ \A i \in Jtis \ {n} : root'[i] = root[i]
  BY NoneAssumption DEF Opens, Begins
<1>2. \A s \in Jtis : Transit(s)' <=> Transit(s) \/ s = n
  BY <1>1, BeginsTransit DEF Opens
<1>3. ASSUME NEW s \in Jtis, s # n, NEW j \in Jtis
      PROVE  Held(s, j)' <=> Held(s, j)
  <2>1. CASE j = n
    BY <1>1, <1>3, <2>1 DEF Held, SessionInv, RootsAreSessions, Active
  <2>2. CASE j # n
    BY <1>1, <2>2 DEF Held, Opens
  <2> QED
    BY <2>1, <2>2
<1>4. {j \in Jtis : tokens'[j] # None} = {j \in Jtis : tokens[j] # None}
  BY DEF Opens, Begins, SameRows
<1> HIDE DEF n, Transit, Held
<1>5. SessionPhase(n) = "unopened" /\ SessionHolder(n) = None
  BY <1>1 DEF Phased
<1>6. ASSUME NEW s \in Jtis
      PROVE  /\ SessionPhase(s)' = IF s = n THEN "transit" ELSE SessionPhase(s)
             /\ SessionHolder(s)' = SessionHolder(s)
  <2>1. CASE s = n
    BY <1>1, <1>2, <1>5, <2>1 DEF Phased
  <2>2. CASE s # n
    <3>1. /\ root'[s] = root[s] /\ (Transit(s)' <=> Transit(s))
          /\ \A j \in Jtis : Held(s, j)' <=> Held(s, j)
      BY <1>1, <1>2, <1>3, <2>2
    <3>2. CASE root[s] # s \/ Transit(s) \/ \A j \in Jtis : ~Held(s, j)
      BY <2>2, <3>1, <3>2 DEF Phased
    <3>3. ASSUME NEW j \in Jtis, Held(s, j)
          PROVE  SessionPhase(s)' = SessionPhase(s) /\ SessionHolder(s)' = SessionHolder(s)
      BY <3>1, <3>3 DEF Phased
    <3> QED
      BY <2>2, <3>2, <3>3
  <2> QED
    BY <2>1, <2>2
<1>7. Chain!Open(n)
  BY <1>1, <1>4, <1>5, <1>6 DEF Chain!Open
<1> QED
  BY <1>7 DEF n

LEMMA SpendsIsConsume ==
  ASSUME SessionInv, Phased, Phased', NEW r \in Requests, Spends(r)
  PROVE  \E s \in Jtis : Chain!Consume(s)
<1> DEFINE n == req[r].next
           k == req[r].jti
           o == root[k]
<1>1. /\ n \in Jtis /\ root[n] = None /\ k \in Jtis /\ root'[n] = o
      /\ \A i \in Jtis \ {n} : root'[i] = root[i]
      /\ Active(k)
  BY DEF Spends, Begins
<1>2. o \in Jtis /\ root[o] = o /\ o # n /\ n # None
  BY <1>1, NoneAssumption DEF SessionInv, TypeOK, RootsAreSessions, Active
<1>3. \A s \in Jtis : Transit(s)' <=> Transit(s) \/ s = o
  BY <1>1, BeginsTransit DEF Spends
<1>4. ASSUME NEW s \in Jtis, NEW j \in Jtis
      PROVE  Held(s, j)' <=> Held(s, j) /\ j # k
  <2>1. CASE j = n
    BY <1>1, <1>2, <2>1 DEF Held, SessionInv, RootsAreSessions, Active, Spends
  <2>2. CASE j # n
    BY <1>1, <2>2 DEF Held, Spends
  <2> QED
    BY <2>1, <2>2
<1>5. {j \in Jtis : tokens'[j] # None} = {j \in Jtis : tokens[j] # None}
  BY DEF Spends, Begins, SameRows
<1>6. Held(o, k)
  BY <1>1 DEF Held
<1>7. \A s \in Jtis : Held(s, k) => s = o
  BY DEF Held
<1>8. root'[o] = o /\ \A s \in Jtis : root'[s] = s <=> root[s] = s
  BY <1>1, <1>2
<1> HIDE DEF n, k, o, Transit, Held
<1>9. SessionPhase(o) = "live"
  BY <1>1, <1>2, <1>6 DEF Phased
<1>10. ASSUME NEW s \in Jtis
       PROVE  /\ SessionPhase(s)' = IF s = o THEN "transit" ELSE SessionPhase(s)
              /\ SessionHolder(s)' = IF s = o THEN None ELSE SessionHolder(s)
  <2>1. CASE s = o
    BY <1>2, <1>3, <1>8, <2>1 DEF Phased
  <2>2. CASE s # o
    <3>1. /\ root'[s] = s <=> root[s] = s
          /\ Transit(s)' <=> Transit(s)
          /\ \A j \in Jtis : Held(s, j)' <=> Held(s, j)
      BY <1>3, <1>4, <1>7, <1>8, <2>2
    <3>2. CASE root[s] # s \/ Transit(s) \/ \A j \in Jtis : ~Held(s, j)
      BY <2>2, <3>1, <3>2 DEF Phased
    <3>3. ASSUME NEW j \in Jtis, Held(s, j)
          PROVE  SessionPhase(s)' = SessionPhase(s) /\ SessionHolder(s)' = SessionHolder(s)
      BY <3>1, <3>3 DEF Phased
    <3> QED
      BY <2>2, <3>2, <3>3
  <2> QED
    BY <2>1, <2>2
<1>11. Chain!Consume(o)
  BY <1>5, <1>9, <1>10, <1>2 DEF Chain!Consume
<1> QED
  BY <1>2, <1>11

LEMMA StoresIsIssue ==
  ASSUME SessionInv, Phased, Phased', NEW r \in Requests, Stores(r)
  PROVE  \E s \in Jtis, t \in Jtis : Chain!Issue(s, t)
<1> DEFINE n == req[r].next
           o == root[n]
<1>1. /\ n \in Jtis /\ tokens[n] = None /\ req[r].pc = "issue" /\ root' = root
      /\ tokens'[n] # None /\ tokens'[n].estado = "ACTIVO"
      /\ \A j \in Jtis \ {n} : tokens'[j] = tokens[j]
      /\ req'[r].pc # "issue" /\ \A x \in Requests \ {r} : req'[x] = req[x]
  BY DEF Stores
<1>2. o \in Jtis /\ root[o] = o /\ Issuing(r, o)
  BY <1>1, NoneAssumption DEF SessionInv, RequestLocals, RootsAreSessions, Issuing
<1>3. \A s \in Jtis : Transit(s)' <=> Transit(s) /\ s # o
  <2>1. \A x \in Requests \ {r}, s \in Jtis : Issuing(x, s)' <=> Issuing(x, s)
    BY <1>1 DEF Issuing
  <2>2. \A x \in Requests \ {r} : ~Issuing(x, o)
    BY <1>1 DEF SessionInv, OneLiveTokenPerSession, Issuing
  <2>3. \A s \in Jtis : ~Issuing(r, s)' /\ (Issuing(r, s) => s = o)
    BY <1>1 DEF Issuing
  <2> QED
    BY <2>1, <2>2, <2>3 DEF Transit
<1>4. \A s \in Jtis, j \in Jtis : Held(s, j)' <=> Held(s, j) \/ (s = o /\ j = n)
  BY <1>1 DEF Held, Active
<1>5. {j \in Jtis : tokens'[j] # None} = {j \in Jtis : tokens[j] # None} \cup {n}
  BY <1>1
<1>6. Transit(o)
  BY <1>2 DEF Transit
<1>7. n \notin {j \in Jtis : tokens[j] # None}
  BY <1>1
<1> HIDE DEF n, o, Transit, Held
<1>8. SessionPhase(o) = "transit"
  BY <1>2, <1>6 DEF Phased
<1>9. ASSUME NEW s \in Jtis
      PROVE  /\ SessionPhase(s)' = IF s = o THEN "live" ELSE SessionPhase(s)
             /\ SessionHolder(s)' = IF s = o THEN n ELSE SessionHolder(s)
  <2>1. CASE s = o
    BY <1>1, <1>4, <2>1 DEF Phased
  <2>2. CASE s # o
    <3>1. /\ root'[s] = s <=> root[s] = s
          /\ Transit(s)' <=> Transit(s)
          /\ \A j \in Jtis : Held(s, j)' <=> Held(s, j)
      BY <1>1, <1>3, <1>4, <2>2
    <3>2. CASE root[s] # s \/ Transit(s) \/ \A j \in Jtis : ~Held(s, j)
      BY <2>2, <3>1, <3>2 DEF Phased
    <3>3. ASSUME NEW j \in Jtis, Held(s, j)
          PROVE  SessionPhase(s)' = SessionPhase(s) /\ SessionHolder(s)' = SessionHolder(s)
      BY <3>1, <3>3 DEF Phased
    <3> QED
      BY <2>2, <3>2, <3>3
  <2> QED
    BY <2>1, <2>2
<1>10. PICK s \in Jtis, t \in Jtis : s = o /\ t = n
  BY <1>1, <1>2
<1>11. Chain!Issue(s, t)
  BY <1>2, <1>5, <1>7, <1>8, <1>9, <1>10 DEF Chain!Issue
<1> QED
  BY <1>11

(* Every step of the service is a step of SessionChain.                    *)
LEMMA StepsAreSteps ==
  ASSUME SessionInv, Phased, Phased', [Next]_vars
  PROVE  Chain!Next
<1>1. CASE Narrows
  BY <1>1, NarrowsCloses DEF Chain!Next
<1>2. ASSUME NEW r \in Requests, Opens(r)
      PROVE  Chain!Next
  <2>1. req[r].next \in Jtis
    BY <1>2 DEF Opens, Begins
  <2> QED
    BY <1>2, <2>1, OpensIsOpen DEF Chain!Next
<1>3. ASSUME NEW r \in Requests, Spends(r)
      PROVE  Chain!Next
  BY <1>3, SpendsIsConsume DEF Chain!Next
<1>4. ASSUME NEW r \in Requests, Stores(r)
      PROVE  Chain!Next
  BY <1>4, StoresIsIssue DEF Chain!Next
<1> QED
  BY <1>1, <1>2, <1>3, <1>4, Moves

LEMMA StartsAsChain == Init => Chain!Init
<1> SUFFICES ASSUME Init PROVE Chain!Init
  OBVIOUS
<1>1. \A s \in Jtis : root[s] # s /\ tokens[s] = None
  BY NoneAssumption DEF Init
<1>2. \A s \in Jtis : SessionPhase(s) = "unopened" /\ SessionHolder(s) = None
  BY <1>1 DEF SessionPhase, SessionHolder
<1> QED
  BY <1>1, <1>2 DEF Chain!Init

(* The service, with all its requests, rows, locks and failures, is the    *)
(* capability that is in one place at a time: rotation keeps what it       *)
(* promises.                                                               *)
THEOREM Refinement == Spec => ImplementsSessionChain
<1>1. SessionInv /\ Phased /\ Phased' /\ [Next]_vars => [Chain!Next]_(Chain!chainVars)
  BY StepsAreSteps
<1> QED
  BY <1>1, StartsAsChain, PhasesAreRight, SessionInvariance, PTL
     DEF Spec, ImplementsSessionChain, Chain!Spec
=============================================================================

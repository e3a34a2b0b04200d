----------------------- MODULE FrontendSession_proofs -----------------------
(***************************************************************************)
(* Theorems about FrontendSession, for any numbers of tabs, calls,         *)
(* sessions and tokens: the state keeps its shape, and every tab refreshes *)
(* at most once at a time, with somebody to process its queue.             *)
(*                                                                         *)
(* A step does one of two things to the calls of a tab: it leaves alone    *)
(* who refreshes and lets calls leave the queue (QuietStep), or it empties *)
(* the tab of both (ClearingStep). Only two actions do neither.            *)
(***************************************************************************)
EXTENDS FrontendSession, TLAPS, FiniteSetTheorems

-----------------------------------------------------------------------------
(* Calls *)

(* Moving a call on changes its stage only.                                *)
LEMMA ToCall ==
  ASSUME NEW q \in Call, NEW stage \in Stage
  PROVE  /\ To(q, stage) \in Call
         /\ To(q, stage).pc = stage
         /\ To(q, stage).tab = q.tab
         /\ To(q, stage).kind = q.kind
BY DEF To, Call

(* A new call is what its arguments say.                                   *)
LEMMA NewCallType ==
  ASSUME NEW stage \in Stage, NEW t \in Tabs \cup {None}, NEW kind \in Kind,
         NEW token \in MaybeToken, NEW named \in MaybeToken,
         NEW s \in Sessions \cup {None}
  PROVE  LET q == NewCall(stage, t, kind, token, named, s) IN
         q \in Call /\ q.pc = stage /\ q.tab = t /\ q.kind = kind
BY DEF NewCall, Call, MaybeToken

(* An idle call belongs to no tab.                                         *)
LEMMA IdleType ==
  Idle \in Call /\ Idle.pc = "idle" /\ Idle.tab = None /\ Idle.kind = "data"
<1>1. "idle" \in Stage /\ "data" \in Kind
  BY DEF Stage, Kind
<1>2. None \in MaybeToken /\ None \in Tabs \cup {None}
        /\ None \in Sessions \cup {None}
  BY DEF MaybeToken
<1> QED
  BY <1>1, <1>2, NewCallType DEF Idle

(* A rejected call is over, or the logout it was goes on without it.       *)
LEMMA RejectedType ==
  ASSUME NEW q \in Call
  PROVE  /\ Rejected(q) \in Call
         /\ Rejected(q).pc \in {"idle", "loggedOut"}
         /\ Rejected(q).pc = "loggedOut" => Rejected(q).kind # "signin"
         /\ Rejected(q).tab \in {q.tab, None}
<1>1. "loggedOut" \in Stage
  BY DEF Stage
<1> QED
  BY <1>1, ToCall, IdleType DEF Rejected

(* A call that is sent again is sent.                                      *)
LEMMA ResentType ==
  ASSUME NEW q \in Call, NEW token \in MaybeToken
  PROVE  /\ Resent(q, token) \in Call
         /\ Resent(q, token).pc = "sent"
         /\ Resent(q, token).tab = q.tab
         /\ Resent(q, token).kind = q.kind
BY DEF Resent, Call, Stage, MaybeToken

(* What presents a refresh token is a request for tokens.                  *)
LEMMA PresentingType ==
  ASSUME NEW q \in Call, NEW token \in MaybeToken
  PROVE  /\ Presenting(q, token) \in Call
         /\ Presenting(q, token).pc = "presented"
         /\ Presenting(q, token).tab = q.tab
         /\ Presenting(q, token).kind = q.kind
BY DEF Presenting, Call, Stage, MaybeToken

(* And so is what was answered.                                            *)
LEMMA AnsweredType ==
  ASSUME NEW q \in Call, NEW token \in MaybeToken
  PROVE  /\ Answered(q, token) \in Call
         /\ Answered(q, token).pc = "answered"
         /\ Answered(q, token).tab = q.tab
         /\ Answered(q, token).kind = q.kind
BY DEF Answered, Call, Stage, MaybeToken

(* And what was found good.                                                *)
LEMMA ClaimingType ==
  ASSUME NEW q \in Call, NEW s \in Sessions \cup {None}
  PROVE  /\ Claiming(q, s) \in Call
         /\ Claiming(q, s).pc = "claiming"
         /\ Claiming(q, s).tab = q.tab
         /\ Claiming(q, s).kind = q.kind
BY DEF Claiming, Call, Stage

(* A call whose document is gone belongs to no tab.                        *)
LEMMA OrphanType ==
  ASSUME NEW q \in Call
  PROVE  /\ Orphan(q) \in Call
         /\ Orphan(q).tab = None
         /\ Orphan(q).pc \in {"sent", "queued", "loggedOut"} =>
              Orphan(q).kind # "signin"
<1>1. CASE q.pc \in ForTokens \/ (q.pc = "sent" /\ q.kind = "logout")
  <2>1. Orphan(q) = [q EXCEPT !.tab = None]
    BY <1>1 DEF Orphan
  <2>2. /\ [q EXCEPT !.tab = None] \in Call
        /\ [q EXCEPT !.tab = None].tab = None
        /\ [q EXCEPT !.tab = None].pc = q.pc
        /\ [q EXCEPT !.tab = None].kind = q.kind
    BY DEF Call
  <2> QED
    BY <1>1, <2>1, <2>2 DEF ForTokens
<1>2. CASE ~(q.pc \in ForTokens \/ (q.pc = "sent" /\ q.kind = "logout"))
  BY <1>2, IdleType DEF Orphan
<1> QED
  BY <1>1, <1>2

-----------------------------------------------------------------------------
(* The two kinds of step *)

(* Nobody of a tab begins or stops refreshing, nobody joins a queue.       *)
LEMMA QuietStep ==
  ASSUME FrontendInv, TypeOK', refreshing' = refreshing,
         \A d \in Calls, t \in Tabs :
           /\ call'[d].tab = t /\ Waiting(d)' <=> call[d].tab = t /\ Waiting(d)
           /\ call'[d].tab = t /\ call'[d].pc = "queued" =>
                call[d].tab = t /\ call[d].pc = "queued",
         \A d \in Calls : call'[d].pc \in {"sent", "queued", "loggedOut"} =>
           call'[d].kind # "signin"
  PROVE  FrontendInv'
<1>1. QueueHasLeader'
  BY DEF FrontendInv, QueueHasLeader, QueueOf
<1> QED
  BY <1>1 DEF FrontendInv, SignInsAreNotRefreshed

\* Each call of tab t is over or goes on without the refresh, others stay.
Leaves(t) ==
  \A d \in Calls :
    \/ call'[d] = call[d] /\ (call[d].tab = t =>
                                ~Waiting(d) /\ call[d].pc # "queued")
    \/ /\ call[d].tab = t
       /\ call'[d].tab \in {t, None}
       /\ call'[d].tab = t => ~Waiting(d)' /\ call'[d].pc # "queued"
       /\ call'[d].pc \in {"sent", "queued", "loggedOut"} =>
            call'[d].kind # "signin"

(* Of one tab nobody refreshes or waits any more; the others do as before. *)
LEMMA ClearingStep ==
  ASSUME FrontendInv, TypeOK', NEW t \in Tabs,
         refreshing' = [refreshing EXCEPT ![t] = FALSE],
         Leaves(t)
  PROVE  FrontendInv'
<1>1. refreshing \in [Tabs -> BOOLEAN]
  BY DEF FrontendInv, TypeOK
<1>2. ASSUME NEW u \in Tabs, u # t, NEW d \in Calls
      PROVE  /\ call'[d].tab = u /\ Waiting(d)' <=> call[d].tab = u /\ Waiting(d)
             /\ call'[d].tab = u /\ call'[d].pc = "queued" <=>
                  call[d].tab = u /\ call[d].pc = "queued"
  BY <1>2, NoTabAssumption DEF Leaves, Waiting
<1>3. \A d \in Calls : ~(call'[d].tab = t /\ (Waiting(d)' \/ call'[d].pc = "queued"))
  BY DEF Leaves, Waiting
<1>4. QueueHasLeader'
  <2> SUFFICES ASSUME NEW u \in Tabs
               PROVE  LET leaders == {c \in Calls : call'[c].tab = u /\ Waiting(c)'}
                      IN  /\ refreshing'[u] <=> leaders # {}
                          /\ \A c, d \in leaders : c = d
                          /\ {c \in Calls : call'[c].tab = u
                                 /\ call'[c].pc = "queued"} # {}
                                => refreshing'[u]
    BY DEF QueueHasLeader, QueueOf
  <2>1. CASE u = t
    <3>1. ~refreshing'[u]
      BY <1>1, <2>1
    <3> QED
      BY <3>1, <1>3, <2>1
  <2>2. CASE u # t
    <3>1. refreshing'[u] <=> refreshing[u]
      BY <1>1, <2>2
    <3> QED
      BY <3>1, <1>2, <2>2 DEF FrontendInv, QueueHasLeader, QueueOf
  <2> QED
    BY <2>1, <2>2
<1>5. SignInsAreNotRefreshed'
  BY DEF Leaves, FrontendInv, SignInsAreNotRefreshed
<1> QED
  BY <1>4, <1>5 DEF FrontendInv

(* A step of one call that neither begins nor ends a refresh, nor queues   *)
(* it; also one that ends a refresh of no tab.                             *)
LEMMA OneCallStep ==
  ASSUME FrontendInv, TypeOK', NEW c \in Calls, NEW q,
         call' = [call EXCEPT ![c] = q],
         refreshing' = refreshing,
         q.pc # "queued",
         q.pc \in {"sent", "loggedOut"} => q.kind # "signin",
         \/ call[c].tab = None /\ q.tab = None
         \/ /\ call[c].pc \in ForTokens /\ q.pc \in ForTokens
            /\ q.tab = call[c].tab /\ q.kind = call[c].kind
         \/ ~Waiting(c) /\ (q.pc \notin ForTokens \/ q.kind = "signin")
  PROVE  FrontendInv'
<1>1. call \in [Calls -> Call]
  BY DEF FrontendInv, TypeOK
<1>2. call'[c] = q /\ \A d \in Calls : d # c => call'[d] = call[d]
  BY <1>1
<1>3. \A d \in Calls, t \in Tabs :
        /\ call'[d].tab = t /\ Waiting(d)' <=> call[d].tab = t /\ Waiting(d)
        /\ call'[d].tab = t /\ call'[d].pc = "queued" =>
             call[d].tab = t /\ call[d].pc = "queued"
  <2> SUFFICES ASSUME NEW d \in Calls, NEW t \in Tabs
               PROVE  /\ call'[d].tab = t /\ Waiting(d)' <=>
                           call[d].tab = t /\ Waiting(d)
                      /\ call'[d].tab = t /\ call'[d].pc = "queued" =>
                           call[d].tab = t /\ call[d].pc = "queued"
    OBVIOUS
  <2>1. CASE d # c
    BY <1>2, <2>1 DEF Waiting
  <2>2. CASE d = c
    <3>1. t # None
      BY NoTabAssumption
    <3> QED
      BY <1>2, <2>2, <3>1 DEF Waiting
  <2> QED
    BY <2>1, <2>2
<1>4. \A d \in Calls : call'[d].pc \in {"sent", "queued", "loggedOut"} =>
        call'[d].kind # "signin"
  BY <1>2 DEF FrontendInv, SignInsAreNotRefreshed
<1> QED
  BY <1>3, <1>4, QuietStep

-----------------------------------------------------------------------------
(* The actions *)

(* The fifteen minutes of an access token are over.                        *)
LEMMA AccessExpiresInv ==
  ASSUME FrontendInv, NEW n \in Tokens, AccessExpires(n)
  PROVE  FrontendInv'
<1>1. TypeOK'
  BY DEF AccessExpires, FrontendInv, TypeOK, chainVars
<1> QED
  BY <1>1, QuietStep
     DEF AccessExpires, FrontendInv, Waiting, SignInsAreNotRefreshed

(* A session is ended from elsewhere.                                      *)
LEMMA SessionEndsInv ==
  ASSUME FrontendInv, NEW s \in Sessions, SessionEnds(s)
  PROVE  FrontendInv'
<1>1. TypeOK'
  BY DEF SessionEnds, Server!Close, Server!Phases, FrontendInv, TypeOK
<1> QED
  BY <1>1, QuietStep
     DEF SessionEnds, FrontendInv, Waiting, SignInsAreNotRefreshed

(* A document is loaded: its tab starts without calls.                     *)
LEMMA LoadInv ==
  ASSUME FrontendInv, NEW t \in Tabs, NEW shows \in {"outside", "app"},
         Load(t, shows), storage' \in {storage, SignedOut},
         UNCHANGED <<chainVars, issuedTo, expired, lost>>
  PROVE  FrontendInv'
<1>1. call \in [Calls -> Call]
  BY DEF FrontendInv, TypeOK
<1>2. \A d \in Calls :
        call'[d] = IF call[d].tab = t THEN Orphan(call[d]) ELSE call[d]
  BY DEF Load
<1>3. call' \in [Calls -> Call]
  BY <1>1, OrphanType DEF Load
<1>4. storage' \in Storage /\ storage'.access = storage'.refresh
  BY DEF FrontendInv, TypeOK, SignedOut, Storage, MaybeToken
<1>5. TypeOK'
  BY <1>3, <1>4 DEF Load, FrontendInv, TypeOK, chainVars
<1>6. \A d \in Calls :
        \/ call'[d] = call[d] /\ (call[d].tab = t =>
                                    ~Waiting(d) /\ call[d].pc # "queued")
        \/ /\ call[d].tab = t
           /\ call'[d].tab \in {t, None}
           /\ call'[d].tab = t => ~Waiting(d)' /\ call'[d].pc # "queued"
           /\ call'[d].pc \in {"sent", "queued", "loggedOut"} =>
                call'[d].kind # "signin"
  <2> TAKE d \in Calls
  <2>1. CASE call[d].tab = t
    BY <1>1, <1>2, <2>1, OrphanType, NoTabAssumption
  <2>2. CASE call[d].tab # t
    BY <1>2, <2>2
  <2> QED
    BY <2>1, <2>2
<1>7. Leaves(t)
  BY <1>6 DEF Leaves
<1> QED
  BY <1>5, <1>7, ClearingStep DEF Load

(* A reload, or another address.                                           *)
LEMMA VisitInv ==
  ASSUME FrontendInv, NEW t \in Tabs, NEW shows \in {"outside", "app"},
         Visit(t, shows)
  PROVE  FrontendInv'
BY LoadInv DEF Visit

(* A forbidden page call.                                                  *)
LEMMA ForbiddenInv ==
  ASSUME FrontendInv, NEW c \in Calls, Forbidden(c)
  PROVE  FrontendInv'
<1>1. call[c].tab \in Tabs
  BY DEF FrontendInv, TypeOK, Call, Forbidden
<1> QED
  BY <1>1, LoadInv DEF Forbidden

(* A role is selected.                                                     *)
LEMMA SelectRoleInv ==
  ASSUME FrontendInv, NEW c \in Calls, NEW t \in Tabs, NEW s \in Sessions,
         SelectRole(c, t, s)
  PROVE  FrontendInv'
<1> DEFINE q == NewCall("issuing", t, "signin", None, None, s)
<1>1. q \in Call /\ q.pc = "issuing" /\ q.tab = t /\ q.kind = "signin"
  <2>1. "issuing" \in Stage /\ "signin" \in Kind /\ None \in MaybeToken
    BY DEF Stage, Kind, MaybeToken
  <2>2. t \in Tabs \cup {None} /\ s \in Sessions \cup {None}
    OBVIOUS
  <2> QED
    BY <2>1, <2>2, NewCallType
<1> HIDE DEF q
<1>2. call' = [call EXCEPT ![c] = q] /\ refreshing' = refreshing
  BY DEF SelectRole, q
<1>3. TypeOK'
  BY <1>1, <1>2 DEF SelectRole, Server!Open, Server!Phases, FrontendInv, TypeOK
<1>4. ~Waiting(c)
  BY IdleType DEF SelectRole, Waiting, ForTokens
<1> QED
  BY <1>1, <1>2, <1>3, <1>4, OneCallStep

(* A call is made.                                                         *)
LEMMA SendInv ==
  ASSUME FrontendInv, NEW c \in Calls, NEW t \in Tabs, NEW kind \in Kind,
         Send(c, t, kind)
  PROVE  FrontendInv'
<1> DEFINE named == IF kind = "logout" THEN storage.refresh ELSE None
           q == NewCall("sent", t, kind, storage.access, named, None)
<1>1. storage.access \in MaybeToken /\ named \in MaybeToken
  BY DEF FrontendInv, TypeOK, Storage, MaybeToken
<1> HIDE DEF named
<1>2. q \in Call /\ q.pc = "sent" /\ q.tab = t /\ q.kind = kind
  BY <1>1, NewCallType DEF Stage
<1> HIDE DEF q
<1>3. call' = [call EXCEPT ![c] = q] /\ refreshing' = refreshing
  BY DEF Send, q, named
<1>4. TypeOK'
  BY <1>2, <1>3 DEF Send, FrontendInv, TypeOK, chainVars
<1>5. ~Waiting(c) /\ kind # "signin"
  BY IdleType DEF Send, Waiting, ForTokens
<1> QED
  BY <1>2, <1>3, <1>4, <1>5, OneCallStep DEF ForTokens

(* The backend reads the row.                                              *)
LEMMA ReadInv ==
  ASSUME FrontendInv, NEW c \in Calls, Read(c)
  PROVE  FrontendInv'
<1>1. call \in [Calls -> Call] /\ call[c] \in Call
  BY DEF FrontendInv, TypeOK
<1>2. PICK q : /\ q \in Call /\ q.pc \in ForTokens
               /\ q.tab = call[c].tab /\ q.kind = call[c].kind
               /\ call' = [call EXCEPT ![c] = q]
  <2>1. CASE OtherOrigin
    <3>1. Undefined \in MaybeToken
      BY DEF MaybeToken
    <3> QED
      BY <1>1, <2>1, <3>1, AnsweredType DEF Read, ForTokens
  <2>2. CASE ~OtherOrigin /\ call[c].shown \in used
               /\ IsHolder(issuedTo[call[c].shown], call[c].shown)
    <3>1. issuedTo[call[c].shown] \in Sessions \cup {None}
      BY <2>2 DEF FrontendInv, TypeOK
    <3> QED
      BY <1>1, <2>2, <3>1, ClaimingType DEF Read, ForTokens
  <2>3. CASE ~OtherOrigin /\ ~(call[c].shown \in used
               /\ IsHolder(issuedTo[call[c].shown], call[c].shown))
    <3>1. "refused" \in Stage
      BY DEF Stage
    <3> QED
      BY <1>1, <2>3, <3>1, ToCall DEF Read, ForTokens
  <2> QED
    BY <2>1, <2>2, <2>3
<1>3. TypeOK'
  BY <1>1, <1>2 DEF Read, FrontendInv, TypeOK, chainVars
<1>4. call[c].pc \in ForTokens /\ refreshing' = refreshing
  BY DEF Read, ForTokens
<1> QED
  BY <1>2, <1>3, <1>4, OneCallStep DEF ForTokens

(* The backend consumes the row, or ends the sessions of the role.         *)
LEMMA ClaimInv ==
  ASSUME FrontendInv, NEW c \in Calls, Claim(c)
  PROVE  FrontendInv'
<1>1. call \in [Calls -> Call] /\ call[c] \in Call
  BY DEF FrontendInv, TypeOK
<1>2. PICK q : /\ q \in Call /\ q.pc \in ForTokens
               /\ q.tab = call[c].tab /\ q.kind = call[c].kind
               /\ call' = [call EXCEPT ![c] = q]
  BY <1>1, ToCall DEF Claim, ForTokens, Stage
<1>3. phase' \in [Sessions -> Server!Phases]
        /\ holder' \in [Sessions -> Tokens \cup {None}] /\ used' = used
  BY DEF Claim, Server!Consume, Server!Close, Server!Phases, FrontendInv,
         TypeOK
<1>4. TypeOK'
  BY <1>1, <1>2, <1>3 DEF Claim, FrontendInv, TypeOK
<1>5. call[c].pc \in ForTokens /\ refreshing' = refreshing
  BY DEF Claim, ForTokens
<1> QED
  BY <1>2, <1>4, <1>5, OneCallStep DEF ForTokens

(* The backend issues the next tokens of a session.                        *)
LEMMA IssueTokensInv ==
  ASSUME FrontendInv, NEW c \in Calls, IssueTokens(c)
  PROVE  FrontendInv'
<1> DEFINE next == Cardinality(used) + 1
           q == Answered(call[c], next)
<1>1. call \in [Calls -> Call] /\ call[c] \in Call
  BY DEF FrontendInv, TypeOK
<1>2. next \in Tokens /\ next \in MaybeToken
  BY DEF IssueTokens, MaybeToken
<1>3. /\ Server!Issue(call[c].session, next)
      /\ issuedTo' = [issuedTo EXCEPT ![next] = call[c].session]
      /\ call' = [call EXCEPT ![c] = q]
      /\ call[c].pc = "issuing" /\ refreshing' = refreshing
      /\ UNCHANGED <<expired, storage, page, refreshing, lost>>
  BY DEF IssueTokens
<1> HIDE DEF next
<1>4. q \in Call /\ q.pc = "answered" /\ q.tab = call[c].tab
        /\ q.kind = call[c].kind
  BY <1>1, <1>2, AnsweredType
<1> HIDE DEF q
<1>5. call[c].session \in Sessions \cup {None}
  BY <1>1 DEF Call
<1>6. /\ phase' \in [Sessions -> Server!Phases]
      /\ holder' \in [Sessions -> Tokens \cup {None}]
      /\ used' = used \cup {next}
  BY <1>2, <1>3 DEF Server!Issue, Server!Phases, FrontendInv, TypeOK
<1>7. issuedTo' \in [Tokens -> Sessions \cup {None}]
  BY <1>2, <1>3, <1>5 DEF FrontendInv, TypeOK
<1>8. TypeOK'
  BY <1>1, <1>2, <1>3, <1>4, <1>6, <1>7 DEF FrontendInv, TypeOK
<1> QED
  BY <1>3, <1>4, <1>8, OneCallStep DEF ForTokens

(* The backend fails.                                                      *)
LEMMA BackendFailsInv ==
  ASSUME FrontendInv, NEW c \in Calls, BackendFails(c)
  PROVE  FrontendInv'
<1> DEFINE q == To(call[c], "refused")
<1>1. call \in [Calls -> Call] /\ call[c] \in Call
  BY DEF FrontendInv, TypeOK
<1>2. q \in Call /\ q.pc = "refused" /\ q.tab = call[c].tab
        /\ q.kind = call[c].kind
  BY <1>1, ToCall DEF Stage
<1>3. /\ call' = [call EXCEPT ![c] = q] /\ refreshing' = refreshing
      /\ call[c].pc \in ForTokens
  BY DEF BackendFails, ForTokens
<1> HIDE DEF q
<1>4. TypeOK'
  BY <1>1, <1>2, <1>3
     DEF BackendFails, Server!Close, Server!Phases, FrontendInv, TypeOK
<1> QED
  BY <1>2, <1>3, <1>4, OneCallStep DEF ForTokens

(* An answer is lost.                                                      *)
LEMMA AnswerLostInv ==
  ASSUME FrontendInv, NEW c \in Calls, AnswerLost(c)
  PROVE  FrontendInv'
<1> DEFINE q == To(call[c], "refused")
<1>1. call \in [Calls -> Call] /\ call[c] \in Call
  BY DEF FrontendInv, TypeOK
<1>2. q \in Call /\ q.pc = "refused" /\ q.tab = call[c].tab
        /\ q.kind = call[c].kind
  BY <1>1, ToCall DEF Stage
<1>3. /\ call' = [call EXCEPT ![c] = q] /\ refreshing' = refreshing
      /\ call[c].pc \in ForTokens
  BY DEF AnswerLost, ForTokens
<1> HIDE DEF q
<1>4. TypeOK'
  BY <1>1, <1>2, <1>3 DEF AnswerLost, chainVars, FrontendInv, TypeOK
<1> QED
  BY <1>2, <1>3, <1>4, OneCallStep DEF ForTokens

(* The backend serves a logout.                                            *)
LEMMA ServeLogoutInv ==
  ASSUME FrontendInv, NEW c \in Calls, ServeLogout(c)
  PROVE  FrontendInv'
<1> DEFINE q == To(call[c], "loggedOut")
<1>1. call \in [Calls -> Call] /\ call[c] \in Call
  BY DEF FrontendInv, TypeOK
<1>2. q \in Call /\ q.pc = "loggedOut" /\ q.kind = call[c].kind
  BY <1>1, ToCall DEF Stage
<1>3. /\ call' = [call EXCEPT ![c] = q] /\ refreshing' = refreshing
      /\ call[c].pc = "sent" /\ call[c].kind = "logout"
  BY DEF ServeLogout
<1> HIDE DEF q
<1>4. TypeOK'
  BY <1>1, <1>2, <1>3
     DEF ServeLogout, Server!Close, Server!Phases, FrontendInv, TypeOK
<1> QED
  BY <1>2, <1>3, <1>4, OneCallStep DEF Waiting, ForTokens

(* A call settles.                                                         *)
LEMMA SettleInv ==
  ASSUME FrontendInv, NEW c \in Calls, Settle(c)
  PROVE  FrontendInv'
<1> DEFINE q == Rejected(call[c])
<1>1. call \in [Calls -> Call] /\ call[c] \in Call
  BY DEF FrontendInv, TypeOK
<1>2. /\ q \in Call /\ q.pc \in {"idle", "loggedOut"}
      /\ q.pc = "loggedOut" => q.kind # "signin"
  BY <1>1, RejectedType
<1>3. /\ call' = [call EXCEPT ![c] = q] /\ refreshing' = refreshing
      /\ call[c].pc = "sent"
  BY DEF Settle
<1> HIDE DEF q
<1>4. TypeOK'
  BY <1>1, <1>2, <1>3 DEF Settle, chainVars, FrontendInv, TypeOK
<1> QED
  BY <1>2, <1>3, <1>4, OneCallStep DEF Waiting, ForTokens

(* A call ends that refreshed for no tab.                                  *)
LEMMA CallEndsInv ==
  ASSUME FrontendInv, NEW c \in Calls,
         RoleSelected(c) \/ RoleRefused(c) \/ Logout(c) \/ Unheard(c)
  PROVE  FrontendInv'
<1>1. call \in [Calls -> Call] /\ call[c] \in Call
  BY DEF FrontendInv, TypeOK
<1>2. call' = [call EXCEPT ![c] = Idle] /\ refreshing' = refreshing
  BY DEF RoleSelected, RoleRefused, Logout, Unheard
<1>3. ~Waiting(c) \/ call[c].tab = None
  BY DEF RoleSelected, RoleRefused, Logout, Unheard, Waiting, ForTokens
<1>4. storage' \in Storage /\ storage'.access = storage'.refresh
  BY <1>1 DEF RoleSelected, RoleRefused, Logout, Unheard, FrontendInv, TypeOK,
              SignedOut, Storage, MaybeToken, Call
<1>5. page' \in [Tabs -> {"outside", "app"}]
  BY DEF RoleSelected, RoleRefused, Logout, Unheard, FrontendInv, TypeOK
<1>6. lost' \subseteq Tokens
  BY DEF RoleSelected, RoleRefused, Logout, Unheard, FrontendInv, TypeOK
<1>7. UNCHANGED <<phase, holder, used, issuedTo, expired>>
  BY DEF RoleSelected, RoleRefused, Logout, Unheard, chainVars
<1>8. TypeOK'
  BY <1>1, <1>2, <1>4, <1>5, <1>6, <1>7, IdleType DEF FrontendInv, TypeOK
<1> QED
  BY <1>2, <1>3, <1>8, IdleType, OneCallStep DEF ForTokens

(* A call joins the queue of a tab that refreshes.                         *)
LEMMA EnqueueInv ==
  ASSUME FrontendInv, NEW c \in Calls, Enqueue(c)
  PROVE  FrontendInv'
<1> DEFINE q == To(call[c], "queued")
<1>1. call \in [Calls -> Call] /\ call[c] \in Call
  BY DEF FrontendInv, TypeOK
<1>2. q \in Call /\ q.pc = "queued" /\ q.tab = call[c].tab
        /\ q.kind = call[c].kind
  BY <1>1, ToCall DEF Stage
<1>3. /\ call' = [call EXCEPT ![c] = q] /\ refreshing' = refreshing
      /\ call[c].pc = "sent" /\ refreshing[call[c].tab]
  BY DEF Enqueue, Unauthorized
<1> HIDE DEF q
<1>4. TypeOK'
  BY <1>1, <1>2, <1>3 DEF Enqueue, chainVars, FrontendInv, TypeOK
<1>5. call'[c] = q /\ \A d \in Calls : d # c => call'[d] = call[d]
  BY <1>1, <1>3
<1>6. \A d \in Calls : /\ Waiting(d)' <=> Waiting(d)
                       /\ call'[d].tab = call[d].tab
  BY <1>2, <1>3, <1>5 DEF Waiting, ForTokens
<1>7. QueueHasLeader'
  <2> SUFFICES ASSUME NEW t \in Tabs
               PROVE  LET leaders == {d \in Calls : call'[d].tab = t
                                                       /\ Waiting(d)'}
                      IN  /\ refreshing'[t] <=> leaders # {}
                          /\ \A d, e \in leaders : d = e
                          /\ {d \in Calls : call'[d].tab = t
                                 /\ call'[d].pc = "queued"} # {}
                                => refreshing'[t]
    BY DEF QueueHasLeader, QueueOf
  <2>1. CASE t = call[c].tab
    BY <1>3, <1>6, <2>1 DEF FrontendInv, QueueHasLeader
  <2>2. CASE t # call[c].tab
    BY <1>2, <1>3, <1>5, <1>6, <2>2 DEF FrontendInv, QueueHasLeader, QueueOf
  <2> QED
    BY <2>1, <2>2
<1>8. SignInsAreNotRefreshed'
  BY <1>2, <1>3, <1>5 DEF FrontendInv, SignInsAreNotRefreshed
<1> QED
  BY <1>4, <1>7, <1>8 DEF FrontendInv

(* A call begins to refresh, in a tab where nobody does.                   *)
LEMMA PresentInv ==
  ASSUME FrontendInv, NEW c \in Calls, PresentRefreshToken(c)
  PROVE  FrontendInv'
<1> DEFINE q == Presenting(call[c], storage.refresh)
           u == call[c].tab
<1>1. call \in [Calls -> Call] /\ call[c] \in Call
        /\ storage.refresh \in MaybeToken /\ refreshing \in [Tabs -> BOOLEAN]
  BY DEF FrontendInv, TypeOK, Storage
<1>2. q \in Call /\ q.pc = "presented" /\ q.tab = u /\ q.kind = call[c].kind
  BY <1>1, PresentingType
<1>3. /\ call' = [call EXCEPT ![c] = q]
      /\ refreshing' = [refreshing EXCEPT ![u] = TRUE]
      /\ call[c].pc = "sent" /\ ~refreshing[u] /\ u # None
  BY DEF PresentRefreshToken, Unauthorized
<1>4. u \in Tabs
  BY <1>1, <1>3 DEF Call
<1> HIDE DEF q, u
<1>5. TypeOK'
  BY <1>1, <1>2, <1>3, <1>4
     DEF PresentRefreshToken, chainVars, FrontendInv, TypeOK
<1>6. call'[c] = q /\ \A d \in Calls : d # c => call'[d] = call[d]
  BY <1>1, <1>3
<1>7. Waiting(c)'
  BY <1>2, <1>3, <1>6
     DEF Waiting, ForTokens, FrontendInv, SignInsAreNotRefreshed
<1>8. QueueHasLeader'
  <2> SUFFICES ASSUME NEW t \in Tabs
               PROVE  LET leaders == {d \in Calls : call'[d].tab = t
                                                       /\ Waiting(d)'}
                      IN  /\ refreshing'[t] <=> leaders # {}
                          /\ \A d, e \in leaders : d = e
                          /\ {d \in Calls : call'[d].tab = t
                                 /\ call'[d].pc = "queued"} # {}
                                => refreshing'[t]
    BY DEF QueueHasLeader, QueueOf
  <2>1. CASE t = u
    <3>1. refreshing'[t] <=> TRUE
      BY <1>1, <1>3, <1>4, <2>1
    <3>2. \A d \in Calls : call[d].tab = t => ~Waiting(d)
      BY <1>3, <2>1 DEF FrontendInv, QueueHasLeader
    <3>3. \A d \in Calls : call'[d].tab = t /\ Waiting(d)' => d = c
      BY <1>6, <3>2 DEF Waiting
    <3> QED
      BY <1>2, <1>6, <1>7, <2>1, <3>1, <3>3
  <2>2. CASE t # u
    <3>1. refreshing'[t] <=> refreshing[t]
      BY <1>1, <1>3, <2>2
    <3>2. call[c].tab # t
      BY <2>2 DEF u
    <3>3. \A d \in Calls :
            /\ call'[d].tab = t /\ Waiting(d)' <=> call[d].tab = t /\ Waiting(d)
            /\ call'[d].tab = t /\ call'[d].pc = "queued" =>
                 call[d].tab = t /\ call[d].pc = "queued"
      BY <1>2, <1>6, <2>2, <3>2 DEF Waiting
    <3> QED
      BY <3>1, <3>3 DEF FrontendInv, QueueHasLeader, QueueOf
  <2> QED
    BY <2>1, <2>2
<1>9. SignInsAreNotRefreshed'
  BY <1>2, <1>6 DEF FrontendInv, SignInsAreNotRefreshed
<1> QED
  BY <1>5, <1>8, <1>9 DEF FrontendInv

(* The refresh of a tab failed: its queue and its document, or its queue   *)
(* alone, are done with.                                                   *)
LEMMA RefreshFailedInv ==
  ASSUME FrontendInv, NEW c \in Calls, RefreshFailed(c),
         call[c].tab \in Tabs,
         \A d \in Calls : d # c /\ call[d].tab = call[c].tab => ~Waiting(d)
  PROVE  FrontendInv'
<1> DEFINE t == call[c].tab
<1>1. call \in [Calls -> Call] /\ refreshing \in [Tabs -> BOOLEAN]
  BY DEF FrontendInv, TypeOK
<1>2. CASE call[c].kind = "admin"
  <2>1. /\ call' = [d \in Calls |-> IF d = c \/ d \in RejectedWith(t)
                                     THEN Rejected(call[d]) ELSE call[d]]
        /\ refreshing' = [refreshing EXCEPT ![t] = FALSE]
        /\ UNCHANGED <<phase, holder, used, issuedTo, expired, storage, page,
                       lost>>
    BY <1>2 DEF RefreshFailed, chainVars
  <2>2. \A d \in Calls : Rejected(call[d]) \in Call
    BY <1>1, RejectedType
  <2>3. call' \in [Calls -> Call]
    BY <1>1, <2>1, <2>2
  <2>4. refreshing' \in [Tabs -> BOOLEAN]
    BY <1>1, <2>1
  <2>5. TypeOK'
    BY <2>1, <2>3, <2>4 DEF FrontendInv, TypeOK
  <2>6. \A d \in Calls :
          \/ call'[d] = call[d] /\ (call[d].tab = t =>
                                      ~Waiting(d) /\ call[d].pc # "queued")
          \/ /\ call[d].tab = t
             /\ call'[d].tab \in {t, None}
             /\ call'[d].tab = t => ~Waiting(d)' /\ call'[d].pc # "queued"
             /\ call'[d].pc \in {"sent", "queued", "loggedOut"} =>
                  call'[d].kind # "signin"
    <3> TAKE d \in Calls
    <3>1. CASE d = c \/ d \in RejectedWith(t)
      <4>1. call'[d] = Rejected(call[d]) /\ call[d].tab = t
        BY <2>1, <3>1 DEF RejectedWith, QueueOf
      <4>2. /\ call'[d].pc \in {"idle", "loggedOut"}
            /\ call'[d].pc = "loggedOut" => call'[d].kind # "signin"
            /\ call'[d].tab \in {t, None}
        BY <1>1, <4>1, RejectedType
      <4> QED
        BY <4>1, <4>2 DEF Waiting, ForTokens
    <3>2. CASE ~(d = c \/ d \in RejectedWith(t))
      BY <2>1, <3>2 DEF RejectedWith, QueueOf
    <3> QED
      BY <3>1, <3>2
  <2>7. Leaves(t)
    BY <2>6 DEF Leaves
  <2> HIDE DEF t
  <2>8. t \in Tabs
    BY DEF t
  <2> QED
    BY <2>1, <2>5, <2>7, <2>8, ClearingStep
<1>3. CASE call[c].kind # "admin"
  BY <1>3, LoadInv DEF RefreshFailed
<1> QED
  BY <1>2, <1>3

(* Failures with and without a refresh token to present.                   *)
LEMMA FailuresInv ==
  ASSUME FrontendInv, NEW c \in Calls, NoRefreshToken(c) \/ RefreshRefused(c)
  PROVE  FrontendInv'
<1>1. call[c] \in Call
  BY DEF FrontendInv, TypeOK
<1>2. RefreshFailed(c) /\ call[c].tab # None
  BY DEF NoRefreshToken, RefreshRefused, Unauthorized
<1>3. call[c].tab \in Tabs
  BY <1>1, <1>2 DEF Call
<1>4. CASE NoRefreshToken(c)
  <2>1. ~refreshing[call[c].tab]
    BY <1>4 DEF NoRefreshToken
  <2>2. \A d \in Calls : call[d].tab = call[c].tab => ~Waiting(d)
    BY <1>3, <2>1 DEF FrontendInv, QueueHasLeader
  <2> QED
    BY <1>2, <1>3, <2>2, RefreshFailedInv
<1>5. CASE RefreshRefused(c)
  <2>1. Waiting(c)
    BY <1>5 DEF RefreshRefused, Waiting, ForTokens
  <2>2. \A d \in Calls : d # c /\ call[d].tab = call[c].tab => ~Waiting(d)
    BY <1>3, <2>1 DEF FrontendInv, QueueHasLeader
  <2> QED
    BY <1>2, <1>3, <2>2, RefreshFailedInv
<1> QED
  BY <1>4, <1>5

(* The refresh of a tab is done: its calls are sent again.                 *)
LEMMA RefreshDoneInv ==
  ASSUME FrontendInv, NEW c \in Calls, RefreshDone(c)
  PROVE  FrontendInv'
<1> DEFINE t == call[c].tab
           token == call[c].shown
<1>1. /\ call \in [Calls -> Call] /\ call[c] \in Call
      /\ refreshing \in [Tabs -> BOOLEAN]
  BY DEF FrontendInv, TypeOK
<1>2. t \in Tabs /\ token \in MaybeToken
  BY <1>1 DEF RefreshDone, Call
<1>3. /\ call' = [d \in Calls |-> IF d = c \/ d \in QueueOf(t)
                                   THEN Resent(call[d], token) ELSE call[d]]
      /\ refreshing' = [refreshing EXCEPT ![t] = FALSE]
      /\ storage' = [access |-> token, refresh |-> token]
      /\ UNCHANGED <<phase, holder, used, issuedTo, expired, page, lost>>
  BY DEF RefreshDone, Stored, chainVars
<1>4. Waiting(c) /\ call[c].kind # "signin"
  BY DEF RefreshDone, Waiting, ForTokens
<1>5. \A d \in Calls : d # c /\ call[d].tab = t => ~Waiting(d)
  BY <1>2, <1>4 DEF FrontendInv, QueueHasLeader
<1> HIDE DEF token
<1>6. \A d \in Calls : Resent(call[d], token) \in Call
  BY <1>1, <1>2, ResentType
<1>7. TypeOK'
  <2>1. call' \in [Calls -> Call]
    BY <1>1, <1>3, <1>6
  <2>2. refreshing' \in [Tabs -> BOOLEAN]
    BY <1>1, <1>3
  <2>3. storage' \in Storage /\ storage'.access = storage'.refresh
    BY <1>2, <1>3 DEF Storage
  <2> QED
    BY <1>3, <2>1, <2>2, <2>3 DEF FrontendInv, TypeOK
<1>8. \A d \in Calls :
        \/ call'[d] = call[d] /\ (call[d].tab = t =>
                                    ~Waiting(d) /\ call[d].pc # "queued")
        \/ /\ call[d].tab = t
           /\ call'[d].tab \in {t, None}
           /\ call'[d].tab = t => ~Waiting(d)' /\ call'[d].pc # "queued"
           /\ call'[d].pc \in {"sent", "queued", "loggedOut"} =>
                call'[d].kind # "signin"
  <2> TAKE d \in Calls
  <2>1. CASE d = c \/ d \in QueueOf(t)
    <3>1. call'[d] = Resent(call[d], token) /\ call[d].tab = t
            /\ call[d].kind # "signin"
      BY <1>3, <1>4, <2>1 DEF QueueOf, FrontendInv, SignInsAreNotRefreshed
    <3>2. call'[d].pc = "sent" /\ call'[d].tab = t
            /\ call'[d].kind # "signin"
      BY <1>1, <1>2, <3>1, ResentType
    <3> QED
      BY <3>1, <3>2 DEF Waiting, ForTokens
  <2>2. CASE ~(d = c \/ d \in QueueOf(t))
    BY <1>3, <1>5, <2>2 DEF QueueOf
  <2> QED
    BY <2>1, <2>2
<1>9. Leaves(t)
  BY <1>8 DEF Leaves
<1> HIDE DEF t
<1> QED
  BY <1>2, <1>3, <1>7, <1>9, ClearingStep

-----------------------------------------------------------------------------
(* Any step *)

(* One step, whichever it is, preserves FrontendInv.                       *)
LEMMA FrontendNextInv ==
  FrontendInv /\ [Next]_vars => FrontendInv'
<1> SUFFICES ASSUME FrontendInv, [Next]_vars
             PROVE  FrontendInv'
  OBVIOUS
<1>1. ASSUME NEW c \in Calls, Proceed(c)
      PROVE  FrontendInv'
  BY <1>1, ReadInv, ClaimInv, IssueTokensInv, BackendFailsInv, AnswerLostInv,
     ServeLogoutInv, SettleInv, ForbiddenInv, EnqueueInv, PresentInv,
     FailuresInv, RefreshDoneInv, CallEndsInv DEF Proceed
<1>2. ASSUME NEW t \in Tabs, NEW shows \in {"outside", "app"},
             Visit(t, shows)
      PROVE  FrontendInv'
  BY <1>2, VisitInv
<1>3. ASSUME NEW c \in Calls, NEW t \in Tabs, NEW s \in Sessions,
             SelectRole(c, t, s)
      PROVE  FrontendInv'
  BY <1>3, SelectRoleInv
<1>4. ASSUME NEW c \in Calls, NEW t \in Tabs, NEW kind \in Kind,
             Send(c, t, kind)
      PROVE  FrontendInv'
  BY <1>4, SendInv
<1>5. ASSUME NEW n \in Tokens, AccessExpires(n)
      PROVE  FrontendInv'
  BY <1>5, AccessExpiresInv
<1>6. ASSUME NEW s \in Sessions, SessionEnds(s)
      PROVE  FrontendInv'
  BY <1>6, SessionEndsInv
<1>7. CASE UNCHANGED vars
  <2>1. TypeOK'
    BY <1>7 DEF vars, FrontendInv, TypeOK
  <2> QED
    BY <1>7, <2>1, QuietStep
       DEF vars, FrontendInv, Waiting, SignInsAreNotRefreshed
<1> QED
  BY <1>1, <1>2, <1>3, <1>4, <1>5, <1>6, <1>7 DEF Next

(* At first nobody calls.                                                  *)
LEMMA FrontendInitInv == Init => FrontendInv
<1> SUFFICES ASSUME Init
             PROVE  FrontendInv
  OBVIOUS
<1>1. TypeOK
  BY IdleType
     DEF Init, Server!Init, Server!Phases, TypeOK, SignedOut, Storage,
         MaybeToken
<1>2. \A c \in Calls : call[c].pc = "idle"
  BY IdleType DEF Init
<1>3. QueueHasLeader
  BY <1>2 DEF Init, QueueHasLeader, QueueOf, Waiting, ForTokens
<1> QED
  BY <1>1, <1>2, <1>3 DEF FrontendInv, SignInsAreNotRefreshed

-----------------------------------------------------------------------------
(* Theorems *)

(* Every reachable state of the browser satisfies the inductive invariant. *)
THEOREM FrontendInvariance == Spec => []FrontendInv
BY FrontendInitInv, FrontendNextInv, PTL DEF Spec

(* Storage, tabs and calls keep their shape, and localStorage never holds  *)
(* half of a pair.                                                         *)
THEOREM FrontendTypeCorrect == Spec => []TypeOK
<1>1. FrontendInv => TypeOK
  BY DEF FrontendInv
<1> QED
  BY <1>1, FrontendInvariance, PTL

(* In every tab isRefreshing is set exactly while one call refreshes, and  *)
(* a queue always has somebody who will process it.                        *)
THEOREM OneRefreshPerTab == Spec => []QueueHasLeader
<1>1. FrontendInv => QueueHasLeader
  BY DEF FrontendInv
<1> QED
  BY <1>1, FrontendInvariance, PTL

-----------------------------------------------------------------------------
(***************************************************************************)
(* That the refresh token in localStorage keeps up with its session, for   *)
(* any numbers of tabs, calls, sessions and tokens. Three things happen to *)
(* tokens: they are presented, issued, and put in localStorage. Everything *)
(* else at most ends calls and sessions, and is one kind of step.          *)
(***************************************************************************)
-----------------------------------------------------------------------------
(* Calls, continued *)

InFlight == {"presented", "claiming", "issuing", "answered"}

\* What a call d carries in flight, it carried before.
Carries(d) ==
  call'[d].pc \in InFlight =>
    /\ call'[d].pc = call[d].pc
    /\ call'[d].shown = call[d].shown
    /\ call'[d].session = call[d].session

\* What was on its way to a tab still is, or is lost.
Arrives(d) ==
  call[d].pc = "answered" /\ call[d].shown \in used =>
    \/ call'[d].pc = "answered" /\ call'[d].shown = call[d].shown
    \/ call[d].shown \in lost'

(* What moving a call on leaves alone, and what it sets.                 *)
LEMMA CallFields ==
  ASSUME NEW q \in Call
  PROVE  /\ \A stage \in Stage : /\ To(q, stage).pc = stage
                                 /\ To(q, stage).shown = q.shown
                                 /\ To(q, stage).session = q.session
         /\ \A token \in MaybeToken : /\ Presenting(q, token).shown = token
                                      /\ Answered(q, token).shown = token
         /\ \A s \in Sessions \cup {None} :
              Claiming(q, s).shown = q.shown /\ Claiming(q, s).session = s
BY DEF To, Presenting, Answered, Claiming, Call, Stage

(* A rejected call carries nothing.                                      *)
LEMMA RejectedNotInFlight ==
  ASSUME NEW q \in Call
  PROVE  Rejected(q).pc \notin InFlight
BY RejectedType DEF InFlight

(* A document that goes leaves what was begun as it was.                 *)
LEMMA OrphanCarries ==
  ASSUME NEW q \in Call
  PROVE  /\ Orphan(q).pc \in InFlight => /\ Orphan(q).pc = q.pc
                                         /\ Orphan(q).shown = q.shown
                                         /\ Orphan(q).session = q.session
         /\ q.pc = "answered" => Orphan(q).pc = "answered" /\ Orphan(q).shown = q.shown
<1>1. CASE q.pc \in ForTokens \/ (q.pc = "sent" /\ q.kind = "logout")
  <2>1. Orphan(q) = [q EXCEPT !.tab = None]
    BY <1>1 DEF Orphan
  <2> QED
    BY <2>1 DEF Call
<1>2. CASE ~(q.pc \in ForTokens \/ (q.pc = "sent" /\ q.kind = "logout"))
  BY <1>2, IdleType DEF Orphan, InFlight, ForTokens
<1> QED
  BY <1>1, <1>2

(* Every call is a call.                                                 *)
LEMMA CallTyped ==
  ASSUME FrontendInv
  PROVE  call \in [Calls -> Call] /\ \A d \in Calls : call[d] \in Call
BY DEF FrontendInv, TypeOK

(* A step of one call is none of the others.                             *)
LEMMA OneCallChanges ==
  ASSUME FrontendInv, NEW c \in Calls, NEW q, call' = [call EXCEPT ![c] = q]
  PROVE  call'[c] = q /\ \A d \in Calls \ {c} : call'[d] = call[d] /\ Carries(d)
BY CallTyped DEF Carries

-----------------------------------------------------------------------------
(* Steps that end calls and sessions *)

\* Sessions end or are as they were.
Ends(s) ==
  \/ phase'[s] = phase[s] /\ holder'[s] = holder[s]
  \/ phase'[s] = "closed"

Fades ==
  /\ storage'.refresh \in {storage.refresh, None}
  /\ UNCHANGED <<used, issuedTo>> /\ lost \subseteq lost'
  /\ \A s \in Sessions : Ends(s)
  /\ \A d \in Calls : Carries(d) /\ Arrives(d)
  /\ \A d \in Calls : call'[d].pc = "issuing" =>
       phase'[call[d].session] = phase[call[d].session]

(* Neither null nor "undefined" is a token that was issued.              *)
LEMMA IssuedAreTokens ==
  ASSUME FrontendInv
  PROVE  /\ used \subseteq Tokens /\ Tokens \subseteq Nat
         /\ None \notin used /\ Undefined \notin used
<1>1. used \subseteq Tokens
  BY DEF FrontendInv, TypeOK
<1>2. Tokens \subseteq Nat
  BY TokensAssumption DEF Tokens
<1> QED
  BY <1>1, <1>2, TokensAssumption

(* Such a step keeps what is known of tokens.                            *)
LEMMA FadesInv ==
  ASSUME FrontendInv, TokensInv, Fades
  PROVE  TokensInv'
<1>1. OnlyIssued'
  BY DEF Fades, TokensInv, OnlyIssued, Carries, InFlight
<1>2. HolderIsNewest'
  BY DEF Fades, TokensInv, HolderIsNewest, Ends
<1>3. OneIssuer'
  BY DEF Fades, TokensInv, OneIssuer, Carries, InFlight
<1>4. FlyingTokensAreNew'
  <2> SUFFICES ASSUME NEW c \in Calls, call'[c].pc = "answered", call'[c].shown \in used'
      PROVE  LET n == call'[c].shown
                 s == issuedTo'[n] IN
             /\ storage'.refresh # n
             /\ \A d \in Calls \ {c} :
                  call'[d].pc \in {"presented", "claiming", "answered"} =>
                    call'[d].shown # n
             /\ \A m \in used' : issuedTo'[m] = s => m <= n
             /\ phase'[s] = "closed" \/ (phase'[s] = "live" /\ holder'[s] = n)
    BY DEF FlyingTokensAreNew
  <2>1. /\ call[c].pc = "answered" /\ call[c].shown = call'[c].shown
        /\ call[c].shown \in used
    BY DEF Fades, Carries, InFlight
  <2>2. storage'.refresh # call'[c].shown
    BY <2>1, IssuedAreTokens DEF Fades, TokensInv, FlyingTokensAreNew
  <2>3. \A d \in Calls \ {c} :
          call'[d].pc \in {"presented", "claiming", "answered"} =>
            call'[d].shown # call'[c].shown
    BY <2>1 DEF Fades, Carries, InFlight, TokensInv, FlyingTokensAreNew
  <2>4. \A m \in used' : issuedTo'[m] = issuedTo'[call'[c].shown] => m <= call'[c].shown
    BY <2>1 DEF Fades, TokensInv, FlyingTokensAreNew
  <2>5. issuedTo[call[c].shown] \in Sessions
    BY <2>1 DEF TokensInv, HolderIsNewest
  <2>6. LET s == issuedTo'[call'[c].shown] IN
        phase'[s] = "closed" \/ (phase'[s] = "live" /\ holder'[s] = call'[c].shown)
    BY <2>1, <2>5 DEF Fades, Ends, TokensInv, FlyingTokensAreNew
  <2> QED
    BY <2>2, <2>3, <2>4, <2>6
<1>5. StoredTokenIsHolder'
  <2> SUFFICES ASSUME storage'.refresh \in used',
                      phase'[issuedTo'[storage'.refresh]] = "live"
      PROVE  LET s == issuedTo'[storage'.refresh] IN
             \/ holder'[s] = storage'.refresh
             \/ holder'[s] \in lost'
             \/ \E c \in Calls : call'[c].pc = "answered" /\ call'[c].shown = holder'[s]
    BY DEF StoredTokenIsHolder
  <2> DEFINE s == issuedTo[storage.refresh]
  <2>1. storage'.refresh = storage.refresh /\ issuedTo'[storage'.refresh] = s
    BY IssuedAreTokens DEF Fades
  <2>2. s \in Sessions
    BY <2>1 DEF TokensInv, HolderIsNewest, Fades
  <2>3. phase[s] = "live" /\ holder'[s] = holder[s] /\ holder[s] \in used
    BY <2>1, <2>2 DEF Fades, Ends, TokensInv, HolderIsNewest
  <2>4. \/ holder[s] = storage.refresh
        \/ holder[s] \in lost
        \/ \E c \in Calls : call[c].pc = "answered" /\ call[c].shown = holder[s]
    BY <2>1, <2>3 DEF TokensInv, StoredTokenIsHolder, Fades
  <2>5. CASE \E c \in Calls : call[c].pc = "answered" /\ call[c].shown = holder[s]
    BY <2>1, <2>3, <2>5 DEF Fades, Arrives
  <2> QED
    BY <2>1, <2>3, <2>4, <2>5 DEF Fades
<1> QED
  BY <1>1, <1>2, <1>3, <1>4, <1>5 DEF TokensInv

(* A step that moves one call to where it carries nothing, and at most   *)
(* ends sessions that no call is issuing for.                            *)
LEMMA OneCallFades ==
  ASSUME FrontendInv, TokensInv, NEW c \in Calls, NEW q, q.pc \notin InFlight,
         call' = [call EXCEPT ![c] = q],
         storage'.refresh \in {storage.refresh, None},
         UNCHANGED <<used, issuedTo>>, lost \subseteq lost', Arrives(c),
         \A s \in Sessions : Ends(s),
         \A d \in Calls \ {c} : call[d].pc = "issuing" =>
           phase'[call[d].session] = phase[call[d].session]
  PROVE  TokensInv'
<1>1. call'[c] = q /\ \A d \in Calls \ {c} : call'[d] = call[d] /\ Carries(d)
  BY OneCallChanges
<1>2. \A d \in Calls : Carries(d) /\ Arrives(d)
  BY <1>1 DEF Carries, Arrives
<1>3. \A d \in Calls : call'[d].pc = "issuing" =>
        phase'[call[d].session] = phase[call[d].session]
  BY <1>1 DEF InFlight
<1> QED
  BY <1>2, <1>3, FadesInv DEF Fades

(* Closing sessions that are live ends none that a call is issuing for.  *)
LEMMA ClosingEnds ==
  ASSUME FrontendInv, TokensInv, NEW S \in SUBSET Sessions, Server!Close(S)
  PROVE  /\ \A s \in Sessions : Ends(s)
         /\ used' = used
         /\ \A s \in Sessions \ S : phase'[s] = phase[s]
BY DEF Server!Close, Ends

(* A step that does not touch the backend ends no session.               *)
LEMMA NothingEnds ==
  ASSUME UNCHANGED chainVars
  PROVE  used' = used /\ phase' = phase /\ \A s \in Sessions : Ends(s)
BY DEF chainVars, Ends

(* A document that is loaded only ends calls.                            *)
LEMMA LoadFades ==
  ASSUME FrontendInv, TokensInv, NEW t \in Tabs, NEW shows, Load(t, shows),
         storage'.refresh \in {storage.refresh, None},
         UNCHANGED <<chainVars, issuedTo, lost>>
  PROVE  TokensInv'
<1>1. \A d \in Calls : Carries(d) /\ Arrives(d)
  <2> TAKE d \in Calls
  <2>1. call'[d] \in {Orphan(call[d]), call[d]}
    BY DEF Load
  <2>2. call[d] \in Call
    BY CallTyped
  <2> QED
    BY <2>1, <2>2, OrphanCarries DEF Carries, Arrives
<1> QED
  BY <1>1, NothingEnds, FadesInv DEF Fades

(* A reload, or another address.                                         *)
LEMMA VisitTokens ==
  ASSUME FrontendInv, TokensInv, NEW t \in Tabs,
         NEW shows \in {"outside", "app"}, Visit(t, shows)
  PROVE  TokensInv'
BY LoadFades DEF Visit

(* A forbidden page call.                                                *)
LEMMA ForbiddenTokens ==
  ASSUME FrontendInv, TokensInv, NEW c \in Calls, Forbidden(c)
  PROVE  TokensInv'
<1>1. call[c].tab \in Tabs
  BY CallTyped DEF Call, Forbidden
<1> QED
  BY <1>1, LoadFades DEF Forbidden

(* A call is sent.                                                       *)
LEMMA SendTokens ==
  ASSUME FrontendInv, TokensInv, NEW c \in Calls, NEW t \in Tabs,
         NEW kind \in Kind, Send(c, t, kind)
  PROVE  TokensInv'
<1> DEFINE named == IF kind = "logout" THEN storage.refresh ELSE None
           q == NewCall("sent", t, kind, storage.access, named, None)
<1>1. q.pc = "sent"
  BY DEF NewCall
<1>2. /\ call' = [call EXCEPT ![c] = q] /\ call[c].pc = "idle"
      /\ UNCHANGED <<chainVars, issuedTo, storage, lost>>
  BY IdleType DEF Send
<1>3. Arrives(c)
  BY <1>2 DEF Arrives
<1> HIDE DEF q
<1> QED
  BY <1>1, <1>2, <1>3, NothingEnds, OneCallFades DEF InFlight

(* One call goes where it carries nothing, and nothing else happens.     *)
LEMMA QuietCall ==
  ASSUME FrontendInv, TokensInv, NEW c \in Calls, NEW q, q.pc \notin InFlight,
         call' = [call EXCEPT ![c] = q], Arrives(c),
         storage'.refresh \in {storage.refresh, None}, lost \subseteq lost',
         UNCHANGED <<chainVars, issuedTo>>
  PROVE  TokensInv'
BY NothingEnds, OneCallFades

(* A call is over, or waits in the queue.                                *)
LEMMA SettleTokens ==
  ASSUME FrontendInv, TokensInv, NEW c \in Calls,
         Settle(c) \/ Enqueue(c) \/ RoleRefused(c) \/ Logout(c)
  PROVE  TokensInv'
<1>1. call[c] \in Call /\ Arrives(c)
  BY CallTyped
     DEF Settle, Enqueue, Unauthorized, RoleRefused, Logout, Arrives
<1>2. CASE Settle(c)
  BY <1>1, <1>2, RejectedNotInFlight, QuietCall DEF Settle
<1>3. CASE Enqueue(c)
  <2>1. To(call[c], "queued").pc \notin InFlight
    BY <1>1, CallFields DEF Stage, InFlight
  <2> QED
    BY <1>1, <1>3, <2>1, QuietCall DEF Enqueue
<1>4. CASE RoleRefused(c) \/ Logout(c)
  <2>1. Idle.pc \notin InFlight /\ SignedOut.refresh = None
    BY IdleType DEF InFlight, SignedOut
  <2> QED
    BY <1>1, <1>4, <2>1, QuietCall DEF RoleRefused, Logout
<1> QED
  BY <1>2, <1>3, <1>4

(* An answer reaches nobody.                                             *)
LEMMA LossTokens ==
  ASSUME FrontendInv, TokensInv, NEW c \in Calls, AnswerLost(c) \/ Unheard(c)
  PROVE  TokensInv'
<1>1. call[c] \in Call /\ used \subseteq Tokens
  BY CallTyped, IssuedAreTokens
<1>2. /\ lost \subseteq lost'
      /\ call[c].pc = "answered" => {call[c].shown} \cap Tokens \subseteq lost'
  BY DEF AnswerLost, Unheard
<1>3. Arrives(c)
  BY <1>1, <1>2 DEF Arrives
<1>4. CASE AnswerLost(c)
  <2>1. To(call[c], "refused").pc \notin InFlight
    BY <1>1, CallFields DEF Stage, InFlight
  <2>2. call' = [call EXCEPT ![c] = To(call[c], "refused")]
    BY <1>4, CallTyped DEF AnswerLost
  <2> QED
    BY <1>2, <1>3, <1>4, <2>1, <2>2, QuietCall DEF AnswerLost
<1>5. CASE Unheard(c)
  BY <1>2, <1>3, <1>5, IdleType, QuietCall DEF Unheard, InFlight
<1> QED
  BY <1>4, <1>5

(* There is no refresh token, or it is refused.                          *)
LEMMA FailedTokens ==
  ASSUME FrontendInv, TokensInv, NEW c \in Calls,
         NoRefreshToken(c) \/ RefreshRefused(c)
  PROVE  TokensInv'
<1>1. /\ RefreshFailed(c) /\ call[c].tab \in Tabs
      /\ call[c].pc \in {"sent", "refused"}
  BY CallTyped DEF Call, NoRefreshToken, RefreshRefused, Unauthorized
<1>2. CASE call[c].kind = "admin"
  <2>1. \A d \in Calls : Carries(d) /\ Arrives(d)
    <3> TAKE d \in Calls
    <3>1. \/ call'[d] = call[d]
          \/ call'[d] = Rejected(call[d]) /\ call[d].pc # "answered"
      BY <1>1, <1>2 DEF RefreshFailed, RejectedWith, QueueOf
    <3>2. Rejected(call[d]).pc \notin InFlight
      BY CallTyped, RejectedNotInFlight
    <3> QED
      BY <3>1, <3>2 DEF Carries, Arrives
  <2> QED
    BY <1>1, <1>2, <2>1, NothingEnds, FadesInv DEF RefreshFailed, Fades
<1>3. CASE call[c].kind # "admin"
  <2>1. SignedOut.refresh = None
    BY DEF SignedOut
  <2> QED
    BY <1>1, <1>3, <2>1, LoadFades DEF RefreshFailed
<1> QED
  BY <1>2, <1>3

(* The backend serves a logout.                                          *)
LEMMA LogoutServedTokens ==
  ASSUME FrontendInv, TokensInv, NEW c \in Calls, ServeLogout(c)
  PROVE  TokensInv'
<1> DEFINE S == {s \in Sessions : IsHolder(s, call[c].body)}
           q == To(call[c], "loggedOut")
<1>1. /\ Server!Close(S) /\ call' = [call EXCEPT ![c] = q]
      /\ call[c].pc = "sent" /\ UNCHANGED <<issuedTo, storage, lost>>
  BY DEF ServeLogout
<1>2. q.pc \notin InFlight /\ Arrives(c)
  BY <1>1, CallTyped, CallFields DEF Stage, InFlight, Arrives
<1>3. \A s \in S : phase[s] = "live"
  BY DEF IsHolder
<1> HIDE DEF S, q
<1>4. S \in SUBSET Sessions
  BY DEF S
<1>5. \A d \in Calls : call[d].pc = "issuing" =>
        phase'[call[d].session] = phase[call[d].session]
  BY <1>1, <1>3, <1>4, ClosingEnds DEF TokensInv, OneIssuer
<1> QED
  BY <1>1, <1>2, <1>4, <1>5, ClosingEnds, OneCallFades

(* A session ends without the browser.                                   *)
LEMMA SessionEndsTokens ==
  ASSUME FrontendInv, TokensInv, NEW s \in Sessions, SessionEnds(s)
  PROVE  TokensInv'
<1>1. /\ Server!Close({s}) /\ phase[s] = "live" /\ call' = call
      /\ UNCHANGED <<issuedTo, storage, lost>>
  BY DEF SessionEnds
<1>2. \A d \in Calls : Carries(d) /\ Arrives(d)
  BY <1>1 DEF Carries, Arrives
<1>3. \A d \in Calls : call'[d].pc = "issuing" =>
        phase'[call[d].session] = phase[call[d].session]
  BY <1>1, ClosingEnds DEF TokensInv, OneIssuer
<1> QED
  BY <1>1, <1>2, <1>3, ClosingEnds, FadesInv DEF Fades

(* Nothing changes that tokens are about.                                *)
LEMMA NothingTokens ==
  ASSUME FrontendInv, TokensInv,
         UNCHANGED <<chainVars, issuedTo, storage, call, lost>>
  PROVE  TokensInv'
<1>1. \A d \in Calls : Carries(d) /\ Arrives(d)
  BY DEF Carries, Arrives
<1> QED
  BY <1>1, NothingEnds, FadesInv DEF Fades

(* The backend fails in the middle of a refresh or a login.              *)
LEMMA BackendFailsTokens ==
  ASSUME FrontendInv, TokensInv, NEW c \in Calls, BackendFails(c)
  PROVE  TokensInv'
<1> DEFINE S == IF call[c].pc = "issuing" THEN {call[c].session} ELSE {}
           q == To(call[c], "refused")
<1>1. /\ Server!Close(S) /\ call' = [call EXCEPT ![c] = q]
      /\ call[c].pc \in {"presented", "claiming", "issuing"}
      /\ UNCHANGED <<issuedTo, storage, lost>>
  BY DEF BackendFails
<1>2. q.pc \notin InFlight /\ Arrives(c)
  BY <1>1, CallTyped, CallFields DEF Stage, InFlight, Arrives
<1>3. /\ S \in SUBSET Sessions
      /\ \A d \in Calls \ {c} : call[d].pc = "issuing" =>
           call[d].session \in Sessions \ S
  BY DEF TokensInv, OneIssuer
<1> HIDE DEF S, q
<1>4. \A d \in Calls \ {c} : call[d].pc = "issuing" =>
        phase'[call[d].session] = phase[call[d].session]
  BY <1>1, <1>3, ClosingEnds
<1> QED
  BY <1>1, <1>2, <1>3, <1>4, ClosingEnds, OneCallFades

-----------------------------------------------------------------------------
(* Steps of one call that carry something *)

(* Where nothing but one call changes and it does not come to issue,     *)
(* what is known of sessions stays, if the call's token is no other      *)
(* call's.                                                               *)
LEMMA OneCallCarries ==
  ASSUME FrontendInv, TokensInv, NEW c \in Calls, NEW q,
         call' = [call EXCEPT ![c] = q], call[c].pc # "answered",
         UNCHANGED <<chainVars, issuedTo, storage, lost>>,
         q.pc \in {"presented", "claiming", "answered"},
         q.shown \in used \cup {None, Undefined},
         q.pc = "answered" => q.shown \notin used,
         q.pc = "claiming" => q.shown \in used /\ q.session = issuedTo[q.shown],
         \A d \in Calls : call[d].pc = "answered" /\ call[d].shown \in used =>
           q.shown # call[d].shown
  PROVE  TokensInv'
<1>1. call'[c] = q /\ \A d \in Calls \ {c} : call'[d] = call[d]
  BY OneCallChanges
<1>2. UNCHANGED <<phase, holder, used, issuedTo, storage, lost>>
  BY DEF chainVars
<1>3. OnlyIssued'
  BY <1>1, <1>2 DEF TokensInv, OnlyIssued
<1>4. HolderIsNewest'
  BY <1>2 DEF TokensInv, HolderIsNewest
<1>5. OneIssuer'
  BY <1>1, <1>2 DEF TokensInv, OneIssuer
<1>6. FlyingTokensAreNew'
  BY <1>1, <1>2 DEF TokensInv, FlyingTokensAreNew
<1>7. StoredTokenIsHolder'
  BY <1>1, <1>2 DEF TokensInv, StoredTokenIsHolder
<1> QED
  BY <1>3, <1>4, <1>5, <1>6, <1>7 DEF TokensInv

(* A refresh token is presented.                                         *)
LEMMA PresentTokens ==
  ASSUME FrontendInv, TokensInv, NEW c \in Calls, PresentRefreshToken(c)
  PROVE  TokensInv'
<1> DEFINE q == Presenting(call[c], storage.refresh)
<1>1. /\ call' = [call EXCEPT ![c] = q] /\ call[c].pc = "sent"
      /\ UNCHANGED <<chainVars, issuedTo, storage, lost>>
  BY DEF PresentRefreshToken, Unauthorized
<1>2. storage.refresh \in MaybeToken
  BY DEF FrontendInv, TypeOK, Storage
<1>3. q.pc = "presented" /\ q.shown = storage.refresh
  BY <1>2, CallTyped, CallFields, PresentingType
<1>4. storage.refresh \in used \cup {None, Undefined}
  BY DEF TokensInv, OnlyIssued
<1>5. \A d \in Calls : call[d].pc = "answered" /\ call[d].shown \in used =>
        storage.refresh # call[d].shown
  BY DEF TokensInv, FlyingTokensAreNew
<1> HIDE DEF q
<1> QED
  BY <1>1, <1>3, <1>4, <1>5, OneCallCarries

(* The backend reads its row, or another origin answers a page.          *)
LEMMA ReadTokens ==
  ASSUME FrontendInv, TokensInv, NEW c \in Calls, Read(c)
  PROVE  TokensInv'
<1> DEFINE q == IF OtherOrigin THEN Answered(call[c], Undefined)
                ELSE IF call[c].shown \in used
                          /\ IsHolder(issuedTo[call[c].shown], call[c].shown)
                  THEN Claiming(call[c], issuedTo[call[c].shown])
                  ELSE To(call[c], "refused")
<1>1. /\ call' = [call EXCEPT ![c] = q] /\ call[c].pc = "presented"
      /\ UNCHANGED <<chainVars, issuedTo, storage, lost>>
  BY DEF Read
<1>2. call[c] \in Call /\ Undefined \in MaybeToken
  BY CallTyped DEF MaybeToken
<1>3. CASE q.pc = "refused"
  <2>1. q.pc \notin InFlight /\ Arrives(c) /\ lost \subseteq lost'
    BY <1>1, <1>3 DEF InFlight, Arrives
  <2> HIDE DEF q
  <2> QED
    BY <1>1, <2>1, QuietCall
<1>4. CASE q.pc # "refused"
  <2>1. \/ q.pc = "answered" /\ q.shown = Undefined
        \/ /\ q.pc = "claiming" /\ q.shown = call[c].shown
           /\ q.shown \in used /\ q.session = issuedTo[q.shown]
    <3>1. CASE OtherOrigin
      BY <1>2, <3>1, CallFields, AnsweredType
    <3>2. CASE ~OtherOrigin
      <4>1. call[c].shown \in used /\ q = Claiming(call[c], issuedTo[call[c].shown])
        BY <1>2, <1>4, <3>2, CallFields DEF Stage
      <4>2. issuedTo[call[c].shown] \in Sessions \cup {None}
        BY <4>1 DEF TokensInv, HolderIsNewest
      <4> QED
        BY <1>2, <4>1, <4>2, CallFields, ClaimingType
    <3> QED
      BY <3>1, <3>2
  <2>2. \A d \in Calls : call[d].pc = "answered" /\ call[d].shown \in used =>
          q.shown # call[d].shown
    BY <1>1, <2>1, IssuedAreTokens, SMTT(60) DEF TokensInv, FlyingTokensAreNew
  <2> HIDE DEF q
  <2> QED
    BY <1>1, <2>1, <2>2, IssuedAreTokens, OneCallCarries
<1> QED
  BY <1>3, <1>4

-----------------------------------------------------------------------------
(* A session comes into transit, by selectRole or the claim of refresh *)

(* Its holder is gone, and its next token is nowhere yet.                *)
LEMMA BeginsTokens ==
  ASSUME FrontendInv, TokensInv, NEW c \in Calls, NEW s \in Sessions, NEW q,
         call' = [call EXCEPT ![c] = q], call[c].pc # "answered",
         UNCHANGED <<used, issuedTo, storage, lost>>,
         q.pc = "issuing", q.session = s,
         phase[s] # "transit", phase'[s] = "transit",
         \A i \in Sessions \ {s} : phase'[i] = phase[i] /\ holder'[i] = holder[i],
         \A d \in Calls : call[d].pc = "answered" /\ call[d].shown \in used =>
           issuedTo[call[d].shown] # s
  PROVE  TokensInv'
<1>1. call'[c] = q /\ \A d \in Calls \ {c} : call'[d] = call[d]
  BY OneCallChanges
<1>2. OnlyIssued'
  BY <1>1 DEF TokensInv, OnlyIssued
<1>3. HolderIsNewest'
  BY DEF TokensInv, HolderIsNewest
<1>4. OneIssuer'
  BY <1>1 DEF TokensInv, OneIssuer
<1>5. FlyingTokensAreNew'
  <2> SUFFICES ASSUME NEW d \in Calls, call'[d].pc = "answered", call'[d].shown \in used
      PROVE  LET n == call'[d].shown
                 i == issuedTo[n] IN
             /\ storage.refresh # n
             /\ \A e \in Calls \ {d} :
                  call'[e].pc \in {"presented", "claiming", "answered"} =>
                    call'[e].shown # n
             /\ \A m \in used : issuedTo[m] = i => m <= n
             /\ phase'[i] = "closed" \/ (phase'[i] = "live" /\ holder'[i] = n)
    BY DEF FlyingTokensAreNew
  <2>1. d # c /\ call'[d] = call[d]
    BY <1>1
  <2>2. issuedTo[call[d].shown] \in Sessions \ {s}
    BY <2>1 DEF TokensInv, HolderIsNewest
  <2> QED
    BY <1>1, <2>1, <2>2 DEF TokensInv, FlyingTokensAreNew
<1>6. StoredTokenIsHolder'
  <2> SUFFICES ASSUME storage.refresh \in used,
                      phase'[issuedTo[storage.refresh]] = "live"
      PROVE  LET i == issuedTo[storage.refresh] IN
             \/ holder'[i] = storage.refresh
             \/ holder'[i] \in lost
             \/ \E d \in Calls : call'[d].pc = "answered" /\ call'[d].shown = holder'[i]
    BY DEF StoredTokenIsHolder
  <2>1. issuedTo[storage.refresh] \in Sessions \ {s}
    BY DEF TokensInv, HolderIsNewest
  <2>2. \A d \in Calls : call[d].pc = "answered" => call'[d] = call[d]
    BY <1>1
  <2> QED
    BY <2>1, <2>2 DEF TokensInv, StoredTokenIsHolder
<1> QED
  BY <1>2, <1>3, <1>4, <1>5, <1>6 DEF TokensInv

(* A role is selected.                                                   *)
LEMMA SelectRoleTokens ==
  ASSUME FrontendInv, TokensInv, NEW c \in Calls, NEW t \in Tabs,
         NEW s \in Sessions, SelectRole(c, t, s)
  PROVE  TokensInv'
<1> DEFINE q == NewCall("issuing", t, "signin", None, None, s)
<1>1. /\ call' = [call EXCEPT ![c] = q] /\ call[c].pc = "idle"
      /\ UNCHANGED <<used, issuedTo, storage, lost>>
      /\ phase[s] = "unopened" /\ phase' = [phase EXCEPT ![s] = "transit"]
      /\ holder' = holder
  BY IdleType DEF SelectRole, Server!Open
<1>2. phase'[s] = "transit" /\ \A i \in Sessions \ {s} : phase'[i] = phase[i]
  BY <1>1 DEF FrontendInv, TypeOK
<1>3. q.pc = "issuing" /\ q.session = s
  BY DEF NewCall
<1>4. \A d \in Calls : call[d].pc = "answered" /\ call[d].shown \in used =>
        issuedTo[call[d].shown] # s
  BY <1>1 DEF TokensInv, HolderIsNewest
<1> HIDE DEF q
<1> QED
  BY <1>1, <1>2, <1>3, <1>4, BeginsTokens

(* The backend spends the token, or finds it spent.                      *)
LEMMA ClaimTokens ==
  ASSUME FrontendInv, TokensInv, NEW c \in Calls, Claim(c)
  PROVE  TokensInv'
<1> DEFINE s == call[c].session
           n == call[c].shown
<1>1. call[c].pc = "claiming" /\ UNCHANGED <<issuedTo, storage, lost>>
  BY DEF Claim
<1>2. n \in used /\ s = issuedTo[n] /\ s \in Sessions
  BY <1>1 DEF TokensInv, OneIssuer, HolderIsNewest
<1>3. CASE IsHolder(s, n)
  <2> DEFINE q == To(call[c], "issuing")
  <2>1. /\ call' = [call EXCEPT ![c] = q] /\ used' = used
        /\ phase' = [phase EXCEPT ![s] = "transit"] /\ phase[s] = "live"
        /\ holder' = [holder EXCEPT ![s] = None] /\ holder[s] = n
    BY <1>3 DEF Claim, Server!Consume, IsHolder
  <2>2. /\ phase'[s] = "transit"
        /\ \A i \in Sessions \ {s} : phase'[i] = phase[i] /\ holder'[i] = holder[i]
    BY <1>2, <2>1 DEF FrontendInv, TypeOK
  <2>3. q.pc = "issuing" /\ q.session = s
    BY CallTyped, CallFields DEF Stage
  <2>4. \A d \in Calls : call[d].pc = "answered" /\ call[d].shown \in used =>
          issuedTo[call[d].shown] # s
    BY <1>1, <2>1 DEF TokensInv, FlyingTokensAreNew
  <2> HIDE DEF q, s, n
  <2>5. call[c].pc # "answered" /\ phase[s] # "transit"
    BY <1>1, <2>1
  <2>6. UNCHANGED <<used, issuedTo, storage, lost>>
    BY <1>1, <2>1
  <2>7. s \in Sessions
    BY <1>2
  <2>8. call' = [call EXCEPT ![c] = q]
    BY <2>1
  <2> QED
    BY <2>2, <2>3, <2>4, <2>5, <2>6, <2>7, <2>8, BeginsTokens
<1>4. CASE ~IsHolder(s, n)
  <2> DEFINE S == {i \in Sessions : phase[i] = "live"}
             q == To(call[c], "refused")
  <2>1. Server!Close(S) /\ call' = [call EXCEPT ![c] = q]
    BY <1>4 DEF Claim
  <2>2. q.pc \notin InFlight /\ Arrives(c)
    BY <1>1, CallTyped, CallFields DEF Stage, InFlight, Arrives
  <2>3. \A d \in Calls : call[d].pc = "issuing" => call[d].session \in Sessions \ S
    BY DEF TokensInv, OneIssuer
  <2>4. S \in SUBSET Sessions
    OBVIOUS
  <2> HIDE DEF S, q
  <2> QED
    BY <1>1, <2>1, <2>2, <2>3, <2>4, ClosingEnds, OneCallFades
<1> QED
  BY <1>3, <1>4

-----------------------------------------------------------------------------
(* Tokens are issued and stored *)

(* The number after all that were used is the next token.                *)
LEMMA NextToken ==
  ASSUME FrontendInv, TokensInv, Cardinality(used) + 1 \in Tokens
  PROVE  LET next == Cardinality(used) + 1 IN
         /\ next \notin used /\ \A n \in used : n <= next
         /\ used \cup {next} = 1..Cardinality(used \cup {next})
<1> DEFINE next == Cardinality(used) + 1
<1>1. IsFiniteSet(used)
  BY IssuedAreTokens, TokensAssumption, FS_Interval, FS_Subset DEF Tokens
<1>2. Cardinality(used) \in Nat /\ used = 1..Cardinality(used)
  BY <1>1, FS_CardinalityType DEF TokensInv, OnlyIssued
<1>3. next \notin used /\ \A n \in used : n <= next
  BY <1>2
<1>4. Cardinality(used \cup {next}) = next
  BY <1>1, <1>3, FS_AddElement
<1>5. used \cup {next} = 1..next
  BY <1>2
<1> QED
  BY <1>3, <1>4, <1>5

(* The backend issues the next token and answers.                        *)
LEMMA IssueTokensTokens ==
  ASSUME FrontendInv, TokensInv, NEW c \in Calls, IssueTokens(c)
  PROVE  TokensInv'
<1> DEFINE next == Cardinality(used) + 1
           s == call[c].session
           q == Answered(call[c], next)
<1>1. /\ call[c].pc = "issuing" /\ next \in Tokens
      /\ call' = [call EXCEPT ![c] = q] /\ used' = used \cup {next}
      /\ phase' = [phase EXCEPT ![s] = "live"]
      /\ holder' = [holder EXCEPT ![s] = next]
      /\ issuedTo' = [issuedTo EXCEPT ![next] = s]
      /\ UNCHANGED <<storage, lost>>
  BY DEF IssueTokens, Server!Issue
<1>2. /\ next \notin used /\ \A n \in used : n <= next
      /\ used' = 1..Cardinality(used')
  BY <1>1, NextToken
<1>3. /\ next \in MaybeToken /\ next <= next
      /\ next \notin {None, Undefined}
  BY <1>1, IssuedAreTokens, TokensAssumption DEF MaybeToken
<1>4. q.pc = "answered" /\ q.shown = next
  BY <1>3, CallTyped, CallFields, AnsweredType
<1>5. s \in Sessions /\ phase[s] = "transit"
  BY <1>1 DEF TokensInv, OneIssuer
<1> HIDE DEF next, q
<1>6. /\ phase'[s] = "live" /\ holder'[s] = next
      /\ \A i \in Sessions \ {s} : phase'[i] = phase[i] /\ holder'[i] = holder[i]
      /\ issuedTo'[next] = s /\ \A n \in used : issuedTo'[n] = issuedTo[n]
  BY <1>1, <1>2, <1>5, IssuedAreTokens DEF FrontendInv, TypeOK
<1>7. call'[c] = q /\ \A d \in Calls \ {c} : call'[d] = call[d]
  BY <1>1, OneCallChanges
<1> HIDE DEF s
<1>8. OnlyIssued'
  BY <1>1, <1>2, <1>4, <1>7 DEF TokensInv, OnlyIssued
<1>9. HolderIsNewest'
  <2>1. \A i \in Sessions \ {s} : phase'[i] = "live" =>
          /\ holder'[i] \in used' /\ issuedTo'[holder'[i]] = i
          /\ \A n \in used' : issuedTo'[n] = i => n <= holder'[i]
    BY <1>1, <1>6 DEF TokensInv, HolderIsNewest
  <2>2. \A n \in used' : issuedTo'[n] = s => n <= holder'[s]
    BY <1>1, <1>2, <1>3, <1>6
  <2>3. \A n \in used' : issuedTo'[n] \in Sessions /\ phase'[issuedTo'[n]] # "unopened"
    BY <1>1, <1>5, <1>6 DEF TokensInv, HolderIsNewest
  <2> QED
    BY <1>1, <1>6, <2>1, <2>2, <2>3 DEF HolderIsNewest
<1>10. OneIssuer'
  <2>1. \A d \in Calls \ {c} :
          call[d].pc = "issuing" => call[d].session \in Sessions \ {s}
    BY <1>1 DEF TokensInv, OneIssuer, s
  <2> QED
    BY <1>1, <1>4, <1>6, <1>7, <2>1 DEF TokensInv, OneIssuer
<1>11. FlyingTokensAreNew'
  <2> SUFFICES ASSUME NEW d \in Calls, call'[d].pc = "answered", call'[d].shown \in used'
      PROVE  LET n == call'[d].shown
                 i == issuedTo'[n] IN
             /\ storage'.refresh # n
             /\ \A e \in Calls \ {d} :
                  call'[e].pc \in {"presented", "claiming", "answered"} =>
                    call'[e].shown # n
             /\ \A m \in used' : issuedTo'[m] = i => m <= n
             /\ phase'[i] = "closed" \/ (phase'[i] = "live" /\ holder'[i] = n)
    BY DEF FlyingTokensAreNew
  <2>1. CASE d = c
    <3>1. next \notin used \cup {None, Undefined}
      BY <1>2, <1>3
    <3>2. storage'.refresh # next
      BY <1>1, <3>1 DEF TokensInv, OnlyIssued
    <3>3. \A e \in Calls \ {c} :
            call'[e].pc \in {"presented", "claiming", "answered"} =>
              call'[e].shown # next
      BY <1>7, <3>1 DEF TokensInv, OnlyIssued
    <3>4. \A m \in used' : m <= next
      BY <1>1, <1>2, <1>3
    <3> QED
      BY <1>4, <1>6, <1>7, <2>1, <3>2, <3>3, <3>4
  <2>2. CASE d # c
    <3>1. call'[d] = call[d] /\ call[d].shown \in used \cup {None, Undefined}
      BY <1>7, <2>2 DEF TokensInv, OnlyIssued
    <3>2. call[d].shown \in used /\ call[d].shown # next
      BY <1>1, <1>2, <1>3, <3>1, IssuedAreTokens, TokensAssumption
    <3>3. /\ issuedTo[call[d].shown] \in Sessions \ {s}
          /\ issuedTo'[call[d].shown] = issuedTo[call[d].shown]
      BY <1>5, <1>6, <3>1, <3>2 DEF TokensInv, HolderIsNewest, FlyingTokensAreNew
    <3>4. \A m \in used' : issuedTo'[m] = issuedTo[call[d].shown] => m <= call[d].shown
      BY <1>1, <1>6, <3>1, <3>2, <3>3 DEF TokensInv, FlyingTokensAreNew
    <3>5. storage'.refresh # call[d].shown
      BY <1>1, <3>1, <3>2 DEF TokensInv, FlyingTokensAreNew
    <3>6. \A e \in Calls \ {d} :
            call'[e].pc \in {"presented", "claiming", "answered"} =>
              call'[e].shown # call[d].shown
      BY <1>4, <1>7, <3>1, <3>2 DEF TokensInv, FlyingTokensAreNew
    <3>7. LET i == issuedTo[call[d].shown] IN
          phase'[i] = "closed" \/ (phase'[i] = "live" /\ holder'[i] = call[d].shown)
      BY <1>6, <3>1, <3>2, <3>3 DEF TokensInv, FlyingTokensAreNew
    <3> QED
      BY <3>1, <3>3, <3>4, <3>5, <3>6, <3>7
  <2> QED
    BY <2>1, <2>2
<1>12. StoredTokenIsHolder'
  <2> SUFFICES ASSUME storage'.refresh \in used',
                      phase'[issuedTo'[storage'.refresh]] = "live"
      PROVE  LET i == issuedTo'[storage'.refresh] IN
             \/ holder'[i] = storage'.refresh
             \/ holder'[i] \in lost'
             \/ \E d \in Calls : call'[d].pc = "answered" /\ call'[d].shown = holder'[i]
    BY DEF StoredTokenIsHolder
  <2> DEFINE i == issuedTo[storage.refresh]
  <2>1. storage'.refresh = storage.refresh /\ storage.refresh \in used
    BY <1>1, <1>2, <1>3 DEF TokensInv, OnlyIssued
  <2>2. issuedTo'[storage'.refresh] = i /\ i \in Sessions
    BY <1>6, <2>1 DEF TokensInv, HolderIsNewest
  <2>3. CASE i = s
    BY <1>4, <1>6, <1>7, <2>2, <2>3
  <2>4. CASE i # s
    <3>1. phase[i] = "live" /\ holder'[i] = holder[i]
      BY <1>6, <2>2, <2>4
    <3>2. \A d \in Calls : call[d].pc = "answered" => call'[d] = call[d]
      BY <1>1, <1>7
    <3> QED
      BY <1>1, <2>1, <2>2, <3>1, <3>2 DEF TokensInv, StoredTokenIsHolder
  <2> QED
    BY <2>3, <2>4
<1> QED
  BY <1>8, <1>9, <1>10, <1>11, <1>12 DEF TokensInv

(* What an answer brings is stored: the call that brought it carries     *)
(* nothing any more, nor do those that are sent again.                   *)
LEMMA LandsTokens ==
  ASSUME FrontendInv, TokensInv, NEW c \in Calls,
         RefreshDone(c) \/ RoleSelected(c)
  PROVE  /\ TokensInv' /\ used' = used
         /\ storage'.refresh \in used => \A m \in used :
              issuedTo[m] = issuedTo[storage'.refresh] => m <= storage'.refresh
<1> DEFINE n == call[c].shown
<1>1. /\ call[c].pc = "answered" /\ storage'.refresh = n
      /\ UNCHANGED <<phase, holder, used, issuedTo, lost>>
  BY DEF RefreshDone, RoleSelected, Stored, chainVars
<1>2. n \in MaybeToken
  BY CallTyped DEF Call
<1>3. \A d \in Calls : call'[d] = call[d] \/ call'[d].pc \notin InFlight
  <2>1. CASE RefreshDone(c)
    <3>1. \A d \in Calls : call'[d] \in {call[d], Resent(call[d], n)}
      BY <2>1, CallTyped DEF RefreshDone
    <3> QED
      BY <1>2, <3>1, CallTyped, ResentType DEF InFlight
  <2>2. CASE RoleSelected(c)
    BY <2>2, CallTyped, IdleType DEF RoleSelected, InFlight
  <2> QED
    BY <2>1, <2>2
<1>4. call'[c].pc \notin InFlight
  <2>1. CASE RefreshDone(c)
    <3>1. call'[c] = Resent(call[c], n)
      BY <2>1 DEF RefreshDone
    <3> QED
      BY <1>2, <3>1, CallTyped, ResentType DEF InFlight
  <2>2. CASE RoleSelected(c)
    BY <2>2, CallTyped, IdleType DEF RoleSelected, InFlight
  <2> QED
    BY <2>1, <2>2
<1>5. n \in used => /\ \A d \in Calls \ {c} :
                         call[d].pc \in {"presented", "claiming", "answered"} =>
                           call[d].shown # n
                    /\ \A m \in used : issuedTo[m] = issuedTo[n] => m <= n
                    /\ \/ phase[issuedTo[n]] = "closed"
                       \/ holder[issuedTo[n]] = n
  BY <1>1 DEF TokensInv, FlyingTokensAreNew
<1> HIDE DEF n
<1>6. OnlyIssued'
  <2>1. n \in used \cup {None, Undefined}
    BY <1>1 DEF TokensInv, OnlyIssued, n
  <2> QED
    BY <1>1, <1>3, <2>1 DEF TokensInv, OnlyIssued, InFlight
<1>7. HolderIsNewest'
  BY <1>1 DEF TokensInv, HolderIsNewest
<1>8. OneIssuer'
  BY <1>1, <1>3 DEF TokensInv, OneIssuer, InFlight
<1>9. FlyingTokensAreNew'
  BY <1>1, <1>3, <1>4, <1>5 DEF TokensInv, FlyingTokensAreNew, InFlight
<1>10. StoredTokenIsHolder'
  BY <1>1, <1>5 DEF StoredTokenIsHolder
<1> QED
  BY <1>1, <1>5, <1>6, <1>7, <1>8, <1>9, <1>10 DEF TokensInv

-----------------------------------------------------------------------------
(* Any step *)

(* At first there are no tokens.                                         *)
LEMMA TokensInitInv == Init => TokensInv
<1> SUFFICES ASSUME Init
             PROVE  TokensInv
  OBVIOUS
<1>1. /\ used = {} /\ storage.refresh = None
      /\ \A s \in Sessions : phase[s] = "unopened"
      /\ \A c \in Calls : call[c].pc = "idle"
  BY IdleType DEF Init, Server!Init, SignedOut
<1>2. used = 1..Cardinality(used)
  BY <1>1, FS_EmptySet
<1>3. OnlyIssued
  BY <1>1, <1>2 DEF OnlyIssued
<1> QED
  BY <1>1, <1>3 DEF TokensInv, HolderIsNewest, OneIssuer, FlyingTokensAreNew,
                    StoredTokenIsHolder

(* One step, whichever it is, preserves TokensInv.                       *)
LEMMA TokensNextInv ==
  ASSUME FrontendInv, TokensInv, [Next]_vars
  PROVE  TokensInv'
<1>1. ASSUME NEW c \in Calls, Proceed(c)
      PROVE  TokensInv'
  BY <1>1, ReadTokens, ClaimTokens, IssueTokensTokens, BackendFailsTokens,
     LossTokens, LogoutServedTokens, SettleTokens, ForbiddenTokens,
     PresentTokens, FailedTokens, LandsTokens DEF Proceed
<1>2. CASE \E n \in Tokens : AccessExpires(n)
  BY <1>2, NothingTokens DEF AccessExpires
<1>3. CASE UNCHANGED vars
  BY <1>3, NothingTokens DEF vars, chainVars
<1> QED
  BY <1>1, <1>2, <1>3, VisitTokens, SelectRoleTokens, SendTokens,
     SessionEndsTokens DEF Next

(* Only an answer that lands puts another token in localStorage.         *)
LEMMA StorageChanges ==
  ASSUME FrontendInv, [Next]_vars
  PROVE  \/ storage'.refresh \in {storage.refresh, None}
         \/ \E c \in Calls : RefreshDone(c) \/ RoleSelected(c)
<1>1. ASSUME NEW c \in Calls, Proceed(c)
      PROVE  \/ storage'.refresh \in {storage.refresh, None}
             \/ RefreshDone(c) \/ RoleSelected(c)
  BY <1>1, SMTT(60)
     DEF Proceed, Read, Claim, IssueTokens, BackendFails, AnswerLost,
         ServeLogout, Settle, Forbidden, Enqueue, PresentRefreshToken,
         NoRefreshToken, RefreshRefused, RefreshFailed, RoleRefused, Logout,
         Unheard, SignedOut
<1> QED
  BY <1>1 DEF Next, Visit, SelectRole, Send, AccessExpires, SessionEnds, vars

-----------------------------------------------------------------------------
(* Theorems *)

(* Every reachable state of the browser and the backend satisfies both     *)
(* inductive invariants.                                                   *)
THEOREM TokensInvariance == Spec => [](FrontendInv /\ TokensInv)
<1>1. Init => FrontendInv /\ TokensInv
  BY FrontendInitInv, TokensInitInv
<1>2. FrontendInv /\ TokensInv /\ [Next]_vars => (FrontendInv /\ TokensInv)'
  BY FrontendNextInv, TokensNextInv
<1> QED
  BY <1>1, <1>2, PTL DEF Spec

(* The browser never falls behind a session it holds: the refresh token in *)
(* localStorage is the live one, or that one is on its way or was lost.    *)
THEOREM StoredKeepsUp == Spec => []StoredTokenIsHolder
<1>1. TokensInv => StoredTokenIsHolder
  BY DEF TokensInv
<1> QED
  BY <1>1, TokensInvariance, PTL

(* However late answers come, in however many tabs, none puts an older     *)
(* token of a session in the place of a newer one.                         *)
THEOREM StoredOnlyAdvances == Spec => StoredTokensAdvance
<1>1. ASSUME FrontendInv, TokensInv, [Next]_vars,
             storage.refresh \in used, storage'.refresh \in used,
             issuedTo[storage.refresh] = issuedTo[storage'.refresh]
      PROVE  storage'.refresh >= storage.refresh
  <2>1. storage.refresh \in Nat /\ storage'.refresh \in Nat
    BY <1>1, IssuedAreTokens
  <2>2. CASE storage'.refresh \in {storage.refresh, None}
    BY <1>1, <2>1, <2>2, IssuedAreTokens
  <2>3. CASE \E c \in Calls : RefreshDone(c) \/ RoleSelected(c)
    BY <1>1, <2>1, <2>3, LandsTokens
  <2> QED
    BY <1>1, <2>2, <2>3, StorageChanges
<1>2. FrontendInv /\ TokensInv /\ [Next]_vars =>
        [storage.refresh \in used /\ storage'.refresh \in used
           /\ issuedTo[storage.refresh] = issuedTo[storage'.refresh]
         => storage'.refresh >= storage.refresh]_vars
  BY <1>1
<1> QED
  BY <1>2, TokensInvariance, PTL DEF Spec, StoredTokensAdvance
=============================================================================

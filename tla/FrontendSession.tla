-------------------------- MODULE FrontendSession --------------------------
(***************************************************************************)
(* The session as a browser sees it: tabs that share localStorage, each    *)
(* with the axios interceptors of services/api.ts, which answer a 401 with *)
(* one refresh per tab and hold the other failed calls in a queue; login,  *)
(* selectRole and logout of services/auth.service.ts; and the backend as   *)
(* what SessionChain promises, taken step by step so that two refreshes    *)
(* can meet. AuthService is shown to implement SessionChain.               *)
(*                                                                         *)
(* JavaScript runs to its next await, so an action is the code of one      *)
(* tab between two answers. A pair of access and refresh token has one     *)
(* number, in the order the backend issued them. All sessions here are of  *)
(* one user and role: that is when they can end one another.               *)
(***************************************************************************)
EXTENDS Naturals, FiniteSets

CONSTANTS
  Tabs,         \* tabs of one browser
  Calls,        \* HTTP calls under way, in all tabs together
  Sessions,     \* sessions ever opened
  MaxToken,     \* how many token pairs the backend issues
  OtherOrigin,  \* TRUE: VITE_API_URL names a backend on another origin
  None,         \* null
  Undefined     \* the string "undefined" that setItem makes of undefined

Tokens == 1..MaxToken

ASSUME NoTabAssumption == None \notin Tabs

ASSUME TokensAssumption ==
  MaxToken \in Nat /\ None \notin Tokens /\ Undefined \notin Tokens

VARIABLES
  phase, holder, used,  \* the backend's sessions, as in SessionChain
  issuedTo,    \* the session each token was issued to
  expired,     \* tokens whose access token's fifteen minutes are over
  storage,     \* localStorage, common to all tabs
  page,        \* what each tab shows
  refreshing,  \* isRefreshing, one per tab (per loaded document)
  call,        \* the calls
  lost         \* history: tokens whose answer reached no page

chainVars == <<phase, holder, used>>
vars == <<phase, holder, used, issuedTo, expired, storage, page, refreshing,
          call, lost>>

Server == INSTANCE SessionChain WITH NoToken <- None

-----------------------------------------------------------------------------
(* Calls and storage *)

\* "sent": the request is on its way; "loggedOut": logout was answered or
\* failed; "queued": in pendingQueue. The others are the stages of a request
\* for tokens, on behalf of this call: presented to the backend, read and
\* found good, consumed, answered or refused.
Stage == {"idle", "sent", "loggedOut", "queued", "presented", "claiming",
          "issuing", "answered", "refused"}

ForTokens == {"presented", "claiming", "issuing", "answered", "refused"}

\* "admin": the URL contains one of the five names of isAdminRequest.
Kind == {"data", "admin", "logout", "signin"}

MaybeToken == Tokens \cup {None, Undefined}

\* auth is the header's token; body the refresh token a logout names; shown
\* the token presented, then the one in the answer.
Call == [pc: Stage, tab: Tabs \cup {None}, kind: Kind, auth: MaybeToken,
         body: MaybeToken, shown: MaybeToken, session: Sessions \cup {None},
         retry: BOOLEAN]

NewCall(stage, t, kind, token, named, s) ==
  [pc |-> stage, tab |-> t, kind |-> kind, auth |-> token, body |-> named,
   shown |-> None, session |-> s, retry |-> FALSE]

Idle == NewCall("idle", None, "data", None, None, None)

To(q, stage) == [q EXCEPT !.pc = stage]

Storage == [access: MaybeToken, refresh: MaybeToken]

SignedOut == [access |-> None, refresh |-> None]

\* What the code that made the call does once it is rejected: views show the
\* error, logout swallows it and clears the session.
Rejected(q) == IF q.kind = "logout" THEN To(q, "loggedOut") ELSE Idle

\* Axios sends the call again: its header is what localStorage holds now.
Resent(q, token) ==
  [q EXCEPT !.pc = "sent", !.auth = token, !.shown = None, !.session = None]

Presenting(q, token) ==
  [q EXCEPT !.pc = "presented", !.shown = token, !.retry = TRUE]

Claiming(q, s) == [q EXCEPT !.pc = "claiming", !.session = s]

Answered(q, token) == [q EXCEPT !.pc = "answered", !.shown = token]

\* The document that made the call is gone: nothing resumes it, though what
\* the backend has begun goes on.
Orphan(q) ==
  IF q.pc \in ForTokens \/ (q.pc = "sent" /\ q.kind = "logout")
    THEN [q EXCEPT !.tab = None]
    ELSE Idle

QueueOf(t) == {c \in Calls : call[c].tab = t /\ call[c].pc = "queued"}

Waiting(c) == call[c].pc \in ForTokens /\ call[c].kind # "signin"

\* A document is loaded in tab t: module variables start anew.
Load(t, shows) ==
  /\ call' = [d \in Calls |-> IF call[d].tab = t THEN Orphan(call[d])
                              ELSE call[d]]
  /\ refreshing' = [refreshing EXCEPT ![t] = FALSE]
  /\ page' = [page EXCEPT ![t] = shows]

-----------------------------------------------------------------------------
Init ==
  /\ Server!Init
  /\ issuedTo = [n \in Tokens |-> None]
  /\ expired = {}
  /\ storage = SignedOut
  /\ page = [t \in Tabs |-> "outside"]
  /\ refreshing = [t \in Tabs |-> FALSE]
  /\ call = [c \in Calls |-> Idle]
  /\ lost = {}

(* A reload, a bookmark or a new tab: the guard lets the browser into /app *)
(* only with an access token in localStorage, whatever it is worth.        *)
Visit(t, shows) ==
  /\ shows = "app" => storage.access # None
  /\ Load(t, shows)
  /\ UNCHANGED <<chainVars, issuedTo, expired, storage, lost>>

(* selectRole, from a page outside /app. The backend has accepted the role *)
(* and is issuing the first tokens of a session.                           *)
SelectRole(c, t, s) ==
  /\ page[t] = "outside"
  /\ call[c] = Idle
  /\ Server!Open(s)
  /\ call' = [call EXCEPT ![c] = NewCall("issuing", t, "signin", None, None, s)]
  /\ UNCHANGED <<issuedTo, expired, storage, page, refreshing, lost>>

(* A view calls the API, or the user logs out; the interceptor adds the    *)
(* header, logout reads the refresh token for its body.                    *)
Send(c, t, kind) ==
  /\ page[t] = "app"
  /\ call[c] = Idle
  /\ kind # "signin"
  /\ call' = [call EXCEPT ![c] =
       NewCall("sent", t, kind, storage.access,
               IF kind = "logout" THEN storage.refresh ELSE None, None)]
  /\ UNCHANGED <<chainVars, issuedTo, expired, storage, page, refreshing,
                 lost>>

-----------------------------------------------------------------------------
(* The backend *)

Authorized(q) == q.auth \in used \ expired

AnyTokenOf(s, token) == phase[s] = "live" /\ issuedTo[token] = s

IsHolder(s, token) == phase[s] = "live" /\ holder[s] = token

(* refresh reads the row. On another origin the request, whose path is     *)
(* written out, gets the page instead, and "undefined" is read from it.    *)
Read(c) ==
  LET q == call[c] IN
  /\ q.pc = "presented"
  /\ call' = [call EXCEPT ![c] =
       IF OtherOrigin THEN Answered(q, Undefined)
       ELSE IF q.shown \in used /\ IsHolder(issuedTo[q.shown], q.shown)
         THEN Claiming(q, issuedTo[q.shown])
         ELSE To(q, "refused")]
  /\ UNCHANGED <<chainVars, issuedTo, expired, storage, page, refreshing,
                 lost>>

(* Only one request consumes the row; another one that finds it consumed   *)
(* ends the live sessions of the user and role.                            *)
Claim(c) ==
  LET q == call[c] IN
  /\ q.pc = "claiming"
  /\ IF IsHolder(q.session, q.shown)
       THEN Server!Consume(q.session)
       ELSE Server!Close({s \in Sessions : phase[s] = "live"})
  /\ call' = [call EXCEPT ![c] =
       To(q, IF IsHolder(q.session, q.shown) THEN "issuing" ELSE "refused")]
  /\ UNCHANGED <<issuedTo, expired, storage, page, refreshing, lost>>

IssueTokens(c) ==
  LET q == call[c]
      next == Cardinality(used) + 1
  IN
  /\ q.pc = "issuing"
  /\ next \in Tokens
  /\ Server!Issue(q.session, next)
  /\ issuedTo' = [issuedTo EXCEPT ![next] = q.session]
  /\ call' = [call EXCEPT ![c] = Answered(q, next)]
  /\ UNCHANGED <<expired, storage, page, refreshing, lost>>

(* An exception, a crash or a lost request; what was consumed stays so.    *)
BackendFails(c) ==
  LET q == call[c] IN
  /\ q.pc \in {"presented", "claiming", "issuing"}
  /\ Server!Close(IF q.pc = "issuing" THEN {q.session} ELSE {})
  /\ call' = [call EXCEPT ![c] = To(q, "refused")]
  /\ UNCHANGED <<issuedTo, expired, storage, page, refreshing, lost>>

(* The tokens were issued, but the answer that carries them is lost.       *)
AnswerLost(c) ==
  /\ call[c].pc = "answered"
  /\ lost' = lost \cup ({call[c].shown} \cap Tokens)
  /\ call' = [call EXCEPT ![c] = To(@, "refused")]
  /\ UNCHANGED <<chainVars, issuedTo, expired, storage, page, refreshing>>

(* logout ends the session whose live token its body names.                *)
ServeLogout(c) ==
  LET q == call[c] IN
  /\ q.pc = "sent"
  /\ q.kind = "logout"
  /\ Authorized(q)
  /\ Server!Close({s \in Sessions : IsHolder(s, q.body)})
  /\ call' = [call EXCEPT ![c] = To(q, "loggedOut")]
  /\ UNCHANGED <<issuedTo, expired, storage, page, refreshing, lost>>

AccessExpires(n) ==
  /\ n \in used \ expired
  /\ expired' = expired \cup {n}
  /\ UNCHANGED <<chainVars, issuedTo, storage, page, refreshing, call, lost>>

(* The refresh token expires, the user is removed, or another device with  *)
(* the same role has its token reused.                                     *)
SessionEnds(s) ==
  /\ phase[s] = "live"
  /\ Server!Close({s})
  /\ UNCHANGED <<issuedTo, expired, storage, page, refreshing, call, lost>>

-----------------------------------------------------------------------------
(* The response interceptor *)

(* Any outcome the interceptor passes on: success, a network error, a 403  *)
(* of an admin request, a second 401.                                      *)
Settle(c) ==
  LET q == call[c] IN
  /\ q.pc = "sent"
  /\ q.tab # None
  /\ call' = [call EXCEPT ![c] = Rejected(q)]
  /\ UNCHANGED <<chainVars, issuedTo, expired, storage, page, refreshing,
                 lost>>

Forbidden(c) ==
  LET q == call[c] IN
  /\ q.pc = "sent"
  /\ q.tab # None
  /\ q.kind = "data"
  /\ Authorized(q)
  /\ Load(q.tab, "outside")
  /\ UNCHANGED <<chainVars, issuedTo, expired, storage, lost>>

\* A 401 that the interceptor takes up.
Unauthorized(q) ==
  /\ q.pc = "sent"
  /\ q.tab # None
  /\ ~Authorized(q)
  /\ ~q.retry

Enqueue(c) ==
  LET q == call[c] IN
  /\ Unauthorized(q)
  /\ refreshing[q.tab]
  /\ call' = [call EXCEPT ![c] = To(q, "queued")]
  /\ UNCHANGED <<chainVars, issuedTo, expired, storage, page, refreshing,
                 lost>>

PresentRefreshToken(c) ==
  LET q == call[c] IN
  /\ Unauthorized(q)
  /\ ~refreshing[q.tab]
  /\ storage.refresh # None
  /\ refreshing' = [refreshing EXCEPT ![q.tab] = TRUE]
  /\ call' = [call EXCEPT ![c] = Presenting(q, storage.refresh)]
  /\ UNCHANGED <<chainVars, issuedTo, expired, storage, page, lost>>

\* processQueue(error): the queue, or (a bug) nobody, is rejected.
ForgottenBy(t) == {}

RejectedWith(t) == QueueOf(t)

(* The catch: an admin request is only rejected, with those that waited    *)
(* for it; any other one clears the storage and loads /login.              *)
RefreshFailed(c) ==
  LET q == call[c]
      t == q.tab
  IN
  /\ IF q.kind = "admin"
       THEN /\ call' = [d \in Calls |->
                          IF d = c \/ d \in RejectedWith(t)
                            THEN Rejected(call[d]) ELSE call[d]]
            /\ refreshing' = [refreshing EXCEPT ![t] = FALSE]
            /\ UNCHANGED <<storage, page>>
       ELSE Load(t, "outside") /\ storage' = SignedOut
  /\ UNCHANGED <<chainVars, issuedTo, expired, lost>>

NoRefreshToken(c) ==
  /\ Unauthorized(call[c])
  /\ ~refreshing[call[c].tab]
  /\ storage.refresh = None
  /\ RefreshFailed(c)

RefreshRefused(c) ==
  /\ call[c].pc = "refused"
  /\ call[c].tab # None
  /\ call[c].kind # "signin"
  /\ RefreshFailed(c)

\* Both tokens of the answer are stored, or (a bug) only the access token.
StoredAccessOnly(q) == [storage EXCEPT !.access = q.shown]

Stored(q) == [access |-> q.shown, refresh |-> q.shown]

(* The answer is stored, and the call and the queue are sent again.        *)
RefreshDone(c) ==
  LET q == call[c] IN
  /\ q.pc = "answered"
  /\ q.tab # None
  /\ q.kind # "signin"
  /\ storage' = Stored(q)
  /\ call' = [d \in Calls |-> IF d = c \/ d \in QueueOf(q.tab)
                                THEN Resent(call[d], q.shown) ELSE call[d]]
  /\ refreshing' = [refreshing EXCEPT ![q.tab] = FALSE]
  /\ UNCHANGED <<chainVars, issuedTo, expired, page, lost>>

-----------------------------------------------------------------------------
(* selectRole and logout, continued *)

RoleSelected(c) ==
  LET q == call[c] IN
  /\ q.pc = "answered"
  /\ q.tab # None
  /\ q.kind = "signin"
  /\ storage' = [access |-> q.shown, refresh |-> q.shown]
  /\ page' = [page EXCEPT ![q.tab] = "app"]
  /\ call' = [call EXCEPT ![c] = Idle]
  /\ UNCHANGED <<chainVars, issuedTo, expired, refreshing, lost>>

RoleRefused(c) ==
  /\ call[c].pc = "refused"
  /\ call[c].tab # None
  /\ call[c].kind = "signin"
  /\ call' = [call EXCEPT ![c] = Idle]
  /\ UNCHANGED <<chainVars, issuedTo, expired, storage, page, refreshing,
                 lost>>

(* clearSession, and the router shows /login: the document stays, and with *)
(* it the calls of the tab, a refresh under way included.                  *)
Logout(c) ==
  LET q == call[c] IN
  /\ q.pc = "loggedOut"
  /\ q.tab # None
  /\ storage' = SignedOut
  /\ page' = [page EXCEPT ![q.tab] = "outside"]
  /\ call' = [call EXCEPT ![c] = Idle]
  /\ UNCHANGED <<chainVars, issuedTo, expired, refreshing, lost>>

(* An answer, or a request the backend never saw, of a document that is    *)
(* gone.                                                                   *)
Unheard(c) ==
  LET q == call[c] IN
  /\ q.tab = None
  /\ q.pc \in {"sent", "loggedOut", "answered", "refused"}
  /\ lost' = lost \cup (IF q.pc = "answered" THEN {q.shown} \cap Tokens
                         ELSE {})
  /\ call' = [call EXCEPT ![c] = Idle]
  /\ UNCHANGED <<chainVars, issuedTo, expired, storage, page, refreshing>>

-----------------------------------------------------------------------------
\* What goes on by itself once a call was made.
Proceed(c) ==
  \/ Read(c) \/ Claim(c) \/ IssueTokens(c) \/ BackendFails(c)
  \/ AnswerLost(c) \/ ServeLogout(c)
  \/ Settle(c) \/ Forbidden(c) \/ Enqueue(c) \/ PresentRefreshToken(c)
  \/ NoRefreshToken(c) \/ RefreshRefused(c) \/ RefreshDone(c)
  \/ RoleSelected(c) \/ RoleRefused(c) \/ Logout(c) \/ Unheard(c)

Next ==
  \/ \E c \in Calls : Proceed(c)
  \/ \E t \in Tabs, shows \in {"outside", "app"} : Visit(t, shows)
  \/ \E c \in Calls, t \in Tabs, s \in Sessions : SelectRole(c, t, s)
  \/ \E c \in Calls, t \in Tabs, kind \in Kind : Send(c, t, kind)
  \/ \E n \in Tokens : AccessExpires(n)
  \/ \E s \in Sessions : SessionEnds(s)

Spec == Init /\ [][Next]_vars

(* Every call is eventually answered or fails (the browser gives up), and  *)
(* the event loop runs what waits for the answer. Nothing is assumed of    *)
(* the user, of expiry or of which way an answer goes.                     *)
FairSpec == Spec /\ \A c \in Calls : WF_vars(Proceed(c))

-----------------------------------------------------------------------------
(* Safety *)

(* The shape of the state. The two tokens in localStorage are of one pair: *)
(* no path stores or clears only one of them.                              *)
TypeOK ==
  /\ phase \in [Sessions -> Server!Phases]
  /\ holder \in [Sessions -> Tokens \cup {None}]
  /\ used \subseteq Tokens
  /\ issuedTo \in [Tokens -> Sessions \cup {None}]
  /\ expired \subseteq used
  /\ storage \in Storage /\ storage.access = storage.refresh
  /\ page \in [Tabs -> {"outside", "app"}]
  /\ refreshing \in [Tabs -> BOOLEAN]
  /\ call \in [Calls -> Call]
  /\ lost \subseteq Tokens

(* One refresh at a time per tab, and nobody waits for none: isRefreshing  *)
(* is set exactly while one call of the tab refreshes, so every queued     *)
(* call has somebody who will process the queue. Reloads, redirects, and   *)
(* failures at any stage do not break it.                                  *)
QueueHasLeader ==
  \A t \in Tabs :
    LET leaders == {c \in Calls : call[c].tab = t /\ Waiting(c)} IN
    /\ refreshing[t] <=> leaders # {}
    /\ \A c, d \in leaders : c = d
    /\ QueueOf(t) # {} => refreshing[t]

(* The browser never falls behind a session it holds: if the refresh token *)
(* in localStorage is not the one that holds its session, and the session  *)
(* goes on, then the right one is on its way to a tab or was lost on it.   *)
StoredTokenIsHolder ==
  LET s == issuedTo[storage.refresh] IN
  storage.refresh \in used /\ phase[s] = "live" =>
    \/ holder[s] = storage.refresh
    \/ holder[s] \in lost
    \/ \E c \in Calls : call[c].pc = "answered" /\ call[c].shown = holder[s]

\* selectRole is answered 401 like the others, but never refreshed: it is an
\* auth flow path, and goes from issuing to its answer.
SignInsAreNotRefreshed ==
  \A c \in Calls :
    call[c].pc \in {"sent", "queued", "loggedOut"} => call[c].kind # "signin"

(* What makes TypeOK and QueueHasLeader inductive. *)
FrontendInv == TypeOK /\ QueueHasLeader /\ SignInsAreNotRefreshed

\* Whatever is stored, presented or answered was issued, or is no token.
OnlyIssued ==
  LET known == used \cup {None, Undefined} IN
  /\ used = 1..Cardinality(used)
  /\ storage.refresh \in known
  /\ \A c \in Calls :
       call[c].pc \in {"presented", "claiming", "answered"} =>
         call[c].shown \in known

\* The holder of a session is the newest of its tokens.
HolderIsNewest ==
  /\ \A s \in Sessions : phase[s] = "live" =>
       /\ holder[s] \in used /\ issuedTo[holder[s]] = s
       /\ \A n \in used : issuedTo[n] = s => n <= holder[s]
  /\ \A n \in used :
       issuedTo[n] \in Sessions /\ phase[issuedTo[n]] # "unopened"

\* At most one call issues for a session, and that session is in transit.
OneIssuer ==
  /\ \A c \in Calls :
       /\ call[c].pc = "claiming" =>
            call[c].shown \in used /\ call[c].session = issuedTo[call[c].shown]
       /\ call[c].pc = "issuing" =>
            call[c].session \in Sessions /\ phase[call[c].session] = "transit"
  /\ \A c, d \in Calls :
       /\ call[c].pc = "issuing" /\ call[d].pc = "issuing"
       /\ call[c].session = call[d].session
       => c = d

\* A token on its way to the browser is nowhere else yet, and nothing newer
\* can have come of it.
FlyingTokensAreNew ==
  \A c \in Calls :
    LET n == call[c].shown
        s == issuedTo[n]
    IN
    call[c].pc = "answered" /\ n \in used =>
      /\ storage.refresh # n
      /\ \A d \in Calls \ {c} :
           call[d].pc \in {"presented", "claiming", "answered"} =>
             call[d].shown # n
      /\ \A m \in used : issuedTo[m] = s => m <= n
      /\ phase[s] = "closed" \/ (phase[s] = "live" /\ holder[s] = n)

(* What makes StoredTokenIsHolder inductive, next to FrontendInv. *)
TokensInv ==
  /\ OnlyIssued /\ HolderIsNewest /\ OneIssuer /\ FlyingTokensAreNew
  /\ StoredTokenIsHolder

-----------------------------------------------------------------------------
(* Actions *)

(* Answers that arrive late, in tabs that refresh independently, never put *)
(* an older token of a session in the place of a newer one.                *)
StoredTokensAdvance ==
  [][storage.refresh \in used /\ storage'.refresh \in used
       /\ issuedTo[storage.refresh] = issuedTo[storage'.refresh]
     => storage'.refresh >= storage.refresh]_vars

-----------------------------------------------------------------------------
(* Liveness *)

(* Every call settles: sent again at most once on its own account, it      *)
(* never waits in a queue nobody processes, nor refreshes for ever.        *)
CallsSettle ==
  \A c \in Calls : call[c].pc # "idle" ~> call[c].pc = "idle"

-----------------------------------------------------------------------------
(* What the documentation says and the code does not do *)

(* The implementation plan: logout prevents further refreshes. Here: when  *)
(* the backend has served a logout, the session whose token it named has   *)
(* no token left.                                                          *)
LogoutEndsSession ==
  [][\A c \in Calls : ServeLogout(c) /\ call[c].body \in used =>
       phase'[issuedTo[call[c].body]] = "closed"]_vars

(* The implementation plan: logout clears the state. Here: once signed     *)
(* out, the browser holds tokens again only after a role is selected.      *)
SignedOutUntilRoleSelected ==
  [][storage = SignedOut /\ storage' # SignedOut =>
       \E c \in Calls : RoleSelected(c)]_vars

(* The implementation plan: if the refresh fails, the local session is     *)
(* closed. Here: whoever asked for it.                                     *)
FailedRefreshSignsOut ==
  [][\A c \in Calls : RefreshRefused(c) => storage' = SignedOut]_vars

(* api.ts: VITE_API_URL allows for a backend on another origin. Here: what *)
(* is stored as a token is one the backend issued.                         *)
StoredTokensWereIssued == storage.refresh \in used \cup {None}
=============================================================================

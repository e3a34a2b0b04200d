----------------------------- MODULE MCLiveness -----------------------------
(* What must eventually happen, on an instance of each component small      *)
(* enough for TLC's liveness checking. The components share no state, so a *)
(* behaviour is one of the scenarios; a variable two modules have is the   *)
(* one's of the scenario, and variables of no module of it stay None.      *)
(* Fairness is what the components' own specifications assume.             *)
EXTENDS Seed

CONSTANTS u1, ro1, j1, j2, q1, q2, t1, c1, c2, s1, m1, n1, n2, n3, p1, p2,
          admin, clerk, us, l1, l2, r1, r2, k1, k2, k3, Missing, Empty,
          Undefined, Writable, MaxCrashes, Scenarios

VARIABLES
  scenario,
  expired, req, page, used, call, service, menu, route, crossed, modules,
  userActive, assigned, temp, tokens, removal, delivered, root, raced,
  phase, holder, issuedTo, storage, refreshing, lost,
  module,
  work, server, role, nav, nodes, state, registered, load, editing, save, del, edited,
  robbed, stale, twins,
  volume, file, issued, crashes,
  loading, payload, error, calls, waiting, overtaken

-----------------------------------------------------------------------------
Older ==
  {<<"role", "SUPER_ADMIN">>, <<"role", "ADMIN">>, <<"userRole", "old", "SUPER_ADMIN">>,
   <<"module", "ADMIN">>, <<"menu", "legacy">>, <<"roleMenu", "ADMIN", "legacy">>}

OneUser == [x \in {"old"} |-> "superAdmin"]

\* Two replicas start over an older database.
Booting(old) ==
  {Deployment({p1, p2}, {"boot"}, {[s \in Seeds |-> s]}, OneUser, old, {}, {}, FALSE, 0)}
Boot == Booting(Older)

\* One of the legacy menus has a proxy route.
BootWithRoute == Booting(Older \cup {<<"route", "legacy">>})

A == INSTANCE AuthService WITH
  Users <- {u1}, Roles <- {ro1}, Jtis <- {j1, j2}, Requests <- {q1, q2}

F == INSTANCE FrontendSession WITH
  Tabs <- {t1}, Calls <- {c1, c2}, Sessions <- {s1}, MaxToken <- 2,
  OtherOrigin <- FALSE

\* Two roots of a module.
Roots ==
  [n \in {n1, n2} |-> [module |-> m1, parent |-> None,
                       url |-> None, active |-> TRUE]]
CodeOf(m) == c1
\* Nothing is given as null.
NoNulls(change) == change.nulls = {}

C == INSTANCE Catalog WITH
  Modules <- {m1}, Menus <- {n1, n2}, Services <- {}, Paths <- {}, Codes <- {c1},
  Requests <- {q1, q2}, Ops <- {"updateMenu", "removeMenu"},
  Asks <- NoNulls, SeededCode <- CodeOf, SeededMenus <- {Roots}, SeededServices <- {}

\* A page and below it another one.
Pages ==
  [n \in {n1, n2} |-> [module |-> m1, parent |-> IF n = n2 THEN n1 ELSE None,
                       url |-> IF n = n1 THEN p1 ELSE p2]]
OnlyTheTop(r) == {n1}

Visits ==
  [roles |-> {admin, clerk}, menu |-> Pages,
   ops |-> {"login", "logout", "reload", "visit", "load"},
   urls |-> {}, loads |-> {l1, l2}, edits |-> 0]

N == INSTANCE FrontendMenu WITH
  Roles <- {admin, clerk}, FullAccess <- {admin}, Granted <- OnlyTheTop,
  Modules <- {m1}, Menus <- {n1, n2}, Urls <- {p1, p2, us}, Static <- {us},
  Loads <- {l1, l2}, Workloads <- {Visits}

\* Two replicas on one new volume, and a pair for one that has to start again.
K == INSTANCE Keys WITH
  Replicas <- {r1, r2}, Pairs <- {k1, k2, k3},
  Volumes <- {[replicas |-> {r1, r2}, files |-> {[private |-> Missing, public |-> Missing]},
               writable |-> Writable]}

D == INSTANCE DynamicPage WITH
  Menus <- {n1, n2, n3}, External <- {n3}, MaxCalls <- 3

-----------------------------------------------------------------------------
auth == <<userActive, assigned, temp, tokens, removal, delivered, root, raced>>
front == <<phase, holder, issuedTo, storage, refreshing, lost>>
navigation == <<work, server, role, nav, nodes, state, registered, load, editing, save, del,
                edited, robbed, stale, twins>>
keys == <<volume, file, issued, crashes>>
dynamicPage == <<loading, payload, error, calls, waiting, overtaken>>
seed == <<deployment, rows, email, proc, decided, faults>>

AuthAtRest ==
  /\ userActive = None /\ assigned = None /\ temp = None /\ tokens = None
  /\ removal = None /\ delivered = None /\ root = None /\ raced = None

FrontAtRest ==
  /\ phase = None /\ holder = None /\ issuedTo = None /\ storage = None
  /\ refreshing = None /\ lost = None

NavigationAtRest ==
  /\ work = None /\ server = None /\ role = None /\ nav = None /\ nodes = None /\ state = None
  /\ registered = None /\ load = None /\ editing = None /\ save = None /\ del = None
  /\ edited = None /\ robbed = None /\ stale = None
  /\ twins = None

KeysAtRest == volume = None /\ file = None /\ issued = None /\ crashes = None

PageAtRest ==
  /\ loading = None /\ payload = None /\ error = None /\ calls = None
  /\ waiting = None /\ overtaken = None

SeedAtRest ==
  /\ deployment = None /\ rows = None /\ email = None /\ proc = <<>>
  /\ decided = None /\ faults = None

LiveInit ==
  /\ scenario \in Scenarios
  /\ IF scenario = "sessions"
       THEN /\ A!Init /\ page = None /\ used = None /\ call = None
       ELSE AuthAtRest
  /\ IF scenario = "tabs" THEN F!Init /\ req = None ELSE FrontAtRest
  /\ IF scenario = "menus"
       THEN C!Init /\ expired = None /\ page = None /\ used = None /\ call = None
       ELSE module = None
  /\ IF scenario = "navigation"
       THEN N!Init /\ expired = None /\ req = None /\ used = None /\ call = None
       ELSE NavigationAtRest
  /\ IF scenario = "keys"
       THEN K!Init /\ expired = None /\ req = None /\ page = None /\ call = None
       ELSE KeysAtRest
  /\ IF scenario = "page"
       THEN D!Init /\ expired = None /\ req = None /\ page = None /\ used = None
            /\ call = None
       ELSE PageAtRest
  /\ IF scenario = "seed"
       THEN Init /\ expired = None /\ req = None /\ page = None /\ used = None
            /\ call = None
       ELSE SeedAtRest
  /\ scenario \notin {"menus", "keys"} => service = None
  /\ scenario \notin {"menus", "page"} => menu = None
  /\ scenario # "menus" => route = None
  /\ scenario \notin {"menus", "navigation"} => crossed = None
  /\ scenario # "navigation" => modules = None
  /\ scenario # "seed" => changes = None

OfAuth == A!Next /\ UNCHANGED <<page, used, call, service, menu, route, crossed, modules,
  changes, front, module, navigation, keys, dynamicPage, seed>>
OfTabs == F!Next /\ UNCHANGED <<req, service, menu, route, crossed, modules,
  changes, auth, module, navigation, keys, dynamicPage, seed>>
OfMenus == C!Next /\ UNCHANGED <<expired, page, used, call, modules, changes,
  auth, front, navigation, keys, dynamicPage, seed>>
OfNavigation == N!Next /\ UNCHANGED <<expired, req, used, call, service, menu, route,
  changes, auth, front, module, keys, dynamicPage, seed>>
OfKeys == K!Next /\ UNCHANGED <<expired, req, page, call, menu, route, crossed, modules,
  changes, auth, front, module, navigation, dynamicPage, seed>>
OfPage == D!Next /\ UNCHANGED <<expired, req, page, used, call, service, route, crossed,
  modules, changes, auth, front, module, navigation, keys, seed>>
OfSeed == Next /\ UNCHANGED <<expired, req, page, used, call, service, menu, route, crossed,
  modules, auth, front, module, navigation, keys, dynamicPage>>

LiveNext ==
  /\ \/ scenario = "sessions" /\ OfAuth
     \/ scenario = "tabs" /\ OfTabs
     \/ scenario = "menus" /\ OfMenus
     \/ scenario = "navigation" /\ OfNavigation
     \/ scenario = "keys" /\ OfKeys
     \/ scenario = "page" /\ OfPage
     \/ scenario = "seed" /\ OfSeed
  /\ UNCHANGED scenario

\* Statements that wait for a row get it in the end, transactions end, the event
\* loop goes on, the network answers or fails, timers fire, containers are
\* started again and requests that need a key keep coming. Nobody has to click.
Fairness ==
  /\ \A q \in {q1, q2} :
       /\ SF_A!vars(scenario = "sessions" /\ A!RequestStep(q))
       /\ WF_C!vars(scenario = "menus" /\ (C!Read(q) \/ C!Write(q)))
  /\ WF_A!vars(scenario = "sessions" /\ A!RemovalStep(u1))
  /\ \A c \in {c1, c2} : WF_F!vars(scenario = "tabs" /\ F!Proceed(c))
  /\ \A l \in {l1, l2} :
       /\ WF_N!vars(scenario = "navigation" /\ N!ServeLoad(l) /\ UNCHANGED work)
       /\ WF_N!vars(/\ scenario = "navigation" /\ (N!LoadAnswered(l) \/ N!LoadFailed(l))
                    /\ UNCHANGED work)
  /\ \A r \in {r1, r2} :
       /\ WF_K!vars(scenario = "keys" /\ K!Step(r))
       /\ WF_K!vars(scenario = "keys" /\ K!Get(r, "verify"))
  /\ WF_D!vars(scenario = "page" /\ calls # <<>> /\ D!Returns(1))
  /\ \A p \in Processes :
       /\ WF_vars(scenario = "seed" /\ Start(p) /\ UNCHANGED deployment)
       /\ WF_vars(scenario = "seed" /\ Run(p) /\ UNCHANGED deployment)

all == <<scenario, expired, req, page, used, call, service, menu, route, crossed,
         modules, changes, auth, front, module, navigation, keys, dynamicPage,
         seed>>

LiveSpecification == LiveInit /\ [][LiveNext]_all /\ Fairness

-----------------------------------------------------------------------------
(* What the modules state, of one of the ids that are interchangeable; what  *)
(* is said of the seed is SeedFinishes of Seed.                             *)

\* Every request of AuthService is answered, also one whose statement waits
\* for the rows a user's removal has locked (users.service.ts).
RequestsAnswered ==
  (scenario = "sessions" /\ req[q1].pc \notin A!Over)
    ~> (scenario = "sessions" /\ req[q1].pc \in A!Over)

\* Every call of the frontend settles: none waits in a queue nobody processes
\* (api.ts).
CallsSettle ==
  (scenario = "tabs" /\ call[c1].pc # "idle")
    ~> (scenario = "tabs" /\ call[c1].pc = "idle")

\* Every handler of the menus ends, unless a cycle of menus keeps
\* assertNoCycle or collectActiveSubtreeIds going round.
RequestsEnd ==
  (scenario = "menus" /\ C!InFlight(q1))
    ~> (scenario = "menus" /\ (~C!InFlight(q1) \/ \E S \in SUBSET {n1, n2} : C!Cyclic(S)))

\* A link is followed, to its page or to another, or given up for the next
\* (router/index.ts:59).
NavigationSettles ==
  (scenario = "navigation" /\ nav = [to |-> p2, load |-> l1])
    ~> (scenario = "navigation" /\ nav # [to |-> p2, load |-> l1])

\* Every replica ends up with both halves, even one that read a file another was
\* writing and if a process ends anywhere, unless that left a file empty
\* (keys.service.ts:50-94).
EveryReplicaServes == <>[](scenario = "keys" => K!Loaded(service[r1]) \/ K!Torn)

\* "Claves RSA auto-generadas" (README.md:116), whether the volume can be written
\* or not and wherever processes end.
AlwaysServes == <>[](scenario = "keys" => K!Loaded(service[r1]))

\* A page that is left alone ends loading (DynamicPageView.vue:157-159).
LoadingEnds == (scenario = "page" /\ loading) ~> (scenario = "page" /\ ~loading)
=============================================================================

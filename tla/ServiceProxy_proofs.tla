------------------------- MODULE ServiceProxy_proofs -------------------------
(***************************************************************************)
(* Theorems about ServiceProxy, for any tables, any number of calls and    *)
(* any number of changes by administrators: what a call uses and what it   *)
(* is refused for was so while it was served, and no header of a client    *)
(* passes for the Gateway's. A change of the tables is one kind of step    *)
(* for the calls, however it changes them: they note what there is now.    *)
(* Of SsrfGuard: which addresses are called, for all octets there are.     *)
(***************************************************************************)
EXTENDS ServiceProxy, SsrfGuard, TLAPS

-----------------------------------------------------------------------------
(* Tables *)

RowsTyped ==
  /\ roles \subseteq Roles /\ modules \subseteq Modules /\ services \subseteq Services
  /\ menu \in [Menus -> Menu]
  /\ route \in [Menus -> Route \cup {None}]
  /\ roleModule \subseteq Roles \X Modules
  /\ roleMenu \subseteq Roles \X Menus
  /\ credential \in [Services -> Credential]
  /\ changes \in 0 .. MaxChanges

PatternsDiffer ==
  \A a, b \in Menus :
    a # b /\ route[a] # None /\ route[b] # None => route[a].pattern # route[b].pattern

TablesTyped == RowsTyped /\ PatternsDiffer

\* A set of what calls find.
Finds == SUBSET (Menus \X Services \X Credential)

FoundFits == Found \in [Paths -> Finds] /\ Opened \in [Roles -> SUBSET Menus]

\* No row comes or changes its pattern.
RoutesStay ==
  /\ route' \in [Menus -> Route \cup {None}]
  /\ \A n \in Menus :
       route'[n] # None => route[n] # None /\ route'[n].pattern = route[n].pattern

(* Nothing that is found is of another shape.                              *)
LEMMA FoundTyped == RowsTyped => FoundFits
<1> SUFFICES ASSUME RowsTyped
             PROVE  FoundFits
  OBVIOUS
<1>1. ASSUME NEW p \in Paths, NEW n \in Matching(p)
      PROVE  <<n, route[n].service, credential[route[n].service]>>
               \in Menus \X Services \X Credential
  <2>1. n \in Menus /\ route[n].service \in Services
    BY <1>1 DEF Matching, InUse, RowsTyped
  <2>2. credential[route[n].service] \in Credential
    BY <2>1 DEF RowsTyped
  <2> QED
    BY <2>1, <2>2
<1>2. \A p \in Paths :
        {<<n, route[n].service, credential[route[n].service]>> : n \in Matching(p)}
          \in Finds
  BY <1>1 DEF Finds
<1> QED
  BY <1>2 DEF Found, Opened, FoundFits

(* A row that is taken out of use is as it was otherwise.                  *)
LEMMA InactiveRow ==
  /\ \A x \in Menu : [x EXCEPT !.active = FALSE] \in Menu
  /\ \A x \in Route : /\ [x EXCEPT !.active = FALSE] \in Route
                      /\ [x EXCEPT !.active = FALSE].pattern = x.pattern
BY DEF Menu, Route

(* A menu that moves is a menu.                                            *)
LEMMA MovedMenu ==
  ASSUME NEW x \in Menu, NEW m \in Modules, NEW p \in Menus
  PROVE  [x EXCEPT !.module = m, !.parent = p] \in Menu
BY DEF Menu

LEMMA StayingRoutes ==
  ASSUME TablesTyped, RoutesStay
  PROVE  PatternsDiffer'
BY DEF TablesTyped, PatternsDiffer, RoutesStay

LEMMA ChangesCounted ==
  ASSUME RowsTyped, Change
  PROVE  changes' \in 0 .. MaxChanges /\ changes' = changes + 1
BY SeedAssumption DEF RowsTyped, Change

LEMMA AssignTyped ==
  ASSUME TablesTyped,
         AssignMenu \/ AssignModule \/ RemoveRole \/ RemoveService
  PROVE  TablesTyped'
<1>1. Change /\ UNCHANGED <<modules, menu, route, credential>>
  BY DEF AssignMenu, AssignModule, RemoveRole, RemoveService
<1>2. /\ roleMenu' \subseteq Roles \X Menus /\ roleModule' \subseteq Roles \X Modules
      /\ roles' \subseteq Roles /\ services' \subseteq Services
  <2>1. CASE AssignMenu
    BY <2>1 DEF AssignMenu, Flip, TablesTyped, RowsTyped
  <2>2. CASE AssignModule
    BY <2>2 DEF AssignModule, Flip, TablesTyped, RowsTyped
  <2>3. CASE RemoveRole \/ RemoveService
    BY <2>3 DEF RemoveRole, RemoveService, TablesTyped, RowsTyped
  <2> QED
    BY <2>1, <2>2, <2>3
<1>3. changes' \in 0 .. MaxChanges
  BY <1>1, ChangesCounted DEF TablesTyped
<1> QED
  BY <1>1, <1>2, <1>3 DEF TablesTyped, RowsTyped, PatternsDiffer

LEMMA RemoveMenuTyped ==
  ASSUME TablesTyped, RemoveMenu
  PROVE  TablesTyped'
<1>1. PICK n \in Menus :
        /\ menu' = [menu EXCEPT ![n] = [@ EXCEPT !.active = FALSE]]
        /\ roleMenu' = {a \in roleMenu : a[2] # n}
        /\ route' = [route EXCEPT ![n] =
             IF @ = None THEN None ELSE [@ EXCEPT !.active = FALSE]]
  BY DEF RemoveMenu
<1> DEFINE lost == [menu[n] EXCEPT !.active = FALSE]
           closed == IF route[n] = None THEN None ELSE [route[n] EXCEPT !.active = FALSE]
<1>2. menu' = [menu EXCEPT ![n] = lost] /\ route' = [route EXCEPT ![n] = closed]
  BY <1>1 DEF TablesTyped, RowsTyped
<1>3. /\ lost \in Menu /\ closed \in Route \cup {None}
      /\ closed # None => route[n] # None /\ closed.pattern = route[n].pattern
  BY InactiveRow DEF TablesTyped, RowsTyped
<1> HIDE DEF lost, closed
<1>4. menu' \in [Menus -> Menu] /\ RoutesStay
  BY <1>2, <1>3 DEF TablesTyped, RowsTyped, RoutesStay
<1>5. /\ Change /\ UNCHANGED <<roles, modules, services, roleModule, credential>>
      /\ roleMenu' \subseteq roleMenu
  BY <1>1 DEF RemoveMenu
<1>6. changes' \in 0 .. MaxChanges /\ PatternsDiffer'
  BY <1>4, <1>5, ChangesCounted, StayingRoutes DEF TablesTyped
<1> QED
  BY <1>4, <1>5, <1>6 DEF TablesTyped, RowsTyped, RoutesStay

LEMMA MoveMenuTyped ==
  ASSUME TablesTyped, MoveMenu
  PROVE  TablesTyped'
<1>1. PICK n \in Menus, m \in Modules, p \in {x \in Menus : IsOpen(x)} :
        /\ menu[n].active /\ p # n /\ menu[p].parent # n /\ menu[p].module = m
        /\ menu' = [menu EXCEPT ![n] = [@ EXCEPT !.module = m, !.parent = p]]
  BY Zenon DEF MoveMenu
<1> DEFINE moved == [menu[n] EXCEPT !.module = m, !.parent = p]
<1>2. menu' = [menu EXCEPT ![n] = moved]
  BY <1>1 DEF TablesTyped, RowsTyped
<1>3. moved \in Menu
  BY MovedMenu DEF TablesTyped, RowsTyped
<1> HIDE DEF moved
<1>4. menu' \in [Menus -> Menu]
  BY <1>2, <1>3 DEF TablesTyped, RowsTyped
<1>5. Change /\ UNCHANGED <<roles, modules, services, route, roleModule, roleMenu, credential>>
  BY DEF MoveMenu
<1>6. changes' \in 0 .. MaxChanges
  BY <1>5, ChangesCounted DEF TablesTyped
<1> QED
  BY <1>4, <1>5, <1>6 DEF TablesTyped, RowsTyped, PatternsDiffer

LEMMA RemoveModuleTyped ==
  ASSUME TablesTyped, RemoveModule
  PROVE  TablesTyped'
<1>1. PICK m \in modules :
        LET inside == {n \in Menus : menu[n].module = m} IN
        /\ modules' = modules \ {m}
        /\ menu' = [n \in Menus |-> [menu[n] EXCEPT !.active = @ /\ n \notin inside]]
        /\ roleMenu' = {a \in roleMenu : a[2] \notin inside}
        /\ roleModule' = {a \in roleModule : a[2] # m}
        /\ route' = [n \in Menus |-> IF n \in inside /\ route[n] # None
                                       THEN [route[n] EXCEPT !.active = FALSE] ELSE route[n]]
  BY DEF RemoveModule
<1>2. menu' \in [Menus -> Menu]
  <2>1. \A x \in Menu, b \in BOOLEAN : [x EXCEPT !.active = x.active /\ b] \in Menu
    BY DEF Menu
  <2>2. \A n \in Menus, b \in BOOLEAN :
          [menu[n] EXCEPT !.active = menu[n].active /\ b] \in Menu
    BY <2>1 DEF TablesTyped, RowsTyped
  <2> QED
    BY <1>1, <2>2
<1>3. RoutesStay
  <2>1. \A n \in Menus : route[n] # None =>
          /\ [route[n] EXCEPT !.active = FALSE] \in Route
          /\ [route[n] EXCEPT !.active = FALSE].pattern = route[n].pattern
    BY InactiveRow DEF TablesTyped, RowsTyped
  <2>2. \A n \in Menus : route'[n] = route[n]
          \/ (route[n] # None /\ route'[n] = [route[n] EXCEPT !.active = FALSE])
    BY <1>1
  <2>3. \A n \in Menus : route'[n] \in Route \cup {None}
    BY <2>1, <2>2 DEF TablesTyped, RowsTyped
  <2>4. route' \in [Menus -> Route \cup {None}]
    BY <1>1, <2>3
  <2> QED
    BY <2>1, <2>2, <2>4 DEF RoutesStay
<1>4. /\ Change /\ UNCHANGED <<roles, services, credential>>
      /\ modules' \subseteq modules /\ roleMenu' \subseteq roleMenu
      /\ roleModule' \subseteq roleModule
  BY <1>1 DEF RemoveModule
<1>5. changes' \in 0 .. MaxChanges /\ PatternsDiffer'
  BY <1>3, <1>4, ChangesCounted, StayingRoutes DEF TablesTyped
<1> QED
  BY <1>2, <1>3, <1>4, <1>5 DEF TablesTyped, RowsTyped, RoutesStay

LEMMA SetRouteTyped ==
  ASSUME TablesTyped, SetRoute
  PROVE  TablesTyped'
<1>1. PICK n \in Menus, p \in Patterns, s \in services, M \in SUBSET Methods :
        /\ \A x \in Menus \ {n} : route[x] # None => route[x].pattern # p
        /\ route' = [route EXCEPT ![n] =
             [pattern |-> p, service |-> s, methods |-> M, active |-> TRUE]]
  BY DEF SetRoute
<1> DEFINE new == [pattern |-> p, service |-> s, methods |-> M, active |-> TRUE]
<1>2. new \in Route /\ new.pattern = p /\ route' = [route EXCEPT ![n] = new]
  BY <1>1 DEF Route, TablesTyped, RowsTyped
<1> HIDE DEF new
<1>3. route' \in [Menus -> Route \cup {None}]
  BY <1>2 DEF TablesTyped, RowsTyped
<1>4. PatternsDiffer'
  <2>1. route'[n].pattern = p /\ \A x \in Menus \ {n} : route'[x] = route[x]
    BY <1>2 DEF TablesTyped, RowsTyped
  <2> QED
    BY <1>1, <2>1 DEF TablesTyped, PatternsDiffer
<1>5. /\ Change
      /\ UNCHANGED <<roles, modules, services, menu, roleModule, roleMenu, credential>>
  BY DEF SetRoute
<1>6. changes' \in 0 .. MaxChanges
  BY <1>5, ChangesCounted DEF TablesTyped
<1> QED
  BY <1>3, <1>4, <1>5, <1>6 DEF TablesTyped, RowsTyped

LEMMA RotateTyped ==
  ASSUME TablesTyped, RotateApiKey
  PROVE  TablesTyped'
<1>1. /\ Change
      /\ UNCHANGED <<roles, modules, services, menu, route, roleModule, roleMenu>>
  BY DEF RotateApiKey
<1>2. changes' \in 0 .. MaxChanges /\ changes' = changes + 1
  BY <1>1, ChangesCounted DEF TablesTyped
<1>3. PICK s \in services :
        credential' = [credential EXCEPT ![s] = [strategy |-> "API_KEY", key |-> changes + 1]]
  BY DEF RotateApiKey
<1>4. [strategy |-> "API_KEY", key |-> changes + 1] \in Credential
  BY <1>2 DEF Credential
<1>5. credential' \in [Services -> Credential]
  BY <1>3, <1>4 DEF TablesTyped, RowsTyped
<1> QED
  BY <1>1, <1>2, <1>5 DEF TablesTyped, RowsTyped, PatternsDiffer

(* Whatever administrators change, rows keep their shape and paths differ. *)
LEMMA AdministerTyped ==
  ASSUME TablesTyped, Administer
  PROVE  TablesTyped'
BY AssignTyped, RemoveMenuTyped, MoveMenuTyped, RemoveModuleTyped, SetRouteTyped,
   RotateTyped DEF Administer

-----------------------------------------------------------------------------
(* Calls *)

\* What a call is sent with is nowhere the client's where it must not be.
KeepsIdentity(r) ==
  \A h \in Headers \cap Blocked : r.sent[h] # "client"

CallsTyped == call \in [Calls -> Call]

ProxyInv ==
  /\ TablesTyped /\ CallsTyped
  /\ CallsKnow /\ \A c \in Calls : KeepsIdentity(call[c])

(* A call that goes on keeps all but its stage.                            *)
LEMMA StageFields ==
  ASSUME NEW r \in Call, NEW pc, NEW q, q = [r EXCEPT !.pc = pc]
  PROVE  /\ q.pc = pc /\ q.role = r.role /\ q.path = r.path
         /\ q.could = r.could /\ q.may = r.may /\ q.refused = r.refused
         /\ q.missing = r.missing /\ q.sent = r.sent
         /\ q.menu = r.menu /\ q.service = r.service /\ q.credential = r.credential
         /\ pc \in Serving \cup Answers => q \in Call
BY DEF Call, Serving, Answers

(* A call that notes what there is knows it.                               *)
LEMMA NotedKnows ==
  ASSUME NEW r \in Call, NEW found \in [Paths -> Finds],
         NEW opened \in [Roles -> SUBSET Menus],
         r.pc \in Serving => r.role \in Roles /\ r.path \in Paths,
         r.pc \in {"authorize", "check", "fetch", "403", "502", "504", "upstream"} =>
           r.menu \in Menus /\ <<r.menu, r.service, r.credential>> \in r.could,
         r.pc \in {"check", "fetch", "502", "504", "upstream"} => r.menu \in r.may,
         r.pc = "403" => r.menu \in r.refused,
         r.pc = "404" => r.missing
  PROVE  LET q == Noted(r, found, opened) IN
         /\ q \in Call /\ q.sent = r.sent
         /\ Knows(q, found, opened)
<1> DEFINE q == Noted(r, found, opened)
<1>1. CASE r.pc \in {"new"} \cup Answers
  BY <1>1 DEF Noted, Knows, Serving, Answers
<1>2. CASE r.pc \notin {"new"} \cup Answers
  <2>1. r.pc \in Serving
    BY <1>2 DEF Call, Serving
  <2> DEFINE could == r.could \cup found[r.path]
             may == r.may \cup opened[r.role]
             refused == r.refused \cup (Menus \ opened[r.role])
             missing == r.missing \/ found[r.path] = {}
  <2>2. q = [r EXCEPT !.could = could, !.may = may, !.refused = refused,
                      !.missing = missing]
    BY <1>2 DEF Noted
  <2>3. /\ could \in Finds /\ may \in SUBSET Menus /\ refused \in SUBSET Menus
        /\ missing \in BOOLEAN
    <3>1. r.could \in Finds /\ r.may \in SUBSET Menus /\ r.refused \in SUBSET Menus
      BY DEF Call, Finds
    <3>2. found[r.path] \in Finds /\ opened[r.role] \in SUBSET Menus
      BY <2>1
    <3> QED
      BY <3>1, <3>2 DEF Finds
  <2>4. /\ found[r.path] \subseteq could /\ opened[r.role] \subseteq may
        /\ Menus \ opened[r.role] \subseteq refused /\ (found[r.path] = {} => missing)
        /\ r.could \subseteq could /\ r.may \subseteq may /\ r.refused \subseteq refused
    OBVIOUS
  <2> HIDE DEF could, may, refused, missing, q
  <2>5. /\ q \in Call
        /\ q.pc = r.pc /\ q.role = r.role /\ q.path = r.path /\ q.sent = r.sent
        /\ q.menu = r.menu /\ q.service = r.service /\ q.credential = r.credential
        /\ q.could = could /\ q.may = may /\ q.refused = refused
        /\ q.missing <=> missing
    BY <2>2, <2>3 DEF Call, Finds
  <2>6. Knows(q, found, opened)
    BY <2>1, <2>4, <2>5 DEF Knows, Serving
  <2> QED
    BY <2>5, <2>6 DEF q
<1> QED
  BY <1>1, <1>2

(* Every step of an administrator is noted by every call.                  *)
LEMMA AdministerInv ==
  ASSUME ProxyInv, Administer
  PROVE  ProxyInv'
<1>1. TablesTyped'
  BY AdministerTyped DEF ProxyInv
<1>2. call' = [c \in Calls |-> Noted(call[c], Found', Opened')]
  BY DEF Administer, AssignMenu, AssignModule, RemoveRole, RemoveMenu, MoveMenu,
         RemoveModule, RemoveService, SetRoute, RotateApiKey, Change
<1>3. Found' \in [Paths -> Finds] /\ Opened' \in [Roles -> SUBSET Menus]
  <2>1. RowsTyped' => FoundFits'
    BY FoundTyped, PTL
  <2> QED
    BY <1>1, <2>1 DEF TablesTyped, FoundFits
<1>4. ASSUME NEW c \in Calls
      PROVE  /\ call'[c] \in Call /\ call'[c].sent = call[c].sent
             /\ Knows(call'[c], Found', Opened')
  <2> DEFINE r == call[c]
             found == Found'
             opened == Opened'
  <2>1. r \in Call /\ Knows(r, Found, Opened)
    BY DEF ProxyInv, CallsKnow, CallsTyped
  <2>2. /\ r.pc \in Serving => r.role \in Roles /\ r.path \in Paths
        /\ r.pc \in {"authorize", "check", "fetch", "403", "502", "504", "upstream"} =>
             r.menu \in Menus /\ <<r.menu, r.service, r.credential>> \in r.could
        /\ r.pc \in {"check", "fetch", "502", "504", "upstream"} => r.menu \in r.may
        /\ r.pc = "403" => r.menu \in r.refused
        /\ r.pc = "404" => r.missing
    BY <2>1 DEF Knows
  <2>3. call'[c] = Noted(r, found, opened)
    BY <1>2
  <2>4. found \in [Paths -> Finds] /\ opened \in [Roles -> SUBSET Menus]
    BY <1>3
  <2> HIDE DEF r, found, opened
  <2>5. /\ Noted(r, found, opened) \in Call /\ Noted(r, found, opened).sent = r.sent
        /\ Knows(Noted(r, found, opened), found, opened)
    BY <2>1, <2>2, <2>4, NotedKnows
  <2> QED
    BY <2>3, <2>5 DEF r, found, opened
<1>5. CallsTyped'
  BY <1>2, <1>4 DEF CallsTyped
<1>6. \A c \in Calls : KeepsIdentity(call'[c])
  BY <1>4 DEF ProxyInv, KeepsIdentity
<1> QED
  BY <1>1, <1>4, <1>5, <1>6 DEF ProxyInv, CallsKnow

(* A step of one call that leaves it with what it must know.               *)
LEMMA OneCallInv ==
  ASSUME ProxyInv, NEW c \in Calls, NEW q \in Call,
         Goto(c, q), Knows(q, Found, Opened), KeepsIdentity(q)
  PROVE  ProxyInv'
<1>1. UNCHANGED <<roles, modules, services, menu, route, roleModule, roleMenu,
                  credential, changes>>
  BY DEF Goto, tables
<1>2. Found' = Found /\ Opened' = Opened
  BY <1>1 DEF Found, Opened, Matching, InUse, IsOpen, MayOpen, Assigned
<1>3. TablesTyped'
  BY <1>1 DEF ProxyInv, TablesTyped, RowsTyped, PatternsDiffer
<1>4. /\ CallsTyped' /\ call'[c] = q /\ \A d \in Calls \ {c} : call'[d] = call[d]
  BY DEF Goto, ProxyInv, CallsTyped
<1>5. \A d \in Calls : Knows(call'[d], Found, Opened) /\ KeepsIdentity(call'[d])
  BY <1>4 DEF ProxyInv, CallsKnow
<1> HIDE DEF Found, Opened
<1> QED
  BY <1>2, <1>3, <1>4, <1>5 DEF ProxyInv, CallsKnow

(* A call comes in.                                                        *)
LEMMA ArriveInv ==
  ASSUME ProxyInv, NEW c \in Calls, Arrive(c)
  PROVE  ProxyInv'
<1>1. PICK r \in Roles, p \in Paths, m \in Methods, b \in BOOLEAN, H \in HeaderSets :
        Goto(c, Noted([call[c] EXCEPT !.pc = "resolve", !.role = r, !.path = p,
                        !.method = m, !.permissions = b, !.headers = H],
                      Found, Opened))
  BY Zenon DEF Arrive
<1> DEFINE new == [call[c] EXCEPT !.pc = "resolve", !.role = r, !.path = p,
                        !.method = m, !.permissions = b, !.headers = H]
<1>2. call[c] \in Call /\ KeepsIdentity(call[c])
  BY DEF ProxyInv, CallsKnow, CallsTyped
<1>3. /\ new \in Call /\ new.pc = "resolve" /\ new.role = r /\ new.path = p
      /\ new.sent = call[c].sent
  <2>1. H \in SUBSET Headers
    BY DEF Headers
  <2> QED
    BY <1>2, <2>1 DEF Call
<1>4. Found \in [Paths -> Finds] /\ Opened \in [Roles -> SUBSET Menus]
  BY FoundTyped DEF ProxyInv, TablesTyped, FoundFits
<1>5. Goto(c, Noted(new, Found, Opened))
  BY <1>1
<1> HIDE DEF new
<1> DEFINE q == Noted(new, Found, Opened)
<1>6. q \in Call /\ q.sent = new.sent /\ Knows(q, Found, Opened)
  BY <1>3, <1>4, NotedKnows
<1>7. KeepsIdentity(q)
  BY <1>2, <1>3, <1>6 DEF KeepsIdentity
<1> HIDE DEF q
<1> QED
  BY <1>5, <1>6, <1>7, OneCallInv DEF q

(* The route is resolved.                                                  *)
LEMMA ResolveInv ==
  ASSUME ProxyInv, NEW c \in Calls, ResolveRoute(c)
  PROVE  ProxyInv'
<1> DEFINE r == call[c]
<1>1. r \in Call /\ KeepsIdentity(r) /\ Knows(r, Found, Opened) /\ r.pc = "resolve"
  BY DEF ProxyInv, CallsKnow, CallsTyped, ResolveRoute
<1>2. r.path \in Paths /\ Found[r.path] \subseteq r.could /\ (Found[r.path] = {} => r.missing)
  BY <1>1 DEF Knows, Serving
<1>3. Found[r.path] = {<<n, route[n].service, credential[route[n].service]>> :
                          n \in Matching(r.path)}
  BY <1>2 DEF Found
<1>4. CASE Matching(r.path) = {} /\ To(c, "404")
  <2> DEFINE q == [r EXCEPT !.pc = "404"]
  <2>1. Goto(c, q)
    BY <1>4 DEF To
  <2>2. q.pc = "404" /\ q.missing = r.missing /\ q.sent = r.sent /\ q \in Call
    BY <1>1, StageFields DEF Answers
  <2>3. r.missing
    BY <1>2, <1>3, <1>4
  <2> HIDE DEF q
  <2>4. Knows(q, Found, Opened) /\ KeepsIdentity(q)
    BY <1>1, <2>2, <2>3 DEF Knows, KeepsIdentity, Serving
  <2> QED
    BY <2>1, <2>2, <2>4, OneCallInv
<1>5. ASSUME NEW n \in Matching(r.path),
             Goto(c, [r EXCEPT !.menu = n, !.service = route[n].service,
                        !.credential = credential[route[n].service],
                        !.pc = IF r.method \in route[n].methods THEN "authorize" ELSE "405"])
      PROVE  ProxyInv'
  <2> DEFINE s == route[n].service
             pc == IF r.method \in route[n].methods THEN "authorize" ELSE "405"
             q == [r EXCEPT !.menu = n, !.service = s, !.credential = credential[s],
                            !.pc = pc]
  <2>1. <<n, s, credential[s]>> \in Found[r.path]
    BY <1>3
  <2>2. n \in Menus /\ s \in Services
    BY DEF Matching, InUse, ProxyInv, TablesTyped, RowsTyped
  <2>3. credential[s] \in Credential /\ pc \in {"authorize", "405"}
    BY <2>2 DEF ProxyInv, TablesTyped, RowsTyped
  <2>4. Goto(c, q)
    BY <1>5
  <2> HIDE DEF s, pc
  <2>5. /\ q \in Call /\ q.pc = pc /\ q.menu = n /\ q.service = s
        /\ q.credential = credential[s] /\ q.role = r.role /\ q.path = r.path
        /\ q.could = r.could /\ q.may = r.may /\ q.refused = r.refused
        /\ q.missing = r.missing /\ q.sent = r.sent
    BY <1>1, <2>2, <2>3, ZenonT(60) DEF Call, Answers
  <2> HIDE DEF q
  <2>6. Knows(q, Found, Opened) /\ KeepsIdentity(q)
    BY <1>1, <1>2, <2>1, <2>2, <2>3, <2>5 DEF Knows, KeepsIdentity, Serving
  <2> QED
    BY <2>4, <2>5, <2>6, OneCallInv
<1> QED
  BY <1>4, <1>5 DEF ResolveRoute

(* The role's access is looked up.                                         *)
LEMMA AuthorizeInv ==
  ASSUME ProxyInv, NEW c \in Calls, EnsureAuthorized(c)
  PROVE  ProxyInv'
<1> DEFINE r == call[c]
           pc == IF MayOpen(r.role, r.menu) THEN "check" ELSE "403"
           q == [r EXCEPT !.pc = pc]
<1>1. /\ r \in Call /\ KeepsIdentity(r) /\ Knows(r, Found, Opened)
      /\ r.pc = "authorize" /\ Goto(c, q)
  BY DEF ProxyInv, CallsKnow, CallsTyped, EnsureAuthorized, To
<1>2. r.role \in Roles /\ r.menu \in Menus
  BY <1>1 DEF Knows, Serving
<1>3. /\ pc = "check" => r.menu \in Opened[r.role]
      /\ pc = "403" => r.menu \in Menus \ Opened[r.role]
      /\ pc \in {"check", "403"}
  BY <1>2 DEF Opened
<1> HIDE DEF pc
<1>4. /\ q \in Call /\ q.pc = pc /\ q.role = r.role /\ q.path = r.path
      /\ q.could = r.could /\ q.may = r.may /\ q.refused = r.refused
      /\ q.missing = r.missing /\ q.sent = r.sent
      /\ q.menu = r.menu /\ q.service = r.service /\ q.credential = r.credential
  BY <1>1, <1>3, StageFields DEF Serving, Answers
<1> HIDE DEF q
<1>5. Knows(q, Found, Opened) /\ KeepsIdentity(q)
  BY <1>1, <1>3, <1>4 DEF Knows, KeepsIdentity, Serving
<1> QED
  BY <1>1, <1>4, <1>5, OneCallInv

(* The headers that are sent: what is blocked of the client is not.        *)
LEMMA HeadersKept ==
  ASSUME NEW c \in Calls
  PROVE  /\ BuildHeaders(c) \in [Headers -> {"client", "gateway", None}]
         /\ \A h \in Headers \cap Blocked : BuildHeaders(c)[h] # "client"
BY SeedAssumption DEF BuildHeaders

(* The target is admitted or not.                                          *)
LEMMA CheckInv ==
  ASSUME ProxyInv, NEW c \in Calls, CheckTarget(c)
  PROVE  ProxyInv'
<1> DEFINE r == call[c]
           headers == BuildHeaders(c)
<1>1. /\ r \in Call /\ KeepsIdentity(r) /\ Knows(r, Found, Opened)
      /\ r.pc = "check"
  BY DEF ProxyInv, CallsKnow, CallsTyped, CheckTarget
<1>2. CASE To(c, "400")
  <2> DEFINE q == [r EXCEPT !.pc = "400"]
  <2>1. Goto(c, q)
    BY <1>2 DEF To
  <2>2. q.pc = "400" /\ q.sent = r.sent /\ q \in Call
    BY <1>1, StageFields DEF Answers
  <2> HIDE DEF q
  <2>3. Knows(q, Found, Opened) /\ KeepsIdentity(q)
    BY <1>1, <2>2 DEF Knows, KeepsIdentity, Serving
  <2> QED
    BY <2>1, <2>2, <2>3, OneCallInv
<1>3. CASE Goto(c, [r EXCEPT !.pc = "fetch", !.sent = headers])
  <2> DEFINE q == [r EXCEPT !.pc = "fetch", !.sent = headers]
  <2>1. /\ headers \in [Headers -> {"client", "gateway", None}]
        /\ \A h \in Headers \cap Blocked : headers[h] # "client"
    BY HeadersKept DEF ProxyInv
  <2> HIDE DEF headers
  <2>2. /\ q \in Call /\ q.pc = "fetch" /\ q.role = r.role /\ q.path = r.path
        /\ q.could = r.could /\ q.may = r.may /\ q.refused = r.refused
        /\ q.missing = r.missing /\ q.sent = headers
        /\ q.menu = r.menu /\ q.service = r.service /\ q.credential = r.credential
    BY <1>1, <2>1 DEF Call
  <2> HIDE DEF q
  <2>3. Knows(q, Found, Opened) /\ KeepsIdentity(q)
    BY <1>1, <2>1, <2>2 DEF Knows, KeepsIdentity, Serving
  <2>4. Goto(c, q)
    BY <1>3 DEF q
  <2> QED
    BY <2>2, <2>3, <2>4, OneCallInv
<1> QED
  BY <1>2, <1>3 DEF CheckTarget

(* The service answers, or does not.                                       *)
LEMMA FetchInv ==
  ASSUME ProxyInv, NEW c \in Calls, TimesOut(c) \/ Upstream(c)
  PROVE  ProxyInv'
<1> DEFINE r == call[c]
<1>1. /\ r \in Call /\ KeepsIdentity(r) /\ Knows(r, Found, Opened)
      /\ r.pc = "fetch"
  BY DEF ProxyInv, CallsKnow, CallsTyped, TimesOut, Upstream
<1>2. PICK pc \in {"502", "504", "upstream"} : Goto(c, [r EXCEPT !.pc = pc])
  BY DEF TimesOut, Upstream, To
<1> DEFINE q == [r EXCEPT !.pc = pc]
<1>3. Goto(c, q)
  BY <1>2
<1>4. /\ q \in Call /\ q.pc = pc /\ q.sent = r.sent
      /\ q.could = r.could /\ q.may = r.may
      /\ q.menu = r.menu /\ q.service = r.service /\ q.credential = r.credential
  BY <1>1, <1>2, StageFields DEF Answers
<1> HIDE DEF q
<1>5. Knows(q, Found, Opened) /\ KeepsIdentity(q)
  BY <1>1, <1>2, <1>4 DEF Knows, KeepsIdentity, Serving
<1> QED
  BY <1>3, <1>4, <1>5, OneCallInv

-----------------------------------------------------------------------------
(* Any step *)

LEMMA ProxyNextInv ==
  ASSUME ProxyInv, [Next]_vars
  PROVE  ProxyInv'
<1>1. CASE UNCHANGED vars
  <2>1. UNCHANGED <<roles, modules, services, menu, route, roleModule, roleMenu,
                    credential, changes, call>>
    BY <1>1 DEF vars, tables
  <2>2. Found' = Found /\ Opened' = Opened
    BY <2>1 DEF Found, Opened, Matching, InUse, IsOpen, MayOpen, Assigned
  <2>3. TablesTyped' /\ CallsTyped'
    BY <2>1 DEF ProxyInv, TablesTyped, RowsTyped, PatternsDiffer, CallsTyped
  <2> HIDE DEF Found, Opened
  <2> QED
    BY <2>1, <2>2, <2>3 DEF ProxyInv, CallsKnow
<1> QED
  BY <1>1, AdministerInv, ArriveInv, ResolveInv, AuthorizeInv, CheckInv, FetchInv
     DEF Next, Handle

LEMMA ProxyInitInv ==
  ASSUME Init
  PROVE  ProxyInv
<1>1. TablesTyped
  <2>1. credential \in [Services -> Credential]
    <3>1. 0 \in 0 .. MaxChanges
      BY SeedAssumption
    <3> QED
      BY <3>1 DEF Init, Credential
  <2>2. changes \in 0 .. MaxChanges
    BY SeedAssumption DEF Init
  <2>3. roleModule \subseteq Roles \X Modules /\ roleMenu \subseteq Roles \X Menus
    BY DEF Init
  <2> QED
    BY <2>1, <2>2, <2>3, SeedAssumption
       DEF Init, TablesTyped, RowsTyped, PatternsDiffer
<1>2. /\ NewCall \in Call /\ NewCall.pc = "new"
      /\ \A h \in Headers : NewCall.sent[h] = None
  <2>1. [h \in Headers |-> None] \in [Headers -> {"client", "gateway", None}]
    OBVIOUS
  <2> QED
    BY <2>1 DEF NewCall, Call
<1>3. CallsTyped /\ \A c \in Calls : call[c] = NewCall
  BY <1>2 DEF Init, CallsTyped
<1>4. Knows(NewCall, Found, Opened) /\ KeepsIdentity(NewCall)
  BY <1>2, SeedAssumption DEF Knows, Serving, KeepsIdentity
<1> QED
  BY <1>1, <1>3, <1>4 DEF ProxyInv, CallsKnow

-----------------------------------------------------------------------------
(* Theorems *)

(* Every reachable state has tables of the right shape and calls that know *)
(* what they rely on.                                                      *)
THEOREM ProxyInvariance == Spec => []ProxyInv
<1>1. Init => ProxyInv
  BY ProxyInitInv
<1>2. ProxyInv /\ [Next]_vars => ProxyInv'
  BY ProxyNextInv
<1> QED
  BY <1>1, <1>2, PTL DEF Spec

(* Rows, calls and what was noted of them keep their shape, and no two     *)
(* routes share a public path.                                             *)
THEOREM ProxyTypeCorrect == Spec => []TypeOK
<1>1. ProxyInv => TypeOK
  BY DEF ProxyInv, TablesTyped, RowsTyped, PatternsDiffer, CallsTyped, TypeOK
<1> QED
  BY <1>1, ProxyInvariance, PTL

(* However routes, access and keys change under a call, it goes only where *)
(* a route led while it was served, for a menu its role could open then.   *)
THEOREM CallsInForce == Spec => []CallsUseWhatWasInForce
<1>1. ProxyInv => CallsUseWhatWasInForce
  BY DEF ProxyInv, CallsKnow, Knows, CallsUseWhatWasInForce
<1> QED
  BY <1>1, ProxyInvariance, PTL

(* Nor is it refused for anything that was never so while it was served.   *)
THEOREM RefusalsReasoned == Spec => []RefusalsHaveAReason
<1>1. ASSUME ProxyInv, NEW c \in Calls, call[c].pc = "403"
      PROVE  /\ call[c].menu \in call[c].refused
             /\ \E t \in call[c].could : t[1] = call[c].menu
  <2>1. /\ <<call[c].menu, call[c].service, call[c].credential>> \in call[c].could
        /\ call[c].menu \in call[c].refused
    BY <1>1 DEF ProxyInv, CallsKnow, Knows
  <2> QED
    BY <2>1
<1>2. ProxyInv => RefusalsHaveAReason
  BY <1>1 DEF ProxyInv, CallsKnow, Knows, RefusalsHaveAReason
<1> QED
  BY <1>2, ProxyInvariance, PTL

(* The tree of a role is part of what treeForRole finds, and with a menu   *)
(* it has the menu's parent: without it, the rest would do for a tree.     *)
LEMMA TreeHangsTogether ==
  ASSUME NEW r \in Roles
  PROVE  /\ Tree(r) \subseteq Visible(r)
         /\ \A n \in Tree(r) : menu[n].parent # None => menu[n].parent \in Tree(r)
<1> DEFINE seen == Visible(r)
           tree == Tree(r)
<1>1. /\ tree = {n \in seen : \A S \in SUBSET seen : Rooted(S, seen) => n \in S}
      /\ tree \in SUBSET seen
  BY DEF Tree
<1>2. Rooted(tree, seen)
  <2> HIDE DEF seen, tree
  <2> QED
    BY <1>1 DEF Rooted
<1>3. ASSUME NEW n \in tree, menu[n].parent # None, menu[n].parent \notin tree
      PROVE  FALSE
  <2> DEFINE rest == tree \ {n}
  <2> HIDE DEF seen, tree
  <2>1. rest \in SUBSET seen
    BY <1>1
  <2>2. Rooted(rest, seen)
    BY <1>2, <1>3 DEF Rooted
  <2>3. n \in rest
    BY <1>1, <1>3, <2>1, <2>2
  <2> QED
    BY <2>3
<1> QED
  BY <1>1, <1>3

(* A role is shown only menus that it may open, below menus it is shown.   *)
THEOREM TreesAllowed == Spec => []ShownMenusAreAllowed
<1>1. ASSUME NEW r \in Roles, NEW n \in Visible(r)
      PROVE  MayOpen(r, n) /\ IsOpen(n)
  BY DEF Visible, Assigned, MayOpen
<1>2. ShownMenusAreAllowed
  BY <1>1, TreeHangsTogether DEF ShownMenusAreAllowed
<1> QED
  BY <1>2, PTL

(* No header that a client sends reaches a service as the identity of the  *)
(* user or of the Gateway.                                                 *)
THEOREM IdentityKept == Spec => []IdentityIsTheGateways
<1>1. UserIdentity \cup ServiceIdentity
        \cup {"x-gateway-permissions", "authorization"} \subseteq Blocked
  BY DEF Blocked, UserIdentity, ServiceIdentity
<1>2. ProxyInv => IdentityIsTheGateways
  BY <1>1 DEF ProxyInv, KeepsIdentity, IdentityIsTheGateways
<1> QED
  BY <1>2, ProxyInvariance, PTL

-----------------------------------------------------------------------------
(* The guard of the addresses *)

Octet == 0 .. 255

\* Four octets.
Ip == [1 .. 4 -> Octet]

LEMMA OneToFour == 1 .. 4 = {1, 2, 3, 4}
OBVIOUS

(* The order of addresses, octet by octet.                                 *)
LEMMA OrderByOctets ==
  ASSUME NEW p \in Ip, NEW q \in Ip
  PROVE  UpTo(p, q) <=> \/ p[1] < q[1]
                        \/ p[1] = q[1] /\ p[2] < q[2]
                        \/ p[1] = q[1] /\ p[2] = q[2] /\ p[3] < q[3]
                        \/ p[1] = q[1] /\ p[2] = q[2] /\ p[3] = q[3] /\ p[4] <= q[4]
<1>1. p = q <=> p[1] = q[1] /\ p[2] = q[2] /\ p[3] = q[3] /\ p[4] = q[4]
  BY OneToFour DEF Ip
<1>2. \A i \in 1 .. 4 : p[i] \in Nat /\ q[i] \in Nat
  <2>1. Octet \subseteq Nat
    BY DEF Octet
  <2> QED
    BY <2>1 DEF Ip
<1> DEFINE Less(i) == p[i] < q[i] /\ \A j \in 1 .. i - 1 : p[j] = q[j]
<1>3. /\ Less(1) <=> p[1] < q[1]
      /\ Less(2) <=> p[2] < q[2] /\ p[1] = q[1]
      /\ Less(3) <=> p[3] < q[3] /\ p[1] = q[1] /\ p[2] = q[2]
      /\ Less(4) <=> p[4] < q[4] /\ p[1] = q[1] /\ p[2] = q[2] /\ p[3] = q[3]
  OBVIOUS
<1>4. UpTo(p, q) <=> p = q \/ \E i \in 1 .. 4 : Less(i)
  BY Zenon DEF UpTo
<1>5. UpTo(p, q) <=> p = q \/ Less(1) \/ Less(2) \/ Less(3) \/ Less(4)
  <2> HIDE DEF Less
  <2> QED
    BY <1>4, OneToFour
<1>6. p[4] <= q[4] <=> p[4] < q[4] \/ p[4] = q[4]
  BY <1>2
<1> QED
  BY <1>1, <1>3, <1>5, <1>6

(* The mask, octet by octet.                                               *)
LEMMA MaskByOctets ==
  ASSUME NEW p \in Ip, NEW q \in Ip, NEW bits
  PROVE  IsInCidr(p, q, bits) <=>
           /\ p[1] \div 2^Cleared(bits, 1) = q[1] \div 2^Cleared(bits, 1)
           /\ p[2] \div 2^Cleared(bits, 2) = q[2] \div 2^Cleared(bits, 2)
           /\ p[3] \div 2^Cleared(bits, 3) = q[3] \div 2^Cleared(bits, 3)
           /\ p[4] \div 2^Cleared(bits, 4) = q[4] \div 2^Cleared(bits, 4)
BY OneToFour, Zenon DEF IsInCidr

(* Octets that are not cleared are compared, and those cleared are not.    *)
LEMMA Powers == 2^0 = 1 /\ 2^1 = 2 /\ 2^4 = 16 /\ 2^6 = 64 /\ 2^8 = 256
OBVIOUS

LEMMA ClearedBits ==
  /\ Cleared(4, 1) = 4 /\ Cleared(4, 2) = 8 /\ Cleared(4, 3) = 8 /\ Cleared(4, 4) = 8
  /\ Cleared(8, 1) = 0 /\ Cleared(8, 2) = 8 /\ Cleared(8, 3) = 8 /\ Cleared(8, 4) = 8
  /\ Cleared(10, 1) = 0 /\ Cleared(10, 2) = 6 /\ Cleared(10, 3) = 8 /\ Cleared(10, 4) = 8
  /\ Cleared(12, 1) = 0 /\ Cleared(12, 2) = 4 /\ Cleared(12, 3) = 8 /\ Cleared(12, 4) = 8
  /\ Cleared(15, 1) = 0 /\ Cleared(15, 2) = 1 /\ Cleared(15, 3) = 8 /\ Cleared(15, 4) = 8
  /\ Cleared(16, 1) = 0 /\ Cleared(16, 2) = 0 /\ Cleared(16, 3) = 8 /\ Cleared(16, 4) = 8
  /\ Cleared(24, 1) = 0 /\ Cleared(24, 2) = 0 /\ Cleared(24, 3) = 0 /\ Cleared(24, 4) = 8
BY DEF Cleared

LEMMA OctetsOf ==
  ASSUME NEW p \in Ip
  PROVE  p[1] \in Octet /\ p[2] \in Octet /\ p[3] \in Octet /\ p[4] \in Octet
BY DEF Ip

(* An octet without its low bits; all of its bits are eight.               *)
LEMMA Quotients ==
  /\ \A x \in Octet : x \div 2^0 = x /\ x \div 2^8 = 0
  /\ 2^1 = 2 /\ 2^4 = 16 /\ 2^6 = 64
<1>1. \A x \in Octet : x \div 1 = x /\ x \div 256 = 0
  BY DEF Octet
<1> QED
  BY <1>1, Powers

LEMMA Slash4 ==
  ASSUME NEW p \in Ip, NEW q \in Ip
  PROVE  IsInCidr(p, q, 4) <=> p[1] \div 16 = q[1] \div 16
<1>1. IsInCidr(p, q, 4) <=>
        /\ p[1] \div 2^Cleared(4, 1) = q[1] \div 2^Cleared(4, 1)
        /\ p[2] \div 2^Cleared(4, 2) = q[2] \div 2^Cleared(4, 2)
        /\ p[3] \div 2^Cleared(4, 3) = q[3] \div 2^Cleared(4, 3)
        /\ p[4] \div 2^Cleared(4, 4) = q[4] \div 2^Cleared(4, 4)
  BY MaskByOctets
<1>2. IsInCidr(p, q, 4) <=>
        /\ p[1] \div 2^4 = q[1] \div 2^4
        /\ p[2] \div 2^8 = q[2] \div 2^8
        /\ p[3] \div 2^8 = q[3] \div 2^8
        /\ p[4] \div 2^8 = q[4] \div 2^8
  BY <1>1, ClearedBits
<1> QED
  BY <1>2, OctetsOf, Quotients

LEMMA Slash8 ==
  ASSUME NEW p \in Ip, NEW q \in Ip
  PROVE  IsInCidr(p, q, 8) <=> p[1] = q[1]
<1>1. IsInCidr(p, q, 8) <=>
        /\ p[1] \div 2^Cleared(8, 1) = q[1] \div 2^Cleared(8, 1)
        /\ p[2] \div 2^Cleared(8, 2) = q[2] \div 2^Cleared(8, 2)
        /\ p[3] \div 2^Cleared(8, 3) = q[3] \div 2^Cleared(8, 3)
        /\ p[4] \div 2^Cleared(8, 4) = q[4] \div 2^Cleared(8, 4)
  BY MaskByOctets
<1>2. IsInCidr(p, q, 8) <=>
        /\ p[1] \div 2^0 = q[1] \div 2^0
        /\ p[2] \div 2^8 = q[2] \div 2^8
        /\ p[3] \div 2^8 = q[3] \div 2^8
        /\ p[4] \div 2^8 = q[4] \div 2^8
  BY <1>1, ClearedBits
<1> QED
  BY <1>2, OctetsOf, Quotients

LEMMA Slash10 ==
  ASSUME NEW p \in Ip, NEW q \in Ip
  PROVE  IsInCidr(p, q, 10) <=> p[1] = q[1] /\ p[2] \div 64 = q[2] \div 64
<1>1. IsInCidr(p, q, 10) <=>
        /\ p[1] \div 2^Cleared(10, 1) = q[1] \div 2^Cleared(10, 1)
        /\ p[2] \div 2^Cleared(10, 2) = q[2] \div 2^Cleared(10, 2)
        /\ p[3] \div 2^Cleared(10, 3) = q[3] \div 2^Cleared(10, 3)
        /\ p[4] \div 2^Cleared(10, 4) = q[4] \div 2^Cleared(10, 4)
  BY MaskByOctets
<1>2. IsInCidr(p, q, 10) <=>
        /\ p[1] \div 2^0 = q[1] \div 2^0
        /\ p[2] \div 2^6 = q[2] \div 2^6
        /\ p[3] \div 2^8 = q[3] \div 2^8
        /\ p[4] \div 2^8 = q[4] \div 2^8
  BY <1>1, ClearedBits
<1> QED
  BY <1>2, OctetsOf, Quotients

LEMMA Slash12 ==
  ASSUME NEW p \in Ip, NEW q \in Ip
  PROVE  IsInCidr(p, q, 12) <=> p[1] = q[1] /\ p[2] \div 16 = q[2] \div 16
<1>1. IsInCidr(p, q, 12) <=>
        /\ p[1] \div 2^Cleared(12, 1) = q[1] \div 2^Cleared(12, 1)
        /\ p[2] \div 2^Cleared(12, 2) = q[2] \div 2^Cleared(12, 2)
        /\ p[3] \div 2^Cleared(12, 3) = q[3] \div 2^Cleared(12, 3)
        /\ p[4] \div 2^Cleared(12, 4) = q[4] \div 2^Cleared(12, 4)
  BY MaskByOctets
<1>2. IsInCidr(p, q, 12) <=>
        /\ p[1] \div 2^0 = q[1] \div 2^0
        /\ p[2] \div 2^4 = q[2] \div 2^4
        /\ p[3] \div 2^8 = q[3] \div 2^8
        /\ p[4] \div 2^8 = q[4] \div 2^8
  BY <1>1, ClearedBits
<1> QED
  BY <1>2, OctetsOf, Quotients

LEMMA Slash15 ==
  ASSUME NEW p \in Ip, NEW q \in Ip
  PROVE  IsInCidr(p, q, 15) <=> p[1] = q[1] /\ p[2] \div 2 = q[2] \div 2
<1>1. IsInCidr(p, q, 15) <=>
        /\ p[1] \div 2^Cleared(15, 1) = q[1] \div 2^Cleared(15, 1)
        /\ p[2] \div 2^Cleared(15, 2) = q[2] \div 2^Cleared(15, 2)
        /\ p[3] \div 2^Cleared(15, 3) = q[3] \div 2^Cleared(15, 3)
        /\ p[4] \div 2^Cleared(15, 4) = q[4] \div 2^Cleared(15, 4)
  BY MaskByOctets
<1>2. IsInCidr(p, q, 15) <=>
        /\ p[1] \div 2^0 = q[1] \div 2^0
        /\ p[2] \div 2^1 = q[2] \div 2^1
        /\ p[3] \div 2^8 = q[3] \div 2^8
        /\ p[4] \div 2^8 = q[4] \div 2^8
  BY <1>1, ClearedBits
<1> QED
  BY <1>2, OctetsOf, Quotients

LEMMA Slash16 ==
  ASSUME NEW p \in Ip, NEW q \in Ip
  PROVE  IsInCidr(p, q, 16) <=> p[1] = q[1] /\ p[2] = q[2]
<1>1. IsInCidr(p, q, 16) <=>
        /\ p[1] \div 2^Cleared(16, 1) = q[1] \div 2^Cleared(16, 1)
        /\ p[2] \div 2^Cleared(16, 2) = q[2] \div 2^Cleared(16, 2)
        /\ p[3] \div 2^Cleared(16, 3) = q[3] \div 2^Cleared(16, 3)
        /\ p[4] \div 2^Cleared(16, 4) = q[4] \div 2^Cleared(16, 4)
  BY MaskByOctets
<1>2. IsInCidr(p, q, 16) <=>
        /\ p[1] \div 2^0 = q[1] \div 2^0
        /\ p[2] \div 2^0 = q[2] \div 2^0
        /\ p[3] \div 2^8 = q[3] \div 2^8
        /\ p[4] \div 2^8 = q[4] \div 2^8
  BY <1>1, ClearedBits
<1> QED
  BY <1>2, OctetsOf, Quotients

LEMMA Slash24 ==
  ASSUME NEW p \in Ip, NEW q \in Ip
  PROVE  IsInCidr(p, q, 24) <=> p[1] = q[1] /\ p[2] = q[2] /\ p[3] = q[3]
<1>1. IsInCidr(p, q, 24) <=>
        /\ p[1] \div 2^Cleared(24, 1) = q[1] \div 2^Cleared(24, 1)
        /\ p[2] \div 2^Cleared(24, 2) = q[2] \div 2^Cleared(24, 2)
        /\ p[3] \div 2^Cleared(24, 3) = q[3] \div 2^Cleared(24, 3)
        /\ p[4] \div 2^Cleared(24, 4) = q[4] \div 2^Cleared(24, 4)
  BY MaskByOctets
<1>2. IsInCidr(p, q, 24) <=>
        /\ p[1] \div 2^0 = q[1] \div 2^0
        /\ p[2] \div 2^0 = q[2] \div 2^0
        /\ p[3] \div 2^0 = q[3] \div 2^0
        /\ p[4] \div 2^8 = q[4] \div 2^8
  BY <1>1, ClearedBits
<1> QED
  BY <1>2, OctetsOf, Quotients

(* What the mask of each range asks of the octets.                         *)
LEMMA MaskAsks ==
  ASSUME NEW p \in Ip
  PROVE  /\ IsInCidr(p, <<0, 0, 0, 0>>, 8) <=> p[1] = 0
         /\ IsInCidr(p, <<10, 0, 0, 0>>, 8) <=> p[1] = 10
         /\ IsInCidr(p, <<100, 64, 0, 0>>, 10) <=> p[1] = 100 /\ p[2] \in 64 .. 127
         /\ IsInCidr(p, <<127, 0, 0, 0>>, 8) <=> p[1] = 127
         /\ IsInCidr(p, <<169, 254, 0, 0>>, 16) <=> p[1] = 169 /\ p[2] = 254
         /\ IsInCidr(p, <<172, 16, 0, 0>>, 12) <=> p[1] = 172 /\ p[2] \in 16 .. 31
         /\ IsInCidr(p, <<192, 0, 0, 0>>, 24) <=> p[1] = 192 /\ p[2] = 0 /\ p[3] = 0
         /\ IsInCidr(p, <<192, 168, 0, 0>>, 16) <=> p[1] = 192 /\ p[2] = 168
         /\ IsInCidr(p, <<198, 18, 0, 0>>, 15) <=> p[1] = 198 /\ p[2] \in 18 .. 19
         /\ IsInCidr(p, <<224, 0, 0, 0>>, 4) <=> p[1] \in 224 .. 239
         /\ IsInCidr(p, <<240, 0, 0, 0>>, 4) <=> p[1] \in 240 .. 255
<1>1. IsInCidr(p, <<0, 0, 0, 0>>, 8) <=> p[1] = 0
  <2> DEFINE q == <<0, 0, 0, 0>>
  <2>1. q \in Ip /\ q[1] = 0 /\ q[2] = 0 /\ q[3] = 0
    BY DEF Ip, Octet
  <2> HIDE DEF q
  <2>2. IsInCidr(p, q, 8) <=> p[1] = 0
    BY <2>1, Slash8, OctetsOf DEF Octet
  <2> QED
    BY <2>2 DEF q
<1>2. IsInCidr(p, <<10, 0, 0, 0>>, 8) <=> p[1] = 10
  <2> DEFINE q == <<10, 0, 0, 0>>
  <2>1. q \in Ip /\ q[1] = 10 /\ q[2] = 0 /\ q[3] = 0
    BY DEF Ip, Octet
  <2> HIDE DEF q
  <2>2. IsInCidr(p, q, 8) <=> p[1] = 10
    BY <2>1, Slash8, OctetsOf DEF Octet
  <2> QED
    BY <2>2 DEF q
<1>3. IsInCidr(p, <<100, 64, 0, 0>>, 10) <=> p[1] = 100 /\ p[2] \in 64 .. 127
  <2> DEFINE q == <<100, 64, 0, 0>>
  <2>1. q \in Ip /\ q[1] = 100 /\ q[2] = 64 /\ q[3] = 0
    BY DEF Ip, Octet
  <2> HIDE DEF q
  <2>2. IsInCidr(p, q, 10) <=> p[1] = 100 /\ p[2] \in 64 .. 127
    BY <2>1, Slash10, OctetsOf DEF Octet
  <2> QED
    BY <2>2 DEF q
<1>4. IsInCidr(p, <<127, 0, 0, 0>>, 8) <=> p[1] = 127
  <2> DEFINE q == <<127, 0, 0, 0>>
  <2>1. q \in Ip /\ q[1] = 127 /\ q[2] = 0 /\ q[3] = 0
    BY DEF Ip, Octet
  <2> HIDE DEF q
  <2>2. IsInCidr(p, q, 8) <=> p[1] = 127
    BY <2>1, Slash8, OctetsOf DEF Octet
  <2> QED
    BY <2>2 DEF q
<1>5. IsInCidr(p, <<169, 254, 0, 0>>, 16) <=> p[1] = 169 /\ p[2] = 254
  <2> DEFINE q == <<169, 254, 0, 0>>
  <2>1. q \in Ip /\ q[1] = 169 /\ q[2] = 254 /\ q[3] = 0
    BY DEF Ip, Octet
  <2> HIDE DEF q
  <2>2. IsInCidr(p, q, 16) <=> p[1] = 169 /\ p[2] = 254
    BY <2>1, Slash16, OctetsOf DEF Octet
  <2> QED
    BY <2>2 DEF q
<1>6. IsInCidr(p, <<172, 16, 0, 0>>, 12) <=> p[1] = 172 /\ p[2] \in 16 .. 31
  <2> DEFINE q == <<172, 16, 0, 0>>
  <2>1. q \in Ip /\ q[1] = 172 /\ q[2] = 16 /\ q[3] = 0
    BY DEF Ip, Octet
  <2> HIDE DEF q
  <2>2. IsInCidr(p, q, 12) <=> p[1] = 172 /\ p[2] \in 16 .. 31
    BY <2>1, Slash12, OctetsOf DEF Octet
  <2> QED
    BY <2>2 DEF q
<1>7. IsInCidr(p, <<192, 0, 0, 0>>, 24) <=> p[1] = 192 /\ p[2] = 0 /\ p[3] = 0
  <2> DEFINE q == <<192, 0, 0, 0>>
  <2>1. q \in Ip /\ q[1] = 192 /\ q[2] = 0 /\ q[3] = 0
    BY DEF Ip, Octet
  <2> HIDE DEF q
  <2>2. IsInCidr(p, q, 24) <=> p[1] = 192 /\ p[2] = 0 /\ p[3] = 0
    BY <2>1, Slash24, OctetsOf DEF Octet
  <2> QED
    BY <2>2 DEF q
<1>8. IsInCidr(p, <<192, 168, 0, 0>>, 16) <=> p[1] = 192 /\ p[2] = 168
  <2> DEFINE q == <<192, 168, 0, 0>>
  <2>1. q \in Ip /\ q[1] = 192 /\ q[2] = 168 /\ q[3] = 0
    BY DEF Ip, Octet
  <2> HIDE DEF q
  <2>2. IsInCidr(p, q, 16) <=> p[1] = 192 /\ p[2] = 168
    BY <2>1, Slash16, OctetsOf DEF Octet
  <2> QED
    BY <2>2 DEF q
<1>9. IsInCidr(p, <<198, 18, 0, 0>>, 15) <=> p[1] = 198 /\ p[2] \in 18 .. 19
  <2> DEFINE q == <<198, 18, 0, 0>>
  <2>1. q \in Ip /\ q[1] = 198 /\ q[2] = 18 /\ q[3] = 0
    BY DEF Ip, Octet
  <2> HIDE DEF q
  <2>2. IsInCidr(p, q, 15) <=> p[1] = 198 /\ p[2] \in 18 .. 19
    BY <2>1, Slash15, OctetsOf DEF Octet
  <2> QED
    BY <2>2 DEF q
<1>10. IsInCidr(p, <<224, 0, 0, 0>>, 4) <=> p[1] \in 224 .. 239
  <2> DEFINE q == <<224, 0, 0, 0>>
  <2>1. q \in Ip /\ q[1] = 224 /\ q[2] = 0 /\ q[3] = 0
    BY DEF Ip, Octet
  <2> HIDE DEF q
  <2>2. IsInCidr(p, q, 4) <=> p[1] \in 224 .. 239
    BY <2>1, Slash4, OctetsOf DEF Octet
  <2> QED
    BY <2>2 DEF q
<1>11. IsInCidr(p, <<240, 0, 0, 0>>, 4) <=> p[1] \in 240 .. 255
  <2> DEFINE q == <<240, 0, 0, 0>>
  <2>1. q \in Ip /\ q[1] = 240 /\ q[2] = 0 /\ q[3] = 0
    BY DEF Ip, Octet
  <2> HIDE DEF q
  <2>2. IsInCidr(p, q, 4) <=> p[1] \in 240 .. 255
    BY <2>1, Slash4, OctetsOf DEF Octet
  <2> QED
    BY <2>2 DEF q
<1> QED
  BY <1>1, <1>2, <1>3, <1>4, <1>5, <1>6, <1>7, <1>8, <1>9, <1>10, <1>11

\* p is none of the addresses before first nor after last.
Between(p, first, last) == UpTo(first, p) /\ UpTo(p, last)

LEMMA OctetBounds == \A x \in Octet : x \in Nat /\ x <= 255
BY DEF Octet

(* A range that fixes bits of the first octet only.                        *)
LEMMA FirstOctetWithin ==
  ASSUME NEW p \in Ip, NEW a \in Octet, NEW b \in Octet
  PROVE  Between(p, <<a, 0, 0, 0>>, <<b, 255, 255, 255>>) <=> a <= p[1] /\ p[1] <= b
<1> DEFINE q == <<a, 0, 0, 0>>
           r == <<b, 255, 255, 255>>
<1>1. /\ q \in Ip /\ r \in Ip
      /\ q[1] = a /\ q[2] = 0 /\ q[3] = 0 /\ q[4] = 0
      /\ r[1] = b /\ r[2] = 255 /\ r[3] = 255 /\ r[4] = 255
  BY DEF Ip, Octet
<1> HIDE DEF q, r
<1>2. /\ p[1] \in Nat /\ p[2] \in Nat /\ p[3] \in Nat /\ p[4] \in Nat
      /\ p[1] <= 255 /\ p[2] <= 255 /\ p[3] <= 255 /\ p[4] <= 255
  BY OctetsOf, OctetBounds
<1>3. UpTo(q, p) <=> a <= p[1]
  <2>1. UpTo(q, p) <=> \/ a < p[1]
                       \/ a = p[1] /\ 0 < p[2]
                       \/ a = p[1] /\ 0 = p[2] /\ 0 < p[3]
                       \/ a = p[1] /\ 0 = p[2] /\ 0 = p[3] /\ 0 <= p[4]
    BY <1>1, OrderByOctets
  <2> QED
    BY <1>2, <2>1 DEF Octet
<1>4. UpTo(p, r) <=> p[1] <= b
  <2>1. UpTo(p, r) <=> \/ p[1] < b
                       \/ p[1] = b /\ p[2] < 255
                       \/ p[1] = b /\ p[2] = 255 /\ p[3] < 255
                       \/ p[1] = b /\ p[2] = 255 /\ p[3] = 255 /\ p[4] <= 255
    BY <1>1, OrderByOctets
  <2> QED
    BY <1>2, <2>1 DEF Octet
<1>5. Between(p, q, r) <=> a <= p[1] /\ p[1] <= b
  <2>1. (UpTo(q, p) /\ UpTo(p, r)) <=> a <= p[1] /\ p[1] <= b
    BY <1>2, <1>3, <1>4 DEF Octet
  <2> QED
    BY <2>1 DEF Between
<1> QED
  BY <1>5 DEF q, r

(* One that fixes the first and bits of the second.                        *)
LEMMA SecondOctetWithin ==
  ASSUME NEW p \in Ip, NEW a \in Octet, NEW b \in Octet, NEW c \in Octet
  PROVE  Between(p, <<a, b, 0, 0>>, <<a, c, 255, 255>>) <=> p[1] = a /\ b <= p[2] /\ p[2] <= c
<1> DEFINE q == <<a, b, 0, 0>>
           r == <<a, c, 255, 255>>
<1>1. /\ q \in Ip /\ r \in Ip
      /\ q[1] = a /\ q[2] = b /\ q[3] = 0 /\ q[4] = 0
      /\ r[1] = a /\ r[2] = c /\ r[3] = 255 /\ r[4] = 255
  BY DEF Ip, Octet
<1> HIDE DEF q, r
<1>2. /\ p[1] \in Nat /\ p[2] \in Nat /\ p[3] \in Nat /\ p[4] \in Nat
      /\ p[1] <= 255 /\ p[2] <= 255 /\ p[3] <= 255 /\ p[4] <= 255
  BY OctetsOf, OctetBounds
<1>3. UpTo(q, p) <=> a < p[1] \/ (a = p[1] /\ b <= p[2])
  <2>1. UpTo(q, p) <=> \/ a < p[1]
                       \/ a = p[1] /\ b < p[2]
                       \/ a = p[1] /\ b = p[2] /\ 0 < p[3]
                       \/ a = p[1] /\ b = p[2] /\ 0 = p[3] /\ 0 <= p[4]
    BY <1>1, OrderByOctets
  <2> QED
    BY <1>2, <2>1 DEF Octet
<1>4. UpTo(p, r) <=> p[1] < a \/ (p[1] = a /\ p[2] <= c)
  <2>1. UpTo(p, r) <=> \/ p[1] < a
                       \/ p[1] = a /\ p[2] < c
                       \/ p[1] = a /\ p[2] = c /\ p[3] < 255
                       \/ p[1] = a /\ p[2] = c /\ p[3] = 255 /\ p[4] <= 255
    BY <1>1, OrderByOctets
  <2> QED
    BY <1>2, <2>1 DEF Octet
<1>5. Between(p, q, r) <=> p[1] = a /\ b <= p[2] /\ p[2] <= c
  <2>1. (UpTo(q, p) /\ UpTo(p, r)) <=> p[1] = a /\ b <= p[2] /\ p[2] <= c
    BY <1>2, <1>3, <1>4 DEF Octet
  <2> QED
    BY <2>1 DEF Between
<1> QED
  BY <1>5 DEF q, r

(* One that fixes three octets.                                            *)
LEMMA ThirdOctetWithin ==
  ASSUME NEW p \in Ip, NEW a \in Octet, NEW b \in Octet, NEW c \in Octet
  PROVE  Between(p, <<a, b, c, 0>>, <<a, b, c, 255>>) <=> p[1] = a /\ p[2] = b /\ p[3] = c
<1> DEFINE q == <<a, b, c, 0>>
           r == <<a, b, c, 255>>
<1>1. /\ q \in Ip /\ r \in Ip
      /\ q[1] = a /\ q[2] = b /\ q[3] = c /\ q[4] = 0
      /\ r[1] = a /\ r[2] = b /\ r[3] = c /\ r[4] = 255
  BY DEF Ip, Octet
<1> HIDE DEF q, r
<1>2. /\ p[1] \in Nat /\ p[2] \in Nat /\ p[3] \in Nat /\ p[4] \in Nat
      /\ p[1] <= 255 /\ p[2] <= 255 /\ p[3] <= 255 /\ p[4] <= 255
  BY OctetsOf, OctetBounds
<1>3. UpTo(q, p) <=> a < p[1] \/ (a = p[1] /\ b < p[2]) \/ (a = p[1] /\ b = p[2] /\ c <= p[3])
  <2>1. UpTo(q, p) <=> \/ a < p[1]
                       \/ a = p[1] /\ b < p[2]
                       \/ a = p[1] /\ b = p[2] /\ c < p[3]
                       \/ a = p[1] /\ b = p[2] /\ c = p[3] /\ 0 <= p[4]
    BY <1>1, OrderByOctets
  <2> QED
    BY <1>2, <2>1 DEF Octet
<1>4. UpTo(p, r) <=> p[1] < a \/ (p[1] = a /\ p[2] < b) \/ (p[1] = a /\ p[2] = b /\ p[3] <= c)
  <2>1. UpTo(p, r) <=> \/ p[1] < a
                       \/ p[1] = a /\ p[2] < b
                       \/ p[1] = a /\ p[2] = b /\ p[3] < c
                       \/ p[1] = a /\ p[2] = b /\ p[3] = c /\ p[4] <= 255
    BY <1>1, OrderByOctets
  <2> QED
    BY <1>2, <2>1 DEF Octet
<1>5. Between(p, q, r) <=> p[1] = a /\ p[2] = b /\ p[3] = c
  <2>1. (UpTo(q, p) /\ UpTo(p, r)) <=> p[1] = a /\ p[2] = b /\ p[3] = c
    BY <1>2, <1>3, <1>4 DEF Octet
  <2> QED
    BY <2>1 DEF Between
<1> QED
  BY <1>5 DEF q, r

(* What the first and the last address of each range ask of the octets.    *)
LEMMA BetweenAsks ==
  ASSUME NEW p \in Ip
  PROVE  /\ Between(p, <<0, 0, 0, 0>>, <<0, 255, 255, 255>>) <=> p[1] = 0
         /\ Between(p, <<10, 0, 0, 0>>, <<10, 255, 255, 255>>) <=> p[1] = 10
         /\ Between(p, <<100, 64, 0, 0>>, <<100, 127, 255, 255>>) <=> p[1] = 100 /\ p[2] \in 64 .. 127
         /\ Between(p, <<127, 0, 0, 0>>, <<127, 255, 255, 255>>) <=> p[1] = 127
         /\ Between(p, <<169, 254, 0, 0>>, <<169, 254, 255, 255>>) <=> p[1] = 169 /\ p[2] = 254
         /\ Between(p, <<172, 16, 0, 0>>, <<172, 31, 255, 255>>) <=> p[1] = 172 /\ p[2] \in 16 .. 31
         /\ Between(p, <<192, 0, 0, 0>>, <<192, 0, 0, 255>>) <=> p[1] = 192 /\ p[2] = 0 /\ p[3] = 0
         /\ Between(p, <<192, 168, 0, 0>>, <<192, 168, 255, 255>>) <=> p[1] = 192 /\ p[2] = 168
         /\ Between(p, <<198, 18, 0, 0>>, <<198, 19, 255, 255>>) <=> p[1] = 198 /\ p[2] \in 18 .. 19
         /\ Between(p, <<224, 0, 0, 0>>, <<255, 255, 255, 255>>) <=> p[1] \in 224 .. 255
<1>1. p[1] \in Nat /\ p[2] \in Nat
  BY OctetsOf DEF Octet
<1>2. /\ 0 \in Octet /\ 10 \in Octet /\ 16 \in Octet /\ 18 \in Octet /\ 19 \in Octet
      /\ 31 \in Octet /\ 64 \in Octet /\ 100 \in Octet /\ 127 \in Octet /\ 168 \in Octet
      /\ 169 \in Octet /\ 172 \in Octet /\ 192 \in Octet /\ 198 \in Octet /\ 224 \in Octet
      /\ 254 \in Octet /\ 255 \in Octet
  BY DEF Octet
<1>3. Between(p, <<0, 0, 0, 0>>, <<0, 255, 255, 255>>) <=> p[1] = 0
  <2>1. Between(p, <<0, 0, 0, 0>>, <<0, 255, 255, 255>>) <=> 0 <= p[1] /\ p[1] <= 0
    BY <1>2, FirstOctetWithin
  <2> QED
    BY <1>1, <2>1
<1>4. Between(p, <<10, 0, 0, 0>>, <<10, 255, 255, 255>>) <=> p[1] = 10
  <2>1. Between(p, <<10, 0, 0, 0>>, <<10, 255, 255, 255>>) <=> 10 <= p[1] /\ p[1] <= 10
    BY <1>2, FirstOctetWithin
  <2> QED
    BY <1>1, <2>1
<1>5. Between(p, <<100, 64, 0, 0>>, <<100, 127, 255, 255>>) <=> p[1] = 100 /\ p[2] \in 64 .. 127
  <2>1. Between(p, <<100, 64, 0, 0>>, <<100, 127, 255, 255>>) <=> p[1] = 100 /\ 64 <= p[2] /\ p[2] <= 127
    BY <1>2, SecondOctetWithin
  <2> QED
    BY <1>1, <2>1
<1>6. Between(p, <<127, 0, 0, 0>>, <<127, 255, 255, 255>>) <=> p[1] = 127
  <2>1. Between(p, <<127, 0, 0, 0>>, <<127, 255, 255, 255>>) <=> 127 <= p[1] /\ p[1] <= 127
    BY <1>2, FirstOctetWithin
  <2> QED
    BY <1>1, <2>1
<1>7. Between(p, <<169, 254, 0, 0>>, <<169, 254, 255, 255>>) <=> p[1] = 169 /\ p[2] = 254
  <2>1. Between(p, <<169, 254, 0, 0>>, <<169, 254, 255, 255>>) <=> p[1] = 169 /\ 254 <= p[2] /\ p[2] <= 254
    BY <1>2, SecondOctetWithin
  <2> QED
    BY <1>1, <2>1
<1>8. Between(p, <<172, 16, 0, 0>>, <<172, 31, 255, 255>>) <=> p[1] = 172 /\ p[2] \in 16 .. 31
  <2>1. Between(p, <<172, 16, 0, 0>>, <<172, 31, 255, 255>>) <=> p[1] = 172 /\ 16 <= p[2] /\ p[2] <= 31
    BY <1>2, SecondOctetWithin
  <2> QED
    BY <1>1, <2>1
<1>9. Between(p, <<192, 0, 0, 0>>, <<192, 0, 0, 255>>) <=> p[1] = 192 /\ p[2] = 0 /\ p[3] = 0
  BY <1>2, ThirdOctetWithin
<1>10. Between(p, <<192, 168, 0, 0>>, <<192, 168, 255, 255>>) <=> p[1] = 192 /\ p[2] = 168
  <2>1. Between(p, <<192, 168, 0, 0>>, <<192, 168, 255, 255>>) <=> p[1] = 192 /\ 168 <= p[2] /\ p[2] <= 168
    BY <1>2, SecondOctetWithin
  <2> QED
    BY <1>1, <2>1
<1>11. Between(p, <<198, 18, 0, 0>>, <<198, 19, 255, 255>>) <=> p[1] = 198 /\ p[2] \in 18 .. 19
  <2>1. Between(p, <<198, 18, 0, 0>>, <<198, 19, 255, 255>>) <=> p[1] = 198 /\ 18 <= p[2] /\ p[2] <= 19
    BY <1>2, SecondOctetWithin
  <2> QED
    BY <1>1, <2>1
<1>12. Between(p, <<224, 0, 0, 0>>, <<255, 255, 255, 255>>) <=> p[1] \in 224 .. 255
  <2>1. Between(p, <<224, 0, 0, 0>>, <<255, 255, 255, 255>>) <=> 224 <= p[1] /\ p[1] <= 255
    BY <1>2, FirstOctetWithin
  <2> QED
    BY <1>1, <2>1
<1> QED
  BY <1>3, <1>4, <1>5, <1>6, <1>7, <1>8, <1>9, <1>10, <1>11, <1>12

(* An address has a reason exactly when it lies within a special-purpose    *)
(* range: the masks keep the bits that the first and last address of each  *)
(* range share, and no more.                                               *)
LEMMA BlockedWithin ==
  ASSUME NEW p \in Ip
  PROVE  BlockedReasonForIpv4(p) # NoReason
           <=> \E r \in Ranges : UpTo(r[1], p) /\ UpTo(p, r[2])
<1> DEFINE found == {r \in BLOCKED_IPV4_RANGES : IsInCidr(p, r.range, r.bits)}
<1>1. BlockedReasonForIpv4(p) # NoReason <=> found # {}
  <2>1. ASSUME found # {}
        PROVE  (CHOOSE r \in found : TRUE).reason # NoReason
    <3>1. (CHOOSE r \in found : TRUE) \in found
      BY <2>1
    <3>2. (CHOOSE r \in found : TRUE) \in BLOCKED_IPV4_RANGES
      BY <3>1
    <3>3. \A c \in BLOCKED_IPV4_RANGES : c.reason # NoReason
      BY GuardAssumption
    <3> QED
      BY <3>2, <3>3
  <2> QED
    BY <2>1 DEF BlockedReasonForIpv4
<1>2. found # {} <=> \E r \in BLOCKED_IPV4_RANGES : IsInCidr(p, r.range, r.bits)
  OBVIOUS
<1>3. (\E r \in BLOCKED_IPV4_RANGES : IsInCidr(p, r.range, r.bits)) <=>
        \/ IsInCidr(p, <<0, 0, 0, 0>>, 8)
        \/ IsInCidr(p, <<10, 0, 0, 0>>, 8)
        \/ IsInCidr(p, <<100, 64, 0, 0>>, 10)
        \/ IsInCidr(p, <<127, 0, 0, 0>>, 8)
        \/ IsInCidr(p, <<169, 254, 0, 0>>, 16)
        \/ IsInCidr(p, <<172, 16, 0, 0>>, 12)
        \/ IsInCidr(p, <<192, 0, 0, 0>>, 24)
        \/ IsInCidr(p, <<192, 168, 0, 0>>, 16)
        \/ IsInCidr(p, <<198, 18, 0, 0>>, 15)
        \/ IsInCidr(p, <<224, 0, 0, 0>>, 4)
        \/ IsInCidr(p, <<240, 0, 0, 0>>, 4)
  BY SMTT(60) DEF BLOCKED_IPV4_RANGES
<1>4. (\E r \in Ranges : UpTo(r[1], p) /\ UpTo(p, r[2])) <=>
        \/ Between(p, <<0, 0, 0, 0>>, <<0, 255, 255, 255>>)
        \/ Between(p, <<10, 0, 0, 0>>, <<10, 255, 255, 255>>)
        \/ Between(p, <<100, 64, 0, 0>>, <<100, 127, 255, 255>>)
        \/ Between(p, <<127, 0, 0, 0>>, <<127, 255, 255, 255>>)
        \/ Between(p, <<169, 254, 0, 0>>, <<169, 254, 255, 255>>)
        \/ Between(p, <<172, 16, 0, 0>>, <<172, 31, 255, 255>>)
        \/ Between(p, <<192, 0, 0, 0>>, <<192, 0, 0, 255>>)
        \/ Between(p, <<192, 168, 0, 0>>, <<192, 168, 255, 255>>)
        \/ Between(p, <<198, 18, 0, 0>>, <<198, 19, 255, 255>>)
        \/ Between(p, <<224, 0, 0, 0>>, <<255, 255, 255, 255>>)
  BY SMTT(60) DEF Ranges, Between
<1>5. p[1] \in 0 .. 255
  BY OctetsOf DEF Octet
<1> HIDE DEF found
<1>6. (\E r \in BLOCKED_IPV4_RANGES : IsInCidr(p, r.range, r.bits)) <=>
        \/ p[1] = 0
        \/ p[1] = 10
        \/ p[1] = 100 /\ p[2] \in 64 .. 127
        \/ p[1] = 127
        \/ p[1] = 169 /\ p[2] = 254
        \/ p[1] = 172 /\ p[2] \in 16 .. 31
        \/ p[1] = 192 /\ p[2] = 0 /\ p[3] = 0
        \/ p[1] = 192 /\ p[2] = 168
        \/ p[1] = 198 /\ p[2] \in 18 .. 19
        \/ p[1] \in 224 .. 239
        \/ p[1] \in 240 .. 255
  BY <1>3, MaskAsks
<1>7. (\E r \in Ranges : UpTo(r[1], p) /\ UpTo(p, r[2])) <=>
        \/ p[1] = 0
        \/ p[1] = 10
        \/ p[1] = 100 /\ p[2] \in 64 .. 127
        \/ p[1] = 127
        \/ p[1] = 169 /\ p[2] = 254
        \/ p[1] = 172 /\ p[2] \in 16 .. 31
        \/ p[1] = 192 /\ p[2] = 0 /\ p[3] = 0
        \/ p[1] = 192 /\ p[2] = 168
        \/ p[1] = 198 /\ p[2] \in 18 .. 19
        \/ p[1] \in 224 .. 255
  BY <1>4, BetweenAsks
<1> QED
  BY <1>1, <1>2, <1>5, <1>6, <1>7

(* A group of a mapped address holds two octets.                            *)
LEMMA TwoOctets ==
  \A x, y \in Octet : (256 * x + y) \div 256 = x /\ (256 * x + y) % 256 = y
BY DEF Octet

LEMMA MappedAreTheOctets ==
  ASSUME NEW p \in Ip
  PROVE  MappedOctets(256 * p[1] + p[2], 256 * p[3] + p[4]) = p
<1>1. PICK w \in Octet, x \in Octet, y \in Octet, z \in Octet :
        w = p[1] /\ x = p[2] /\ y = p[3] /\ z = p[4]
  BY OctetsOf
<1>2. (256 * w + x) \div 256 = w /\ (256 * w + x) % 256 = x
  BY TwoOctets
<1>3. (256 * y + z) \div 256 = y /\ (256 * y + z) % 256 = z
  BY TwoOctets
<1>4. MappedOctets(256 * w + x, 256 * y + z) = <<w, x, y, z>>
  BY <1>2, <1>3 DEF MappedOctets
<1>5. p = <<w, x, y, z>>
  BY <1>1, OneToFour DEF Ip
<1> QED
  BY <1>1, <1>4, <1>5

-----------------------------------------------------------------------------
\* A target was judged by what it resolved to.
VerdictOK ==
  target # <<>> =>
    /\ target \in Addresses
    /\ outcome = IF allowed \/ Reason(target) = NoReason THEN <<"ok", NoReason>>
                 ELSE <<"bad", Reason(target)>>

LEMMA VerdictInvariant == GuardSpec => []VerdictOK
<1>1. GuardInit => VerdictOK
  BY DEF GuardInit, VerdictOK
<1>2. VerdictOK /\ [GuardNext]_guardVars => VerdictOK'
  <2> SUFFICES ASSUME VerdictOK, [GuardNext]_guardVars
               PROVE  VerdictOK'
    OBVIOUS
  <2>1. CASE Malformed
    BY <2>1 DEF Malformed, VerdictOK
  <2>2. CASE Resolved
    <3>1. PICK a \in Addresses :
            /\ target' = a
            /\ outcome' = IF allowed \/ Reason(a) = NoReason THEN <<"ok", NoReason>>
                          ELSE <<"bad", Reason(a)>>
      BY <2>2 DEF Resolved
    <3>2. allowed' = allowed
      BY <2>2 DEF Resolved
    <3>3. target' \in Addresses'
      BY <3>1 DEF Addresses, Ipv4
    <3>4. outcome' = IF allowed' \/ Reason(target)' = NoReason THEN <<"ok", NoReason>>
                     ELSE <<"bad", Reason(target)'>>
      BY <3>1, <3>2
    <3> QED
      BY <3>3, <3>4 DEF VerdictOK
  <2>3. CASE UNCHANGED guardVars
    BY <2>3 DEF guardVars, VerdictOK
  <2> QED
    BY <2>1, <2>2, <2>3 DEF GuardNext
<1> QED
  BY <1>1, <1>2, PTL DEF GuardSpec

LEMMA OctetsTyped == \A i \in 1 .. 4 : Octets[i] \subseteq Octet
BY GuardAssumption DEF Octet

LEMMA OctetsAreTyped ==
  ASSUME NEW a \in Addresses, a.form \in {"v4", "decimal", "hex"}
  PROVE  a.octets \in Ip
<1>1. a.octets \in Ipv4
  BY DEF Addresses
<1>2. PICK w \in Octets[1], x \in Octets[2], y \in Octets[3], z \in Octets[4] :
        a.octets = <<w, x, y, z>>
  BY <1>1 DEF Ipv4
<1>3. w \in Octet /\ x \in Octet /\ y \in Octet /\ z \in Octet
  <2>1. Octets[1] \subseteq Octet /\ Octets[2] \subseteq Octet
        /\ Octets[3] \subseteq Octet /\ Octets[4] \subseteq Octet
    BY OctetsTyped
  <2> QED
    BY <2>1
<1> QED
  BY <1>2, <1>3 DEF Ip

(* The guard refuses an IPv4 address exactly when it lies between the first *)
(* and the last address of a special-purpose range: comparing under the    *)
(* masks refuses all of each range and nothing beside it                   *)
(* (ssrf-guard.ts:41-48).                                                   *)
THEOREM GuardRefusesTheRanges == GuardSpec => []RefusedByRange
<1>1. VerdictOK => RefusedByRange
  <2> SUFFICES ASSUME VerdictOK, target # <<>>, ~allowed, target.form = "v4"
               PROVE  outcome[1] = "bad" <=>
                        \E r \in Ranges : UpTo(r[1], target.octets) /\ UpTo(target.octets, r[2])
    BY DEF RefusedByRange, Judged
  <2>1. target.octets \in Ip
    BY OctetsAreTyped DEF VerdictOK
  <2>2. Reason(target) = BlockedReasonForIpv4(target.octets)
    BY DEF Reason
  <2>3. outcome[1] = "bad" <=> Reason(target) # NoReason
    BY DEF VerdictOK
  <2> QED
    BY <2>1, <2>2, <2>3, BlockedWithin
<1> QED
  BY <1>1, VerdictInvariant, PTL

(* However an IPv4 address is written, in its own form or mapped into IPv6  *)
(* with decimal octets or with two hexadecimal groups, the verdict is the  *)
(* same (ssrf-guard.ts:61-77).                                              *)
THEOREM MappedFormsAreJudgedAlike == GuardSpec => []MappedAlike
<1>1. VerdictOK => MappedAlike
  <2> SUFFICES ASSUME VerdictOK, target # <<>>, ~allowed, target.form \in {"decimal", "hex"}
               PROVE  outcome[2] = BlockedReasonForIpv4(target.octets)
    BY DEF MappedAlike, Judged
  <2>1. target.octets \in Ip
    BY OctetsAreTyped DEF VerdictOK
  <2>2. outcome[2] = Reason(target)
    BY DEF VerdictOK
  <2>3. Reason(target) = BlockedReasonForIpv4(target.octets)
    BY <2>1, MappedAreTheOctets DEF Reason, BlockedReasonForIpv6
  <2> QED
    BY <2>2, <2>3
<1> QED
  BY <1>1, VerdictInvariant, PTL
=============================================================================

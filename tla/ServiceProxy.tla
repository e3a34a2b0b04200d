---------------------------- MODULE ServiceProxy ----------------------------
(***************************************************************************)
(* What a role sees and what it may call: MenusService.treeForRole and     *)
(* ServiceProxyService.forward, on the rows that RolesService,             *)
(* MenusService, ModulesService and ExternalServicesService change under   *)
(* them. A call reads the routes, then the role's access, then waits for   *)
(* the network twice; one action is the code up to such a wait. Calls do   *)
(* not meet each other: they share only what they read.                    *)
(*                                                                         *)
(* A path is the sequence of its segments. Bodies, queries, parameters'    *)
(* values and target addresses are left out. A credential is the number of *)
(* times the service's key was changed.                                    *)
(***************************************************************************)
EXTENDS Naturals, Sequences

CONSTANTS
  Roles,
  FullAccess,     \* SUPER_ADMIN, SUPERADMIN and ADMIN
  Configured,     \* the roles FULL_ACCESS_ROLE_NAMES adds
  Modules, Menus, Services,
  Patterns,       \* public paths of routes
  Paths,          \* paths that are called
  Param,          \* a segment ":name" of a pattern
  Methods,
  Strategies,     \* values of authenticationType
  HeaderSets,     \* what clients send together
  Calls,
  SeededMenus,    \* [module, parent, active] of each menu at the start
  SeededRoutes,   \* [pattern, service, methods, active] of it, or None
  MaxChanges,     \* bound on the administrators' changes
  None

VARIABLES
  roles, modules, services,  \* those that are ACTIVE
  menu, route,
  roleModule, roleMenu,      \* the ACTIVE assignments
  credential,                \* of each service: its strategy and its key, if any
  call,                      \* the calls and their locals
  changes                    \* how many changes were made

tables == <<roles, modules, services, menu, route, roleModule, roleMenu, credential>>
vars == <<tables, call, changes>>

Headers == UNION HeaderSets

-----------------------------------------------------------------------------
Menu == [module: Modules, parent: Menus \cup {None}, active: BOOLEAN]

Route == [pattern: Patterns, service: Services, methods: SUBSET Methods,
          active: BOOLEAN]

Credential == [strategy: Strategies \cup {"API_KEY"}, key: 0 .. MaxChanges \cup {None}]

\* Rows at the start fit schema.prisma, publicPath is unique, and null is no
\* word of a header.
ASSUME SeedAssumption ==
  /\ MaxChanges \in Nat /\ None # "client"
  /\ SeededMenus \in [Menus -> Menu]
  /\ SeededRoutes \in [Menus -> Route \cup {None}]
  /\ \A a, b \in Menus :
       a # b /\ SeededRoutes[a] # None /\ SeededRoutes[b] # None
       => SeededRoutes[a].pattern # SeededRoutes[b].pattern

Answers == {"404", "405", "403", "400", "502", "504", "upstream"}

\* could, may, refused and missing are history: what routes matched, what the
\* role could open and could not, and whether nothing matched, at some moment
\* since the call came in.
Call == [pc: {"new", "resolve", "authorize", "check", "fetch"} \cup Answers,
         role: Roles \cup {None}, path: Paths \cup {None}, method: Methods \cup {None},
         permissions: BOOLEAN, headers: SUBSET Headers,
         menu: Menus \cup {None}, service: Services \cup {None},
         credential: Credential \cup {None},
         sent: [Headers -> {"client", "gateway", None}],
         could: SUBSET (Menus \X Services \X Credential), may: SUBSET Menus,
         refused: SUBSET Menus, missing: BOOLEAN]

NewCall == [pc |-> "new", role |-> None, path |-> None, method |-> None,
            permissions |-> FALSE, headers |-> {}, menu |-> None,
            service |-> None, credential |-> None, sent |-> [h \in Headers |-> None],
            could |-> {}, may |-> {}, refused |-> {}, missing |-> FALSE]

-----------------------------------------------------------------------------
(* Menus a role sees *)

IsOpen(n) == menu[n].active /\ menu[n].module \in modules

Assigned(r, n) == <<r, n>> \in roleMenu /\ r \in roles /\ IsOpen(n)

\* (a bug) The role may have been removed.
VisibleToAnyRole(r) ==
  IF r \in FullAccess THEN {n \in Menus : IsOpen(n)}
  ELSE {n \in Menus : IsOpen(n) /\ <<r, n>> \in roleMenu
                         /\ <<r, menu[n].module>> \in roleModule}

\* The rows treeForRole finds.
Visible(r) ==
  IF r \in FullAccess THEN {n \in Menus : IsOpen(n)}
  ELSE {n \in Menus : Assigned(r, n) /\ <<r, menu[n].module>> \in roleModule}

\* The tree it builds of them, from the roots down: a child whose parent is
\* not there is dropped, and with it what hangs from it.
Rooted(S, seen) ==
  \A n \in seen : menu[n].parent = None \/ menu[n].parent \in S => n \in S

Tree(r) ==
  LET seen == Visible(r) IN
  {n \in seen : \A S \in SUBSET seen : Rooted(S, seen) => n \in S}

-----------------------------------------------------------------------------
(* Paths and access *)

MatchPath(pattern, path) ==
  /\ Len(pattern) = Len(path)
  /\ \A i \in DOMAIN path : pattern[i] \in {Param, path[i]}

\* What resolveRoute asks the table for.
InUse(n) ==
  /\ route[n] # None /\ route[n].active
  /\ route[n].service \in services
  /\ IsOpen(n)

Matching(path) == {n \in Menus : InUse(n) /\ MatchPath(route[n].pattern, path)}

\* ensureAuthorized; it does not ask whether the role has the module.
MayOpen(r, n) == r \in FullAccess \cup Configured \/ Assigned(r, n)

-----------------------------------------------------------------------------
(* Headers *)

UserIdentity == {"x-gateway-user-id", "x-gateway-role-id", "x-gateway-role-name"}
ServiceIdentity == {"x-api-key", "x-gateway-service"}

\* (a bug) The blocked ones are those that are always set afterwards.
BlockedSomeHeaders == {"authorization", "cookie", "host", "connection"} \cup UserIdentity

Blocked ==
  {"authorization", "cookie", "host", "connection", "x-gateway-permissions"}
    \cup UserIdentity \cup ServiceIdentity

\* headersFor of ServiceIdentityService: strategies that are not implemented,
\* and services without a key, get no identity.
HeadersFor(own) ==
  IF own.strategy \in {"API_KEY", "JWT", "NONE"} /\ own.key # None THEN ServiceIdentity ELSE {}

\* buildHeaders: the client's that are not blocked, then the Gateway's.
BuildHeaders(c) ==
  LET own == UserIdentity \cup {"x-request-id"}
               \cup (IF call[c].permissions THEN {"x-gateway-permissions"} ELSE {})
               \cup HeadersFor(call[c].credential)
  IN  [h \in Headers |-> IF h \in own THEN "gateway"
                         ELSE IF h \in call[c].headers \ Blocked THEN "client"
                         ELSE None]

-----------------------------------------------------------------------------
\* What calls for a path may find, and the menus a role may open.
Found ==
  [p \in Paths |-> {<<n, route[n].service, credential[route[n].service]>> : n \in Matching(p)}]
Opened == [r \in Roles |-> {n \in Menus : MayOpen(r, n)}]

\* The history of a call, when that is what there is.
Noted(r, found, opened) ==
  IF r.pc \in {"new"} \cup Answers THEN r
  ELSE [r EXCEPT !.could = @ \cup found[r.path],
                 !.may = @ \cup opened[r.role],
                 !.refused = @ \cup (Menus \ opened[r.role]),
                 !.missing = @ \/ found[r.path] = {}]

Init ==
  /\ roles = Roles
  /\ modules = Modules
  /\ services = Services
  /\ menu = SeededMenus
  /\ route = SeededRoutes
  /\ roleModule \in SUBSET ((Roles \ FullAccess) \X Modules)
  /\ roleMenu \in SUBSET ((Roles \ FullAccess) \X Menus)
  /\ credential \in [Services -> [strategy: Strategies, key: {0, None}]]
  /\ call = [c \in Calls |-> NewCall]
  /\ changes = 0

Goto(c, next) ==
  /\ call' = [call EXCEPT ![c] = next]
  /\ UNCHANGED <<tables, changes>>

To(c, pc) == Goto(c, [call[c] EXCEPT !.pc = pc])

\* A call with a valid access token, whose claims name the role.
Arrive(c) ==
  /\ call[c].pc = "new"
  /\ \E r \in Roles, p \in Paths, m \in Methods, b \in BOOLEAN, H \in HeaderSets :
       Goto(c, Noted([call[c] EXCEPT !.pc = "resolve", !.role = r, !.path = p,
                        !.method = m, !.permissions = b, !.headers = H],
                     Found, Opened))

\* (a bug) The first route that is found must match.
ResolveFirst(c) ==
  /\ call[c].pc = "resolve"
  /\ \/ Matching(call[c].path) = {} /\ To(c, "404")
     \/ \E n \in {x \in Menus : InUse(x)} :
          Goto(c, [call[c] EXCEPT
            !.menu = n, !.service = route[n].service,
            !.credential = credential[route[n].service],
            !.pc = IF MatchPath(route[n].pattern, call[c].path) THEN "authorize" ELSE "404"])

\* The first of the routes that match, in whatever order they are found.
ResolveRoute(c) ==
  LET found == Matching(call[c].path) IN
  /\ call[c].pc = "resolve"
  /\ \/ found = {} /\ To(c, "404")
     \/ \E n \in found :
          Goto(c, [call[c] EXCEPT
            !.menu = n, !.service = route[n].service,
            !.credential = credential[route[n].service],
            !.pc = IF call[c].method \in route[n].methods THEN "authorize" ELSE "405"])

\* (a bug) To open the menu of some route of the path is enough.
EnsureSomeAccess(c) ==
  /\ call[c].pc = "authorize"
  /\ To(c, IF \E n \in Matching(call[c].path) : MayOpen(call[c].role, n)
             THEN "check" ELSE "403")

EnsureAuthorized(c) ==
  /\ call[c].pc = "authorize"
  /\ To(c, IF MayOpen(call[c].role, call[c].menu) THEN "check" ELSE "403")

\* assertSafeProbeTarget resolves the name; what it admits is called.
CheckTarget(c) ==
  /\ call[c].pc = "check"
  /\ \/ To(c, "400")
     \/ Goto(c, [call[c] EXCEPT !.pc = "fetch", !.sent = BuildHeaders(c)])

TimesOut(c) == call[c].pc = "fetch" /\ To(c, "504")

Upstream(c) == call[c].pc = "fetch" /\ (To(c, "upstream") \/ To(c, "502"))

-----------------------------------------------------------------------------
(* What administrators change meanwhile *)

Change ==
  /\ changes < MaxChanges
  /\ changes' = changes + 1
  /\ call' = [c \in Calls |-> Noted(call[c], Found', Opened')]

Flip(S, x) == IF x \in S THEN S \ {x} ELSE S \cup {x}

AssignMenu ==
  /\ \E r \in Roles, n \in Menus : roleMenu' = Flip(roleMenu, <<r, n>>)
  /\ UNCHANGED <<roles, modules, services, menu, route, roleModule, credential>>
  /\ Change

AssignModule ==
  /\ \E r \in Roles, m \in Modules : roleModule' = Flip(roleModule, <<r, m>>)
  /\ UNCHANGED <<roles, modules, services, menu, route, roleMenu, credential>>
  /\ Change

RemoveRole ==
  /\ \E r \in roles \ FullAccess : roles' = roles \ {r}
  /\ UNCHANGED <<modules, services, menu, route, roleModule, roleMenu, credential>>
  /\ Change

\* remove of a menu without children, its assignments and route with it.
RemoveMenu ==
  /\ \E n \in Menus :
       /\ menu[n].active /\ \A x \in Menus : menu[x].active => menu[x].parent # n
       /\ menu' = [menu EXCEPT ![n] = [@ EXCEPT !.active = FALSE]]
       /\ roleMenu' = {a \in roleMenu : a[2] # n}
       /\ route' = [route EXCEPT ![n] = IF @ = None THEN None ELSE [@ EXCEPT !.active = FALSE]]
  /\ UNCHANGED <<roles, modules, services, roleModule, credential>>
  /\ Change

\* A menu goes to another module, or below another menu.
MoveMenu ==
  /\ \E n \in Menus, m \in Modules, p \in {x \in Menus : IsOpen(x)} :
       /\ menu[n].active /\ p # n /\ menu[p].parent # n /\ menu[p].module = m
       /\ menu' = [menu EXCEPT ![n] = [@ EXCEPT !.module = m, !.parent = p]]
  /\ UNCHANGED <<roles, modules, services, route, roleModule, roleMenu, credential>>
  /\ Change

RemoveModule ==
  /\ \E m \in modules :
       LET inside == {n \in Menus : menu[n].module = m} IN
       /\ modules' = modules \ {m}
       /\ menu' = [n \in Menus |-> [menu[n] EXCEPT !.active = @ /\ n \notin inside]]
       /\ roleMenu' = {a \in roleMenu : a[2] \notin inside}
       /\ roleModule' = {a \in roleModule : a[2] # m}
       /\ route' = [n \in Menus |-> IF n \in inside /\ route[n] # None
                                      THEN [route[n] EXCEPT !.active = FALSE] ELSE route[n]]
  /\ UNCHANGED <<roles, services, credential>>
  /\ Change

RemoveService ==
  /\ \E s \in services : services' = services \ {s}
  /\ UNCHANGED <<roles, modules, menu, route, roleModule, roleMenu, credential>>
  /\ Change

\* A menu is given a route, or another one. publicPath is unique.
SetRoute ==
  /\ \E n \in Menus, p \in Patterns, s \in services, M \in SUBSET Methods :
       /\ IsOpen(n) /\ M # {}
       /\ \A x \in Menus \ {n} : route[x] # None => route[x].pattern # p
       /\ route' = [route EXCEPT ![n] =
            [pattern |-> p, service |-> s, methods |-> M, active |-> TRUE]]
  /\ UNCHANGED <<roles, modules, services, menu, roleModule, roleMenu, credential>>
  /\ Change

RotateApiKey ==
  /\ \E s \in services :
       credential' = [credential EXCEPT ![s] = [strategy |-> "API_KEY", key |-> changes + 1]]
  /\ UNCHANGED <<roles, modules, services, menu, route, roleModule, roleMenu>>
  /\ Change

Administer ==
  \/ AssignMenu \/ AssignModule \/ RemoveRole \/ RemoveMenu \/ MoveMenu
  \/ RemoveModule \/ RemoveService \/ SetRoute \/ RotateApiKey

Handle(c) == ResolveRoute(c) \/ EnsureAuthorized(c) \/ CheckTarget(c) \/ TimesOut(c)

Next ==
  \/ \E c \in Calls : Arrive(c) \/ Handle(c) \/ Upstream(c)
  \/ Administer

Spec == Init /\ [][Next]_vars

-----------------------------------------------------------------------------
(* Properties *)

Serving == {"resolve", "authorize", "check", "fetch"}

\* What a call knows, of what there is to find and to open: its history has
\* all of it, and what it found and was told was so at some moment.
Knows(r, found, opened) ==
  /\ r.pc \in Serving =>
       /\ r.role \in Roles /\ r.path \in Paths
       /\ found[r.path] \subseteq r.could
       /\ opened[r.role] \subseteq r.may
       /\ Menus \ opened[r.role] \subseteq r.refused
       /\ found[r.path] = {} => r.missing
  /\ r.pc \in {"authorize", "check", "fetch", "403", "502", "504", "upstream"} =>
       r.menu \in Menus /\ <<r.menu, r.service, r.credential>> \in r.could
  /\ r.pc \in {"check", "fetch", "502", "504", "upstream"} => r.menu \in r.may
  /\ r.pc = "403" => r.menu \in r.refused
  /\ r.pc = "404" => r.missing

\* What makes the properties of calls inductive.
CallsKnow == \A c \in Calls : Knows(call[c], Found, Opened)

\* Rows, calls and what was noted of them keep their shape (schema.prisma,
\* service-proxy.service.ts), and no two routes share a public path.
TypeOK ==
  /\ roles \subseteq Roles /\ modules \subseteq Modules /\ services \subseteq Services
  /\ menu \in [Menus -> Menu]
  /\ route \in [Menus -> Route \cup {None}]
  /\ roleModule \subseteq Roles \X Modules
  /\ roleMenu \subseteq Roles \X Menus
  /\ credential \in [Services -> Credential]
  /\ call \in [Calls -> Call]
  /\ \A a, b \in Menus :
       a # b /\ route[a] # None /\ route[b] # None => route[a].pattern # route[b].pattern

\* forward reads the route, the service and its key at one moment and the
\* role's access at another. A call that goes out goes to a service, with a
\* key, that a route of the path had while the call was being served, and for
\* a menu its role could open meanwhile: what was taken back before the call
\* came in is not used.
CallsUseWhatWasInForce ==
  \A c \in Calls : call[c].pc \in {"fetch", "502", "504", "upstream"} =>
    /\ <<call[c].menu, call[c].service, call[c].credential>> \in call[c].could
    /\ call[c].menu \in call[c].may

\* A call is refused only if, while it was served, no route was there for
\* its path, or its role could not open the menu of one that was; a role whose
\* access nobody touched is not told otherwise by forward.
RefusalsHaveAReason ==
  \A c \in Calls :
    /\ call[c].pc = "404" => call[c].missing
    /\ call[c].pc = "403" => /\ call[c].menu \in call[c].refused
                             /\ \E t \in call[c].could : t[1] = call[c].menu

\* What treeForRole shows, ServiceProxyService.ensureAuthorized admits, and
\* all of its ancestors are ACTIVE: "Inactivar un nodo padre excluye a todos
\* sus hijos en el arbol devuelto" (modelo-datos.md:138).
ShownMenusAreAllowed ==
  \A r \in Roles :
    LET tree == Tree(r) IN
    \A n \in tree : /\ MayOpen(r, n) /\ IsOpen(n)
                    /\ menu[n].parent # None => menu[n].parent \in tree

\* Whatever headers the client sends, what a service reads as the identity of
\* the user or of the Gateway is the Gateway's own, also where it sets none
\* (service-proxy.service.ts:35).
IdentityIsTheGateways ==
  \A c \in Calls :
    \A h \in UserIdentity \cup ServiceIdentity
               \cup {"x-gateway-permissions", "authorization"} :
      h \in Headers => call[c].sent[h] # "client"
=============================================================================

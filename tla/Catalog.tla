------------------------------ MODULE Catalog ------------------------------
(***************************************************************************)
(* The navigation the administrators edit: ModulesService, MenusService    *)
(* and ExternalServicesService on the tables modulos, menus,               *)
(* servicios_externos and servicio_externo_rutas. A handler reads in one   *)
(* database call after the other, may wait for the network (the probe of a *)
(* target), and writes at the end in one transaction. One action is the    *)
(* code up to a call, the call included; a transaction is one action, but  *)
(* ModulesService.remove, whose list of menus is a statement of its own.   *)
(*                                                                         *)
(* A registered service's id stands for its code, a path for a menu url    *)
(* /app/... and for the public path made of it. A menu has at most one     *)
(* route, and one implicit service "_route_<id>": both go by the menu's    *)
(* id. Names, icons, methods, target addresses and probe results are left  *)
(* out, so handlers that only change those do not appear. Roles stay       *)
(* ACTIVE here.                                                            *)
(***************************************************************************)
EXTENDS Naturals, FiniteSets

CONSTANTS
  Modules, Menus, Services, Paths,
  Codes,          \* of modules; those of services are among them
  Requests,    \* requests that are served, each id once
  Ops,         \* the handlers they ask for
  Asks(_),     \* a bound: whether there is a request with such a body
  SeededCode(_),  \* the codes of the modules they are in
  SeededMenus,    \* what the menus table may be at the start
  SeededServices, \* the registered services at the start
  None

VARIABLES
  module,   \* [code, active] of each module, or None
  menu,     \* [module, parent, url, active] of each menu, or None
  route,    \* [service, path, active] of each menu's route, or None
  service,  \* [active, module] of implicit and registered services, or None
  req,      \* the requests and their locals
  crossed   \* history: menus placed while the tree changed under the request

tables == <<module, menu, route, service>>
vars == <<tables, req, crossed>>

-----------------------------------------------------------------------------
Module == [code: Codes, active: BOOLEAN]

Menu == [module: Modules, parent: Menus \cup {None}, url: Paths \cup {None},
         active: BOOLEAN]

\* The path of a route that was taken out of use: "...#retirada-<id>".
Retired == "retirada"

Route == [service: Services \cup Menus, path: Paths \cup {Retired},
          active: BOOLEAN]

Service == [active: BOOLEAN, module: Modules \cup {None}]

Request == [pc: {"new", "module", "exists", "service", "menu", "walk", "parent",
                 "route", "probe", "collect", "write", "done"},
            op: Ops \cup {None}, menu: Menus \cup {None},
            module: Modules \cup {None}, into: Modules \cup {None},
            parent: Menus \cup {None}, cursor: Menus \cup {None},
            url: Paths \cup {None}, path: Paths \cup {None},
            nulls: SUBSET {"parent", "url"},
            target: {"keep", "set", "clear"}, had: BOOLEAN,
            service: Services \cup {None}, code: Codes \cup {None},
            ids: SUBSET Menus, level: SUBSET Menus]

NoRequest == [pc |-> "new", op |-> None, menu |-> None, module |-> None,
              into |-> None, parent |-> None, cursor |-> None, url |-> None,
              path |-> None, nulls |-> {}, target |-> "keep", had |-> FALSE,
              service |-> None, code |-> None, ids |-> {}, level |-> {}]

Handlers == {"createModule", "updateModule", "removeModule", "createMenu",
             "updateMenu", "removeMenu", "createService", "removeService", "provision"}

\* Rows at the start fit schema.prisma, null is no row, no id and no handler,
\* and the registered services have ids of their own.
ASSUME SeedAssumption ==
  /\ SeededMenus \subseteq [Menus -> Menu \cup {None}]
  /\ \A m \in Modules : SeededCode(m) \in Codes
  /\ SeededServices \subseteq Services /\ Services \subseteq Codes
  /\ Services \cap Menus = {}
  /\ None \notin Modules \cup Menus \cup Services \cup Paths
  /\ None \notin Module \cup Menu \cup Route \cup Service
  /\ Ops \subseteq Handlers /\ None \notin Handlers

\* They form a forest, and what is ACTIVE is below what is ACTIVE.
ASSUME ForestAssumption ==
  \A rows \in SeededMenus :
    /\ \A n \in Menus : rows[n] # None /\ rows[n].parent # None =>
         LET p == rows[n].parent IN
         rows[p] # None /\ (rows[n].active => rows[p].active)
    /\ \A C \in SUBSET Menus \ {{}} :
         \E n \in C : rows[n] # None => rows[n].parent \notin C

IsActive(table, i) == table[i] # None /\ table[i].active

Children(S) ==
  {n \in Menus : IsActive(menu, n) /\ menu[n].parent \in S}

CodeFree(c, m) ==
  \A x \in Modules \ {m} : module[x] # None => module[x].code # c

InFlight(q) == req[q].pc \notin {"new", "done"}

\* Ids for new rows: nobody else's, also not of a request that will insert.
Unused(n) == menu[n] = None /\ \A q \in Requests : req[q].menu # n

-----------------------------------------------------------------------------
(* Requests *)

\* Handlers that place a menu, and those that place one or take one away.
Places(r) ==
  \/ r.op = "createMenu"
  \/ r.op = "updateMenu" /\ (r.parent # None \/ r.module # None)
Changes(r) == Places(r) \/ r.op \in {"removeMenu", "removeModule"}

Busy(p) == req[p].pc \notin {"new", "done"} /\ Changes(req[p])

Goto(q, next) ==
  /\ req' = [req EXCEPT ![q] = next]
  /\ crossed' = crossed \cup
       {n \in Menus : \E p, o \in {x \in Requests : Busy(x)'} :
          p # o /\ Places(req'[p]) /\ req'[p].menu = n}

To(q, pc) == Goto(q, [req[q] EXCEPT !.pc = pc])

If(q, test, pc) == To(q, IF test THEN pc ELSE "done")

Init ==
  /\ menu \in SeededMenus
  /\ module = [m \in Modules |->
                 IF \E n \in Menus : menu[n] # None /\ menu[n].module = m
                   THEN [code |-> SeededCode(m), active |-> TRUE] ELSE None]
  /\ route = [n \in Menus |-> None]
  /\ service = [s \in Services \cup Menus |->
                  IF s \in SeededServices THEN [active |-> TRUE, module |-> None]
                                          ELSE None]
  /\ req = [q \in Requests |-> NoRequest]
  /\ crossed = {}

Start(q, op, change) ==
  /\ req[q].pc = "new" /\ op \in Ops /\ Asks(change)
  /\ Goto(q, change)
  /\ UNCHANGED tables

\* Which handler a request is for, and what its path and body say. What
\* update is not given is None, and in nulls when it is given as null; create
\* cannot set a target without a url.
StartModule(q) ==
  \/ \E c \in Codes :
       Start(q, "createModule", [req[q] EXCEPT !.op = "createModule",
                                               !.pc = "exists", !.code = c])
  \/ \E m \in Modules, c \in Codes :
       Start(q, "updateModule", [req[q] EXCEPT !.op = "updateModule",
                                  !.pc = "module", !.into = m, !.code = c])
  \/ \E m \in Modules :
       Start(q, "removeModule", [req[q] EXCEPT !.op = "removeModule",
                                               !.pc = "module", !.into = m])

StartCreateMenu(q) ==
  \E n \in Menus, m \in Modules, p \in Menus \cup {None}, u \in Paths \cup {None},
     t \in {"keep", "set"} :
    /\ Unused(n) /\ (t = "set" => u # None)
    /\ Start(q, "createMenu",
             [req[q] EXCEPT !.op = "createMenu", !.pc = "module", !.menu = n,
                            !.module = m, !.into = m, !.parent = p, !.url = u,
                            !.path = u, !.target = t])

StartUpdateMenu(q) ==
  \E n \in Menus, m \in Modules \cup {None}, p \in Menus \cup {None},
     u \in Paths \cup {None}, t \in {"keep", "set", "clear"},
     nulls \in SUBSET {"parent", "url"} :
    /\ menu[n] # None
    /\ ("parent" \in nulls => p = None) /\ ("url" \in nulls => u = None)
    /\ Start(q, "updateMenu",
             [req[q] EXCEPT !.op = "updateMenu", !.pc = "menu", !.menu = n,
                            !.module = m, !.parent = p, !.url = u, !.nulls = nulls,
                            !.target = t])

StartRemoveMenu(q) ==
  \E n \in Menus :
    /\ menu[n] # None
    /\ Start(q, "removeMenu", [req[q] EXCEPT !.op = "removeMenu", !.pc = "menu",
                                             !.menu = n])

StartService(q) ==
  \E s \in Services :
    \/ Start(q, "createService", [req[q] EXCEPT !.op = "createService",
                                                !.pc = "exists", !.service = s])
    \/ Start(q, "removeService", [req[q] EXCEPT !.op = "removeService",
                                                !.pc = "service", !.service = s])

\* The module gets the code of the service.
StartProvision(q) ==
  \E s \in Services, u \in Paths :
    Start(q, "provision", [req[q] EXCEPT !.op = "provision", !.pc = "service",
                                         !.service = s, !.code = s, !.path = u])

-----------------------------------------------------------------------------
(* The calls that read *)

\* A target is tried before the transaction.
ProbeOrWrite(r) == IF r.target = "set" THEN "probe" ELSE "write"

\* ensureActiveModule, of the module the menu is in or will be in.
ReadModule(q) ==
  /\ req[q].pc = "module"
  /\ If(q, IsActive(module, req[q].into),
        CASE req[q].op = "removeModule" -> "collect"
          [] req[q].op = "updateModule" -> "write"
          [] req[q].op = "updateMenu" -> IF req[q].parent = None THEN "route" ELSE "walk"
          [] req[q].op = "createMenu" -> IF req[q].parent # None THEN "parent"
                                         ELSE ProbeOrWrite(req[q]))
  /\ UNCHANGED tables

\* findUnique on the code, of inactive rows too.
ReadExists(q) ==
  /\ req[q].pc = "exists"
  /\ If(q, IF req[q].op = "createService" THEN service[req[q].service] = None
                                         ELSE CodeFree(req[q].code, None),
        IF req[q].op = "createService" THEN "probe" ELSE "write")
  /\ UNCHANGED tables

\* findActiveOrThrow; a service that was provisioned is refused.
ReadService(q) ==
  LET s == req[q].service IN
  /\ req[q].pc = "service"
  /\ If(q, IsActive(service, s) /\ (req[q].op = "provision" => service[s].module = None),
        IF req[q].op = "provision" THEN "exists" ELSE "write")
  /\ UNCHANGED tables

\* ensureActiveMenu. What update is not told it takes from the row it read.
ReadMenu(q) ==
  LET n == req[q].menu IN
  /\ req[q].pc = "menu"
  /\ IF ~IsActive(menu, n) THEN To(q, "done")
     ELSE IF req[q].op = "removeMenu"
       THEN Goto(q, [req[q] EXCEPT !.ids = {n}, !.level = {n}, !.pc = "collect"])
       ELSE Goto(q, [req[q] EXCEPT !.pc = "module", !.cursor = req[q].parent,
              !.into = IF req[q].module = None THEN menu[n].module ELSE req[q].module,
              !.path = IF req[q].url = None /\ "url" \notin req[q].nulls
                         THEN menu[n].url ELSE req[q].url])
  /\ UNCHANGED tables

\* (a bug) Only the new parent is looked at, not what is above it.
ParentIsNotSelf(q) ==
  /\ req[q].pc = "walk"
  /\ If(q, req[q].cursor # req[q].menu, "parent")
  /\ UNCHANGED tables

\* assertNoCycle, one row of the way up after the other.
Walk(q) ==
  LET c == req[q].cursor IN
  /\ req[q].pc = "walk"
  /\ IF c = req[q].menu THEN To(q, "done")
     ELSE IF c = None \/ menu[c] = None THEN To(q, "parent")
     ELSE Goto(q, [req[q] EXCEPT !.cursor = menu[c].parent])
  /\ UNCHANGED tables

\* ensureParentInModule.
ReadParent(q) ==
  LET p == req[q].parent IN
  /\ req[q].pc = "parent"
  /\ If(q, IsActive(menu, p) /\ menu[p].module = req[q].into,
        IF req[q].op = "updateMenu" THEN "route" ELSE ProbeOrWrite(req[q]))
  /\ UNCHANGED tables

\* The route the menu has, outside the transaction that will change it. To
\* route a menu without a url is refused.
ReadRoute(q) ==
  LET n == req[q].menu IN
  /\ req[q].pc = "route"
  /\ Goto(q, [req[q] EXCEPT
       !.had = route[n] # None,
       !.pc = IF req[q].target # "set" THEN "write"
              ELSE IF req[q].path = None THEN "done"
              ELSE "probe"])
  /\ UNCHANGED tables

\* assertSafeProbeTarget, and for a service its health: the network answers.
Probe(q) ==
  /\ req[q].pc = "probe"
  /\ To(q, "write") \/ To(q, "done")
  /\ UNCHANGED tables

\* (a bug) The next level is looked for together with the last one.
CollectWithLevel(q) ==
  LET next == Children(req[q].level) \cup req[q].level IN
  /\ req[q].pc = "collect" /\ req[q].op = "removeMenu"
  /\ Goto(q, [req[q] EXCEPT !.ids = @ \cup next, !.level = next,
                            !.pc = IF next = {} THEN "write" ELSE @])
  /\ UNCHANGED tables

\* collectActiveSubtreeIds, a level at a time: around a cycle, forever.
Collect(q) ==
  LET next == Children(req[q].level) IN
  /\ req[q].pc = "collect" /\ req[q].op = "removeMenu"
  /\ Goto(q, [req[q] EXCEPT !.ids = @ \cup next, !.level = next,
                            !.pc = IF next = {} THEN "write" ELSE @])
  /\ UNCHANGED tables

\* The menus whose roles and routes ModulesService.remove inactivates.
CollectModule(q) ==
  /\ req[q].pc = "collect" /\ req[q].op = "removeModule"
  /\ Goto(q, [req[q] EXCEPT !.pc = "write", !.ids =
       {n \in Menus : IsActive(menu, n) /\ menu[n].module = req[q].into}])
  /\ UNCHANGED tables

-----------------------------------------------------------------------------
(* Routes. publicPath and menuId are unique, of INACTIVE rows too. *)

InUse(p, n) ==
  \E x \in Menus \ {n} : IsActive(route, x) /\ route[x].path = p

\* ensurePublicPathAvailable: an INACTIVE route gives the path up.
Freed(p, n) ==
  [x \in Menus |-> IF x # n /\ route[x] # None /\ route[x].path = p
                     THEN [route[x] EXCEPT !.path = Retired] ELSE route[x]]

RouteTo(s, p) == [service |-> s, path |-> p, active |-> TRUE]

\* detachProxyRoute, of the routes of the menus in S.
Detach(S) ==
  LET gone == {n \in S : route[n] # None} IN
  /\ route' = [n \in Menus |->
       IF n \in gone THEN [route[n] EXCEPT !.active = FALSE, !.path = Retired]
                     ELSE route[n]]
  /\ service' = [s \in Services \cup Menus |->
       IF s \in gone /\ route[s].service = s
         THEN [service[s] EXCEPT !.active = FALSE] ELSE service[s]]

\* attachProxyRoute.
Attach(n, p) ==
  /\ route' = [Freed(p, n) EXCEPT ![n] = RouteTo(n, p)]
  /\ service' = [service EXCEPT ![n] = [active |-> TRUE, module |-> None]]

\* (a bug) The implicit service stays as detaching left it.
ReattachRouteOnly(n, p) ==
  /\ route' = [Freed(p, n) EXCEPT ![n] = RouteTo(route[n].service, p)]
  /\ UNCHANGED service

\* The route a menu has, or had, goes to a new target; so does its implicit
\* service, a registered one is left alone.
Reattach(n, p) ==
  /\ route' = [Freed(p, n) EXCEPT ![n] = RouteTo(route[n].service, p)]
  /\ service' = [service EXCEPT ![n] =
       IF route[n].service = n THEN [@ EXCEPT !.active = TRUE] ELSE @]

-----------------------------------------------------------------------------
(* The transactions. One that meets a unique index leaves nothing behind. *)

Writing(q, op) == req[q].pc = "write" /\ req[q].op = op /\ To(q, "done")

CreateModule(q) ==
  /\ Writing(q, "createModule")
  /\ \E m \in Modules :
       /\ module[m] = None
       /\ module' = IF CodeFree(req[q].code, m)
            THEN [module EXCEPT ![m] = [code |-> req[q].code, active |-> TRUE]]
            ELSE module
  /\ UNCHANGED <<menu, route, service>>

UpdateModule(q) ==
  LET m == req[q].into IN
  /\ Writing(q, "updateModule")
  /\ module' = IF CodeFree(req[q].code, m)
                 THEN [module EXCEPT ![m] = [@ EXCEPT !.code = req[q].code]] ELSE module
  /\ UNCHANGED <<menu, route, service>>

\* The routes keep their paths, and their implicit services stay ACTIVE.
RemoveModule(q) ==
  LET m == req[q].into IN
  /\ Writing(q, "removeModule")
  /\ module' = [module EXCEPT ![m] = [@ EXCEPT !.active = FALSE]]
  /\ menu' = [n \in Menus |-> IF IsActive(menu, n) /\ menu[n].module = m
                                THEN [menu[n] EXCEPT !.active = FALSE] ELSE menu[n]]
  /\ route' = [n \in Menus |-> IF n \in req[q].ids /\ route[n] # None
                                 THEN [route[n] EXCEPT !.active = FALSE] ELSE route[n]]
  /\ UNCHANGED service

CreateMenu(q) ==
  LET n == req[q].menu IN
  /\ Writing(q, "createMenu")
  /\ IF req[q].target = "set" /\ InUse(req[q].path, n)
       THEN UNCHANGED tables
       ELSE /\ menu' = [menu EXCEPT ![n] = [module |-> req[q].module,
                  parent |-> req[q].parent, url |-> req[q].url, active |-> TRUE]]
            /\ IF req[q].target = "set" THEN Attach(n, req[q].path)
                                        ELSE UNCHANGED <<route, service>>
            /\ UNCHANGED module

Given(new, old) == IF new = None THEN old ELSE new

\* The same of a column that may be given as null.
Left(new, null, old) == Given(new, IF null THEN None ELSE old)

UpdateMenu(q) ==
  LET n == req[q].menu
      sets == req[q].target = "set"
  IN
  /\ Writing(q, "updateMenu")
  /\ IF \/ sets /\ InUse(req[q].path, n)
        \/ sets /\ ~req[q].had /\ route[n] # None
       THEN UNCHANGED tables
       ELSE /\ menu' = [menu EXCEPT ![n] =
                  [module |-> Given(req[q].module, @.module),
                   parent |-> Left(req[q].parent, "parent" \in req[q].nulls, @.parent),
                   url |-> Left(req[q].url, "url" \in req[q].nulls, @.url),
                   active |-> @.active]]
            /\ CASE req[q].target = "clear" /\ req[q].had -> Detach({n})
                 [] sets /\ req[q].had -> Reattach(n, req[q].path)
                 [] sets /\ ~req[q].had -> Attach(n, req[q].path)
                 [] OTHER -> UNCHANGED <<route, service>>
            /\ UNCHANGED module

\* (a bug) What is below the menu stays.
RemoveMenuAlone(q) ==
  LET n == req[q].menu IN
  /\ Writing(q, "removeMenu")
  /\ menu' = [menu EXCEPT ![n] = [@ EXCEPT !.active = FALSE]]
  /\ Detach({x \in {n} : IsActive(route, x)})
  /\ UNCHANGED module

\* It detaches the routes that are ACTIVE.
RemoveMenu(q) ==
  /\ Writing(q, "removeMenu")
  /\ menu' = [n \in Menus |-> IF n \in req[q].ids
                                THEN [menu[n] EXCEPT !.active = FALSE] ELSE menu[n]]
  /\ Detach({n \in req[q].ids : IsActive(route, n)})
  /\ UNCHANGED module

CreateService(q) ==
  /\ Writing(q, "createService")
  /\ service' = [service EXCEPT ![req[q].service] =
                   IF @ = None THEN [active |-> TRUE, module |-> None] ELSE @]
  /\ UNCHANGED <<module, menu, route>>

\* Only the service: its module, menus and routes stay as they are.
RemoveService(q) ==
  /\ Writing(q, "removeService")
  /\ service' = [service EXCEPT ![req[q].service] = [@ EXCEPT !.active = FALSE]]
  /\ UNCHANGED <<module, menu, route>>

\* What provision makes: a root without url and a leaf with its route, for
\* one item of the body.
Generate(q) ==
  \E m \in Modules, root, leaf \in Menus :
    LET s == req[q].service
        row(p, u) == [module |-> m, parent |-> p, url |-> u, active |-> TRUE]
    IN  /\ module[m] = None
        /\ root # leaf /\ Unused(root) /\ Unused(leaf)
        /\ module' = [module EXCEPT ![m] = [code |-> req[q].code, active |-> TRUE]]
        /\ menu' = [menu EXCEPT ![root] = row(None, None),
                                ![leaf] = row(root, req[q].path)]
        /\ route' = [route EXCEPT ![leaf] = RouteTo(s, req[q].path)]
        /\ service' = [service EXCEPT ![s] = [@ EXCEPT !.module = m]]

PathTaken(p) == \E x \in Menus : route[x] # None /\ route[x].path = p

\* (a bug) The codes of modules are not unique.
ProvisionAnyCode(q) ==
  /\ Writing(q, "provision")
  /\ IF PathTaken(req[q].path) THEN UNCHANGED tables ELSE Generate(q)

Provision(q) ==
  /\ Writing(q, "provision")
  /\ IF ~CodeFree(req[q].code, None) \/ PathTaken(req[q].path)
       THEN UNCHANGED tables ELSE Generate(q)

-----------------------------------------------------------------------------
Begin(q) ==
  \/ StartModule(q) \/ StartCreateMenu(q) \/ StartUpdateMenu(q)
  \/ StartRemoveMenu(q) \/ StartService(q) \/ StartProvision(q)

Read(q) ==
  \/ ReadModule(q) \/ ReadExists(q) \/ ReadService(q) \/ ReadMenu(q) \/ Walk(q)
  \/ ReadParent(q) \/ ReadRoute(q) \/ Probe(q) \/ Collect(q) \/ CollectModule(q)

Write(q) ==
  \/ CreateModule(q) \/ UpdateModule(q) \/ RemoveModule(q) \/ CreateMenu(q)
  \/ UpdateMenu(q) \/ RemoveMenu(q) \/ CreateService(q) \/ RemoveService(q) \/ Provision(q)

Next == \E q \in Requests : Begin(q) \/ Read(q) \/ Write(q)

Spec == Init /\ [][Next]_vars

\* The event loop and the database go on with what has begun.
LiveSpec == Spec /\ \A q \in Requests : WF_vars(Read(q) \/ Write(q))

-----------------------------------------------------------------------------
(* Properties *)

\* Every menu of C has its parent in C: around a cycle, or up to one.
Cyclic(C) == C # {} /\ \A n \in C : menu[n] # None /\ menu[n].parent \in C

RowsTyped ==
  /\ module \in [Modules -> Module \cup {None}]
  /\ menu \in [Menus -> Menu \cup {None}]
  /\ route \in [Menus -> Route \cup {None}]
  /\ service \in [Services \cup Menus -> Service \cup {None}]

\* The foreign keys of menus.
MenusLead ==
  \A n \in Menus : menu[n] # None =>
    /\ module[menu[n].module] # None
    /\ menu[n].parent # None => menu[menu[n].parent] # None

RoutesLead ==
  \A n \in Menus : route[n] # None =>
    /\ menu[n] # None /\ service[route[n].service] # None
    /\ \A x \in Menus \ {n} :
         route[x] # None /\ route[x].path = route[n].path
         => route[n].path = Retired

\* Rows and requests keep their shape, an ACTIVE route has the path of one
\* menu only and its service exists: what menus.service.ts, modules.service.ts
\* and external-services.service.ts write fits schema.prisma.
TypeOK ==
  /\ RowsTyped /\ MenusLead /\ RoutesLead
  /\ req \in [Requests -> Request]
  /\ crossed \subseteq Menus

\* The calls a handler makes.
Stages(op) ==
  CASE op = "createModule" -> {"exists", "write"}
    [] op = "updateModule" -> {"module", "write"}
    [] op = "removeModule" -> {"module", "collect", "write"}
    [] op = "createMenu" -> {"module", "parent", "probe", "write"}
    [] op = "updateMenu" -> {"menu", "module", "walk", "parent", "route", "probe", "write"}
    [] op = "removeMenu" -> {"menu", "collect", "write"}
    [] op = "createService" -> {"exists", "probe", "write"}
    [] op = "removeService" -> {"service", "write"}
    [] op = "provision" -> {"service", "exists", "write"}
    [] OTHER -> {}

\* The calls after the module was found ACTIVE, and after the parent was.
InModule == {"walk", "parent", "route", "probe", "write"}
UnderParent == {"route", "probe", "write"}

\* Its body has what its handler will put into rows.
BodyFits(r) ==
  /\ r.pc = "new" => r = NoRequest
  /\ r.pc \notin {"new", "done"} => r.op \in Ops /\ r.pc \in Stages(r.op)
  /\ r.op \in {"createMenu", "updateMenu", "removeMenu"} => r.menu \in Menus
  /\ r.op = "createMenu" => r.module \in Modules /\ r.into = r.module
  /\ r.op = "createMenu" /\ r.target = "set" => r.path \in Paths
  /\ r.op = "updateMenu" =>
       /\ r.pc = "module" => r.cursor = r.parent
       /\ r.pc \in {"module"} \cup InModule =>
            r.into \in Modules /\ r.module \in {r.into, None}
       /\ r.pc \in {"walk", "parent"} => r.parent # None
       /\ r.pc \in {"probe", "write"} /\ r.target = "set" => r.path \in Paths
  /\ r.op \in {"updateModule", "removeModule"} => r.into \in Modules
  /\ r.op \in {"createModule", "updateModule", "provision"} => r.code \in Codes
  /\ r.op \in {"createService", "removeService", "provision"} => r.service \in Services
  /\ r.op = "provision" => r.code = r.service /\ r.path \in Paths

\* The rows it has read are there.
RowsRead(r, modules, menus, routes, services) ==
  /\ r.op \in {"updateMenu", "removeMenu"} => menus[r.menu] # None
  /\ r.op \in {"createMenu", "updateMenu"} =>
       /\ r.pc \in InModule => modules[r.into] # None
       /\ r.pc \in UnderParent /\ r.parent # None => menus[r.parent] # None
  /\ r.op \in {"updateModule", "removeModule"} /\ r.pc \in {"collect", "write"} =>
       modules[r.into] # None
  /\ r.op \in {"removeService", "provision"} /\ r.pc \in {"exists", "write"} =>
       services[r.service] # None
  /\ r.had => r.op = "updateMenu" /\ routes[r.menu] # None
  /\ \A n \in r.ids : menus[n] # None

\* What a request knows when it writes.
Knows(r, modules, menus, routes, services) ==
  BodyFits(r) /\ RowsRead(r, modules, menus, routes, services)

RequestsKnow == \A q \in Requests : Knows(req[q], module, menu, route, service)

\* assertNoCycle walks up a tree that others change under it; still, a cycle
\* takes two menus placed by requests that ran together.
CyclesNeedCrossedMoves ==
  \A C \in SUBSET Menus :
    Cyclic(C) => \E a, b \in C \cap crossed : a # b

\* MenusService.remove inactivates a subtree that it collected before, and
\* ModulesService.remove what is in the module when it writes: what stays
\* ACTIVE in an INACTIVE module or below an INACTIVE menu, though that one's
\* module is ACTIVE, was placed by a request that ran together with another,
\* or its parent was.
OrphansNeedCrossedPlacement ==
  \A n \in Menus : IsActive(menu, n) /\ n \notin crossed =>
    /\ IsActive(module, menu[n].module)
    /\ LET p == menu[n].parent IN
       p # None => p \in crossed \/ menu[p].active \/ ~module[menu[p].module].active

\* What makes these two inductive. Requests that run together cross: the
\* menus they place are in crossed.
TogetherCross ==
  \A p, o \in Requests :
    p # o /\ Busy(p) /\ Busy(o) /\ Places(req[p]) => req[p].menu \in crossed

\* The id of a menu that will be created is nobody else's.
NewIdsAreFresh ==
  \A q \in Requests : InFlight(q) /\ req[q].op = "createMenu" =>
    /\ menu[req[q].menu] = None
    /\ \A o \in Requests \ {q} : req[o].menu # req[q].menu

\* U is what assertNoCycle has walked up so far: never the menu itself, and
\* closed, but for menus that others have placed while it walked.
Climbed(r, U, menus, X) ==
  LET above == U \cup IF r.pc = "walk" THEN {r.cursor} ELSE {} IN
  /\ r.menu \notin U /\ r.parent \in above
  /\ \A u \in U :
       menus[u] = None \/ menus[u].parent \in above \cup {None} \/ {u, r.menu} \subseteq X

Climbs(r, menus, X) ==
  r.op = "updateMenu" /\ r.parent # None /\ r.pc \in InModule
  => \E U \in SUBSET Menus : Climbed(r, U, menus, X)

\* What the calls of a request that did not cross have found still is so.
PlacementHolds(r, modules, menus, X) ==
  Places(r) /\ r.menu \notin X =>
    /\ r.pc \in InModule => IsActive(modules, r.into)
    /\ r.pc \in UnderParent /\ r.parent # None => IsActive(menus, r.parent)
    /\ r.op = "updateMenu" /\ r.pc \in {"module"} \cup InModule =>
         IsActive(menus, r.menu) /\ r.into = Given(r.module, menus[r.menu].module)

\* collectActiveSubtreeIds misses below what it has looked through only what
\* others have placed there.
SubtreeCollected(r, menus, X) ==
  r.op = "removeMenu" /\ r.pc \in {"collect", "write"} =>
    /\ r.level \subseteq r.ids /\ (r.pc = "write" => r.level = {})
    /\ \A n \in Menus :
         IsActive(menus, n) /\ menus[n].parent \in r.ids \ r.level => n \in r.ids \cup X

RequestsKnowTheTree ==
  \A q \in Requests :
    /\ Climbs(req[q], menu, crossed)
    /\ PlacementHolds(req[q], module, menu, crossed)
    /\ SubtreeCollected(req[q], menu, crossed)

TreeInv ==
  /\ TogetherCross /\ NewIdsAreFresh /\ RequestsKnowTheTree
  /\ CyclesNeedCrossedMoves /\ OrphansNeedCrossedPlacement

\* However a menu's route is set, cleared and set again, and whoever removes
\* what meanwhile, a route in use through its implicit service finds that
\* service ACTIVE, as ServiceProxyService.resolveRoute asks.
ImplicitServicesFollow ==
  \A n \in Menus :
    IsActive(route, n) /\ route[n].service = n => IsActive(service, n)

\* What makes these inductive.
CatalogInv == TypeOK /\ RequestsKnow /\ ImplicitServicesFollow

\* "rechaza aprovisionar dos veces el mismo servicio" (external-services.
\* service.spec.ts:298): whoever asks together, the routes of a registered
\* service are made once, in one module.
ProvisionedOnce ==
  \A s \in Services, a, b \in Menus :
    /\ route[a] # None /\ route[a].service = s
    /\ route[b] # None /\ route[b].service = s
    => menu[a].module = menu[b].module

\* A registered service has one route at most, made with the module that has
\* its code. Nothing keeps it so when the codes of modules are rewritten.
CodesKept ==
  \A a \in Menus : route[a] # None /\ route[a].service \in Services =>
    /\ \E m \in Modules : module[m] # None /\ module[m].code = route[a].service
    /\ \A b \in Menus \ {a} : route[b] # None => route[b].service # route[a].service

\* Every handler ends, unless a cycle of menus keeps assertNoCycle or
\* collectActiveSubtreeIds going round.
RequestsEnd ==
  \A q \in Requests :
    InFlight(q) ~> (~InFlight(q) \/ \E C \in SUBSET Menus : Cyclic(C))

\* "Mover un nodo no debe crear ciclos (validado en servicio)"
\* (modelo-datos.md:137).
MenusFormForest == \A C \in SUBSET Menus : ~Cyclic(C)

\* "El menu padre debe pertenecer al mismo modulo" (menus.service.ts:519).
ChildrenShareModule ==
  \A n \in Menus :
    IsActive(menu, n) /\ menu[n].parent # None /\ IsActive(menu, menu[n].parent)
    => menu[menu[n].parent].module = menu[n].module

\* "Elimina el modulo antes de volver a generarlo"
\* (external-services.service.ts:282): once it is removed, the service can
\* be provisioned.
RemovedModuleFreesService ==
  \A s \in Services :
    IsActive(service, s) /\ service[s].module # None
    => IsActive(module, service[s].module)

\* "El modulo y menus generados quedaran inactivos", as whoever removes a
\* service is told (ExternalServiceListView.vue:152).
RemovedServiceHidesMenus ==
  \A s \in Services, n \in Menus :
    /\ service[s] # None /\ ~service[s].active
    /\ route[n] # None /\ route[n].service = s
    => ~menu[n].active

\* detachProxyRoute gives a path up so that a menu with it can be created
\* again (menus.service.ts:419): an INACTIVE menu keeps no path from others.
RemovedMenusFreePaths ==
  \A n \in Menus : IsActive(route, n) => menu[n].active

\* The page of a menu /app/x asks for /proxy/x (endpoints.md:74): a menu with
\* a route has it under its own url.
RoutesFollowUrls ==
  \A n \in Menus :
    IsActive(menu, n) /\ IsActive(route, n) => route[n].path = menu[n].url
=============================================================================

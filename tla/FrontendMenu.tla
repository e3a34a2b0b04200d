---------------------------- MODULE FrontendMenu ----------------------------
(***************************************************************************)
(* The navigation of the SPA: the menu store, the routes it registers at   *)
(* run time, the router's guard, and the views that change menus and       *)
(* modules and patch the store with the answers. JavaScript runs to the    *)
(* next await: an action is a click, the backend serving a call, or an     *)
(* answer with all that follows from it at once.                           *)
(*                                                                         *)
(* A url stands for a menu's /app/... path; names, icons and order are     *)
(* left out, and so are moving a menu, which updateMenu of the store does  *)
(* not know, and creating a module, which has no routes. Only one tab and  *)
(* one document are modelled: FrontendSession has what tabs share. The     *)
(* backend refuses what it refuses in Catalog; here its answers count.     *)
(***************************************************************************)
EXTENDS Naturals, FiniteSets

CONSTANTS
  Roles, FullAccess,   \* roles, and those that see every menu
  Granted(_),          \* the menus another role sees
  Modules, Menus,
  Urls, Static,        \* of menus; those that are views of their own
  Loads,               \* calls for the tree
  Workloads,           \* how the SPA is used, see Workload
  None

VARIABLES
  work,        \* the workload
  server,      \* [modules, menu, used]: what is ACTIVE in the backend, ids used
  role,        \* of the session in localStorage, or None
  page,        \* where the router is
  nav,         \* [to, load]: a navigation its guard holds, or None
  modules, nodes, state,  \* the store: its modules, their nodes, its state
  twins,       \* the second node of each menu that has two
  registered,  \* the urls dynamic-routes has added to the router
  load,        \* the calls of menuService.tree()
  editing,     \* the menu MenuListView's modal is open for, or None
  save, del,   \* the saveMenu and the handleDelete under way
  edited,      \* how many there were
  robbed, stale, crossed  \* history, see Properties

store == <<modules, nodes, twins, state, registered>>
history == <<robbed, stale, crossed>>
vars == <<work, server, role, page, nav, store, load, editing, save, del, edited, history>>

-----------------------------------------------------------------------------
Node == [module: Modules, parent: Menus \cup {None}, url: Urls \cup {None}]
MenuTable == [Menus -> Node \cup {None}]

Tree == [modules: SUBSET Modules, menu: MenuTable]

Ops == {"login", "logout", "back", "reload", "visit", "load", "edit"}

\* The roles that sign in, the menus at first, what the users do, and the bounds:
\* urls they give menus, calls for the tree that are pending at once, and menus
\* and modules that are saved and deleted.
Workload ==
  [roles: SUBSET Roles, menu: MenuTable, ops: SUBSET Ops,
   urls: SUBSET Urls, loads: SUBSET Loads, edits: Nat]

ASSUME WorkloadsAssumption == Workloads \subseteq Workload

ASSUME NoneAssumption ==
  /\ None \notin Roles \cup FullAccess \cup Menus \cup Urls \cup Node
  /\ None \notin [to: Urls, load: Loads] \cup {"update", "create"}

ASSUME UrlsAssumption == Urls \cap {"login", "blank", "app"} = {}

\* blank: the document is there, its first navigation is not.
Pages == {"login", "blank", "app"} \cup Urls
Inside(p) == p \in {"app"} \cup Urls

NoCall == [pc |-> "none", role |-> None, tree |-> None]

NoTree == [modules |-> {}, menu |-> [n \in Menus |-> None]]

NoSave == [pc |-> "none", op |-> None, menu |-> None, row |-> None]

Present(menu) == {n \in Menus : menu[n] # None}

UrlsIn(menu, S) == {menu[n].url : n \in S \cap Present(menu)} \ {None}

\* S and what hangs from it in menu.
Below(menu, S) ==
  LET reach[k \in 0 .. Cardinality(Menus)] ==
        IF k = 0 THEN S
        ELSE reach[k - 1] \cup
               {n \in Present(menu) : menu[n].parent \in reach[k - 1]}
  IN  reach[Cardinality(Menus)]

Without(menu, S) == [n \in Menus |-> IF n \in S THEN None ELSE menu[n]]

\* MenusService.treeForRole, as ServiceProxy has it in full.
TreeForRole(r) ==
  LET mine == {n \in Present(server.menu) : r \in FullAccess \/ n \in Granted(r)}
      lost == {n \in mine : server.menu[n].parent \notin mine \cup {None}}
      shown == mine \ Below(server.menu, lost)
  IN  [modules |-> {server.menu[n].module : n \in shown},
       menu |-> Without(server.menu, Menus \ shown)]

-----------------------------------------------------------------------------
(* The store and its routes *)

shownTree == <<modules, nodes, twins, registered, robbed>>

UrlsOf(menu) == UrlsIn(menu, Menus)

\* What registerMenuRoutes adds for a tree: one route for a url.
Routable(menu) == UrlsOf(menu) \ Static

\* Of the tree as it is.
Shown == UrlsOf(nodes) \cup UrlsOf(twins)

\* The urls that nodes of the new tree still have are robbed of their routes if
\* they are in lost.
Shows(mods, menu, second, reg, lost) ==
  /\ modules' = mods /\ nodes' = menu /\ twins' = second /\ registered' = reg
  /\ robbed' = robbed \cup (lost \cap (UrlsOf(menu) \cup UrlsOf(second)))

\* load with its answer: clearMenuRoutes and registerMenuRoutes.
Replace(tree) ==
  /\ modules' = tree.modules /\ nodes' = tree.menu /\ twins' = NoTree.menu
  /\ registered' = Routable(tree.menu) /\ robbed' = {}

\* addMenu pushes a node below its parent if that is there, else at the top of
\* its module, and does not look whether a load has brought the menu already. It
\* comes last, so what looks for the menu finds the other one.
AddMenu(n, row) ==
  IF row.parent \in Present(nodes) \/ row.module \in modules
    THEN LET node == [row EXCEPT !.parent = IF @ \in Present(nodes) THEN @ ELSE None]
             again == n \in Present(nodes)
         IN  Shows(modules,
                   IF again THEN nodes ELSE [nodes EXCEPT ![n] = node],
                   IF again THEN [twins EXCEPT ![n] = node] ELSE twins,
                   registered \cup ({row.url} \ ({None} \cup Static)), {})
    ELSE UNCHANGED shownTree

\* (a bug) The route of the new url is not made.
UpdateOnlyMenu(n, url) ==
  IF n \in Present(nodes) /\ url \notin {None, nodes[n].url}
    THEN Shows(modules, [nodes EXCEPT ![n].url = url], twins,
               registered \ {nodes[n].url}, {nodes[n].url})
    ELSE UNCHANGED shownTree

\* updateMenu: the route of the old url goes, that of the new one comes.
UpdateMenu(n, url) ==
  IF n \in Present(nodes) /\ url \notin {None, nodes[n].url}
    THEN Shows(modules, [nodes EXCEPT ![n].url = url], twins,
               (registered \ {nodes[n].url}) \cup ({url} \ Static), {nodes[n].url})
    ELSE UNCHANGED shownTree

\* (a bug) Only the routes of the menus that were removed by name go.
DropTopRoutes(S, copies, mods) ==
  LET gone == Below(nodes, S) IN
  Shows(mods, Without(nodes, gone), Without(twins, gone),
        registered \ UrlsIn(nodes, S), UrlsIn(nodes, gone))

\* The first nodes of S go, with what hangs from them, and the second ones of
\* copies. A second node whose first has gone without it is what there is now.
\* removeNodeRoute is for each node that goes.
Drop(S, copies, mods) ==
  LET gone == Below(nodes, S)
      also == copies \cup {n \in Present(twins) : twins[n].parent \in gone}
      lost == UrlsIn(nodes, gone) \cup UrlsIn(twins, also)
  IN  Shows(mods,
            [n \in Menus |-> IF n \notin gone THEN nodes[n]
                             ELSE IF n \in also THEN None ELSE twins[n]],
            Without(twins, gone \cup also), registered \ lost, lost)

-----------------------------------------------------------------------------
Pending == {l \in Loads : load[l].pc # "none"}

\* What may yet add menus to the store.
Underway == Pending # {} \/ save.pc # "none"

\* The call for the tree goes out with the token of the session there is. If
\* held is a url, a navigation to it waits for the answer.
Ask(l, r, held) ==
  /\ l \in work.loads /\ load[l].pc = "none"
  /\ load' = [load EXCEPT ![l] = [pc |-> "sent", role |-> r, tree |-> None]]
  /\ nav' = IF held = None THEN nav ELSE [to |-> held, load |-> l]

\* Sidebar's onMounted, when the shell appears: load asks unless it has been
\* answered.
Mount(r) ==
  IF state # "loaded" THEN state' = "loading" /\ \E l \in Loads : Ask(l, r, None)
  ELSE UNCHANGED <<state, load, nav>>

Init ==
  /\ work \in Workloads
  /\ server = [modules |-> Modules, menu |-> work.menu, used |-> Present(work.menu)]
  /\ role = None /\ page = "login" /\ nav = None
  /\ modules = {} /\ nodes = NoTree.menu /\ twins = NoTree.menu
  /\ state = "idle" /\ registered = {}
  /\ load = [l \in Loads |-> NoCall]
  /\ editing = None /\ save = NoSave /\ del = NoSave /\ edited = 0
  /\ robbed = {} /\ stale = FALSE /\ crossed = {}

edits == <<editing, save, del, edited, crossed>>

-----------------------------------------------------------------------------
(* Sessions and navigation *)

\* selectRole and router.push('/app'). Nothing is reset on the way in.
SelectRole ==
  /\ "login" \in work.ops /\ page = "login"
  /\ \E r \in work.roles :
       /\ role' = r
       /\ stale' = (stale \/ Underway \/ role # None)
       /\ Mount(r)
  /\ page' = "app"
  /\ UNCHANGED <<server, shownTree, edits>>

\* (a bug) The store is left to the next session.
LogoutKeepingStore ==
  /\ "logout" \in work.ops /\ Inside(page)
  /\ role' = None /\ page' = "login" /\ nav' = None
  /\ stale' = (stale \/ Underway)
  /\ UNCHANGED <<server, store, load, edits, robbed>>

\* handleLogout, once authService.logout is through: reset and to /login.
Logout ==
  /\ "logout" \in work.ops /\ Inside(page)
  /\ role' = None /\ page' = "login" /\ nav' = None
  /\ Replace(NoTree) /\ state' = "idle"
  /\ stale' = (stale \/ Underway)
  /\ UNCHANGED <<server, load, edits>>

\* Back in the browser's history: /login has no guard, nothing is reset.
BackToLogin ==
  /\ "back" \in work.ops /\ Inside(page)
  /\ page' = "login" /\ nav' = None
  /\ UNCHANGED <<server, role, store, load, edits, history>>

\* The document is loaded again, at some url: what was pending is gone, and was
\* served before or is refused. At a view of its own the shell appears and asks for
\* the tree; elsewhere the guard asks first.
Reload ==
  /\ "reload" \in work.ops /\ Inside(page)
  /\ Replace(NoTree) /\ state' = "loading"
  /\ editing' = None /\ save' = NoSave /\ del' = NoSave
  /\ \E u \in Urls, l \in work.loads :
       /\ load' = [x \in Loads |-> IF x = l
             THEN [pc |-> "sent", role |-> role, tree |-> None] ELSE NoCall]
       /\ IF u \in Static THEN page' = u /\ nav' = None
          ELSE page' = "blank" /\ nav' = [to |-> u, load |-> l]
  /\ UNCHANGED <<server, role, edited, stale, crossed>>

\* beforeEach of a link to u. If no route is there and the tree was never
\* loaded it asks for it and tries once more; else to the dashboard.
Visit ==
  /\ "visit" \in work.ops /\ Inside(page)
  /\ \E u \in Urls :
       IF u \in Static \cup registered
         THEN page' = u /\ nav' = None /\ UNCHANGED <<state, load>>
         ELSE IF state = "loaded"
         THEN page' = "app" /\ nav' = None /\ UNCHANGED <<state, load>>
         ELSE /\ state' = "loading" /\ UNCHANGED page
              /\ \E l \in Loads : Ask(l, role, u)
  /\ UNCHANGED <<server, role, shownTree, edits, stale>>

\* Sidebar's button after an error; also what RoleDetailView, the forms of
\* modules and menus and the wizard do when they are done.
ForceLoad ==
  /\ "load" \in work.ops /\ Inside(page)
  /\ state' = "loading" /\ \E l \in Loads : Ask(l, role, None)
  /\ UNCHANGED <<server, role, page, shownTree, edits, stale>>

\* The backend answers with the tree as it is now.
ServeLoad(l) ==
  /\ load[l].pc = "sent"
  /\ load' = [load EXCEPT ![l] = [@ EXCEPT !.pc = "answered",
                                           !.tree = TreeForRole(load[l].role)]]
  /\ UNCHANGED <<server, role, page, nav, store, edits, history>>

\* The guard goes on after ensureRoutes, however that went: to the url if it
\* has a route now, else to the dashboard. A first navigation makes the shell
\* appear, which asks again if the tree is not there.
GoOn(l, reg, after) ==
  LET held == nav # None /\ nav.load = l
      mounts == held /\ page = "blank" /\ after # "loaded"
  IN  /\ page' = IF ~held THEN page ELSE IF nav.to \in reg THEN nav.to ELSE "app"
      /\ nav' = IF held THEN None ELSE nav
      /\ state' = IF mounts THEN "loading" ELSE after
      /\ load' = [load EXCEPT ![l] = IF mounts
            THEN [pc |-> "sent", role |-> role, tree |-> None] ELSE NoCall]

LoadAnswered(l) ==
  LET tree == load[l].tree IN
  /\ load[l].pc = "answered"
  /\ Replace(tree)
  /\ GoOn(l, Routable(tree.menu), IF tree.modules = {} THEN "empty" ELSE "loaded")
  /\ UNCHANGED <<server, role, edits, stale>>

LoadFailed(l) ==
  /\ load[l].pc # "none"
  /\ GoOn(l, registered, "error")
  /\ UNCHANGED <<server, role, shownTree, edits, stale>>

-----------------------------------------------------------------------------
(* MenuListView and ModuleListView, open to roles with full access *)

Editor == "edit" \in work.ops /\ Inside(page) /\ role \in FullAccess
Edits == Editor /\ edited < work.edits /\ edited' = edited + 1

unedited == <<role, page, nav, load, state, stale>>

\* openEdit, openCreate (None) and closeModal, also while a save is under way.
OpenModal ==
  /\ Editor
  /\ \E n \in Menus \cup {None} :
       /\ n # editing /\ (n # None => server.menu[n] # None)
       /\ editing' = n
       /\ crossed' = crossed \cup
            (IF save.op = "update" THEN {save.menu, n} \ {None} ELSE {})
  /\ UNCHANGED <<server, edited, unedited, shownTree, save, del>>

\* saveMenu: one at a time, its button is disabled meanwhile.
SaveMenu ==
  /\ Edits /\ save.pc = "none"
  /\ \E u \in work.urls \cup {None}, m \in Modules, p \in Menus \cup {None} :
       LET row == [module |-> m, parent |-> p, url |-> u] IN
       \/ /\ editing # None /\ p = None
          /\ save' = [pc |-> "sent", op |-> "update", menu |-> editing, row |-> row]
       \/ /\ editing = None
          /\ \E n \in Menus :
               /\ n \notin server.used
               /\ save' = [pc |-> "sent", op |-> "create", menu |-> n, row |-> row]
  /\ UNCHANGED <<server, unedited, shownTree, editing, del, crossed>>

Saves ==
  LET s == save IN
  \/ /\ s.op = "update" /\ server.menu[s.menu] # None
     /\ server' = [server EXCEPT !.menu[s.menu].url =
                     IF s.row.url = None THEN @ ELSE s.row.url]
  \/ /\ s.op = "create" /\ server.menu[s.menu] = None /\ s.row.module \in server.modules
     /\ s.row.parent # None => /\ server.menu[s.row.parent] # None
                               /\ server.menu[s.row.parent].module = s.row.module
     /\ server' = [server EXCEPT !.menu[s.menu] = s.row, !.used = @ \cup {s.menu}]

\* The backend serves it, and its answer may be lost, or refuses. A save that fails
\* leaves the modal open and the store as it is.
ServeSave ==
  /\ save.pc = "sent"
  /\ \/ /\ Saves /\ save' = [save EXCEPT !.pc = "answered"]
        /\ crossed' = IF save.op = "update" /\ Pending # {}
                       THEN crossed \cup {save.menu} ELSE crossed
     \/ /\ Saves /\ save' = NoSave
        /\ crossed' = IF save.op = "update" THEN crossed \cup {save.menu} ELSE crossed
     \/ save' = NoSave /\ UNCHANGED <<server, crossed>>
  /\ UNCHANGED <<edited, unedited, shownTree, editing, del>>

\* saveMenu after its await: the menu is the one the modal is open for now; if
\* it was closed that is an error and the store stays as it is.
SaveAnswered ==
  /\ save.pc = "answered"
  /\ save' = NoSave /\ editing' = None
  /\ CASE save.op = "create" -> AddMenu(save.menu, save.row)
       [] save.op = "update" /\ editing # None -> UpdateMenu(editing, save.row.url)
       [] OTHER -> UNCHANGED shownTree
  /\ crossed' = IF save.op = "create" /\ save.menu \in Present(nodes)
                 THEN crossed \cup {save.menu} ELSE crossed
  /\ UNCHANGED <<server, edited, unedited, del>>

\* handleDelete of either view; others that overlap with it are left out.
Delete ==
  /\ Edits /\ del.pc = "none"
  /\ \/ \E n \in Present(server.menu) :
          del' = [pc |-> "sent", op |-> "menu", menu |-> n, row |-> None]
     \/ \E m \in server.modules :
          del' = [pc |-> "sent", op |-> "module", menu |-> None, row |-> m]
  /\ UNCHANGED <<server, unedited, shownTree, editing, save, crossed>>

Inhabitants(menu, m) == {n \in Present(menu) : menu[n].module = m}

\* The backend serves it, and its answer may be lost, or refuses.
ServeDelete ==
  /\ del.pc = "sent"
  /\ \/ /\ del' \in {[del EXCEPT !.pc = "answered"], NoSave}
        /\ server' = IF del.op = "menu"
             THEN [server EXCEPT !.menu = Without(@, Below(@, {del.menu}))]
             ELSE [server EXCEPT !.modules = @ \ {del.row},
                                 !.menu = Without(@, Inhabitants(@, del.row))]
     \/ del' = NoSave /\ UNCHANGED server
  /\ UNCHANGED <<edited, unedited, shownTree, editing, save, crossed>>

Tops(menu, m) == {n \in Inhabitants(menu, m) : menu[n].parent = None}

\* removeMenu takes the first node the menu has, removeModule all of the module. A
\* module that loses its last menu stays in the store.
DeleteAnswered ==
  /\ del.pc = "answered"
  /\ del' = NoSave
  /\ IF del.op = "menu"
       THEN Drop({del.menu} \cap Present(nodes), {}, modules)
       ELSE Drop(Tops(nodes, del.row), Tops(twins, del.row), modules \ {del.row})
  /\ UNCHANGED <<server, edited, unedited, editing, save, crossed>>

-----------------------------------------------------------------------------
Actions ==
  \/ SelectRole \/ Logout \/ BackToLogin \/ Reload \/ Visit \/ ForceLoad
  \/ \E l \in Loads : ServeLoad(l) \/ LoadAnswered(l) \/ LoadFailed(l)
  \/ OpenModal \/ SaveMenu \/ ServeSave \/ SaveAnswered
  \/ Delete \/ ServeDelete \/ DeleteAnswered

Next == Actions /\ UNCHANGED work

Spec == Init /\ [][Next]_vars

\* The network answers a call or fails it. Nobody has to click.
LiveSpec ==
  Spec /\ \A l \in Loads :
    /\ WF_vars(ServeLoad(l) /\ UNCHANGED work)
    /\ WF_vars((LoadAnswered(l) \/ LoadFailed(l)) /\ UNCHANGED work)

-----------------------------------------------------------------------------
(* Properties *)

Awaits == {"none", "sent", "answered"}

\* Store, router and calls keep their shape, and a navigation is held only while
\* its call is under way (menu.ts, dynamic-routes.ts).
TypeOK ==
  /\ work \in Workload
  /\ server \in [modules: SUBSET Modules, menu: MenuTable, used: SUBSET Menus]
  /\ role \in Roles \cup {None} /\ page \in Pages
  /\ nav \in [to: Urls, load: Loads] \cup {None}
  /\ nav # None => load[nav.load].pc # "none"
  /\ modules \subseteq Modules /\ nodes \in MenuTable
  /\ twins \in MenuTable /\ Present(twins) \subseteq Present(nodes)
  /\ state \in {"idle", "loading", "error", "empty", "loaded"}
  /\ registered \subseteq Urls \ Static
  /\ load \in [Loads -> [pc: Awaits, role: Roles \cup {None}, tree: Tree \cup {None}]]
  /\ \A l \in Loads : load[l].pc = "answered" => load[l].tree \in Tree
  /\ editing \in Menus \cup {None}
  /\ save \in [pc: Awaits, op: {None, "update", "create"}, menu: Menus \cup {None},
               row: Node \cup {None}]
  /\ save.pc # "none" => save.op # None /\ save.menu # None /\ save.row # None
  /\ del \in [pc: Awaits, op: {None, "menu", "module"}, menu: Menus \cup {None},
              row: Modules \cup {None}]
  /\ edited \in Nat
  /\ robbed \subseteq Urls /\ stale \in BOOLEAN /\ crossed \subseteq Menus

\* However loads, patches and resets follow one another, the router has no
\* route for what the menu does not show: clearMenuRoutes and
\* removeNodeRoute undo what was registered.
RoutesHaveMenus == registered \subseteq Shown

\* What the menu shows can be opened. Only the edit or the removal of another node
\* with its url, of another menu or of the same one shown twice, takes its route
\* away, and the next tree gives it back (menu.ts:93-186, dynamic-routes.ts:37-128).
MenusHaveRoutes == Shown \ (Static \cup robbed) \subseteq registered

\* A tree that is shown as loaded is the active role's, if the session was
\* changed through logout and with no load or save under way (menu.ts:20-48).
MenuIsOfRole ==
  Inside(page) /\ state = "loaded" /\ role \notin FullAccess /\ ~stale
  => Present(nodes) \subseteq Granted(role)

\* The store shows a menu once and with the url that was saved for it. It need not
\* if the menu crossed with something: the answer was lost when its url was saved, it
\* was saved while a tree was on its way, a tree brought it before the answer
\* that it was created, or the modal was opened for it, or left by it, while a url
\* was being saved (MenuListView.saveMenu and menu.ts:93-128).
EditsReachTheirMenu ==
  \A n \in Present(nodes) \ crossed :
    \/ server.menu[n] = None
    \/ twins[n] = None /\ nodes[n].url = server.menu[n].url
    \/ save.pc # "none" \/ Pending # {} \/ del.pc # "none"

\* The trees there are: in the backend, in the store, and on their way to it.
Answered == {l \in Loads : load[l].pc = "answered"}
Trees == {server.menu, nodes, twins} \cup {load[l].tree.menu : l \in Answered}

\* RoutesHaveMenus and MenusHaveRoutes, inductively: a menu that is saved is new,
\* and its url is the same in every tree that has it when the store adds it.
RoutesInv ==
  /\ RoutesHaveMenus /\ MenusHaveRoutes
  /\ \A t \in Trees : Present(t) \subseteq server.used
  /\ save.op = "create" =>
       /\ save.pc = "sent" => save.menu \notin server.used
       /\ save.pc = "answered" =>
            /\ save.menu \in server.used
            /\ \A t \in Trees : save.menu \in Present(t) => t[save.menu].url = save.row.url

\* MenuIsOfRole, inductively: what is under way was asked for by the role there
\* is, and only an administrator saves menus.
RoleInv ==
  /\ page # "login" => role # None
  /\ nav # None => page # "login"
  /\ \A l \in Answered :
       load[l].role \in FullAccess \/ Present(load[l].tree.menu) \subseteq Granted(load[l].role)
  /\ ~stale =>
       /\ \A l \in Pending : role # None /\ load[l].role = role
       /\ save.pc # "none" => role \in FullAccess
       /\ IF role = None THEN Present(nodes) = {}
          ELSE role \in FullAccess \/ Present(nodes) \subseteq Granted(role)

\* The menu whose new url the backend has and the store does not know yet.
Catching(n) ==
  /\ save.pc = "answered" /\ save.op = "update" /\ n = save.menu
  /\ save.row.url # None

Agrees(t, n) ==
  n \in Present(t) \cap Present(server.menu) => t[n].url = server.menu[n].url

\* EditsReachTheirMenu, inductively: the trees agree with the backend on what did
\* not cross, but for the menu that is being saved, and the modal is still open for
\* that one, or for one that crossed.
EditsInv ==
  /\ \A n \in Menus \ crossed :
       /\ twins[n] = None
       /\ Catching(n) \/ Agrees(nodes, n)
       /\ \A l \in Answered : Agrees(load[l].tree.menu, n)
  /\ save.op = "update" =>
       editing = save.menu \/ {save.menu, editing} \subseteq crossed \cup {None}
  /\ \A n \in Present(server.menu) :
       Catching(n) => server.menu[n].url = save.row.url

\* A link is followed, to its page or to another, or given up for the next:
\* "se reintenta UNA vez" (router/index.ts:59).
NavigationSettles ==
  \A u \in Urls, l \in Loads :
    nav = [to |-> u, load |-> l] ~> nav # [to |-> u, load |-> l]

\* "por cada menu hoja cuya url empiece por /app/ y no exista ya como ruta
\* estatica, se registra una ruta" (dynamic-routes.ts:9).
EveryMenuHasRoute == Shown \ Static \subseteq registered

\* "Agrega un menu al arbol local" (menu.ts:93): once.
EachMenuOnce == Present(twins) = {}

\* "Estado del arbol de menus del rol activo" (menu.ts:9).
MenuIsOfActiveRole ==
  Inside(page) /\ state = "loaded" /\ role \notin FullAccess
  => Present(nodes) \subseteq Granted(role)

\* "Actualiza propiedades de un nodo menu en el arbol local" (menu.ts:113): of
\* the menu that was saved.
UpdatesSavedMenu ==
  \A n \in Menus :
    /\ save.pc = "answered" /\ save.op = "update" /\ save'.pc = "none"
    /\ nodes'[n] \notin {None, nodes[n]}
    => n = save.menu

SavedMenuIsUpdated == [][UpdatesSavedMenu]_vars
=============================================================================

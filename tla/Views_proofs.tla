---------------------------- MODULE Views_proofs ----------------------------
(***************************************************************************)
(* That the routes of the router are those of the menus that are shown,    *)
(* that the menus shown are of the session's role and that edits reach the *)
(* menu they are for, but for what the properties name, for every set of   *)
(* roles, modules, menus, urls and calls and every workload. What a step   *)
(* does to the store is one of five things; the first part says what each  *)
(* of them preserves, the rest goes through the actions. The last part is  *)
(* about the form that registers services and the page that shows what one *)
(* answers, which are scenarios of their own.                              *)
(***************************************************************************)
EXTENDS Views, Sequences, TLAPS

-----------------------------------------------------------------------------
(* The shape of things *)

StoreOK ==
  /\ modules \subseteq Modules /\ nodes \in MenuTable
  /\ twins \in MenuTable /\ Present(twins) \subseteq Present(nodes)
  /\ registered \subseteq Urls \ Static /\ robbed \subseteq Urls

Call == [pc: Awaits, role: Roles \cup {None}, tree: Tree \cup {None}]

LoadOK ==
  load \in [Loads -> Call] /\ \A l \in Loads : load[l].pc = "answered" => load[l].tree \in Tree

NavOK ==
  /\ nav \in [to: Urls, load: Loads] \cup {None}
  /\ nav # None => load[nav.load].pc # "none"

LEMMA TypeParts ==
  TypeOK <=>
    /\ StoreOK /\ NavOK /\ LoadOK
    /\ work \in Workload
    /\ server \in [modules: SUBSET Modules, menu: MenuTable, used: SUBSET Menus]
    /\ role \in Roles \cup {None} /\ page \in Pages
    /\ state \in {"idle", "loading", "error", "empty", "loaded"}
    /\ editing \in Menus \cup {None}
    /\ save \in [pc: Awaits, op: {None, "update", "create"}, menu: Menus \cup {None},
                 row: Node \cup {None}]
    /\ save.pc # "none" => save.op # None /\ save.menu # None /\ save.row # None
    /\ del \in [pc: Awaits, op: {None, "menu", "module"}, menu: Menus \cup {None},
                row: Modules \cup {None}]
    /\ edited \in Nat /\ stale \in BOOLEAN /\ crossed \subseteq Menus
BY DEF TypeOK, StoreOK, NavOK, LoadOK, Call

LEMMA MenuRows ==
  ASSUME NEW menu \in MenuTable, NEW n \in Menus
  PROVE  /\ n \in Present(menu) <=> menu[n] # None
         /\ n \in Present(menu) => menu[n] \in Node
BY DEF MenuTable, Present

LEMMA WithoutType ==
  ASSUME NEW menu \in MenuTable, NEW S
  PROVE  /\ Without(menu, S) \in MenuTable
         /\ \A n \in Menus : Without(menu, S)[n] = IF n \in S THEN None ELSE menu[n]
         /\ Present(Without(menu, S)) = Present(menu) \ S
BY DEF MenuTable, Without, Present

LEMMA UrlsInType ==
  ASSUME NEW menu \in MenuTable, NEW S
  PROVE  /\ UrlsIn(menu, S) \subseteq Urls
         /\ UrlsOf(menu) \subseteq Urls
         /\ \A u \in Urls : u \in UrlsOf(menu) <=>
              \E n \in Menus : menu[n] # None /\ menu[n].url = u
BY NoneAssumption DEF MenuTable, UrlsIn, UrlsOf, Present, Node

LEMMA TreeType ==
  ASSUME server.menu \in MenuTable, NEW r
  PROVE  /\ TreeForRole(r) \in Tree
         /\ Present(TreeForRole(r).menu) \subseteq Present(server.menu)
         /\ r \in FullAccess \/ Present(TreeForRole(r).menu) \subseteq Granted(r)
         /\ \A n \in Present(TreeForRole(r).menu) : TreeForRole(r).menu[n] = server.menu[n]
<1> DEFINE mine == {n \in Present(server.menu) : r \in FullAccess \/ n \in Granted(r)}
           lost == {n \in mine : server.menu[n].parent \notin mine \cup {None}}
           shown == mine \ Below(server.menu, lost)
           menu == Without(server.menu, Menus \ shown)
<1>1. TreeForRole(r) = [modules |-> {server.menu[n].module : n \in shown}, menu |-> menu]
  BY DEF TreeForRole
<1>2. /\ shown \subseteq Present(server.menu) /\ Present(server.menu) \subseteq Menus
      /\ r \in FullAccess \/ shown \subseteq Granted(r)
  BY DEF Present
<1> HIDE DEF shown
<1>3. /\ menu \in MenuTable
      /\ Present(menu) = Present(server.menu) \ (Menus \ shown)
      /\ \A n \in Menus : menu[n] = IF n \in Menus \ shown THEN None ELSE server.menu[n]
  BY WithoutType
<1>4. Present(menu) = shown
  <2> HIDE DEF menu
  <2> QED
    BY <1>2, <1>3
<1>5. {server.menu[n].module : n \in shown} \subseteq Modules
  BY <1>2, MenuRows DEF Node
<1> HIDE DEF menu
<1>6. TreeForRole(r) \in Tree
  BY <1>1, <1>3, <1>5 DEF Tree
<1>7. TreeForRole(r).menu = menu
  BY <1>1
<1>8. \A n \in shown : menu[n] = server.menu[n]
  BY <1>2, <1>3
<1> QED
  BY <1>2, <1>4, <1>6, <1>7, <1>8

LEMMA NoTreeType ==
  NoTree \in Tree /\ Present(NoTree.menu) = {}
BY DEF NoTree, Tree, MenuTable, Present

LEMMA RoutableType ==
  ASSUME NEW menu \in MenuTable
  PROVE  Routable(menu) \subseteq Urls \ Static
BY UrlsInType DEF Routable

-----------------------------------------------------------------------------
(* What happens to the store *)

LEMMA ShowsType ==
  ASSUME StoreOK, NEW mods \in SUBSET Modules, NEW menu \in MenuTable,
         NEW second \in MenuTable, Present(second) \subseteq Present(menu),
         NEW reg \in SUBSET (Urls \ Static), NEW lost,
         Shows(mods, menu, second, reg, lost)
  PROVE  StoreOK'
<1>1. UrlsOf(menu) \subseteq Urls /\ UrlsOf(second) \subseteq Urls
  BY UrlsInType
<1>2. /\ modules' = mods /\ nodes' = menu /\ twins' = second /\ registered' = reg
      /\ robbed' = robbed \cup (lost \cap (UrlsOf(menu) \cup UrlsOf(second)))
  BY DEF Shows
<1>3. robbed' \subseteq Urls
  BY <1>1, <1>2 DEF StoreOK
<1>4. Present(twins') \subseteq Present(nodes')
  BY <1>2
<1> QED
  BY <1>2, <1>3, <1>4 DEF StoreOK

LEMMA ReplaceType ==
  ASSUME NEW tree \in Tree, Replace(tree)
  PROVE  StoreOK'
<1>1. tree.menu \in MenuTable /\ tree.modules \subseteq Modules
  BY DEF Tree
<1>2. NoTree.menu \in MenuTable /\ Present(NoTree.menu) = {}
  BY NoTreeType DEF Tree
<1>3. /\ modules' = tree.modules /\ nodes' = tree.menu /\ twins' = NoTree.menu
      /\ registered' = Routable(tree.menu) /\ robbed' = {}
  BY DEF Replace
<1>4. Routable(tree.menu) \subseteq Urls \ Static
  BY <1>1, RoutableType
<1>5. Present(twins') \subseteq Present(nodes')
  BY <1>2, <1>3
<1> QED
  BY <1>1, <1>2, <1>3, <1>4, <1>5 DEF StoreOK

\* One of the five.
Replaces == \E tree \in Tree : Replace(tree)
Adds == \E n \in Menus, row \in Node : AddMenu(n, row)
Updates == \E n \in Menus, url \in Urls \cup {None} : UpdateMenu(n, url)
Drops == \E S \in SUBSET Menus, copies \in SUBSET Menus, mods \in SUBSET Modules :
           Drop(S, copies, mods)

\* The route a new menu gets.
With(url) == registered \cup ({url} \ ({None} \cup Static))

AddsFirst(n, node) ==
  n \notin Present(nodes)
  /\ Shows(modules, [nodes EXCEPT ![n] = node], twins, With(node.url), {})

AddsSecond(n, node) ==
  n \in Present(nodes)
  /\ Shows(modules, nodes, [twins EXCEPT ![n] = node], With(node.url), {})

LEMMA AddShape ==
  ASSUME StoreOK, NEW n \in Menus, NEW row \in Node, AddMenu(n, row)
  PROVE  \/ UNCHANGED shownTree
         \/ \E node \in Node : node.url = row.url /\ (AddsFirst(n, node) \/ AddsSecond(n, node))
<1> DEFINE node == [row EXCEPT !.parent = IF @ \in Present(nodes) THEN @ ELSE None]
<1>1. node \in Node /\ node.url = row.url
  BY DEF Node, Present
<1>2. \/ UNCHANGED shownTree
      \/ Shows(modules,
               IF n \in Present(nodes) THEN nodes ELSE [nodes EXCEPT ![n] = node],
               IF n \in Present(nodes) THEN [twins EXCEPT ![n] = node] ELSE twins,
               With(row.url), {})
  BY DEF AddMenu, With
<1> HIDE DEF node
<1> QED
  BY <1>1, <1>2 DEF AddsFirst, AddsSecond

\* A second node goes before the first one does, or takes its place.
DropsTo(mods, gone, also, menu, second, lost) ==
  /\ menu \in MenuTable /\ second \in MenuTable
  /\ Shows(mods, menu, second, registered \ lost, lost)
  /\ lost = UrlsIn(nodes, gone) \cup UrlsIn(twins, also)
  /\ \A n \in Menus :
       /\ menu[n] = IF n \notin gone THEN nodes[n]
                    ELSE IF n \in also THEN None ELSE twins[n]
       /\ second[n] = IF n \in gone \cup also THEN None ELSE twins[n]

LEMMA DropShape ==
  ASSUME StoreOK, NEW S, NEW copies, NEW mods, Drop(S, copies, mods)
  PROVE  \E gone, also, menu, second, lost : DropsTo(mods, gone, also, menu, second, lost)
<1> DEFINE gone == Below(nodes, S)
           also == copies \cup {n \in Present(twins) : twins[n].parent \in gone}
           menu == [n \in Menus |-> IF n \notin gone THEN nodes[n]
                                    ELSE IF n \in also THEN None ELSE twins[n]]
           second == Without(twins, gone \cup also)
           lost == UrlsIn(nodes, gone) \cup UrlsIn(twins, also)
<1>1. Shows(mods, menu, second, registered \ lost, lost)
  BY DEF Drop
<1> HIDE DEF gone, also
<1>2. menu \in MenuTable
  BY DEF StoreOK, MenuTable
<1>3. /\ second \in MenuTable
      /\ \A n \in Menus : second[n] = IF n \in gone \cup also THEN None ELSE twins[n]
  BY WithoutType DEF StoreOK
<1>4. \A n \in Menus : menu[n] = IF n \notin gone THEN nodes[n]
                                 ELSE IF n \in also THEN None ELSE twins[n]
  OBVIOUS
<1>5. lost = UrlsIn(nodes, gone) \cup UrlsIn(twins, also)
  OBVIOUS
<1>6. DropsTo(mods, gone, also, menu, second, lost)
  <2> HIDE DEF menu, second, lost
  <2> QED
    BY <1>1, <1>2, <1>3, <1>4, <1>5 DEF DropsTo
<1> HIDE DEF menu, second, lost
<1> QED
  BY <1>6

LEMMA StoreTypes ==
  ASSUME StoreOK, Replaces \/ Adds \/ Updates \/ Drops \/ UNCHANGED shownTree
  PROVE  StoreOK'
<1>1. CASE Replaces
  BY <1>1, ReplaceType DEF Replaces
<1>2. CASE Adds
  <2>1. PICK n \in Menus, row \in Node : AddMenu(n, row)
    BY <1>2 DEF Adds
  <2>2. CASE UNCHANGED shownTree
    BY <2>2 DEF shownTree, StoreOK
  <2>3. ASSUME NEW node \in Node, AddsFirst(n, node) \/ AddsSecond(n, node)
        PROVE  StoreOK'
    <3> DEFINE menu == [nodes EXCEPT ![n] = node]
               second == [twins EXCEPT ![n] = node]
    <3>1. With(node.url) \in SUBSET (Urls \ Static)
      BY DEF Node, StoreOK, With
    <3>2. /\ menu \in MenuTable /\ second \in MenuTable
          /\ Present(twins) \subseteq Present(menu)
          /\ n \in Present(nodes) => Present(second) \subseteq Present(nodes)
      BY NoneAssumption DEF StoreOK, MenuTable, Present
    <3>3. CASE AddsFirst(n, node)
      <4>1. Shows(modules, menu, twins, With(node.url), {})
        BY <3>3 DEF AddsFirst
      <4> HIDE DEF menu, second
      <4> QED
        BY <3>1, <3>2, <4>1, ShowsType DEF StoreOK
    <3>4. CASE AddsSecond(n, node)
      <4>1. Shows(modules, nodes, second, With(node.url), {}) /\ n \in Present(nodes)
        BY <3>4 DEF AddsSecond
      <4> HIDE DEF menu, second
      <4> QED
        BY <3>1, <3>2, <4>1, ShowsType DEF StoreOK
    <3> QED
      BY <2>3, <3>3, <3>4
  <2> QED
    BY <2>1, <2>2, <2>3, AddShape
<1>3. CASE Updates
  <2>1. PICK n \in Menus, url \in Urls \cup {None} : UpdateMenu(n, url)
    BY <1>3 DEF Updates
  <2>2. CASE UNCHANGED shownTree
    BY <2>2 DEF shownTree, StoreOK
  <2> DEFINE menu == [nodes EXCEPT ![n].url = url]
             reg == (registered \ {nodes[n].url}) \cup ({url} \ Static)
  <2>3. CASE /\ n \in Present(nodes) /\ url # None
             /\ Shows(modules, menu, twins, reg, {nodes[n].url})
    <3>1. menu \in MenuTable /\ Present(menu) = Present(nodes)
      BY <2>3, NoneAssumption DEF MenuTable, StoreOK, Present, Node
    <3>2. reg \in SUBSET (Urls \ Static)
      BY <2>3 DEF StoreOK
    <3>3. Present(twins) \subseteq Present(menu)
      BY <3>1 DEF StoreOK
    <3> HIDE DEF menu, reg
    <3> QED
      BY <2>3, <3>1, <3>2, <3>3, ShowsType DEF StoreOK
  <2> QED
    BY <2>1, <2>2, <2>3 DEF UpdateMenu
<1>4. CASE Drops
  <2>1. PICK S \in SUBSET Menus, copies \in SUBSET Menus, mods \in SUBSET Modules :
          Drop(S, copies, mods)
    BY <1>4 DEF Drops
  <2>2. PICK gone, also, menu, second, lost : DropsTo(mods, gone, also, menu, second, lost)
    BY <2>1, DropShape
  <2>3. Present(second) \subseteq Present(menu)
    BY <2>2 DEF StoreOK, Present, DropsTo
  <2>4. registered \ lost \in SUBSET (Urls \ Static)
    BY DEF StoreOK
  <2> QED
    BY <2>2, <2>3, <2>4, ShowsType DEF DropsTo
<1>5. CASE UNCHANGED shownTree
  BY <1>5 DEF shownTree, StoreOK
<1> QED
  BY <1>1, <1>2, <1>3, <1>4, <1>5

RoutesOK == RoutesHaveMenus /\ MenusHaveRoutes

\* There is a node with url u.
Leads(menu, second, u) ==
  \E n \in Menus : \/ menu[n] # None /\ menu[n].url = u
                   \/ second[n] # None /\ second[n].url = u

Led(menu, second, reg) == \A u \in reg : Leads(menu, second, u)

Covers(menu, second, reg) == \A u \in Urls \ Static : Leads(menu, second, u) => u \in reg

LEMMA LeadsShown ==
  ASSUME NEW menu \in MenuTable, NEW second \in MenuTable, NEW u \in Urls
  PROVE  u \in UrlsOf(menu) \cup UrlsOf(second) <=> Leads(menu, second, u)
BY UrlsInType DEF Leads

LEMMA ShowsRoutes ==
  ASSUME StoreOK, NEW mods, NEW menu \in MenuTable, NEW second \in MenuTable,
         NEW reg \in SUBSET (Urls \ Static), NEW lost,
         Shows(mods, menu, second, reg, lost),
         Led(menu, second, reg),
         Covers(menu, second, reg \cup robbed \cup lost)
  PROVE  RoutesOK'
<1> DEFINE shown == UrlsOf(menu) \cup UrlsOf(second)
<1>1. shown \subseteq Urls
  BY UrlsInType
<1>2. \A u \in Urls : u \in shown <=> Leads(menu, second, u)
  BY LeadsShown
<1> HIDE DEF shown
<1>3. /\ registered' = reg /\ robbed' = robbed \cup (lost \cap shown)
      /\ Shown' = shown
  BY DEF Shows, Shown, shown
<1>4. reg \subseteq shown
  BY <1>2 DEF Led
<1>5. \A u \in shown \ Static : u \in reg \cup robbed \cup (lost \cap shown)
  BY <1>1, <1>2 DEF Covers
<1> QED
  BY <1>3, <1>4, <1>5 DEF RoutesOK, RoutesHaveMenus, MenusHaveRoutes

LEMMA RoutesHere ==
  ASSUME StoreOK, RoutesOK
  PROVE  Led(nodes, twins, registered) /\ Covers(nodes, twins, registered \cup robbed)
<1>1. \A u \in Urls : u \in Shown <=> Leads(nodes, twins, u)
  BY LeadsShown DEF StoreOK, Shown
<1>2. registered \subseteq Urls /\ registered \subseteq Shown
  BY DEF RoutesOK, RoutesHaveMenus, StoreOK
<1>3. Led(nodes, twins, registered)
  BY <1>1, <1>2 DEF Led
<1>4. Covers(nodes, twins, registered \cup robbed)
  BY <1>1 DEF RoutesOK, MenusHaveRoutes, Covers
<1> QED
  BY <1>3, <1>4

LEMMA ReplaceRoutes ==
  ASSUME NEW tree \in Tree, Replace(tree)
  PROVE  RoutesOK'
<1>1. NoTree.menu \in MenuTable /\ Present(NoTree.menu) = {}
  BY NoTreeType DEF Tree
<1>2. UrlsOf(NoTree.menu) = {}
  BY <1>1 DEF UrlsOf, UrlsIn
<1>3. Shown' = UrlsOf(tree.menu) /\ registered' = Routable(tree.menu) /\ robbed' = {}
  BY <1>2 DEF Replace, Shown
<1> QED
  BY <1>3 DEF RoutesOK, RoutesHaveMenus, MenusHaveRoutes, Routable

LEMMA StillRoutes ==
  ASSUME RoutesOK, UNCHANGED shownTree
  PROVE  RoutesOK'
BY DEF shownTree, RoutesOK, RoutesHaveMenus, MenusHaveRoutes, Shown

\* A node that takes another's place has its url.
LEMMA AddRoutes ==
  ASSUME StoreOK, RoutesOK, NEW n \in Menus, NEW row \in Node, AddMenu(n, row),
         twins[n] # None => twins[n].url = row.url
  PROVE  RoutesOK'
<1>1. CASE UNCHANGED shownTree
  BY <1>1, StillRoutes
<1>2. ASSUME NEW node \in Node, node.url = row.url,
             AddsFirst(n, node) \/ AddsSecond(n, node)
      PROVE  RoutesOK'
  <2>1. node # None /\ node.url \in Urls \cup {None} /\ None \notin Urls
    BY NoneAssumption DEF Node
  <2>2. PICK menu \in MenuTable, second \in MenuTable :
          /\ Shows(modules, menu, second, With(node.url), {})
          /\ \A i \in Menus \ {n} : menu[i] = nodes[i] /\ second[i] = twins[i]
          /\ \/ menu[n] = node /\ nodes[n] = None /\ second[n] = twins[n]
             \/ second[n] = node /\ menu[n] = nodes[n]
    <3>1. /\ [nodes EXCEPT ![n] = node] \in MenuTable
          /\ [twins EXCEPT ![n] = node] \in MenuTable
          /\ nodes \in MenuTable /\ twins \in MenuTable
      BY DEF StoreOK, MenuTable
    <3>2. CASE AddsFirst(n, node)
      BY <3>1, <3>2 DEF AddsFirst, Present, MenuTable
    <3>3. CASE AddsSecond(n, node)
      BY <3>1, <3>3 DEF AddsSecond, MenuTable
    <3> QED
      BY <1>2, <3>2, <3>3
  <2> DEFINE reg == With(node.url)
  <2>3. reg \in SUBSET (Urls \ Static)
    BY <2>1 DEF StoreOK, With
  <2>4. /\ registered \subseteq reg /\ reg \subseteq registered \cup {node.url}
        /\ node.url \in Urls \ Static => node.url \in reg
    BY <2>1 DEF With
  <2> HIDE DEF reg
  <2>5. \A u \in Urls : Leads(menu, second, u) <=> Leads(nodes, twins, u) \/ u = node.url
    <3> SUFFICES ASSUME NEW u \in Urls
                 PROVE  Leads(menu, second, u) <=> Leads(nodes, twins, u) \/ u = node.url
      OBVIOUS
    <3>1. ASSUME Leads(menu, second, u)
          PROVE  Leads(nodes, twins, u) \/ u = node.url
      <4>1. PICK i \in Menus : \/ menu[i] # None /\ menu[i].url = u
                               \/ second[i] # None /\ second[i].url = u
        BY <3>1 DEF Leads
      <4> QED
        BY <2>2, <4>1 DEF Leads
    <3>2. ASSUME Leads(nodes, twins, u)
          PROVE  Leads(menu, second, u)
      <4>1. PICK i \in Menus : \/ nodes[i] # None /\ nodes[i].url = u
                               \/ twins[i] # None /\ twins[i].url = u
        BY <3>2 DEF Leads
      <4>2. CASE i # n
        BY <2>2, <4>1, <4>2 DEF Leads
      <4>3. CASE i = n
        BY <1>2, <2>1, <2>2, <4>1, <4>3 DEF Leads
      <4> QED
        BY <4>2, <4>3
    <3>3. ASSUME u = node.url
          PROVE  Leads(menu, second, u)
      BY <2>1, <2>2, <3>3 DEF Leads
    <3> QED
      BY <3>1, <3>2, <3>3
  <2>6. Led(menu, second, reg)
    BY <2>3, <2>4, <2>5, RoutesHere DEF Led
  <2>7. Covers(menu, second, reg \cup robbed \cup {})
    BY <2>4, <2>5, RoutesHere DEF Covers
  <2>8. Shows(modules, menu, second, reg, {})
    BY <2>2 DEF reg
  <2> QED
    BY <2>3, <2>6, <2>7, <2>8, ShowsRoutes
<1> QED
  BY <1>1, <1>2, AddShape

LEMMA UpdateRoutes ==
  ASSUME StoreOK, RoutesOK, NEW n \in Menus, NEW url \in Urls \cup {None},
         UpdateMenu(n, url)
  PROVE  RoutesOK'
<1> DEFINE menu == [nodes EXCEPT ![n].url = url]
           old == nodes[n].url
           reg == (registered \ {old}) \cup ({url} \ Static)
<1>1. CASE UNCHANGED shownTree
  BY <1>1, StillRoutes
<1>2. CASE n \in Present(nodes) /\ url # None /\ Shows(modules, menu, twins, reg, {old})
  <2>1. /\ menu \in MenuTable /\ menu[n] # None /\ menu[n].url = url
        /\ \A i \in Menus \ {n} : menu[i] = nodes[i]
    BY <1>2, NoneAssumption DEF MenuTable, StoreOK, Present, Node
  <2>2. reg \in SUBSET (Urls \ Static) /\ twins \in MenuTable
    BY <1>2 DEF StoreOK
  <2> HIDE DEF menu
  <2>3. ASSUME NEW u \in reg
        PROVE  Leads(menu, twins, u)
    <3>1. CASE u = url
      BY <2>1, <3>1 DEF Leads
    <3>2. CASE u \in registered /\ u # old
      <4>1. Leads(nodes, twins, u)
        BY <3>2, RoutesHere DEF Led
      <4> QED
        BY <2>1, <3>2, <4>1 DEF Leads
    <3> QED
      BY <3>1, <3>2
  <2>4. ASSUME NEW u \in Urls \ Static, Leads(menu, twins, u)
        PROVE  u \in reg \cup robbed \cup {old}
    <3>1. u = url \/ Leads(nodes, twins, u)
      BY <2>1, <2>4 DEF Leads
    <3> QED
      BY <3>1, RoutesHere DEF Covers
  <2>5. Led(menu, twins, reg)
    BY <2>3 DEF Led
  <2>6. Covers(menu, twins, reg \cup robbed \cup {old})
    BY <2>4 DEF Covers
  <2> HIDE DEF reg, old
  <2> QED
    BY <1>2, <2>1, <2>2, <2>5, <2>6, ShowsRoutes
<1> QED
  BY <1>1, <1>2 DEF UpdateMenu

LEMMA DropRoutes ==
  ASSUME StoreOK, RoutesOK, NEW S, NEW copies, NEW mods, Drop(S, copies, mods)
  PROVE  RoutesOK'
<1>0. PICK gone, also, menu, second, lost : DropsTo(mods, gone, also, menu, second, lost)
  BY DropShape
<1>1. /\ menu \in MenuTable /\ second \in MenuTable
      /\ Shows(mods, menu, second, registered \ lost, lost)
      /\ lost = UrlsIn(nodes, gone) \cup UrlsIn(twins, also)
      /\ \A n \in Menus :
           /\ menu[n] = IF n \notin gone THEN nodes[n]
                        ELSE IF n \in also THEN None ELSE twins[n]
           /\ second[n] = IF n \in gone \cup also THEN None ELSE twins[n]
  BY <1>0 DEF DropsTo
<1>2. \A u \in Urls, n \in Menus :
        /\ n \in gone /\ nodes[n] # None /\ nodes[n].url = u => u \in lost
        /\ n \in also /\ twins[n] # None /\ twins[n].url = u => u \in lost
  BY <1>1, NoneAssumption DEF UrlsIn, Present
<1>3. registered \ lost \in SUBSET (Urls \ Static)
  BY DEF StoreOK
<1>4. ASSUME NEW u \in registered \ lost
      PROVE  Leads(menu, second, u)
  <2>1. Leads(nodes, twins, u) /\ u \in Urls
    BY <1>3, RoutesHere DEF Led
  <2>2. PICK n \in Menus : \/ nodes[n] # None /\ nodes[n].url = u
                           \/ twins[n] # None /\ twins[n].url = u
    BY <2>1 DEF Leads
  <2>3. CASE nodes[n] # None /\ nodes[n].url = u
    BY <1>1, <1>2, <2>1, <2>3 DEF Leads
  <2>4. CASE twins[n] # None /\ twins[n].url = u
    <3>1. n \notin also
      BY <1>2, <2>1, <2>4
    <3> QED
      BY <1>1, <2>4, <3>1 DEF Leads
  <2> QED
    BY <2>2, <2>3, <2>4
<1>5. ASSUME NEW u \in Urls \ Static, Leads(menu, second, u)
      PROVE  u \in (registered \ lost) \cup robbed \cup lost
  <2>1. Leads(nodes, twins, u)
    BY <1>1, <1>5 DEF Leads
  <2> QED
    BY <2>1, RoutesHere DEF Covers
<1>6. Led(menu, second, registered \ lost)
  BY <1>4 DEF Led
<1>7. Covers(menu, second, (registered \ lost) \cup robbed \cup lost)
  BY <1>5 DEF Covers
<1> QED
  BY <1>1, <1>3, <1>6, <1>7, ShowsRoutes

-----------------------------------------------------------------------------
(* Every step keeps the shape *)

LEMMA AskTypes ==
  ASSUME LoadOK, NavOK, NEW l \in Loads, NEW r \in Roles \cup {None},
         NEW held \in Urls \cup {None}, Ask(l, r, held)
  PROVE  LoadOK' /\ NavOK'
<1>1. /\ load[l].pc = "none"
      /\ load' = [load EXCEPT ![l] = [pc |-> "sent", role |-> r, tree |-> None]]
      /\ nav' = IF held = None THEN nav ELSE [to |-> held, load |-> l]
  BY DEF Ask
<1>2. [pc |-> "sent", role |-> r, tree |-> None] \in Call
  BY DEF Call, Awaits
<1>3. /\ load' \in [Loads -> Call] /\ load'[l].pc = "sent"
      /\ \A k \in Loads \ {l} : load'[k] = load[k]
  BY <1>1, <1>2 DEF LoadOK
<1>4. LoadOK'
  BY <1>3 DEF LoadOK
<1>5. nav' \in [to: Urls, load: Loads] \cup {None}
  BY <1>1 DEF NavOK
<1>6. nav' # None => load'[nav'.load].pc # "none"
  <2>1. CASE held = None
    BY <1>1, <1>3, <2>1 DEF NavOK
  <2>2. CASE held # None
    BY <1>1, <1>3, <2>2
  <2> QED
    BY <2>1, <2>2
<1> QED
  BY <1>4, <1>5, <1>6 DEF NavOK

LEMMA MountTypes ==
  ASSUME LoadOK, NavOK, work \in Workload, NEW r \in Roles \cup {None}, Mount(r),
         state \in {"idle", "loading", "error", "empty", "loaded"}
  PROVE  LoadOK' /\ NavOK' /\ state' \in {"idle", "loading", "error", "empty", "loaded"}
<1>1. CASE state = "loaded"
  BY <1>1 DEF Mount, LoadOK, NavOK
<1>2. CASE state # "loaded"
  <2>1. PICK l \in Loads : Ask(l, r, None)
    BY <1>2 DEF Mount
  <2> QED
    BY <1>2, <2>1, AskTypes DEF Mount
<1> QED
  BY <1>1, <1>2

LEMMA GoOnTypes ==
  ASSUME LoadOK, NavOK, NEW l \in Loads, NEW reg \in SUBSET Urls,
         NEW after \in {"error", "empty", "loaded"}, GoOn(l, reg, after),
         role \in Roles \cup {None}, page \in Pages
  PROVE  /\ LoadOK' /\ NavOK' /\ page' \in Pages
         /\ state' \in {"idle", "loading", "error", "empty", "loaded"}
<1> DEFINE held == nav # None /\ nav.load = l
           mounts == held /\ page = "blank" /\ after # "loaded"
<1>1. /\ page' = IF ~held THEN page ELSE IF nav.to \in reg THEN nav.to ELSE "app"
      /\ nav' = IF held THEN None ELSE nav
      /\ state' = IF mounts THEN "loading" ELSE after
      /\ load' = [load EXCEPT ![l] = IF mounts
            THEN [pc |-> "sent", role |-> role, tree |-> None] ELSE NoCall]
  BY DEF GoOn
<1>2. [pc |-> "sent", role |-> role, tree |-> None] \in Call /\ NoCall \in Call
  BY DEF Call, Awaits, NoCall
<1> HIDE DEF mounts
<1>3. /\ load' \in [Loads -> Call] /\ load'[l].pc # "answered"
      /\ \A k \in Loads \ {l} : load'[k] = load[k]
  BY <1>1, <1>2 DEF LoadOK, NoCall
<1>4. LoadOK'
  BY <1>3 DEF LoadOK
<1>5. NavOK'
  BY <1>1, <1>3 DEF NavOK
<1>6. page' \in Pages
  BY <1>1 DEF Pages, NavOK
<1> QED
  BY <1>1, <1>4, <1>5, <1>6

Rest ==
  /\ work \in Workload
  /\ server \in [modules: SUBSET Modules, menu: MenuTable, used: SUBSET Menus]
  /\ role \in Roles \cup {None} /\ page \in Pages
  /\ state \in {"idle", "loading", "error", "empty", "loaded"}
  /\ edited \in Nat /\ stale \in BOOLEAN

EditOK ==
  /\ editing \in Menus \cup {None} /\ crossed \subseteq Menus
  /\ save \in [pc: Awaits, op: {None, "update", "create"}, menu: Menus \cup {None},
               row: Node \cup {None}]
  /\ save.pc # "none" => save.op # None /\ save.menu # None /\ save.row # None
  /\ del \in [pc: Awaits, op: {None, "menu", "module"}, menu: Menus \cup {None},
              row: Modules \cup {None}]

LEMMA Parts ==
  TypeOK <=> StoreOK /\ NavOK /\ LoadOK /\ Rest /\ EditOK
BY TypeParts DEF Rest, EditOK

LEMMA SessionTypes ==
  ASSUME TypeOK, UNCHANGED work,
         SelectRole \/ Logout \/ BackToLogin \/ Reload \/ Visit \/ ForceLoad
  PROVE  TypeOK'
<1> USE Parts
<1>0. StoreOK' /\ NavOK' /\ LoadOK' /\ Rest' /\ EditOK' => TypeOK'
  BY Parts, PTL
<1>1. CASE SelectRole
  <2>1. PICK r \in work.roles : role' = r /\ Mount(r) /\ stale' = (stale \/ Underway \/ role # None)
    BY <1>1 DEF SelectRole
  <2>2. r \in Roles
    BY DEF Rest, Workload
  <2>3. LoadOK' /\ NavOK' /\ state' \in {"idle", "loading", "error", "empty", "loaded"}
    BY <2>1, <2>2, MountTypes DEF Rest
  <2>4. StoreOK' /\ EditOK'
    BY <1>1 DEF SelectRole, shownTree, edits, StoreOK, EditOK
  <2>5. Rest'
    BY <1>1, <2>1, <2>2, <2>3 DEF SelectRole, edits, Rest, Pages
  <2> QED
    BY <1>0, <2>3, <2>4, <2>5
<1>2. CASE Logout
  <2>1. StoreOK'
    BY <1>2, NoTreeType, ReplaceType DEF Logout
  <2>2. LoadOK' /\ NavOK' /\ EditOK'
    BY <1>2 DEF Logout, LoadOK, NavOK, edits, EditOK
  <2>3. Rest'
    BY <1>2 DEF Logout, Rest, Pages, edits
  <2> QED
    BY <1>0, <2>1, <2>2, <2>3
<1>3. CASE BackToLogin
  BY <1>0, <1>3 DEF BackToLogin, StoreOK, LoadOK, NavOK, EditOK, Rest, Pages, store, edits, history
<1>4. CASE Reload
  <2>1. PICK u \in Urls, l \in work.loads :
          /\ load' = [x \in Loads |-> IF x = l
                THEN [pc |-> "sent", role |-> role, tree |-> None] ELSE NoCall]
          /\ IF u \in Static THEN page' = u /\ nav' = None
             ELSE page' = "blank" /\ nav' = [to |-> u, load |-> l]
    BY <1>4 DEF Reload
  <2>2. l \in Loads
    BY DEF Rest, Workload
  <2>3. [pc |-> "sent", role |-> role, tree |-> None] \in Call /\ NoCall \in Call
    BY DEF Call, Awaits, NoCall, Rest
  <2>4. load' \in [Loads -> Call] /\ \A k \in Loads : load'[k].pc # "answered"
    BY <2>1, <2>3 DEF NoCall
  <2>5. load'[l].pc = "sent"
    BY <2>1, <2>2
  <2>6. LoadOK' /\ NavOK'
    BY <2>1, <2>2, <2>4, <2>5 DEF LoadOK, NavOK
  <2>7. StoreOK'
    BY <1>4, NoTreeType, ReplaceType DEF Reload
  <2>8. EditOK'
    BY <1>4 DEF Reload, EditOK, NoSave, Awaits
  <2>9. Rest'
    BY <1>4, <2>1 DEF Reload, Rest, Pages
  <2> QED
    BY <1>0, <2>6, <2>7, <2>8, <2>9
<1>5. CASE Visit
  <2>1. StoreOK' /\ EditOK'
    BY <1>5 DEF Visit, shownTree, edits, StoreOK, EditOK
  <2>2. PICK u \in Urls :
          \/ page' \in {u, "app"} /\ nav' = None /\ UNCHANGED <<state, load>>
          \/ /\ state' = "loading" /\ UNCHANGED page
             /\ \E l \in Loads : Ask(l, role, u)
    BY <1>5 DEF Visit
  <2>3. LoadOK' /\ NavOK'
    <3>1. CASE nav' = None /\ UNCHANGED load
      BY <3>1 DEF LoadOK, NavOK
    <3>2. CASE \E l \in Loads : Ask(l, role, u)
      BY <3>2, AskTypes DEF Rest
    <3> QED
      BY <2>2, <3>1, <3>2
  <2>4. Rest'
    BY <1>5, <2>2 DEF Visit, edits, Rest, Pages
  <2> QED
    BY <1>0, <2>1, <2>3, <2>4
<1>6. CASE ForceLoad
  <2>1. PICK l \in Loads : Ask(l, role, None)
    BY <1>6 DEF ForceLoad
  <2>2. LoadOK' /\ NavOK'
    BY <2>1, AskTypes DEF Rest
  <2>3. StoreOK' /\ EditOK'
    BY <1>6 DEF ForceLoad, shownTree, edits, StoreOK, EditOK
  <2>4. Rest'
    BY <1>6 DEF ForceLoad, edits, Rest
  <2> QED
    BY <1>0, <2>2, <2>3, <2>4
<1> QED
  BY <1>1, <1>2, <1>3, <1>4, <1>5, <1>6

LEMMA CallTypes ==
  ASSUME TypeOK, UNCHANGED work, NEW l \in Loads,
         ServeLoad(l) \/ LoadAnswered(l) \/ LoadFailed(l)
  PROVE  TypeOK'
<1> USE Parts
<1>0. StoreOK' /\ NavOK' /\ LoadOK' /\ Rest' /\ EditOK' => TypeOK'
  BY Parts, PTL
<1>1. CASE ServeLoad(l)
  <2> DEFINE tree == TreeForRole(load[l].role)
             c == [load[l] EXCEPT !.pc = "answered", !.tree = tree]
  <2>1. tree \in Tree
    BY TreeType DEF Rest
  <2>2. load' = [load EXCEPT ![l] = c]
    BY <1>1 DEF ServeLoad
  <2> HIDE DEF tree
  <2>3. c \in Call /\ c.pc = "answered" /\ c.tree = tree
    BY <2>1 DEF LoadOK, Call, Awaits
  <2> HIDE DEF c
  <2>4. /\ load' \in [Loads -> Call] /\ load'[l] = c
        /\ \A k \in Loads \ {l} : load'[k] = load[k]
    BY <2>2, <2>3 DEF LoadOK
  <2>5. LoadOK'
    BY <2>1, <2>3, <2>4 DEF LoadOK
  <2>6. NavOK'
    BY <1>1, <2>3, <2>4 DEF ServeLoad, NavOK
  <2>7. StoreOK' /\ EditOK' /\ Rest'
    BY <1>1 DEF ServeLoad, store, edits, history, StoreOK, EditOK, Rest
  <2> QED
    BY <1>0, <2>5, <2>6, <2>7
<1>2. CASE LoadAnswered(l)
  <2> DEFINE tree == load[l].tree
             after == IF tree.modules = {} THEN "empty" ELSE "loaded"
  <2>1. /\ tree \in Tree /\ Replace(tree) /\ GoOn(l, Routable(tree.menu), after)
        /\ UNCHANGED <<server, role, edits, stale>>
    BY <1>2 DEF LoadAnswered, LoadOK
  <2>2. after \in {"error", "empty", "loaded"}
    OBVIOUS
  <2> HIDE DEF after, tree
  <2>3. tree.menu \in MenuTable
    BY <2>1 DEF Tree
  <2>4. Routable(tree.menu) \in SUBSET Urls
    BY <2>3, RoutableType
  <2>5. /\ LoadOK' /\ NavOK' /\ page' \in Pages
        /\ state' \in {"idle", "loading", "error", "empty", "loaded"}
    BY <2>1, <2>2, <2>4, GoOnTypes DEF Rest
  <2>6. StoreOK'
    BY <2>1, ReplaceType
  <2>7. EditOK' /\ Rest'
    BY <2>1, <2>5 DEF edits, EditOK, Rest
  <2> QED
    BY <1>0, <2>5, <2>6, <2>7
<1>3. CASE LoadFailed(l)
  <2>1. GoOn(l, registered, "error") /\ UNCHANGED <<server, role, shownTree, edits, stale>>
    BY <1>3 DEF LoadFailed
  <2>2. registered \in SUBSET Urls
    BY DEF StoreOK
  <2>3. /\ LoadOK' /\ NavOK' /\ page' \in Pages
        /\ state' \in {"idle", "loading", "error", "empty", "loaded"}
    BY <2>1, <2>2, GoOnTypes DEF Rest
  <2>4. StoreOK' /\ EditOK' /\ Rest'
    BY <2>1, <2>3 DEF shownTree, StoreOK, edits, EditOK, Rest
  <2> QED
    BY <1>0, <2>3, <2>4
<1> QED
  BY <1>1, <1>2, <1>3

LEMMA UneditedTypes ==
  ASSUME TypeOK, UNCHANGED work, UNCHANGED unedited
  PROVE  /\ NavOK' /\ LoadOK'
         /\ work' \in Workload /\ role' \in Roles \cup {None} /\ page' \in Pages
         /\ state' \in {"idle", "loading", "error", "empty", "loaded"} /\ stale' \in BOOLEAN
BY Parts DEF unedited, NavOK, LoadOK, Rest

\* What a save does to the backend.
SavesUpdate ==
  /\ save.op = "update" /\ server.menu[save.menu] # None
  /\ server'.modules = server.modules /\ server'.used = server.used
  /\ server'.menu[save.menu] \in Node
  /\ server'.menu[save.menu].url =
       IF save.row.url = None THEN server.menu[save.menu].url ELSE save.row.url

SavesCreate ==
  /\ save.op = "create" /\ server.menu[save.menu] = None
  /\ server'.modules = server.modules /\ server'.used = server.used \cup {save.menu}
  /\ server'.menu[save.menu] = save.row

LEMMA SavesShape ==
  ASSUME Rest, EditOK, save.pc = "sent", Saves
  PROVE  /\ save.menu \in Menus /\ save.row \in Node
         /\ server' \in [modules: SUBSET Modules, menu: MenuTable, used: SUBSET Menus]
         /\ \A n \in Menus \ {save.menu} : server'.menu[n] = server.menu[n]
         /\ SavesUpdate \/ SavesCreate
<1>1. save.menu \in Menus /\ save.row \in Node
  BY DEF EditOK
<1>2. server.menu \in MenuTable
  BY DEF Rest
<1>3. CASE /\ save.op = "update" /\ server.menu[save.menu] # None
           /\ server' = [server EXCEPT !.menu[save.menu].url =
                           IF save.row.url = None THEN @ ELSE save.row.url]
  <2>1. server.menu[save.menu] \in Node
    BY <1>1, <1>2, <1>3 DEF MenuTable
  <2>2. /\ server'.menu = [server.menu EXCEPT ![save.menu].url =
                             IF save.row.url = None THEN @ ELSE save.row.url]
        /\ server'.modules = server.modules /\ server'.used = server.used
    BY <1>3 DEF Rest
  <2>3. /\ server'.menu \in MenuTable
        /\ \A n \in Menus \ {save.menu} : server'.menu[n] = server.menu[n]
        /\ server'.menu[save.menu] \in Node
        /\ server'.menu[save.menu].url =
             IF save.row.url = None THEN server.menu[save.menu].url ELSE save.row.url
    BY <1>1, <1>2, <2>1, <2>2 DEF MenuTable, Node
  <2> QED
    BY <1>1, <1>3, <2>2, <2>3 DEF Rest, SavesUpdate
<1>4. CASE /\ save.op = "create" /\ server.menu[save.menu] = None
           /\ server' = [server EXCEPT !.menu[save.menu] = save.row,
                                       !.used = @ \cup {save.menu}]
  <2>1. /\ server'.menu = [server.menu EXCEPT ![save.menu] = save.row]
        /\ server'.modules = server.modules /\ server'.used = server.used \cup {save.menu}
    BY <1>4 DEF Rest
  <2>2. /\ server'.menu \in MenuTable
        /\ \A n \in Menus \ {save.menu} : server'.menu[n] = server.menu[n]
        /\ server'.menu[save.menu] = save.row
    BY <1>1, <1>2, <2>1 DEF MenuTable
  <2> QED
    BY <1>1, <1>4, <2>1, <2>2 DEF Rest, SavesCreate
<1> QED
  BY <1>1, <1>3, <1>4 DEF Saves

LEMMA EditTypes ==
  ASSUME TypeOK, UNCHANGED work,
         \/ OpenModal \/ SaveMenu \/ ServeSave \/ SaveAnswered
         \/ Delete \/ ServeDelete \/ DeleteAnswered
  PROVE  TypeOK'
<1> USE Parts
<1>0. StoreOK' /\ NavOK' /\ LoadOK' /\ Rest' /\ EditOK' => TypeOK'
  BY Parts, PTL
<1> DEFINE Servers == [modules: SUBSET Modules, menu: MenuTable, used: SUBSET Menus]
<1>a. UNCHANGED unedited
  BY DEF OpenModal, SaveMenu, ServeSave, SaveAnswered, Delete, ServeDelete, DeleteAnswered
<1>b. NavOK' /\ LoadOK' /\ (server' \in Servers /\ edited' \in Nat => Rest')
  BY <1>a, UneditedTypes DEF Rest
<1>1. CASE OpenModal
  <2>1. StoreOK' /\ server' \in Servers /\ edited' \in Nat
    BY <1>1 DEF OpenModal, shownTree, StoreOK, Rest
  <2>2. EditOK'
    BY <1>1, NoneAssumption DEF OpenModal, EditOK
  <2> QED
    BY <1>0, <1>b, <2>1, <2>2
<1>2. CASE SaveMenu
  <2>1. StoreOK' /\ server' \in Servers /\ edited' \in Nat
    BY <1>2 DEF SaveMenu, Edits, shownTree, StoreOK, Rest
  <2>2. PICK u \in work.urls \cup {None}, m \in Modules, p \in Menus \cup {None},
             op \in {"update", "create"}, n \in Menus :
          save' = [pc |-> "sent", op |-> op, menu |-> n,
                   row |-> [module |-> m, parent |-> p, url |-> u]]
    BY <1>2 DEF SaveMenu, EditOK
  <2>3. [module |-> m, parent |-> p, url |-> u] \in Node
    BY DEF Node, Rest, Workload
  <2>4. UNCHANGED <<editing, del, crossed>>
    BY <1>2 DEF SaveMenu
  <2>5. PICK row \in Node : row # None /\ save' = [pc |-> "sent", op |-> op, menu |-> n, row |-> row]
    BY <2>2, <2>3, NoneAssumption
  <2>6. op # None /\ n # None
    BY NoneAssumption
  <2>7. save'.op # None /\ save'.menu # None /\ save'.row # None
    BY <2>5, <2>6
  <2>8. save' \in [pc: Awaits, op: {None, "update", "create"}, menu: Menus \cup {None},
                   row: Node \cup {None}]
    BY <2>5 DEF Awaits
  <2>9. EditOK'
    BY <2>4, <2>7, <2>8 DEF EditOK
  <2> QED
    BY <1>0, <1>b, <2>1, <2>9
<1>3. CASE ServeSave
  <2>1. StoreOK' /\ edited' \in Nat
    BY <1>3 DEF ServeSave, shownTree, StoreOK, Rest
  <2>2. /\ save' = [save EXCEPT !.pc = "answered"] \/ save' = NoSave
        /\ save.pc = "sent" /\ UNCHANGED <<editing, del>>
    BY <1>3 DEF ServeSave
  <2>3. save.menu \in Menus /\ crossed' \subseteq Menus
    BY <1>3, <2>2 DEF ServeSave, EditOK
  <2>4. EditOK'
    BY <2>2, <2>3 DEF EditOK, NoSave, Awaits
  <2>5. server' \in Servers
    BY <1>3, <2>2, SavesShape DEF ServeSave, Rest
  <2> QED
    BY <1>0, <1>b, <2>1, <2>4, <2>5
<1>4. CASE SaveAnswered
  <2>1. /\ save.menu \in Menus /\ save.row \in Node /\ save.row.url \in Urls \cup {None}
        /\ editing \in Menus \cup {None}
    BY <1>4 DEF SaveAnswered, EditOK, Node
  <2>2. Adds \/ Updates \/ UNCHANGED shownTree
    BY <1>4, <2>1 DEF SaveAnswered, Adds, Updates
  <2>3. StoreOK'
    BY <2>2, StoreTypes
  <2>4. EditOK'
    BY <1>4 DEF SaveAnswered, EditOK, NoSave, Awaits
  <2>5. server' \in Servers /\ edited' \in Nat
    BY <1>4 DEF SaveAnswered, Rest
  <2> QED
    BY <1>0, <1>b, <2>3, <2>4, <2>5
<1>5. CASE Delete
  <2>1. StoreOK' /\ server' \in Servers /\ edited' \in Nat
    BY <1>5 DEF Delete, Edits, shownTree, StoreOK, Rest
  <2>2. EditOK'
    BY <1>5 DEF Delete, EditOK, Awaits, Present, Rest
  <2> QED
    BY <1>0, <1>b, <2>1, <2>2
<1>6. CASE ServeDelete
  <2>1. StoreOK' /\ edited' \in Nat
    BY <1>6 DEF ServeDelete, shownTree, StoreOK, Rest
  <2>2. EditOK'
    BY <1>6 DEF ServeDelete, EditOK, NoSave, Awaits
  <2>3. server' \in Servers
    <3>1. CASE UNCHANGED server
      BY <3>1 DEF Rest
    <3>2. CASE server' = [server EXCEPT !.menu = Without(@, Below(@, {del.menu}))]
      BY <3>2, WithoutType DEF Rest
    <3>3. CASE server' = [server EXCEPT !.modules = @ \ {del.row},
                                        !.menu = Without(@, Inhabitants(@, del.row))]
      <4> DEFINE gone == Inhabitants(server.menu, del.row)
      <4>1. server'.menu = Without(server.menu, gone) /\ server'.modules = server.modules \ {del.row}
            /\ server'.used = server.used /\ DOMAIN server' = DOMAIN server
        BY <3>3 DEF Rest
      <4> HIDE DEF gone
      <4>2. server'.menu \in MenuTable
        BY <4>1, WithoutType DEF Rest
      <4>3. server'.modules \in SUBSET Modules
        BY <4>1 DEF Rest
      <4> QED
        BY <3>3, <4>1, <4>2, <4>3 DEF Rest
    <3> QED
      BY <1>6, <3>1, <3>2, <3>3 DEF ServeDelete
  <2> QED
    BY <1>0, <1>b, <2>1, <2>2, <2>3
<1>7. CASE DeleteAnswered
  <2>1. Drops
    <3>1. CASE del.op = "menu"
      <4>1. Drop({del.menu} \cap Present(nodes), {}, modules)
        BY <1>7, <3>1 DEF DeleteAnswered
      <4> QED
        BY <4>1 DEF Drops, Present, StoreOK
    <3>2. CASE del.op # "menu"
      <4>1. Drop(Tops(nodes, del.row), Tops(twins, del.row), modules \ {del.row})
        BY <1>7, <3>2 DEF DeleteAnswered
      <4> QED
        BY <4>1 DEF Drops, Tops, Inhabitants, Present, StoreOK
    <3> QED
      BY <3>1, <3>2
  <2>2. StoreOK'
    BY <2>1, StoreTypes
  <2>3. EditOK'
    BY <1>7 DEF DeleteAnswered, EditOK, NoSave, Awaits
  <2>4. server' \in Servers /\ edited' \in Nat
    BY <1>7 DEF DeleteAnswered, Rest
  <2> QED
    BY <1>0, <1>b, <2>2, <2>3, <2>4
<1> QED
  BY <1>1, <1>2, <1>3, <1>4, <1>5, <1>6, <1>7

LEMMA InitTypes ==
  Init => TypeOK
<1> SUFFICES ASSUME Init
             PROVE  TypeOK
  OBVIOUS
<1>1. work \in Workload
  BY WorkloadsAssumption DEF Init
<1>2. StoreOK
  BY NoTreeType DEF Init, StoreOK, Tree
<1>3. NavOK /\ LoadOK
  BY DEF Init, NavOK, LoadOK, Call, NoCall, Awaits
<1>4. Rest
  BY <1>1 DEF Init, Rest, Workload, Pages, Present
<1>5. EditOK
  BY DEF Init, EditOK, NoSave, Awaits
<1> QED
  BY <1>2, <1>3, <1>4, <1>5, Parts

LEMMA StillTypes ==
  ASSUME TypeOK, UNCHANGED vars
  PROVE  TypeOK'
<1>1. UNCHANGED <<shownTree, nav, load, work, server, role, page, state, edited, stale,
                  editing, crossed, save, del>>
  BY DEF vars, store, history, shownTree
<1>2. StoreOK' /\ NavOK' /\ LoadOK' /\ Rest' /\ EditOK'
  BY <1>1, Parts DEF shownTree, StoreOK, NavOK, LoadOK, Rest, EditOK
<1> QED
  BY <1>2, Parts, PTL

\* Every reachable state of the SPA has its shape (menu.ts, dynamic-routes.ts).
THEOREM MenuTypeCorrect == Spec => []TypeOK
<1>1. TypeOK /\ [Next]_vars => TypeOK'
  <2> SUFFICES ASSUME TypeOK, [Next]_vars
               PROVE  TypeOK'
    OBVIOUS
  <2>1. CASE UNCHANGED vars
    BY <2>1, StillTypes
  <2>2. CASE Next
    BY <2>2, SessionTypes, CallTypes, EditTypes DEF Next, Actions
  <2> QED
    BY <2>1, <2>2
<1> QED
  BY <1>1, InitTypes, PTL DEF Spec

-----------------------------------------------------------------------------
(* Where trees come from *)

\* What t has, s has too.
Part(t, s) == \A n \in Menus : t[n] = None \/ t[n] = s[n]

\* No call is answered; those that were stay as they were or end.
Calm == \A k \in Loads : load'[k].pc = "answered" => load'[k] = load[k]

\* A node that another one of the same menu may have replaced.
Moved == \A n \in Menus : nodes'[n] \in {None, nodes[n], twins[n]}

Taken == \E l \in Answered : Part(nodes', load[l].tree.menu)

\* No tree gets anything that was not in the store, in an answer or, for an
\* answer, in the backend.
Flows ==
  /\ Part(server.menu', server.menu)
  /\ Moved \/ Taken
  /\ Part(twins', twins)
  /\ \A l \in Answered' : \/ Part(load'[l].tree.menu, server.menu)
                          \/ l \in Answered /\ load'[l] = load[l]

LEMMA AskCalm ==
  ASSUME LoadOK, NEW l \in Loads, NEW r, NEW held, Ask(l, r, held)
  PROVE  Calm
BY DEF Ask, LoadOK, Calm

LEMMA MountCalm ==
  ASSUME LoadOK, NEW r, Mount(r)
  PROVE  Calm
BY AskCalm DEF Mount, Calm

LEMMA GoOnCalm ==
  ASSUME LoadOK, NEW l \in Loads, NEW reg, NEW after, GoOn(l, reg, after)
  PROVE  Calm
BY DEF GoOn, LoadOK, Calm, NoCall

LEMMA CalmFlows ==
  ASSUME Calm, Part(server.menu', server.menu), Moved \/ Taken, Part(twins', twins)
  PROVE  Flows
BY DEF Calm, Flows, Answered

LEMMA Same == /\ \A t : Part(t, t)
              /\ nodes' = nodes => Moved
BY DEF Part, Moved

LEMMA Empty == /\ \A t : Part(NoTree.menu, t)
               /\ nodes' = NoTree.menu => Moved
BY DEF Part, NoTree, Moved

LEMMA SessionFlows ==
  ASSUME TypeOK, SelectRole \/ Logout \/ BackToLogin \/ Reload \/ Visit \/ ForceLoad
  PROVE  Flows /\ server' = server /\ (save' = save \/ save'.pc = "none")
<1> USE Parts, Same, Empty
<1>1. server' = server /\ (save' = save \/ save'.pc = "none")
  BY DEF SelectRole, Logout, BackToLogin, Reload, Visit, ForceLoad, edits, NoSave
<1>2. /\ nodes' = nodes \/ nodes' = NoTree.menu
      /\ twins' = twins \/ twins' = NoTree.menu
  BY DEF SelectRole, Logout, BackToLogin, Reload, Visit, ForceLoad, store, shownTree, Replace
<1>3. Calm
  <2>1. CASE SelectRole
    BY <2>1, MountCalm DEF SelectRole
  <2>2. CASE Logout \/ BackToLogin
    BY <2>2 DEF Logout, BackToLogin, Calm
  <2>3. CASE Reload
    BY <2>3 DEF Reload, Calm, NoCall
  <2>4. CASE Visit
    BY <2>4, AskCalm DEF Visit, Calm
  <2>5. CASE ForceLoad
    BY <2>5, AskCalm DEF ForceLoad
  <2> QED
    BY <2>1, <2>2, <2>3, <2>4, <2>5
<1> QED
  BY <1>1, <1>2, <1>3, CalmFlows

LEMMA CallFlows ==
  ASSUME TypeOK, NEW l \in Loads, ServeLoad(l) \/ LoadAnswered(l) \/ LoadFailed(l)
  PROVE  Flows /\ server' = server /\ save' = save
<1> USE Parts, Same, Empty
<1>1. server' = server /\ save' = save
  BY DEF ServeLoad, LoadAnswered, LoadFailed, edits
<1>2. CASE ServeLoad(l)
  <2>1. load' = [load EXCEPT ![l] = [@ EXCEPT !.pc = "answered",
                                              !.tree = TreeForRole(load[l].role)]]
    BY <1>2 DEF ServeLoad
  <2>2. load'[l].tree = TreeForRole(load[l].role) /\ \A k \in Loads \ {l} : load'[k] = load[k]
    BY <2>1 DEF LoadOK, Call
  <2>3. Part(load'[l].tree.menu, server.menu)
    <3>1. /\ TreeForRole(load[l].role) \in Tree
          /\ \A n \in Present(TreeForRole(load[l].role).menu) :
               TreeForRole(load[l].role).menu[n] = server.menu[n]
      BY TreeType DEF Rest
    <3> QED
      BY <2>2, <3>1 DEF Part, Present
  <2>4. nodes' = nodes /\ twins' = twins
    BY <1>2 DEF ServeLoad, store
  <2> QED
    BY <1>1, <2>2, <2>3, <2>4 DEF Flows, Answered
<1>3. CASE LoadAnswered(l)
  <2>1. nodes' = load[l].tree.menu /\ l \in Answered /\ twins' = NoTree.menu
    BY <1>3 DEF LoadAnswered, Replace, Answered
  <2>2. Calm
    BY <1>3, GoOnCalm DEF LoadAnswered
  <2> QED
    BY <1>1, <2>1, <2>2, CalmFlows DEF Taken
<1>4. CASE LoadFailed(l)
  BY <1>1, <1>4, GoOnCalm, CalmFlows DEF LoadFailed, shownTree
<1> QED
  BY <1>1, <1>2, <1>3, <1>4

LEMMA DropFlows ==
  ASSUME StoreOK, NEW S, NEW copies, NEW mods, Drop(S, copies, mods)
  PROVE  Moved /\ Part(twins', twins)
<1>1. PICK gone, also, menu, second, lost : DropsTo(mods, gone, also, menu, second, lost)
  BY DropShape
<1> QED
  BY <1>1 DEF DropsTo, Shows, Moved, Part

LEMMA EditFlows ==
  ASSUME TypeOK, OpenModal \/ SaveMenu \/ Delete \/ ServeDelete \/ DeleteAnswered
  PROVE  Flows /\ server'.used = server.used
<1> USE Parts, Same
<1>1. Calm
  BY DEF OpenModal, SaveMenu, Delete, ServeDelete, DeleteAnswered, unedited, Calm
<1>2. CASE OpenModal \/ SaveMenu \/ Delete
  <2>1. server' = server /\ nodes' = nodes /\ twins' = twins
    BY <1>2 DEF OpenModal, SaveMenu, Delete, shownTree
  <2> QED
    BY <1>1, <2>1, CalmFlows
<1>3. CASE ServeDelete
  <2>1. nodes' = nodes /\ twins' = twins
    BY <1>3 DEF ServeDelete, shownTree
  <2>2. server'.used = server.used /\ Part(server.menu', server.menu)
    <3>1. CASE UNCHANGED server
      BY <3>1
    <3>2. CASE server' = [server EXCEPT !.menu = Without(@, Below(@, {del.menu}))]
      <4> DEFINE gone == Below(server.menu, {del.menu})
      <4>1. server'.used = server.used /\ server'.menu = Without(server.menu, gone)
        BY <3>2 DEF Rest
      <4> HIDE DEF gone
      <4> QED
        BY <4>1, WithoutType DEF Rest, Part
    <3>3. CASE server' = [server EXCEPT !.modules = @ \ {del.row},
                                        !.menu = Without(@, Inhabitants(@, del.row))]
      <4> DEFINE gone == Inhabitants(server.menu, del.row)
      <4>1. server'.used = server.used /\ server'.menu = Without(server.menu, gone)
        BY <3>3 DEF Rest
      <4> HIDE DEF gone
      <4> QED
        BY <4>1, WithoutType DEF Rest, Part
    <3> QED
      BY <1>3, <3>1, <3>2, <3>3 DEF ServeDelete
  <2> QED
    BY <1>1, <2>1, <2>2, CalmFlows
<1>4. CASE DeleteAnswered
  <2>1. Moved /\ Part(twins', twins)
    BY <1>4, DropFlows DEF DeleteAnswered
  <2> QED
    BY <1>1, <1>4, <2>1, CalmFlows DEF DeleteAnswered
<1> QED
  BY <1>2, <1>3, <1>4

-----------------------------------------------------------------------------
(* Routes and menus *)

Known ==
  /\ \A t \in Trees : Present(t) \subseteq server.used
  /\ save.op = "create" =>
       /\ save.pc = "sent" => save.menu \notin server.used
       /\ save.pc = "answered" =>
            /\ save.menu \in server.used
            /\ \A t \in Trees : save.menu \in Present(t) => t[save.menu].url = save.row.url

LEMMA RoutesParts == RoutesInv <=> RoutesOK /\ Known
BY DEF RoutesInv, RoutesOK, Known

LEMMA TreesType ==
  ASSUME TypeOK
  PROVE  \A t \in Trees : t \in MenuTable
BY Parts DEF Trees, Answered, StoreOK, Rest, LoadOK, Tree

\* n is in t as it was in another tree.
Came(t, n) == t[n] = None \/ \E s \in Trees : t[n] = s[n]

LEMMA FlowTrees ==
  ASSUME TypeOK, Flows
  PROVE  \A t \in Trees', n \in Menus : Came(t, n)
<1> SUFFICES ASSUME NEW t \in Trees', NEW n \in Menus
             PROVE  Came(t, n)
  OBVIOUS
<1>1. server.menu \in Trees /\ nodes \in Trees /\ twins \in Trees
  BY DEF Trees
<1>2. CASE \E s \in Trees : Part(t, s)
  BY <1>2 DEF Part, Came
<1>3. CASE t = nodes' /\ Moved
  BY <1>1, <1>3 DEF Moved, Came
<1>4. CASE t = nodes' /\ Taken
  BY <1>2, <1>4 DEF Taken, Trees
<1>5. CASE t = server.menu' \/ t = twins'
  BY <1>1, <1>2, <1>5 DEF Flows
<1>6. CASE \E l \in Answered' : t = load'[l].tree.menu
  <2>1. PICK l \in Answered' : t = load'[l].tree.menu
    BY <1>6
  <2>2. Part(t, server.menu) \/ (l \in Answered /\ t = load[l].tree.menu)
    BY <2>1 DEF Flows
  <2> QED
    BY <1>1, <1>2, <2>2, Same DEF Trees
<1> QED
  BY <1>3, <1>4, <1>5, <1>6 DEF Trees, Flows

LEMMA FlowsKnown ==
  ASSUME TypeOK, TypeOK', Known, Flows, server'.used = server.used,
         \/ save' = save
         \/ save'.pc = "none"
         \/ save'.pc = "sent" /\ (save'.op = "create" => save'.menu \notin server.used)
  PROVE  Known'
<1>1. ASSUME NEW t \in Trees', NEW n \in Present(t)
      PROVE  \E s \in Trees : n \in Present(s) /\ t[n] = s[n]
  <2>1. Came(t, n) /\ t[n] # None /\ n \in Menus
    BY FlowTrees DEF Present
  <2> QED
    BY <2>1 DEF Came, Present
<1>2. \A t \in Trees' : Present(t) \subseteq server'.used
  BY <1>1 DEF Known
<1>3. CASE save' = save
  BY <1>1, <1>2, <1>3 DEF Known
<1>4. CASE save'.pc # "answered"
  BY <1>2, <1>4 DEF Known
<1> QED
  BY <1>2, <1>3, <1>4 DEF Known

LEMMA ServedKnown ==
  ASSUME TypeOK, TypeOK', Known, ServeSave
  PROVE  Known'
<1> USE Parts
<1>1. /\ nodes' = nodes /\ twins' = twins /\ load' = load /\ save.pc = "sent"
  BY DEF ServeSave, shownTree, unedited
<1>2. Trees' \subseteq Trees \cup {server'.menu}
  BY <1>1 DEF Trees, Answered
<1>3. \A t \in Trees : t \in MenuTable /\ Present(t) \subseteq server.used
  BY TreesType DEF Known
<1>4. Present(server.menu) \subseteq server.used
  BY <1>3 DEF Trees
<1>5. CASE save' = NoSave /\ UNCHANGED server
  <2>1. Trees' = Trees
    BY <1>1, <1>5 DEF Trees, Answered
  <2>2. save'.op # "create"
    BY <1>5, NoneAssumption DEF NoSave
  <2> QED
    BY <1>3, <1>5, <2>1, <2>2 DEF Known
<1>6. CASE Saves
  <2>1. /\ save.menu \in Menus /\ save.row \in Node
        /\ \A n \in Menus \ {save.menu} : server'.menu[n] = server.menu[n]
        /\ SavesUpdate \/ SavesCreate
    BY <1>1, <1>6, SavesShape
  <2>2. \/ save'.pc = "none"
        \/ /\ save'.pc = "answered" /\ save'.op = save.op /\ save'.menu = save.menu
           /\ save'.row = save.row
    BY <1>1 DEF ServeSave, NoSave, EditOK
  <2>3. CASE SavesUpdate
    <3>1. Present(server'.menu) \subseteq Present(server.menu) /\ server'.used = server.used
      BY <2>1, <2>3 DEF Present, SavesUpdate
    <3>2. \A t \in Trees' : Present(t) \subseteq server'.used
      BY <1>2, <1>3, <1>4, <3>1
    <3>3. save'.op = "create" => save'.pc = "none"
      BY <2>2, <2>3 DEF SavesUpdate
    <3> QED
      BY <3>2, <3>3 DEF Known
  <2>4. CASE SavesCreate
    <3>1. /\ server'.used = server.used \cup {save.menu} /\ server'.menu[save.menu] = save.row
          /\ save.menu \notin server.used
      BY <1>1, <2>4 DEF SavesCreate, Known
    <3>2. Present(server'.menu) \subseteq server'.used
      BY <1>4, <2>1, <3>1 DEF Present
    <3>3. \A t \in Trees' : Present(t) \subseteq server'.used
      BY <1>2, <1>3, <3>1, <3>2
    <3>4. \A t \in Trees' : save.menu \in Present(t) => t[save.menu].url = save.row.url
      BY <1>2, <1>3, <3>1
    <3> QED
      BY <2>2, <3>1, <3>3, <3>4 DEF Known
  <2> QED
    BY <2>1, <2>3, <2>4
<1> QED
  BY <1>5, <1>6 DEF ServeSave

\* What an answered save does to the nodes.
LEMMA AnswerShape ==
  ASSUME TypeOK, SaveAnswered
  PROVE  /\ save.menu \in Menus /\ save.row \in Node /\ editing \in Menus \cup {None}
         /\ \/ UNCHANGED <<nodes, twins>>
            \/ /\ save.op = "create"
               /\ \E node \in Node :
                    /\ node.url = save.row.url
                    /\ \/ /\ nodes[save.menu] = None /\ twins' = twins
                          /\ nodes' = [nodes EXCEPT ![save.menu] = node]
                       \/ /\ nodes[save.menu] # None /\ nodes' = nodes
                          /\ twins' = [twins EXCEPT ![save.menu] = node]
            \/ /\ save.op = "update" /\ editing # None /\ nodes[editing] # None
               /\ save.row.url # None /\ twins' = twins
               /\ nodes' = [nodes EXCEPT ![editing].url = save.row.url]
<1> USE Parts
<1>1. /\ save.pc = "answered" /\ save.menu \in Menus /\ save.row \in Node
      /\ editing \in Menus \cup {None}
  BY DEF SaveAnswered, EditOK
<1>2. CASE UNCHANGED shownTree
  BY <1>1, <1>2 DEF shownTree
<1>3. CASE save.op = "create" /\ AddMenu(save.menu, save.row)
  <2>1. CASE UNCHANGED shownTree
    BY <1>2, <2>1
  <2>2. ASSUME NEW node \in Node, node.url = save.row.url,
               AddsFirst(save.menu, node) \/ AddsSecond(save.menu, node)
        PROVE  \/ /\ nodes[save.menu] = None /\ twins' = twins
                  /\ nodes' = [nodes EXCEPT ![save.menu] = node]
               \/ /\ nodes[save.menu] # None /\ nodes' = nodes
                  /\ twins' = [twins EXCEPT ![save.menu] = node]
    BY <1>1, <2>2 DEF AddsFirst, AddsSecond, Shows, Present
  <2>3. \/ UNCHANGED shownTree
        \/ \E node \in Node : /\ node.url = save.row.url
                              /\ \/ AddsFirst(save.menu, node)
                                 \/ AddsSecond(save.menu, node)
    BY <1>1, <1>3, AddShape
  <2> QED
    BY <1>1, <1>3, <2>1, <2>2, <2>3
<1>4. CASE save.op = "update" /\ editing # None /\ UpdateMenu(editing, save.row.url)
  BY <1>1, <1>2, <1>4 DEF UpdateMenu, Shows, Present
<1> QED
  BY <1>2, <1>3, <1>4 DEF SaveAnswered

LEMMA AnsweredKnown ==
  ASSUME TypeOK, TypeOK', Known, SaveAnswered
  PROVE  Known'
<1> USE Parts
<1>1. /\ server' = server /\ load' = load /\ save'.pc = "none" /\ save.pc = "answered"
      /\ nodes \in MenuTable /\ twins \in MenuTable
  BY DEF SaveAnswered, unedited, NoSave, StoreOK
<1>2. Trees' \subseteq Trees \cup {nodes', twins'}
  BY <1>1 DEF Trees, Answered
<1>3. Present(nodes) \subseteq server.used /\ Present(twins) \subseteq server.used
  BY DEF Known, Trees
<1>4. save.op = "create" => save.menu \in server.used
  BY <1>1 DEF Known
<1>5. Present(nodes') \subseteq server.used /\ Present(twins') \subseteq server.used
  <2>1. CASE UNCHANGED <<nodes, twins>>
    BY <1>3, <2>1
  <2>2. CASE save.op = "create"
    <3>1. \A n \in Menus \ {save.menu} : nodes'[n] = nodes[n] /\ twins'[n] = twins[n]
      BY <1>1, <2>2, AnswerShape DEF MenuTable
    <3> QED
      BY <1>3, <1>4, <2>2, <3>1 DEF Present
  <2>3. CASE /\ editing \in Menus /\ nodes[editing] # None /\ twins' = twins
             /\ nodes' = [nodes EXCEPT ![editing].url = save.row.url]
    <3>1. \A n \in Menus : nodes[n] = None => nodes'[n] = None
      BY <1>1, <2>3 DEF MenuTable
    <3> QED
      BY <1>3, <2>3, <3>1 DEF Present
  <2> QED
    BY <2>1, <2>2, <2>3, AnswerShape
<1> QED
  BY <1>1, <1>2, <1>3, <1>5 DEF Known

LEMMA SavesKnown ==
  ASSUME TypeOK, SaveMenu
  PROVE  save'.pc = "sent" /\ (save'.op = "create" => save'.menu \notin server.used)
BY DEF SaveMenu

LEMMA KnownStep ==
  ASSUME TypeOK, TypeOK', Known, Actions
  PROVE  Known'
<1>1. CASE SelectRole \/ Logout \/ BackToLogin \/ Reload \/ Visit \/ ForceLoad
  BY <1>1, SessionFlows, FlowsKnown
<1>2. CASE \E l \in Loads : ServeLoad(l) \/ LoadAnswered(l) \/ LoadFailed(l)
  BY <1>2, CallFlows, FlowsKnown
<1>3. CASE SaveMenu
  BY <1>3, SavesKnown, EditFlows, FlowsKnown
<1>4. CASE OpenModal \/ Delete \/ ServeDelete \/ DeleteAnswered
  <2>1. save' = save
    BY <1>4 DEF OpenModal, Delete, ServeDelete, DeleteAnswered
  <2> QED
    BY <1>4, <2>1, EditFlows, FlowsKnown
<1>5. CASE ServeSave
  BY <1>5, ServedKnown
<1>6. CASE SaveAnswered
  BY <1>6, AnsweredKnown
<1> QED
  BY <1>1, <1>2, <1>3, <1>4, <1>5, <1>6 DEF Actions

LEMMA RoutesStep ==
  ASSUME TypeOK, RoutesOK, Known, Actions
  PROVE  RoutesOK'
<1> USE Parts
<1>1. CASE SelectRole \/ BackToLogin \/ Visit \/ ForceLoad
  <2>1. UNCHANGED shownTree
    BY <1>1 DEF SelectRole, BackToLogin, Visit, ForceLoad, shownTree, store, history
  <2> QED
    BY <2>1, StillRoutes
<1>2. CASE Logout \/ Reload
  BY <1>2, NoTreeType, ReplaceRoutes DEF Logout, Reload
<1>3. ASSUME NEW l \in Loads, ServeLoad(l) \/ LoadAnswered(l) \/ LoadFailed(l)
      PROVE  RoutesOK'
  <2>1. CASE LoadAnswered(l)
    BY <2>1, ReplaceRoutes DEF LoadAnswered, LoadOK
  <2>2. CASE ServeLoad(l) \/ LoadFailed(l)
    <3>1. UNCHANGED shownTree
      BY <2>2 DEF ServeLoad, LoadFailed, shownTree, store, history
    <3> QED
      BY <3>1, StillRoutes
  <2> QED
    BY <1>3, <2>1, <2>2
<1>4. CASE OpenModal \/ SaveMenu \/ ServeSave \/ Delete \/ ServeDelete
  <2>1. UNCHANGED shownTree
    BY <1>4 DEF OpenModal, SaveMenu, ServeSave, Delete, ServeDelete
  <2> QED
    BY <2>1, StillRoutes
<1>5. CASE SaveAnswered
  <2>1. /\ save.menu \in Menus /\ save.row \in Node /\ save.row.url \in Urls \cup {None}
        /\ editing \in Menus \cup {None} /\ save.pc = "answered"
    BY <1>5 DEF SaveAnswered, EditOK, Node
  <2>2. CASE save.op = "create" /\ AddMenu(save.menu, save.row)
    <3>1. twins[save.menu] # None => twins[save.menu].url = save.row.url
      BY <2>1, <2>2 DEF Known, Trees, Present
    <3> QED
      BY <2>1, <2>2, <3>1, AddRoutes
  <2>3. CASE editing # None /\ UpdateMenu(editing, save.row.url)
    BY <2>1, <2>3, UpdateRoutes
  <2>4. CASE UNCHANGED shownTree
    BY <2>4, StillRoutes
  <2> QED
    BY <1>5, <2>2, <2>3, <2>4 DEF SaveAnswered
<1>6. CASE DeleteAnswered
  BY <1>6, DropRoutes DEF DeleteAnswered
<1> QED
  BY <1>1, <1>2, <1>3, <1>4, <1>5, <1>6 DEF Actions

LEMMA InitRoutes == Init => RoutesInv
<1> SUFFICES ASSUME Init
             PROVE  RoutesInv
  OBVIOUS
<1>1. TypeOK
  BY InitTypes
<1>2. Trees = {server.menu, nodes, twins} /\ save.op # "create"
  BY NoneAssumption DEF Init, Trees, Answered, NoCall, NoSave
<1>3. /\ Present(server.menu) = server.used /\ Present(nodes) = {} /\ Present(twins) = {}
  BY NoTreeType DEF Init
<1>4. Known
  BY <1>2, <1>3 DEF Known
<1>5. registered = {} /\ Shown = {}
  BY <1>3 DEF Init, Shown, UrlsOf, UrlsIn
<1>6. RoutesOK
  BY <1>5 DEF RoutesOK, RoutesHaveMenus, MenusHaveRoutes
<1> QED
  BY <1>4, <1>6, RoutesParts

\* A menu that is saved is new, and its url is the same in every tree that has it
\* when the store adds it; so routes and menus stay together
\* (menu.ts:93-186, dynamic-routes.ts:37-85).
THEOREM RoutesInvariance == Spec => []RoutesInv
<1>1. RoutesInv /\ TypeOK /\ TypeOK' /\ [Next]_vars => RoutesInv'
  <2> SUFFICES ASSUME RoutesInv, TypeOK, TypeOK', [Next]_vars
               PROVE  RoutesInv'
    OBVIOUS
  <2>0. RoutesOK' /\ Known' => RoutesInv'
    BY RoutesParts, PTL
  <2>1. CASE UNCHANGED vars
    BY <2>1 DEF vars, store, history, RoutesInv, RoutesHaveMenus, MenusHaveRoutes, Shown,
                Trees, Answered
  <2>2. CASE Next
    BY <2>0, <2>2, RoutesParts, KnownStep, RoutesStep DEF Next
  <2> QED
    BY <2>1, <2>2
<1> QED
  BY <1>1, InitRoutes, MenuTypeCorrect, PTL DEF Spec

\* The router never has a route for what the menu does not show
\* (dynamic-routes.ts:79-119).
THEOREM RoutesFollowMenus == Spec => []RoutesHaveMenus
<1>1. RoutesInv => RoutesHaveMenus
  BY DEF RoutesInv
<1> QED
  BY <1>1, RoutesInvariance, PTL

\* What the menu shows can be opened, also where a menu is there twice or shares its
\* url, until another node with that url is edited or removed; the next tree
\* gives its route back (menu.ts:93-186, dynamic-routes.ts:37-128).
THEOREM MenusCanBeOpened == Spec => []MenusHaveRoutes
<1>1. RoutesInv => MenusHaveRoutes
  BY DEF RoutesInv
<1> QED
  BY <1>1, RoutesInvariance, PTL

-----------------------------------------------------------------------------
(* Menus and roles *)

\* The answer a call carries is for the role it was asked for.
ForRole(c) == c.role \in FullAccess \/ Present(c.tree.menu) \subseteq Granted(c.role)

ShownTo(menu, r) ==
  IF r = None THEN Present(menu) = {}
  ELSE r \in FullAccess \/ Present(menu) \subseteq Granted(r)

LEMMA RoleParts ==
  RoleInv <=>
    /\ page # "login" => role # None
    /\ nav # None => page # "login"
    /\ \A l \in Loads : load[l].pc = "answered" => ForRole(load[l])
    /\ ~stale =>
         /\ \A l \in Loads : load[l].pc # "none" => role # None /\ load[l].role = role
         /\ save.pc # "none" => role \in FullAccess
         /\ ShownTo(nodes, role)
BY DEF RoleInv, Answered, Pending, ForRole, ShownTo

LEMMA PartPresent ==
  ASSUME NEW t, NEW s, Part(t, s)
  PROVE  Present(t) \subseteq Present(s)
BY DEF Part, Present

LEMMA FewerShown ==
  ASSUME NEW t, NEW s, NEW r, Present(t) \subseteq Present(s), ShownTo(s, r)
  PROVE  ShownTo(t, r)
BY DEF ShownTo

\* A menu with two nodes has a first one.
LEMMA MovedPresent ==
  ASSUME StoreOK, Moved
  PROVE  Present(nodes') \subseteq Present(nodes)
BY DEF StoreOK, Moved, Present

\* A step of the session there is.
LEMMA OwnStep ==
  ASSUME TypeOK, RoleInv, role' = role, stale' = stale,
         Moved \/ Taken,
         page' # "login" => role' # None, nav' # None => page' # "login",
         \A l \in Loads : load'[l].pc # "none" =>
           /\ \/ load'[l].role = role /\ role # None
              \/ load[l].pc # "none" /\ load'[l].role = load[l].role
           /\ load'[l].pc = "answered" => ForRole(load'[l]),
         \/ save' = save \/ save'.pc = "none" \/ role \in FullAccess
         \/ save.pc # "none"
  PROVE  RoleInv'
<1>1. ~stale => /\ \A l \in Loads : load'[l].pc # "none" => role # None /\ load'[l].role = role
                /\ save'.pc # "none" => role \in FullAccess
  BY RoleParts
<1>2. ASSUME ~stale
      PROVE  ShownTo(nodes', role)
  <2>1. CASE Moved
    BY <1>2, <2>1, RoleParts, MovedPresent, FewerShown, Parts
  <2>2. CASE Taken
    <3>1. PICK l \in Answered : Part(nodes', load[l].tree.menu)
      BY <2>2 DEF Taken
    <3>2. ForRole(load[l]) /\ load[l].role = role /\ role # None
      BY <1>2, RoleParts DEF Answered
    <3>3. ShownTo(load[l].tree.menu, role)
      BY <3>2 DEF ForRole, ShownTo
    <3> QED
      BY <3>1, <3>3, PartPresent, FewerShown
  <2> QED
    BY <2>1, <2>2
<1>3. \A l \in Loads : load'[l].pc = "answered" => ForRole(load'[l])
  OBVIOUS
<1>4. RoleInv' <=>
    /\ page' # "login" => role' # None
    /\ nav' # None => page' # "login"
    /\ \A l \in Loads : load'[l].pc = "answered" => ForRole(load'[l])
    /\ ~stale' =>
         /\ \A l \in Loads : load'[l].pc # "none" => role' # None /\ load'[l].role = role'
         /\ save'.pc # "none" => role' \in FullAccess
         /\ ShownTo(nodes', role')
  BY DEF RoleInv, Answered, Pending, ForRole, ShownTo
<1> QED
  BY <1>1, <1>2, <1>3, <1>4

LEMMA Within ==
  ASSUME RoleInv, Inside(page)
  PROVE  page # "login" /\ role # None
BY UrlsAssumption DEF Inside, RoleInv

Asks(r) == \A l \in Loads : \/ load'[l] = load[l]
                            \/ load'[l].pc = "sent" /\ load'[l].role = r
                            \/ load'[l].pc = "none"

LEMMA AskAsks ==
  ASSUME LoadOK, NEW l \in Loads, NEW r, NEW held, Ask(l, r, held)
  PROVE  Asks(r)
BY DEF Ask, LoadOK, Asks

LEMMA MountAsks ==
  ASSUME LoadOK, NEW r, Mount(r)
  PROVE  Asks(r)
BY AskAsks DEF Mount, Asks

LEMMA SelectRoleRole ==
  ASSUME TypeOK, RoleInv, SelectRole
  PROVE  RoleInv'
<1> USE Parts
<1>1. PICK r \in work.roles : /\ role' = r /\ Mount(r)
                              /\ stale' = (stale \/ Underway \/ role # None)
  BY DEF SelectRole
<1>2. r \in Roles /\ r # None
  BY NoneAssumption DEF Rest, Workload
<1>3. page' = "app" /\ nodes' = nodes /\ save' = save
  BY DEF SelectRole, shownTree, edits
<1>4. Asks(r)
  BY <1>1, MountAsks
<1>5. \A l \in Loads : load'[l].pc = "answered" => ForRole(load'[l])
  BY <1>4, RoleParts DEF Asks
<1>6. ASSUME ~stale'
      PROVE  /\ \A l \in Loads : load'[l].pc # "none" => load'[l].role = r
             /\ save'.pc = "none" /\ ShownTo(nodes', r)
  <2>1. ~stale /\ ~Underway /\ role = None
    BY <1>1, <1>6
  <2>2. save.pc = "none" /\ \A l \in Loads : load[l].pc = "none"
    BY <2>1 DEF Underway, Pending
  <2>3. Present(nodes) = {}
    BY <2>1, RoleParts DEF ShownTo
  <2> QED
    BY <1>2, <1>3, <1>4, <2>2, <2>3 DEF ShownTo, Asks
<1> QED
  BY <1>1, <1>2, <1>3, <1>5, <1>6 DEF RoleInv, Answered, Pending, ForRole, ShownTo

LEMMA LogoutRole ==
  ASSUME TypeOK, RoleInv, Logout
  PROVE  RoleInv'
<1>1. /\ role' = None /\ page' = "login" /\ nav' = None /\ load' = load /\ save' = save
      /\ stale' = (stale \/ Underway) /\ nodes' = NoTree.menu
  BY DEF Logout, Replace, edits
<1>2. Present(nodes') = {}
  BY <1>1, NoTreeType
<1>3. ASSUME ~stale'
      PROVE  save'.pc = "none" /\ \A l \in Loads : load'[l].pc = "none"
  BY <1>1, <1>3 DEF Underway, Pending
<1> QED
  BY <1>1, <1>2, <1>3 DEF RoleInv, Answered, Pending

LEMMA BrowsingRole ==
  ASSUME TypeOK, RoleInv, BackToLogin \/ Reload \/ Visit \/ ForceLoad
  PROVE  RoleInv'
<1> USE Parts
<1>1. page # "login" /\ role # None /\ role' = role
  BY Within DEF BackToLogin, Reload, Visit, ForceLoad
<1>2. Moved /\ (save' = save \/ save'.pc = "none")
  BY Same, Empty DEF BackToLogin, Reload, Visit, ForceLoad, store, edits, shownTree,
     Replace, NoSave
<1>3. stale' = stale
  BY DEF BackToLogin, Reload, Visit, ForceLoad, history
<1>4. nav' # None => page' # "login"
  BY <1>1, UrlsAssumption DEF BackToLogin, Reload, Visit, ForceLoad, Ask
<1>5. Asks(role)
  <2>1. CASE BackToLogin
    BY <2>1 DEF BackToLogin, Asks
  <2>2. CASE Reload
    BY <2>2 DEF Reload, NoCall, Asks
  <2>3. CASE Visit
    <3>1. UNCHANGED load \/ \E l \in Loads, u \in Urls : Ask(l, role, u)
      BY <2>3 DEF Visit
    <3> QED
      BY <3>1, AskAsks DEF Asks
  <2>4. CASE ForceLoad
    BY <2>4, AskAsks DEF ForceLoad
  <2> QED
    BY <2>1, <2>2, <2>3, <2>4
<1>6. \A l \in Loads : load'[l].pc # "none" =>
        /\ \/ load'[l].role = role /\ role # None
           \/ load[l].pc # "none" /\ load'[l].role = load[l].role
        /\ load'[l].pc = "answered" => ForRole(load'[l])
  BY <1>1, <1>5, RoleParts DEF Asks
<1> QED
  BY <1>1, <1>2, <1>3, <1>4, <1>6, OwnStep

LEMMA CallRole ==
  ASSUME TypeOK, RoleInv, NEW l \in Loads,
         ServeLoad(l) \/ LoadAnswered(l) \/ LoadFailed(l)
  PROVE  RoleInv'
<1> USE Parts
<1>1. role' = role /\ stale' = stale /\ save' = save
  BY DEF ServeLoad, LoadAnswered, LoadFailed, history, edits
<1>2. Moved \/ Taken
  BY CallFlows DEF Flows
<1>3. CASE ServeLoad(l)
  <2>1. load' = [load EXCEPT ![l] = [@ EXCEPT !.pc = "answered",
                                              !.tree = TreeForRole(load[l].role)]]
    BY <1>3 DEF ServeLoad
  <2>2. /\ load'[l].tree = TreeForRole(load[l].role) /\ load'[l].role = load[l].role
        /\ \A k \in Loads \ {l} : load'[k] = load[k]
    BY <2>1 DEF LoadOK, Call
  <2>3. ForRole(load'[l]) /\ load[l].pc = "sent"
    <3>1. \/ load[l].role \in FullAccess
          \/ Present(TreeForRole(load[l].role).menu) \subseteq Granted(load[l].role)
      BY TreeType DEF Rest
    <3> QED
      BY <1>3, <2>2, <3>1 DEF ForRole, ServeLoad
  <2>4. page' = page /\ nav' = nav
    BY <1>3 DEF ServeLoad
  <2>5. \A k \in Loads : load'[k].pc # "none" =>
          /\ load[k].pc # "none" /\ load'[k].role = load[k].role
          /\ load'[k].pc = "answered" => ForRole(load'[k])
    BY <2>2, <2>3, RoleParts
  <2>6. /\ page' # "login" => role' # None
        /\ nav' # None => page' # "login"
    BY <1>1, <2>4, RoleParts
  <2> QED
    BY <1>1, <1>2, <2>5, <2>6, OwnStep
<1>4. CASE LoadAnswered(l) \/ LoadFailed(l)
  <2>1. PICK reg \in SUBSET Urls, after \in {"error", "empty", "loaded"} : GoOn(l, reg, after)
    <3>1. CASE LoadFailed(l)
      BY <3>1 DEF LoadFailed, StoreOK
    <3>2. CASE LoadAnswered(l)
      <4>1. load[l].tree.menu \in MenuTable
        BY <3>2 DEF LoadAnswered, LoadOK, Tree
      <4>2. Routable(load[l].tree.menu) \in SUBSET Urls
        BY <4>1, RoutableType
      <4> QED
        BY <3>2, <4>2 DEF LoadAnswered
    <3> QED
      BY <1>4, <3>1, <3>2
  <2> DEFINE held == nav # None /\ nav.load = l
             mounts == held /\ page = "blank" /\ after # "loaded"
  <2>2. /\ page' = IF ~held THEN page ELSE IF nav.to \in reg THEN nav.to ELSE "app"
        /\ nav' = IF held THEN None ELSE nav
        /\ load' = [load EXCEPT ![l] = IF mounts
              THEN [pc |-> "sent", role |-> role, tree |-> None] ELSE NoCall]
    BY <2>1 DEF GoOn
  <2>3. /\ held => page # "login"
        /\ page # "login" => role # None
    BY RoleParts
  <2>4. /\ page' # "login" => role' # None
        /\ nav' # None => page' # "login"
    BY <1>1, <2>2, <2>3, RoleParts
  <2>5. mounts => role # None
    BY <2>3
  <2> HIDE DEF mounts
  <2>6. \A k \in Loads : load'[k].pc # "none" =>
          /\ \/ load'[k].role = role /\ role # None
             \/ load[k].pc # "none" /\ load'[k].role = load[k].role
          /\ load'[k].pc = "answered" => ForRole(load'[k])
    BY <2>2, <2>5, RoleParts DEF LoadOK, NoCall
  <2> QED
    BY <1>1, <1>2, <2>4, <2>6, OwnStep
<1> QED
  BY <1>3, <1>4

LEMMA EditRole ==
  ASSUME TypeOK, RoleInv,
         \/ OpenModal \/ SaveMenu \/ ServeSave \/ Delete \/ ServeDelete \/ DeleteAnswered
  PROVE  RoleInv'
<1>1. UNCHANGED unedited
  BY DEF OpenModal, SaveMenu, ServeSave, Delete, ServeDelete, DeleteAnswered
<1>2. role' = role /\ stale' = stale /\ page' = page /\ nav' = nav /\ load' = load
  BY <1>1 DEF unedited
<1>3. \/ save' = save \/ save'.pc = "none" \/ role \in FullAccess \/ save.pc # "none"
  BY DEF OpenModal, SaveMenu, Edits, Editor, ServeSave, Delete, ServeDelete, DeleteAnswered
<1>4. Moved
  <2>1. CASE ServeSave \/ OpenModal \/ SaveMenu \/ Delete \/ ServeDelete
    BY <2>1, Same DEF ServeSave, OpenModal, SaveMenu, Delete, ServeDelete, shownTree
  <2>2. CASE DeleteAnswered
    BY <2>2, DropFlows, Parts DEF DeleteAnswered
  <2> QED
    BY <2>1, <2>2
<1>5. \A l \in Loads : load'[l].pc # "none" =>
        /\ load[l].pc # "none" /\ load'[l].role = load[l].role
        /\ load'[l].pc = "answered" => ForRole(load'[l])
  BY <1>2, RoleParts
<1>6. /\ page' # "login" => role' # None
      /\ nav' # None => page' # "login"
  BY <1>2, RoleParts
<1> QED
  BY <1>2, <1>3, <1>4, <1>5, <1>6, OwnStep

LEMMA AnsweredRole ==
  ASSUME TypeOK, RoleInv, SaveAnswered
  PROVE  RoleInv'
<1>1. UNCHANGED unedited /\ save.pc = "answered" /\ save'.pc = "none"
  BY DEF SaveAnswered, NoSave
<1>2. role' = role /\ stale' = stale /\ page' = page /\ nav' = nav /\ load' = load
  BY <1>1 DEF unedited
<1>3. ~stale => role \in FullAccess /\ role # None
  BY <1>1, NoneAssumption, RoleParts
<1> QED
  BY <1>1, <1>2, <1>3 DEF RoleInv, Answered, Pending

LEMMA InitRole == Init => RoleInv
BY NoTreeType DEF Init, RoleInv, Answered, Pending, NoCall, NoSave

\* What is under way was asked for by the role there is and only administrators
\* save menus, so the store never gets another role's menus (menu.ts:20-48).
THEOREM RoleInvariance == Spec => []RoleInv
<1>1. RoleInv /\ TypeOK /\ [Next]_vars => RoleInv'
  <2> SUFFICES ASSUME RoleInv, TypeOK, [Next]_vars
               PROVE  RoleInv'
    OBVIOUS
  <2>1. CASE UNCHANGED vars
    BY <2>1 DEF vars, store, history, RoleInv, Answered, Pending
  <2>2. CASE Next
    BY <2>2, SelectRoleRole, LogoutRole, BrowsingRole, CallRole, EditRole, AnsweredRole
    DEF Next, Actions
  <2> QED
    BY <2>1, <2>2
<1> QED
  BY <1>1, InitRole, MenuTypeCorrect, PTL DEF Spec

\* The menus that are shown as loaded are of the role of the session, where it was
\* changed through logout and nothing was under way (menu.ts:9, 20-48).
THEOREM RolesSeeTheirMenus == Spec => []MenuIsOfRole
<1>1. RoleInv => MenuIsOfRole
  BY Within DEF MenuIsOfRole, RoleInv
<1> QED
  BY <1>1, RoleInvariance, PTL

-----------------------------------------------------------------------------
(* Edits *)

\* Where both have n it has one url.
Alike(t, s, n) == t[n] # None /\ s[n] # None => t[n].url = s[n].url

AlikeAt(n) ==
  /\ twins[n] = None
  /\ Catching(n) \/ Alike(nodes, server.menu, n)
  /\ \A l \in Loads : load[l].pc = "answered" => Alike(load[l].tree.menu, server.menu, n)

TreesAlike == \A n \in Menus \ crossed : AlikeAt(n)

OwnMenu ==
  save.op = "update" => editing = save.menu \/ {save.menu, editing} \subseteq crossed \cup {None}

SavedUrl ==
  \A n \in Menus :
    Catching(n) /\ server.menu[n] # None => server.menu[n].url = save.row.url

LEMMA EditsParts == EditsInv <=> TreesAlike /\ OwnMenu /\ SavedUrl
BY DEF EditsInv, TreesAlike, AlikeAt, OwnMenu, SavedUrl, Alike, Agrees, Answered, Present

LEMMA EditsPartsLater == TreesAlike' /\ OwnMenu' /\ SavedUrl' => EditsInv'
BY EditsParts, PTL

LEMMA PartAlike ==
  ASSUME NEW t, NEW t1, NEW s, NEW s1, NEW n \in Menus,
         Part(t1, t), Part(s1, s), Alike(t, s, n)
  PROVE  Alike(t1, s1, n)
BY DEF Part, Alike

LEMMA FlowsAlike ==
  ASSUME Flows, NEW n \in Menus, AlikeAt(n)
  PROVE  /\ twins'[n] = None
         /\ Catching(n) \/ Alike(nodes', server.menu', n)
         /\ \A l \in Loads : load'[l].pc = "answered" =>
              Alike(load'[l].tree.menu, server.menu', n)
<1>1. twins'[n] = None
  BY DEF AlikeAt, Flows, Part
<1>2. Catching(n) \/ Alike(nodes', server.menu', n)
  <2>1. CASE Moved
    BY <2>1 DEF AlikeAt, Alike, Moved, Flows, Part
  <2>2. CASE Taken
    BY <2>2, PartAlike DEF AlikeAt, Taken, Flows, Answered
  <2> QED
    BY <2>1, <2>2 DEF Flows
<1>3. ASSUME NEW l \in Loads, load'[l].pc = "answered"
      PROVE  Alike(load'[l].tree.menu, server.menu', n)
  <2>1. CASE Part(load'[l].tree.menu, server.menu)
    <3>1. Alike(server.menu, server.menu, n)
      BY DEF Alike
    <3> QED
      BY <2>1, <3>1, PartAlike DEF Flows
  <2>2. CASE load[l].pc = "answered" /\ load'[l] = load[l]
    <3>1. Part(load'[l].tree.menu, load[l].tree.menu)
      BY <2>2, Same
    <3> QED
      BY <2>2, <3>1, PartAlike DEF AlikeAt, Flows
  <2> QED
    BY <1>3, <2>1, <2>2 DEF Flows, Answered
<1> QED
  BY <1>1, <1>2, <1>3

\* A step that leaves the save alone, or after which the store knows what was saved.
LEMMA FlowsEdits ==
  ASSUME EditsInv, Flows, crossed \subseteq crossed', OwnMenu',
         \/ save' = save
         \/ /\ save'.pc # "answered"
            /\ nodes' = NoTree.menu \/ \A n \in Menus : ~Catching(n)
  PROVE  EditsInv'
<1>1. TreesAlike /\ SavedUrl
  BY EditsParts
<1>2. CASE save' = save
  <2>1. TreesAlike'
    BY <1>1, <1>2, FlowsAlike DEF TreesAlike, AlikeAt, Catching
  <2>2. \A n \in Menus : server.menu'[n] = None \/ server.menu'[n] = server.menu[n]
    BY DEF Flows, Part
  <2>3. SavedUrl'
    BY <1>1, <1>2, <2>2 DEF SavedUrl, Catching
  <2> QED
    BY <2>1, <2>3, EditsPartsLater
<1>3. CASE save'.pc # "answered" /\ (nodes' = NoTree.menu \/ \A n \in Menus : ~Catching(n))
  <2>1. nodes' = NoTree.menu => \A n \in Menus : Alike(nodes', server.menu', n)
    BY DEF NoTree, Alike
  <2>2. TreesAlike'
    BY <1>1, <1>3, <2>1, FlowsAlike DEF TreesAlike, AlikeAt
  <2>3. SavedUrl'
    BY <1>3 DEF SavedUrl, Catching
  <2> QED
    BY <2>2, <2>3, EditsPartsLater
<1> QED
  BY <1>2, <1>3

LEMMA StillOwnMenu ==
  ASSUME EditsInv, save' = save, editing' = editing, crossed' = crossed
  PROVE  OwnMenu'
BY EditsParts DEF OwnMenu

LEMMA SessionEdits ==
  ASSUME TypeOK, EditsInv,
         SelectRole \/ Logout \/ BackToLogin \/ Reload \/ Visit \/ ForceLoad
  PROVE  EditsInv'
<1>1. Flows
  BY SessionFlows
<1>2. CASE Reload
  <2>1. save' = NoSave /\ nodes' = NoTree.menu /\ crossed' = crossed
    BY <1>2 DEF Reload, Replace
  <2>2. OwnMenu' /\ save'.pc # "answered"
    BY <2>1, NoneAssumption DEF OwnMenu, NoSave
  <2> QED
    BY <1>1, <2>1, <2>2, FlowsEdits
<1>3. CASE SelectRole \/ Logout \/ BackToLogin \/ Visit \/ ForceLoad
  <2>1. save' = save /\ editing' = editing /\ crossed' = crossed
    BY <1>3 DEF SelectRole, Logout, BackToLogin, Visit, ForceLoad, edits, history
  <2> QED
    BY <1>1, <2>1, StillOwnMenu, FlowsEdits
<1> QED
  BY <1>2, <1>3

LEMMA CallEdits ==
  ASSUME TypeOK, EditsInv, NEW l \in Loads,
         ServeLoad(l) \/ LoadAnswered(l) \/ LoadFailed(l)
  PROVE  EditsInv'
<1>1. save' = save /\ editing' = editing /\ crossed' = crossed
  BY DEF ServeLoad, LoadAnswered, LoadFailed, edits
<1> QED
  BY <1>1, CallFlows, StillOwnMenu, FlowsEdits

LEMMA DeleteEdits ==
  ASSUME TypeOK, EditsInv, Delete \/ ServeDelete \/ DeleteAnswered
  PROVE  EditsInv'
<1>1. save' = save /\ editing' = editing /\ crossed' = crossed
  BY DEF Delete, ServeDelete, DeleteAnswered
<1> QED
  BY <1>1, EditFlows, StillOwnMenu, FlowsEdits

LEMMA ModalEdits ==
  ASSUME TypeOK, EditsInv, OpenModal \/ SaveMenu
  PROVE  EditsInv'
<1>1. Flows
  BY EditFlows
<1>2. CASE OpenModal
  <2>1. /\ save' = save /\ crossed \subseteq crossed'
        /\ save.op = "update" => {save.menu, editing'} \subseteq crossed' \cup {None}
    BY <1>2 DEF OpenModal
  <2>2. OwnMenu'
    BY <2>1 DEF OwnMenu
  <2> QED
    BY <1>1, <2>1, <2>2, FlowsEdits
<1>3. CASE SaveMenu
  <2>1. /\ save'.pc = "sent" /\ editing' = editing /\ crossed' = crossed /\ save.pc = "none"
        /\ save'.op = "update" => editing = save'.menu
    BY <1>3 DEF SaveMenu
  <2>2. OwnMenu' /\ \A n \in Menus : ~Catching(n)
    BY <2>1 DEF OwnMenu, Catching
  <2> QED
    BY <1>1, <2>1, <2>2, FlowsEdits
<1> QED
  BY <1>2, <1>3

LEMMA ServedEdits ==
  ASSUME TypeOK, EditsInv, Known, ServeSave
  PROVE  EditsInv'
<1> USE Parts
<1>1. /\ nodes' = nodes /\ twins' = twins /\ load' = load /\ editing' = editing
      /\ save.pc = "sent" /\ crossed \subseteq crossed'
  BY DEF ServeSave, shownTree, unedited
<1>2. \A n \in Menus : ~Catching(n)
  BY <1>1 DEF Catching
<1>3. TreesAlike /\ OwnMenu
  BY EditsParts
<1>4. \A n \in Menus \ crossed : /\ twins[n] = None /\ Alike(nodes, server.menu, n)
                                /\ \A l \in Loads : load[l].pc = "answered" =>
                                     Alike(load[l].tree.menu, server.menu, n)
  BY <1>2, <1>3 DEF TreesAlike, AlikeAt
<1>5. save' = NoSave \/ save' = [save EXCEPT !.pc = "answered"]
  BY DEF ServeSave
<1>6. OwnMenu'
  BY <1>1, <1>3, <1>5, NoneAssumption DEF OwnMenu, NoSave, EditOK
<1>7. CASE save' = NoSave /\ UNCHANGED server
  <2>1. \A n \in Menus : ~Catching(n)'
    BY <1>7 DEF Catching, NoSave
  <2> QED
    BY <1>1, <1>4, <1>6, <1>7, <2>1, EditsPartsLater DEF TreesAlike, AlikeAt, SavedUrl
<1>8. CASE /\ Saves
           /\ \/ /\ save' = [save EXCEPT !.pc = "answered"]
                 /\ crossed' = IF save.op = "update" /\ Pending # {}
                                THEN crossed \cup {save.menu} ELSE crossed
              \/ /\ save' = NoSave
                 /\ crossed' = IF save.op = "update" THEN crossed \cup {save.menu} ELSE crossed
  <2>1. /\ save.menu \in Menus
        /\ \A n \in Menus \ {save.menu} : server.menu'[n] = server.menu[n]
        /\ SavesUpdate \/ SavesCreate
    BY <1>1, <1>8, SavesShape
  <2>2. ASSUME NEW n \in Menus \ crossed, n # save.menu
        PROVE  AlikeAt(n)'
    BY <1>1, <1>4, <2>1, <2>2 DEF AlikeAt, Alike
  <2>3. CASE SavesUpdate
    <3>1. \/ save' = NoSave /\ save.menu \in crossed'
          \/ /\ save'.pc = "answered" /\ save'.op = "update" /\ save'.menu = save.menu
             /\ save'.row = save.row
             /\ save.menu \in crossed' \/ \A l \in Loads : load[l].pc # "answered"
      <4>1. save.op = "update"
        BY <2>3 DEF SavesUpdate
      <4>2. CASE save' = NoSave /\ crossed' = crossed \cup {save.menu}
        BY <4>2
      <4>3. CASE /\ save' = [save EXCEPT !.pc = "answered"]
                 /\ crossed' = IF Pending # {} THEN crossed \cup {save.menu} ELSE crossed
        <5>1. save.menu \in crossed' \/ \A l \in Loads : load[l].pc # "answered"
          BY <4>3 DEF Pending
        <5> QED
          BY <4>1, <4>3, <5>1 DEF EditOK
      <4> QED
        BY <1>8, <4>1, <4>2, <4>3
    <3>2. server'.menu[save.menu].url =
            IF save.row.url = None THEN server.menu[save.menu].url ELSE save.row.url
      BY <2>3 DEF SavesUpdate
    <3>3. ASSUME NEW n \in Menus \ crossed', n = save.menu
          PROVE  AlikeAt(n)'
      <4>1. /\ n \in Menus \ crossed
            /\ save'.pc = "answered" /\ save'.op = "update" /\ save'.menu = n
            /\ save'.row = save.row /\ \A l \in Loads : load[l].pc # "answered"
        BY <1>1, <2>1, <3>1, <3>3
      <4>2. Catching(n)' \/ Alike(nodes, server'.menu, n)
        BY <1>4, <2>3, <3>2, <3>3, <4>1 DEF Catching, Alike, SavesUpdate
      <4> QED
        BY <1>1, <1>4, <4>1, <4>2 DEF AlikeAt
    <3>4. TreesAlike'
      BY <1>1, <2>2, <3>3 DEF TreesAlike
    <3>5. SavedUrl'
      BY <3>1, <3>2 DEF SavedUrl, Catching, NoSave
    <3> QED
      BY <1>6, <3>4, <3>5, EditsPartsLater
  <2>4. CASE SavesCreate
    <3>1. save.op = "create" /\ save.menu \notin server.used
      BY <1>1, <2>4 DEF SavesCreate, Known
    <3>2. /\ nodes[save.menu] = None /\ twins[save.menu] = None
          /\ \A l \in Loads : load[l].pc = "answered" => load[l].tree.menu[save.menu] = None
      BY <2>1, <3>1 DEF Known, Trees, Answered, Present
    <3>3. ASSUME NEW n \in Menus, n = save.menu
          PROVE  AlikeAt(n)'
      BY <1>1, <3>2, <3>3 DEF AlikeAt, Alike
    <3>4. TreesAlike'
      BY <1>1, <2>2, <3>3 DEF TreesAlike
    <3>5. save'.op # "update"
      BY <1>5, <3>1, NoneAssumption DEF EditOK, NoSave
    <3>6. SavedUrl'
      BY <3>5 DEF SavedUrl, Catching
    <3> QED
      BY <1>6, <3>4, <3>6, EditsPartsLater
  <2> QED
    BY <2>1, <2>3, <2>4
<1> QED
  BY <1>7, <1>8 DEF ServeSave

LEMMA AnsweredEdits ==
  ASSUME TypeOK, EditsInv, Known, SaveAnswered
  PROVE  EditsInv'
<1> USE Parts
<1>1. /\ server' = server /\ load' = load /\ save' = NoSave
      /\ save.pc = "answered" /\ crossed \subseteq crossed'
      /\ nodes \in MenuTable /\ twins \in MenuTable
      /\ save.op = "create" /\ nodes[save.menu] # None => save.menu \in crossed'
  BY AnswerShape DEF SaveAnswered, unedited, StoreOK, Present
<1>2. TreesAlike /\ OwnMenu /\ SavedUrl
  BY EditsParts
<1>3. OwnMenu' /\ SavedUrl'
  BY <1>1, NoneAssumption DEF OwnMenu, SavedUrl, Catching, NoSave
<1>4. save.menu \in Menus /\ save.row \in Node /\ editing \in Menus \cup {None}
  BY AnswerShape
<1>5. ASSUME NEW n \in Menus, n \notin crossed'
      PROVE  twins'[n] = None /\ Alike(nodes', server.menu, n)
  <2>1. twins[n] = None /\ (Catching(n) \/ Alike(nodes, server.menu, n))
    BY <1>1, <1>2, <1>5 DEF TreesAlike, AlikeAt
  <2>2. CASE save.op = "create"
    <3>1. Alike(nodes, server.menu, n)
      BY <2>1, <2>2 DEF Catching
    <3>2. server.menu[save.menu] # None => server.menu[save.menu].url = save.row.url
      BY <1>1, <1>4, <2>2 DEF Known, Trees, Present
    <3>3. CASE n # save.menu
      <4>1. nodes'[n] = nodes[n] /\ twins'[n] = twins[n]
        BY <1>1, <2>2, <3>3, AnswerShape DEF MenuTable
      <4> QED
        BY <2>1, <3>1, <4>1 DEF Alike
    <3>4. CASE n = save.menu
      <4>1. nodes[n] = None
        BY <1>1, <1>5, <2>2, <3>4
      <4>2. /\ twins' = twins
            /\ nodes'[n] = nodes[n] \/ nodes'[n].url = save.row.url
        BY <1>1, <1>4, <2>2, <3>4, <4>1, AnswerShape DEF MenuTable
      <4> QED
        BY <2>1, <3>1, <3>2, <3>4, <4>2 DEF Alike
    <3> QED
      BY <3>3, <3>4
  <2>3. CASE save.op = "update"
    <3>1. twins' = twins
      BY <2>3, AnswerShape
    <3>2. CASE n # save.menu
      <4>1. n # editing
        BY <1>1, <1>2, <1>4, <1>5, <2>3, <3>2, NoneAssumption DEF OwnMenu
      <4>2. nodes'[n] = nodes[n]
        BY <1>1, <2>3, <4>1, AnswerShape DEF MenuTable
      <4> QED
        BY <2>1, <3>1, <3>2, <4>2 DEF Alike, Catching
    <3>3. CASE n = save.menu
      <4>1. editing = n /\ n # None
        BY <1>1, <1>2, <1>5, <2>3, <3>3, NoneAssumption DEF OwnMenu
      <4>2. UpdateMenu(n, save.row.url)
        BY <2>3, <4>1 DEF SaveAnswered
      <4>3. CASE save.row.url = None
        <5>1. nodes' = nodes
          BY <4>2, <4>3 DEF UpdateMenu, shownTree
        <5> QED
          BY <2>1, <3>1, <4>3, <5>1 DEF Catching
      <4>4. CASE save.row.url # None
        <5>1. server.menu[n] # None => server.menu[n].url = save.row.url
          BY <1>1, <1>2, <2>3, <3>3, <4>4 DEF SavedUrl, Catching
        <5>2. nodes'[n] # None => nodes'[n].url = save.row.url
          BY <1>1, <4>2, <4>4 DEF UpdateMenu, Shows, shownTree, MenuTable, Present, Node
        <5> QED
          BY <2>1, <3>1, <5>1, <5>2 DEF Alike
      <4> QED
        BY <4>3, <4>4
    <3> QED
      BY <3>2, <3>3
  <2>4. save.op \in {"create", "update"}
    BY <1>1 DEF EditOK
  <2> QED
    BY <2>2, <2>3, <2>4
<1>6. TreesAlike'
  BY <1>1, <1>2, <1>5 DEF TreesAlike, AlikeAt
<1> QED
  BY <1>3, <1>6, EditsPartsLater

LEMMA InitEdits == Init => EditsInv
<1> SUFFICES ASSUME Init
             PROVE  EditsInv
  OBVIOUS
<1>1. TreesAlike
  BY DEF Init, TreesAlike, AlikeAt, Alike, NoTree, NoCall
<1>2. OwnMenu /\ SavedUrl
  BY NoneAssumption DEF Init, OwnMenu, SavedUrl, Catching, NoSave
<1> QED
  BY <1>1, <1>2, EditsParts

\* However the modal, saves, lost answers, loads and deletions interleave, store and
\* backend have one node and one url for a menu that crossed with none of them, but
\* for the menu that is being saved (MenuListView.saveMenu, menu.ts:93-147).
THEOREM EditsInvariance == Spec => []EditsInv
<1>1. EditsInv /\ RoutesInv /\ TypeOK /\ [Next]_vars => EditsInv'
  <2> SUFFICES ASSUME EditsInv, RoutesInv, TypeOK, [Next]_vars
               PROVE  EditsInv'
    OBVIOUS
  <2>0. Known
    BY RoutesParts
  <2>1. CASE UNCHANGED vars
    BY <2>1 DEF vars, store, history, EditsInv, Catching, Agrees, Answered
  <2>2. CASE Next
    BY <2>0, <2>2, SessionEdits, CallEdits, DeleteEdits, ModalEdits, ServedEdits, AnsweredEdits
    DEF Next, Actions
  <2> QED
    BY <2>1, <2>2
<1> QED
  BY <1>1, InitEdits, MenuTypeCorrect, RoutesInvariance, PTL DEF Spec

\* What was saved is what the menu shows (MenuListView.saveMenu, menu.ts:113-147).
THEOREM EditsShown == Spec => []EditsReachTheirMenu
<1>1. EditsInv => EditsReachTheirMenu
  BY DEF EditsInv, EditsReachTheirMenu, Catching, Agrees, Present
<1> QED
  BY <1>1, EditsInvariance, PTL

-----------------------------------------------------------------------------
(* The form that registers a service (ServiceWizard) *)

\* The answer there is is for the url in the form, or came late; what was listed was
\* listed there, or by a late answer.
ProbedInv == probeResult # None => probeResult.late \/ probeResult.url = form.url

FormInv ==
  /\ step \in 1 .. 3
  /\ submitting # "no" => step = 3
  /\ submitting = "provision" => inMaster[form.code] = form.url
  /\ step # 1 => \A i \in menuItems :
       (i.late \/ i.at \in {None, form.url}) /\ i.code = form.code

WizardOK ==
  /\ form \in [code: Codes, url: ServiceUrls]
  /\ probing \in ServiceUrls \cup {None}
  /\ probeResult \in W!ProbeResult \cup {None}
  /\ inMaster = [c \in Codes |-> inMaster[c]]
  /\ menuItems \subseteq W!Item
  /\ provisioned \subseteq [code: Codes, item: W!Item]

WizardInv == WizardOK /\ ProbedInv /\ FormInv /\ W!MenusOfTheService

LEMMA WizardStep ==
  ASSUME WizardInv, W!Next
  PROVE  WizardInv'
<1>1. CASE W!Edit
  BY <1>1 DEF W!Edit, W!Edits, W!master, WizardInv, WizardOK, ProbedInv, FormInv,
              W!MenusOfTheService
<1>2. CASE W!RunProbe
  BY <1>2 DEF W!RunProbe, W!master, WizardInv, WizardOK, ProbedInv, FormInv,
              W!MenusOfTheService
<1>9. CASE W!Probed
  <2>1. /\ probing # None /\ probing' = None
        /\ UNCHANGED <<step, form, menuItems, submitting, inMaster, provisioned>>
        /\ probeResult' = None
           \/ \E b \in BOOLEAN, late \in BOOLEAN :
                /\ late <=> probing # form.url
                /\ probeResult' = [url |-> probing, reachable |-> b, late |-> late]
    BY <1>9 DEF W!Probed, W!master
  <2>2. probeResult' \in W!ProbeResult \cup {None}
    BY <2>1 DEF W!ProbeResult, WizardInv, WizardOK
  <2>3. WizardOK'
    BY <2>1, <2>2 DEF WizardInv, WizardOK
  <2>4. ProbedInv'
    BY <2>1 DEF ProbedInv
  <2>5. FormInv' /\ W!MenusOfTheService'
    BY <2>1 DEF WizardInv, FormInv, W!MenusOfTheService
  <2> QED
    BY <2>3, <2>4, <2>5 DEF WizardInv
<1>3. CASE W!GoToStep2
  <2>0. /\ probeResult.late \/ probeResult.url = form.url
        /\ probeResult.url \in ServiceUrls /\ probeResult.late \in BOOLEAN
        /\ form.url \in ServiceUrls /\ form.code \in Codes
    BY <1>3 DEF W!GoToStep2, W!ToStep2, W!ProbeResult, WizardInv, WizardOK, ProbedInv
  <2>1. W!Discovered \subseteq W!Item /\ W!Manual \in W!Item
    BY <2>0 DEF W!Discovered, W!Manual, W!Item
  <2>2. \A i \in W!Discovered \cup {W!Manual} :
          (i.late \/ i.at \in {None, form.url}) /\ i.code = form.code
    <3>1. \A i \in W!Discovered :
            i.at = probeResult.url /\ i.late = probeResult.late /\ i.code = form.code
      BY DEF W!Discovered
    <3>2. W!Manual.at = None /\ W!Manual.code = form.code
      BY DEF W!Manual
    <3> QED
      BY <2>0, <3>1, <3>2
  <2>3. menuItems' \subseteq W!Discovered \cup {W!Manual} /\ UNCHANGED <<form, inMaster>>
    BY <1>3 DEF W!GoToStep2, W!ToStep2, W!master
  <2>4. WizardOK' /\ ProbedInv' /\ W!MenusOfTheService'
    BY <1>3, <2>1, <2>3 DEF W!GoToStep2, W!ToStep2, W!master, WizardInv, WizardOK, ProbedInv,
                            W!MenusOfTheService, W!Item
  <2>5. FormInv'
    BY <1>3, <2>2, <2>3 DEF W!GoToStep2, W!ToStep2, W!master, WizardInv, FormInv
  <2> QED
    BY <2>4, <2>5 DEF WizardInv
<1>4. CASE W!AddManualItem
  <2>1. W!Manual \in W!Item /\ W!Manual.at = None /\ W!Manual.code = form.code
    BY DEF W!Manual, W!Item, WizardInv, WizardOK
  <2> QED
    BY <1>4, <2>1 DEF W!AddManualItem, W!master, W!Item, WizardInv, WizardOK, ProbedInv, FormInv,
                      W!MenusOfTheService
<1>5. CASE W!Choose
  <2>1. /\ UNCHANGED <<step, form, probing, probeResult, submitting, inMaster, provisioned>>
        /\ step = 2
    BY <1>5 DEF W!Choose, W!master
  <2>2. ASSUME NEW i \in menuItems, NEW b \in BOOLEAN
        PROVE  LET j == [i EXCEPT !.complete = b]
               IN  j \in W!Item /\ j.at = i.at /\ j.late = i.late /\ j.code = i.code
    BY DEF W!Item, WizardInv, WizardOK
  <2>3. ASSUME NEW j \in menuItems'
        PROVE  /\ j \in W!Item
               /\ \E i \in menuItems : j.at = i.at /\ j.late = i.late /\ j.code = i.code
    <3>1. CASE j \in menuItems
      BY <3>1 DEF WizardInv, WizardOK
    <3>2. CASE j \notin menuItems
      <4>1. PICK i \in menuItems, b \in BOOLEAN : j = [i EXCEPT !.complete = b]
        BY <1>5, <3>2 DEF W!Choose
      <4> QED
        BY <2>2, <4>1
    <3> QED
      BY <3>1, <3>2
  <2>4. WizardOK' /\ ProbedInv' /\ W!MenusOfTheService'
    BY <2>1, <2>3 DEF WizardInv, WizardOK, ProbedInv, W!MenusOfTheService, W!Item
  <2>5. FormInv'
    BY <2>1, <2>3 DEF WizardInv, FormInv
  <2> QED
    BY <2>4, <2>5 DEF WizardInv
<1>6. CASE W!GoToStep3 \/ W!Back \/ W!Submit \/ W!Refused
  BY <1>6 DEF W!GoToStep3, W!Back, W!Submit, W!Refused, W!master, W!Item, WizardInv, WizardOK,
              ProbedInv, FormInv, W!MenusOfTheService
<1>7. CASE W!Created
  <2>1. inMaster' = [inMaster EXCEPT ![form.code] = form.url] /\ inMaster[form.code] = None
        /\ submitting = "create" /\ submitting' = "provision"
        /\ UNCHANGED <<step, form, probing, probeResult, menuItems, provisioned>>
    BY <1>7 DEF W!Created
  <2>2. inMaster'[form.code] = form.url
        /\ inMaster' = [c \in Codes |-> inMaster'[c]]
        /\ \A c \in Codes \ {form.code} : inMaster'[c] = inMaster[c]
    BY <2>1 DEF WizardInv, WizardOK
  <2>3. W!MenusOfTheService'
    BY <2>1, <2>2 DEF WizardInv, W!MenusOfTheService, WizardOK
  <2> QED
    BY <2>1, <2>2, <2>3 DEF WizardInv, WizardOK, W!Item, ProbedInv, FormInv
<1>8. CASE W!Provisioned
  <2>1. /\ submitting = "provision" /\ step = 3 /\ inMaster[form.code] = form.url
        /\ UNCHANGED <<form, inMaster>>
        /\ provisioned' = provisioned \cup [code: {form.code}, item: W!Enabled]
        /\ step' = 1 /\ submitting' = "no" /\ menuItems' = {} /\ probing' = None
        /\ probeResult' = None
    BY <1>8 DEF W!Provisioned, WizardInv, FormInv
  <2>0. W!Enabled \subseteq W!Item /\ form.code \in Codes
    BY DEF W!Enabled, WizardInv, WizardOK
  <2>2. \A p \in [code: {form.code}, item: W!Enabled] :
          /\ p.item.late \/ p.item.at \in {None, inMaster[p.code]}
          /\ p.item.code = p.code
    BY <2>1 DEF W!Enabled, WizardInv, FormInv
  <2>3. W!MenusOfTheService'
    BY <2>1, <2>2 DEF WizardInv, W!MenusOfTheService
  <2>4. provisioned' \subseteq [code: Codes, item: W!Item]
    BY <2>0, <2>1 DEF WizardInv, WizardOK
  <2> QED
    BY <2>1, <2>3, <2>4 DEF WizardInv, WizardOK, W!Item, ProbedInv, FormInv
<1> QED
  BY <1>1, <1>2, <1>3, <1>4, <1>5, <1>6, <1>7, <1>8, <1>9 DEF W!Next

LEMMA WizardStart == W!Init => WizardInv
BY DEF W!Init, W!MenusOfTheService, WizardInv, WizardOK, ProbedInv, FormInv

LEMMA WizardRests == WizardInv /\ UNCHANGED wizard => WizardInv'
BY DEF wizard, W!MenusOfTheService, W!Item, WizardInv, WizardOK, ProbedInv, FormInv

\* Of behaviours that are about the form.
OfWizard == scenario = "wizard" => WizardInv

LEMMA OfWizardStep == OfWizard /\ [ViewsNext]_views => OfWizard'
<1> SUFFICES ASSUME OfWizard, [ViewsNext]_views, scenario' = "wizard"
             PROVE  WizardInv'
  BY DEF OfWizard
<1>1. CASE UNCHANGED views
  BY <1>1, WizardRests DEF OfWizard, views
<1>2. CASE ViewsNext
  <2>1. scenario = "wizard" /\ W!Next
    BY <1>2 DEF ViewsNext
  <2> QED
    BY <2>1, WizardStep DEF OfWizard
<1> QED
  BY <1>1, <1>2

LEMMA OfWizardInvariance == ViewsSpec => []OfWizard
<1>1. ViewsInit => OfWizard
  BY WizardStart DEF ViewsInit, OfWizard
<1> QED
  BY <1>1, OfWizardStep, PTL DEF ViewsSpec

\* Whatever codes and urls the form goes through, also while a probe runs, and however
\* often the administrator goes back or is refused, the menus of a service lead to
\* endpoints that it listed itself under its own code, or that were written by
\* hand, or that an answer listed that found another url in the form
\* (ExternalServiceFormView.vue:330-375).
THEOREM MenusAreOfTheService == ViewsSpec => []MenusOfTheService
<1>1. OfWizard => MenusOfTheService
  BY DEF OfWizard, WizardInv, MenusOfTheService
<1> QED
  BY <1>1, OfWizardInvariance, PTL

\* Whatever is edited before, during and after a probe, the form goes on only from an
\* answer for the url that is in it, or from one that found another url there and
\* after which nothing was edited (ExternalServiceFormView.vue:330-353).
THEOREM ProbedBeforeGoingOn == ViewsSpec => OnlyProbedServices
<1>1. OfWizard /\ [ViewsNext]_views => [scenario = "wizard" => W!GoesOnProbed]_wizard
  <2> SUFFICES ASSUME OfWizard, ViewsNext, scenario = "wizard", step = 1, step' = 2
               PROVE  probeResult.late \/ probeResult.url = form.url
    BY DEF views, W!GoesOnProbed, W!GoesOn
  <2>1. W!Next
    BY DEF ViewsNext
  <2>2. probeResult # None
    BY <2>1 DEF W!Next, W!Edit, W!Edits, W!RunProbe, W!Probed, W!GoToStep2, W!ToStep2,
                W!AddManualItem, W!Choose, W!GoToStep3, W!Back, W!Submit, W!Created,
                W!Provisioned, W!Refused
  <2> QED
    BY <2>2 DEF OfWizard, WizardInv, ProbedInv
<1> QED
  BY <1>1, OfWizardInvariance, PTL DEF ViewsSpec, OnlyProbedServices

\* What the buttons check: whoever is at the last step has something to register
\* and somebody to see it.
ReadyInv ==
  /\ step \in 1 .. 3
  /\ step = 3 => W!Complete
  /\ submitting # "no" => step = 3

OfReady == scenario = "wizard" => ReadyInv

\* A service is registered only for somebody and with something to show, also when
\* the administrator does not wait for probes, goes back or is refused
\* (ExternalServiceFormView.vue:387-406).
THEOREM RegisteredForSomebody == ViewsSpec => []SomethingForSomebody
<1>1. ViewsInit => OfReady
  BY DEF ViewsInit, W!Init, OfReady, ReadyInv
<1>2. OfReady /\ [ViewsNext]_views => OfReady'
  <2> SUFFICES ASSUME OfReady, [ViewsNext]_views, scenario' = "wizard"
               PROVE  ReadyInv'
    BY DEF OfReady
  <2>1. CASE UNCHANGED views
    BY <2>1 DEF views, wizard, OfReady, ReadyInv, W!Complete, W!Enabled
  <2>2. CASE ViewsNext
    <3>1. scenario = "wizard" /\ W!Next
      BY <2>2 DEF ViewsNext
    <3>2. ReadyInv
      BY <3>1 DEF OfReady
    <3>3. CASE W!Edit \/ W!RunProbe \/ W!Probed \/ W!Submit \/ W!Created \/ W!Refused
      BY <3>2, <3>3 DEF W!Edit, W!Edits, W!RunProbe, W!Probed, W!Submit, W!Created, W!Refused,
                        ReadyInv, W!Complete, W!Enabled
    <3>4. CASE W!GoToStep2 \/ W!AddManualItem \/ W!Choose \/ W!Back \/ W!Provisioned
      <4>1. step \in 1 .. 3
        BY <3>1 DEF OfReady, ReadyInv
      <4>2. step' \in 1 .. 3 /\ step' # 3 /\ submitting' = "no"
        BY <3>2, <3>4, <4>1 DEF W!GoToStep2, W!ToStep2, W!AddManualItem, W!Choose, W!Back,
                                W!Provisioned, ReadyInv
      <4> QED
        BY <4>2 DEF ReadyInv
    <3>5. CASE W!GoToStep3
      BY <3>5 DEF W!GoToStep3, ReadyInv, W!Complete, W!Enabled
    <3> QED
      BY <3>1, <3>3, <3>4, <3>5 DEF W!Next
  <2> QED
    BY <2>1, <2>2
<1>3. OfReady => SomethingForSomebody
  BY DEF OfReady, ReadyInv, SomethingForSomebody, W!SomethingForSomebody, W!Complete
<1> QED
  BY <1>1, <1>2, <1>3, PTL DEF ViewsSpec

-----------------------------------------------------------------------------
(* The page of a menu (DynamicPage) *)

\* The last call is the one of the menu that is shown; nothing has failed since it
\* went out.
PageInv ==
  /\ calls \in Seq(PageMenus) /\ pageMenu \in PageMenus
  /\ waiting \in BOOLEAN /\ overtaken \in BOOLEAN
  /\ pageMenu \notin External /\ ~overtaken =>
       IF waiting THEN calls # <<>> /\ calls[Len(calls)] = pageMenu /\ error = None
       ELSE P!Shown = pageMenu

LEMMA PageStart == P!Init => PageInv
<1> SUFFICES ASSUME P!Init
             PROVE  PageInv
  OBVIOUS
<1>1. /\ pageMenu \in PageMenus /\ calls = <<pageMenu>> /\ error = None
      /\ waiting = TRUE /\ overtaken = FALSE
  BY DEF P!Init
<1>2. calls \in Seq(PageMenus) /\ Len(calls) = 1 /\ calls[1] = pageMenu /\ calls # <<>>
  BY <1>1
<1> QED
  BY <1>1, <1>2 DEF PageInv

LEMMA LoadPage ==
  ASSUME PageInv, NEW m \in PageMenus, P!Load(m), pageMenu' = m
  PROVE  PageInv'
<1>1. CASE m \in External
  BY <1>1 DEF P!Load, P!history, PageInv
<1>2. CASE m \notin External
  <2>1. calls' = Append(calls, m) /\ waiting' = TRUE /\ overtaken' = FALSE /\ error' = None
    BY <1>2 DEF P!Load
  <2>2. calls' \in Seq(PageMenus) /\ calls' # <<>> /\ calls'[Len(calls')] = m
    BY <2>1 DEF PageInv
  <2> QED
    BY <2>1, <2>2 DEF PageInv
<1> QED
  BY <1>1, <1>2

LEMMA PageStep ==
  ASSUME PageInv, P!Next
  PROVE  PageInv'
<1>1. ASSUME NEW m \in PageMenus, P!Navigate(m)
      PROVE  PageInv'
  BY <1>1, LoadPage DEF P!Navigate
<1>2. CASE P!Reload
  BY <1>2, LoadPage DEF P!Reload, PageInv
<1>3. ASSUME NEW i \in DOMAIN calls, P!Returns(i)
      PROVE  PageInv'
  <2> DEFINE last == waiting /\ i = Len(calls)
  <2>1. /\ pageMenu' = pageMenu /\ waiting' = (waiting /\ ~last)
        /\ calls' = [j \in 1 .. Len(calls) - 1 |-> IF j < i THEN calls[j] ELSE calls[j + 1]]
        /\ \/ payload' = calls[i] /\ error' = error /\ overtaken' = (overtaken \/ ~waiting)
           \/ error' = calls[i] /\ payload' = payload /\ overtaken' = (overtaken \/ ~last)
    BY <1>3 DEF P!Returns, P!Answered, P!Failed, P!Without
  <2>2. /\ i \in 1 .. Len(calls) /\ calls[i] \in PageMenus /\ calls[i] # None
        /\ waiting \in BOOLEAN /\ overtaken \in BOOLEAN
    BY PageAssumption DEF PageInv
  <2>3. calls' \in Seq(PageMenus) /\ Len(calls') = Len(calls) - 1
    BY <2>1, <2>2 DEF PageInv
  <2>4. waiting' \in BOOLEAN /\ overtaken' \in BOOLEAN
    BY <2>1, <2>2
  <2>5. ASSUME pageMenu \notin External, ~overtaken', waiting'
        PROVE  calls' # <<>> /\ calls'[Len(calls')] = pageMenu /\ error' = None
    <3>1. ~last /\ ~overtaken /\ i < Len(calls) /\ error' = error
      BY <2>1, <2>2, <2>5 DEF PageInv
    <3>2. calls[Len(calls)] = pageMenu /\ error = None
      BY <2>1, <2>5, <3>1 DEF PageInv
    <3>3. calls'[Len(calls) - 1] = calls[Len(calls)] /\ Len(calls) - 1 \in 1 .. Len(calls) - 1
      BY <2>1, <2>2, <3>1 DEF PageInv
    <3> QED
      BY <2>3, <3>1, <3>2, <3>3
  <2>6. ASSUME pageMenu \notin External, ~overtaken', ~waiting'
        PROVE  P!Shown' = pageMenu
    <3>1. waiting /\ last /\ ~overtaken
      BY <2>1, <2>2, <2>6
    <3>2. calls[i] = pageMenu /\ error = None
      BY <2>6, <3>1 DEF PageInv
    <3> QED
      BY <2>1, <2>2, <3>2 DEF P!Shown
  <2> HIDE DEF last
  <2> QED
    BY <2>1, <2>3, <2>4, <2>5, <2>6 DEF PageInv
<1> QED
  BY <1>1, <1>2, <1>3 DEF P!Next

OfPage == scenario = "page" => PageInv

\* Wherever the administrator goes meanwhile and in whatever order calls return or
\* fail, a page that waits for none shows the answer of its menu, or its failure,
\* unless an older call failed while its own was under way or returned after it
\* (DynamicPageView.vue:142-160).
THEOREM QuietPage == ViewsSpec => []QuietPageShowsItsMenu
<1>1. ViewsInit => OfPage
  BY PageStart DEF ViewsInit, OfPage
<1>2. OfPage /\ [ViewsNext]_views => OfPage'
  <2> SUFFICES ASSUME OfPage, [ViewsNext]_views, scenario' = "page"
               PROVE  PageInv'
    BY DEF OfPage
  <2>1. CASE UNCHANGED views
    BY <2>1 DEF views, dynamicPage, OfPage, PageInv, P!Shown
  <2>2. CASE ViewsNext
    <3>1. scenario = "page" /\ P!Next
      BY <2>2 DEF ViewsNext
    <3> QED
      BY <3>1, PageStep DEF OfPage
  <2> QED
    BY <2>1, <2>2
<1>3. OfPage => QuietPageShowsItsMenu
  BY DEF OfPage, PageInv, QuietPageShowsItsMenu, P!QuietPageShowsItsMenu, P!Quiet
<1> QED
  BY <1>1, <1>2, <1>3, PTL DEF ViewsSpec
=============================================================================

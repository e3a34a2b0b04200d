--------------------------- MODULE Catalog_proofs ---------------------------
(***************************************************************************)
(* Theorems about Catalog, for any tables and any number of requests that  *)
(* run together: rows keep their shape and lead to rows that are there,    *)
(* implicit services follow their routes, a cycle of menus or an orphan    *)
(* takes requests that ran together, and a registered service is           *)
(* provisioned once as long as the codes of modules are not rewritten.     *)
(* What others write between two calls of a request cannot hurt its rows,  *)
(* for rows never vanish; what it can hurt is what the calls found out     *)
(* about the tree, and then the menus of both are in crossed.              *)
(***************************************************************************)
EXTENDS Catalog, TLAPS

-----------------------------------------------------------------------------
(* Requests *)

Pcs == {"new", "module", "exists", "service", "menu", "walk", "parent",
        "route", "probe", "collect", "write", "done"}

(* The fields of a request.                                                *)
LEMMA Fields ==
  ASSUME NEW r \in Request
  PROVE  /\ r.pc \in Pcs /\ r.op \in Ops \cup {None}
         /\ r.menu \in Menus \cup {None} /\ r.module \in Modules \cup {None}
         /\ r.into \in Modules \cup {None} /\ r.parent \in Menus \cup {None}
         /\ r.cursor \in Menus \cup {None} /\ r.url \in Paths \cup {None}
         /\ r.path \in Paths \cup {None} /\ r.target \in {"keep", "set", "clear"}
         /\ r.had \in BOOLEAN /\ r.service \in Services \cup {None}
         /\ r.code \in Codes \cup {None}
         /\ r.ids \in SUBSET Menus /\ r.level \in SUBSET Menus
BY DEF Request, Pcs

\* x is r at its call pc.
Moved(x, r, pc) ==
  /\ x.pc = pc /\ x.op = r.op /\ x.menu = r.menu /\ x.module = r.module
  /\ x.into = r.into /\ x.parent = r.parent /\ x.cursor = r.cursor
  /\ x.path = r.path /\ x.target = r.target /\ (x.had <=> r.had)
  /\ x.service = r.service /\ x.code = r.code /\ x.ids = r.ids /\ x.level = r.level

LEMMA PcMoves ==
  ASSUME NEW r \in Request, NEW pc \in Pcs
  PROVE  [r EXCEPT !.pc = pc] \in Request /\ Moved([r EXCEPT !.pc = pc], r, pc)
BY DEF Request, Pcs, Moved

(* One field of a request at a time.                                       *)
LEMMA OneField ==
  ASSUME NEW r \in Request
  PROVE  /\ \A x \in Pcs : [r EXCEPT !.pc = x] \in Request
         /\ \A x \in BOOLEAN : [r EXCEPT !.had = x] \in Request
         /\ \A x \in Modules \cup {None} : [r EXCEPT !.into = x] \in Request
         /\ \A x \in Menus \cup {None} : [r EXCEPT !.cursor = x] \in Request
         /\ \A x \in Paths \cup {None} : [r EXCEPT !.path = x] \in Request
         /\ \A x \in SUBSET Menus : [r EXCEPT !.ids = x] \in Request
         /\ \A x \in SUBSET Menus : [r EXCEPT !.level = x] \in Request
<1>1. \A x \in Pcs : [r EXCEPT !.pc = x] \in Request
  BY DEF Request, Pcs
<1>2. \A x \in BOOLEAN : [r EXCEPT !.had = x] \in Request
  BY DEF Request
<1>3. \A x \in Modules \cup {None} : [r EXCEPT !.into = x] \in Request
  BY DEF Request
<1>4. \A x \in Menus \cup {None} : [r EXCEPT !.cursor = x] \in Request
  BY DEF Request
<1>5. \A x \in Paths \cup {None} : [r EXCEPT !.path = x] \in Request
  BY DEF Request
<1>6. \A x \in SUBSET Menus : [r EXCEPT !.ids = x] \in Request
  BY DEF Request
<1>7. \A x \in SUBSET Menus : [r EXCEPT !.level = x] \in Request
  BY DEF Request
<1> QED
  BY <1>1, <1>2, <1>3, <1>4, <1>5, <1>6, <1>7

Listed(x, r, ids, level, pc) ==
  /\ x \in Request /\ x.pc = pc /\ x.op = r.op /\ x.menu = r.menu
  /\ x.module = r.module /\ x.into = r.into /\ x.parent = r.parent /\ x.cursor = r.cursor
  /\ x.path = r.path /\ x.target = r.target /\ (x.had <=> r.had) /\ x.service = r.service
  /\ x.code = r.code /\ x.ids = ids /\ x.level = level

(* A request that has listed menus.                                        *)
LEMMA Listing ==
  ASSUME NEW r \in Request, NEW ids \in SUBSET Menus, NEW level \in SUBSET Menus,
         NEW pc \in Pcs, NEW x, x = [r EXCEPT !.ids = ids, !.level = level, !.pc = pc]
  PROVE  Listed(x, r, ids, level, pc)
<1> DEFINE a == [r EXCEPT !.ids = ids]
           b == [a EXCEPT !.level = level]
           c == [b EXCEPT !.pc = pc]
<1>1. /\ a \in Request /\ a.op = r.op /\ a.menu = r.menu /\ a.module = r.module
      /\ a.into = r.into /\ a.parent = r.parent /\ a.cursor = r.cursor /\ a.path = r.path
      /\ a.target = r.target /\ (a.had <=> r.had) /\ a.service = r.service /\ a.code = r.code
      /\ a.ids = ids /\ a.level = r.level
  <2>1. a \in Request
    BY OneField
  <2> QED
    BY <2>1, SMTT(30) DEF Request
<1> HIDE DEF a
<1>2. /\ b \in Request /\ b.op = r.op /\ b.menu = r.menu /\ b.module = r.module
      /\ b.into = r.into /\ b.parent = r.parent /\ b.cursor = r.cursor /\ b.path = r.path
      /\ b.target = r.target /\ (b.had <=> r.had) /\ b.service = r.service /\ b.code = r.code
      /\ b.ids = ids /\ b.level = level
  <2>1. b \in Request
    BY <1>1, OneField
  <2> QED
    BY <1>1, <2>1, SMTT(30) DEF Request
<1> HIDE DEF b
<1>3. /\ c \in Request /\ c.op = r.op /\ c.menu = r.menu /\ c.module = r.module
      /\ c.into = r.into /\ c.parent = r.parent /\ c.cursor = r.cursor /\ c.path = r.path
      /\ c.target = r.target /\ (c.had <=> r.had) /\ c.service = r.service /\ c.code = r.code
      /\ c.ids = ids /\ c.level = level /\ c.pc = pc
  <2>1. c \in Request
    BY <1>2, OneField
  <2> QED
    BY <1>2, <2>1, SMTT(30) DEF Request
<1> HIDE DEF c
<1>4. x = c
  BY Zenon DEF a, b, c
<1> QED
  BY <1>3, <1>4 DEF Listed

Aimed(x, r, cursor, into, path) ==
  /\ x \in Request /\ x.pc = "module" /\ x.op = r.op /\ x.menu = r.menu
  /\ x.module = r.module /\ x.into = into /\ x.parent = r.parent /\ x.cursor = cursor
  /\ x.path = path /\ x.target = r.target /\ (x.had <=> r.had) /\ x.service = r.service
  /\ x.code = r.code /\ x.ids = r.ids /\ x.level = r.level

(* A request that knows where its menu will be.                            *)
LEMMA Aiming ==
  ASSUME NEW r \in Request, NEW cursor \in Menus \cup {None},
         NEW into \in Modules \cup {None}, NEW path \in Paths \cup {None}, NEW x, x = [r EXCEPT !.pc = "module", !.cursor = cursor,
                                !.into = into, !.path = path]
  PROVE  Aimed(x, r, cursor, into, path)
<1> DEFINE a == [r EXCEPT !.pc = "module"]
           b == [a EXCEPT !.cursor = cursor]
           c == [b EXCEPT !.into = into]
           d == [c EXCEPT !.path = path]
<1>0. "module" \in Pcs
  BY DEF Pcs
<1>1. /\ a \in Request /\ a.op = r.op /\ a.menu = r.menu /\ a.module = r.module
      /\ a.into = r.into /\ a.parent = r.parent /\ a.cursor = r.cursor /\ a.path = r.path
      /\ a.target = r.target /\ (a.had <=> r.had) /\ a.service = r.service /\ a.code = r.code
      /\ a.ids = r.ids /\ a.level = r.level /\ a.pc = "module"
  <2>1. a \in Request
    BY <1>0, OneField
  <2> QED
    BY <1>0, <2>1, SMTT(30) DEF Request
<1> HIDE DEF a
<1>2. /\ b \in Request /\ b.op = r.op /\ b.menu = r.menu /\ b.module = r.module
      /\ b.into = r.into /\ b.parent = r.parent /\ b.cursor = cursor /\ b.path = r.path
      /\ b.target = r.target /\ (b.had <=> r.had) /\ b.service = r.service /\ b.code = r.code
      /\ b.ids = r.ids /\ b.level = r.level /\ b.pc = "module"
  <2>1. b \in Request
    BY <1>1, OneField
  <2> QED
    BY <1>1, <2>1, SMTT(30) DEF Request
<1> HIDE DEF b
<1>3. /\ c \in Request /\ c.op = r.op /\ c.menu = r.menu /\ c.module = r.module
      /\ c.into = into /\ c.parent = r.parent /\ c.cursor = cursor /\ c.path = r.path
      /\ c.target = r.target /\ (c.had <=> r.had) /\ c.service = r.service /\ c.code = r.code
      /\ c.ids = r.ids /\ c.level = r.level /\ c.pc = "module"
  <2>1. c \in Request
    BY <1>2, OneField
  <2> QED
    BY <1>2, <2>1, SMTT(30) DEF Request
<1> HIDE DEF c
<1>4. /\ d \in Request /\ d.op = r.op /\ d.menu = r.menu /\ d.module = r.module
      /\ d.into = into /\ d.parent = r.parent /\ d.cursor = cursor /\ d.path = path
      /\ d.target = r.target /\ (d.had <=> r.had) /\ d.service = r.service /\ d.code = r.code
      /\ d.ids = r.ids /\ d.level = r.level /\ d.pc = "module"
  <2>1. d \in Request
    BY <1>3, OneField
  <2> QED
    BY <1>3, <2>1, SMTT(30) DEF Request
<1> HIDE DEF d
<1>5. x = d
  BY Zenon DEF a, b, c, d
<1> QED
  BY <1>4, <1>5 DEF Aimed

Found(x, r, had, pc) ==
  /\ x \in Request /\ x.pc = pc /\ x.op = r.op /\ x.menu = r.menu
  /\ x.module = r.module /\ x.into = r.into /\ x.parent = r.parent /\ x.cursor = r.cursor
  /\ x.path = r.path /\ x.target = r.target /\ (x.had <=> had) /\ x.service = r.service
  /\ x.code = r.code /\ x.ids = r.ids /\ x.level = r.level

(* A request that has found out whether its menu has a route.              *)
LEMMA Finding ==
  ASSUME NEW r \in Request, NEW had \in BOOLEAN, NEW pc \in Pcs, NEW x, x = [r EXCEPT !.had = had, !.pc = pc]
  PROVE  Found(x, r, had, pc)
<1> DEFINE a == [r EXCEPT !.had = had]
           b == [a EXCEPT !.pc = pc]
<1>1. /\ a \in Request /\ a.op = r.op /\ a.menu = r.menu /\ a.module = r.module
      /\ a.into = r.into /\ a.parent = r.parent /\ a.cursor = r.cursor /\ a.path = r.path
      /\ a.target = r.target /\ (a.had <=> had) /\ a.service = r.service /\ a.code = r.code
      /\ a.ids = r.ids /\ a.level = r.level
  <2>1. a \in Request
    BY OneField
  <2> QED
    BY <2>1, SMTT(30) DEF Request
<1> HIDE DEF a
<1>2. /\ b \in Request /\ b.op = r.op /\ b.menu = r.menu /\ b.module = r.module
      /\ b.into = r.into /\ b.parent = r.parent /\ b.cursor = r.cursor /\ b.path = r.path
      /\ b.target = r.target /\ (b.had <=> had) /\ b.service = r.service /\ b.code = r.code
      /\ b.ids = r.ids /\ b.level = r.level /\ b.pc = pc
  <2>1. b \in Request
    BY <1>1, OneField
  <2> QED
    BY <1>1, <2>1, SMTT(30) DEF Request
<1> HIDE DEF b
<1>3. x = b
  BY Zenon DEF a, b
<1> QED
  BY <1>2, <1>3 DEF Found

ListedModule(x, r, ids, pc) ==
  /\ x \in Request /\ x.pc = pc /\ x.op = r.op /\ x.menu = r.menu
  /\ x.module = r.module /\ x.into = r.into /\ x.parent = r.parent /\ x.cursor = r.cursor
  /\ x.path = r.path /\ x.target = r.target /\ (x.had <=> r.had) /\ x.service = r.service
  /\ x.code = r.code /\ x.ids = ids /\ x.level = r.level

(* A request that has listed the menus of its module.                      *)
LEMMA ListingModule ==
  ASSUME NEW r \in Request, NEW ids \in SUBSET Menus, NEW pc \in Pcs, NEW x, x = [r EXCEPT !.pc = pc, !.ids = ids]
  PROVE  ListedModule(x, r, ids, pc)
<1> DEFINE a == [r EXCEPT !.pc = pc]
           b == [a EXCEPT !.ids = ids]
<1>1. /\ a \in Request /\ a.op = r.op /\ a.menu = r.menu /\ a.module = r.module
      /\ a.into = r.into /\ a.parent = r.parent /\ a.cursor = r.cursor /\ a.path = r.path
      /\ a.target = r.target /\ (a.had <=> r.had) /\ a.service = r.service /\ a.code = r.code
      /\ a.ids = r.ids /\ a.level = r.level /\ a.pc = pc
  <2>1. a \in Request
    BY OneField
  <2> QED
    BY <2>1, SMTT(30) DEF Request
<1> HIDE DEF a
<1>2. /\ b \in Request /\ b.op = r.op /\ b.menu = r.menu /\ b.module = r.module
      /\ b.into = r.into /\ b.parent = r.parent /\ b.cursor = r.cursor /\ b.path = r.path
      /\ b.target = r.target /\ (b.had <=> r.had) /\ b.service = r.service /\ b.code = r.code
      /\ b.ids = ids /\ b.level = r.level /\ b.pc = pc
  <2>1. b \in Request
    BY <1>1, OneField
  <2> QED
    BY <1>1, <2>1, SMTT(30) DEF Request
<1> HIDE DEF b
<1>3. x = b
  BY Zenon DEF a, b
<1> QED
  BY <1>2, <1>3 DEF ListedModule

(* One of its calls has gone a menu up.                                    *)
LEMMA Climbing ==
  ASSUME NEW r \in Request, NEW cursor \in Menus \cup {None},
         NEW x, x = [r EXCEPT !.cursor = cursor]
  PROVE  /\ x \in Request /\ x.pc = r.pc /\ x.op = r.op /\ x.menu = r.menu
         /\ x.module = r.module /\ x.into = r.into /\ x.parent = r.parent /\ x.cursor = cursor
         /\ x.path = r.path /\ x.target = r.target /\ (x.had <=> r.had) /\ x.service = r.service
         /\ x.code = r.code /\ x.ids = r.ids /\ x.level = r.level
BY DEF Request

-----------------------------------------------------------------------------
(* Steps *)

Grown ==
  /\ \A m \in Modules : module[m] # None => module'[m] # None
  /\ \A n \in Menus : menu[n] # None => menu'[n] # None
  /\ \A n \in Menus : route[n] # None => route'[n] # None
  /\ \A s \in Services \cup Menus : service[s] # None => service'[s] # None

(* What a request knows stays so when rows come.                           *)
LEMMA KnowsMore ==
  ASSUME NEW r \in Request, Knows(r, module, menu, route, service), Grown
  PROVE  Knows(r, module', menu', route', service')
<1>1. BodyFits(r) /\ RowsRead(r, module, menu, route, service)
  BY DEF Knows
<1>2. /\ r.ids \subseteq Menus /\ (r.had => r.menu \in Menus)
      /\ r.parent \in Menus \cup {None}
      /\ r.op \in {"createMenu", "updateMenu"} /\ r.pc \in InModule => r.into \in Modules
      /\ r.op \in {"updateMenu", "removeMenu"} => r.menu \in Menus
  BY <1>1, Fields DEF BodyFits, RowsRead, InModule
<1>3. /\ r.op \in {"updateModule", "removeModule"} => r.into \in Modules
      /\ r.op \in {"removeService", "provision"} => r.service \in Services
  BY <1>1 DEF BodyFits
<1>4. RowsRead(r, module', menu', route', service')
  BY <1>1, <1>2, <1>3 DEF RowsRead, Grown
<1> QED
  BY <1>1, <1>4 DEF Knows

(* A step of one request, the tables growing.                              *)
LEMMA RequestStep ==
  ASSUME TypeOK, RequestsKnow, NEW q \in Requests, NEW r \in Request,
         Goto(q, r), Grown, Knows(r, module', menu', route', service')
  PROVE  req' \in [Requests -> Request] /\ crossed' \subseteq Menus /\ RequestsKnow'
<1>1. req' = [req EXCEPT ![q] = r] /\ crossed' \subseteq Menus
  BY DEF Goto, TypeOK
<1>2. req' \in [Requests -> Request]
  BY <1>1 DEF TypeOK
<1>3. ASSUME NEW o \in Requests
      PROVE  Knows(req'[o], module', menu', route', service')
  <2>1. CASE o = q
    BY <1>1, <2>1 DEF TypeOK
  <2>2. CASE o # q
    BY <1>1, <2>2, KnowsMore DEF TypeOK, RequestsKnow
  <2> QED
    BY <2>1, <2>2
<1> QED
  BY <1>1, <1>2, <1>3 DEF RequestsKnow

(* A step that leaves the tables alone.                                    *)
LEMMA QuietStep ==
  ASSUME CatalogInv, NEW q \in Requests, NEW r \in Request,
         Goto(q, r), UNCHANGED tables, Knows(r, module, menu, route, service)
  PROVE  CatalogInv'
<1>1. UNCHANGED <<module, menu, route, service>>
  BY DEF tables
<1>2. Grown /\ Knows(r, module', menu', route', service')
  BY <1>1 DEF Grown
<1>3. req' \in [Requests -> Request] /\ crossed' \subseteq Menus /\ RequestsKnow'
  BY <1>2, RequestStep DEF CatalogInv
<1>4. RowsTyped' /\ MenusLead' /\ RoutesLead' /\ ImplicitServicesFollow'
  BY <1>1 DEF CatalogInv, TypeOK, RowsTyped, MenusLead, RoutesLead,
              ImplicitServicesFollow, IsActive
<1> QED
  BY <1>3, <1>4 DEF CatalogInv, TypeOK

(* What is known of a request.                                             *)
LEMMA OfRequest ==
  ASSUME CatalogInv, NEW q \in Requests
  PROVE  req[q] \in Request /\ BodyFits(req[q]) /\ RowsRead(req[q], module, menu, route, service)
BY DEF CatalogInv, TypeOK, RequestsKnow, Knows

(* A handler that ends.                                                    *)
LEMMA DoneStep ==
  ASSUME CatalogInv, NEW q \in Requests, NEW x, Moved(x, req[q], "done"),
         req[q].pc # "new"
  PROVE  Knows(x, module, menu, route, service)
<1>1. /\ req[q] \in Request /\ BodyFits(req[q])
      /\ RowsRead(req[q], module, menu, route, service)
  BY OfRequest
<1>2. BodyFits(x)
  BY <1>1 DEF BodyFits, Moved, InModule, Pcs
<1>3. RowsRead(x, module, menu, route, service)
  BY <1>1 DEF RowsRead, Moved, InModule, UnderParent
<1> QED
  BY <1>2, <1>3 DEF Knows

-----------------------------------------------------------------------------
(* The actions that leave the tables alone: x is what they make of the     *)
(* request.                                                                *)

\* What a request has found out about the tree is so.
Sees(x) ==
  /\ Climbs(x, menu, crossed)
  /\ PlacementHolds(x, module, menu, crossed)
  /\ SubtreeCollected(x, menu, crossed)

\* The id of a menu that will be made is not made or taken meanwhile.
FreshId(q, x) ==
  \/ InFlight(q) /\ x.op = req[q].op /\ x.menu = req[q].menu
  \/ x.op = "createMenu" /\ Unused(x.menu)
  \/ x.op # "createMenu" /\ (x.menu = None \/ menu[x.menu] # None)

Becomes(q, x) ==
  /\ x \in Request /\ Goto(q, x) /\ UNCHANGED tables
  /\ Knows(x, module, menu, route, service)
  /\ FreshId(q, x)
  /\ TreeInv => Sees(x)

(* A request that begins.                                                  *)
LEMMA Beginning ==
  ASSUME CatalogInv, NEW q \in Requests, NEW op, NEW x, Start(q, op, x), x \in Request,
         x.op = op, x.pc \in {"module", "exists", "service", "menu"}, x.pc \in Stages(op),
         BodyFits(x), RowsRead(x, module, menu, route, service), FreshId(q, x),
         op = "updateMenu" => x.pc = "menu"
  PROVE  \E y : Becomes(q, y)
<1>1. Goto(q, x) /\ UNCHANGED tables
  BY DEF Start
<1>2. Sees(x)
  BY DEF Sees, Climbs, PlacementHolds, SubtreeCollected, InModule, UnderParent
<1> QED
  BY <1>1, <1>2 DEF Becomes, Knows

(* Before it begins it is blank.                                           *)
LEMMA Blank ==
  ASSUME CatalogInv, NEW q \in Requests, NEW op, NEW x, Start(q, op, x)
  PROVE  req[q] = NoRequest /\ op \in Ops
BY OfRequest DEF Start, BodyFits

LEMMA StartModuleSteps ==
  ASSUME CatalogInv, NEW q \in Requests, StartModule(q)
  PROVE  \E y : Becomes(q, y)
<1>1. ASSUME NEW c \in Codes, NEW x, Start(q, "createModule", x),
             x = [req[q] EXCEPT !.op = "createModule", !.pc = "exists", !.code = c]
      PROVE  \E y : Becomes(q, y)
  <2>1. req[q] = NoRequest /\ "createModule" \in Ops
    BY <1>1, Blank
  <2>2. [NoRequest EXCEPT !.op = "createModule", !.pc = "exists", !.code = c] \in Request
    BY <2>1 DEF NoRequest, Request
  <2>3. x = [NoRequest EXCEPT !.op = "createModule", !.pc = "exists", !.code = c]
    BY Zenon, <1>1, <2>1
  <2>4. /\ x.op = "createModule" /\ x.pc = "exists" /\ ~x.had /\ x.ids = {}
        /\ x.code = c /\ x.menu = None
    BY <2>3 DEF NoRequest
  <2>5. x \in Request
    BY <2>2, <2>3
  <2>6. BodyFits(x)
    BY <1>1, <2>1, <2>4 DEF BodyFits, Stages, InModule
  <2>7. RowsRead(x, module, menu, route, service) /\ FreshId(q, x)
    BY <1>1, <2>4 DEF RowsRead, FreshId, InModule, UnderParent
  <2>8. x.pc \in Stages("createModule")
    BY <2>4 DEF Stages
  <2> QED
    BY <1>1, <2>4, <2>5, <2>6, <2>7, <2>8, Beginning
<1>2. ASSUME NEW m \in Modules, NEW c \in Codes, NEW x, Start(q, "updateModule", x),
             x = [req[q] EXCEPT !.op = "updateModule", !.pc = "module", !.into = m, !.code = c]
      PROVE  \E y : Becomes(q, y)
  <2>1. req[q] = NoRequest /\ "updateModule" \in Ops
    BY <1>2, Blank
  <2>2. [NoRequest EXCEPT !.op = "updateModule", !.pc = "module", !.into = m, !.code = c] \in Request
    BY <2>1 DEF NoRequest, Request
  <2>3. x = [NoRequest EXCEPT !.op = "updateModule", !.pc = "module", !.into = m, !.code = c]
    BY Zenon, <1>2, <2>1
  <2>4. /\ x.op = "updateModule" /\ x.pc = "module" /\ ~x.had /\ x.ids = {}
        /\ x.into = m /\ x.code = c /\ x.menu = None
    BY <2>3 DEF NoRequest
  <2>5. x \in Request
    BY <2>2, <2>3
  <2>6. BodyFits(x)
    BY <1>2, <2>1, <2>4 DEF BodyFits, Stages, InModule
  <2>7. RowsRead(x, module, menu, route, service) /\ FreshId(q, x)
    BY <1>2, <2>4 DEF RowsRead, FreshId, InModule, UnderParent
  <2>8. x.pc \in Stages("updateModule")
    BY <2>4 DEF Stages
  <2> QED
    BY <1>2, <2>4, <2>5, <2>6, <2>7, <2>8, Beginning
<1>3. ASSUME NEW m \in Modules, NEW x, Start(q, "removeModule", x),
             x = [req[q] EXCEPT !.op = "removeModule", !.pc = "module", !.into = m]
      PROVE  \E y : Becomes(q, y)
  <2>1. req[q] = NoRequest /\ "removeModule" \in Ops
    BY <1>3, Blank
  <2>2. [NoRequest EXCEPT !.op = "removeModule", !.pc = "module", !.into = m] \in Request
    BY <2>1 DEF NoRequest, Request
  <2>3. x = [NoRequest EXCEPT !.op = "removeModule", !.pc = "module", !.into = m]
    BY Zenon, <1>3, <2>1
  <2>4. /\ x.op = "removeModule" /\ x.pc = "module" /\ ~x.had /\ x.ids = {}
        /\ x.into = m /\ x.menu = None
    BY <2>3 DEF NoRequest
  <2>5. x \in Request
    BY <2>2, <2>3
  <2>6. BodyFits(x)
    BY <1>3, <2>1, <2>4 DEF BodyFits, Stages, InModule
  <2>7. RowsRead(x, module, menu, route, service) /\ FreshId(q, x)
    BY <1>3, <2>4 DEF RowsRead, FreshId, InModule, UnderParent
  <2>8. x.pc \in Stages("removeModule")
    BY <2>4 DEF Stages
  <2> QED
    BY <1>3, <2>4, <2>5, <2>6, <2>7, <2>8, Beginning
<1> QED
  BY <1>1, <1>2, <1>3 DEF StartModule

LEMMA StartCreateMenuSteps ==
  ASSUME CatalogInv, NEW q \in Requests, StartCreateMenu(q)
  PROVE  \E y : Becomes(q, y)
<1>1. ASSUME NEW n \in Menus, NEW m \in Modules, NEW p \in Menus \cup {None},
             NEW u \in Paths \cup {None}, NEW t \in {"keep", "set"}, NEW x, Unused(n),
             t = "set" => u # None, Start(q, "createMenu", x),
             x = [req[q] EXCEPT !.op = "createMenu", !.pc = "module", !.menu = n,
                     !.module = m, !.into = m, !.parent = p, !.url = u,
                     !.path = u, !.target = t]
      PROVE  \E y : Becomes(q, y)
  <2>1. req[q] = NoRequest /\ "createMenu" \in Ops
    BY <1>1, Blank
  <2>2. [NoRequest EXCEPT !.op = "createMenu", !.pc = "module", !.menu = n,
                     !.module = m, !.into = m, !.parent = p, !.url = u,
                     !.path = u, !.target = t] \in Request
    BY <2>1 DEF NoRequest, Request
  <2>3. x = [NoRequest EXCEPT !.op = "createMenu", !.pc = "module", !.menu = n,
                     !.module = m, !.into = m, !.parent = p, !.url = u,
                     !.path = u, !.target = t]
    BY Zenon, <1>1, <2>1
  <2>4. /\ x.op = "createMenu" /\ x.pc = "module" /\ ~x.had /\ x.ids = {}
        /\ x.menu = n /\ x.module = m /\ x.into = m /\ x.path = u /\ x.target = t
    BY <2>3 DEF NoRequest
  <2>5. x \in Request
    BY <2>2, <2>3
  <2>6. BodyFits(x)
    BY <1>1, <2>1, <2>4 DEF BodyFits, Stages, InModule
  <2>7. RowsRead(x, module, menu, route, service) /\ FreshId(q, x)
    BY <1>1, <2>4 DEF RowsRead, FreshId, InModule, UnderParent
  <2>8. x.pc \in Stages("createMenu")
    BY <2>4 DEF Stages
  <2> QED
    BY <1>1, <2>4, <2>5, <2>6, <2>7, <2>8, Beginning
<1> QED
  BY <1>1 DEF StartCreateMenu

LEMMA StartUpdateMenuSteps ==
  ASSUME CatalogInv, NEW q \in Requests, StartUpdateMenu(q)
  PROVE  \E y : Becomes(q, y)
<1>1. PICK n \in Menus, m \in Modules \cup {None}, p \in Menus \cup {None},
           u \in Paths \cup {None}, t \in {"keep", "set", "clear"},
           nulls \in SUBSET {"parent", "url"} :
        /\ menu[n] # None
        /\ ("parent" \in nulls => p = None) /\ ("url" \in nulls => u = None)
        /\ Start(q, "updateMenu",
                 [req[q] EXCEPT !.op = "updateMenu", !.pc = "menu", !.menu = n,
                                !.module = m, !.parent = p, !.url = u, !.nulls = nulls,
                                !.target = t])
  BY Zenon DEF StartUpdateMenu
<1>2. PICK x : x = [req[q] EXCEPT !.op = "updateMenu", !.pc = "menu", !.menu = n,
                                  !.module = m, !.parent = p, !.url = u, !.nulls = nulls,
                                  !.target = t]
  OBVIOUS
<1>3. Start(q, "updateMenu", x)
  BY <1>1, <1>2
<1>4. req[q] = NoRequest /\ "updateMenu" \in Ops
  BY <1>3, Blank
<1>5. [NoRequest EXCEPT !.op = "updateMenu", !.pc = "menu", !.menu = n,
                        !.module = m, !.parent = p, !.url = u, !.nulls = nulls,
                        !.target = t] \in Request
  BY <1>4 DEF NoRequest, Request
<1>6. x = [NoRequest EXCEPT !.op = "updateMenu", !.pc = "menu", !.menu = n,
                            !.module = m, !.parent = p, !.url = u, !.nulls = nulls,
                            !.target = t]
  BY Zenon, <1>2, <1>4
<1>7. /\ x.op = "updateMenu" /\ x.pc = "menu" /\ ~x.had /\ x.ids = {}
      /\ x.menu = n /\ x.target = t
  BY <1>6 DEF NoRequest
<1>8. x \in Request
  BY <1>5, <1>6
<1>9. BodyFits(x)
  BY <1>4, <1>7 DEF BodyFits, Stages, InModule
<1>10. RowsRead(x, module, menu, route, service) /\ FreshId(q, x)
  BY <1>1, <1>7 DEF RowsRead, FreshId, InModule, UnderParent
<1>11. x.pc \in Stages("updateMenu")
  BY <1>7 DEF Stages
<1> QED
  BY <1>3, <1>7, <1>8, <1>9, <1>10, <1>11, Beginning

LEMMA StartRemoveMenuSteps ==
  ASSUME CatalogInv, NEW q \in Requests, StartRemoveMenu(q)
  PROVE  \E y : Becomes(q, y)
<1>1. ASSUME NEW n \in Menus, NEW x, menu[n] # None, Start(q, "removeMenu", x),
             x = [req[q] EXCEPT !.op = "removeMenu", !.pc = "menu", !.menu = n]
      PROVE  \E y : Becomes(q, y)
  <2>1. req[q] = NoRequest /\ "removeMenu" \in Ops
    BY <1>1, Blank
  <2>2. [NoRequest EXCEPT !.op = "removeMenu", !.pc = "menu", !.menu = n] \in Request
    BY <2>1 DEF NoRequest, Request
  <2>3. x = [NoRequest EXCEPT !.op = "removeMenu", !.pc = "menu", !.menu = n]
    BY Zenon, <1>1, <2>1
  <2>4. /\ x.op = "removeMenu" /\ x.pc = "menu" /\ ~x.had /\ x.ids = {}
        /\ x.menu = n
    BY <2>3 DEF NoRequest
  <2>5. x \in Request
    BY <2>2, <2>3
  <2>6. BodyFits(x)
    BY <1>1, <2>1, <2>4 DEF BodyFits, Stages, InModule
  <2>7. RowsRead(x, module, menu, route, service) /\ FreshId(q, x)
    BY <1>1, <2>4 DEF RowsRead, FreshId, InModule, UnderParent
  <2>8. x.pc \in Stages("removeMenu")
    BY <2>4 DEF Stages
  <2> QED
    BY <1>1, <2>4, <2>5, <2>6, <2>7, <2>8, Beginning
<1> QED
  BY <1>1 DEF StartRemoveMenu

LEMMA StartServiceSteps ==
  ASSUME CatalogInv, NEW q \in Requests, StartService(q)
  PROVE  \E y : Becomes(q, y)
<1>1. ASSUME NEW s \in Services, NEW x, Start(q, "createService", x),
             x = [req[q] EXCEPT !.op = "createService", !.pc = "exists", !.service = s]
      PROVE  \E y : Becomes(q, y)
  <2>1. req[q] = NoRequest /\ "createService" \in Ops
    BY <1>1, Blank
  <2>2. [NoRequest EXCEPT !.op = "createService", !.pc = "exists", !.service = s] \in Request
    BY <2>1 DEF NoRequest, Request
  <2>3. x = [NoRequest EXCEPT !.op = "createService", !.pc = "exists", !.service = s]
    BY Zenon, <1>1, <2>1
  <2>4. /\ x.op = "createService" /\ x.pc = "exists" /\ ~x.had /\ x.ids = {}
        /\ x.service = s /\ x.menu = None
    BY <2>3 DEF NoRequest
  <2>5. x \in Request
    BY <2>2, <2>3
  <2>6. BodyFits(x)
    BY <1>1, <2>1, <2>4 DEF BodyFits, Stages, InModule
  <2>7. RowsRead(x, module, menu, route, service) /\ FreshId(q, x)
    BY <1>1, <2>4 DEF RowsRead, FreshId, InModule, UnderParent
  <2>8. x.pc \in Stages("createService")
    BY <2>4 DEF Stages
  <2> QED
    BY <1>1, <2>4, <2>5, <2>6, <2>7, <2>8, Beginning
<1>2. ASSUME NEW s \in Services, NEW x, Start(q, "removeService", x),
             x = [req[q] EXCEPT !.op = "removeService", !.pc = "service", !.service = s]
      PROVE  \E y : Becomes(q, y)
  <2>1. req[q] = NoRequest /\ "removeService" \in Ops
    BY <1>2, Blank
  <2>2. [NoRequest EXCEPT !.op = "removeService", !.pc = "service", !.service = s] \in Request
    BY <2>1 DEF NoRequest, Request
  <2>3. x = [NoRequest EXCEPT !.op = "removeService", !.pc = "service", !.service = s]
    BY Zenon, <1>2, <2>1
  <2>4. /\ x.op = "removeService" /\ x.pc = "service" /\ ~x.had /\ x.ids = {}
        /\ x.service = s /\ x.menu = None
    BY <2>3 DEF NoRequest
  <2>5. x \in Request
    BY <2>2, <2>3
  <2>6. BodyFits(x)
    BY <1>2, <2>1, <2>4 DEF BodyFits, Stages, InModule
  <2>7. RowsRead(x, module, menu, route, service) /\ FreshId(q, x)
    BY <1>2, <2>4 DEF RowsRead, FreshId, InModule, UnderParent
  <2>8. x.pc \in Stages("removeService")
    BY <2>4 DEF Stages
  <2> QED
    BY <1>2, <2>4, <2>5, <2>6, <2>7, <2>8, Beginning
<1> QED
  BY <1>1, <1>2 DEF StartService

LEMMA StartProvisionSteps ==
  ASSUME CatalogInv, NEW q \in Requests, StartProvision(q)
  PROVE  \E y : Becomes(q, y)
<1>1. ASSUME NEW s \in Services, NEW u \in Paths, NEW x, Start(q, "provision", x),
             x = [req[q] EXCEPT !.op = "provision", !.pc = "service", !.service = s,
                     !.code = s, !.path = u]
      PROVE  \E y : Becomes(q, y)
  <2>1. req[q] = NoRequest /\ "provision" \in Ops
    BY <1>1, Blank
  <2>0. s \in Codes
    BY SeedAssumption
  <2>2. [NoRequest EXCEPT !.op = "provision", !.pc = "service", !.service = s,
                     !.code = s, !.path = u] \in Request
    BY <2>0, <2>1 DEF NoRequest, Request
  <2>3. x = [NoRequest EXCEPT !.op = "provision", !.pc = "service", !.service = s,
                     !.code = s, !.path = u]
    BY Zenon, <1>1, <2>1
  <2>4. /\ x.op = "provision" /\ x.pc = "service" /\ ~x.had /\ x.ids = {}
        /\ x.service = s /\ x.code = s /\ x.path = u /\ x.menu = None
    BY <2>3 DEF NoRequest
  <2>5. x \in Request
    BY <2>2, <2>3
  <2>6. BodyFits(x)
    BY <1>1, <2>0, <2>1, <2>4 DEF BodyFits, Stages, InModule
  <2>7. RowsRead(x, module, menu, route, service) /\ FreshId(q, x)
    BY <1>1, <2>4 DEF RowsRead, FreshId, InModule, UnderParent
  <2>8. x.pc \in Stages("provision")
    BY <2>4 DEF Stages
  <2> QED
    BY <1>1, <2>4, <2>5, <2>6, <2>7, <2>8, Beginning
<1> QED
  BY <1>1 DEF StartProvision

LEMMA BeginSteps ==
  ASSUME CatalogInv, NEW q \in Requests, Begin(q)
  PROVE  \E y : Becomes(q, y)
BY StartModuleSteps, StartCreateMenuSteps, StartUpdateMenuSteps, StartRemoveMenuSteps,
   StartServiceSteps, StartProvisionSteps DEF Begin

-----------------------------------------------------------------------------
(* The calls that read *)

(* A call that only decides which call comes next.                         *)
LEMMA Calling ==
  ASSUME CatalogInv, NEW q \in Requests, NEW pc \in Pcs, To(q, pc), UNCHANGED tables,
         req[q].pc \notin {"new", "done"},
         \A x : Moved(x, req[q], pc) =>
           Knows(x, module, menu, route, service) /\ (TreeInv => Sees(x))
  PROVE  \E y : Becomes(q, y)
<1>1. req[q] \in Request
  BY OfRequest
<1>2. /\ [req[q] EXCEPT !.pc = pc] \in Request
      /\ Moved([req[q] EXCEPT !.pc = pc], req[q], pc)
  BY <1>1, PcMoves
<1>3. PICK x : x = [req[q] EXCEPT !.pc = pc]
  OBVIOUS
<1>4. x \in Request /\ Moved(x, req[q], pc) /\ Goto(q, x)
  BY <1>2, <1>3 DEF To
<1>5. FreshId(q, x)
  BY <1>4 DEF FreshId, Moved, InFlight
<1> QED
  BY <1>4, <1>5 DEF Becomes

(* Nothing more is asked of a handler that ends.                           *)
LEMMA DoneSees ==
  ASSUME NEW x, x.pc = "done"
  PROVE  Sees(x)
BY DEF Sees, Climbs, PlacementHolds, SubtreeCollected, InModule, UnderParent

LEMMA Refusing ==
  ASSUME CatalogInv, NEW q \in Requests, To(q, "done"), UNCHANGED tables,
         req[q].pc \notin {"new", "done"}
  PROVE  \E y : Becomes(q, y)
<1>1. "done" \in Pcs
  BY DEF Pcs
<1>2. \A x : Moved(x, req[q], "done") =>
        Knows(x, module, menu, route, service) /\ (TreeInv => Sees(x))
  BY DoneStep, DoneSees DEF Moved
<1> QED
  BY <1>1, <1>2, Calling

(* What is known of a request that is at one of its calls.                 *)
LEMMA AtCall ==
  ASSUME CatalogInv, NEW q \in Requests, req[q].pc \notin {"new", "done"}
  PROVE  /\ req[q] \in Request /\ BodyFits(req[q])
         /\ RowsRead(req[q], module, menu, route, service)
         /\ req[q].op \in Ops /\ req[q].pc \in Stages(req[q].op)
BY OfRequest DEF BodyFits

LEMMA InTree ==
  ASSUME TreeInv, NEW q \in Requests
  PROVE  Sees(req[q])
BY DEF TreeInv, RequestsKnowTheTree, Sees

LEMMA ReadModuleSteps ==
  ASSUME CatalogInv, NEW q \in Requests, ReadModule(q)
  PROVE  \E y : Becomes(q, y)
<1> DEFINE r == req[q]
           next == CASE r.op = "removeModule" -> "collect"
                     [] r.op = "updateModule" -> "write"
                     [] r.op = "updateMenu" -> IF r.parent = None THEN "route" ELSE "walk"
                     [] r.op = "createMenu" -> IF r.parent # None THEN "parent"
                                               ELSE ProbeOrWrite(r)
<1>1. /\ r.pc = "module" /\ UNCHANGED tables
      /\ To(q, IF IsActive(module, r.into) THEN next ELSE "done")
  BY DEF ReadModule, If
<1>2. /\ r \in Request /\ BodyFits(r) /\ RowsRead(r, module, menu, route, service)
      /\ r.op \in Ops /\ r.pc \in Stages(r.op)
  BY <1>1, AtCall
<1>3. r.op \in {"updateModule", "removeModule", "createMenu", "updateMenu"}
  BY <1>1, <1>2 DEF Stages
<1>4. CASE ~IsActive(module, r.into)
  BY <1>1, <1>4, Refusing
<1>5. ASSUME IsActive(module, r.into), NEW pc \in Pcs, To(q, pc), r.op = "removeModule",
             pc = "collect"
      PROVE  \E y : Becomes(q, y)
  <2>1. ASSUME NEW x, Moved(x, r, pc)
        PROVE  Knows(x, module, menu, route, service) /\ Sees(x)
    <3>1. /\ x.pc = "collect" /\ x.op = "removeModule" /\ x.into = r.into
          /\ (x.had <=> r.had) /\ x.ids = r.ids
      BY <1>5, <2>1 DEF Moved
    <3>2. BodyFits(x)
      BY <1>2, <1>5, <3>1 DEF BodyFits, Stages
    <3>3. RowsRead(x, module, menu, route, service)
      BY <1>2, <1>5, <3>1 DEF RowsRead, IsActive
    <3>4. Sees(x)
      BY <3>1 DEF Sees, Climbs, PlacementHolds, SubtreeCollected, Places
    <3> QED
      BY <3>2, <3>3, <3>4 DEF Knows
  <2> QED
    BY <1>1, <1>5, <2>1, Calling
<1>6. ASSUME IsActive(module, r.into), NEW pc \in Pcs, To(q, pc), r.op = "updateModule",
             pc = "write"
      PROVE  \E y : Becomes(q, y)
  <2>1. ASSUME NEW x, Moved(x, r, pc)
        PROVE  Knows(x, module, menu, route, service) /\ Sees(x)
    <3>1. /\ x.pc = "write" /\ x.op = "updateModule" /\ x.into = r.into /\ x.code = r.code
          /\ (x.had <=> r.had) /\ x.ids = r.ids
      BY <1>6, <2>1 DEF Moved
    <3>2. BodyFits(x)
      BY <1>2, <1>6, <3>1 DEF BodyFits, Stages
    <3>3. RowsRead(x, module, menu, route, service)
      BY <1>2, <1>6, <3>1 DEF RowsRead, IsActive
    <3>4. Sees(x)
      BY <3>1 DEF Sees, Climbs, PlacementHolds, SubtreeCollected, Places
    <3> QED
      BY <3>2, <3>3, <3>4 DEF Knows
  <2> QED
    BY <1>1, <1>6, <2>1, Calling
<1>7. ASSUME IsActive(module, r.into), NEW pc \in Pcs, To(q, pc), r.op = "updateMenu",
             pc = IF r.parent = None THEN "route" ELSE "walk"
      PROVE  \E y : Becomes(q, y)
  <2>1. ASSUME NEW x, Moved(x, r, pc)
        PROVE  Knows(x, module, menu, route, service) /\ (TreeInv => Sees(x))
    <3>1. /\ x.pc = pc /\ x.op = "updateMenu" /\ x.into = r.into /\ x.menu = r.menu
          /\ x.module = r.module /\ x.parent = r.parent /\ x.cursor = r.cursor
          /\ (x.had <=> r.had) /\ x.ids = r.ids
      BY <1>7, <2>1 DEF Moved
    <3>2. BodyFits(x)
      BY <1>1, <1>2, <1>7, <3>1 DEF BodyFits, Stages, InModule
    <3>3. RowsRead(x, module, menu, route, service)
      BY <1>1, <1>2, <1>7, <3>1 DEF RowsRead, IsActive, UnderParent
    <3>4. ASSUME TreeInv
          PROVE  Sees(x)
      <4>1. Climbed(x, {}, menu, crossed) \/ x.parent = None
        BY <1>1, <1>2, <1>7, <3>1 DEF Climbed, BodyFits
      <4>2. Climbs(x, menu, crossed)
        BY <4>1 DEF Climbs
      <4>3. PlacementHolds(r, module, menu, crossed)
        BY <3>4, InTree DEF Sees
      <4>4. PlacementHolds(x, module, menu, crossed)
        BY <1>1, <1>7, <3>1, <4>3 DEF PlacementHolds, Places, UnderParent
      <4>5. SubtreeCollected(x, menu, crossed)
        BY <3>1 DEF SubtreeCollected
      <4> QED
        BY <4>2, <4>4, <4>5 DEF Sees
    <3> QED
      BY <3>2, <3>3, <3>4 DEF Knows
  <2> QED
    BY <1>1, <1>7, <2>1, Calling
<1>8. ASSUME IsActive(module, r.into), NEW pc \in Pcs, To(q, pc), r.op = "createMenu",
             pc \in {"parent", "probe", "write"}, pc # "parent" => r.parent = None
      PROVE  \E y : Becomes(q, y)
  <2>1. ASSUME NEW x, Moved(x, r, pc)
        PROVE  Knows(x, module, menu, route, service) /\ Sees(x)
    <3>1. /\ x.pc = pc /\ x.op = "createMenu" /\ x.into = r.into /\ x.menu = r.menu
          /\ x.module = r.module /\ x.parent = r.parent /\ x.target = r.target
          /\ x.path = r.path /\ (x.had <=> r.had) /\ x.ids = r.ids
      BY <1>8, <2>1 DEF Moved
    <3>2. BodyFits(x)
      BY <1>2, <1>8, <3>1 DEF BodyFits, Stages
    <3>3. RowsRead(x, module, menu, route, service)
      BY <1>2, <1>8, <3>1 DEF RowsRead, IsActive, UnderParent
    <3>4. Sees(x)
      BY <1>8, <3>1 DEF Sees, Climbs, PlacementHolds, SubtreeCollected, UnderParent
    <3> QED
      BY <3>2, <3>3, <3>4 DEF Knows
  <2> QED
    BY <1>1, <1>8, <2>1, Calling
<1>9. CASE IsActive(module, r.into)
  <2>1. To(q, next)
    BY <1>1, <1>9
  <2>2. CASE r.op = "removeModule"
    <3>1. next = "collect"
      BY <2>2
    <3>2. "collect" \in Pcs
      BY DEF Pcs
    <3> QED
      BY <1>5, <1>9, <2>1, <2>2, <3>1, <3>2
  <2>3. CASE r.op = "updateModule"
    <3>1. next = "write"
      BY <2>3
    <3>2. "write" \in Pcs
      BY DEF Pcs
    <3> QED
      BY <1>6, <1>9, <2>1, <2>3, <3>1, <3>2
  <2>4. CASE r.op = "updateMenu"
    <3>1. next = IF r.parent = None THEN "route" ELSE "walk"
      BY <2>4
    <3>2. next \in Pcs
      BY <3>1 DEF Pcs
    <3> HIDE DEF next
    <3> QED
      BY <1>7, <1>9, <2>1, <2>4, <3>1, <3>2
  <2>5. CASE r.op = "createMenu"
    <3>1. next \in {"parent", "probe", "write"} /\ (next # "parent" => r.parent = None)
      BY <2>5 DEF ProbeOrWrite
    <3>2. next \in Pcs
      BY <3>1 DEF Pcs
    <3> HIDE DEF next
    <3> QED
      BY <1>8, <1>9, <2>1, <2>5, <3>1, <3>2
  <2> QED
    BY <1>3, <2>2, <2>3, <2>4, <2>5
<1> QED
  BY <1>4, <1>9

LEMMA ReadExistsSteps ==
  ASSUME CatalogInv, NEW q \in Requests, ReadExists(q)
  PROVE  \E y : Becomes(q, y)
<1> DEFINE r == req[q]
           free == IF r.op = "createService" THEN service[r.service] = None
                                             ELSE CodeFree(r.code, None)
           next == IF r.op = "createService" THEN "probe" ELSE "write"
<1>1. r.pc = "exists" /\ UNCHANGED tables /\ To(q, IF free THEN next ELSE "done")
  BY DEF ReadExists, If
<1>2. /\ r \in Request /\ BodyFits(r) /\ RowsRead(r, module, menu, route, service)
      /\ r.op \in Ops /\ r.pc \in Stages(r.op)
  BY <1>1, AtCall
<1>3. r.op \in {"createModule", "createService", "provision"}
  BY <1>1, <1>2 DEF Stages
<1>4. CASE ~free
  <2> HIDE DEF free, next
  <2> QED
    BY <1>1, <1>4, Refusing
<1>5. CASE free
  <2>1. ASSUME NEW x, Moved(x, r, next)
        PROVE  Knows(x, module, menu, route, service) /\ Sees(x)
    <3>1. /\ x.pc = next /\ x.op = r.op /\ x.code = r.code /\ x.service = r.service
          /\ x.path = r.path /\ (x.had <=> r.had) /\ x.ids = r.ids
      BY <2>1 DEF Moved
    <3>2. BodyFits(x)
      BY <1>2, <1>3, <3>1 DEF BodyFits, Stages
    <3>3. RowsRead(x, module, menu, route, service)
      BY <1>1, <1>2, <1>3, <3>1 DEF RowsRead
    <3>4. Sees(x)
      BY <1>3, <3>1 DEF Sees, Climbs, PlacementHolds, SubtreeCollected, Places
    <3> QED
      BY <3>2, <3>3, <3>4 DEF Knows
  <2>2. next \in Pcs
    BY DEF Pcs
  <2> HIDE DEF free, next
  <2> QED
    BY <1>1, <1>5, <2>1, <2>2, Calling
<1> QED
  BY <1>4, <1>5

LEMMA ReadServiceSteps ==
  ASSUME CatalogInv, NEW q \in Requests, ReadService(q)
  PROVE  \E y : Becomes(q, y)
<1> DEFINE r == req[q]
           found == /\ IsActive(service, r.service)
                    /\ r.op = "provision" => service[r.service].module = None
           next == IF r.op = "provision" THEN "exists" ELSE "write"
<1>1. r.pc = "service" /\ UNCHANGED tables /\ To(q, IF found THEN next ELSE "done")
  BY DEF ReadService, If
<1>2. /\ r \in Request /\ BodyFits(r) /\ RowsRead(r, module, menu, route, service)
      /\ r.op \in Ops /\ r.pc \in Stages(r.op)
  BY <1>1, AtCall
<1>3. r.op \in {"removeService", "provision"}
  BY <1>1, <1>2 DEF Stages
<1>4. CASE ~found
  <2> HIDE DEF found, next
  <2> QED
    BY <1>1, <1>4, Refusing
<1>5. CASE found
  <2>1. ASSUME NEW x, Moved(x, r, next)
        PROVE  Knows(x, module, menu, route, service) /\ Sees(x)
    <3>1. /\ x.pc = next /\ x.op = r.op /\ x.code = r.code /\ x.service = r.service
          /\ x.path = r.path /\ (x.had <=> r.had) /\ x.ids = r.ids
      BY <2>1 DEF Moved
    <3>2. BodyFits(x)
      BY <1>2, <1>3, <3>1 DEF BodyFits, Stages
    <3>3. RowsRead(x, module, menu, route, service)
      BY <1>2, <1>3, <1>5, <3>1 DEF RowsRead, IsActive
    <3>4. Sees(x)
      BY <1>3, <3>1 DEF Sees, Climbs, PlacementHolds, SubtreeCollected, Places
    <3> QED
      BY <3>2, <3>3, <3>4 DEF Knows
  <2>2. next \in Pcs
    BY DEF Pcs
  <2> HIDE DEF found, next
  <2> QED
    BY <1>1, <1>5, <2>1, <2>2, Calling
<1> QED
  BY <1>4, <1>5

LEMMA ReadMenuSteps ==
  ASSUME CatalogInv, NEW q \in Requests, ReadMenu(q)
  PROVE  \E y : Becomes(q, y)
<1> DEFINE r == req[q]
           n == r.menu
           into == IF r.module = None THEN menu[n].module ELSE r.module
           path == IF r.url = None /\ "url" \notin r.nulls THEN menu[n].url ELSE r.url
<1>1. r.pc = "menu" /\ UNCHANGED tables
  BY DEF ReadMenu
<1>2. /\ r \in Request /\ BodyFits(r) /\ RowsRead(r, module, menu, route, service)
      /\ r.op \in Ops /\ r.pc \in Stages(r.op)
  BY <1>1, AtCall
<1>3. r.op \in {"updateMenu", "removeMenu"}
  BY <1>1, <1>2 DEF Stages
<1>4. n \in Menus /\ menu[n] # None /\ menu[n] \in Menu
  BY <1>2, <1>3 DEF BodyFits, RowsRead, CatalogInv, TypeOK, RowsTyped
<1>5. CASE ~IsActive(menu, n)
  <2>1. To(q, "done")
    BY <1>5 DEF ReadMenu
  <2> QED
    BY <1>1, <2>1, Refusing
<1>6. CASE IsActive(menu, n) /\ r.op = "removeMenu"
  <2>1. PICK x : x = [r EXCEPT !.ids = {n}, !.level = {n}, !.pc = "collect"]
    OBVIOUS
  <2>2. Goto(q, x)
    BY <1>6, <2>1 DEF ReadMenu
  <2>3. {n} \in SUBSET Menus /\ "collect" \in Pcs
    BY <1>4 DEF Pcs
  <2>4. /\ x \in Request /\ x.pc = "collect" /\ x.op = "removeMenu"
        /\ x.menu = n /\ (x.had <=> r.had) /\ x.ids = {n} /\ x.level = {n}
    <3>1. Listed(x, r, {n}, {n}, "collect")
      BY <1>2, <2>1, <2>3, Listing
    <3> QED
      BY <1>6, <3>1 DEF Listed
  <2>5. BodyFits(x)
    BY <1>2, <1>4, <1>6, <2>4 DEF BodyFits, Stages
  <2>6. RowsRead(x, module, menu, route, service)
    BY <1>2, <1>4, <1>6, <2>4 DEF RowsRead
  <2>7. Sees(x)
    BY <2>4 DEF Sees, Climbs, PlacementHolds, SubtreeCollected, Places
  <2>8. FreshId(q, x)
    BY <1>4, <2>4 DEF FreshId
  <2> QED
    BY <1>1, <2>2, <2>4, <2>5, <2>6, <2>7, <2>8 DEF Becomes, Knows
<1>7. CASE IsActive(menu, n) /\ r.op # "removeMenu"
  <2>1. PICK x : x = [r EXCEPT !.pc = "module", !.cursor = r.parent, !.into = into,
                               !.path = path]
    OBVIOUS
  <2>2. Goto(q, x)
    BY <1>7, <2>1 DEF ReadMenu
  <2>3. /\ into \in Modules \cup {None} /\ path \in Paths \cup {None}
        /\ into \in Modules /\ r.module \in {into, None}
    BY <1>2, <1>4, Fields DEF Menu
  <2>4. into = Given(r.module, menu[n].module)
    BY DEF Given
  <2> HIDE DEF into, path
  <2>5. /\ x \in Request /\ x.pc = "module" /\ x.op = "updateMenu" /\ x.menu = n
        /\ x.module = r.module /\ x.into = into /\ x.cursor = r.parent
        /\ x.parent = r.parent /\ (x.had <=> r.had) /\ x.ids = r.ids
    <3>1. r.parent \in Menus \cup {None} /\ into \in Modules \cup {None}
      BY <1>2, <2>3, Fields
    <3>2. Aimed(x, r, r.parent, into, path)
      BY <1>2, <2>1, <2>3, <3>1, Aiming
    <3> QED
      BY <1>3, <1>7, <3>2 DEF Aimed
  <2>6. BodyFits(x)
    BY <1>2, <1>3, <1>4, <1>7, <2>3, <2>5 DEF BodyFits, Stages, InModule
  <2>7. RowsRead(x, module, menu, route, service)
    BY <1>2, <1>4, <1>7, <2>5 DEF RowsRead, InModule, UnderParent
  <2>8. Sees(x)
    BY <1>7, <2>4, <2>5 DEF Sees, Climbs, PlacementHolds, SubtreeCollected, InModule, UnderParent
  <2>9. FreshId(q, x)
    BY <1>4, <2>5 DEF FreshId
  <2> QED
    BY <1>1, <2>2, <2>5, <2>6, <2>7, <2>8, <2>9 DEF Becomes, Knows
<1> QED
  BY <1>5, <1>6, <1>7

LEMMA WalkSteps ==
  ASSUME CatalogInv, NEW q \in Requests, Walk(q)
  PROVE  \E y : Becomes(q, y)
<1> DEFINE r == req[q]
           c == r.cursor
<1>1. r.pc = "walk" /\ UNCHANGED tables
  BY DEF Walk
<1>2. /\ r \in Request /\ BodyFits(r) /\ RowsRead(r, module, menu, route, service)
      /\ r.op \in Ops /\ r.pc \in Stages(r.op)
  BY <1>1, AtCall
<1>3. /\ r.op = "updateMenu" /\ r.parent # None /\ r.menu \in Menus
      /\ c \in Menus \cup {None} /\ r.parent \in Menus \cup {None}
  BY <1>1, <1>2, Fields DEF Stages, BodyFits
<1>4. ASSUME TreeInv
      PROVE  /\ \E U \in SUBSET Menus : Climbed(r, U, menu, crossed)
             /\ PlacementHolds(r, module, menu, crossed)
  BY <1>1, <1>3, <1>4, InTree DEF Sees, Climbs, InModule
<1>5. CASE c = r.menu
  <2>1. To(q, "done")
    BY <1>5 DEF Walk
  <2> QED
    BY <1>1, <2>1, Refusing
<1>6. CASE c # r.menu /\ (c = None \/ menu[c] = None)
  <2>1. To(q, "parent") /\ "parent" \in Pcs
    BY <1>6 DEF Walk, Pcs
  <2>2. ASSUME NEW x, Moved(x, r, "parent")
        PROVE  Knows(x, module, menu, route, service) /\ (TreeInv => Sees(x))
    <3>1. /\ x.pc = "parent" /\ x.op = "updateMenu" /\ x.into = r.into /\ x.menu = r.menu
          /\ x.module = r.module /\ x.parent = r.parent
          /\ (x.had <=> r.had) /\ x.ids = r.ids
      BY <1>3, <2>2 DEF Moved
    <3>2. BodyFits(x)
      BY <1>1, <1>2, <1>3, <3>1 DEF BodyFits, Stages, InModule
    <3>3. RowsRead(x, module, menu, route, service)
      BY <1>1, <1>2, <1>3, <3>1 DEF RowsRead, InModule, UnderParent
    <3>4. ASSUME TreeInv
          PROVE  Sees(x)
      <4>1. PICK U \in SUBSET Menus : Climbed(r, U, menu, crossed)
        BY <1>4, <3>4
      <4>2. Climbed(x, IF c = None THEN U ELSE U \cup {c}, menu, crossed)
        <5>1. CASE c = None
          BY <1>1, <1>3, <3>1, <4>1, <5>1 DEF Climbed
        <5>2. CASE c # None
          BY <1>1, <1>3, <1>6, <3>1, <4>1, <5>2 DEF Climbed
        <5> QED
          BY <5>1, <5>2
      <4>3. Climbs(x, menu, crossed)
        BY <1>3, <4>2 DEF Climbs
      <4>4. PlacementHolds(x, module, menu, crossed)
        BY <1>1, <1>3, <1>4, <3>1, <3>4 DEF PlacementHolds, Places, UnderParent, InModule
      <4> QED
        BY <3>1, <4>3, <4>4 DEF Sees, SubtreeCollected
    <3> QED
      BY <3>2, <3>3, <3>4 DEF Knows
  <2> QED
    BY <1>1, <2>1, <2>2, Calling
<1>7. CASE c # r.menu /\ c # None /\ menu[c] # None
  <2>1. menu[c].parent \in Menus \cup {None}
    BY <1>3, <1>7 DEF CatalogInv, TypeOK, RowsTyped, Menu
  <2>2. PICK x : x = [r EXCEPT !.cursor = menu[c].parent]
    OBVIOUS
  <2>3. Goto(q, x)
    BY <1>7, <2>2 DEF Walk
  <2>4. /\ x \in Request /\ x.pc = "walk" /\ x.op = "updateMenu" /\ x.into = r.into
        /\ x.menu = r.menu /\ x.module = r.module /\ x.parent = r.parent
        /\ x.cursor = menu[c].parent /\ (x.had <=> r.had) /\ x.ids = r.ids
    BY <1>1, <1>2, <1>3, <2>1, <2>2, Climbing
  <2>5. BodyFits(x)
    BY <1>1, <1>2, <1>3, <2>4 DEF BodyFits, Stages, InModule
  <2>6. RowsRead(x, module, menu, route, service)
    BY <1>1, <1>2, <1>3, <2>4 DEF RowsRead, InModule, UnderParent
  <2>7. ASSUME TreeInv
        PROVE  Sees(x)
    <3>1. PICK U \in SUBSET Menus : Climbed(r, U, menu, crossed)
      BY <1>4, <2>7
    <3>2. Climbed(x, U \cup {c}, menu, crossed)
      BY <1>1, <1>3, <1>7, <2>4, <3>1 DEF Climbed
    <3>3. Climbs(x, menu, crossed)
      BY <1>3, <1>7, <3>2 DEF Climbs
    <3>4. PlacementHolds(x, module, menu, crossed)
      BY <1>1, <1>3, <1>4, <2>4, <2>7 DEF PlacementHolds, Places, UnderParent, InModule
    <3> QED
      BY <2>4, <3>3, <3>4 DEF Sees, SubtreeCollected
  <2>8. FreshId(q, x)
    BY <1>1, <1>3, <2>4 DEF FreshId, InFlight
  <2> QED
    BY <1>1, <2>3, <2>4, <2>5, <2>6, <2>7, <2>8 DEF Becomes, Knows
<1> QED
  BY <1>5, <1>6, <1>7

LEMMA ReadParentSteps ==
  ASSUME CatalogInv, NEW q \in Requests, ReadParent(q)
  PROVE  \E y : Becomes(q, y)
<1> DEFINE r == req[q]
           fits == IsActive(menu, r.parent) /\ menu[r.parent].module = r.into
           next == IF r.op = "updateMenu" THEN "route" ELSE ProbeOrWrite(r)
<1>1. r.pc = "parent" /\ UNCHANGED tables /\ To(q, IF fits THEN next ELSE "done")
  BY DEF ReadParent, If
<1>2. /\ r \in Request /\ BodyFits(r) /\ RowsRead(r, module, menu, route, service)
      /\ r.op \in Ops /\ r.pc \in Stages(r.op)
  BY <1>1, AtCall
<1>3. r.op \in {"createMenu", "updateMenu"}
  BY <1>1, <1>2 DEF Stages
<1>4. CASE ~fits
  <2> HIDE DEF fits, next
  <2> QED
    BY <1>1, <1>4, Refusing
<1>5. CASE fits
  <2>1. next = IF r.op = "updateMenu" THEN "route"
               ELSE IF r.target = "set" THEN "probe" ELSE "write"
    BY DEF ProbeOrWrite
  <2> HIDE DEF next
  <2>2. ASSUME NEW x, Moved(x, r, next)
        PROVE  Knows(x, module, menu, route, service) /\ (TreeInv => Sees(x))
    <3>1. /\ x.pc = next /\ x.op = r.op /\ x.into = r.into /\ x.menu = r.menu
          /\ x.module = r.module /\ x.parent = r.parent /\ x.target = r.target
          /\ x.path = r.path /\ (x.had <=> r.had) /\ x.ids = r.ids
      BY <2>2 DEF Moved
    <3>2. BodyFits(x)
      BY <1>1, <1>2, <1>3, <2>1, <3>1 DEF BodyFits, Stages, InModule
    <3>3. RowsRead(x, module, menu, route, service)
      BY <1>1, <1>2, <1>3, <1>5, <2>1, <3>1 DEF RowsRead, InModule, UnderParent, IsActive
    <3>4. ASSUME TreeInv
          PROVE  Sees(x)
      <4>1. /\ Climbs(r, menu, crossed) /\ PlacementHolds(r, module, menu, crossed)
        BY <3>4, InTree DEF Sees
      <4>2. Climbs(x, menu, crossed)
        BY <1>1, <1>3, <2>1, <3>1, <4>1 DEF Climbs, Climbed, InModule
      <4>3. PlacementHolds(x, module, menu, crossed)
        BY <1>1, <1>3, <1>5, <2>1, <3>1, <4>1 DEF PlacementHolds, Places, UnderParent, InModule
      <4>4. SubtreeCollected(x, menu, crossed)
        BY <1>3, <3>1 DEF SubtreeCollected
      <4> QED
        BY <4>2, <4>3, <4>4 DEF Sees
    <3> QED
      BY <3>2, <3>3, <3>4 DEF Knows
  <2>3. next \in Pcs
    BY <2>1 DEF Pcs
  <2>4. To(q, next)
    BY <1>1, <1>5
  <2> QED
    BY <1>1, <2>2, <2>3, <2>4, Calling
<1> QED
  BY <1>4, <1>5

LEMMA ReadRouteSteps ==
  ASSUME CatalogInv, NEW q \in Requests, ReadRoute(q)
  PROVE  \E y : Becomes(q, y)
<1> DEFINE r == req[q]
           had == route[r.menu] # None
           pc == IF r.target # "set" THEN "write"
                 ELSE IF r.path = None THEN "done" ELSE "probe"
<1>1. r.pc = "route" /\ UNCHANGED tables /\ Goto(q, [r EXCEPT !.had = had, !.pc = pc])
  BY DEF ReadRoute
<1>2. /\ r \in Request /\ BodyFits(r) /\ RowsRead(r, module, menu, route, service)
      /\ r.op \in Ops /\ r.pc \in Stages(r.op)
  BY <1>1, AtCall
<1>3. r.op = "updateMenu"
  BY <1>1, <1>2 DEF Stages
<1>4. /\ pc \in {"write", "done", "probe"} /\ pc \in Pcs
      /\ r.target = "set" /\ pc \in {"probe", "write"} => r.path \in Paths
  BY <1>2, Fields DEF Pcs
<1>5. had \in BOOLEAN
  OBVIOUS
<1>6. PICK x : x = [r EXCEPT !.had = had, !.pc = pc]
  OBVIOUS
<1>7. Goto(q, x)
  BY <1>1, <1>6
<1>8. had => route[r.menu] # None
  OBVIOUS
<1> HIDE DEF had, pc
<1>9. /\ x \in Request /\ x.pc = pc /\ x.op = r.op /\ x.menu = r.menu
      /\ x.module = r.module /\ x.into = r.into /\ x.parent = r.parent
      /\ x.target = r.target /\ x.path = r.path /\ (x.had <=> had) /\ x.ids = r.ids
  <2>1. Found(x, r, had, pc)
    BY <1>2, <1>4, <1>5, <1>6, Finding
  <2> QED
    BY <2>1 DEF Found
<1>10. BodyFits(x)
  BY <1>1, <1>2, <1>3, <1>4, <1>9 DEF BodyFits, Stages, InModule
<1>11. RowsRead(x, module, menu, route, service)
  BY <1>1, <1>2, <1>3, <1>4, <1>8, <1>9 DEF RowsRead, InModule, UnderParent
<1>12. ASSUME TreeInv
       PROVE  Sees(x)
  <2>1. /\ Climbs(r, menu, crossed) /\ PlacementHolds(r, module, menu, crossed)
    BY <1>12, InTree DEF Sees
  <2>2. Climbs(x, menu, crossed)
    BY <1>1, <1>3, <1>4, <1>9, <2>1 DEF Climbs, Climbed, InModule
  <2>3. PlacementHolds(x, module, menu, crossed)
    BY <1>1, <1>3, <1>4, <1>9, <2>1 DEF PlacementHolds, Places, UnderParent, InModule
  <2>4. SubtreeCollected(x, menu, crossed)
    BY <1>3, <1>9 DEF SubtreeCollected
  <2> QED
    BY <2>2, <2>3, <2>4 DEF Sees
<1>13. FreshId(q, x)
  BY <1>1, <1>9 DEF FreshId, InFlight
<1> QED
  BY <1>1, <1>7, <1>9, <1>10, <1>11, <1>12, <1>13 DEF Becomes, Knows

LEMMA ProbeSteps ==
  ASSUME CatalogInv, NEW q \in Requests, Probe(q)
  PROVE  \E y : Becomes(q, y)
<1> DEFINE r == req[q]
<1>1. r.pc = "probe" /\ UNCHANGED tables /\ (To(q, "write") \/ To(q, "done"))
  BY DEF Probe
<1>2. /\ r \in Request /\ BodyFits(r) /\ RowsRead(r, module, menu, route, service)
      /\ r.op \in Ops /\ r.pc \in Stages(r.op)
  BY <1>1, AtCall
<1>3. r.op \in {"createMenu", "updateMenu", "createService"}
  BY <1>1, <1>2 DEF Stages
<1>4. CASE To(q, "done")
  BY <1>1, <1>4, Refusing
<1>5. CASE To(q, "write")
  <2>1. ASSUME NEW x, Moved(x, r, "write")
        PROVE  Knows(x, module, menu, route, service) /\ (TreeInv => Sees(x))
    <3>1. /\ x.pc = "write" /\ x.op = r.op /\ x.into = r.into /\ x.menu = r.menu
          /\ x.module = r.module /\ x.parent = r.parent /\ x.target = r.target
          /\ x.path = r.path /\ x.service = r.service /\ (x.had <=> r.had) /\ x.ids = r.ids
      BY <2>1 DEF Moved
    <3>2. BodyFits(x)
      BY <1>1, <1>2, <1>3, <3>1 DEF BodyFits, Stages, InModule
    <3>3. RowsRead(x, module, menu, route, service)
      BY <1>1, <1>2, <1>3, <3>1 DEF RowsRead, InModule, UnderParent
    <3>4. ASSUME TreeInv
          PROVE  Sees(x)
      <4>1. /\ Climbs(r, menu, crossed) /\ PlacementHolds(r, module, menu, crossed)
        BY <3>4, InTree DEF Sees
      <4>2. Climbs(x, menu, crossed)
        BY <1>1, <1>3, <3>1, <4>1 DEF Climbs, Climbed, InModule
      <4>3. PlacementHolds(x, module, menu, crossed)
        BY <1>1, <1>3, <3>1, <4>1 DEF PlacementHolds, Places, UnderParent, InModule
      <4>4. SubtreeCollected(x, menu, crossed)
        BY <1>3, <3>1 DEF SubtreeCollected
      <4> QED
        BY <4>2, <4>3, <4>4 DEF Sees
    <3> QED
      BY <3>2, <3>3, <3>4 DEF Knows
  <2>2. "write" \in Pcs
    BY DEF Pcs
  <2> QED
    BY <1>1, <1>5, <2>1, <2>2, Calling
<1> QED
  BY <1>1, <1>4, <1>5

LEMMA CollectSteps ==
  ASSUME CatalogInv, NEW q \in Requests, Collect(q)
  PROVE  \E y : Becomes(q, y)
<1> DEFINE r == req[q]
           next == Children(r.level)
           ids == r.ids \cup next
           pc == IF next = {} THEN "write" ELSE r.pc
<1>1. /\ r.pc = "collect" /\ r.op = "removeMenu" /\ UNCHANGED tables
      /\ Goto(q, [r EXCEPT !.ids = @ \cup next, !.level = next,
                           !.pc = IF next = {} THEN "write" ELSE @])
  BY DEF Collect
<1>2. /\ r \in Request /\ BodyFits(r) /\ RowsRead(r, module, menu, route, service)
      /\ r.op \in Ops
  BY <1>1, AtCall
<1>3. PICK x : x = [r EXCEPT !.ids = ids, !.level = next, !.pc = pc]
  OBVIOUS
<1>4. Goto(q, x)
  BY <1>1, <1>3
<1>5. /\ next \subseteq Menus
      /\ \A n \in Menus : n \in next <=> IsActive(menu, n) /\ menu[n].parent \in r.level
  BY DEF Children
<1>6. (pc = "write" /\ next = {}) \/ pc = "collect"
  BY <1>1
<1>7. ids \in SUBSET Menus /\ next \in SUBSET Menus /\ pc \in Pcs
  BY <1>2, <1>5, <1>6, Fields DEF Pcs
<1>8. ids = r.ids \cup next
  OBVIOUS
<1> HIDE DEF next, ids, pc
<1>9. /\ x \in Request /\ x.pc = pc /\ x.op = r.op /\ x.menu = r.menu
      /\ (x.had <=> r.had) /\ x.ids = ids /\ x.level = next
  <2>1. Listed(x, r, ids, next, pc)
    BY <1>2, <1>3, <1>7, Listing
  <2> QED
    BY <2>1 DEF Listed
<1>10. BodyFits(x)
  BY <1>1, <1>2, <1>6, <1>9 DEF BodyFits, Stages
<1>11. RowsRead(x, module, menu, route, service)
  BY <1>1, <1>2, <1>5, <1>8, <1>9 DEF RowsRead, IsActive
<1>12. ASSUME TreeInv
       PROVE  Sees(x)
  <2>1. SubtreeCollected(r, menu, crossed)
    BY <1>12, InTree DEF Sees
  <2>2. SubtreeCollected(x, menu, crossed)
    BY <1>1, <1>5, <1>6, <1>8, <1>9, <2>1 DEF SubtreeCollected
  <2>3. Climbs(x, menu, crossed) /\ PlacementHolds(x, module, menu, crossed)
    BY <1>1, <1>9 DEF Climbs, PlacementHolds, Places
  <2> QED
    BY <2>2, <2>3 DEF Sees
<1>13. FreshId(q, x)
  BY <1>1, <1>9 DEF FreshId, InFlight
<1> QED
  BY <1>1, <1>4, <1>9, <1>10, <1>11, <1>12, <1>13 DEF Becomes, Knows

LEMMA CollectModuleSteps ==
  ASSUME CatalogInv, NEW q \in Requests, CollectModule(q)
  PROVE  \E y : Becomes(q, y)
<1> DEFINE r == req[q]
           inside == {n \in Menus : IsActive(menu, n) /\ menu[n].module = r.into}
<1>1. /\ r.pc = "collect" /\ r.op = "removeModule" /\ UNCHANGED tables
      /\ Goto(q, [r EXCEPT !.pc = "write", !.ids = inside])
  BY DEF CollectModule
<1>2. /\ r \in Request /\ BodyFits(r) /\ RowsRead(r, module, menu, route, service)
      /\ r.op \in Ops
  BY <1>1, AtCall
<1>3. PICK x : x = [r EXCEPT !.pc = "write", !.ids = inside]
  OBVIOUS
<1>4. Goto(q, x)
  BY <1>1, <1>3
<1>5. /\ inside \in SUBSET Menus /\ \A n \in inside : menu[n] # None
  BY DEF IsActive
<1>6. "write" \in Pcs
  BY DEF Pcs
<1> HIDE DEF inside
<1>7. /\ x \in Request /\ x.pc = "write" /\ x.op = r.op /\ x.menu = r.menu
      /\ x.into = r.into /\ (x.had <=> r.had) /\ x.ids = inside
  <2>1. ListedModule(x, r, inside, "write")
    BY <1>2, <1>3, <1>5, <1>6, ListingModule
  <2> QED
    BY <2>1 DEF ListedModule
<1>8. BodyFits(x)
  BY <1>1, <1>2, <1>7 DEF BodyFits, Stages
<1>9. RowsRead(x, module, menu, route, service)
  BY <1>1, <1>2, <1>5, <1>7 DEF RowsRead
<1>10. Sees(x)
  BY <1>1, <1>7 DEF Sees, Climbs, PlacementHolds, SubtreeCollected, Places
<1>11. FreshId(q, x)
  BY <1>1, <1>7 DEF FreshId, InFlight
<1> QED
  BY <1>1, <1>4, <1>7, <1>8, <1>9, <1>10, <1>11 DEF Becomes, Knows

LEMMA ReadSteps ==
  ASSUME CatalogInv, NEW q \in Requests, Read(q)
  PROVE  \E y : Becomes(q, y)
BY ReadModuleSteps, ReadExistsSteps, ReadServiceSteps, ReadMenuSteps, WalkSteps,
   ReadParentSteps, ReadRouteSteps, ProbeSteps, CollectSteps, CollectModuleSteps DEF Read

-----------------------------------------------------------------------------
(* Steps and the tree *)

(* Whoever runs together with another is in crossed.                       *)
LEMMA Crossing ==
  ASSUME RequestsKnow', NEW q \in Requests, NEW x, Goto(q, x)
  PROVE  TogetherCross' /\ crossed \subseteq crossed'
<1>1. ASSUME NEW p \in Requests, NEW o \in Requests, p # o, Busy(p)', Busy(o)',
             Places(req'[p])
      PROVE  req'[p].menu \in crossed'
  <2>1. req'[p].menu \in Menus
    BY <1>1 DEF RequestsKnow, Knows, BodyFits, Places
  <2> QED
    BY <1>1, <2>1 DEF Goto
<1> QED
  BY <1>1 DEF TogetherCross, Goto

(* The more menus crossed, the less is said.                               *)
LEMMA MoreCrossed ==
  ASSUME NEW r, NEW md, NEW mn, NEW X, NEW Y, X \subseteq Y
  PROVE  /\ Climbs(r, mn, X) => Climbs(r, mn, Y)
         /\ PlacementHolds(r, md, mn, X) => PlacementHolds(r, md, mn, Y)
         /\ SubtreeCollected(r, mn, X) => SubtreeCollected(r, mn, Y)
<1>1. ASSUME NEW U, Climbed(r, U, mn, X)
      PROVE  Climbed(r, U, mn, Y)
  BY <1>1 DEF Climbed
<1>2. Climbs(r, mn, X) => Climbs(r, mn, Y)
  BY <1>1 DEF Climbs
<1>3. PlacementHolds(r, md, mn, X) => PlacementHolds(r, md, mn, Y)
  BY DEF PlacementHolds
<1>4. SubtreeCollected(r, mn, X) => SubtreeCollected(r, mn, Y)
  BY DEF SubtreeCollected
<1> QED
  BY <1>2, <1>3, <1>4

LEMMA BecomesInv ==
  ASSUME CatalogInv, NEW q \in Requests, NEW x, Becomes(q, x)
  PROVE  CatalogInv'
BY QuietStep DEF Becomes

LEMMA BecomesTree ==
  ASSUME CatalogInv, TreeInv, NEW q \in Requests, NEW x, Becomes(q, x)
  PROVE  TreeInv'
<1>1. /\ Goto(q, x) /\ FreshId(q, x) /\ Sees(x) /\ x \in Request
      /\ UNCHANGED <<module, menu, route, service>>
  BY DEF Becomes, tables
<1>2. CatalogInv' /\ RequestsKnow'
  BY BecomesInv DEF CatalogInv
<1>3. TogetherCross' /\ crossed \subseteq crossed'
  BY <1>1, <1>2, Crossing
<1>4. /\ req'[q] = x
      /\ \A o \in Requests \ {q} : req'[o] = req[o]
  BY <1>1 DEF Goto, CatalogInv, TypeOK
<1>5. NewIdsAreFresh'
  <2>1. ASSUME NEW p \in Requests, InFlight(p)', req'[p].op = "createMenu"
        PROVE  /\ menu'[req'[p].menu] = None
               /\ \A o \in Requests \ {p} : req'[o].menu # req'[p].menu
    <3>1. CASE p = q
      <4>1. CASE InFlight(q) /\ x.op = req[q].op /\ x.menu = req[q].menu
        BY <1>1, <1>4, <2>1, <3>1, <4>1 DEF TreeInv, NewIdsAreFresh
      <4>2. CASE x.op = "createMenu" /\ Unused(x.menu)
        BY <1>1, <1>4, <2>1, <3>1, <4>2 DEF Unused
      <4> QED
        BY <1>1, <1>4, <2>1, <3>1, <4>1, <4>2 DEF FreshId
    <3>2. CASE p # q
      <4>1. req'[p] = req[p] /\ InFlight(p) /\ req[p].op = "createMenu"
        BY <1>4, <2>1, <3>2 DEF InFlight
      <4>2. /\ menu[req[p].menu] = None
            /\ \A o \in Requests \ {p} : req[o].menu # req[p].menu
        BY <4>1 DEF TreeInv, NewIdsAreFresh
      <4>3. req[p].menu \in Menus
        BY <4>1, OfRequest DEF BodyFits
      <4>4. x.menu # req[p].menu
        BY <1>1, <3>2, <4>2, <4>3, SeedAssumption DEF FreshId, Unused
      <4> QED
        BY <1>1, <1>4, <4>1, <4>2, <4>4
    <3> QED
      BY <3>1, <3>2
  <2> QED
    BY <2>1 DEF NewIdsAreFresh
<1>6. RequestsKnowTheTree'
  <2>1. ASSUME NEW o \in Requests
        PROVE  /\ Climbs(req'[o], menu', crossed')
               /\ PlacementHolds(req'[o], module', menu', crossed')
               /\ SubtreeCollected(req'[o], menu', crossed')
    <3>1. PICK r : r = req'[o]
      OBVIOUS
    <3>2. /\ Climbs(r, menu, crossed)
          /\ PlacementHolds(r, module, menu, crossed)
          /\ SubtreeCollected(r, menu, crossed)
      BY <1>1, <1>4, <3>1 DEF Sees, TreeInv, RequestsKnowTheTree
    <3>3. /\ Climbs(r, menu, crossed')
          /\ PlacementHolds(r, module, menu, crossed')
          /\ SubtreeCollected(r, menu, crossed')
      BY <1>3, <3>2, MoreCrossed
    <3> QED
      BY <1>1, <3>1, <3>3
  <2> QED
    BY <2>1 DEF RequestsKnowTheTree
<1>7. CyclesNeedCrossedMoves'
  BY <1>1, <1>3 DEF TreeInv, CyclesNeedCrossedMoves, Cyclic
<1>8. OrphansNeedCrossedPlacement'
  BY <1>1, <1>3 DEF TreeInv, OrphansNeedCrossedPlacement, IsActive
<1> QED
  BY <1>3, <1>5, <1>6, <1>7, <1>8 DEF TreeInv

-----------------------------------------------------------------------------
(* The transactions *)

(* A transaction ends its request; rows it leaves are there.               *)
LEMMA WriteStep ==
  ASSUME CatalogInv, NEW q \in Requests, req[q].pc = "write", To(q, "done"), Grown
  PROVE  /\ req' \in [Requests -> Request] /\ crossed' \subseteq Menus /\ RequestsKnow'
         /\ \E x \in Request : Goto(q, x) /\ Moved(x, req[q], "done")
<1>1. req[q] \in Request /\ "done" \in Pcs
  BY OfRequest DEF Pcs
<1>2. /\ [req[q] EXCEPT !.pc = "done"] \in Request
      /\ Moved([req[q] EXCEPT !.pc = "done"], req[q], "done")
  BY <1>1, PcMoves
<1>3. PICK x : x = [req[q] EXCEPT !.pc = "done"]
  OBVIOUS
<1>4. x \in Request /\ Moved(x, req[q], "done") /\ Goto(q, x)
  BY <1>2, <1>3 DEF To
<1>5. Knows(x, module', menu', route', service')
  BY <1>4, DoneStep, KnowsMore
<1> QED
  BY <1>4, <1>5, RequestStep DEF CatalogInv

(* The inductive invariant after one.                                      *)
LEMMA Written ==
  ASSUME CatalogInv, NEW q \in Requests, req[q].pc = "write", To(q, "done"), Grown,
         RowsTyped', MenusLead', RoutesLead', ImplicitServicesFollow'
  PROVE  CatalogInv'
BY WriteStep DEF CatalogInv, TypeOK

(* Null is no row.                                                         *)
LEMMA RowsAreThere ==
  /\ None \notin Module /\ None \notin Menu /\ None \notin Route /\ None \notin Service
  /\ None \notin Menus /\ None \notin Modules /\ None \notin Services
  /\ Services \cap Menus = {}
BY SeedAssumption

(* What happens to routes and to services, the menus being there.          *)
RoutesGo ==
  /\ route' \in [Menus -> Route \cup {None}]
  /\ service' \in [Services \cup Menus -> Service \cup {None}]
  /\ RoutesLead' /\ ImplicitServicesFollow'
  /\ \A n \in Menus : route[n] # None => route'[n] # None
  /\ \A s \in Services \cup Menus : service[s] # None => service'[s] # None

LEMMA DetachInv ==
  ASSUME CatalogInv, NEW S \in SUBSET Menus, Detach(S),
         \A n \in Menus : menu[n] # None => menu'[n] # None
  PROVE  RoutesGo
<1> DEFINE gone == {n \in S : route[n] # None}
<1>1. /\ route' = [n \in Menus |->
            IF n \in gone THEN [route[n] EXCEPT !.active = FALSE, !.path = Retired]
                          ELSE route[n]]
      /\ service' = [s \in Services \cup Menus |->
            IF s \in gone /\ route[s].service = s
              THEN [service[s] EXCEPT !.active = FALSE] ELSE service[s]]
  BY DEF Detach
<1>2. /\ gone \subseteq Menus
      /\ \A n \in gone : route[n] # None /\ route[n] \in Route
      /\ route \in [Menus -> Route \cup {None}]
      /\ service \in [Services \cup Menus -> Service \cup {None}]
  BY DEF CatalogInv, TypeOK, RowsTyped
<1> HIDE DEF gone
<1>3. /\ \A n \in Menus : n \notin gone => route'[n] = route[n]
      /\ \A n \in gone :
           /\ route'[n] \in Route /\ route'[n].service = route[n].service
           /\ route'[n].path = Retired /\ ~route'[n].active
  BY <1>1, <1>2 DEF Route
<1>4. /\ route' \in [Menus -> Route \cup {None}]
      /\ \A n \in Menus : route[n] # None => route'[n] # None
  BY <1>1, <1>2, <1>3, RowsAreThere
<1>5. ASSUME NEW n \in gone, route[n].service = n
      PROVE  service[n] \in Service
  BY <1>2, <1>5 DEF CatalogInv, TypeOK, RoutesLead
<1>6. \A s \in Services \cup Menus :
        \/ service'[s] = service[s]
        \/ s \in gone /\ route[s].service = s /\ service'[s] \in Service
  BY <1>1, <1>5 DEF Service
<1>7. /\ service' \in [Services \cup Menus -> Service \cup {None}]
      /\ \A s \in Services \cup Menus : service[s] # None => service'[s] # None
  BY <1>1, <1>2, <1>6, RowsAreThere, ZenonT(60)
<1>8. RoutesLead'
  <2>1. ASSUME NEW n \in Menus, route'[n] # None
        PROVE  /\ menu'[n] # None /\ service'[route'[n].service] # None
               /\ \A x \in Menus \ {n} :
                    route'[x] # None /\ route'[x].path = route'[n].path
                    => route'[n].path = Retired
    <3>1. /\ route[n] # None /\ route'[n].service = route[n].service
          /\ route[n].service \in Services \cup Menus
      BY <1>2, <1>3, <2>1 DEF Route
    <3>2. menu'[n] # None /\ service'[route'[n].service] # None
      BY <1>7, <3>1 DEF CatalogInv, TypeOK, RoutesLead
    <3>3. ASSUME NEW x \in Menus \ {n}, route'[x] # None, route'[x].path = route'[n].path
          PROVE  route'[n].path = Retired
      BY <1>2, <1>3, <2>1, <3>1, <3>3 DEF CatalogInv, TypeOK, RoutesLead
    <3> QED
      BY <3>2, <3>3
  <2> QED
    BY <2>1 DEF RoutesLead
<1>9. ImplicitServicesFollow'
  BY <1>3, <1>6 DEF CatalogInv, ImplicitServicesFollow, IsActive
<1> QED
  BY <1>4, <1>7, <1>8, <1>9 DEF RoutesGo

(* Other routes give up the path of one that gets it.                      *)
LEMMA FreedPath ==
  ASSUME CatalogInv, NEW n \in Menus, NEW p \in Paths, ~InUse(p, n)
  PROVE  /\ Freed(p, n) \in [Menus -> Route \cup {None}]
         /\ \A x \in Menus \ {n} :
              IF route[x] # None /\ route[x].path = p
                THEN /\ Freed(p, n)[x] \in Route /\ Freed(p, n)[x].path = Retired
                     /\ Freed(p, n)[x].service = route[x].service /\ ~Freed(p, n)[x].active
                ELSE Freed(p, n)[x] = route[x]
<1>1. route \in [Menus -> Route \cup {None}]
  BY DEF CatalogInv, TypeOK, RowsTyped
<1>2. \A x \in Menus \ {n} : route[x] # None /\ route[x].path = p => ~route[x].active
  BY DEF InUse, IsActive
<1> QED
  BY <1>1, <1>2 DEF Freed, Route

(* A menu gets a route under a path that no ACTIVE route has.              *)
LEMMA Routed ==
  ASSUME CatalogInv, NEW n \in Menus, NEW p \in Paths, NEW s \in Services \cup Menus,
         ~InUse(p, n), route' = [Freed(p, n) EXCEPT ![n] = RouteTo(s, p)],
         service' \in [Services \cup Menus -> Service \cup {None}],
         \A x \in Services \cup Menus : x # n => service'[x] = service[x],
         service[n] # None => service'[n] # None, service'[s] # None,
         s = n => IsActive(service', n),
         menu'[n] # None, \A x \in Menus : menu[x] # None => menu'[x] # None
  PROVE  RoutesGo
<1>1. /\ route \in [Menus -> Route \cup {None}] /\ RoutesLead
      /\ service \in [Services \cup Menus -> Service \cup {None}]
  BY DEF CatalogInv, TypeOK, RowsTyped
<1>2. /\ route'[n] \in Route /\ route'[n].service = s /\ route'[n].path = p
      /\ route' \in [Menus -> Route \cup {None}]
      /\ \A x \in Menus \ {n} : route'[x] = Freed(p, n)[x]
  BY FreedPath DEF RouteTo, Route
<1>3. \A x \in Menus \ {n} :
        IF route[x] # None /\ route[x].path = p
          THEN /\ route'[x] \in Route /\ route'[x].path = Retired
               /\ route'[x].service = route[x].service /\ ~route'[x].active
          ELSE route'[x] = route[x]
  BY <1>2, FreedPath
<1>4. \A x \in Menus : route[x] # None => route'[x] # None
  BY <1>2, <1>3, RowsAreThere
<1>5. \A x \in Services \cup Menus : service[x] # None => service'[x] # None
  OBVIOUS
<1>6. ASSUME NEW x \in Menus, route'[x] # None
      PROVE  /\ menu'[x] # None /\ service'[route'[x].service] # None
             /\ \A y \in Menus \ {x} :
                  route'[y] # None /\ route'[y].path = route'[x].path
                  => route'[x].path = Retired
  <2>1. CASE x = n
    BY <1>2, <1>3, <2>1
  <2>2. CASE x # n
    <3>1. /\ route[x] # None /\ route'[x].service = route[x].service
          /\ route[x].service \in Services \cup Menus
      BY <1>1, <1>3, <1>6, <2>2 DEF Route
    <3>2. menu'[x] # None /\ service'[route'[x].service] # None
      BY <1>1, <1>5, <3>1 DEF RoutesLead
    <3>3. ASSUME NEW y \in Menus \ {x}, route'[y] # None, route'[y].path = route'[x].path
          PROVE  route'[x].path = Retired
      <4>1. CASE y = n
        BY <1>2, <1>3, <2>2, <3>1, <3>3, <4>1
      <4>2. CASE y # n
        BY <1>1, <1>3, <2>2, <3>1, <3>3, <4>2 DEF RoutesLead
      <4> QED
        BY <4>1, <4>2
    <3> QED
      BY <3>2, <3>3
  <2> QED
    BY <2>1, <2>2
<1>7. ImplicitServicesFollow'
  BY <1>2, <1>3 DEF CatalogInv, ImplicitServicesFollow, IsActive
<1> QED
  BY <1>2, <1>4, <1>5, <1>6, <1>7 DEF RoutesGo, RoutesLead

LEMMA AttachInv ==
  ASSUME CatalogInv, NEW n \in Menus, NEW p \in Paths, ~InUse(p, n), Attach(n, p),
         menu'[n] # None, \A x \in Menus : menu[x] # None => menu'[x] # None
  PROVE  RoutesGo
<1>1. service \in [Services \cup Menus -> Service \cup {None}]
  BY DEF CatalogInv, TypeOK, RowsTyped
<1>2. [active |-> TRUE, module |-> None] \in Service
  BY DEF Service
<1>3. /\ service' \in [Services \cup Menus -> Service \cup {None}]
      /\ \A x \in Services \cup Menus : x # n => service'[x] = service[x]
      /\ service'[n] # None /\ IsActive(service', n)
  BY <1>1, <1>2, RowsAreThere DEF Attach, IsActive
<1>4. route' = [Freed(p, n) EXCEPT ![n] = RouteTo(n, p)]
  BY DEF Attach
<1> QED
  BY <1>3, <1>4, Routed

LEMMA ReattachInv ==
  ASSUME CatalogInv, NEW n \in Menus, NEW p \in Paths, ~InUse(p, n), Reattach(n, p),
         route[n] # None,
         menu'[n] # None, \A x \in Menus : menu[x] # None => menu'[x] # None
  PROVE  RoutesGo
<1>1. /\ service \in [Services \cup Menus -> Service \cup {None}]
      /\ route[n].service \in Services \cup Menus /\ service[route[n].service] # None
  BY DEF CatalogInv, TypeOK, RowsTyped, RoutesLead, Route
<1>2. service' = [service EXCEPT ![n] =
        IF route[n].service = n THEN [service[n] EXCEPT !.active = TRUE] ELSE service[n]]
  BY DEF Reattach
<1>3. route[n].service = n =>
        /\ [service[n] EXCEPT !.active = TRUE] \in Service
        /\ [service[n] EXCEPT !.active = TRUE].active
  BY <1>1 DEF Service
<1>4. /\ service' \in [Services \cup Menus -> Service \cup {None}]
      /\ \A x \in Services \cup Menus : x # n => service'[x] = service[x]
      /\ service[n] # None => service'[n] # None
      /\ route[n].service = n => IsActive(service', n)
  BY <1>1, <1>2, <1>3, RowsAreThere DEF IsActive
<1>5. service'[route[n].service] # None
  BY <1>1, <1>4
<1>6. route' = [Freed(p, n) EXCEPT ![n] = RouteTo(route[n].service, p)]
  BY DEF Reattach
<1> QED
  BY <1>1, <1>4, <1>5, <1>6, Routed

\* What a transaction has done to the rows; the requests go with it.
RowsGo == Grown /\ RowsTyped' /\ MenusLead' /\ RoutesLead' /\ ImplicitServicesFollow'

LEMMA CreateModuleRows ==
  ASSUME CatalogInv, NEW q \in Requests, CreateModule(q)
  PROVE  RowsGo
<1> DEFINE r == req[q]
<1>1. PICK m \in Modules :
        /\ module[m] = None
        /\ module' = IF CodeFree(r.code, m)
             THEN [module EXCEPT ![m] = [code |-> r.code, active |-> TRUE]] ELSE module
  BY DEF CreateModule
<1>2. r.pc = "write" /\ r.op = "createModule" /\ UNCHANGED <<menu, route, service>>
  BY DEF CreateModule, Writing
<1>3. r.code \in Codes /\ RowsTyped /\ MenusLead
  BY <1>2, OfRequest DEF BodyFits, CatalogInv, TypeOK
<1>4. [code |-> r.code, active |-> TRUE] \in Module
  BY <1>3 DEF Module
<1>5. /\ module' \in [Modules -> Module \cup {None}]
      /\ \A x \in Modules : module[x] # None => module'[x] # None
  BY <1>1, <1>3, <1>4, RowsAreThere DEF RowsTyped
<1>6. Grown /\ RowsTyped'
  BY <1>2, <1>3, <1>5 DEF Grown, RowsTyped
<1>7. MenusLead'
  BY <1>2, <1>3, <1>5 DEF MenusLead, RowsTyped, Menu
<1> QED
  BY <1>2, <1>6, <1>7 DEF RowsGo, CatalogInv, TypeOK, RoutesLead, ImplicitServicesFollow, IsActive

LEMMA UpdateModuleRows ==
  ASSUME CatalogInv, NEW q \in Requests, UpdateModule(q)
  PROVE  RowsGo
<1> DEFINE r == req[q]
           m == r.into
<1>1. /\ r.pc = "write" /\ r.op = "updateModule" /\ UNCHANGED <<menu, route, service>>
      /\ module' = IF CodeFree(r.code, m)
           THEN [module EXCEPT ![m] = [module[m] EXCEPT !.code = r.code]] ELSE module
  BY DEF UpdateModule, Writing
<1>2. /\ r.code \in Codes /\ m \in Modules /\ module[m] # None
      /\ RowsTyped /\ MenusLead
  BY <1>1, OfRequest DEF BodyFits, RowsRead, CatalogInv, TypeOK
<1>3. [module[m] EXCEPT !.code = r.code] \in Module
  BY <1>2 DEF Module, RowsTyped
<1>4. /\ module' \in [Modules -> Module \cup {None}]
      /\ \A x \in Modules : module[x] # None => module'[x] # None
  BY <1>1, <1>2, <1>3, RowsAreThere DEF RowsTyped
<1>5. Grown /\ RowsTyped'
  BY <1>1, <1>2, <1>4 DEF Grown, RowsTyped
<1>6. MenusLead'
  BY <1>1, <1>2, <1>4 DEF MenusLead, RowsTyped, Menu
<1> QED
  BY <1>1, <1>5, <1>6 DEF RowsGo, CatalogInv, TypeOK, RoutesLead, ImplicitServicesFollow, IsActive

(* Menus that become INACTIVE.                                             *)
LEMMA Inactivated ==
  ASSUME CatalogInv, NEW S,
         menu' = [n \in Menus |-> IF n \in S THEN [menu[n] EXCEPT !.active = FALSE]
                                             ELSE menu[n]],
         \A n \in Menus : n \in S => menu[n] # None
  PROVE  /\ menu' \in [Menus -> Menu \cup {None}]
         /\ \A n \in Menus :
              IF n \in S
                THEN /\ menu'[n] \in Menu /\ ~menu'[n].active
                     /\ menu'[n].module = menu[n].module /\ menu'[n].parent = menu[n].parent
                     /\ menu'[n].url = menu[n].url
                ELSE menu'[n] = menu[n]
<1>1. menu \in [Menus -> Menu \cup {None}]
  BY DEF CatalogInv, TypeOK, RowsTyped
<1>2. \A n \in Menus : n \in S => menu[n] \in Menu
  BY <1>1
<1> QED
  BY <1>1, <1>2 DEF Menu

LEMMA RemoveModuleRows ==
  ASSUME CatalogInv, NEW q \in Requests, RemoveModule(q)
  PROVE  RowsGo
<1> DEFINE r == req[q]
           m == r.into
           inside == {n \in Menus : IsActive(menu, n) /\ menu[n].module = m}
           listed == {n \in Menus : n \in r.ids /\ route[n] # None}
<1>1. /\ r.pc = "write" /\ r.op = "removeModule" /\ UNCHANGED service
      /\ module' = [module EXCEPT ![m] = [module[m] EXCEPT !.active = FALSE]]
      /\ menu' = [n \in Menus |-> IF n \in inside THEN [menu[n] EXCEPT !.active = FALSE]
                                                  ELSE menu[n]]
      /\ route' = [n \in Menus |-> IF n \in listed THEN [route[n] EXCEPT !.active = FALSE]
                                                   ELSE route[n]]
  BY DEF RemoveModule, Writing
<1>2. /\ m \in Modules /\ module[m] # None /\ RowsTyped /\ MenusLead /\ RoutesLead
      /\ ImplicitServicesFollow
  BY <1>1, OfRequest DEF BodyFits, RowsRead, CatalogInv, TypeOK
<1>3. [module[m] EXCEPT !.active = FALSE] \in Module
  BY <1>2 DEF Module, RowsTyped
<1>4. /\ module' \in [Modules -> Module \cup {None}]
      /\ \A x \in Modules : module[x] # None => module'[x] # None
  BY <1>1, <1>2, <1>3, RowsAreThere DEF RowsTyped
<1>5. \A n \in Menus : n \in inside => menu[n] # None
  BY DEF IsActive
<1>6. \A n \in Menus : n \in listed => route[n] # None
  OBVIOUS
<1> HIDE DEF inside, listed
<1>7. /\ menu' \in [Menus -> Menu \cup {None}]
      /\ \A n \in Menus :
           IF n \in inside
             THEN /\ menu'[n] \in Menu /\ ~menu'[n].active
                  /\ menu'[n].module = menu[n].module /\ menu'[n].parent = menu[n].parent
                  /\ menu'[n].url = menu[n].url
             ELSE menu'[n] = menu[n]
  BY <1>1, <1>5, Inactivated
<1>8. \A n \in Menus :
        IF n \in listed
          THEN /\ route'[n] \in Route /\ ~route'[n].active
               /\ route'[n].service = route[n].service /\ route'[n].path = route[n].path
          ELSE route'[n] = route[n]
  BY <1>1, <1>2, <1>6 DEF RowsTyped, Route
<1>9. route' \in [Menus -> Route \cup {None}]
  BY <1>1, <1>2, <1>8 DEF RowsTyped
<1>10. /\ \A n \in Menus : menu[n] # None <=> menu'[n] # None
       /\ \A n \in Menus : route[n] # None <=> route'[n] # None
  BY <1>5, <1>6, <1>7, <1>8, RowsAreThere
<1>11. Grown /\ RowsTyped'
  BY <1>1, <1>2, <1>4, <1>7, <1>9, <1>10 DEF Grown, RowsTyped
<1>12. MenusLead'
  BY <1>2, <1>4, <1>7, <1>10 DEF MenusLead, RowsTyped, Menu
<1>13. RoutesLead'
  BY <1>1, <1>2, <1>8, <1>10 DEF RoutesLead
<1>14. ImplicitServicesFollow'
  BY <1>1, <1>2, <1>8 DEF ImplicitServicesFollow, IsActive
<1> QED
  BY <1>11, <1>12, <1>13, <1>14 DEF RowsGo

(* Menus and routes that were written, modules being left alone.           *)
LEMMA MenusWritten ==
  ASSUME CatalogInv, module' = module, menu' \in [Menus -> Menu \cup {None}],
         \A n \in Menus : menu[n] # None => menu'[n] # None,
         \A n \in Menus : menu'[n] # None =>
           /\ module[menu'[n].module] # None
           /\ menu'[n].parent # None => menu'[menu'[n].parent] # None,
         RoutesGo
  PROVE  RowsGo
BY DEF RowsGo, RoutesGo, Grown, RowsTyped, MenusLead, CatalogInv, TypeOK

(* Routes and services that stay as they are.                              *)
LEMMA RoutesStay ==
  ASSUME CatalogInv, UNCHANGED <<route, service>>,
         \A n \in Menus : menu[n] # None => menu'[n] # None
  PROVE  RoutesGo
BY DEF RoutesGo, CatalogInv, TypeOK, RowsTyped, RoutesLead, ImplicitServicesFollow, IsActive

LEMMA RowsStay ==
  ASSUME CatalogInv, UNCHANGED tables
  PROVE  RowsGo
BY DEF tables, RowsGo, Grown, CatalogInv, TypeOK, RowsTyped, MenusLead, RoutesLead,
       ImplicitServicesFollow, IsActive

LEMMA CreateMenuRows ==
  ASSUME CatalogInv, NEW q \in Requests, CreateMenu(q)
  PROVE  RowsGo
<1> DEFINE r == req[q]
           n == r.menu
           row == [module |-> r.module, parent |-> r.parent, url |-> r.url, active |-> TRUE]
<1>1. /\ r.pc = "write" /\ r.op = "createMenu"
      /\ \/ UNCHANGED tables
         \/ /\ ~(r.target = "set" /\ InUse(r.path, n))
            /\ menu' = [menu EXCEPT ![n] = row] /\ UNCHANGED module
            /\ IF r.target = "set" THEN Attach(n, r.path) ELSE UNCHANGED <<route, service>>
  BY DEF CreateMenu, Writing
<1>2. CASE UNCHANGED tables
  BY <1>2, RowsStay
<1>3. CASE /\ ~(r.target = "set" /\ InUse(r.path, n))
           /\ menu' = [menu EXCEPT ![n] = row] /\ UNCHANGED module
           /\ IF r.target = "set" THEN Attach(n, r.path) ELSE UNCHANGED <<route, service>>
  <2>1. /\ r \in Request /\ n \in Menus /\ r.module \in Modules /\ module[r.module] # None
        /\ r.parent \in Menus \cup {None} /\ r.url \in Paths \cup {None}
        /\ r.parent # None => menu[r.parent] # None
        /\ r.target = "set" => r.path \in Paths
    BY <1>1, OfRequest, Fields DEF BodyFits, RowsRead, InModule, UnderParent
  <2>2. row \in Menu
    BY <2>1 DEF Menu
  <2>3. RowsTyped /\ MenusLead
    BY DEF CatalogInv, TypeOK
  <2>4. /\ menu' \in [Menus -> Menu \cup {None}] /\ menu'[n] # None
        /\ menu'[n].module = r.module /\ menu'[n].parent = r.parent
        /\ \A x \in Menus : x # n => menu'[x] = menu[x]
    BY <1>3, <2>1, <2>2, <2>3, RowsAreThere DEF RowsTyped
  <2>5. \A x \in Menus : menu[x] # None => menu'[x] # None
    BY <2>4
  <2>6. \A x \in Menus : menu'[x] # None =>
          /\ module[menu'[x].module] # None
          /\ menu'[x].parent # None => menu'[menu'[x].parent] # None
    <3>1. ASSUME NEW x \in Menus, menu'[x] # None, x # n
          PROVE  /\ module[menu'[x].module] # None
                 /\ menu'[x].parent # None => menu'[menu'[x].parent] # None
      BY <2>3, <2>4, <2>5, <3>1 DEF MenusLead, RowsTyped, Menu
    <3>2. /\ module[menu'[n].module] # None
          /\ menu'[n].parent # None => menu'[menu'[n].parent] # None
      BY <2>1, <2>4, <2>5
    <3> QED
      BY <3>1, <3>2
  <2>7. RoutesGo
    BY <1>3, <2>1, <2>4, <2>5, AttachInv, RoutesStay
  <2> QED
    BY <1>3, <2>4, <2>5, <2>6, <2>7, MenusWritten
<1> QED
  BY <1>1, <1>2, <1>3

LEMMA UpdateMenuRows ==
  ASSUME CatalogInv, NEW q \in Requests, UpdateMenu(q)
  PROVE  RowsGo
<1> DEFINE r == req[q]
           n == r.menu
           sets == r.target = "set"
           row == [module |-> Given(r.module, menu[n].module),
                   parent |-> Left(r.parent, "parent" \in r.nulls, menu[n].parent),
                   url |-> Left(r.url, "url" \in r.nulls, menu[n].url),
                   active |-> menu[n].active]
           routed == CASE r.target = "clear" /\ r.had -> Detach({n})
                       [] sets /\ r.had -> Reattach(n, r.path)
                       [] sets /\ ~r.had -> Attach(n, r.path)
                       [] OTHER -> UNCHANGED <<route, service>>
<1>1. /\ r.pc = "write" /\ r.op = "updateMenu"
      /\ \/ UNCHANGED tables
         \/ /\ ~(sets /\ InUse(r.path, n))
            /\ menu' = [menu EXCEPT ![n] = row] /\ UNCHANGED module /\ routed
  BY DEF UpdateMenu, Writing
<1>2. CASE UNCHANGED tables
  BY <1>2, RowsStay
<1>3. CASE /\ ~(sets /\ InUse(r.path, n))
           /\ menu' = [menu EXCEPT ![n] = row] /\ UNCHANGED module /\ routed
  <2>1. /\ r \in Request /\ n \in Menus /\ menu[n] # None
        /\ r.module # None => r.module \in Modules /\ module[r.module] # None
        /\ r.parent \in Menus \cup {None} /\ r.url \in Paths \cup {None}
        /\ r.module \in Modules \cup {None}
        /\ r.parent # None => menu[r.parent] # None
        /\ sets => r.path \in Paths
        /\ r.had => route[n] # None
    BY <1>1, OfRequest, Fields, SMTT(60) DEF BodyFits, RowsRead, InModule, UnderParent
  <2>2. RowsTyped /\ MenusLead
    BY DEF CatalogInv, TypeOK
  <2>3. menu[n] \in Menu
    BY <2>1, <2>2 DEF RowsTyped
  <2>4. /\ row \in Menu /\ module[row.module] # None
        /\ row.parent # None => menu[row.parent] # None
    BY <2>1, <2>2, <2>3 DEF Menu, Given, Left, MenusLead
  <2>5. row.parent \in Menus \cup {None}
    BY <2>4 DEF Menu
  <2> HIDE DEF row
  <2>6. /\ menu' \in [Menus -> Menu \cup {None}] /\ menu'[n] = row /\ row # None
        /\ \A x \in Menus : x # n => menu'[x] = menu[x]
    BY <1>3, <2>1, <2>2, <2>4, RowsAreThere DEF RowsTyped
  <2>7. \A x \in Menus : menu[x] # None => menu'[x] # None
    BY <2>6
  <2>8. \A x \in Menus : menu'[x] # None =>
          /\ module[menu'[x].module] # None
          /\ menu'[x].parent # None => menu'[menu'[x].parent] # None
    <3>1. ASSUME NEW x \in Menus, menu'[x] # None, x # n
          PROVE  /\ module[menu'[x].module] # None
                 /\ menu'[x].parent # None => menu'[menu'[x].parent] # None
      BY <2>2, <2>6, <2>7, <3>1 DEF MenusLead, RowsTyped, Menu
    <3>2. /\ module[menu'[n].module] # None
          /\ menu'[n].parent # None => menu'[menu'[n].parent] # None
      BY <2>4, <2>5, <2>6, <2>7
    <3> QED
      BY <3>1, <3>2
  <2>9. RoutesGo
    <3>1. CASE r.target = "clear" /\ r.had
      <4>1. Detach({n})
        BY <1>3, <3>1
      <4> QED
        BY <2>1, <2>7, <4>1, DetachInv
    <3>2. CASE sets /\ r.had
      <4>1. Reattach(n, r.path)
        BY <1>3, <3>2
      <4> QED
        BY <1>3, <2>1, <2>6, <2>7, <3>2, <4>1, ReattachInv
    <3>3. CASE sets /\ ~r.had
      <4>1. Attach(n, r.path)
        BY <1>3, <3>3
      <4> QED
        BY <1>3, <2>1, <2>6, <2>7, <3>3, <4>1, AttachInv
    <3>4. CASE ~sets /\ ~(r.target = "clear" /\ r.had)
      <4>1. UNCHANGED <<route, service>>
        BY <1>3, <3>4
      <4> QED
        BY <2>7, <4>1, RoutesStay
    <3> QED
      BY <3>1, <3>2, <3>3, <3>4
  <2> QED
    BY <1>3, <2>6, <2>7, <2>8, <2>9, MenusWritten
<1> QED
  BY <1>1, <1>2, <1>3

LEMMA RemoveMenuRows ==
  ASSUME CatalogInv, NEW q \in Requests, RemoveMenu(q)
  PROVE  RowsGo
<1> DEFINE r == req[q]
<1>1. /\ r.pc = "write" /\ UNCHANGED module /\ Detach({n \in r.ids : IsActive(route, n)})
      /\ menu' = [n \in Menus |-> IF n \in r.ids THEN [menu[n] EXCEPT !.active = FALSE]
                                                 ELSE menu[n]]
  BY DEF RemoveMenu, Writing
<1>2. /\ r.ids \in SUBSET Menus /\ \A n \in r.ids : menu[n] # None
      /\ RowsTyped /\ MenusLead
  BY OfRequest, Fields DEF RowsRead, CatalogInv, TypeOK
<1> DEFINE S == r.ids
<1>3. /\ menu' \in [Menus -> Menu \cup {None}]
      /\ \A n \in Menus :
           IF n \in S
             THEN /\ menu'[n] \in Menu /\ ~menu'[n].active
                  /\ menu'[n].module = menu[n].module /\ menu'[n].parent = menu[n].parent
                  /\ menu'[n].url = menu[n].url
             ELSE menu'[n] = menu[n]
  <2>1. \A n \in Menus : n \in S => menu[n] # None
    BY <1>2
  <2>2. menu' = [n \in Menus |-> IF n \in S THEN [menu[n] EXCEPT !.active = FALSE]
                                             ELSE menu[n]]
    BY <1>1
  <2> HIDE DEF S
  <2> QED
    BY <2>1, <2>2, Inactivated
<1>4. \A n \in Menus : menu[n] # None <=> menu'[n] # None
  BY <1>2, <1>3, RowsAreThere
<1>5. \A n \in Menus : menu'[n] # None =>
        /\ module[menu'[n].module] # None
        /\ menu'[n].parent # None => menu'[menu'[n].parent] # None
  BY <1>2, <1>3, <1>4 DEF MenusLead, RowsTyped, Menu
<1>6. RoutesGo
  <2>1. {n \in r.ids : IsActive(route, n)} \in SUBSET Menus
    BY <1>2
  <2> QED
    BY <1>1, <1>4, <2>1, DetachInv
<1> QED
  BY <1>1, <1>3, <1>4, <1>5, <1>6, MenusWritten

(* Registered services are written, and nothing else is.                   *)
LEMMA ServicesWritten ==
  ASSUME CatalogInv, UNCHANGED <<module, menu, route>>, NEW s \in Services, NEW row \in Service,
         service' = [service EXCEPT ![s] = row]
  PROVE  RowsGo
<1>1. service \in [Services \cup Menus -> Service \cup {None}]
  BY DEF CatalogInv, TypeOK, RowsTyped
<1>2. /\ service' \in [Services \cup Menus -> Service \cup {None}] /\ service'[s] # None
      /\ \A x \in Services \cup Menus : x # s => service'[x] = service[x]
      /\ \A x \in Menus : service'[x] = service[x]
  BY <1>1, RowsAreThere
<1>3. Grown /\ RowsTyped' /\ MenusLead'
  BY <1>2 DEF Grown, CatalogInv, TypeOK, RowsTyped, MenusLead
<1>4. RoutesLead'
  BY <1>2 DEF CatalogInv, TypeOK, RowsTyped, RoutesLead, Route
<1>5. ImplicitServicesFollow'
  BY <1>2 DEF CatalogInv, ImplicitServicesFollow, IsActive
<1> QED
  BY <1>3, <1>4, <1>5 DEF RowsGo

LEMMA CreateServiceRows ==
  ASSUME CatalogInv, NEW q \in Requests, CreateService(q)
  PROVE  RowsGo
<1> DEFINE s == req[q].service
           row == IF service[s] = None THEN [active |-> TRUE, module |-> None] ELSE service[s]
<1>1. /\ req[q].pc = "write" /\ req[q].op = "createService"
      /\ UNCHANGED <<module, menu, route>> /\ service' = [service EXCEPT ![s] = row]
  BY DEF CreateService, Writing
<1>2. s \in Services /\ service \in [Services \cup Menus -> Service \cup {None}]
  BY <1>1, OfRequest DEF BodyFits, CatalogInv, TypeOK, RowsTyped
<1>3. row \in Service
  BY <1>2 DEF Service
<1> QED
  BY <1>1, <1>2, <1>3, ServicesWritten

LEMMA RemoveServiceRows ==
  ASSUME CatalogInv, NEW q \in Requests, RemoveService(q)
  PROVE  RowsGo
<1> DEFINE s == req[q].service
           row == [service[s] EXCEPT !.active = FALSE]
<1>1. /\ req[q].pc = "write" /\ req[q].op = "removeService"
      /\ UNCHANGED <<module, menu, route>> /\ service' = [service EXCEPT ![s] = row]
  BY DEF RemoveService, Writing
<1>2. /\ s \in Services /\ service[s] # None
      /\ service \in [Services \cup Menus -> Service \cup {None}]
  BY <1>1, OfRequest DEF BodyFits, RowsRead, CatalogInv, TypeOK, RowsTyped
<1>3. row \in Service
  BY <1>2 DEF Service
<1> QED
  BY <1>1, <1>2, <1>3, ServicesWritten


LEMMA ProvisionRows ==
  ASSUME CatalogInv, NEW q \in Requests, Provision(q)
  PROVE  RowsGo
<1> DEFINE r == req[q]
           s == r.service
<1>1. /\ r.pc = "write" /\ r.op = "provision"
      /\ \/ UNCHANGED tables
         \/ ~PathTaken(r.path) /\ Generate(q)
  BY DEF Provision, Writing
<1>2. CASE UNCHANGED tables
  BY <1>2, RowsStay
<1>3. CASE ~PathTaken(r.path) /\ Generate(q)
  <2> DEFINE row(m, p, u) == [module |-> m, parent |-> p, url |-> u, active |-> TRUE]
  <2>1. PICK m \in Modules, root \in Menus, leaf \in Menus :
          /\ module[m] = None
          /\ root # leaf /\ Unused(root) /\ Unused(leaf)
          /\ module' = [module EXCEPT ![m] = [code |-> r.code, active |-> TRUE]]
          /\ menu' = [menu EXCEPT ![root] = row(m, None, None),
                                  ![leaf] = row(m, root, r.path)]
          /\ route' = [route EXCEPT ![leaf] = RouteTo(s, r.path)]
          /\ service' = [service EXCEPT ![s] = [service[s] EXCEPT !.module = m]]
    BY <1>3 DEF Generate
  <2>2. /\ s \in Services /\ service[s] # None /\ r.code \in Codes /\ r.path \in Paths
        /\ RowsTyped /\ MenusLead /\ RoutesLead /\ ImplicitServicesFollow
    BY <1>1, OfRequest DEF BodyFits, RowsRead, CatalogInv, TypeOK
  <2>3. menu[root] = None /\ menu[leaf] = None /\ route[leaf] = None
    BY <2>1, <2>2 DEF Unused, RoutesLead
  <2>4. /\ [code |-> r.code, active |-> TRUE] \in Module
        /\ row(m, None, None) \in Menu /\ row(m, root, r.path) \in Menu
        /\ RouteTo(s, r.path) \in Route
        /\ [service[s] EXCEPT !.module = m] \in Service
    BY <2>1, <2>2 DEF Module, Menu, Route, Service, RouteTo, RowsTyped
  <2>5. /\ module' \in [Modules -> Module \cup {None}] /\ module'[m] # None
        /\ \A x \in Modules : module[x] # None => module'[x] # None
    BY <2>1, <2>2, <2>4, RowsAreThere DEF RowsTyped
  <2>6. /\ menu' \in [Menus -> Menu \cup {None}] /\ menu'[root] # None /\ menu'[leaf] # None
        /\ menu'[root].module = m /\ menu'[root].parent = None
        /\ menu'[leaf].module = m /\ menu'[leaf].parent = root
        /\ \A x \in Menus : x \notin {root, leaf} => menu'[x] = menu[x]
    <3>1. menu'[root] = row(m, None, None) /\ menu'[leaf] = row(m, root, r.path)
      BY <2>1, <2>2 DEF RowsTyped
    <3>2. /\ \A x \in Menus : x \notin {root, leaf} => menu'[x] = menu[x]
          /\ DOMAIN menu' = Menus /\ menu' = [x \in Menus |-> menu'[x]]
      BY <2>1, <2>2 DEF RowsTyped
    <3>4. /\ row(m, None, None).module = m /\ row(m, None, None).parent = None
          /\ row(m, root, r.path).module = m /\ row(m, root, r.path).parent = root
      OBVIOUS
    <3> HIDE DEF row
    <3>3. menu' \in [Menus -> Menu \cup {None}]
      BY <2>2, <2>4, <3>1, <3>2 DEF RowsTyped
    <3> QED
      BY <2>4, <3>1, <3>2, <3>3, <3>4, RowsAreThere
  <2>7. \A x \in Menus : menu[x] # None => menu'[x] # None
    BY <2>3, <2>6
  <2>8. /\ route' \in [Menus -> Route \cup {None}] /\ route'[leaf] # None
        /\ route'[leaf].service = s /\ route'[leaf].path = r.path
        /\ \A x \in Menus \ {leaf} : route'[x] = route[x]
    BY <2>1, <2>2, <2>4, RowsAreThere DEF RowsTyped, RouteTo
  <2>9. /\ service' \in [Services \cup Menus -> Service \cup {None}] /\ service'[s] # None
        /\ \A x \in Services \cup Menus : x # s => service'[x] = service[x]
        /\ \A x \in Menus : service'[x] = service[x]
    BY <2>1, <2>2, <2>4, RowsAreThere DEF RowsTyped
  <2>10. Grown
    BY <2>3, <2>5, <2>7, <2>8, <2>9 DEF Grown
  <2>11. RowsTyped'
    BY <2>5, <2>6, <2>8, <2>9 DEF RowsTyped
  <2>12. MenusLead'
    <3>1. ASSUME NEW x \in Menus, menu[x] # None, x \notin {root, leaf}
          PROVE  /\ module'[menu'[x].module] # None
                 /\ menu'[x].parent # None => menu'[menu'[x].parent] # None
      BY <2>2, <2>5, <2>6, <2>7, <3>1 DEF MenusLead, RowsTyped, Menu
    <3> QED
      BY <2>5, <2>6, <3>1 DEF MenusLead
  <2>13. RoutesLead'
    <3>1. ASSUME NEW x \in Menus, route[x] # None, x # leaf
          PROVE  /\ menu'[x] # None /\ service'[route'[x].service] # None
                 /\ \A y \in Menus \ {x} :
                      route'[y] # None /\ route'[y].path = route'[x].path
                      => route'[x].path = Retired
      <4>1. route'[x] = route[x] /\ route[x].service \in Services \cup Menus
        BY <2>2, <2>8, <3>1 DEF RowsTyped, Route
      <4>2. menu'[x] # None /\ service'[route'[x].service] # None
        BY <2>2, <2>7, <2>9, <3>1, <4>1 DEF RoutesLead
      <4>3. route[x].path # r.path
        BY <1>3, <3>1 DEF PathTaken
      <4> QED
        BY <2>2, <2>8, <3>1, <4>1, <4>2, <4>3 DEF RoutesLead
    <3>2. \A y \in Menus \ {leaf} : route'[y] # None => route'[y].path # r.path
      BY <1>3, <2>8 DEF PathTaken
    <3> QED
      BY <2>6, <2>8, <2>9, <3>1, <3>2 DEF RoutesLead
  <2>14. ImplicitServicesFollow'
    BY <2>2, <2>8, <2>9, RowsAreThere DEF ImplicitServicesFollow, IsActive
  <2> QED
    BY <2>10, <2>11, <2>12, <2>13, <2>14 DEF RowsGo
<1> QED
  BY <1>1, <1>2, <1>3

LEMMA WriteRows ==
  ASSUME CatalogInv, NEW q \in Requests, Write(q)
  PROVE  RowsGo
BY CreateModuleRows, UpdateModuleRows, RemoveModuleRows, CreateMenuRows, UpdateMenuRows,
   RemoveMenuRows, CreateServiceRows, RemoveServiceRows, ProvisionRows DEF Write

LEMMA Ends ==
  ASSUME NEW q \in Requests, Write(q)
  PROVE  req[q].pc = "write" /\ To(q, "done")
BY DEF Write, Writing, CreateModule, UpdateModule, RemoveModule, CreateMenu, UpdateMenu,
       RemoveMenu, CreateService, RemoveService, Provision

LEMMA WriteInv ==
  ASSUME CatalogInv, NEW q \in Requests, Write(q)
  PROVE  CatalogInv'
<1>1. RowsGo
  BY WriteRows
<1>2. req[q].pc = "write" /\ To(q, "done")
  BY Ends
<1> QED
  BY <1>1, <1>2, Written DEF RowsGo

-----------------------------------------------------------------------------
(* The invariants of the rows *)

LEMMA InitInv == Init => CatalogInv
<1> SUFFICES ASSUME Init
             PROVE  CatalogInv
  OBVIOUS
<1>1. /\ menu \in [Menus -> Menu \cup {None}]
      /\ module = [m \in Modules |->
                     IF \E n \in Menus : menu[n] # None /\ menu[n].module = m
                       THEN [code |-> SeededCode(m), active |-> TRUE] ELSE None]
      /\ route = [n \in Menus |-> None]
      /\ service = [s \in Services \cup Menus |->
                      IF s \in SeededServices THEN [active |-> TRUE, module |-> None]
                                              ELSE None]
      /\ req = [q \in Requests |-> NoRequest] /\ crossed = {}
  BY SeedAssumption DEF Init
<1>2. \A m \in Modules : [code |-> SeededCode(m), active |-> TRUE] \in Module
  BY SeedAssumption DEF Module
<1>3. [active |-> TRUE, module |-> None] \in Service
  BY DEF Service
<1>4. RowsTyped
  BY <1>1, <1>2, <1>3 DEF RowsTyped
<1>5. MenusLead
  <2>1. ASSUME NEW n \in Menus, menu[n] # None
        PROVE  /\ module[menu[n].module] # None
               /\ menu[n].parent # None => menu[menu[n].parent] # None
    <3>1. menu[n].module \in Modules
      BY <1>1, <2>1 DEF Menu
    <3>2. module[menu[n].module] # None
      BY <1>1, <1>2, <2>1, <3>1, RowsAreThere
    <3>3. menu[n].parent # None => menu[menu[n].parent] # None
      BY <2>1, ForestAssumption DEF Init
    <3> QED
      BY <3>2, <3>3
  <2> QED
    BY <2>1 DEF MenusLead
<1>6. RoutesLead /\ ImplicitServicesFollow
  BY <1>1 DEF RoutesLead, ImplicitServicesFollow, IsActive
<1>7. NoRequest \in Request
  BY DEF NoRequest, Request
<1>8. /\ NoRequest.pc = "new" /\ NoRequest.op = None /\ NoRequest.had = FALSE
      /\ NoRequest.ids = {}
  BY DEF NoRequest
<1>9. BodyFits(NoRequest) /\ RowsRead(NoRequest, module, menu, route, service)
  BY <1>8, SeedAssumption DEF BodyFits, RowsRead, Handlers
<1>10. TypeOK
  BY <1>1, <1>4, <1>5, <1>6, <1>7 DEF TypeOK
<1>11. RequestsKnow
  BY <1>1, <1>9 DEF RequestsKnow, Knows
<1> QED
  BY <1>6, <1>10, <1>11 DEF CatalogInv

LEMMA StutterInv == CatalogInv /\ UNCHANGED vars => CatalogInv'
<1> SUFFICES ASSUME CatalogInv, UNCHANGED vars
             PROVE  CatalogInv'
  OBVIOUS
<1>1. UNCHANGED <<module, menu, route, service, req, crossed>>
  BY DEF vars, tables
<1> QED
  BY <1>1 DEF CatalogInv, TypeOK, RowsTyped, MenusLead, RoutesLead, RequestsKnow,
              ImplicitServicesFollow, IsActive

LEMMA NextInv == CatalogInv /\ Next => CatalogInv'
<1> SUFFICES ASSUME CatalogInv, NEW q \in Requests, Begin(q) \/ Read(q) \/ Write(q)
             PROVE  CatalogInv'
  BY DEF Next
<1>1. CASE Begin(q) \/ Read(q)
  BY <1>1, BeginSteps, ReadSteps, BecomesInv
<1>2. CASE Write(q)
  BY <1>2, WriteInv
<1> QED
  BY <1>1, <1>2

(* Whatever requests run together, rows keep their shape and lead to rows  *)
(* that are there, a request's locals fit what its handler will do with    *)
(* them, and implicit services follow their routes.                        *)
THEOREM CatalogInvariance == Spec => []CatalogInv
BY InitInv, StutterInv, NextInv, PTL DEF Spec

(* Rows fit schema.prisma, foreign keys and unique indexes included.       *)
THEOREM CatalogTypeCorrect == Spec => []TypeOK
<1>1. CatalogInv => TypeOK
  BY DEF CatalogInv
<1> QED
  BY <1>1, CatalogInvariance, PTL

(* A route in use through its implicit service finds it ACTIVE.            *)
THEOREM ServicesFollow == Spec => []ImplicitServicesFollow
<1>1. CatalogInv => ImplicitServicesFollow
  BY DEF CatalogInv
<1> QED
  BY <1>1, CatalogInvariance, PTL

-----------------------------------------------------------------------------
(* Provisioned once *)

\* Routes of registered services come from routes of the same service.
ServicesOfRoutesStay ==
  \A n \in Menus : route'[n] # None /\ route'[n].service \in Services =>
    route[n] # None /\ route'[n].service = route[n].service

CodesOfModulesStay ==
  \A m \in Modules : module[m] # None => module'[m] # None /\ module'[m].code = module[m].code

LEMMA CodesStay ==
  ASSUME CodesKept, ServicesOfRoutesStay, CodesOfModulesStay
  PROVE  CodesKept'
<1>1. ASSUME NEW a \in Menus, route'[a] # None, route'[a].service \in Services
      PROVE  /\ \E m \in Modules : module'[m] # None /\ module'[m].code = route'[a].service
             /\ \A b \in Menus \ {a} : route'[b] # None => route'[b].service # route'[a].service
  <2>1. route[a] # None /\ route'[a].service = route[a].service
    BY <1>1 DEF ServicesOfRoutesStay
  <2>2. PICK m \in Modules : module[m] # None /\ module[m].code = route[a].service
    BY <1>1, <2>1 DEF CodesKept
  <2>3. module'[m] # None /\ module'[m].code = route'[a].service
    BY <2>1, <2>2 DEF CodesOfModulesStay
  <2>4. ASSUME NEW b \in Menus \ {a}, route'[b] # None
        PROVE  route'[b].service # route'[a].service
    BY <1>1, <2>1, <2>4 DEF ServicesOfRoutesStay, CodesKept
  <2> QED
    BY <2>3, <2>4
<1> QED
  BY <1>1 DEF CodesKept

(* Attach makes a route of an implicit service; Detach and Reattach leave  *)
(* a route its service.                                                    *)
LEMMA RoutesKeepService ==
  ASSUME CatalogInv
  PROVE  /\ \A S \in SUBSET Menus : Detach(S) => ServicesOfRoutesStay
         /\ \A n \in Menus, p \in Paths : ~InUse(p, n) /\ Attach(n, p) => ServicesOfRoutesStay
         /\ \A n \in Menus, p \in Paths :
              ~InUse(p, n) /\ route[n] # None /\ Reattach(n, p) => ServicesOfRoutesStay
         /\ UNCHANGED route => ServicesOfRoutesStay
<1>1. route \in [Menus -> Route \cup {None}]
  BY DEF CatalogInv, TypeOK, RowsTyped
<1>2. ASSUME NEW S \in SUBSET Menus, Detach(S)
      PROVE  ServicesOfRoutesStay
  <2> DEFINE gone == {n \in S : route[n] # None}
  <2>1. route' = [n \in Menus |->
          IF n \in gone THEN [route[n] EXCEPT !.active = FALSE, !.path = Retired]
                        ELSE route[n]]
    BY <1>2 DEF Detach
  <2>2. \A n \in gone : route[n] # None
    OBVIOUS
  <2> HIDE DEF gone
  <2>3. \A n \in Menus : n \in gone => route'[n].service = route[n].service
    BY <1>1, <2>1, <2>2 DEF Route
  <2>4. \A n \in Menus : n \notin gone => route'[n] = route[n]
    BY <2>1
  <2> QED
    BY <2>2, <2>3, <2>4 DEF ServicesOfRoutesStay
<1>3. ASSUME NEW n \in Menus, NEW p \in Paths, NEW s \in Services \cup Menus, ~InUse(p, n),
             route' = [Freed(p, n) EXCEPT ![n] = RouteTo(s, p)],
             s \in Services => route[n] # None /\ s = route[n].service
      PROVE  ServicesOfRoutesStay
  <2>1. route'[n].service = s /\ \A x \in Menus \ {n} : route'[x] = Freed(p, n)[x]
    BY <1>3, FreedPath DEF RouteTo
  <2>2. \A x \in Menus \ {n} : route'[x] # None =>
          route[x] # None /\ route'[x].service = route[x].service
    BY <1>3, <2>1, FreedPath
  <2> QED
    BY <1>3, <2>1, <2>2 DEF ServicesOfRoutesStay
<1>4. ASSUME NEW n \in Menus, NEW p \in Paths, ~InUse(p, n), Attach(n, p)
      PROVE  ServicesOfRoutesStay
  <2>1. route' = [Freed(p, n) EXCEPT ![n] = RouteTo(n, p)] /\ n \notin Services
    BY <1>4, RowsAreThere DEF Attach
  <2> QED
    BY <1>3, <1>4, <2>1
<1>5. ASSUME NEW n \in Menus, NEW p \in Paths, ~InUse(p, n), route[n] # None, Reattach(n, p)
      PROVE  ServicesOfRoutesStay
  <2>1. /\ route' = [Freed(p, n) EXCEPT ![n] = RouteTo(route[n].service, p)]
        /\ route[n].service \in Services \cup Menus
    BY <1>1, <1>5 DEF Reattach, Route
  <2> QED
    BY <1>3, <1>5, <2>1
<1>6. UNCHANGED route => ServicesOfRoutesStay
  BY DEF ServicesOfRoutesStay
<1> QED
  BY <1>2, <1>4, <1>5, <1>6

LEMMA ModulesKeepCode ==
  ASSUME CatalogInv, NEW q \in Requests, Write(q), ~UpdateModule(q)
  PROVE  CodesOfModulesStay
<1>1. /\ module \in [Modules -> Module \cup {None}]
      /\ \A o \in Requests : RowsRead(req[o], module, menu, route, service)
      /\ \A o \in Requests : BodyFits(req[o])
  BY OfRequest DEF CatalogInv, TypeOK, RowsTyped
<1>2. CASE UNCHANGED module
  BY <1>2 DEF CodesOfModulesStay
<1>3. ASSUME NEW m \in Modules, NEW x, module[m] = None, module' = [module EXCEPT ![m] = x]
      PROVE  CodesOfModulesStay
  BY <1>1, <1>3 DEF CodesOfModulesStay
<1>4. CASE CreateModule(q)
  BY <1>2, <1>3, <1>4 DEF CreateModule
<1>5. CASE Provision(q)
  BY <1>2, <1>3, <1>5 DEF Provision, Generate, tables
<1>6. CASE RemoveModule(q)
  <2>1. /\ module' = [module EXCEPT ![req[q].into] = [module[req[q].into] EXCEPT !.active = FALSE]]
        /\ req[q].pc = "write" /\ req[q].op = "removeModule"
    BY <1>6 DEF RemoveModule, Writing
  <2>2. req[q].into \in Modules /\ module[req[q].into] \in Module
    BY <1>1, <2>1 DEF BodyFits, RowsRead
  <2>3. /\ [module[req[q].into] EXCEPT !.active = FALSE].code = module[req[q].into].code
        /\ [module[req[q].into] EXCEPT !.active = FALSE] \in Module
    BY <2>2 DEF Module
  <2> QED
    BY <1>1, <2>1, <2>2, <2>3, RowsAreThere DEF CodesOfModulesStay
<1> QED
  BY <1>2, <1>4, <1>5, <1>6 DEF Write, CreateMenu, UpdateMenu, RemoveMenu, CreateService,
                                RemoveService, tables

LEMMA WriteCodes ==
  ASSUME CatalogInv, CodesKept, "updateModule" \notin Ops, NEW q \in Requests, Write(q)
  PROVE  CodesKept'
<1> DEFINE r == req[q]
<1>1. r \in Request /\ BodyFits(r) /\ RowsRead(r, module, menu, route, service)
  BY OfRequest
<1>2. r.pc = "write" /\ r.op \in Ops
  BY <1>1, Ends DEF BodyFits
<1>3. ~UpdateModule(q)
  BY <1>2 DEF UpdateModule, Writing
<1>4. CodesOfModulesStay
  BY <1>3, ModulesKeepCode
<1>5. CASE UNCHANGED route
  BY <1>4, <1>5, RoutesKeepService, CodesStay
<1>6. CASE RemoveModule(q)
  <2>1. /\ route \in [Menus -> Route \cup {None}]
        /\ route' = [n \in Menus |-> IF n \in r.ids /\ route[n] # None
                       THEN [route[n] EXCEPT !.active = FALSE] ELSE route[n]]
    BY <1>6 DEF RemoveModule, CatalogInv, TypeOK, RowsTyped
  <2>2. ServicesOfRoutesStay
    BY <2>1 DEF ServicesOfRoutesStay, Route
  <2> QED
    BY <1>4, <2>2, CodesStay
<1>7. CASE CreateMenu(q) /\ route' # route
  <2>1. r.op = "createMenu" /\ r.target = "set" /\ ~InUse(r.path, r.menu) /\ Attach(r.menu, r.path)
    BY <1>7 DEF CreateMenu, Writing, tables
  <2>2. r.menu \in Menus /\ r.path \in Paths
    BY <1>1, <2>1 DEF BodyFits
  <2> QED
    BY <1>4, <2>1, <2>2, RoutesKeepService, CodesStay
<1>8. CASE UpdateMenu(q) /\ route' # route
  <2>1. /\ r.op = "updateMenu"
        /\ \/ Detach({r.menu})
           \/ r.target = "set" /\ r.had /\ ~InUse(r.path, r.menu) /\ Reattach(r.menu, r.path)
           \/ r.target = "set" /\ ~InUse(r.path, r.menu) /\ Attach(r.menu, r.path)
    BY <1>8 DEF UpdateMenu, Writing, tables
  <2>2. /\ r.menu \in Menus /\ (r.target = "set" => r.path \in Paths)
        /\ r.had => route[r.menu] # None
    BY <1>1, <1>2, <2>1 DEF BodyFits, RowsRead
  <2> QED
    BY <1>4, <2>1, <2>2, RoutesKeepService, CodesStay
<1>9. CASE RemoveMenu(q)
  <2>1. Detach({n \in r.ids : IsActive(route, n)})
    BY <1>9 DEF RemoveMenu
  <2>2. {n \in r.ids : IsActive(route, n)} \in SUBSET Menus
    BY <1>1, Fields
  <2> QED
    BY <1>4, <2>1, <2>2, RoutesKeepService, CodesStay
<1>10. CASE Provision(q) /\ route' # route
  <2>1. /\ CodeFree(r.code, None) /\ r.code = r.service /\ r.service \in Services
        /\ Generate(q)
    BY <1>1, <1>10 DEF Provision, Writing, tables, BodyFits
  <2>2. PICK m \in Modules, root \in Menus, leaf \in Menus :
          /\ module' = [module EXCEPT ![m] = [code |-> r.code, active |-> TRUE]]
          /\ route' = [route EXCEPT ![leaf] = RouteTo(r.service, r.path)]
    BY <2>1 DEF Generate
  <2>3. /\ module \in [Modules -> Module \cup {None}] /\ route \in [Menus -> Route \cup {None}]
        /\ [code |-> r.code, active |-> TRUE] \in Module
    BY <1>1, <2>1, Fields, SeedAssumption DEF CatalogInv, TypeOK, RowsTyped, Module
  <2>4. module'[m] # None /\ module'[m].code = r.service
    BY <2>1, <2>2, <2>3, RowsAreThere
  <2>5. /\ route'[leaf].service = r.service
        /\ \A x \in Menus \ {leaf} : route'[x] = route[x]
    BY <2>2, <2>3 DEF RouteTo
  <2>6. \A x \in Modules : module[x] # None => module[x].code # r.service
    BY <2>1, RowsAreThere DEF CodeFree
  <2>7. \A x \in Menus : route[x] # None => route[x].service # r.service
    BY <2>1, <2>6 DEF CodesKept
  <2>8. ASSUME NEW a \in Menus, route'[a] # None, route'[a].service \in Services, a # leaf
        PROVE  \E x \in Modules : module'[x] # None /\ module'[x].code = route'[a].service
    <3>1. PICK x \in Modules : module[x] # None /\ module[x].code = route[a].service
      BY <2>5, <2>8 DEF CodesKept
    <3>2. module'[x] # None /\ module'[x].code = module[x].code
      BY <1>4, <3>1 DEF CodesOfModulesStay
    <3> QED
      BY <2>5, <2>8, <3>1, <3>2
  <2>9. ASSUME NEW a \in Menus, route'[a] # None, route'[a].service \in Services
        PROVE  \A b \in Menus \ {a} : route'[b] # None => route'[b].service # route'[a].service
    BY <2>5, <2>7, <2>9 DEF CodesKept
  <2> QED
    BY <2>4, <2>5, <2>8, <2>9 DEF CodesKept
<1> QED
  BY <1>3, <1>5, <1>6, <1>7, <1>8, <1>9, <1>10 DEF Write, CreateModule, CreateService,
     RemoveService

LEMMA CodesInv ==
  ASSUME "updateModule" \notin Ops
  PROVE  Spec => []CodesKept
<1>1. Init => CodesKept
  BY DEF Init, CodesKept
<1>2. CatalogInv /\ CodesKept /\ [Next]_vars => CodesKept'
  <2> SUFFICES ASSUME CatalogInv, CodesKept, [Next]_vars
               PROVE  CodesKept'
    OBVIOUS
  <2>1. CASE UNCHANGED <<module, route>>
    BY <2>1 DEF CodesKept
  <2>2. ASSUME NEW q \in Requests, Begin(q) \/ Read(q)
        PROVE  CodesKept'
    <3>1. PICK y : Becomes(q, y)
      BY <2>2, BeginSteps, ReadSteps
    <3> QED
      BY <2>1, <3>1 DEF Becomes, tables
  <2>3. ASSUME NEW q \in Requests, Write(q)
        PROVE  CodesKept'
    BY <2>3, WriteCodes
  <2> QED
    BY <2>1, <2>2, <2>3 DEF Next, vars, tables
<1> QED
  BY <1>1, <1>2, CatalogInvariance, PTL DEF Spec

(* Whoever asks together, a registered service's routes are made once, as  *)
(* long as nobody rewrites the code of a module: CatalogDocs.cfg shows     *)
(* that it takes that.                                                     *)
THEOREM OneProvision ==
  ASSUME "updateModule" \notin Ops
  PROVE  Spec => []ProvisionedOnce
<1>1. CodesKept => ProvisionedOnce
  BY DEF CodesKept, ProvisionedOnce
<1> QED
  BY <1>1, CodesInv, PTL

-----------------------------------------------------------------------------
(* The tree after a transaction, as the other requests find it *)

\* Rows keep their place or come to the top, but for the menu the request
\* places; other new rows hang from those in R or from none.
TreeGrows(q, R) ==
  LET r == req[q] IN
  /\ R \subseteq Menus
  /\ \A n \in R : /\ menu[n] = None /\ menu'[n] # None /\ menu'[n].parent = None
                  /\ \A o \in Requests : req[o].menu # n
  /\ \A n \in Menus : menu[n] # None =>
       /\ menu'[n] # None /\ (menu'[n].active => menu[n].active)
       /\ ~(Places(r) /\ n = r.menu) => menu'[n].parent \in {menu[n].parent, None}
       /\ ~Changes(r) => menu'[n].module = menu[n].module /\ (menu[n].active => menu'[n].active)
  /\ \A n \in Menus : menu[n] = None /\ menu'[n] # None =>
       \/ r.op = "createMenu" /\ n = r.menu
       \/ menu'[n].parent \in R \cup {None} /\ \A o \in Requests : req[o].menu # n
  /\ Places(r) /\ menu'[r.menu] # None =>
       \/ menu'[r.menu].parent = r.parent
       \/ menu[r.menu] # None /\ menu'[r.menu].parent = menu[r.menu].parent
  /\ ~Changes(r) => \A m \in Modules : IsActive(module, m) => IsActive(module', m)

LEMMA OthersStay ==
  ASSUME CatalogInv, NEW q \in Requests, req[q].pc = "write", To(q, "done")
  PROVE  /\ req'[q].pc = "done" /\ req'[q].menu = req[q].menu
         /\ \A o \in Requests \ {q} : req'[o] = req[o]
<1>1. req \in [Requests -> Request] /\ req[q] \in Request
  BY DEF CatalogInv, TypeOK
<1>2. req' = [req EXCEPT ![q] = [req[q] EXCEPT !.pc = "done"]]
  BY DEF To, Goto
<1>3. /\ [req[q] EXCEPT !.pc = "done"].pc = "done"
      /\ [req[q] EXCEPT !.pc = "done"].menu = req[q].menu
  BY <1>1 DEF Request
<1> QED
  BY <1>1, <1>2, <1>3

(* Of two that run together and place menus, both menus are in crossed.    *)
LEMMA Together ==
  ASSUME CatalogInv, TreeInv, NEW q \in Requests, NEW o \in Requests, o # q,
         Busy(o), Busy(q)
  PROVE  /\ Places(req[o]) => req[o].menu \in crossed
         /\ Places(req[q]) => req[q].menu \in crossed
BY DEF TreeInv, TogetherCross

LEMMA ClimbsOn ==
  ASSUME CatalogInv, TreeInv, NEW q \in Requests, NEW R, TreeGrows(q, R),
         req[q].pc = "write", NEW o \in Requests, o # q
  PROVE  Climbs(req[o], menu', crossed)
<1> DEFINE r == req[q]
           x == req[o]
<1> SUFFICES ASSUME x.op = "updateMenu", x.parent # None, x.pc \in InModule
             PROVE  \E U \in SUBSET Menus : Climbed(x, U, menu', crossed)
  BY DEF Climbs
<1>1. Places(x) /\ Busy(o)
  BY DEF Places, Busy, Changes, InModule
<1>2. PICK U \in SUBSET Menus : Climbed(x, U, menu, crossed)
  BY DEF TreeInv, RequestsKnowTheTree, Climbs
<1>3. Places(r) => {r.menu, x.menu} \subseteq crossed
  BY <1>1, Together DEF Busy, Changes
<1> DEFINE at == IF x.pc = "walk" THEN {x.cursor} ELSE {}
           above == U \cup at
           V == U \cup R
<1>4. /\ x.menu \notin U /\ x.parent \in above
      /\ \A u \in U : \/ menu[u] = None \/ menu[u].parent \in above \cup {None}
                      \/ {u, x.menu} \subseteq crossed
  BY <1>2 DEF Climbed
<1>5. V \in SUBSET Menus /\ x.menu \notin V /\ x.parent \in V \cup at
  BY <1>4 DEF TreeGrows
<1>6. ASSUME NEW u \in V
      PROVE  \/ menu'[u] = None \/ menu'[u].parent \in (V \cup at) \cup {None}
             \/ {u, x.menu} \subseteq crossed
  <2>1. CASE u \in R
    BY <2>1 DEF TreeGrows
  <2>2. CASE u \in U /\ Places(r) /\ u = r.menu
    BY <1>3, <2>2
  <2>3. CASE u \in U /\ menu[u] # None /\ ~(Places(r) /\ u = r.menu)
    <3>1. u \in Menus /\ menu'[u].parent \in {menu[u].parent, None}
      BY <2>3 DEF TreeGrows
    <3> QED
      BY <1>4, <2>3, <3>1
  <2>4. CASE u \in U /\ menu[u] = None /\ ~(Places(r) /\ u = r.menu)
    <3>1. u \in Menus /\ ~(r.op = "createMenu" /\ u = r.menu)
      BY <2>4 DEF Places
    <3>2. menu'[u] # None => menu'[u].parent \in R \cup {None}
      BY <2>4, <3>1 DEF TreeGrows
    <3> QED
      BY <3>2
  <2> QED
    BY <2>1, <2>2, <2>3, <2>4
<1>7. Climbed(x, V, menu', crossed)
  BY <1>5, <1>6 DEF Climbed
<1> QED
  BY <1>5, <1>7

LEMMA PlacementHoldsOn ==
  ASSUME CatalogInv, TreeInv, NEW q \in Requests, NEW R, TreeGrows(q, R),
         req[q].pc = "write", NEW o \in Requests, o # q
  PROVE  PlacementHolds(req[o], module', menu', crossed)
<1> DEFINE r == req[q]
           x == req[o]
<1> SUFFICES ASSUME Places(x), x.menu \notin crossed, x.pc \in {"module"} \cup InModule
             PROVE  PlacementHolds(x, module', menu', crossed)
  BY DEF PlacementHolds, InModule, UnderParent
<1>1. Busy(o)
  BY DEF Busy, Changes, InModule
<1>2. ~Changes(r)
  BY <1>1, Together DEF Busy
<1>3. /\ \A m \in Modules : IsActive(module, m) => IsActive(module', m)
      /\ \A n \in Menus : IsActive(menu, n) =>
           IsActive(menu', n) /\ menu'[n].module = menu[n].module
  BY <1>2 DEF TreeGrows, IsActive
<1>4. PlacementHolds(x, module, menu, crossed)
  BY DEF TreeInv, RequestsKnowTheTree
<1>5. x \in Request /\ BodyFits(x)
  BY OfRequest
<1>6. /\ x.menu \in Menus /\ x.parent \in Menus \cup {None}
      /\ x.pc \in InModule => x.into \in Modules
  BY <1>5, Fields DEF BodyFits, Places
<1> QED
  BY <1>3, <1>4, <1>6 DEF PlacementHolds, Given

LEMMA SubtreeCollectedOn ==
  ASSUME CatalogInv, TreeInv, NEW q \in Requests, NEW R, TreeGrows(q, R),
         req[q].pc = "write", NEW o \in Requests, o # q
  PROVE  SubtreeCollected(req[o], menu', crossed)
<1> DEFINE r == req[q]
           x == req[o]
<1> SUFFICES ASSUME x.op = "removeMenu", x.pc \in {"collect", "write"}
             PROVE  SubtreeCollected(x, menu', crossed)
  BY DEF SubtreeCollected
<1>1. Busy(o)
  BY DEF Busy, Changes
<1>2. Places(r) => r.menu \in crossed
  BY <1>1, Together DEF Busy, Changes
<1>3. SubtreeCollected(x, menu, crossed)
  BY DEF TreeInv, RequestsKnowTheTree
<1>4. x.ids \in SUBSET Menus /\ \A n \in x.ids : menu[n] # None
  BY OfRequest, Fields DEF RowsRead
<1>5. ASSUME NEW n \in Menus, IsActive(menu', n), menu'[n].parent \in x.ids \ x.level
      PROVE  n \in x.ids \cup crossed
  <2>1. CASE Places(r) /\ n = r.menu
    BY <1>2, <2>1
  <2>2. CASE menu[n] # None /\ ~(Places(r) /\ n = r.menu)
    <3>1. menu'[n].parent \in {menu[n].parent, None} /\ IsActive(menu, n)
      BY <1>5, <2>2 DEF TreeGrows, IsActive
    <3>2. menu'[n].parent # None
      BY <1>4, <1>5, RowsAreThere
    <3> QED
      BY <1>3, <1>5, <3>1, <3>2 DEF SubtreeCollected
  <2>3. CASE menu[n] = None /\ ~(Places(r) /\ n = r.menu)
    <3>1. menu'[n].parent \in R \cup {None}
      BY <1>5, <2>3 DEF TreeGrows, IsActive, Places
    <3>2. menu'[n].parent \in Menus /\ menu[menu'[n].parent] # None
      BY <1>4, <1>5
    <3> QED
      BY <3>1, <3>2, RowsAreThere DEF TreeGrows
  <2> QED
    BY <2>1, <2>2, <2>3
<1> QED
  BY <1>3, <1>5 DEF SubtreeCollected

LEMMA OthersKnowTheTree ==
  ASSUME CatalogInv, TreeInv, CatalogInv', NEW q \in Requests, NEW R, TreeGrows(q, R),
         req[q].pc = "write", To(q, "done")
  PROVE  /\ crossed \subseteq crossed' /\ TogetherCross' /\ NewIdsAreFresh'
         /\ RequestsKnowTheTree'
<1>1. /\ req'[q].pc = "done" /\ req'[q].menu = req[q].menu
      /\ \A o \in Requests \ {q} : req'[o] = req[o]
  BY OthersStay
<1>2. TogetherCross' /\ crossed \subseteq crossed'
  BY Crossing DEF To, CatalogInv
<1>3. ASSUME NEW p \in Requests, InFlight(p)', req'[p].op = "createMenu"
      PROVE  /\ menu'[req'[p].menu] = None
             /\ \A o \in Requests \ {p} : req'[o].menu # req'[p].menu
  <2>1. p # q /\ req'[p] = req[p] /\ InFlight(p) /\ req[p].op = "createMenu"
    BY <1>1, <1>3 DEF InFlight
  <2>2. /\ menu[req[p].menu] = None
        /\ \A o \in Requests \ {p} : req[o].menu # req[p].menu
    BY <2>1 DEF TreeInv, NewIdsAreFresh
  <2>3. req[p].menu \in Menus
    BY <2>1, OfRequest DEF BodyFits
  <2>4. menu'[req[p].menu] = None
    BY <2>1, <2>2, <2>3 DEF TreeGrows
  <2> QED
    BY <1>1, <2>1, <2>2, <2>4
<1>4. ASSUME NEW o \in Requests
      PROVE  /\ Climbs(req'[o], menu', crossed')
             /\ PlacementHolds(req'[o], module', menu', crossed')
             /\ SubtreeCollected(req'[o], menu', crossed')
  <2>1. CASE o = q
    BY <1>1, <2>1 DEF Climbs, PlacementHolds, SubtreeCollected, InModule, UnderParent
  <2>2. CASE o # q
    <3>1. PICK x : x = req[o]
      OBVIOUS
    <3>2. /\ Climbs(x, menu', crossed) /\ PlacementHolds(x, module', menu', crossed)
          /\ SubtreeCollected(x, menu', crossed)
      BY <2>2, <3>1, ClimbsOn, PlacementHoldsOn, SubtreeCollectedOn
    <3>3. /\ Climbs(x, menu', crossed') /\ PlacementHolds(x, module', menu', crossed')
          /\ SubtreeCollected(x, menu', crossed')
      BY <1>2, <3>2, MoreCrossed
    <3> QED
      BY <1>1, <2>2, <3>1, <3>3
  <2> QED
    BY <2>1, <2>2
<1> QED
  BY <1>2, <1>3, <1>4 DEF NewIdsAreFresh, RequestsKnowTheTree

(* A cycle that comes up has two menus in crossed.                         *)
LEMMA CyclesAfter ==
  ASSUME CatalogInv, TreeInv, NEW q \in Requests, NEW R, TreeGrows(q, R),
         req[q].pc = "write", crossed \subseteq crossed'
  PROVE  CyclesNeedCrossedMoves'
<1> DEFINE r == req[q]
           n0 == r.menu
<1>1. ASSUME NEW C \in SUBSET Menus, C # {}, \A n \in C : menu'[n] # None /\ menu'[n].parent \in C
      PROVE  \E a, b \in C \cap crossed' : a # b
  <2>1. ASSUME NEW D \in SUBSET C, D # {},
               \A n \in D : menu[n] # None /\ menu[n].parent \in D
        PROVE  \E a, b \in C \cap crossed' : a # b
    BY <2>1 DEF TreeInv, CyclesNeedCrossedMoves, Cyclic
  <2>2. \A n \in C : n \in Menus /\ menu'[n].parent \in Menus /\ menu'[n].parent # None
    BY <1>1, RowsAreThere
  <2>3. C \cap R = {}
    BY <2>2 DEF TreeGrows
  <2>4. \A n \in C : menu[n] = None => r.op = "createMenu" /\ n = n0
    BY <1>1, <2>2, <2>3 DEF TreeGrows
  <2>5. \A n \in C : menu[n] # None /\ ~(Places(r) /\ n = n0) =>
          menu'[n].parent = menu[n].parent
    BY <2>2 DEF TreeGrows
  <2>6. CASE ~(Places(r) /\ n0 \in C)
    <3>1. \A n \in C : menu[n] # None /\ menu[n].parent \in C
      BY <1>1, <2>4, <2>5, <2>6 DEF Places
    <3> QED
      BY <1>1, <2>1, <3>1
  <2>7. CASE /\ Places(r) /\ n0 \in C
             /\ menu[n0] # None /\ menu'[n0].parent = menu[n0].parent
    <3>1. \A n \in C : menu[n] # None /\ menu[n].parent \in C
      BY <1>1, <2>4, <2>5, <2>7 DEF Places
    <3> QED
      BY <1>1, <2>1, <3>1
  <2>8. CASE /\ Places(r) /\ n0 \in C /\ menu'[n0].parent = r.parent
             /\ r.op = "createMenu"
    <3>1. menu[n0] = None
      BY <2>8 DEF TreeInv, NewIdsAreFresh, InFlight
    <3>2. r.parent \in C /\ menu[r.parent] # None
      BY <1>1, <2>2, <2>8, OfRequest DEF RowsRead, UnderParent
    <3>3. \A n \in C \ {n0} : menu[n] # None /\ menu[n].parent \in C
      BY <1>1, <2>4, <2>5
    <3>4. \A n \in C \ {n0} : menu[n].parent # n0
      BY <2>2, <3>1, <3>3, RowsAreThere DEF CatalogInv, TypeOK, MenusLead
    <3> QED
      BY <2>1, <3>1, <3>2, <3>3, <3>4
  <2>9. CASE /\ Places(r) /\ n0 \in C /\ menu'[n0].parent = r.parent
             /\ r.op = "updateMenu"
    <3>1. r.parent \in C /\ r.parent # None
      BY <1>1, <2>2, <2>9
    <3>2. PICK U \in SUBSET Menus : Climbed(r, U, menu, crossed)
      BY <2>9, <3>1 DEF TreeInv, RequestsKnowTheTree, Climbs, InModule
    <3>3. /\ n0 \notin U /\ r.parent \in U
          /\ \A u \in U : \/ menu[u] = None \/ menu[u].parent \in U \cup {None}
                          \/ {u, n0} \subseteq crossed
      BY <3>2 DEF Climbed
    <3> DEFINE D == C \cap U
    <3>4. \A d \in D : menu[d] # None /\ menu[d].parent \in C /\ menu[d].parent # None
      BY <1>1, <2>2, <2>4, <2>5, <3>3
    <3>5. CASE \A d \in D : menu[d].parent \in U
      <4>1. D \in SUBSET C /\ D # {} /\ \A d \in D : menu[d] # None /\ menu[d].parent \in D
        BY <3>1, <3>3, <3>4, <3>5
      <4> QED
        BY <2>1, <4>1
    <3>6. ASSUME NEW d \in D, menu[d].parent \notin U
          PROVE  \E a, b \in C \cap crossed' : a # b
      <4>1. {d, n0} \subseteq crossed /\ d # n0
        BY <3>3, <3>4, <3>6
      <4> QED
        BY <2>9, <4>1
    <3> QED
      BY <3>5, <3>6
  <2>10. Places(r) => r.op \in {"createMenu", "updateMenu"}
    BY DEF Places
  <2>11. Places(r) /\ n0 \in C =>
           \/ menu'[n0].parent = r.parent
           \/ menu[n0] # None /\ menu'[n0].parent = menu[n0].parent
    BY <1>1 DEF TreeGrows
  <2> QED
    BY <2>6, <2>7, <2>8, <2>9, <2>10, <2>11
<1> QED
  BY <1>1 DEF CyclesNeedCrossedMoves, Cyclic

-----------------------------------------------------------------------------
(* What each transaction does to the tree *)

\* Menu n is where it may be ACTIVE.
Hangs(n, modules, menus, X) ==
  /\ IsActive(modules, menus[n].module)
  /\ LET p == menus[n].parent IN
     p # None => p \in X \/ menus[p].active \/ ~modules[menus[p].module].active

WritesTree(q) ==
  /\ \E R : TreeGrows(q, R)
  /\ \A n \in Menus : IsActive(menu', n) /\ n \notin crossed =>
       Hangs(n, module', menu', crossed)

LEMMA Hanging ==
  ASSUME TreeInv, NEW n \in Menus, IsActive(menu, n), n \notin crossed
  PROVE  Hangs(n, module, menu, crossed)
BY DEF TreeInv, OrphansNeedCrossedPlacement, Hangs

(* The rows of a tree lead to rows.                                        *)
LEMMA TreeRows ==
  ASSUME CatalogInv, NEW n \in Menus, menu[n] # None
  PROVE  /\ menu[n] \in Menu /\ menu[n].module \in Modules /\ module[menu[n].module] # None
         /\ menu[n].parent # None =>
              /\ menu[n].parent \in Menus /\ menu[menu[n].parent] \in Menu
              /\ menu[menu[n].parent] # None
              /\ menu[menu[n].parent].module \in Modules
              /\ module[menu[menu[n].parent].module] # None
BY DEF CatalogInv, TypeOK, RowsTyped, MenusLead, Menu

LEMMA TreeStays ==
  ASSUME CatalogInv, TreeInv, NEW q \in Requests, UNCHANGED menu,
         \A m \in Modules : module[m] # None =>
           module'[m] # None /\ (module'[m].active <=> module[m].active)
  PROVE  WritesTree(q)
<1>1. TreeGrows(q, {})
  BY DEF TreeGrows, IsActive
<1>2. ASSUME NEW n \in Menus, IsActive(menu', n), n \notin crossed
      PROVE  Hangs(n, module', menu', crossed)
  <2>1. Hangs(n, module, menu, crossed) /\ menu[n] # None
    BY <1>2, Hanging DEF IsActive
  <2>2. /\ menu[n].module \in Modules /\ module[menu[n].module] # None
        /\ menu[n].parent # None =>
             /\ menu[menu[n].parent].module \in Modules
             /\ module[menu[menu[n].parent].module] # None
    BY <2>1, TreeRows
  <2> QED
    BY <2>1, <2>2 DEF Hangs, IsActive
<1> QED
  BY <1>1, <1>2 DEF WritesTree

LEMMA CreateModuleTree ==
  ASSUME CatalogInv, TreeInv, NEW q \in Requests, CreateModule(q)
  PROVE  WritesTree(q)
<1>1. PICK m \in Modules :
        /\ module[m] = None
        /\ \/ module' = module
           \/ module' = [module EXCEPT ![m] = [code |-> req[q].code, active |-> TRUE]]
  BY DEF CreateModule
<1>2. UNCHANGED menu /\ module \in [Modules -> Module \cup {None}]
  BY DEF CreateModule, CatalogInv, TypeOK, RowsTyped
<1>3. \A x \in Modules : module[x] # None => module'[x] = module[x]
  BY <1>1, <1>2
<1> QED
  BY <1>2, <1>3, TreeStays

LEMMA UpdateModuleTree ==
  ASSUME CatalogInv, TreeInv, NEW q \in Requests, UpdateModule(q)
  PROVE  WritesTree(q)
<1> DEFINE m == req[q].into
           row == [module[m] EXCEPT !.code = req[q].code]
<1>1. /\ req[q].pc = "write" /\ req[q].op = "updateModule" /\ UNCHANGED menu
      /\ module' = module \/ module' = [module EXCEPT ![m] = row]
  BY DEF UpdateModule, Writing
<1>2. m \in Modules /\ module[m] # None /\ module \in [Modules -> Module \cup {None}]
  BY <1>1, OfRequest DEF BodyFits, RowsRead, CatalogInv, TypeOK, RowsTyped
<1>3. row # None /\ (row.active <=> module[m].active)
  <2>1. module[m] \in Module /\ req[q].code \in Codes
    BY <1>1, <1>2, OfRequest DEF BodyFits
  <2>2. row \in Module /\ (row.active <=> module[m].active)
    BY <2>1 DEF Module
  <2> QED
    BY <2>2, RowsAreThere
<1> HIDE DEF row
<1>4. \A x \in Modules : module[x] # None =>
        module'[x] # None /\ (module'[x].active <=> module[x].active)
  BY <1>1, <1>2, <1>3
<1> QED
  BY <1>1, <1>4, TreeStays

LEMMA RemoveModuleTree ==
  ASSUME CatalogInv, TreeInv, NEW q \in Requests, RemoveModule(q)
  PROVE  WritesTree(q)
<1> DEFINE r == req[q]
           m == r.into
           inside == {n \in Menus : IsActive(menu, n) /\ menu[n].module = m}
<1>1. /\ r.pc = "write" /\ r.op = "removeModule"
      /\ module' = [module EXCEPT ![m] = [module[m] EXCEPT !.active = FALSE]]
      /\ menu' = [n \in Menus |-> IF n \in inside THEN [menu[n] EXCEPT !.active = FALSE]
                                                  ELSE menu[n]]
  BY DEF RemoveModule, Writing
<1>2. m \in Modules /\ module[m] # None /\ module \in [Modules -> Module \cup {None}]
  BY <1>1, OfRequest DEF BodyFits, RowsRead, CatalogInv, TypeOK, RowsTyped
<1>3. /\ ~module'[m].active
      /\ \A x \in Modules \ {m} : module'[x] = module[x]
  <2>1. module[m] \in Module
    BY <1>2
  <2>2. ~[module[m] EXCEPT !.active = FALSE].active
    BY <2>1 DEF Module
  <2> QED
    BY <1>1, <1>2, <2>2
<1>4. \A n \in Menus : n \in inside <=> IsActive(menu, n) /\ menu[n].module = m
  OBVIOUS
<1> HIDE DEF inside
<1>5. \A n \in Menus :
        IF n \in inside
          THEN /\ menu'[n] \in Menu /\ ~menu'[n].active
               /\ menu'[n].module = menu[n].module /\ menu'[n].parent = menu[n].parent
               /\ menu'[n].url = menu[n].url
          ELSE menu'[n] = menu[n]
  <2>1. \A n \in Menus : n \in inside => menu[n] # None
    BY <1>4 DEF IsActive
  <2> QED
    BY <1>1, <2>1, Inactivated
<1>6. \A n \in Menus :
        /\ menu[n] # None <=> menu'[n] # None
        /\ menu[n] # None =>
             /\ menu'[n].module = menu[n].module /\ menu'[n].parent = menu[n].parent
             /\ menu'[n].active => menu[n].active /\ menu[n].module # m
             /\ menu[n].active /\ menu[n].module # m => menu'[n].active
  BY <1>4, <1>5, RowsAreThere DEF IsActive
<1>7. Changes(r) /\ ~Places(r)
  BY <1>1 DEF Changes, Places
<1>8. TreeGrows(q, {})
  BY <1>6, <1>7 DEF TreeGrows
<1>9. ASSUME NEW n \in Menus, IsActive(menu', n), n \notin crossed
      PROVE  Hangs(n, module', menu', crossed)
  <2>1. menu[n] # None /\ IsActive(menu, n) /\ menu[n].module # m
    BY <1>6, <1>9 DEF IsActive
  <2>2. Hangs(n, module, menu, crossed)
    BY <1>9, <2>1, Hanging
  <2>3. /\ menu[n].module \in Modules
        /\ menu[n].parent # None =>
             /\ menu[n].parent \in Menus /\ menu[menu[n].parent] # None
             /\ menu[menu[n].parent].module \in Modules
    BY <2>1, TreeRows
  <2>4. menu'[n].module = menu[n].module /\ menu'[n].parent = menu[n].parent
    BY <1>6, <2>1
  <2>5. IsActive(module', menu'[n].module)
    BY <1>3, <2>1, <2>2, <2>3, <2>4 DEF Hangs, IsActive
  <2>6. ASSUME NEW p, p = menu[n].parent, p # None, p \notin crossed
        PROVE  menu'[p].active \/ ~module'[menu'[p].module].active
    <3>1. /\ p \in Menus /\ menu[p] # None /\ menu[p].module \in Modules
          /\ menu[p].active \/ ~module[menu[p].module].active
      BY <2>2, <2>3, <2>6 DEF Hangs
    <3>2. menu'[p].module = menu[p].module
      BY <1>6, <3>1
    <3>3. CASE menu[p].module = m
      BY <1>3, <3>2, <3>3
    <3>4. CASE menu[p].module # m
      BY <1>3, <1>6, <3>1, <3>2, <3>4
    <3> QED
      BY <3>3, <3>4
  <2> QED
    BY <2>4, <2>5, <2>6 DEF Hangs
<1> QED
  BY <1>8, <1>9 DEF WritesTree

LEMMA CreateMenuTree ==
  ASSUME CatalogInv, TreeInv, NEW q \in Requests, CreateMenu(q)
  PROVE  WritesTree(q)
<1> DEFINE r == req[q]
           n0 == r.menu
           row == [module |-> r.module, parent |-> r.parent, url |-> r.url, active |-> TRUE]
<1>1. /\ r.pc = "write" /\ r.op = "createMenu" /\ UNCHANGED module
      /\ menu' = menu \/ menu' = [menu EXCEPT ![n0] = row]
  BY DEF CreateMenu, Writing, tables
<1>2. CASE menu' = menu
  BY <1>1, <1>2, TreeStays
<1>3. CASE menu' = [menu EXCEPT ![n0] = row]
  <2>1. /\ n0 \in Menus /\ r.into = r.module /\ r.parent \in Menus \cup {None}
        /\ r.parent # None => menu[r.parent] # None
    BY <1>1, OfRequest, Fields DEF BodyFits, RowsRead, UnderParent
  <2>2. menu[n0] = None
    BY <1>1 DEF TreeInv, NewIdsAreFresh, InFlight
  <2>3. row.module = r.module /\ row.parent = r.parent /\ row.active
    OBVIOUS
  <2>4. row # None
    <3>1. row \in Menu
      BY <1>1, OfRequest, Fields DEF BodyFits, Menu
    <3> QED
      BY <3>1, RowsAreThere
  <2> HIDE DEF row
  <2>5. /\ menu'[n0] = row
        /\ \A n \in Menus \ {n0} : menu'[n] = menu[n]
    BY <1>3, <2>1 DEF CatalogInv, TypeOK, RowsTyped
  <2>6. TreeGrows(q, {})
    BY <1>1, <2>2, <2>3, <2>4, <2>5 DEF TreeGrows, Changes, Places
  <2>7. ASSUME NEW n \in Menus, IsActive(menu', n), n \notin crossed
        PROVE  Hangs(n, module', menu', crossed)
    <3>1. CASE n = n0
      <4>1. PlacementHolds(r, module, menu, crossed) /\ Places(r)
        BY <1>1 DEF TreeInv, RequestsKnowTheTree, Places
      <4>2. /\ IsActive(module, r.into)
            /\ r.parent # None => IsActive(menu, r.parent) /\ r.parent # n0
        BY <1>1, <2>2, <2>7, <3>1, <4>1 DEF PlacementHolds, InModule, UnderParent, IsActive
      <4>3. menu'[n].module = r.into /\ menu'[n].parent = r.parent
        BY <2>1, <2>3, <2>5, <3>1
      <4>4. IsActive(module', r.into)
        BY <1>1, <4>2 DEF IsActive
      <4>5. ASSUME r.parent # None PROVE menu'[r.parent].active
        <5>1. r.parent \in Menus \ {n0} /\ menu[r.parent].active
          BY <2>1, <4>2, <4>5 DEF IsActive
        <5> QED
          BY <2>5, <5>1
      <4> QED
        BY <4>3, <4>4, <4>5 DEF Hangs
    <3>2. CASE n # n0
      <4>1. menu[n] # None /\ IsActive(menu, n)
        BY <2>5, <2>7, <3>2 DEF IsActive
      <4>2. Hangs(n, module, menu, crossed)
        BY <2>7, <4>1, Hanging
      <4>3. menu[n].parent # None => menu[n].parent \in Menus \ {n0}
        BY <2>2, <4>1, TreeRows
      <4> QED
        BY <1>1, <2>5, <3>2, <4>2, <4>3 DEF Hangs
    <3> QED
      BY <3>1, <3>2
  <2> QED
    BY <2>6, <2>7 DEF WritesTree
<1> QED
  BY <1>1, <1>2, <1>3

LEMMA UpdateMenuTree ==
  ASSUME CatalogInv, TreeInv, NEW q \in Requests, UpdateMenu(q)
  PROVE  WritesTree(q)
<1> DEFINE r == req[q]
           n0 == r.menu
           row == [module |-> Given(r.module, menu[n0].module),
                   parent |-> Left(r.parent, "parent" \in r.nulls, menu[n0].parent),
                   url |-> Left(r.url, "url" \in r.nulls, menu[n0].url),
                   active |-> menu[n0].active]
<1>1. /\ r.pc = "write" /\ r.op = "updateMenu" /\ UNCHANGED module
      /\ menu' = menu \/ menu' = [menu EXCEPT ![n0] = row]
  BY DEF UpdateMenu, Writing, tables
<1>2. CASE menu' = menu
  BY <1>1, <1>2, TreeStays
<1>3. CASE menu' = [menu EXCEPT ![n0] = row]
  <2>1. /\ n0 \in Menus /\ menu[n0] # None /\ r.parent \in Menus \cup {None}
        /\ r.module \in Modules \cup {None} /\ r.url \in Paths \cup {None}
    BY <1>1, OfRequest, Fields DEF BodyFits, RowsRead
  <2>2. /\ row.module = Given(r.module, menu[n0].module)
        /\ r.parent # None => row.parent = r.parent
        /\ r.parent = None => row.parent \in {menu[n0].parent, None}
        /\ row.active <=> menu[n0].active
    BY DEF Left, Given
  <2>3. row # None
    <3>1. menu[n0] \in Menu
      BY <2>1 DEF CatalogInv, TypeOK, RowsTyped
    <3>2. row \in Menu
      BY <2>1, <3>1 DEF Menu, Given, Left
    <3> QED
      BY <3>2, RowsAreThere
  <2> HIDE DEF row
  <2>4. /\ menu'[n0] = row
        /\ \A n \in Menus \ {n0} : menu'[n] = menu[n]
    BY <1>3, <2>1 DEF CatalogInv, TypeOK, RowsTyped
  <2>5. ~Places(r) => r.parent = None /\ r.module = None
    BY <1>1 DEF Places
  <2>6. Changes(r) => Places(r)
    BY <1>1 DEF Changes
  <2>7. TreeGrows(q, {})
    BY <1>1, <2>1, <2>2, <2>3, <2>4, <2>5, <2>6 DEF TreeGrows, Changes, Given
  <2>8. Places(r) /\ n0 \notin crossed =>
          /\ IsActive(module, r.into) /\ IsActive(menu, n0)
          /\ r.into = Given(r.module, menu[n0].module)
          /\ r.parent # None => IsActive(menu, r.parent)
    <3>1. PlacementHolds(r, module, menu, crossed)
      BY DEF TreeInv, RequestsKnowTheTree
    <3> QED
      BY <1>1, <3>1 DEF PlacementHolds, InModule, UnderParent
  <2>9. ASSUME NEW n \in Menus, IsActive(menu', n), n \notin crossed
        PROVE  Hangs(n, module', menu', crossed)
    <3>1. menu[n] # None /\ IsActive(menu, n)
      BY <2>1, <2>2, <2>4, <2>9 DEF IsActive
    <3>2. Hangs(n, module, menu, crossed)
      BY <2>9, <3>1, Hanging
    <3>3. ASSUME NEW p \in Menus, p \notin crossed,
                 menu[p].active \/ ~module[menu[p].module].active
          PROVE  menu'[p].active \/ ~module[menu'[p].module].active
      <4>1. CASE p # n0
        BY <2>4, <3>3, <4>1
      <4>2. CASE p = n0 /\ Places(r)
        BY <2>2, <2>4, <2>8, <3>3, <4>2 DEF IsActive
      <4>3. CASE p = n0 /\ ~Places(r)
        BY <2>2, <2>4, <2>5, <3>3, <4>3 DEF Given
      <4> QED
        BY <4>1, <4>2, <4>3
    <3>4. menu[n].parent # None => menu[n].parent \in Menus
      BY <3>1, TreeRows
    <3>5. CASE n # n0
      BY <1>1, <2>4, <3>2, <3>3, <3>4, <3>5 DEF Hangs
    <3>6. CASE n = n0 /\ ~Places(r)
      <4>1. /\ menu'[n].module = menu[n].module
            /\ menu'[n].parent \in {menu[n].parent, None}
        BY <2>2, <2>4, <2>5, <3>6 DEF Given
      <4> QED
        BY <1>1, <3>2, <3>3, <3>4, <4>1 DEF Hangs
    <3>7. CASE n = n0 /\ Places(r)
      <4>1. IsActive(module', menu'[n].module)
        BY <1>1, <2>2, <2>4, <2>8, <2>9, <3>7
      <4>2. CASE r.parent = None
        <5>1. menu'[n].parent \in {menu[n].parent, None}
          BY <2>2, <2>4, <3>7, <4>2
        <5> QED
          BY <1>1, <3>2, <3>3, <3>4, <4>1, <5>1 DEF Hangs
      <4>3. CASE r.parent # None
        <5>1. menu'[n].parent = r.parent /\ IsActive(menu, r.parent)
          BY <2>2, <2>4, <2>8, <2>9, <3>7, <4>3
        <5>2. menu'[r.parent].active
          BY <2>1, <2>2, <2>4, <4>3, <5>1 DEF IsActive
        <5> QED
          BY <4>1, <5>1, <5>2 DEF Hangs
      <4> QED
        BY <4>2, <4>3
    <3> QED
      BY <3>5, <3>6, <3>7
  <2> QED
    BY <2>7, <2>9 DEF WritesTree
<1> QED
  BY <1>1, <1>2, <1>3

LEMMA RemoveMenuTree ==
  ASSUME CatalogInv, TreeInv, NEW q \in Requests, RemoveMenu(q)
  PROVE  WritesTree(q)
<1> DEFINE r == req[q]
           S == r.ids
<1>1. /\ r.pc = "write" /\ r.op = "removeMenu" /\ UNCHANGED module
      /\ menu' = [n \in Menus |-> IF n \in S THEN [menu[n] EXCEPT !.active = FALSE]
                                             ELSE menu[n]]
  BY DEF RemoveMenu, Writing
<1>2. \A n \in Menus : n \in S => menu[n] # None
  BY OfRequest DEF RowsRead
<1>3. \A n \in Menus :
        IsActive(menu, n) /\ menu[n].parent \in S => n \in S \cup crossed
  <2>1. SubtreeCollected(r, menu, crossed)
    BY DEF TreeInv, RequestsKnowTheTree
  <2> QED
    BY <1>1, <2>1 DEF SubtreeCollected
<1> HIDE DEF S
<1>4. \A n \in Menus :
        IF n \in S
          THEN /\ menu'[n] \in Menu /\ ~menu'[n].active
               /\ menu'[n].module = menu[n].module /\ menu'[n].parent = menu[n].parent
               /\ menu'[n].url = menu[n].url
          ELSE menu'[n] = menu[n]
  BY <1>1, <1>2, Inactivated
<1>5. \A n \in Menus :
        /\ menu[n] # None <=> menu'[n] # None
        /\ menu'[n].module = menu[n].module /\ menu'[n].parent = menu[n].parent
        /\ menu'[n].active <=> menu[n].active /\ n \notin S
  BY <1>2, <1>4, RowsAreThere
<1>6. Changes(r) /\ ~Places(r)
  BY <1>1 DEF Changes, Places
<1>7. TreeGrows(q, {})
  BY <1>5, <1>6 DEF TreeGrows
<1>8. ASSUME NEW n \in Menus, IsActive(menu', n), n \notin crossed
      PROVE  Hangs(n, module', menu', crossed)
  <2>1. menu[n] # None /\ IsActive(menu, n) /\ n \notin S
    BY <1>5, <1>8 DEF IsActive
  <2>2. Hangs(n, module, menu, crossed)
    BY <1>8, <2>1, Hanging
  <2>3. menu[n].parent # None => menu[n].parent \in Menus \ S
    BY <1>3, <1>8, <2>1, TreeRows
  <2> QED
    BY <1>1, <1>5, <2>2, <2>3 DEF Hangs
<1> QED
  BY <1>7, <1>8 DEF WritesTree

LEMMA ProvisionTree ==
  ASSUME CatalogInv, TreeInv, NEW q \in Requests, Provision(q)
  PROVE  WritesTree(q)
<1> DEFINE r == req[q]
           row(m, p, u) == [module |-> m, parent |-> p, url |-> u, active |-> TRUE]
<1>1. r.pc = "write" /\ r.op = "provision" /\ (UNCHANGED tables \/ Generate(q))
  BY DEF Provision, Writing
<1>2. CASE UNCHANGED tables
  BY <1>2, TreeStays DEF tables
<1>3. CASE Generate(q)
  <2>1. PICK m \in Modules, root \in Menus, leaf \in Menus :
          /\ module[m] = None
          /\ root # leaf /\ Unused(root) /\ Unused(leaf)
          /\ module' = [module EXCEPT ![m] = [code |-> r.code, active |-> TRUE]]
          /\ menu' = [menu EXCEPT ![root] = row(m, None, None),
                                  ![leaf] = row(m, root, r.path)]
    BY <1>3 DEF Generate
  <2>2. /\ menu \in [Menus -> Menu \cup {None}] /\ module \in [Modules -> Module \cup {None}]
        /\ r.path \in Paths /\ r.code \in Codes
    BY <1>1, OfRequest DEF BodyFits, CatalogInv, TypeOK, RowsTyped
  <2>3. /\ row(m, None, None) \in Menu /\ row(m, root, r.path) \in Menu
        /\ [code |-> r.code, active |-> TRUE] \in Module
    BY <2>1, <2>2 DEF Menu, Module
  <2>4. /\ row(m, None, None).module = m /\ row(m, None, None).parent = None
        /\ row(m, None, None).active
        /\ row(m, root, r.path).module = m /\ row(m, root, r.path).parent = root
        /\ row(m, root, r.path).active
    OBVIOUS
  <2>5. /\ menu'[root] = row(m, None, None) /\ menu'[leaf] = row(m, root, r.path)
        /\ \A n \in Menus \ {root, leaf} : menu'[n] = menu[n]
    BY <2>1, <2>2
  <2>6. /\ module'[m] # None /\ module'[m].active
        /\ \A x \in Modules \ {m} : module'[x] = module[x]
    BY <2>1, <2>2, <2>3, RowsAreThere
  <2> HIDE DEF row
  <2>7. /\ menu'[root] # None /\ menu'[leaf] # None
    BY <2>3, <2>5, RowsAreThere
  <2>8. /\ menu[root] = None /\ menu[leaf] = None
        /\ \A o \in Requests : req[o].menu # root /\ req[o].menu # leaf
    BY <2>1 DEF Unused
  <2>9. ~Changes(r)
    BY <1>1 DEF Changes, Places
  <2>10. TreeGrows(q, {root})
    BY <2>1, <2>4, <2>5, <2>6, <2>7, <2>8, <2>9, ZenonT(60) DEF TreeGrows, Changes, IsActive
  <2>11. ASSUME NEW n \in Menus, IsActive(menu', n), n \notin crossed
         PROVE  Hangs(n, module', menu', crossed)
    <3>1. CASE n \in {root, leaf}
      BY <2>4, <2>5, <2>6, <3>1 DEF Hangs, IsActive
    <3>2. CASE n \notin {root, leaf}
      <4>1. menu[n] # None /\ IsActive(menu, n)
        BY <2>5, <2>11, <3>2 DEF IsActive
      <4>2. Hangs(n, module, menu, crossed)
        BY <2>11, <4>1, Hanging
      <4>3. /\ menu[n].module \in Modules \ {m}
            /\ menu[n].parent # None =>
                 /\ menu[n].parent \in Menus \ {root, leaf}
                 /\ menu[menu[n].parent].module \in Modules \ {m}
        BY <2>1, <2>8, <4>1, TreeRows
      <4> QED
        BY <2>5, <2>6, <3>2, <4>2, <4>3 DEF Hangs, IsActive
    <3> QED
      BY <3>1, <3>2
  <2> QED
    BY <2>10, <2>11 DEF WritesTree
<1> QED
  BY <1>1, <1>2, <1>3

LEMMA WriteTree ==
  ASSUME CatalogInv, TreeInv, NEW q \in Requests, Write(q)
  PROVE  WritesTree(q)
<1>1. CASE CreateService(q) \/ RemoveService(q)
  BY <1>1, TreeStays DEF CreateService, RemoveService
<1> QED
  BY <1>1, CreateModuleTree, UpdateModuleTree, RemoveModuleTree, CreateMenuTree,
     UpdateMenuTree, RemoveMenuTree, ProvisionTree DEF Write

LEMMA WriteTreeInv ==
  ASSUME CatalogInv, TreeInv, NEW q \in Requests, Write(q)
  PROVE  TreeInv'
<1>1. CatalogInv' /\ req[q].pc = "write" /\ To(q, "done")
  BY WriteInv, Ends
<1>2. PICK R : TreeGrows(q, R)
  BY WriteTree DEF WritesTree
<1>3. /\ crossed \subseteq crossed' /\ TogetherCross' /\ NewIdsAreFresh'
      /\ RequestsKnowTheTree'
  BY <1>1, <1>2, OthersKnowTheTree
<1>4. CyclesNeedCrossedMoves'
  BY <1>1, <1>2, <1>3, CyclesAfter
<1>5. OrphansNeedCrossedPlacement'
  <2>1. \A n \in Menus : IsActive(menu', n) /\ n \notin crossed =>
          Hangs(n, module', menu', crossed)
    BY WriteTree DEF WritesTree
  <2> QED
    BY <1>3, <2>1 DEF OrphansNeedCrossedPlacement, Hangs, IsActive
<1> QED
  BY <1>3, <1>4, <1>5 DEF TreeInv

-----------------------------------------------------------------------------
(* The invariants of the tree *)

LEMMA InitTree == Init => TreeInv
<1> SUFFICES ASSUME Init
             PROVE  TreeInv
  OBVIOUS
<1>1. /\ menu \in SeededMenus /\ menu \in [Menus -> Menu \cup {None}] /\ crossed = {}
      /\ \A q \in Requests : req[q] = NoRequest
  BY SeedAssumption DEF Init
<1>2. NoRequest.pc = "new"
  BY DEF NoRequest
<1>3. TogetherCross /\ NewIdsAreFresh
  BY <1>1, <1>2 DEF TogetherCross, NewIdsAreFresh, Busy, InFlight
<1>4. RequestsKnowTheTree
  BY <1>1, <1>2 DEF RequestsKnowTheTree, Climbs, PlacementHolds, SubtreeCollected,
                    InModule, UnderParent
<1>5. CyclesNeedCrossedMoves
  <2>1. ASSUME NEW C \in SUBSET Menus, Cyclic(C)
        PROVE  FALSE
    BY <1>1, <2>1, ForestAssumption DEF Cyclic
  <2> QED
    BY <2>1 DEF CyclesNeedCrossedMoves
<1>6. ASSUME NEW n \in Menus, IsActive(menu, n)
      PROVE  Hangs(n, module, menu, crossed)
  <2>1. menu[n] # None /\ menu[n].module \in Modules /\ menu[n].active
    BY <1>1, <1>6 DEF IsActive, Menu
  <2>2. module[menu[n].module] = [code |-> SeededCode(menu[n].module), active |-> TRUE]
    BY <2>1 DEF Init
  <2>3. IsActive(module, menu[n].module)
    <3>1. [code |-> SeededCode(menu[n].module), active |-> TRUE] \in Module
      BY <2>1, SeedAssumption DEF Module
    <3>2. module[menu[n].module] # None
      BY <2>2, <3>1, RowsAreThere
    <3>3. module[menu[n].module].active
      BY <2>2
    <3> QED
      BY <3>2, <3>3 DEF IsActive
  <2>4. menu[n].parent # None => menu[menu[n].parent].active
    BY <1>1, <2>1, ForestAssumption
  <2> QED
    BY <2>3, <2>4 DEF Hangs
<1>7. OrphansNeedCrossedPlacement
  BY <1>6 DEF OrphansNeedCrossedPlacement, Hangs
<1> QED
  BY <1>3, <1>4, <1>5, <1>7 DEF TreeInv

LEMMA StutterTree == TreeInv /\ UNCHANGED vars => TreeInv'
<1> SUFFICES ASSUME TreeInv, UNCHANGED vars
             PROVE  TreeInv'
  OBVIOUS
<1>1. UNCHANGED <<module, menu, route, service, req, crossed>>
  BY DEF vars, tables
<1>2. TogetherCross' /\ NewIdsAreFresh'
  BY <1>1 DEF TreeInv, TogetherCross, NewIdsAreFresh, Busy, InFlight
<1>3. RequestsKnowTheTree'
  BY <1>1 DEF TreeInv, RequestsKnowTheTree
<1>4. CyclesNeedCrossedMoves' /\ OrphansNeedCrossedPlacement'
  BY <1>1 DEF TreeInv, CyclesNeedCrossedMoves, Cyclic, OrphansNeedCrossedPlacement, IsActive
<1> QED
  BY <1>2, <1>3, <1>4 DEF TreeInv

LEMMA NextTree == CatalogInv /\ TreeInv /\ Next => TreeInv'
<1> SUFFICES ASSUME CatalogInv, TreeInv, NEW q \in Requests, Begin(q) \/ Read(q) \/ Write(q)
             PROVE  TreeInv'
  BY DEF Next
<1>1. CASE Begin(q) \/ Read(q)
  BY <1>1, BeginSteps, ReadSteps, BecomesTree
<1>2. CASE Write(q)
  BY <1>2, WriteTreeInv
<1> QED
  BY <1>1, <1>2

(* However many requests place, move and remove menus and modules together,*)
(* what each knows of the tree is wrong only about menus of requests that  *)
(* ran together with another.                                              *)
THEOREM TreeInvariance == Spec => []TreeInv
BY InitTree, StutterTree, NextTree, CatalogInvariance, PTL DEF Spec

(* A cycle of menus takes two that requests placed which ran together:     *)
(* assertNoCycle keeps a lone request from making one.                     *)
THEOREM CyclesTakeTwo == Spec => []CyclesNeedCrossedMoves
<1>1. TreeInv => CyclesNeedCrossedMoves
  BY DEF TreeInv
<1> QED
  BY <1>1, TreeInvariance, PTL

(* What stays ACTIVE below what is INACTIVE was placed, or its parent was, *)
(* by a request that ran together with another.                            *)
THEOREM OrphansTakeTwo == Spec => []OrphansNeedCrossedPlacement
<1>1. TreeInv => OrphansNeedCrossedPlacement
  BY DEF TreeInv
<1> QED
  BY <1>1, TreeInvariance, PTL
=============================================================================

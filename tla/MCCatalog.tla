----------------------------- MODULE MCCatalog -----------------------------
(* Small instances of Catalog for TLC. A behaviour is one of the scenarios *)
(* a configuration names, each a part of what Catalog does with its        *)
(* constants: they differ in what is there at the start and in what is     *)
(* asked for.                                                              *)
EXTENDS Catalog, TLC

CONSTANTS m1, m2, n1, n2, n3, n4, s1, s2, p1, p2, c1, c2, q1, q2, q3,
          Scenarios

VARIABLES scenario

Row(parent, url) ==
  [module |-> m1, parent |-> parent, url |-> url, active |-> TRUE]

\* Menus of one module, and no others.
Only(rows) == [n \in Menus |-> IF n \in DOMAIN rows THEN rows[n] ELSE None]

NoMenus == Only(<<>>)
TwoRoots == Only(n1 :> Row(None, None) @@ n2 :> Row(None, None))
ALeaf == Only(n2 :> Row(None, p1))
AChild == Only(n1 :> Row(None, None) @@ n2 :> Row(n1, None))

MCSeededMenus == {NoMenus, TwoRoots, ALeaf, AChild}
MCSeededCode(m) == c1

\* What the scenarios are about: the menus at the start, how many requests
\* there are, for what and of which rows.
Parts ==
  [menus |->     \* Menus and modules are made, moved and removed.
     [start |-> TwoRoots, requests |-> 2, modules |-> {m1, m2},
      menus |-> {n1, n2, n3}, services |-> {}, paths |-> {}, codes |-> {c1, c2},
      nulls |-> {"parent"},
      ops |-> {"createMenu", "updateMenu", "removeMenu",
               "removeModule", "createModule", "updateModule"}],
   routes |->    \* A route is attached, detached and attached again.
     [start |-> ALeaf, requests |-> 3, modules |-> {m1},
      menus |-> {n2}, services |-> {}, paths |-> {p1}, codes |-> {c1},
      nulls |-> {},
      ops |-> {"updateMenu", "removeMenu", "removeModule"}],
   paths |->     \* Two menus and two paths; a service is registered.
     [start |-> ALeaf, requests |-> 2, modules |-> {m1},
      menus |-> {n2, n3}, services |-> {s2}, paths |-> {p1, p2}, codes |-> {s1, c1},
      nulls |-> {"url"},
      ops |-> {"createMenu", "updateMenu", "removeMenu", "removeModule",
               "updateModule", "createService"}],
   services |->  \* A service comes and goes and is provisioned.
     [start |-> NoMenus, requests |-> 3, modules |-> {m1, m2},
      menus |-> Menus, services |-> {s1}, paths |-> {p1, p2}, codes |-> {s1, c1},
      nulls |-> {},
      ops |-> {"createModule", "removeModule", "createService", "removeService",
               "provision"}],
   recoded |->   \* The module of a service gets another code.
     [start |-> NoMenus, requests |-> 3, modules |-> {m1, m2},
      menus |-> Menus, services |-> {s1}, paths |-> {p1, p2}, codes |-> {s1, c1},
      nulls |-> {},
      ops |-> {"provision", "updateModule"}],
   moved |->     \* A menu with a child goes to another module.
     [start |-> AChild, requests |-> 2, modules |-> {m1, m2},
      menus |-> {n1, n2}, services |-> {}, paths |-> {p1}, codes |-> {c1, c2},
      nulls |-> {"parent"},
      ops |-> {"createModule", "updateMenu"}]]

Fits(r, part) ==
  /\ r.op \in part.ops
  /\ {r.menu, r.parent} \subseteq part.menus \cup {None}
  /\ {r.module, r.into} \subseteq part.modules \cup {None}
  /\ {r.url, r.path} \subseteq part.paths \cup {None}
  /\ r.nulls \subseteq part.nulls
  /\ r.service \in part.services \cup {None}
  /\ r.code \in part.codes \cup {None}

MCAsks(r) == \E s \in Scenarios : Fits(r, Parts[s])

MCInit == scenario \in Scenarios /\ Init /\ menu = Parts[scenario].start

Served == {q \in Requests : req[q].pc # "new"}

MCNext ==
  /\ UNCHANGED scenario
  /\ \E q \in Requests :
       \/ /\ Cardinality(Served) < Parts[scenario].requests
          /\ Begin(q) /\ Fits(req'[q], Parts[scenario])
       \/ Read(q) \/ Write(q)

MCSpec == MCInit /\ [][MCNext]_<<scenario, vars>>

Symmetry == Permutations(Requests)
=============================================================================

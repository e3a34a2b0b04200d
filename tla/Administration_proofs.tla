----------------------- MODULE Administration_proofs -----------------------
(***************************************************************************)
(* That permissions come from SUPER_ADMIN or the seed, for every set of    *)
(* roles, users, permissions, areas, requests and workloads. GrantsInv is  *)
(* the inductive invariant. First what a step does to the requests, then   *)
(* the steps that read and those that write, then the theorem.             *)
(***************************************************************************)
EXTENDS Administration, TLAPS

-----------------------------------------------------------------------------
(* Requests *)

Stages == {"new", "role", "count", "thing", "granter", "holder",
           "insert", "default", "write", "done"}

(* Moving on changes the stage of one request and nothing else.            *)
LEMMA ToEffect ==
  ASSUME NEW q \in Requests, NEW pc \in Stages,
         req \in [Requests -> Request], To(q, pc)
  PROVE  /\ req' \in [Requests -> Request]
         /\ \A o \in Requests \ {q} : req'[o] = req[o]
         /\ req'[q].pc = pc
         /\ req'[q].op = req[q].op /\ req'[q].by = req[q].by
         /\ req'[q].super = req[q].super /\ req'[q].role = req[q].role
         /\ req'[q].thing = req[q].thing /\ req'[q].name = req[q].name
         /\ req'[q].row = req[q].row
<1>1. req' = [req EXCEPT ![q] = [req[q] EXCEPT !.pc = pc]]
  BY DEF To, Goto
<1>2. [req[q] EXCEPT !.pc = pc] \in Request
  BY DEF Request, Stages
<1>3. req'[q] = [req[q] EXCEPT !.pc = pc]
  BY <1>1
<1> QED
  BY <1>1, <1>2, <1>3 DEF Request

(* The tables only gain rows, and what was given stays given.              *)
Grows ==
  /\ \A p \in Perms : perm[p] # None =>
       perm'[p] # None /\ (perm'[p].code = perm[p].code \/ p \in recoded')
  /\ granted \subseteq granted' /\ delegated \subseteq delegated'
  /\ recoded \subseteq recoded'

LEMMA GivenStays ==
  ASSUME Grows, NEW p, Given(p)
  PROVE  Given(p)'
BY DEF Grows, Given

(* Then a request that has not moved knows what it knew.                   *)
LEMMA KnowsStays ==
  ASSUME GrantsInv, Grows, NEW o \in Requests, req'[o] = req[o]
  PROVE  Shaped(req'[o]) /\ Knows(o)'
<1> DEFINE p == req[o].thing
<1>1. Shaped(req[o]) /\ Knows(o)
  BY DEF GrantsInv
<1>2. CASE req[o].op \in {"updatePermission", "removePermission"}
  <2>1. p \in Perms
    BY <1>1, <1>2 DEF Shaped
  <2> QED
    BY <1>1, <1>2, <2>1 DEF Knows, Grows
<1>3. CASE req[o].op = "assignPermission"
  <2>1. p \in Perms
    BY <1>1, <1>3 DEF Shaped, PermissionOps
  <2>2. Given(p) => Given(p)'
    BY GivenStays
  <2> QED
    BY <1>1, <1>3, <2>1, <2>2 DEF Knows, Grows
<1>4. CASE req[o].op \notin {"updatePermission", "removePermission", "assignPermission"}
  BY <1>1, <1>4 DEF Knows
<1> QED
  BY <1>2, <1>3, <1>4

(* A request that is over has the shape of what it was.                    *)
LEMMA OverIsShaped ==
  ASSUME NEW q \in Requests, req \in [Requests -> Request], Shaped(req[q]),
         To(q, "done")
  PROVE  Shaped(req'[q]) /\ Knows(q)'
<1>1. /\ req'[q].pc = "done"
      /\ req'[q].op = req[q].op /\ req'[q].by = req[q].by
      /\ req'[q].role = req[q].role
      /\ req'[q].thing = req[q].thing /\ req'[q].row = req[q].row
  BY ToEffect DEF Stages
<1> QED
  BY <1>1 DEF Shaped, Knows

-----------------------------------------------------------------------------
(* Steps that read *)

(* The rows are as they were, and the request that moved is as it must be. *)
LEMMA ReadStep ==
  ASSUME GrantsInv, NEW q \in Requests, UNCHANGED <<tables, history>>,
         req' \in [Requests -> Request],
         \A o \in Requests \ {q} : req'[o] = req[o],
         Shaped(req'[q]), Knows(q)'
  PROVE  GrantsInv'
<1>1. Grows
  BY DEF Grows, tables, history
<1>2. \A o \in Requests : Shaped(req'[o]) /\ Knows(o)'
  BY <1>1, KnowsStays
<1>3. GrantsComeFromSuperAdmin'
  BY DEF GrantsInv, GrantsComeFromSuperAdmin, Holds, tables, history
<1> QED
  BY <1>2, <1>3 DEF GrantsInv, tables, history

(* A request that ends without a write.                                    *)
LEMMA Refused ==
  ASSUME GrantsInv, NEW q \in Requests, To(q, "done"),
         UNCHANGED <<tables, history>>
  PROVE  GrantsInv'
<1>1. req \in [Requests -> Request] /\ Shaped(req[q])
  BY DEF GrantsInv
<1>2. Shaped(req'[q]) /\ Knows(q)'
  BY <1>1, OverIsShaped
<1>3. req' \in [Requests -> Request] /\ \A o \in Requests \ {q} : req'[o] = req[o]
  BY <1>1, ToEffect DEF Stages
<1> QED
  BY <1>2, <1>3, ReadStep

(* One that goes on, but not with a grant of its own, to its write.        *)
LEMMA GoesOn ==
  ASSUME GrantsInv, NEW q \in Requests, NEW pc \in {"count", "thing", "insert", "write"},
         To(q, pc), UNCHANGED <<tables, history>>,
         pc = "count" => req[q].op = "removeRole",
         pc = "insert" => req[q].op = "createUser",
         pc = "write" =>
           /\ req[q].op \in {"updatePermission", "removePermission"}
              => perm[req[q].thing] # None
           /\ req[q].op = "assignPermission" /\ ~req[q].super => Given(req[q].thing)
  PROVE  GrantsInv'
<1>1. req \in [Requests -> Request] /\ Shaped(req[q])
  BY DEF GrantsInv
<1>2. /\ req' \in [Requests -> Request]
      /\ \A o \in Requests \ {q} : req'[o] = req[o]
      /\ req'[q].pc = pc
      /\ req'[q].op = req[q].op /\ req'[q].by = req[q].by
      /\ req'[q].super = req[q].super /\ req'[q].role = req[q].role
      /\ req'[q].thing = req[q].thing /\ req'[q].row = req[q].row
  BY <1>1, ToEffect DEF Stages
<1>3. Shaped(req'[q])
  BY <1>1, <1>2 DEF Shaped
<1>4. Given(req[q].thing) => Given(req[q].thing)'
  BY <1>2 DEF Given, history
<1>5. Knows(q)'
  BY <1>2, <1>4 DEF Knows, tables
<1> QED
  BY <1>2, <1>3, <1>5, ReadStep

(* What a request brings is of the kind its handler is for.                *)
LEMMA BodyType ==
  ASSUME NEW op \in Handlers, NEW b \in Bodies(op), NEW a \in Roles,
         NEW super \in BOOLEAN, op \in Ops
  PROVE  LET new == [pc |-> First(op), op |-> op, by |-> a, super |-> super,
                     role |-> b.role, thing |-> b.thing, name |-> b.name,
                     row |-> b.row]
         IN  new \in Request /\ Shaped(new) /\ new.pc \in {"role", "thing"}
<1> DEFINE about(ops, S) == IF op \in ops THEN S ELSE {None}
           thing == CASE op \in UserOps \cup {"createUser", "removeUser"} -> Users
                      [] op \in AreaOps \cup {"removeModule"} -> Areas
                      [] op \in PermissionOps \cup {"updatePermission", "removePermission"}
                         -> Perms
                      [] OTHER -> {None}
<1>1. /\ b.role \in about(LinkOps \cup {"updateRole", "removeRole"}, Roles)
      /\ b.thing \in thing
      /\ b.name \in about({"createRole", "updateRole"}, Names)
      /\ b.row \in about({"createPermission", "updatePermission"},
                      {p \in Permission : p.active})
  BY DEF Bodies
<1>2. First(op) \in {"role", "thing"}
  BY DEF First, Handlers, LinkOps, UserOps, AreaOps, PermissionOps
<1>3. b.thing \in Things \cup {None}
  BY <1>1 DEF Things
<1>4. b.role \in Roles \cup {None} /\ b.name \in Names \cup {None}
        /\ b.row \in Permission \cup {None}
  BY <1>1
<1>5. /\ op \in UserOps \cup {"createUser", "removeUser"} => b.thing \in Users
      /\ op \in AreaOps \cup {"removeModule"} => b.thing \in Areas
      /\ op \in PermissionOps \cup {"updatePermission", "removePermission"}
           => b.thing \in Perms
  BY <1>1 DEF UserOps, AreaOps, PermissionOps
<1>6. /\ op \in LinkOps => b.role \in Roles
      /\ op \in {"createPermission", "updatePermission"} => b.row \in Permission
  BY <1>1
<1> HIDE DEF about, thing
<1> DEFINE new == [pc |-> First(op), op |-> op, by |-> a, super |-> super,
                   role |-> b.role, thing |-> b.thing, name |-> b.name, row |-> b.row]
<1>7. new \in Request
  BY <1>2, <1>3, <1>4 DEF Request
<1>8. /\ new.pc \in {"role", "thing"} /\ new.op = op /\ new.by = a
      /\ new.role = b.role /\ new.thing = b.thing /\ new.row = b.row
  BY <1>2
<1> HIDE DEF new
<1>9. Shaped(new)
  BY <1>5, <1>6, <1>8 DEF Shaped
<1> QED
  BY <1>7, <1>8, <1>9 DEF new

LEMMA StartInv ==
  ASSUME GrantsInv, NEW q \in Requests, Start(q)
  PROVE  GrantsInv'
<1>1. PICK W \in Workloads : \E op \in W.ops, a \in {r \in Roles : IsActive(role, r)} :
        \E b \in Bodies(op) :
          Goto(q, [pc |-> First(op), op |-> op, by |-> a,
                   super |-> role[a].name = SuperAdmin, role |-> b.role,
                   thing |-> b.thing, name |-> b.name, row |-> b.row])
  BY DEF Start
<1>2. PICK op \in W.ops, a \in Roles : \E b \in Bodies(op) :
        Goto(q, [pc |-> First(op), op |-> op, by |-> a,
                 super |-> role[a].name = SuperAdmin, role |-> b.role,
                 thing |-> b.thing, name |-> b.name, row |-> b.row])
  BY <1>1
<1>3. PICK b \in Bodies(op) :
        Goto(q, [pc |-> First(op), op |-> op, by |-> a,
                 super |-> role[a].name = SuperAdmin, role |-> b.role,
                 thing |-> b.thing, name |-> b.name, row |-> b.row])
  BY <1>2
<1>4. op \in Handlers /\ op \in Ops
  BY WorkloadsAssumption DEF Ops
<1>5. PICK super \in BOOLEAN : super <=> role[a].name = SuperAdmin
  OBVIOUS
<1> DEFINE new == [pc |-> First(op), op |-> op, by |-> a, super |-> super,
                   role |-> b.role, thing |-> b.thing, name |-> b.name, row |-> b.row]
<1>6. req' = [req EXCEPT ![q] = new]
  BY <1>3, <1>5 DEF Goto
<1>7. new \in Request /\ Shaped(new) /\ new.pc \in {"role", "thing"}
  BY <1>4, BodyType
<1> HIDE DEF new
<1>8. req \in [Requests -> Request]
  BY DEF GrantsInv
<1>9. /\ req' \in [Requests -> Request] /\ req'[q] = new
      /\ \A o \in Requests \ {q} : req'[o] = req[o]
  BY <1>6, <1>7, <1>8
<1>10. Shaped(req'[q]) /\ Knows(q)'
  BY <1>7, <1>9 DEF Knows
<1>11. UNCHANGED <<tables, history>>
  BY DEF Start
<1> QED
  BY <1>9, <1>10, <1>11, ReadStep

LEMMA ReadRoleInv ==
  ASSUME GrantsInv, NEW q \in Requests, ReadRole(q)
  PROVE  GrantsInv'
<1>1. UNCHANGED <<tables, history>>
  BY DEF ReadRole
<1>2. \/ To(q, "done")
      \/ req[q].op = "updateRole" /\ To(q, "write")
      \/ req[q].op = "removeRole" /\ To(q, "count")
      \/ To(q, "thing")
  BY DEF ReadRole, If
<1> QED
  BY <1>1, <1>2, Refused, GoesOn

LEMMA CountUsersInv ==
  ASSUME GrantsInv, NEW q \in Requests, CountUsers(q)
  PROVE  GrantsInv'
<1>1. req[q].op = "removeRole"
  BY DEF CountUsers, GrantsInv, Shaped
<1>2. To(q, "done") \/ To(q, "write")
  BY DEF CountUsers, If
<1>3. UNCHANGED <<tables, history>>
  BY DEF CountUsers
<1> QED
  BY <1>1, <1>2, <1>3, Refused, GoesOn

LEMMA ReadThingInv ==
  ASSUME GrantsInv, NEW q \in Requests, ReadThing(q)
  PROVE  GrantsInv'
<1> DEFINE t == req[q].thing
<1>1. UNCHANGED <<tables, history>>
  BY DEF ReadThing
<1>2. CASE To(q, "done")
  BY <1>1, <1>2, Refused
<1>3. CASE To(q, "write") /\ Alive(t)
  <2>1. req[q].op \notin PermissionOps
    BY DEF ReadThing, UserOps, AreaOps, PermissionOps
  <2>2. ASSUME req[q].op \in {"updatePermission", "removePermission"}
        PROVE  perm[t] # None
    <3>1. t \in Perms /\ area \subseteq Areas
      BY <2>2 DEF GrantsInv, Shaped
    <3> QED
      BY <1>3, <3>1, KindsAssumption DEF Alive, IsActive
  <2> QED
    BY <1>1, <1>3, <2>1, <2>2, GoesOn DEF PermissionOps
<1> QED
  BY <1>2, <1>3 DEF ReadThing, If

LEMMA ReadUniqueInv ==
  ASSUME GrantsInv, NEW q \in Requests, ReadUnique(q)
  PROVE  GrantsInv'
<1>1. UNCHANGED <<tables, history>>
  BY DEF ReadUnique
<1>2. \/ To(q, "done")
      \/ req[q].op \in {"createRole", "createPermission"} /\ To(q, "write")
      \/ req[q].op = "createUser" /\ To(q, "insert")
  BY DEF ReadUnique, If
<1> QED
  BY <1>1, <1>2, Refused, GoesOn

(* A grant of its own goes on only if the permission was delegable, and    *)
(* what its request has read is its row.                                   *)
LEMMA ReadPermissionInv ==
  ASSUME GrantsInv, NEW q \in Requests, ReadPermission(q)
  PROVE  GrantsInv'
<1> DEFINE p == req[q].thing
<1>1. UNCHANGED <<tables, history>> /\ req[q].op \in PermissionOps
  BY DEF ReadPermission
<1>2. req \in [Requests -> Request] /\ Shaped(req[q]) /\ p \in Perms
  BY <1>1 DEF GrantsInv, Shaped
<1>3. CASE To(q, "done")
  BY <1>1, <1>3, Refused
<1>4. CASE /\ Alive(p) /\ (Assigns(req[q].op) /\ ~req[q].super => perm[p].delegable)
           /\ Goto(q, [req[q] EXCEPT !.pc = IF req[q].super THEN "write" ELSE "granter",
                                     !.row = perm[p]])
  <2>1. perm[p] \in Permission /\ perm[p] # None
    <3>1. p \notin Users /\ p \notin area
      BY <1>2, KindsAssumption DEF GrantsInv
    <3> QED
      BY <1>2, <1>4, <3>1 DEF Alive, IsActive, GrantsInv
  <2>2. PICK pc \in {"write", "granter"} : pc = IF req[q].super THEN "write" ELSE "granter"
    OBVIOUS
  <2> DEFINE new == [req[q] EXCEPT !.pc = pc, !.row = perm[p]]
  <2>3. /\ new \in Request
        /\ new.pc = pc /\ new.row = perm[p]
        /\ new.op = req[q].op /\ new.by = req[q].by /\ new.super = req[q].super
        /\ new.role = req[q].role /\ new.thing = p
    BY <1>2, <2>1 DEF Request
  <2>4. req' = [req EXCEPT ![q] = new]
    BY <1>4, <2>2 DEF Goto
  <2> HIDE DEF new
  <2>5. /\ req' \in [Requests -> Request] /\ req'[q] = new
        /\ \A o \in Requests \ {q} : req'[o] = req[o]
    BY <1>2, <2>3, <2>4
  <2>6. Shaped(new)
    BY <1>1, <1>2, <2>3 DEF Shaped, PermissionOps, UserOps, AreaOps
  <2>7. req[q].op = "assignPermission" /\ ~req[q].super => p \in delegated
    BY <1>2, <1>4, <2>1 DEF Assigns, GrantsInv
  <2>8. UNCHANGED <<perm, delegated>>
    BY <1>1 DEF tables, history
  <2>9. Knows(q)'
    BY <1>1, <2>1, <2>2, <2>3, <2>5, <2>7, <2>8 DEF Knows, PermissionOps
  <2> QED
    BY <1>1, <2>5, <2>6, <2>9, ReadStep
<1> QED
  BY <1>3, <1>4 DEF ReadPermission

LEMMA ReadGranterInv ==
  ASSUME GrantsInv, NEW q \in Requests, ReadGranter(q)
  PROVE  GrantsInv'
<1>1. UNCHANGED <<tables, history>> /\ req[q].pc = "granter"
  BY DEF ReadGranter
<1>2. CASE To(q, "done")
  BY <1>1, <1>2, Refused
<1>3. CASE To(q, "holder")
  <2>1. req \in [Requests -> Request] /\ Shaped(req[q]) /\ Knows(q)
    BY DEF GrantsInv
  <2>2. /\ req' \in [Requests -> Request]
        /\ \A o \in Requests \ {q} : req'[o] = req[o]
        /\ req'[q].pc = "holder"
        /\ req'[q].op = req[q].op /\ req'[q].by = req[q].by
        /\ req'[q].super = req[q].super /\ req'[q].role = req[q].role
        /\ req'[q].thing = req[q].thing /\ req'[q].row = req[q].row
    BY <1>3, <2>1, ToEffect DEF Stages
  <2>3. Shaped(req'[q])
    BY <1>1, <2>1, <2>2 DEF Shaped
  <2>4. Knows(q)'
    BY <1>1, <2>1, <2>2 DEF Knows, tables, history
  <2> QED
    BY <1>1, <2>2, <2>3, <2>4, ReadStep
<1> QED
  BY <1>2, <1>3 DEF ReadGranter, If

(* Whoever passes a permission on was found to hold one of that code: it   *)
(* is this one, and was given, or its code has changed.                    *)
LEMMA ReadHolderInv ==
  ASSUME GrantsInv, NEW q \in Requests, ReadHolder(q)
  PROVE  GrantsInv'
<1> DEFINE p == req[q].thing
<1>1. UNCHANGED <<tables, history>> /\ req[q].pc = "holder"
  BY DEF ReadHolder
<1>2. Shaped(req[q]) /\ Knows(q) /\ req[q].op \in PermissionOps /\ p \in Perms
  BY <1>1 DEF GrantsInv, Shaped
<1>3. CASE To(q, "done")
  BY <1>1, <1>3, Refused
<1>4. CASE To(q, "write") /\ HasPermission(req[q].by, req[q].row.code)
  <2>1. ASSUME req[q].op = "assignPermission", ~req[q].super
        PROVE  Given(p)
    <3>1. /\ perm[p] # None /\ p \in delegated
          /\ req[q].row.code = perm[p].code \/ p \in recoded
      BY <1>1, <1>2, <2>1 DEF Knows
    <3>2. PICK h \in Perms :
            /\ Holds(req[q].by, h) /\ perm[h] # None
            /\ perm[h].code = req[q].row.code
      BY <1>4 DEF HasPermission, IsActive
    <3>3. req[q].by \in Roles
        BY <1>2 DEF Shaped, LinkOps
    <3>4. CASE p \in recoded
      BY <3>4 DEF Given
    <3>5. CASE req[q].row.code = perm[p].code
      <4>1. h = p
        BY <1>2, <3>1, <3>2, <3>5 DEF GrantsInv
      <4> QED
        BY <3>1, <3>2, <3>3, <4>1 DEF GrantsInv, GrantsComeFromSuperAdmin, Given
    <3> QED
      BY <3>1, <3>4, <3>5
  <2> QED
    BY <1>1, <1>2, <1>4, <2>1, GoesOn DEF PermissionOps
<1> QED
  BY <1>3, <1>4 DEF ReadHolder, If

LEMMA InsertUserInv ==
  ASSUME GrantsInv, NEW q \in Requests, InsertUser(q)
  PROVE  GrantsInv'
<1>1. UNCHANGED <<tables, history>> /\ req[q].pc = "insert"
  BY DEF InsertUser
<1>2. req \in [Requests -> Request] /\ Shaped(req[q]) /\ req[q].op = "createUser"
  BY <1>1 DEF GrantsInv, Shaped
<1>3. CASE To(q, "done")
  BY <1>1, <1>3, Refused
<1>4. CASE To(q, "default")
  <2>1. /\ req' \in [Requests -> Request]
        /\ \A o \in Requests \ {q} : req'[o] = req[o]
        /\ req'[q].pc = "default" /\ req'[q].op = "createUser"
        /\ req'[q].by = req[q].by /\ req'[q].role = req[q].role
        /\ req'[q].thing = req[q].thing /\ req'[q].row = req[q].row
    BY <1>2, <1>4, ToEffect DEF Stages
  <2>2. Shaped(req'[q]) /\ Knows(q)'
    BY <1>2, <2>1 DEF Shaped, Knows
  <2> QED
    BY <1>1, <2>1, <2>2, ReadStep
<1> QED
  BY <1>3, <1>4 DEF InsertUser, If

LEMMA DefaultRoleInv ==
  ASSUME GrantsInv, NEW q \in Requests, DefaultRole(q)
  PROVE  GrantsInv'
<1>1. UNCHANGED <<tables, history>> /\ req[q].pc = "default"
  BY DEF DefaultRole
<1>2. req \in [Requests -> Request] /\ Shaped(req[q]) /\ req[q].op = "createUser"
  BY <1>1 DEF GrantsInv, Shaped
<1>3. CASE To(q, "done")
  BY <1>1, <1>3, Refused
<1>4. ASSUME NEW r \in Roles, Goto(q, [req[q] EXCEPT !.pc = "write", !.role = r])
      PROVE  GrantsInv'
  <2> DEFINE new == [req[q] EXCEPT !.pc = "write", !.role = r]
  <2>1. /\ new \in Request /\ new.pc = "write" /\ new.op = "createUser"
        /\ new.role = r /\ new.thing = req[q].thing
    BY <1>2 DEF Request
  <2>2. req' = [req EXCEPT ![q] = new]
    BY <1>4 DEF Goto
  <2> HIDE DEF new
  <2>3. /\ req' \in [Requests -> Request] /\ req'[q] = new
        /\ \A o \in Requests \ {q} : req'[o] = req[o]
    BY <1>2, <2>1, <2>2
  <2>4. Shaped(req'[q]) /\ Knows(q)'
    BY <1>2, <2>1, <2>3 DEF Shaped, Knows, UserOps, AreaOps, PermissionOps, LinkOps
  <2> QED
    BY <1>1, <2>3, <2>4, ReadStep
<1> QED
  BY <1>3, <1>4 DEF DefaultRole

(* Every call that reads.                                                  *)
LEMMA ReadInv ==
  ASSUME GrantsInv, NEW q \in Requests, Read(q)
  PROVE  GrantsInv'
BY ReadRoleInv, CountUsersInv, ReadThingInv, ReadUniqueInv, ReadPermissionInv,
   ReadGranterInv, ReadHolderInv, InsertUserInv, DefaultRoleInv DEF Read

-----------------------------------------------------------------------------
(* Steps that write *)

(* What GrantsInv says of the tables.                                      *)
Tables ==
  /\ perm \in [Perms -> Permission \cup {None}]
  /\ link \in [Roles -> [Things -> Estado \cup {None}]]
  /\ area \subseteq Areas
  /\ \A p1, p2 \in Perms :
       perm[p1] # None /\ perm[p2] # None /\ perm[p1].code = perm[p2].code => p1 = p2
  /\ \A p \in Perms : perm[p] # None /\ perm[p].delegable => p \in delegated

(* A grant is there before the step, or is given by it.                    *)
Explained ==
  \A r \in Roles, p \in Perms :
    Holds(r, p)' => Holds(r, p) \/ <<r, p>> \in granted' \/ Given(p)'

(* A write ends its request.                                               *)
LEMMA WriteStep ==
  ASSUME GrantsInv, NEW q \in Requests, To(q, "done"), Grows, Tables', Explained
  PROVE  GrantsInv'
<1>1. req \in [Requests -> Request] /\ Shaped(req[q])
  BY DEF GrantsInv
<1>2. req' \in [Requests -> Request] /\ \A o \in Requests \ {q} : req'[o] = req[o]
  BY <1>1, ToEffect DEF Stages
<1>3. Shaped(req'[q]) /\ Knows(q)'
  BY <1>1, OverIsShaped
<1>4. \A o \in Requests \ {q} : Shaped(req'[o]) /\ Knows(o)'
  BY <1>2, KnowsStays
<1>5. GrantsComeFromSuperAdmin'
  BY DEF GrantsInv, GrantsComeFromSuperAdmin, Explained, Grows, Given
<1> QED
  BY <1>2, <1>3, <1>4, <1>5 DEF GrantsInv, Tables

(* Nobody asks of roles or users what they may be given.                   *)
LEMMA OtherRowsStep ==
  ASSUME GrantsInv, NEW q \in Requests, To(q, "done"),
         UNCHANGED <<perm, link, area, history>>
  PROVE  GrantsInv'
<1>1. Grows /\ Tables' /\ Explained
  BY DEF Grows, Tables, Explained, Holds, GrantsInv, history
<1> QED
  BY <1>1, WriteStep

(* Links of other kinds change, and nobody is given a permission.          *)
LEMMA OtherLinksStep ==
  ASSUME GrantsInv, NEW q \in Requests, To(q, "done"),
         UNCHANGED <<perm, history>>, area' \subseteq Areas,
         link' \in [Roles -> [Things -> Estado \cup {None}]],
         \A r \in Roles, p \in Perms : Holds(r, p)' => Holds(r, p)
  PROVE  GrantsInv'
<1>1. Grows /\ Tables' /\ Explained
  BY DEF Grows, Tables, Explained, GrantsInv, history
<1> QED
  BY <1>1, WriteStep

LEMMA CommitUserInv ==
  ASSUME GrantsInv, NEW q \in Requests, CommitUser(q)
  PROVE  GrantsInv'
<1> DEFINE u == req[q].thing
<1>1. u \in Users /\ link \in [Roles -> [Things -> Estado \cup {None}]]
  BY DEF CommitUser, GrantsInv, Shaped
<1>2. link' = [link EXCEPT ![req[q].role][u] = "ACTIVO"]
  BY DEF CommitUser
<1>3. link' \in [Roles -> [Things -> Estado \cup {None}]]
  BY <1>1, <1>2 DEF Estado
<1>4. \A r \in Roles, p \in Perms : link'[r][p] = link[r][p]
  BY <1>1, <1>2, KindsAssumption DEF Things
<1> QED
  BY <1>3, <1>4, OtherLinksStep DEF CommitUser, GrantsInv, Holds

LEMMA RemoveUserInv ==
  ASSUME GrantsInv, NEW q \in Requests, RemoveUser(q)
  PROVE  GrantsInv'
<1> DEFINE u == req[q].thing
<1>1. link \in [Roles -> [Things -> Estado \cup {None}]]
  BY DEF GrantsInv
<1>2. link' = [r \in Roles |-> [link[r] EXCEPT ![u] =
                 IF @ = "ACTIVO" THEN "INACTIVO" ELSE @]]
  BY DEF RemoveUser
<1>3. link' \in [Roles -> [Things -> Estado \cup {None}]]
  BY <1>1, <1>2 DEF Estado
<1>4. \A r \in Roles, p \in Perms : Holds(r, p)' => Holds(r, p)
  BY <1>1, <1>2 DEF Holds, Things
<1> QED
  BY <1>3, <1>4, OtherLinksStep DEF RemoveUser, GrantsInv

LEMMA RemoveAreaInv ==
  ASSUME GrantsInv, NEW q \in Requests, RemoveArea(q)
  PROVE  GrantsInv'
<1> DEFINE a == req[q].thing
<1>1. link \in [Roles -> [Things -> Estado \cup {None}]]
  BY DEF GrantsInv
<1>2. link' = [r \in Roles |-> [link[r] EXCEPT ![a] =
                 IF @ = "ACTIVO" THEN "INACTIVO" ELSE @]]
  BY DEF RemoveArea
<1>3. link' \in [Roles -> [Things -> Estado \cup {None}]]
  BY <1>1, <1>2 DEF Estado
<1>4. \A r \in Roles, p \in Perms : Holds(r, p)' => Holds(r, p)
  BY <1>1, <1>2 DEF Holds, Things
<1> QED
  BY <1>3, <1>4, OtherLinksStep DEF RemoveArea, GrantsInv

(* The one write that gives: to SUPER_ADMIN's account, or what its request *)
(* knows to have been given.                                               *)
LEMMA WriteLinkInv ==
  ASSUME GrantsInv, NEW q \in Requests, WriteLink(q)
  PROVE  GrantsInv'
<1> DEFINE r == req[q].role
           t == req[q].thing
<1>1. /\ link \in [Roles -> [Things -> Estado \cup {None}]]
      /\ Shaped(req[q]) /\ Knows(q) /\ req[q].op \in LinkOps /\ req[q].pc = "write"
      /\ UNCHANGED <<perm, area, delegated, recoded>>
  BY DEF WriteLink, GrantsInv
<1>2. r \in Roles /\ t \in Things
  BY <1>1 DEF Shaped, LinkOps, UserOps, AreaOps, PermissionOps, Things
<1>3. PICK v \in Estado \cup {None} :
        /\ link' = [link EXCEPT ![r][t] = v]
        /\ v = "ACTIVO" => Assigns(req[q].op) \/ link[r][t] = "ACTIVO"
  <2> DEFINE w == CASE Assigns(req[q].op) -> "ACTIVO"
                    [] link[r][t] = None -> None
                    [] OTHER -> "INACTIVO"
  <2>1. w \in Estado \cup {None}
    BY DEF Estado
  <2>2. w = "ACTIVO" => Assigns(req[q].op) \/ link[r][t] = "ACTIVO"
    BY NoneAssumption DEF Estado
  <2>3. link' = [link EXCEPT ![r][t] = w]
    BY <1>1, <1>2 DEF WriteLink
  <2> QED
    BY <2>1, <2>2, <2>3
<1>4. link' \in [Roles -> [Things -> Estado \cup {None}]]
  BY <1>1, <1>3
<1>5. granted' = IF req[q].op = "assignPermission" /\ req[q].super
                   THEN granted \cup {<<r, t>>} ELSE granted
  BY DEF WriteLink
<1>6. Grows /\ Tables'
  BY <1>1, <1>4, <1>5 DEF Grows, Tables, GrantsInv
<1>7. ASSUME NEW x \in Roles, NEW p \in Perms, Holds(x, p)', ~Holds(x, p)
      PROVE  <<x, p>> \in granted' \/ Given(p)'
  <2>1. x = r /\ p = t /\ v = "ACTIVO"
    BY <1>1, <1>2, <1>3, <1>7 DEF Holds, Things
  <2>2. Assigns(req[q].op)
    BY <1>3, <1>7, <2>1 DEF Holds
  <2>3. req[q].op = "assignPermission"
    BY <1>1, <2>1, <2>2, KindsAssumption DEF Assigns, Shaped, UserOps, AreaOps
  <2>4. CASE req[q].super
    BY <1>5, <2>1, <2>3, <2>4
  <2>5. CASE ~req[q].super
    <3>1. Given(p)
      BY <1>1, <2>1, <2>3, <2>5 DEF Knows
    <3> QED
      BY <1>6, <3>1, GivenStays
  <2> QED
    BY <2>4, <2>5
<1>8. Explained
  BY <1>7 DEF Explained
<1> QED
  BY <1>6, <1>8, WriteStep DEF WriteLink

LEMMA CreatePermissionInv ==
  ASSUME GrantsInv, NEW q \in Requests, CreatePermission(q)
  PROVE  GrantsInv'
<1>1. /\ req[q].row \in Permission /\ perm \in [Perms -> Permission \cup {None}]
      /\ UNCHANGED <<area, link, granted, recoded>>
  BY DEF CreatePermission, GrantsInv, Shaped
<1>2. PICK p \in Perms :
        /\ perm[p] = None
        /\ IF CodeFree(req[q].row.code, p)
             THEN /\ perm' = [perm EXCEPT ![p] = [req[q].row EXCEPT !.active = TRUE]]
                  /\ delegated' = IF req[q].row.delegable
                                    THEN delegated \cup {p} ELSE delegated
             ELSE UNCHANGED <<perm, delegated>>
  BY DEF CreatePermission
<1>3. CASE ~CodeFree(req[q].row.code, p)
  BY <1>1, <1>2, <1>3, OtherRowsStep DEF CreatePermission, history
<1>4. CASE CodeFree(req[q].row.code, p)
  <2> DEFINE new == [req[q].row EXCEPT !.active = TRUE]
  <2>1. /\ new \in Permission /\ new.code = req[q].row.code
        /\ new.delegable = req[q].row.delegable
    BY <1>1 DEF Permission
  <2>2. perm' = [perm EXCEPT ![p] = new]
    BY <1>2, <1>4
  <2> HIDE DEF new
  <2>3. /\ perm' \in [Perms -> Permission \cup {None}] /\ perm'[p] = new
        /\ \A x \in Perms \ {p} : perm'[x] = perm[x]
    BY <1>1, <2>1, <2>2
  <2>4. /\ delegated \subseteq delegated'
        /\ new.delegable => p \in delegated'
    BY <1>2, <1>4, <2>1
  <2>5. Grows
    BY <1>1, <1>2, <2>3, <2>4 DEF Grows
  <2>6. \A x \in Perms \ {p} : perm'[x] # None => perm'[x].code # new.code
    BY <1>4, <2>1, <2>3 DEF CodeFree
  <2>7. Tables'
    BY <1>1, <2>3, <2>4, <2>6 DEF Tables, GrantsInv
  <2>8. Explained
    BY <1>1 DEF Explained, Holds
  <2> QED
    BY <2>5, <2>7, <2>8, WriteStep DEF CreatePermission
<1> QED
  BY <1>3, <1>4

(* A new code is noted: what was seen of the old one says nothing of it.   *)
LEMMA UpdatePermissionInv ==
  ASSUME GrantsInv, NEW q \in Requests, UpdatePermission(q)
  PROVE  GrantsInv'
<1> DEFINE p == req[q].thing
           row == req[q].row
<1>1. /\ row \in Permission /\ perm \in [Perms -> Permission \cup {None}]
      /\ p \in Perms /\ perm[p] \in Permission
      /\ UNCHANGED <<area, link, granted>>
  BY DEF UpdatePermission, GrantsInv, Shaped, Knows
<1>2. IF CodeFree(row.code, p)
        THEN /\ perm' = [perm EXCEPT ![p] = [row EXCEPT !.active = perm[p].active]]
             /\ delegated' = IF row.delegable THEN delegated \cup {p} ELSE delegated
             /\ recoded' = IF row.code # perm[p].code THEN recoded \cup {p} ELSE recoded
        ELSE UNCHANGED <<perm, delegated, recoded>>
  BY DEF UpdatePermission
<1>3. CASE ~CodeFree(row.code, p)
  BY <1>1, <1>2, <1>3, OtherRowsStep DEF UpdatePermission, history
<1>4. CASE CodeFree(row.code, p)
  <2> DEFINE new == [row EXCEPT !.active = perm[p].active]
  <2>1. new \in Permission /\ new.code = row.code /\ new.delegable = row.delegable
    BY <1>1 DEF Permission
  <2>2. perm' = [perm EXCEPT ![p] = new]
    BY <1>2, <1>4
  <2> HIDE DEF new
  <2>3. /\ perm' \in [Perms -> Permission \cup {None}] /\ perm'[p] = new
        /\ \A x \in Perms \ {p} : perm'[x] = perm[x]
    BY <1>1, <2>1, <2>2
  <2>4. /\ delegated \subseteq delegated' /\ recoded \subseteq recoded'
        /\ new.delegable => p \in delegated'
        /\ new.code # perm[p].code => p \in recoded'
    BY <1>2, <1>4, <2>1
  <2>5. perm'[p] # None
    BY <2>1, <2>3, NoneAssumption
  <2>6. Grows
    BY <1>1, <2>3, <2>4, <2>5 DEF Grows
  <2>7. \A x \in Perms \ {p} : perm'[x] # None => perm'[x].code # new.code
    BY <1>4, <2>1, <2>3 DEF CodeFree
  <2>8. Tables'
    BY <1>1, <2>3, <2>4, <2>7 DEF Tables, GrantsInv
  <2>9. Explained
    BY <1>1 DEF Explained, Holds
  <2> QED
    BY <2>6, <2>8, <2>9, WriteStep DEF UpdatePermission
<1> QED
  BY <1>3, <1>4

LEMMA RemovePermissionInv ==
  ASSUME GrantsInv, NEW q \in Requests, RemovePermission(q)
  PROVE  GrantsInv'
<1> DEFINE p == req[q].thing
           new == [perm[p] EXCEPT !.active = FALSE]
<1>1. /\ perm \in [Perms -> Permission \cup {None}]
      /\ p \in Perms /\ perm[p] \in Permission
      /\ UNCHANGED <<area, link, history>>
  BY DEF RemovePermission, GrantsInv, Shaped, Knows
<1>2. new \in Permission /\ new.code = perm[p].code /\ new.delegable = perm[p].delegable
  BY <1>1 DEF Permission
<1>3. perm' = [perm EXCEPT ![p] = new]
  BY DEF RemovePermission
<1> HIDE DEF new
<1>4. /\ perm' \in [Perms -> Permission \cup {None}] /\ perm'[p] = new
      /\ \A x \in Perms \ {p} : perm'[x] = perm[x]
  BY <1>1, <1>2, <1>3
<1>5. perm[p] # None /\ perm'[p] # None
  BY <1>1, <1>2, <1>4, NoneAssumption
<1>6. Grows
  BY <1>1, <1>2, <1>4, <1>5 DEF Grows, history
<1>7. \A x \in Perms \ {p} : perm'[x] # None => perm'[x].code # new.code
  BY <1>1, <1>2, <1>4, <1>5 DEF GrantsInv
<1>8. Tables'
  BY <1>1, <1>2, <1>4, <1>5, <1>7 DEF Tables, GrantsInv, history
<1>9. Explained
  BY <1>1 DEF Explained, Holds
<1> QED
  BY <1>6, <1>8, <1>9, WriteStep DEF RemovePermission

(* Every call that writes.                                                 *)
LEMMA WriteInv ==
  ASSUME GrantsInv, NEW q \in Requests, Write(q)
  PROVE  GrantsInv'
<1>1. ASSUME CreateRole(q) \/ UpdateRole(q) \/ RemoveRole(q)
      PROVE  GrantsInv'
  BY <1>1, OtherRowsStep DEF CreateRole, UpdateRole, RemoveRole
<1> QED
  BY <1>1, WriteLinkInv, CreatePermissionInv, UpdatePermissionInv,
     RemovePermissionInv, CommitUserInv, RemoveUserInv, RemoveAreaInv DEF Write

-----------------------------------------------------------------------------
(* The invariant *)

LEMMA InitInv == Init => GrantsInv
<1> SUFFICES ASSUME Init PROVE GrantsInv
  OBVIOUS
<1>1. NoRequest \in Request /\ NoRequest.pc = "new" /\ NoRequest.op = None
  BY DEF NoRequest, Request
<1>2. \A h \in Handlers : h # None
  BY NoneAssumption
<1>3. \A q \in Requests : req[q] = NoRequest /\ Shaped(req[q]) /\ Knows(q)
  BY <1>1, <1>2 DEF Init, Shaped, Knows, Handlers, LinkOps, UserOps, AreaOps,
     PermissionOps
<1>4. req \in [Requests -> Request]
  BY <1>1 DEF Init
<1>5. /\ perm \in [Perms -> Permission \cup {None}]
      /\ link \in [Roles -> [Things -> Estado \cup {None}]] /\ area \subseteq Areas
  BY SeedAssumption DEF Init, Estado
<1>6. \A r \in Roles, p \in Perms : Holds(r, p) => <<r, p>> \in granted
  BY NoneAssumption DEF Init, Holds, Estado, Things
<1> QED
  BY <1>3, <1>4, <1>5, <1>6, SeedAssumption
     DEF GrantsInv, GrantsComeFromSuperAdmin, Init

LEMMA NextInv == GrantsInv /\ [Next]_vars => GrantsInv'
<1> SUFFICES ASSUME GrantsInv, [Next]_vars PROVE GrantsInv'
  OBVIOUS
<1>1. CASE UNCHANGED vars
  BY <1>1 DEF vars, tables, history, GrantsInv, Shaped, Knows, Given, Holds,
     GrantsComeFromSuperAdmin
<1>2. CASE Next
  BY <1>2, StartInv, ReadInv, WriteInv DEF Next
<1> QED
  BY <1>1, <1>2

(* What requests know of permissions while they are served is true, and    *)
(* what roles hold was given: the invariant behind GrantsAreGiven.         *)
THEOREM GrantsInvariance == Spec => []GrantsInv
BY InitInv, NextInv, PTL DEF Spec

(* However many requests assign, delegate, take back and rewrite           *)
(* permissions together, no role holds one that SUPER_ADMIN or the seed    *)
(* did not give to it, or to a role that could delegate it, unless its     *)
(* code was changed meanwhile (roles.service.ts:402).                      *)
THEOREM GrantsAreGiven == Spec => []GrantsComeFromSuperAdmin
<1>1. GrantsInv => GrantsComeFromSuperAdmin
  BY DEF GrantsInv
<1> QED
  BY <1>1, GrantsInvariance, PTL

-----------------------------------------------------------------------------
(***************************************************************************)
(* That only an assignment which ran together with the removal of its role *)
(* leaves an active user in an inactive role, for every set of roles,      *)
(* users, requests and workloads. HoldersInv is inductive next to          *)
(* GrantsInv, which knows what kind of row each request is about. First    *)
(* what any step does, then the steps that read, that write, the theorem.  *)
(***************************************************************************)
-----------------------------------------------------------------------------
(* Requests *)

(* The part one request has in Assigning and in Removing.                  *)
Assigns1(q, r, u) ==
  /\ q.op \in {"assignUser", "createUser"} /\ q.pc \in {"thing", "write"}
  /\ q.role = r /\ q.thing = u

Removes1(q, r) == q.op = "removeRole" /\ q.pc = "write" /\ q.role = r

LEMMA Parts ==
  ASSUME NEW r, NEW u
  PROVE  /\ Assigning(req, r, u) <=> \E g \in Requests : Assigns1(req[g], r, u)
         /\ Removing(req, r) <=> \E d \in Requests : Removes1(req[d], r)
         /\ Assigning(req', r, u) <=> \E g \in Requests : Assigns1(req'[g], r, u)
         /\ Removing(req', r) <=> \E d \in Requests : Removes1(req'[d], r)
BY DEF Assigning, Removing, Assigns1, Removes1

(* Assignments and removals that meet are noted, and stay noted.           *)
RacesNoted ==
  /\ raced \subseteq raced'
  /\ \A r \in Roles, u \in Users :
       Assigning(req', r, u) /\ Removing(req', r) => <<r, u>> \in raced'

LEMMA GotoNotes ==
  ASSUME NEW q, NEW next, Goto(q, next)
  PROVE  RacesNoted
<1>1. raced' = raced \cup {a \in Roles \X Users :
                             Assigning(req', a[1], a[2]) /\ Removing(req', a[1])}
  BY DEF Goto
<1>2. ASSUME NEW r \in Roles, NEW u \in Users,
             Assigning(req', r, u), Removing(req', r)
      PROVE  <<r, u>> \in raced'
  <2>1. <<r, u>> \in Roles \X Users /\ <<r, u>>[1] = r /\ <<r, u>>[2] = u
    OBVIOUS
  <2> QED
    BY <1>1, <1>2, <2>1
<1> QED
  BY <1>1, <1>2 DEF RacesNoted

-----------------------------------------------------------------------------
(* Steps that read *)

(* Nothing changed but the request that moved: what it has seen is so, an  *)
(* assignment it goes on with has found its role ACTIVE, and a removal has *)
(* counted nobody.                                                         *)
LEMMA ReadHolds ==
  ASSUME GrantsInv, HoldersInv, NEW q \in Requests, UNCHANGED tables, RacesNoted,
         \A o \in Requests \ {q} : req'[o] = req[o],
         Sees(req[q])',
         Creating(req'[q]) =>
           \/ Creating(req[q]) /\ req'[q].thing = req[q].thing
           \/ \A o \in Requests \ {q} :
                ~(Creating(req[o]) /\ req[o].thing = req'[q].thing),
         \A r \in Roles, u \in Users :
           Assigns1(req'[q], r, u) => Assigns1(req[q], r, u) \/ IsActive(role, r),
         \A r \in Roles :
           Removes1(req'[q], r) =>
             \/ Removes1(req[q], r)
             \/ \A u \in Users : Holds(r, u) => user[u] # "ACTIVO"
  PROVE  HoldersInv'
<1>1. UNCHANGED <<role, user, link>>
  BY DEF tables
<1>2. \A r \in Roles, u \in Users : (Holds(r, u))' <=> Holds(r, u)
  BY <1>1 DEF Holds
<1>3. \A r \in Roles : (IsActive(role, r))' <=> IsActive(role, r)
  BY <1>1 DEF IsActive
<1>4. \A o \in Requests : Sees(req[o])'
  <2>1. ASSUME NEW o \in Requests \ {q} PROVE Sees(req[o])'
    BY <1>1, <2>1 DEF HoldersInv, Sees
  <2> QED
    BY <2>1
<1>5. \A p, o \in Requests :
        (Creating(req[p]) /\ Creating(req[o]) /\ req[p].thing = req[o].thing)' => p = o
  BY DEF HoldersInv, Creating
<1>6. ASSUME NEW r \in Roles, NEW u \in Users
      PROVE  /\ (Holds(r, u) => user[u] # None)'
             /\ (Assigning(req, r, u) => IsActive(role, r) \/ <<r, u>> \in raced)'
             /\ (Assigning(req, r, u) /\ Removing(req, r) => <<r, u>> \in raced)'
             /\ (Removing(req, r) /\ Holds(r, u) /\ user[u] = "ACTIVO"
                   => <<r, u>> \in raced)'
  <2>1. (Holds(r, u) => user[u] # None)'
    BY <1>1, <1>2 DEF HoldersInv
  <2>2. ASSUME Assigning(req', r, u)
        PROVE  IsActive(role, r) \/ <<r, u>> \in raced'
    <3>1. PICK g \in Requests : Assigns1(req'[g], r, u)
      BY <2>2, Parts
    <3>2. Assigns1(req[g], r, u) \/ IsActive(role, r)
      BY <3>1
    <3> QED
      BY <3>2, Parts DEF HoldersInv, RacesNoted
  <2>3. Assigning(req', r, u) /\ Removing(req', r) => <<r, u>> \in raced'
    BY DEF RacesNoted
  <2>4. ASSUME Removing(req', r), Holds(r, u), user[u] = "ACTIVO"
        PROVE  <<r, u>> \in raced'
    <3>1. PICK d \in Requests : Removes1(req'[d], r)
      BY <2>4, Parts
    <3>2. Removes1(req[d], r)
      BY <2>4, <3>1
    <3> QED
      BY <2>4, <3>2, Parts DEF HoldersInv, RacesNoted
  <2> QED
    BY <1>1, <1>2, <1>3, <2>1, <2>2, <2>3, <2>4
<1>7. SettledRolesStayActive'
  BY <1>1, <1>2 DEF HoldersInv, SettledRolesStayActive, RacesNoted
<1> QED
  BY <1>1, <1>4, <1>5, <1>6, <1>7 DEF HoldersInv

(* Moving on to a stage that is neither a write nor the insertion of a     *)
(* user: a stage that says nothing, if an assignment finds its role ACTIVE *)
(* there and a removal has seen its role.                                  *)
LEMMA MovesOn ==
  ASSUME GrantsInv, HoldersInv, NEW q \in Requests,
         NEW pc \in {"count", "thing", "granter", "holder", "insert", "done"},
         To(q, pc), UNCHANGED tables,
         pc = "count" => role[req[q].role] # None,
         pc = "thing" => IsActive(role, req[q].role)
  PROVE  HoldersInv'
<1>1. req \in [Requests -> Request] /\ Sees(req[q])
  BY DEF GrantsInv, HoldersInv
<1>2. /\ \A o \in Requests \ {q} : req'[o] = req[o]
      /\ req'[q].pc = pc /\ req'[q].op = req[q].op
      /\ req'[q].role = req[q].role /\ req'[q].thing = req[q].thing
      /\ req'[q].name = req[q].name
  BY <1>1, ToEffect DEF Stages
<1>3. RacesNoted
  BY GotoNotes DEF To
<1>4. UNCHANGED <<role, user>>
  BY DEF tables
<1>5. Sees(req[q])'
  BY <1>1, <1>2, <1>4 DEF Sees, Creating
<1>6. ~Creating(req'[q])
  BY <1>2 DEF Creating
<1>7. \A r \in Roles, u \in Users : Assigns1(req'[q], r, u) => IsActive(role, r)
  BY <1>2 DEF Assigns1
<1>8. \A r \in Roles : ~Removes1(req'[q], r)
  BY <1>2 DEF Removes1
<1> QED
  BY <1>2, <1>3, <1>5, <1>6, <1>7, <1>8, ReadHolds

(* Moving on to the write.                                                 *)
LEMMA MovesToWrite ==
  ASSUME GrantsInv, HoldersInv, NEW q \in Requests, To(q, "write"), UNCHANGED tables,
         req[q].op # "createUser",
         req[q].op \in {"updateRole", "removeRole"} => role[req[q].role] # None,
         req[q].op \in {"assignUser", "removeUser"} => user[req[q].thing] # None,
         req[q].op = "assignUser" => req[q].pc = "thing",
         req[q].op = "removeRole" =>
           \A u \in Users : Holds(req[q].role, u) => user[u] # "ACTIVO"
  PROVE  HoldersInv'
<1>1. req \in [Requests -> Request] /\ Sees(req[q])
  BY DEF GrantsInv, HoldersInv
<1>2. /\ \A o \in Requests \ {q} : req'[o] = req[o]
      /\ req'[q].pc = "write" /\ req'[q].op = req[q].op
      /\ req'[q].role = req[q].role /\ req'[q].thing = req[q].thing
      /\ req'[q].name = req[q].name
  BY <1>1, ToEffect DEF Stages
<1>3. RacesNoted
  BY GotoNotes DEF To
<1>4. UNCHANGED <<role, user>>
  BY DEF tables
<1>5. Sees(req[q])'
  BY <1>1, <1>2, <1>4 DEF Sees, Creating
<1>6. ~Creating(req'[q])
  BY <1>2 DEF Creating
<1>7. \A r \in Roles, u \in Users : Assigns1(req'[q], r, u) => Assigns1(req[q], r, u)
  BY <1>2 DEF Assigns1
<1>8. \A r \in Roles : Removes1(req'[q], r) =>
        \A u \in Users : Holds(r, u) => user[u] # "ACTIVO"
  BY <1>2 DEF Removes1
<1> QED
  BY <1>2, <1>3, <1>5, <1>6, <1>7, <1>8, ReadHolds

LEMMA StartHolds ==
  ASSUME GrantsInv, HoldersInv, NEW q \in Requests, Start(q)
  PROVE  HoldersInv'
<1>1. PICK W \in Workloads : \E op \in W.ops, a \in {r \in Roles : IsActive(role, r)} :
        \E b \in Bodies(op) :
          Goto(q, [pc |-> First(op), op |-> op, by |-> a,
                   super |-> role[a].name = SuperAdmin, role |-> b.role,
                   thing |-> b.thing, name |-> b.name, row |-> b.row])
  BY DEF Start
<1>2. PICK op \in W.ops, a \in Roles : \E b \in Bodies(op) :
        Goto(q, [pc |-> First(op), op |-> op, by |-> a,
                 super |-> role[a].name = SuperAdmin, role |-> b.role,
                 thing |-> b.thing, name |-> b.name, row |-> b.row])
  BY <1>1
<1>3. PICK b \in Bodies(op) :
        Goto(q, [pc |-> First(op), op |-> op, by |-> a,
                 super |-> role[a].name = SuperAdmin, role |-> b.role,
                 thing |-> b.thing, name |-> b.name, row |-> b.row])
  BY <1>2
<1>4. op \in Handlers
  BY WorkloadsAssumption
<1>5. PICK super : super = (role[a].name = SuperAdmin)
  OBVIOUS
<1> DEFINE new == [pc |-> First(op), op |-> op, by |-> a, super |-> super,
                   role |-> b.role, thing |-> b.thing, name |-> b.name, row |-> b.row]
<1>6. Goto(q, new)
  BY <1>3, <1>5
<1>7. req' = [req EXCEPT ![q] = new] /\ RacesNoted
  BY <1>6, GotoNotes DEF Goto
<1>8. /\ new.pc = First(op) /\ new.op = op /\ new.role = b.role
      /\ new.thing = b.thing /\ new.name = b.name
  OBVIOUS
<1> HIDE DEF new
<1>9. req'[q] = new /\ \A o \in Requests \ {q} : req'[o] = req[o]
  BY <1>7 DEF GrantsInv
<1>10. /\ op \in {"updateRole", "removeRole"} => b.role \in Roles
       /\ op \in {"createRole", "updateRole"} => b.name \in Names
       /\ op = "createUser" => b.role = None
  BY DEF Bodies, LinkOps, UserOps, AreaOps, PermissionOps
<1>11. /\ First(op) \in {"role", "thing"}
       /\ op \in {"assignUser", "updateRole", "removeRole"} => First(op) = "role"
  BY <1>4 DEF First, Handlers, LinkOps, UserOps, AreaOps, PermissionOps
<1>12. Sees(req[q])' /\ ~Creating(req'[q])
  BY <1>8, <1>9, <1>10, <1>11 DEF Sees, Creating
<1>13. \A r \in Roles, u \in Users : ~Assigns1(req'[q], r, u)
  BY <1>8, <1>9, <1>10, <1>11, NoneAssumption DEF Assigns1
<1>14. \A r \in Roles : ~Removes1(req'[q], r)
  BY <1>8, <1>9, <1>11 DEF Removes1
<1>15. UNCHANGED tables
  BY DEF Start
<1> QED
  BY <1>7, <1>9, <1>12, <1>13, <1>14, <1>15, ReadHolds

LEMMA ReadRoleHolds ==
  ASSUME GrantsInv, HoldersInv, NEW q \in Requests, ReadRole(q)
  PROVE  HoldersInv'
<1>1. UNCHANGED tables
  BY DEF ReadRole
<1>2. CASE To(q, "done")
  BY <1>1, <1>2, MovesOn
<1>3. CASE IsActive(role, req[q].role) /\ req[q].op = "updateRole" /\ To(q, "write")
  BY <1>1, <1>3, MovesToWrite DEF IsActive
<1>4. CASE IsActive(role, req[q].role) /\ To(q, "count")
  BY <1>1, <1>4, MovesOn DEF IsActive
<1>5. CASE IsActive(role, req[q].role) /\ To(q, "thing")
  BY <1>1, <1>5, MovesOn
<1> QED
  BY <1>2, <1>3, <1>4, <1>5 DEF ReadRole, If

(* The removal has seen that no active user holds the role.                *)
LEMMA CountUsersHolds ==
  ASSUME GrantsInv, HoldersInv, NEW q \in Requests, CountUsers(q)
  PROVE  HoldersInv'
<1>1. UNCHANGED tables /\ req[q].pc = "count" /\ req[q].op = "removeRole"
  BY DEF CountUsers, GrantsInv, Shaped
<1>2. role[req[q].role] # None
  BY <1>1 DEF HoldersInv, Sees
<1>3. CASE To(q, "done")
  BY <1>1, <1>3, MovesOn
<1>4. CASE /\ To(q, "write")
           /\ \A u \in Users : Holds(req[q].role, u) => user[u] # "ACTIVO"
  BY <1>1, <1>2, <1>4, MovesToWrite
<1> QED
  BY <1>3, <1>4 DEF CountUsers, If

LEMMA ReadThingHolds ==
  ASSUME GrantsInv, HoldersInv, NEW q \in Requests, ReadThing(q)
  PROVE  HoldersInv'
<1> DEFINE u == req[q].thing
<1>1. /\ UNCHANGED tables /\ req[q].pc = "thing"
      /\ req[q].op \notin {"createUser", "updateRole", "removeRole"}
  BY DEF ReadThing, UserOps, AreaOps
<1>2. CASE To(q, "done")
  BY <1>1, <1>2, MovesOn
<1>3. CASE To(q, "write") /\ Alive(u)
  <2>1. ASSUME req[q].op \in {"assignUser", "removeUser"}
        PROVE  user[u] # None
    <3>1. u \in Users /\ area \subseteq Areas
      BY <2>1 DEF GrantsInv, Shaped, UserOps
    <3>2. user[u] = "ACTIVO"
      BY <1>3, <3>1, KindsAssumption DEF Alive
    <3> QED
      BY <3>2, NoneAssumption DEF Estado
  <2> QED
    BY <1>1, <1>3, <2>1, MovesToWrite
<1> QED
  BY <1>2, <1>3 DEF ReadThing, If

LEMMA ReadUniqueHolds ==
  ASSUME GrantsInv, HoldersInv, NEW q \in Requests, ReadUnique(q)
  PROVE  HoldersInv'
<1>1. UNCHANGED tables
  BY DEF ReadUnique
<1>2. \/ To(q, "done") \/ To(q, "insert")
      \/ req[q].op \in {"createRole", "createPermission"} /\ To(q, "write")
  BY DEF ReadUnique, If
<1> QED
  BY <1>1, <1>2, MovesOn, MovesToWrite

LEMMA ReadPermissionHolds ==
  ASSUME GrantsInv, HoldersInv, NEW q \in Requests, ReadPermission(q)
  PROVE  HoldersInv'
<1> DEFINE p == req[q].thing
<1>1. UNCHANGED tables /\ req[q].op \in PermissionOps
  BY DEF ReadPermission
<1>2. CASE To(q, "done")
  BY <1>1, <1>2, MovesOn
<1>3. ASSUME NEW pc \in {"write", "granter"},
             Goto(q, [req[q] EXCEPT !.pc = pc, !.row = perm[p]])
      PROVE  HoldersInv'
  <2> DEFINE new == [req[q] EXCEPT !.pc = pc, !.row = perm[p]]
  <2>1. req' = [req EXCEPT ![q] = new] /\ RacesNoted
    BY <1>3, GotoNotes DEF Goto
  <2>2. new.op = req[q].op
    BY DEF GrantsInv, Request
  <2> HIDE DEF new
  <2>3. req'[q] = new /\ \A o \in Requests \ {q} : req'[o] = req[o]
    BY <2>1 DEF GrantsInv
  <2>4. Sees(req[q])' /\ ~Creating(req'[q])
    BY <1>1, <2>2, <2>3 DEF Sees, Creating, PermissionOps
  <2>5. \A r \in Roles, u \in Users : ~Assigns1(req'[q], r, u)
    BY <1>1, <2>2, <2>3 DEF Assigns1, PermissionOps
  <2>6. \A r \in Roles : ~Removes1(req'[q], r)
    BY <1>1, <2>2, <2>3 DEF Removes1, PermissionOps
  <2> QED
    BY <1>1, <2>1, <2>3, <2>4, <2>5, <2>6, ReadHolds
<1> QED
  BY <1>2, <1>3 DEF ReadPermission

LEMMA ReadGrantHolds ==
  ASSUME GrantsInv, HoldersInv, NEW q \in Requests, ReadGranter(q) \/ ReadHolder(q)
  PROVE  HoldersInv'
<1>1. UNCHANGED tables /\ req[q].op \in PermissionOps
  BY DEF ReadGranter, ReadHolder, GrantsInv, Shaped
<1>2. To(q, "done") \/ To(q, "holder") \/ To(q, "write")
  BY DEF ReadGranter, ReadHolder, If
<1> QED
  BY <1>1, <1>2, MovesOn, MovesToWrite DEF PermissionOps

(* One creation of a user at a time gets past the unique index.            *)
LEMMA InsertUserHolds ==
  ASSUME GrantsInv, HoldersInv, NEW q \in Requests, InsertUser(q)
  PROVE  HoldersInv'
<1> DEFINE u == req[q].thing
<1>1. /\ UNCHANGED tables /\ req[q].pc = "insert" /\ req[q].op = "createUser"
      /\ \A o \in Requests \ {q} : ~(Creating(req[o]) /\ req[o].thing = u)
  BY DEF InsertUser, Creating, GrantsInv, Shaped
<1>2. CASE To(q, "done")
  BY <1>1, <1>2, MovesOn
<1>3. CASE To(q, "default") /\ user[u] = None
  <2>1. /\ \A o \in Requests \ {q} : req'[o] = req[o]
        /\ req'[q].pc = "default" /\ req'[q].op = "createUser"
        /\ req'[q].role = req[q].role /\ req'[q].thing = u
    BY <1>1, <1>3, ToEffect DEF Stages, GrantsInv
  <2>2. RacesNoted
    BY <1>3, GotoNotes DEF To
  <2>3. Sees(req[q])'
    BY <1>1, <1>3, <2>1 DEF Sees, tables
  <2>4. \A r \in Roles, x \in Users : ~Assigns1(req'[q], r, x)
    BY <2>1 DEF Assigns1
  <2>5. \A r \in Roles : ~Removes1(req'[q], r)
    BY <2>1 DEF Removes1
  <2> QED
    BY <1>1, <2>1, <2>2, <2>3, <2>4, <2>5, ReadHolds
<1> QED
  BY <1>2, <1>3 DEF InsertUser, If

(* The role USER is found ACTIVE.                                          *)
LEMMA DefaultRoleHolds ==
  ASSUME GrantsInv, HoldersInv, NEW q \in Requests, DefaultRole(q)
  PROVE  HoldersInv'
<1>1. UNCHANGED tables /\ req[q].pc = "default" /\ req[q].op = "createUser"
  BY DEF DefaultRole, GrantsInv, Shaped
<1>2. CASE To(q, "done")
  BY <1>1, <1>2, MovesOn
<1>3. ASSUME NEW d \in Roles, IsActive(role, d),
             Goto(q, [req[q] EXCEPT !.pc = "write", !.role = d])
      PROVE  HoldersInv'
  <2> DEFINE new == [req[q] EXCEPT !.pc = "write", !.role = d]
  <2>1. req' = [req EXCEPT ![q] = new] /\ RacesNoted
    BY <1>3, GotoNotes DEF Goto
  <2>2. /\ new.op = "createUser" /\ new.pc = "write" /\ new.role = d
        /\ new.thing = req[q].thing
    BY <1>1 DEF GrantsInv, Request
  <2> HIDE DEF new
  <2>3. req'[q] = new /\ \A o \in Requests \ {q} : req'[o] = req[o]
    BY <2>1 DEF GrantsInv
  <2>4. Creating(req[q]) /\ user[req[q].thing] = None
    BY <1>1 DEF Creating, HoldersInv, Sees
  <2>5. Sees(req[q])'
    BY <1>1, <2>2, <2>3, <2>4 DEF Sees, tables
  <2>6. \A r \in Roles, u \in Users : Assigns1(req'[q], r, u) => IsActive(role, r)
    BY <1>3, <2>2, <2>3 DEF Assigns1
  <2>7. \A r \in Roles : ~Removes1(req'[q], r)
    BY <2>2, <2>3 DEF Removes1
  <2> QED
    BY <1>1, <2>1, <2>2, <2>3, <2>4, <2>5, <2>6, <2>7, ReadHolds
<1> QED
  BY <1>2, <1>3 DEF DefaultRole

(* Every call that reads.                                                  *)
LEMMA ReadsHold ==
  ASSUME GrantsInv, HoldersInv, NEW q \in Requests, Read(q)
  PROVE  HoldersInv'
BY ReadRoleHolds, CountUsersHolds, ReadThingHolds, ReadUniqueHolds,
   ReadPermissionHolds, ReadGrantHolds, InsertUserHolds, DefaultRoleHolds DEF Read

-----------------------------------------------------------------------------
(* Steps that write *)

(* A write ends its request. Rows stay, a user being created stays unseen, *)
(* a role goes out of use only by its removal, and whoever comes to hold   *)
(* one was being assigned to it.                                           *)
LEMMA WriteHolds ==
  ASSUME GrantsInv, HoldersInv, NEW q \in Requests, To(q, "done"),
         role' \in [Roles -> Role \cup {None}],
         user' \in [Users -> Estado \cup {None}],
         \A r \in Roles : role[r] # None => role'[r] # None,
         \A u \in Users : user[u] # None => user'[u] # None,
         \A o \in Requests \ {q} : Creating(req[o]) => user'[req[o].thing] = None,
         \A r \in Roles : role[r] = None /\ role'[r] # None => role'[r].active,
         \A r \in Roles : IsActive(role, r) => IsActive(role', r) \/ Removing(req, r),
         \A r \in Roles, u \in Users : Holds(r, u)' => user'[u] # None,
         \A r \in Roles, u \in Users :
           Holds(r, u)' /\ user'[u] = "ACTIVO" =>
             (Holds(r, u) /\ user[u] = "ACTIVO") \/ Assigning(req, r, u)
  PROVE  HoldersInv'
<1>1. req \in [Requests -> Request] /\ \A o \in Requests : Sees(req[o]) /\ Shaped(req[o])
  BY DEF GrantsInv, HoldersInv
<1>2. /\ \A o \in Requests \ {q} : req'[o] = req[o]
      /\ req'[q].pc = "done" /\ req'[q].op = req[q].op
      /\ req'[q].role = req[q].role /\ req'[q].thing = req[q].thing
      /\ req'[q].name = req[q].name
  BY <1>1, ToEffect DEF Stages
<1>3. RacesNoted
  BY GotoNotes DEF To
<1>4. \A r \in Roles, u \in Users :
        /\ Assigning(req', r, u) => Assigning(req, r, u)
        /\ Removing(req', r) => Removing(req, r)
  BY <1>2 DEF Assigning, Removing
<1>5. \A o \in Requests : Sees(req[o])'
  <2>1. ASSUME NEW o \in Requests \ {q} PROVE Sees(req[o])'
    <3>1. /\ Sees(req[o]) /\ req'[o] = req[o]
          /\ req[o].op \in {"assignUser", "removeUser"} => req[o].thing \in Users
      BY <1>1, <1>2 DEF Shaped, UserOps
    <3> QED
      BY <3>1 DEF Sees
  <2>2. Sees(req[q])'
    BY <1>1, <1>2 DEF Sees, Creating
  <2> QED
    BY <2>1, <2>2
<1>6. \A p, o \in Requests :
        (Creating(req[p]) /\ Creating(req[o]) /\ req[p].thing = req[o].thing)' => p = o
  BY <1>2 DEF HoldersInv, Creating
<1>7. ASSUME NEW r \in Roles, NEW u \in Users
      PROVE  /\ Assigning(req', r, u) => IsActive(role', r) \/ <<r, u>> \in raced'
             /\ Assigning(req', r, u) /\ Removing(req', r) => <<r, u>> \in raced'
             /\ Removing(req', r) /\ Holds(r, u)' /\ user'[u] = "ACTIVO"
                  => <<r, u>> \in raced'
  BY <1>3, <1>4 DEF HoldersInv, RacesNoted
<1>8. ASSUME NEW r \in Roles, NEW u \in Users, role'[r] # None, Holds(r, u)',
             user'[u] = "ACTIVO", <<r, u>> \notin raced'
      PROVE  role'[r].active
  <2>1. <<r, u>> \notin raced
    BY <1>3, <1>8 DEF RacesNoted
  <2>2. CASE role[r] = None
    BY <1>8, <2>2
  <2>3. CASE role[r] # None
    <3>1. (Holds(r, u) /\ user[u] = "ACTIVO") \/ Assigning(req, r, u)
      BY <1>8
    <3>2. IsActive(role, r)
      BY <2>1, <2>3, <3>1 DEF HoldersInv, SettledRolesStayActive, IsActive
    <3>3. ~Removing(req, r)
      BY <2>1, <3>1 DEF HoldersInv
    <3> QED
      BY <3>2, <3>3 DEF IsActive
  <2> QED
    BY <2>2, <2>3
<1>9. SettledRolesStayActive'
  BY <1>8 DEF SettledRolesStayActive
<1>10. \A r \in Roles : (IsActive(role, r))' <=> IsActive(role', r)
  BY DEF IsActive
<1> QED
  BY <1>5, <1>6, <1>7, <1>9, <1>10 DEF HoldersInv

(* Nobody asks for roles, users or who holds which.                        *)
LEMMA OtherWriteHolds ==
  ASSUME GrantsInv, HoldersInv, NEW q \in Requests, To(q, "done"),
         UNCHANGED <<role, user>>,
         \A r \in Roles, u \in Users : Holds(r, u)' => Holds(r, u)
  PROVE  HoldersInv'
<1>1. \A o \in Requests : Creating(req[o]) => user[req[o].thing] = None
  BY DEF HoldersInv, Sees
<1>2. \A r \in Roles : IsActive(role, r) => IsActive(role', r)
  BY DEF IsActive
<1> QED
  BY <1>1, <1>2, WriteHolds DEF HoldersInv

LEMMA CreateRoleHolds ==
  ASSUME GrantsInv, HoldersInv, NEW q \in Requests, CreateRole(q)
  PROVE  HoldersInv'
<1> DEFINE new == [name |-> req[q].name, active |-> TRUE]
<1>1. /\ To(q, "done") /\ UNCHANGED <<user, link>> /\ req[q].op = "createRole"
      /\ role \in [Roles -> Role \cup {None}]
  BY DEF CreateRole, HoldersInv
<1>2. new \in Role /\ new.active
  BY <1>1 DEF HoldersInv, Sees, Role
<1>3. CASE role' = role
  BY <1>1, <1>3, OtherWriteHolds DEF Holds
<1>4. ASSUME NEW c \in Roles, role[c] = None, role' = [role EXCEPT ![c] = new]
      PROVE  HoldersInv'
  <2> HIDE DEF new
  <2>1. role'[c] = new /\ \A r \in Roles \ {c} : role'[r] = role[r]
    BY <1>1, <1>4
  <2>2. role' \in [Roles -> Role \cup {None}]
    BY <1>1, <1>2, <1>4
  <2>3. new # None
    BY <1>2, NoneAssumption
  <2>4. \A o \in Requests : Creating(req[o]) => user'[req[o].thing] = None
    BY <1>1 DEF HoldersInv, Sees
  <2>5. \A r \in Roles : IsActive(role, r) => IsActive(role', r)
    BY <1>4, <2>1 DEF IsActive
  <2>6. \A r \in Roles, u \in Users : (Holds(r, u))' <=> Holds(r, u)
    BY <1>1 DEF Holds
  <2> QED
    BY <1>1, <1>2, <1>4, <2>1, <2>2, <2>3, <2>4, <2>5, <2>6, WriteHolds, ZenonT(60) DEF HoldersInv
<1> QED
  BY <1>3, <1>4 DEF CreateRole

(* A row of roles that is written over: if it goes out of use, its removal *)
(* does that.                                                              *)
LEMMA RoleRowHolds ==
  ASSUME GrantsInv, HoldersInv, NEW q \in Requests, To(q, "done"),
         UNCHANGED <<user, link>>,
         NEW c \in Roles, NEW new \in Role, role' = [role EXCEPT ![c] = new],
         role[c] # None,
         role[c].active => new.active \/ Removing(req, c)
  PROVE  HoldersInv'
<1>1. role \in [Roles -> Role \cup {None}]
  BY DEF HoldersInv
<1>2. /\ role'[c] = new /\ \A r \in Roles \ {c} : role'[r] = role[r]
      /\ role' \in [Roles -> Role \cup {None}] /\ new # None
  BY <1>1, NoneAssumption
<1>3. \A o \in Requests : Creating(req[o]) => user'[req[o].thing] = None
  BY DEF HoldersInv, Sees
<1>4. \A r \in Roles : IsActive(role, r) => IsActive(role', r) \/ Removing(req, r)
  BY <1>2 DEF IsActive
<1>5. \A r \in Roles, u \in Users : (Holds(r, u))' <=> Holds(r, u)
  BY DEF Holds
<1> QED
  BY <1>2, <1>3, <1>4, <1>5, WriteHolds DEF HoldersInv

LEMMA UpdateRoleHolds ==
  ASSUME GrantsInv, HoldersInv, NEW q \in Requests, UpdateRole(q)
  PROVE  HoldersInv'
<1> DEFINE r == req[q].role
           new == [name |-> req[q].name, active |-> role[r].active]
<1>1. /\ To(q, "done") /\ UNCHANGED <<user, link>>
      /\ req[q].op = "updateRole" /\ req[q].pc = "write"
      /\ role \in [Roles -> Role \cup {None}]
  BY DEF UpdateRole, HoldersInv
<1>2. r \in Roles /\ role[r] # None /\ req[q].name \in Names
  BY <1>1 DEF HoldersInv, Sees
<1>3. role[r] \in Role
  BY <1>1, <1>2
<1>4. new \in Role /\ (new.active <=> role[r].active)
  BY <1>2, <1>3 DEF Role
<1>5. CASE role' = role
  BY <1>1, <1>5, OtherWriteHolds DEF Holds
<1>6. CASE role' = [role EXCEPT ![r] = new]
  <2> HIDE DEF new
  <2> QED
    BY <1>1, <1>2, <1>4, <1>6, RoleRowHolds
<1> QED
  BY <1>1, <1>2, <1>5, <1>6 DEF UpdateRole

LEMMA RemoveRoleHolds ==
  ASSUME GrantsInv, HoldersInv, NEW q \in Requests, RemoveRole(q)
  PROVE  HoldersInv'
<1> DEFINE r == req[q].role
           new == [name |-> role[r].name, active |-> FALSE]
<1>1. /\ To(q, "done") /\ UNCHANGED <<user, link>>
      /\ req[q].op = "removeRole" /\ req[q].pc = "write"
      /\ role \in [Roles -> Role \cup {None}]
  BY DEF RemoveRole, HoldersInv
<1>2. r \in Roles /\ role[r] # None /\ Removing(req, r)
  BY <1>1 DEF HoldersInv, Sees, Removing
<1>3. role[r] \in Role
  BY <1>1, <1>2
<1>4. new \in Role
  BY <1>3 DEF Role
<1>5. role' = [role EXCEPT ![r] = new]
  BY <1>1, <1>2 DEF RemoveRole
<1> HIDE DEF new
<1> QED
  BY <1>1, <1>2, <1>4, <1>5, RoleRowHolds

(* An assignment is of a user that is there and whom it was to assign.     *)
LEMMA WriteLinkHolds ==
  ASSUME GrantsInv, HoldersInv, NEW q \in Requests, WriteLink(q)
  PROVE  HoldersInv'
<1> DEFINE r == req[q].role
           t == req[q].thing
<1>1. /\ To(q, "done") /\ UNCHANGED <<role, user>>
      /\ link \in [Roles -> [Things -> Estado \cup {None}]]
      /\ Shaped(req[q]) /\ Sees(req[q])
      /\ req[q].op \in LinkOps /\ req[q].pc = "write"
  BY DEF WriteLink, GrantsInv, HoldersInv
<1>2. r \in Roles /\ t \in Things
  BY <1>1 DEF Shaped, LinkOps, UserOps, AreaOps, PermissionOps, Things
<1>3. PICK v \in Estado \cup {None} :
        /\ link' = [link EXCEPT ![r][t] = v]
        /\ v = "ACTIVO" => Assigns(req[q].op) \/ link[r][t] = "ACTIVO"
  <2> DEFINE w == CASE Assigns(req[q].op) -> "ACTIVO"
                    [] link[r][t] = None -> None
                    [] OTHER -> "INACTIVO"
  <2>1. w \in Estado \cup {None}
    BY DEF Estado
  <2>2. w = "ACTIVO" => Assigns(req[q].op) \/ link[r][t] = "ACTIVO"
    BY NoneAssumption DEF Estado
  <2>3. link' = [link EXCEPT ![r][t] = w]
    BY <1>1, <1>2 DEF WriteLink
  <2> QED
    BY <2>1, <2>2, <2>3
<1>4. ASSUME NEW x \in Roles, NEW u \in Users, Holds(x, u)', ~Holds(x, u)
      PROVE  user[u] # None /\ Assigning(req, x, u)
  <2>1. x = r /\ u = t /\ v = "ACTIVO"
    BY <1>1, <1>2, <1>3, <1>4 DEF Holds, Things
  <2>2. Assigns(req[q].op)
    BY <1>3, <1>4, <2>1 DEF Holds
  <2>3. req[q].op = "assignUser"
    BY <1>1, <2>1, <2>2, KindsAssumption DEF Assigns, Shaped, AreaOps, PermissionOps
  <2> QED
    BY <1>1, <2>1, <2>3 DEF Sees, Assigning
<1>5. \A o \in Requests : Creating(req[o]) => user'[req[o].thing] = None
  BY <1>1 DEF HoldersInv, Sees
<1>6. \A x \in Roles : IsActive(role, x) => IsActive(role', x)
  BY <1>1 DEF IsActive
<1>7. \A x \in Roles, u \in Users : Holds(x, u)' =>
        /\ user'[u] # None
        /\ Holds(x, u) \/ Assigning(req, x, u)
  BY <1>1, <1>4 DEF HoldersInv
<1>8. /\ role' \in [Roles -> Role \cup {None}]
      /\ user' \in [Users -> Estado \cup {None}]
  BY <1>1 DEF HoldersInv
<1> QED
  BY <1>1, <1>5, <1>6, <1>7, <1>8, WriteHolds

(* Nobody else creates this user, so nobody else has seen that there is    *)
(* none; its role was found ACTIVE.                                        *)
LEMMA CommitUserHolds ==
  ASSUME GrantsInv, HoldersInv, NEW q \in Requests, CommitUser(q)
  PROVE  HoldersInv'
<1> DEFINE u == req[q].thing
           d == req[q].role
<1>1. /\ To(q, "done") /\ UNCHANGED role /\ u \in Users
      /\ req[q].pc = "write" /\ req[q].op = "createUser" /\ Creating(req[q])
      /\ user' = [user EXCEPT ![u] = "ACTIVO"]
      /\ link' = [link EXCEPT ![d][u] = "ACTIVO"]
  BY DEF CommitUser, GrantsInv, Shaped, Creating
<1>2. /\ link \in [Roles -> [Things -> Estado \cup {None}]]
      /\ user \in [Users -> Estado \cup {None}]
      /\ role' \in [Roles -> Role \cup {None}]
      /\ \A o \in Requests : Creating(req[o]) => user[req[o].thing] = None
  BY <1>1 DEF GrantsInv, HoldersInv, Sees
<1>3. /\ user' \in [Users -> Estado \cup {None}]
      /\ user'[u] = "ACTIVO" /\ \A x \in Users \ {u} : user'[x] = user[x]
  BY <1>1, <1>2 DEF Estado
<1>4. ASSUME NEW o \in Requests \ {q}, Creating(req[o])
      PROVE  user'[req[o].thing] = None
  <2>1. req[o].thing # u /\ req[o].thing \in Users
    BY <1>1, <1>4 DEF HoldersInv, GrantsInv, Shaped, Creating
  <2> QED
    BY <1>2, <1>3, <1>4, <2>1
<1>5. \A r \in Roles : IsActive(role, r) => IsActive(role', r)
  BY <1>1 DEF IsActive
<1>6. ASSUME NEW r \in Roles, NEW x \in Users, Holds(r, x)', ~Holds(r, x)
      PROVE  x = u /\ Assigning(req, r, x)
  <2>1. x = u /\ r = d
    BY <1>1, <1>2, <1>6 DEF Holds, Things
  <2> QED
    BY <1>1, <2>1 DEF Assigning
<1>7. \A x \in Users : user'[x] # None \/ user[x] = None
  BY <1>3, NoneAssumption DEF Estado
<1>8. \A r \in Roles, x \in Users : Holds(r, x)' => user'[x] # None
  BY <1>3, <1>6, <1>7, NoneAssumption DEF HoldersInv, Estado
<1>9. \A r \in Roles, x \in Users : Holds(r, x)' /\ user'[x] = "ACTIVO" =>
        (Holds(r, x) /\ user[x] = "ACTIVO") \/ Assigning(req, r, x)
  <2>1. ASSUME NEW r \in Roles, NEW x \in Users, Holds(r, x)', user'[x] = "ACTIVO"
        PROVE  (Holds(r, x) /\ user[x] = "ACTIVO") \/ Assigning(req, r, x)
    <3>1. CASE ~Holds(r, x)
      BY <1>6, <2>1, <3>1
    <3>2. CASE Holds(r, x)
      <4>1. x # u
        BY <1>1, <1>2, <3>2 DEF HoldersInv
      <4> QED
        BY <1>3, <2>1, <3>2, <4>1
    <3> QED
      BY <3>1, <3>2
  <2> QED
    BY <2>1
<1> QED
  BY <1>1, <1>2, <1>3, <1>4, <1>5, <1>7, <1>8, <1>9, WriteHolds

(* Nobody creates a user who is there to be removed.                       *)
LEMMA RemoveUserHolds ==
  ASSUME GrantsInv, HoldersInv, NEW q \in Requests, RemoveUser(q)
  PROVE  HoldersInv'
<1> DEFINE u == req[q].thing
<1>1. /\ To(q, "done") /\ UNCHANGED role /\ u \in Users
      /\ user' = [user EXCEPT ![u] = "INACTIVO"] /\ user[u] # None
  BY DEF RemoveUser, GrantsInv, HoldersInv, Shaped, Sees
<1>2. /\ link \in [Roles -> [Things -> Estado \cup {None}]]
      /\ user \in [Users -> Estado \cup {None}]
      /\ role' \in [Roles -> Role \cup {None}]
      /\ \A o \in Requests : Creating(req[o]) => user[req[o].thing] = None
  BY <1>1 DEF GrantsInv, HoldersInv, Sees
<1>3. /\ user' \in [Users -> Estado \cup {None}]
      /\ user'[u] = "INACTIVO" /\ \A x \in Users \ {u} : user'[x] = user[x]
  BY <1>1, <1>2 DEF Estado
<1>4. link' = [r \in Roles |-> [link[r] EXCEPT ![u] =
                 IF @ = "ACTIVO" THEN "INACTIVO" ELSE @]]
  BY DEF RemoveUser
<1>5. \A r \in Roles, x \in Users : Holds(r, x)' => Holds(r, x)
  BY <1>2, <1>4 DEF Holds, Things
<1>6. \A o \in Requests \ {q} : Creating(req[o]) => user'[req[o].thing] = None
  <2>1. ASSUME NEW o \in Requests \ {q}, Creating(req[o])
        PROVE  user'[req[o].thing] = None
    <3>1. user[req[o].thing] = None /\ req[o].thing \in Users
      BY <1>2, <2>1 DEF GrantsInv, Shaped, Creating
    <3> QED
      BY <1>1, <1>3, <3>1
  <2> QED
    BY <2>1
<1>7. \A r \in Roles : IsActive(role, r) => IsActive(role', r)
  BY <1>1 DEF IsActive
<1>8. \A x \in Users : user[x] # None => user'[x] # None
  BY <1>3, NoneAssumption DEF Estado
<1>9. \A r \in Roles, x \in Users : Holds(r, x)' =>
        /\ user'[x] # None
        /\ user'[x] = "ACTIVO" => Holds(r, x) /\ user[x] = "ACTIVO"
  BY <1>3, <1>5, <1>8 DEF HoldersInv
<1> QED
  BY <1>1, <1>2, <1>3, <1>6, <1>7, <1>8, <1>9, WriteHolds

LEMMA RemoveAreaHolds ==
  ASSUME GrantsInv, HoldersInv, NEW q \in Requests, RemoveArea(q)
  PROVE  HoldersInv'
<1> DEFINE a == req[q].thing
<1>1. /\ link \in [Roles -> [Things -> Estado \cup {None}]]
      /\ To(q, "done") /\ UNCHANGED <<role, user>>
  BY DEF RemoveArea, GrantsInv
<1>2. link' = [r \in Roles |-> [link[r] EXCEPT ![a] =
                 IF @ = "ACTIVO" THEN "INACTIVO" ELSE @]]
  BY DEF RemoveArea
<1>3. \A r \in Roles, u \in Users : Holds(r, u)' => Holds(r, u)
  BY <1>1, <1>2 DEF Holds, Things
<1> QED
  BY <1>1, <1>3, OtherWriteHolds

(* Every call that writes.                                                 *)
LEMMA WritesHold ==
  ASSUME GrantsInv, HoldersInv, NEW q \in Requests, Write(q)
  PROVE  HoldersInv'
<1>1. ASSUME CreatePermission(q) \/ UpdatePermission(q) \/ RemovePermission(q)
      PROVE  HoldersInv'
  <2>1. To(q, "done") /\ UNCHANGED <<role, user, link>>
    BY <1>1 DEF CreatePermission, UpdatePermission, RemovePermission
  <2> QED
    BY <2>1, OtherWriteHolds DEF Holds
<1> QED
  BY <1>1, CreateRoleHolds, UpdateRoleHolds, RemoveRoleHolds, WriteLinkHolds,
     CommitUserHolds, RemoveUserHolds, RemoveAreaHolds DEF Write

-----------------------------------------------------------------------------
(* The invariant *)

LEMMA HoldersInit == Init => HoldersInv
<1> SUFFICES ASSUME Init PROVE HoldersInv
  OBVIOUS
<1>1. \A q \in Requests : req[q].op = None
  BY DEF Init, NoRequest
<1>2. \A h \in Handlers : h # None
  BY NoneAssumption
<1>3. \A q \in Requests : Sees(req[q]) /\ ~Creating(req[q])
  BY <1>1, <1>2 DEF Sees, Creating, Handlers, LinkOps, UserOps
<1>4. \A r \in Roles, u \in Users : ~Assigning(req, r, u) /\ ~Removing(req, r)
  BY <1>1, <1>2 DEF Assigning, Removing, Handlers, LinkOps, UserOps
<1>5. /\ role \in [Roles -> Role \cup {None}]
      /\ user \in [Users -> Estado \cup {None}]
  BY SeedAssumption DEF Init, Estado
<1>6. ASSUME NEW r \in Roles, NEW u \in Users, Holds(r, u)
      PROVE  user[u] # None /\ role[r].active
  <2>1. <<r, u>> \in SeededLink
    BY <1>6, NoneAssumption DEF Init, Holds, Estado, Things
  <2>2. user[u] = "ACTIVO"
    BY <2>1 DEF Init
  <2>3. SeededRole[<<r, u>>[1]].active /\ <<r, u>>[1] = r
    BY <2>1, SeedAssumption
  <2> QED
    BY <2>2, <2>3, NoneAssumption DEF Init, Estado
<1> QED
  BY <1>3, <1>4, <1>5, <1>6 DEF HoldersInv, SettledRolesStayActive

LEMMA HoldersNext == GrantsInv /\ HoldersInv /\ [Next]_vars => HoldersInv'
<1> SUFFICES ASSUME GrantsInv, HoldersInv, [Next]_vars PROVE HoldersInv'
  OBVIOUS
<1>1. CASE UNCHANGED vars
  <2>1. UNCHANGED <<role, user, link, req, raced>>
    BY <1>1 DEF vars, tables
  <2> QED
    BY <2>1 DEF HoldersInv, Sees, Creating, Holds, IsActive, Assigning, Removing,
       SettledRolesStayActive
<1>2. CASE Next
  BY <1>2, StartHolds, ReadsHold, WritesHold DEF Next
<1> QED
  BY <1>1, <1>2

(* What assignments, removals and creations have seen of roles and users   *)
(* stays so until they write, or the race is noted: the invariant behind   *)
(* RolesStayActive.                                                        *)
THEOREM HoldersInvariance == Spec => []HoldersInv
BY HoldersInit, HoldersNext, GrantsInvariance, PTL DEF Spec

(* The count in RolesService.remove (roles.service.ts:164) is enough       *)
(* whenever no assignment of the role is under way with the removal: only  *)
(* such a race leaves an active user in an inactive role.                  *)
THEOREM RolesStayActive == Spec => []SettledRolesStayActive
<1>1. HoldersInv => SettledRolesStayActive
  BY DEF HoldersInv
<1> QED
  BY <1>1, HoldersInvariance, PTL

-----------------------------------------------------------------------------
(***************************************************************************)
(* That a link is of a role that is there and a user begins with a role,   *)
(* for every set of roles, users, requests and workloads: LinksInv is      *)
(* inductive next to GrantsInv and HoldersInv. Type correctness follows    *)
(* from the three.                                                         *)
(***************************************************************************)

(* What a request has found of its role stays so, and what is noted are    *)
(* roles and users.                                                        *)
LEMMA LinksStay ==
  ASSUME GrantsInv, LinksInv, NEW q \in Requests,
         \A o \in Requests \ {q} : req'[o] = req[o],
         Linking(req'[q]) =>
           req'[q].role \in Roles /\ role'[req'[q].role] # None,
         \A r \in Roles : role[r] # None => role'[r] # None,
         granted' \subseteq Roles \X Perms,
         delegated' \subseteq Perms, recoded' \subseteq Perms,
         raced' \subseteq Roles \X Users,
         \A r \in Roles, t \in Things : link'[r][t] # None => role'[r] # None,
         \A u \in Users : user'[u] # None => \E r \in Roles : link'[r][u] # None
  PROVE  LinksInv'
<1>1. ASSUME NEW o \in Requests, Linking(req'[o])
      PROVE  req'[o].role \in Roles /\ role'[req'[o].role] # None
  <2>1. CASE o = q
    BY <1>1, <2>1
  <2>2. CASE o # q
    BY <1>1, <2>2 DEF LinksInv
  <2> QED
    BY <2>1, <2>2
<1>2. UsersBeginWithRole'
  BY DEF UsersBeginWithRole
<1>3. \A o \in Requests : Linking(req[o])' <=> Linking(req'[o])
  BY DEF Linking
<1> QED
  BY <1>1, <1>2, <1>3 DEF LinksInv

LEMMA RacesAreTyped ==
  ASSUME LinksInv, NEW q, NEW next, Goto(q, next)
  PROVE  raced' \subseteq Roles \X Users
BY DEF LinksInv, Goto

(* A call that reads changes no row: what is asked is that a request which *)
(* goes on to write a link has found its role.                             *)
LEMMA ReadLinks ==
  ASSUME GrantsInv, LinksInv, NEW q \in Requests, NEW next, Goto(q, next),
         UNCHANGED <<tables, history>>,
         Linking(next) => next.role \in Roles /\ role[next.role] # None
  PROVE  LinksInv'
<1>1. UNCHANGED <<role, user, link, granted, delegated, recoded>>
  BY DEF tables, history
<1>2. req'[q] = next /\ \A o \in Requests \ {q} : req'[o] = req[o]
  BY DEF Goto, GrantsInv
<1>3. raced' \subseteq Roles \X Users
  BY RacesAreTyped
<1>4. /\ granted' \subseteq Roles \X Perms
      /\ delegated' \subseteq Perms /\ recoded' \subseteq Perms
      /\ \A r \in Roles, t \in Things : link'[r][t] # None => role'[r] # None
      /\ \A u \in Users : user'[u] # None => \E r \in Roles : link'[r][u] # None
  BY <1>1 DEF LinksInv, UsersBeginWithRole
<1>5. \A r \in Roles : role[r] # None => role'[r] # None
  BY <1>1
<1>6. Linking(req'[q]) => req'[q].role \in Roles /\ role'[req'[q].role] # None
  BY <1>1, <1>2
<1> QED
  BY <1>2, <1>3, <1>4, <1>5, <1>6, LinksStay

LEMMA MovesLinks ==
  ASSUME GrantsInv, LinksInv, NEW q \in Requests, NEW pc \in Stages, To(q, pc),
         UNCHANGED <<tables, history>>,
         pc \in {"thing", "granter", "holder", "write"} =>
           /\ req[q].op # "createUser"
           /\ \/ req[q].op \notin LinkOps
              \/ Linking(req[q])
              \/ role[req[q].role] # None
  PROVE  LinksInv'
<1> DEFINE next == [req[q] EXCEPT !.pc = pc]
<1>1. Goto(q, next)
  BY DEF To
<1>2. next.pc = pc /\ next.op = req[q].op /\ next.role = req[q].role
  BY DEF GrantsInv, Request
<1> HIDE DEF next
<1>3. req[q].op \in LinkOps => req[q].role \in Roles
  BY DEF GrantsInv, Shaped
<1>4. ASSUME Linking(next) PROVE next.role \in Roles /\ role[next.role] # None
  <2>1. req[q].op \in LinkOps /\ pc \in {"thing", "granter", "holder", "write"}
    BY <1>2, <1>4 DEF Linking
  <2> QED
    BY <1>2, <1>3, <2>1 DEF LinksInv
<1> QED
  BY <1>1, <1>4, ReadLinks

(* A request that begins has found nothing yet: its first call is of its   *)
(* role, or it is about no link.                                           *)
LEMMA StartLinks ==
  ASSUME GrantsInv, LinksInv, NEW q \in Requests, Start(q)
  PROVE  LinksInv'
<1>1. PICK W \in Workloads : \E op \in W.ops, a \in {r \in Roles : IsActive(role, r)} :
        \E b \in Bodies(op) :
          Goto(q, [pc |-> First(op), op |-> op, by |-> a,
                   super |-> role[a].name = SuperAdmin, role |-> b.role,
                   thing |-> b.thing, name |-> b.name, row |-> b.row])
  BY DEF Start
<1>2. PICK op \in W.ops, a \in Roles : \E b \in Bodies(op) :
        Goto(q, [pc |-> First(op), op |-> op, by |-> a,
                 super |-> role[a].name = SuperAdmin, role |-> b.role,
                 thing |-> b.thing, name |-> b.name, row |-> b.row])
  BY <1>1
<1>3. PICK b \in Bodies(op) :
        Goto(q, [pc |-> First(op), op |-> op, by |-> a,
                 super |-> role[a].name = SuperAdmin, role |-> b.role,
                 thing |-> b.thing, name |-> b.name, row |-> b.row])
  BY <1>2
<1>4. op \in Handlers
  BY WorkloadsAssumption
<1>5. PICK super : super = (role[a].name = SuperAdmin)
  OBVIOUS
<1> DEFINE new == [pc |-> First(op), op |-> op, by |-> a, super |-> super,
                   role |-> b.role, thing |-> b.thing, name |-> b.name, row |-> b.row]
<1>6. Goto(q, new)
  BY <1>3, <1>5
<1>7. new.pc = First(op) /\ new.op = op
  OBVIOUS
<1> HIDE DEF new
<1>8. /\ op \in LinkOps => First(op) = "role"
      /\ op = "createUser" => First(op) = "thing"
  BY DEF First, LinkOps, UserOps, AreaOps, PermissionOps
<1>9. ~Linking(new)
  BY <1>7, <1>8 DEF Linking
<1>10. UNCHANGED <<tables, history>>
  BY DEF Start
<1> QED
  BY <1>6, <1>9, <1>10, ReadLinks

LEMMA ReadRoleLinks ==
  ASSUME GrantsInv, LinksInv, NEW q \in Requests, ReadRole(q), HoldersInv
  PROVE  LinksInv'
<1>1. UNCHANGED <<tables, history>> /\ req[q].pc = "role"
  BY DEF ReadRole
<1>2. CASE To(q, "done")
  BY <1>1, <1>2, MovesLinks DEF Stages
<1>3. CASE req[q].op = "updateRole" /\ To(q, "write")
  BY <1>1, <1>3, MovesLinks DEF Stages, LinkOps, UserOps, AreaOps, PermissionOps
<1>4. CASE To(q, "count")
  BY <1>1, <1>4, MovesLinks DEF Stages
<1>5. CASE role[req[q].role] # None /\ To(q, "thing")
  <2> DEFINE next == [req[q] EXCEPT !.pc = "thing"]
  <2>1. Goto(q, next)
    BY <1>5 DEF To
  <2>2. next.pc = "thing" /\ next.op = req[q].op /\ next.role = req[q].role
    BY DEF GrantsInv, Request
  <2> HIDE DEF next
  <2>3. req[q].op \in LinkOps => req[q].role \in Roles
    BY DEF GrantsInv, Shaped
  <2>4. Linking(next) => next.role \in Roles /\ role[next.role] # None
    BY <1>5, <2>2, <2>3 DEF Linking
  <2> QED
    BY <1>1, <2>1, <2>4, ReadLinks
<1> QED
  BY <1>2, <1>3, <1>4, <1>5 DEF ReadRole, If, IsActive

(* The calls between that of the role and the write.                       *)
LEMMA CheckLinks ==
  ASSUME GrantsInv, LinksInv, NEW q \in Requests,
         CountUsers(q) \/ ReadThing(q) \/ ReadUnique(q)
           \/ ReadGranter(q) \/ ReadHolder(q) \/ InsertUser(q)
  PROVE  LinksInv'
<1>1. UNCHANGED <<tables, history>>
  BY DEF CountUsers, ReadThing, ReadUnique, ReadGranter, ReadHolder, InsertUser
<1>2. Shaped(req[q])
  BY DEF GrantsInv
<1>3. CASE To(q, "done") \/ To(q, "insert") \/ To(q, "default")
  BY <1>1, <1>3, MovesLinks DEF Stages
<1>4. CASE CountUsers(q) /\ To(q, "write")
  <2>1. req[q].op = "removeRole"
    BY <1>2, <1>4 DEF CountUsers, Shaped
  <2> QED
    BY <1>1, <1>4, <2>1, MovesLinks DEF Stages, LinkOps, UserOps, AreaOps, PermissionOps
<1>5. CASE ReadThing(q) /\ To(q, "write")
  <2>1. req[q].op # "createUser" /\ (req[q].op \in LinkOps => Linking(req[q]))
    BY <1>5 DEF ReadThing, Linking, UserOps, AreaOps
  <2> QED
    BY <1>1, <1>5, <2>1, MovesLinks DEF Stages
<1>6. CASE req[q].op \in {"createRole", "createPermission"} /\ To(q, "write")
  BY <1>1, <1>6, MovesLinks DEF Stages, LinkOps, UserOps, AreaOps, PermissionOps
<1>7. CASE (ReadGranter(q) \/ ReadHolder(q)) /\ (To(q, "holder") \/ To(q, "write"))
  <2>1. req[q].op \in PermissionOps
    BY <1>2, <1>7 DEF ReadGranter, ReadHolder, Shaped
  <2>2. req[q].op # "createUser" /\ Linking(req[q])
    BY <1>7, <2>1 DEF ReadGranter, ReadHolder, Linking, LinkOps, PermissionOps
  <2> QED
    BY <1>1, <1>7, <2>2, MovesLinks DEF Stages
<1> QED
  BY <1>3, <1>4, <1>5, <1>6, <1>7
     DEF CountUsers, ReadThing, ReadUnique, ReadGranter, ReadHolder, InsertUser, If

LEMMA ReadPermissionLinks ==
  ASSUME GrantsInv, LinksInv, NEW q \in Requests, ReadPermission(q)
  PROVE  LinksInv'
<1>1. /\ UNCHANGED <<tables, history>>
      /\ req[q].op \in PermissionOps /\ req[q].pc = "thing"
  BY DEF ReadPermission
<1>2. CASE To(q, "done")
  BY <1>1, <1>2, MovesLinks DEF Stages
<1>3. ASSUME NEW pc, Goto(q, [req[q] EXCEPT !.pc = pc, !.row = perm[req[q].thing]])
      PROVE  LinksInv'
  <2> DEFINE next == [req[q] EXCEPT !.pc = pc, !.row = perm[req[q].thing]]
  <2>1. next.role = req[q].role
    BY DEF GrantsInv, Request
  <2> HIDE DEF next
  <2>2. req[q].role \in Roles /\ role[req[q].role] # None
    BY <1>1 DEF LinksInv, Linking, LinkOps
  <2>3. Goto(q, next)
    BY <1>3 DEF next
  <2> QED
    BY <1>1, <2>1, <2>2, <2>3, ReadLinks
<1> QED
  BY <1>2, <1>3 DEF ReadPermission

(* The transaction of create goes on with the role USER it found.          *)
LEMMA DefaultRoleLinks ==
  ASSUME GrantsInv, LinksInv, NEW q \in Requests, DefaultRole(q)
  PROVE  LinksInv'
<1>1. UNCHANGED <<tables, history>>
  BY DEF DefaultRole
<1>2. CASE To(q, "done")
  BY <1>1, <1>2, MovesLinks DEF Stages
<1>3. ASSUME NEW d \in Roles, IsActive(role, d),
             Goto(q, [req[q] EXCEPT !.pc = "write", !.role = d])
      PROVE  LinksInv'
  <2> DEFINE next == [req[q] EXCEPT !.pc = "write", !.role = d]
  <2>1. next.role = d
    BY DEF GrantsInv, Request
  <2> HIDE DEF next
  <2>2. role[d] # None
    BY <1>3 DEF IsActive
  <2>3. Goto(q, next)
    BY <1>3 DEF next
  <2> QED
    BY <1>1, <2>1, <2>2, <2>3, ReadLinks
<1> QED
  BY <1>2, <1>3 DEF DefaultRole

LEMMA ReadsKeepLinks ==
  ASSUME GrantsInv, HoldersInv, LinksInv, NEW q \in Requests, Read(q)
  PROVE  LinksInv'
BY ReadRoleLinks, CheckLinks, ReadPermissionLinks, DefaultRoleLinks DEF Read

-----------------------------------------------------------------------------
(* Steps that write *)

(* Rows and links stay; a new link is of a role that is there, and a new   *)
(* user has one.                                                           *)
LEMMA WriteLinks ==
  ASSUME GrantsInv, LinksInv, NEW q \in Requests, To(q, "done"),
         \A r \in Roles : role[r] # None => role'[r] # None,
         granted' \subseteq Roles \X Perms,
         delegated' \subseteq Perms, recoded' \subseteq Perms,
         \A r \in Roles, t \in Things :
           /\ link[r][t] # None => link'[r][t] # None
           /\ link'[r][t] # None => link[r][t] # None \/ role'[r] # None,
         \A u \in Users :
           user'[u] # None => user[u] # None \/ \E r \in Roles : link'[r][u] # None
  PROVE  LinksInv'
<1>1. req \in [Requests -> Request]
  BY DEF GrantsInv
<1>2. req'[q].pc = "done" /\ \A o \in Requests \ {q} : req'[o] = req[o]
  BY <1>1, ToEffect DEF Stages
<1>3. ~Linking(req'[q])
  BY <1>2 DEF Linking
<1>4. raced' \subseteq Roles \X Users
  BY RacesAreTyped DEF To
<1>5. \A r \in Roles, t \in Things : link'[r][t] # None => role'[r] # None
  BY DEF LinksInv
<1>6. ASSUME NEW u \in Users, user'[u] # None
      PROVE  \E r \in Roles : link'[r][u] # None
  <2>1. CASE user[u] # None
    <3>1. PICK r \in Roles : link[r][u] # None
      BY <2>1 DEF LinksInv, UsersBeginWithRole
    <3> QED
      BY <3>1 DEF Things
  <2>2. CASE user[u] = None
    BY <1>6, <2>2
  <2> QED
    BY <2>1, <2>2
<1> QED
  BY <1>2, <1>3, <1>4, <1>5, <1>6, LinksStay

LEMMA RoleLinks ==
  ASSUME GrantsInv, HoldersInv, LinksInv, NEW q \in Requests,
         CreateRole(q) \/ UpdateRole(q) \/ RemoveRole(q)
  PROVE  LinksInv'
<1>1. To(q, "done") /\ UNCHANGED <<user, link, granted, delegated, recoded>>
  BY DEF CreateRole, UpdateRole, RemoveRole, history
<1>2. role \in [Roles -> Role \cup {None}] /\ Sees(req[q])
  BY DEF HoldersInv
<1>3. \A r \in Roles : role[r] # None => role'[r] # None
  <2>1. ASSUME NEW r \in Roles, NEW new \in Role, role' = [role EXCEPT ![r] = new]
        PROVE  \A x \in Roles : role[x] # None => role'[x] # None
    BY <1>2, <2>1, NoneAssumption
  <2>2. CASE role' = role
    BY <2>2
  <2>3. CASE CreateRole(q)
    <3> DEFINE new == [name |-> req[q].name, active |-> TRUE]
    <3>1. new \in Role
      BY <1>2, <2>3 DEF CreateRole, Sees, Role
    <3> HIDE DEF new
    <3>2. role' = role \/ \E r \in Roles : role' = [role EXCEPT ![r] = new]
      BY <2>3 DEF CreateRole, new
    <3> QED
      BY <2>1, <2>2, <3>1, <3>2
  <2>4. CASE UpdateRole(q)
    <3> DEFINE r == req[q].role
               new == [name |-> req[q].name, active |-> role[r].active]
    <3>1. r \in Roles /\ role[r] # None /\ req[q].name \in Names
      BY <1>2, <2>4 DEF UpdateRole, Sees
    <3>2. new \in Role
      BY <1>2, <3>1 DEF Role
    <3>3. role' = role \/ role' = [role EXCEPT ![r] = new]
      BY <1>2, <2>4, <3>1 DEF UpdateRole
    <3> HIDE DEF new
    <3> QED
      BY <2>1, <2>2, <3>1, <3>2, <3>3
  <2>5. CASE RemoveRole(q)
    <3> DEFINE r == req[q].role
               new == [name |-> role[r].name, active |-> FALSE]
    <3>1. r \in Roles /\ role[r] # None
      BY <1>2, <2>5 DEF RemoveRole, Sees
    <3>2. new \in Role
      BY <1>2, <3>1 DEF Role
    <3>3. role' = [role EXCEPT ![r] = new]
      BY <1>2, <2>5, <3>1 DEF RemoveRole
    <3> HIDE DEF new
    <3> QED
      BY <2>1, <3>1, <3>2, <3>3
  <2> QED
    BY <2>3, <2>4, <2>5
<1>4. /\ granted' \subseteq Roles \X Perms
      /\ delegated' \subseteq Perms /\ recoded' \subseteq Perms
  BY <1>1 DEF LinksInv
<1> QED
  BY <1>1, <1>3, <1>4, WriteLinks

LEMMA PermissionLinks ==
  ASSUME GrantsInv, LinksInv, NEW q \in Requests,
         CreatePermission(q) \/ UpdatePermission(q) \/ RemovePermission(q)
  PROVE  LinksInv'
<1>1. To(q, "done") /\ UNCHANGED <<role, user, link, granted>>
  BY DEF CreatePermission, UpdatePermission, RemovePermission, history
<1>2. UpdatePermission(q) => req[q].thing \in Perms
  BY DEF UpdatePermission, GrantsInv, Shaped
<1>3. delegated' \subseteq delegated \cup Perms /\ recoded' \subseteq recoded \cup Perms
  BY <1>2 DEF CreatePermission, UpdatePermission, RemovePermission, history
<1>4. /\ granted' \subseteq Roles \X Perms
      /\ delegated' \subseteq Perms /\ recoded' \subseteq Perms
  BY <1>1, <1>3 DEF LinksInv
<1> QED
  BY <1>1, <1>4, WriteLinks

(* upsert and update write the link of a role that was found.              *)
LEMMA WriteLinkLinks ==
  ASSUME GrantsInv, LinksInv, NEW q \in Requests, WriteLink(q)
  PROVE  LinksInv'
<1> DEFINE r == req[q].role
           t == req[q].thing
<1>1. /\ To(q, "done") /\ UNCHANGED <<role, user, delegated, recoded>>
      /\ link \in [Roles -> [Things -> Estado \cup {None}]]
      /\ Shaped(req[q]) /\ req[q].op \in LinkOps /\ Linking(req[q])
  BY DEF WriteLink, GrantsInv, Linking
<1>2. r \in Roles /\ t \in Things /\ role[r] # None
  BY <1>1 DEF Shaped, LinkOps, UserOps, AreaOps, PermissionOps, Things, LinksInv
<1>3. granted' \subseteq Roles \X Perms
  <2>1. req[q].op = "assignPermission" => t \in Perms
    BY <1>1 DEF Shaped, PermissionOps
  <2>2. granted' = granted \/ (t \in Perms /\ granted' = granted \cup {<<r, t>>})
    BY <2>1 DEF WriteLink
  <2> QED
    BY <1>2, <2>2 DEF LinksInv
<1>4. PICK v \in Estado \cup {None} :
        /\ link' = [link EXCEPT ![r][t] = v]
        /\ v = None => link[r][t] = None
  <2> DEFINE w == CASE Assigns(req[q].op) -> "ACTIVO"
                    [] link[r][t] = None -> None
                    [] OTHER -> "INACTIVO"
  <2>1. w \in Estado \cup {None}
    BY DEF Estado
  <2>2. w = None => link[r][t] = None
    BY NoneAssumption DEF Estado
  <2>3. link' = [link EXCEPT ![r][t] = w]
    BY <1>1, <1>2 DEF WriteLink
  <2> QED
    BY <2>1, <2>2, <2>3
<1>5. \A x \in Roles, y \in Things :
        /\ link[x][y] # None => link'[x][y] # None
        /\ link'[x][y] # None => link[x][y] # None \/ role'[x] # None
  BY <1>1, <1>2, <1>4
<1>6. delegated' \subseteq Perms /\ recoded' \subseteq Perms
  BY <1>1 DEF LinksInv
<1> QED
  BY <1>1, <1>3, <1>5, <1>6, WriteLinks

(* The user and its link to the role that was found, in one step.          *)
LEMMA CommitUserLinks ==
  ASSUME GrantsInv, HoldersInv, LinksInv, NEW q \in Requests, CommitUser(q)
  PROVE  LinksInv'
<1> DEFINE d == req[q].role
           u == req[q].thing
<1>1. /\ To(q, "done") /\ UNCHANGED <<role, granted, delegated, recoded>>
      /\ link \in [Roles -> [Things -> Estado \cup {None}]]
      /\ user \in [Users -> Estado \cup {None}]
      /\ u \in Users /\ Linking(req[q])
      /\ user' = [user EXCEPT ![u] = "ACTIVO"]
      /\ link' = [link EXCEPT ![d][u] = "ACTIVO"]
  BY DEF CommitUser, GrantsInv, HoldersInv, Shaped, Linking, history
<1>2. d \in Roles /\ role[d] # None
  BY <1>1 DEF LinksInv
<1>3. link'[d][u] = "ACTIVO" /\ "ACTIVO" # None
  BY <1>1, <1>2, NoneAssumption DEF Things, Estado
<1>4. \A x \in Roles, y \in Things : link'[x][y] = link[x][y] \/ (x = d /\ y = u)
  BY <1>1
<1>5. \A x \in Users : user'[x] = user[x] \/ x = u
  BY <1>1
<1>6. \A x \in Roles, y \in Things :
        /\ link[x][y] # None => link'[x][y] # None
        /\ link'[x][y] # None => link[x][y] # None \/ role'[x] # None
  BY <1>1, <1>2, <1>3, <1>4
<1>7. \A x \in Users :
        user'[x] # None => user[x] # None \/ \E r \in Roles : link'[r][x] # None
  BY <1>2, <1>3, <1>5
<1>8. /\ granted' \subseteq Roles \X Perms
      /\ delegated' \subseteq Perms /\ recoded' \subseteq Perms
  BY <1>1 DEF LinksInv
<1> QED
  BY <1>1, <1>6, <1>7, <1>8, WriteLinks

(* Links go INACTIVO with their user or area, and stay.                    *)
LEMMA RemoveThingLinks ==
  ASSUME GrantsInv, HoldersInv, LinksInv, NEW q \in Requests,
         RemoveUser(q) \/ RemoveArea(q)
  PROVE  LinksInv'
<1> DEFINE t == req[q].thing
<1>1. /\ To(q, "done") /\ UNCHANGED <<role, granted, delegated, recoded>>
      /\ link \in [Roles -> [Things -> Estado \cup {None}]]
      /\ link' = [r \in Roles |-> [link[r] EXCEPT ![t] =
                    IF @ = "ACTIVO" THEN "INACTIVO" ELSE @]]
  BY DEF RemoveUser, RemoveArea, GrantsInv, history
<1>2. "ACTIVO" # None /\ "INACTIVO" # None
  BY NoneAssumption DEF Estado
<1>3. \A x \in Roles, y \in Things :
        \/ link'[x][y] = link[x][y]
        \/ link[x][y] = "ACTIVO" /\ link'[x][y] = "INACTIVO"
  BY <1>1
<1>4. \A u \in Users : user'[u] # None => user[u] # None
  <2>1. CASE UNCHANGED user
    BY <2>1
  <2>2. CASE RemoveUser(q)
    <3>1. user[t] # None
      BY <2>2 DEF RemoveUser, HoldersInv, Sees
    <3>2. user' = [user EXCEPT ![t] = "INACTIVO"] /\ user \in [Users -> Estado \cup {None}]
      BY <2>2 DEF RemoveUser, HoldersInv
    <3> QED
      BY <3>1, <3>2
  <2> QED
    BY <2>1, <2>2 DEF RemoveArea
<1>5. \A x \in Roles, y \in Things :
        /\ link[x][y] # None => link'[x][y] # None
        /\ link'[x][y] # None => link[x][y] # None \/ role'[x] # None
  BY <1>2, <1>3
<1>6. /\ granted' \subseteq Roles \X Perms
      /\ delegated' \subseteq Perms /\ recoded' \subseteq Perms
  BY <1>1 DEF LinksInv
<1>7. \A r \in Roles : role[r] # None => role'[r] # None
  BY <1>1
<1> QED
  BY <1>1, <1>4, <1>5, <1>6, <1>7, WriteLinks

-----------------------------------------------------------------------------
(* The invariant *)

LEMMA LinksInit == Init => LinksInv
<1> SUFFICES ASSUME Init PROVE LinksInv
  OBVIOUS
<1>1. \A q \in Requests : req[q].op = None
  BY DEF Init, NoRequest
<1>2. \A h \in Handlers : h # None
  BY NoneAssumption
<1>3. \A q \in Requests : ~Linking(req[q])
  BY <1>1, <1>2 DEF Linking, Handlers
<1>4. ASSUME NEW r \in Roles, NEW t \in Things, link[r][t] # None
      PROVE  role[r] # None
  <2>1. <<r, t>> \in SeededLink
    BY <1>4 DEF Init
  <2>2. SeededRole[<<r, t>>[1]] # None /\ <<r, t>>[1] = r
    BY <2>1, SeedAssumption
  <2> QED
    BY <2>2 DEF Init
<1>5. ASSUME NEW u \in Users, user[u] # None
      PROVE  \E r \in Roles : link[r][u] # None
  <2>1. PICK r \in Roles : <<r, u>> \in SeededLink
    BY <1>5 DEF Init
  <2>2. link[r][u] = "ACTIVO"
    BY <2>1 DEF Init, Things
  <2> QED
    BY <2>2, NoneAssumption DEF Estado
<1>6. granted \subseteq Roles \X Perms
  <2>1. ASSUME NEW l \in SeededLink, l[2] \in Perms PROVE l \in Roles \X Perms
    <3>1. l \in Roles \X Things
      BY SeedAssumption
    <3> QED
      BY <2>1, <3>1
  <2> QED
    BY <2>1 DEF Init
<1>7. delegated \subseteq Perms /\ recoded \subseteq Perms /\ raced \subseteq Roles \X Users
  BY DEF Init
<1> QED
  BY <1>3, <1>4, <1>5, <1>6, <1>7 DEF LinksInv, UsersBeginWithRole

LEMMA LinksNext == GrantsInv /\ HoldersInv /\ LinksInv /\ [Next]_vars => LinksInv'
<1> SUFFICES ASSUME GrantsInv, HoldersInv, LinksInv, [Next]_vars PROVE LinksInv'
  OBVIOUS
<1>1. CASE UNCHANGED vars
  <2>1. UNCHANGED <<role, user, link, req, granted, delegated, recoded, raced>>
    BY <1>1 DEF vars, tables, history
  <2> QED
    BY <2>1 DEF LinksInv, Linking, UsersBeginWithRole
<1>2. ASSUME NEW q \in Requests, Write(q) PROVE LinksInv'
  BY <1>2, RoleLinks, PermissionLinks, WriteLinkLinks, CommitUserLinks,
     RemoveThingLinks DEF Write
<1>3. CASE Next
  BY <1>2, <1>3, StartLinks, ReadsKeepLinks DEF Next
<1> QED
  BY <1>1, <1>3

(* A role whose link a request will write was found, and rows of roles     *)
(* are never deleted: the invariant behind UsersHaveRoles and the links of *)
(* AdministrationTypeCorrect.                                              *)
THEOREM LinksInvariance == Spec => []LinksInv
BY LinksInit, LinksNext, GrantsInvariance, HoldersInvariance, PTL DEF Spec

(* Rows, links and requests keep their shape, and every link is of a role  *)
(* with a row, as the foreign keys of schema.prisma want.                  *)
THEOREM AdministrationTypeCorrect == Spec => []TypeOK
<1>1. GrantsInv /\ HoldersInv /\ LinksInv => TypeOK
  BY DEF GrantsInv, HoldersInv, LinksInv, TypeOK
<1> QED
  BY <1>1, GrantsInvariance, HoldersInvariance, LinksInvariance, PTL

(* No user is there without a first role, however the transaction of       *)
(* UsersService.create (users.service.ts:82) meets other requests.         *)
THEOREM UsersHaveRoles == Spec => []UsersBeginWithRole
<1>1. LinksInv => UsersBeginWithRole
  BY DEF LinksInv
<1> QED
  BY <1>1, LinksInvariance, PTL
=============================================================================

--------------------------- MODULE Administration ---------------------------
(***************************************************************************)
(* RolesService, PermissionsService and UsersService: who may do what, and *)
(* the requests that change it. A request reads a row, decides, and writes *)
(* one statement later (or several), so between its steps other requests   *)
(* change what it read. One action is the code up to a database call, the  *)
(* call included; req[q] keeps what lives across the awaits. A refusal     *)
(* ends a request whichever of its checks makes it, so the checks on a row *)
(* that was read are made where it is read.                                *)
(*                                                                         *)
(* A request id serves one request: Requests bounds how many there are.    *)
(* Modules and menus are Areas: RolesService treats both alike.            *)
(***************************************************************************)
EXTENDS Authorization, FiniteSets

CONSTANTS
  Roles, Users, Perms, Areas,  \* ids of rows
  Names,     \* role names
  Codes,     \* permission codes
  Requests,  \* requests that are served
  Workloads, \* [engine, ops]: how OPA is, "disabled", "opa" or "down", and
             \* the handlers that are asked for together
  None,      \* no row
  SeededRole, SeededPerm, SeededLink  \* the tables at the start

VARIABLES
  role,  \* the roles table: [name, active], or None
  perm,  \* the permissions table: [code, delegable, active], or None
  user,  \* the users table: estado, or None; an id stands for an email
  area,  \* the modules and menus that are ACTIVE
  link,  \* user_roles, role_permissions, role_modules, role_menus
  req,   \* the requests and their locals
  granted,   \* history: the grants of the seed and of SUPER_ADMIN tokens
  delegated, \* history: permissions that were delegable at some time
  recoded,   \* history: permissions whose code was changed
  raced      \* history: assignments made while their role was being removed

tables == <<role, perm, user, area, link>>
history == <<granted, delegated, recoded>>
vars == <<tables, req, history, raced>>

-----------------------------------------------------------------------------
Things == Users \cup Perms \cup Areas

Ops == UNION {W.ops : W \in Workloads}

Role == [name: Names, active: BOOLEAN]

Permission == [code: Codes, delegable: BOOLEAN, active: BOOLEAN]

Estado == {"ACTIVO", "INACTIVO"}

Request == [pc: {"new", "role", "count", "thing", "granter", "holder",
                 "insert", "default", "write", "done"},
            op: Ops \cup {None}, by: Roles \cup {None}, super: BOOLEAN,
            role: Roles \cup {None}, thing: Things \cup {None},
            name: Names \cup {None}, row: Permission \cup {None}]

NoRequest == [pc |-> "new", op |-> None, by |-> None, super |-> FALSE,
              role |-> None, thing |-> None, name |-> None, row |-> None]

UserOps == {"assignUser", "unassignUser"}
AreaOps == {"assignArea", "unassignArea"}
PermissionOps == {"assignPermission", "unassignPermission"}
LinkOps == UserOps \cup AreaOps \cup PermissionOps
Assigns(op) == op \in {"assignUser", "assignArea", "assignPermission"}

Handlers ==
  LinkOps \cup {"createRole", "updateRole", "removeRole", "createUser", "removeUser",
               "createPermission", "updatePermission", "removePermission",
               "removeModule"}

ASSUME WorkloadsAssumption == \A W \in Workloads : W.ops \subseteq Handlers

ASSUME NoneAssumption ==
  /\ None \notin Roles \cup Things \cup Names \cup Handlers \cup Estado
  /\ None \notin Role \cup Permission

\* Ids of different tables are different.
ASSUME KindsAssumption ==
  /\ Users \cap Perms = {} /\ Users \cap Areas = {} /\ Perms \cap Areas = {}

ASSUME SeedAssumption ==
  /\ SeededRole \in [Roles -> Role \cup {None}]
  /\ SeededPerm \in [Perms -> Permission \cup {None}]
  /\ \A p1, p2 \in Perms :
       /\ None \notin {SeededPerm[p1], SeededPerm[p2]}
       /\ SeededPerm[p1].code = SeededPerm[p2].code
       => p1 = p2
  /\ SeededLink \subseteq Roles \X Things
  /\ \A l \in SeededLink : SeededRole[l[1]] # None /\ SeededRole[l[1]].active

IsActive(table, i) == table[i] # None /\ table[i].active

Alive(t) ==
  \/ t \in Users /\ user[t] = "ACTIVO"
  \/ t \in Perms /\ IsActive(perm, t)
  \/ t \in area

Holds(r, t) == link[r][t] = "ACTIVO"

\* ensureActorHasPermission: an ACTIVE grant, of an ACTIVE role, of the
\* ACTIVE permission with that code.
HasPermission(r, code) ==
  /\ IsActive(role, r)
  /\ \E p \in Perms : Holds(r, p) /\ IsActive(perm, p) /\ perm[p].code = code

\* The access token a user gets for role r.
TokenOf(r) ==
  [roleId |-> r, roleName |-> role[r].name,
   permissions |-> {perm[p].code : p \in {x \in Perms :
                                            Holds(r, x) /\ IsActive(perm, x)}}]

-----------------------------------------------------------------------------
(* The names RolesService protects *)

Protected == {SuperAdmin, "SUPERADMIN"}

\* The comparison is in upper case.
Privileged == Protected \cup {"ADMIN", "super_admin", "superadmin", "admin"}

\* What a request asks of the role it read, and of the name it brings.
MayActOn(q, row) ==
  IF q.op \in PermissionOps
    THEN q.role # q.by /\ (q.super \/ row.name \notin Protected)
    ELSE \/ q.super
         \/ /\ row.name \notin Protected
            /\ q.name \notin Protected
            /\ q.op \in UserOps => row.name \notin Privileged

-----------------------------------------------------------------------------
(* Requests *)

\* An assignment of u to r that has seen r ACTIVE and is not written yet.
Assigning(rq, r, u) ==
  \E g \in Requests :
    /\ rq[g].op \in {"assignUser", "createUser"} /\ rq[g].pc \in {"thing", "write"}
    /\ rq[g].role = r /\ rq[g].thing = u

\* A removal of r that has counted no user and is not written yet.
Removing(rq, r) ==
  \E d \in Requests :
    rq[d].op = "removeRole" /\ rq[d].pc = "write" /\ rq[d].role = r

Goto(q, next) ==
  /\ req' = [req EXCEPT ![q] = next]
  /\ raced' = raced \cup {a \in Roles \X Users :
                            Assigning(req', a[1], a[2]) /\ Removing(req', a[1])}

To(q, pc) == Goto(q, [req[q] EXCEPT !.pc = pc])

If(q, test, pc) == To(q, IF test THEN pc ELSE "done")

Init ==
  /\ role = SeededRole
  /\ perm = SeededPerm
  /\ user = [u \in Users |->
               IF \E r \in Roles : <<r, u>> \in SeededLink THEN "ACTIVO" ELSE None]
  /\ area = Areas
  /\ link = [r \in Roles |-> [t \in Things |->
               IF <<r, t>> \in SeededLink THEN "ACTIVO" ELSE None]]
  /\ req = [q \in Requests |-> NoRequest]
  /\ granted = {l \in SeededLink : l[2] \in Perms}
  /\ delegated = {p \in Perms : SeededPerm[p] # None /\ SeededPerm[p].delegable}
  /\ recoded = {}
  /\ raced = {}

\* The first call of the handler: of its role, of the row it is about, or of
\* the row that would already have what must be unique.
First(op) ==
  CASE op \in LinkOps \cup {"updateRole", "removeRole"} -> "role"
    [] op \in {"createRole", "createUser", "removeUser", "removeModule",
               "createPermission", "updatePermission", "removePermission"} -> "thing"

\* What a request may bring, by its handler's path parameters and DTO. The DTO
\* of a permission has no estado: that of the row counts, and a new one is ACTIVE.
Bodies(op) ==
  LET about(ops, S) == IF op \in ops THEN S ELSE {None}
  IN  [role: about(LinkOps \cup {"updateRole", "removeRole"}, Roles),
       thing: CASE op \in UserOps \cup {"createUser", "removeUser"} -> Users
                [] op \in AreaOps \cup {"removeModule"} -> Areas
                [] op \in PermissionOps \cup {"updatePermission", "removePermission"}
                   -> Perms
                [] OTHER -> {None},
       name: about({"createRole", "updateRole"}, Names),
       row: about({"createPermission", "updatePermission"},
                  {p \in Permission : p.active})]

\* A token stays what it was when its role was chosen. One that is old when
\* its request comes in acts as that of a request whose first call is late.
Start(q) ==
  /\ req[q].pc = "new"
  /\ \E W \in Workloads :
       /\ \A o \in Requests : req[o].op \in W.ops \cup {None}
       /\ \E op \in W.ops, a \in {r \in Roles : IsActive(role, r)} : \E b \in Bodies(op) :
          LET new == [pc |-> First(op), op |-> op, by |-> a,
                      super |-> role[a].name = SuperAdmin,
                      role |-> b.role, thing |-> b.thing, name |-> b.name,
                      row |-> b.row]
          IN  /\ Admits(W.engine, TokenOf(a), op, {})
              /\ op = "createRole" => new.super \/ b.name \notin Protected
              /\ Goto(q, new)
  /\ UNCHANGED <<tables, history>>

-----------------------------------------------------------------------------
(* The calls that read *)

ReadRole(q) ==
  LET r == req[q].role IN
  /\ req[q].pc = "role"
  /\ If(q, IsActive(role, r) /\ MayActOn(req[q], role[r]),
        CASE req[q].op = "updateRole" -> "write"
          [] req[q].op = "removeRole" -> "count"
          [] OTHER -> "thing")
  /\ UNCHANGED <<tables, history>>

\* (a bug) remove does not count the users who hold the role.
RemoveUncounted(q) ==
  /\ req[q].pc = "count"
  /\ To(q, "write")
  /\ UNCHANGED <<tables, history>>

CountUsers(q) ==
  /\ req[q].pc = "count"
  /\ If(q, \A u \in Users : Holds(req[q].role, u) => user[u] # "ACTIVO", "write")
  /\ UNCHANGED <<tables, history>>

\* ensureActiveUser, ensureActiveModule, ensureActiveMenu, ensureActive.
ReadThing(q) ==
  /\ req[q].pc = "thing"
  /\ req[q].op \in UserOps \cup AreaOps
       \cup {"removeUser", "removeModule", "updatePermission", "removePermission"}
  /\ If(q, Alive(req[q].thing), "write")
  /\ UNCHANGED <<tables, history>>

\* The name, code or email must be free, of inactive rows too.
ReadUnique(q) ==
  /\ req[q].pc = "thing"
  /\ \/ /\ req[q].op = "createRole"
        /\ If(q, \A r \in Roles : role[r] # None => role[r].name # req[q].name,
              "write")
     \/ /\ req[q].op = "createPermission"
        /\ If(q, \A p \in Perms : perm[p] # None => perm[p].code # req[q].row.code,
              "write")
     \/ /\ req[q].op = "createUser"
        /\ If(q, user[req[q].thing] = None, "insert")
  /\ UNCHANGED <<tables, history>>

\* ensureActivePermission. Only SUPER_ADMIN grants what is not delegable, and
\* only of others the database is asked whether they hold what they change.
ReadPermission(q) ==
  LET p == req[q].thing IN
  /\ req[q].pc = "thing" /\ req[q].op \in PermissionOps
  /\ IF /\ Alive(p)
        /\ Assigns(req[q].op) /\ ~req[q].super => perm[p].delegable
       THEN Goto(q, [req[q] EXCEPT !.pc = IF req[q].super THEN "write" ELSE "granter",
                                   !.row = perm[p]])
       ELSE To(q, "done")
  /\ UNCHANGED <<tables, history>>

\* (a bug) The role need not have the permission it delegates.
ReadGranterOnly(q) ==
  /\ req[q].pc = "granter"
  /\ If(q, HasPermission(req[q].by, RequiredPermission[req[q].op]), "write")
  /\ UNCHANGED <<tables, history>>

ReadGranter(q) ==
  /\ req[q].pc = "granter"
  /\ If(q, HasPermission(req[q].by, RequiredPermission[req[q].op]), "holder")
  /\ UNCHANGED <<tables, history>>

ReadHolder(q) ==
  /\ req[q].pc = "holder"
  /\ If(q, HasPermission(req[q].by, req[q].row.code), "write")
  /\ UNCHANGED <<tables, history>>

-----------------------------------------------------------------------------
(* The calls that write. A unique index refuses what an earlier read let by. *)

NameFree(n, r) == \A x \in Roles \ {r} : role[x] # None => role[x].name # n
CodeFree(c, p) == \A x \in Perms \ {p} : perm[x] # None => perm[x].code # c

CreateRole(q) ==
  /\ req[q].pc = "write" /\ req[q].op = "createRole"
  /\ \E r \in Roles :
       /\ role[r] = None
       /\ role' = IF NameFree(req[q].name, r)
                    THEN [role EXCEPT ![r] = [name |-> req[q].name, active |-> TRUE]]
                    ELSE role
  /\ To(q, "done")
  /\ UNCHANGED <<perm, user, area, link, history>>

UpdateRole(q) ==
  LET r == req[q].role IN
  /\ req[q].pc = "write" /\ req[q].op = "updateRole"
  /\ role' = IF NameFree(req[q].name, r)
               THEN [role EXCEPT ![r] = [name |-> req[q].name, active |-> @.active]]
               ELSE role
  /\ To(q, "done")
  /\ UNCHANGED <<perm, user, area, link, history>>

RemoveRole(q) ==
  LET r == req[q].role IN
  /\ req[q].pc = "write" /\ req[q].op = "removeRole"
  /\ role' = [role EXCEPT ![r] = [name |-> @.name, active |-> FALSE]]
  /\ To(q, "done")
  /\ UNCHANGED <<perm, user, area, link, history>>

\* upsert makes the row of an assignment; update wants one to inactivate.
WriteLink(q) ==
  LET r == req[q].role
      t == req[q].thing
  IN
  /\ req[q].pc = "write" /\ req[q].op \in LinkOps
  /\ link' = [link EXCEPT ![r][t] = CASE Assigns(req[q].op) -> "ACTIVO"
                                      [] @ = None -> None
                                      [] OTHER -> "INACTIVO"]
  /\ granted' = IF req[q].op = "assignPermission" /\ req[q].super
                  THEN granted \cup {<<r, t>>} ELSE granted
  /\ To(q, "done")
  /\ UNCHANGED <<role, perm, user, area, delegated, recoded>>

CreatePermission(q) ==
  /\ req[q].pc = "write" /\ req[q].op = "createPermission"
  /\ \E p \in Perms :
       /\ perm[p] = None
       /\ IF CodeFree(req[q].row.code, p)
            THEN /\ perm' = [perm EXCEPT ![p] = [req[q].row EXCEPT !.active = TRUE]]
                 /\ delegated' = IF req[q].row.delegable
                                   THEN delegated \cup {p} ELSE delegated
            ELSE UNCHANGED <<perm, delegated>>
  /\ To(q, "done")
  /\ UNCHANGED <<role, user, area, link, granted, recoded>>

UpdatePermission(q) ==
  LET p == req[q].thing
      new == req[q].row
  IN
  /\ req[q].pc = "write" /\ req[q].op = "updatePermission"
  /\ IF CodeFree(new.code, p)
       THEN /\ perm' = [perm EXCEPT ![p] = [new EXCEPT !.active = perm[p].active]]
            /\ delegated' = IF new.delegable THEN delegated \cup {p} ELSE delegated
            /\ recoded' = IF new.code # perm[p].code THEN recoded \cup {p} ELSE recoded
       ELSE UNCHANGED <<perm, delegated, recoded>>
  /\ To(q, "done")
  /\ UNCHANGED <<role, user, area, link, granted>>

RemovePermission(q) ==
  LET p == req[q].thing IN
  /\ req[q].pc = "write" /\ req[q].op = "removePermission"
  /\ perm' = [perm EXCEPT ![p] = [@ EXCEPT !.active = FALSE]]
  /\ To(q, "done")
  /\ UNCHANGED <<role, user, area, link, history>>

-----------------------------------------------------------------------------
(* UsersService.create runs a transaction: its user is nobody else's to see *)
(* until it commits, but another insert of that email waits for it.         *)

InsertUser(q) ==
  LET u == req[q].thing IN
  /\ req[q].pc = "insert"
  /\ \A o \in Requests \ {q} :
       ~(req[o].op = "createUser" /\ req[o].thing = u /\ req[o].pc \in {"default", "write"})
  /\ If(q, user[u] = None, "default")
  /\ UNCHANGED <<tables, history>>

\* Without an ACTIVE role USER the transaction rolls back.
DefaultRole(q) ==
  /\ req[q].pc = "default"
  /\ IF \E r \in Roles : IsActive(role, r) /\ role[r].name = "USER"
       THEN \E r \in Roles :
              /\ IsActive(role, r) /\ role[r].name = "USER"
              /\ Goto(q, [req[q] EXCEPT !.pc = "write", !.role = r])
       ELSE To(q, "done")
  /\ UNCHANGED <<tables, history>>

CommitUser(q) ==
  LET u == req[q].thing IN
  /\ req[q].pc = "write" /\ req[q].op = "createUser"
  /\ user' = [user EXCEPT ![u] = "ACTIVO"]
  /\ link' = [link EXCEPT ![req[q].role][u] = "ACTIVO"]
  /\ To(q, "done")
  /\ UNCHANGED <<role, perm, area, history>>

\* The transaction of remove, whose sessions AuthService.tla follows: an
\* assignment that meets it waits for its row, so it is one step here.
RemoveUser(q) ==
  LET u == req[q].thing IN
  /\ req[q].pc = "write" /\ req[q].op = "removeUser"
  /\ user' = [user EXCEPT ![u] = "INACTIVO"]
  /\ link' = [r \in Roles |-> [link[r] EXCEPT ![u] =
                IF @ = "ACTIVO" THEN "INACTIVO" ELSE @]]
  /\ To(q, "done")
  /\ UNCHANGED <<role, perm, area, history>>

\* ModulesService.remove and MenusService.remove, as the links see them.
RemoveArea(q) ==
  LET a == req[q].thing IN
  /\ req[q].pc = "write" /\ req[q].op = "removeModule"
  /\ area' = area \ {a}
  /\ link' = [r \in Roles |-> [link[r] EXCEPT ![a] =
                IF @ = "ACTIVO" THEN "INACTIVO" ELSE @]]
  /\ To(q, "done")
  /\ UNCHANGED <<role, perm, user, history>>

-----------------------------------------------------------------------------
Read(q) ==
  \/ ReadRole(q) \/ CountUsers(q) \/ ReadThing(q) \/ ReadUnique(q)
  \/ ReadPermission(q) \/ ReadGranter(q) \/ ReadHolder(q)
  \/ InsertUser(q) \/ DefaultRole(q)

Write(q) ==
  \/ CreateRole(q) \/ UpdateRole(q) \/ RemoveRole(q) \/ WriteLink(q)
  \/ CreatePermission(q) \/ UpdatePermission(q) \/ RemovePermission(q)
  \/ CommitUser(q) \/ RemoveUser(q) \/ RemoveArea(q)

Next == \E q \in Requests : Start(q) \/ Read(q) \/ Write(q)

Spec == Init /\ [][Next]_vars

-----------------------------------------------------------------------------
(* Properties *)

\* Rows, links and requests keep their shape and links name rows: what
\* roles.service.ts, permissions.service.ts and users.service.ts write fits
\* schema.prisma.
TypeOK ==
  /\ role \in [Roles -> Role \cup {None}]
  /\ perm \in [Perms -> Permission \cup {None}]
  /\ user \in [Users -> Estado \cup {None}]
  /\ area \subseteq Areas
  /\ link \in [Roles -> [Things -> Estado \cup {None}]]
  /\ req \in [Requests -> Request]
  /\ granted \subseteq Roles \X Perms
  /\ delegated \subseteq Perms /\ recoded \subseteq Perms
  /\ raced \subseteq Roles \X Users
  /\ \A r \in Roles, t \in Things : link[r][t] # None => role[r] # None

\* What a role holds goes back to SUPER_ADMIN or the seed: they granted it
\* to this role, or to some role while others could pass on what is
\* delegable. However the checks of assertCanMutateRolePermission interleave
\* with grants that are taken back, no chain of delegations brings in a
\* permission nobody was given (one whose code changes meanwhile excepted).
GrantsComeFromSuperAdmin ==
  \A r \in Roles, p \in Perms : Holds(r, p) =>
    \/ p \in recoded
    \/ <<r, p>> \in granted
    \/ p \in delegated /\ \E o \in Roles : <<o, p>> \in granted

\* What GrantsComeFromSuperAdmin rests on. A request is about a row of the
\* table its handler is for.
Shaped(q) ==
  /\ q.op \in UserOps \cup {"createUser", "removeUser"} => q.thing \in Users
  /\ q.op \in AreaOps \cup {"removeModule"} => q.thing \in Areas
  /\ q.op \in PermissionOps \cup {"updatePermission", "removePermission"}
     => q.thing \in Perms
  /\ q.op \in {"createPermission", "updatePermission"} => q.row \in Permission
  /\ q.op \in LinkOps => q.role \in Roles /\ q.by \in Roles
  /\ q.pc = "count" => q.op = "removeRole"
  /\ q.pc \in {"insert", "default"} => q.op = "createUser"
  /\ q.pc \in {"granter", "holder"} => q.op \in PermissionOps

Given(p) ==
  p \in recoded \/ (p \in delegated /\ \E o \in Roles : <<o, p>> \in granted)

\* What a request has seen of the permission it changes or passes on.
Knows(q) ==
  LET p == req[q].thing IN
  /\ req[q].op \in {"updatePermission", "removePermission"} /\ req[q].pc = "write"
     => perm[p] # None
  /\ req[q].op = "assignPermission" /\ ~req[q].super
     => /\ req[q].pc \in {"granter", "holder"} =>
             /\ perm[p] # None /\ p \in delegated
             /\ req[q].row.code = perm[p].code \/ p \in recoded
        /\ req[q].pc = "write" => Given(p)

GrantsInv ==
  /\ perm \in [Perms -> Permission \cup {None}]
  /\ link \in [Roles -> [Things -> Estado \cup {None}]]
  /\ area \subseteq Areas
  /\ req \in [Requests -> Request]
  /\ \A q \in Requests : Shaped(req[q]) /\ Knows(q)
  /\ \A p1, p2 \in Perms :
       perm[p1] # None /\ perm[p2] # None /\ perm[p1].code = perm[p2].code => p1 = p2
  /\ \A p \in Perms : perm[p] # None /\ perm[p].delegable => p \in delegated
  /\ GrantsComeFromSuperAdmin

\* RolesService.remove refuses a role that active users hold; unless an
\* assignment was under way together with the removal, no active user is
\* left in an INACTIVO role.
SettledRolesStayActive ==
  \A r \in Roles, u \in Users :
    /\ role[r] # None /\ Holds(r, u) /\ user[u] = "ACTIVO"
    /\ <<r, u>> \notin raced
    => role[r].active

\* What SettledRolesStayActive rests on. A creation whose user is inserted, but
\* not yet there for others.
Creating(q) == q.op = "createUser" /\ q.pc \in {"default", "write"}

\* What a request has seen of the role and the user it is about.
Sees(q) ==
  /\ q.op \in {"createRole", "updateRole"} => q.name \in Names
  /\ q.op \in {"updateRole", "removeRole"} => q.role \in Roles
  /\ q.op \in {"updateRole", "removeRole"} /\ q.pc \in {"count", "write"}
     => role[q.role] # None
  /\ q.op \in {"assignUser", "removeUser"} /\ q.pc = "write" => user[q.thing] # None
  /\ Creating(q) => user[q.thing] = None

HoldersInv ==
  /\ role \in [Roles -> Role \cup {None}]
  /\ user \in [Users -> Estado \cup {None}]
  /\ \A q \in Requests : Sees(req[q])
  /\ \A q, o \in Requests :
       Creating(req[q]) /\ Creating(req[o]) /\ req[q].thing = req[o].thing => q = o
  /\ \A r \in Roles, u \in Users :
       /\ Holds(r, u) => user[u] # None
       /\ Assigning(req, r, u) => IsActive(role, r) \/ <<r, u>> \in raced
       /\ Assigning(req, r, u) /\ Removing(req, r) => <<r, u>> \in raced
       /\ Removing(req, r) /\ Holds(r, u) /\ user[u] = "ACTIVO" => <<r, u>> \in raced
  /\ SettledRolesStayActive

\* UsersService.create makes a user and its first role or nothing, whatever
\* happens to the role USER between its statements.
UsersBeginWithRole ==
  \A u \in Users : user[u] # None => \E r \in Roles : link[r][u] # None

\* What UsersBeginWithRole and the links of TypeOK rest on. A request that has
\* found the role whose link it will write.
Linking(q) ==
  \/ q.op \in LinkOps /\ q.pc \in {"thing", "granter", "holder", "write"}
  \/ q.op = "createUser" /\ q.pc = "write"

LinksInv ==
  /\ granted \subseteq Roles \X Perms
  /\ delegated \subseteq Perms /\ recoded \subseteq Perms
  /\ raced \subseteq Roles \X Users
  /\ \A q \in Requests :
       Linking(req[q]) => req[q].role \in Roles /\ role[req[q].role] # None
  /\ \A r \in Roles, t \in Things : link[r][t] # None => role[r] # None
  /\ UsersBeginWithRole

\* "No se puede inactivar un rol asignado a usuarios activos"
\* (roles.service.ts:174).
AssignedRolesStayActive ==
  \A r \in Roles, u \in Users :
    role[r] # None /\ Holds(r, u) /\ user[u] = "ACTIVO" => role[r].active

\* endpoints.md:36: a role other than SUPER_ADMIN grants what it has; when
\* the grant is written the role still has it.
DelegatorHoldsPermission ==
  [][\A q \in Requests :
       /\ req[q].op = "assignPermission" /\ req[q].pc = "write" /\ ~req[q].super
       /\ req'[q].pc = "done"
       => Holds(req[q].by, req[q].thing)]_vars

\* authz.rego lets a role that has a delegable permission grant it; what it
\* allows and the guards before it allow reaches the service.
PolicyLetsDelegate ==
  \A W \in Workloads, a, r \in Roles, p \in Perms :
    LET target == [roleName |-> role[r].name, code |-> perm[p].code,
                   delegable |-> perm[p].delegable]
    IN  /\ IsActive(role, a) /\ IsActive(role, r) /\ IsActive(perm, p)
        /\ Admits("disabled", TokenOf(a), "assignPermission", {})
        /\ Rego(TokenOf(a), "roles:assign_permission", target, {})
        => Admits(W.engine, TokenOf(a), "assignPermission", {})
=============================================================================

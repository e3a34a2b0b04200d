-------------------------------- MODULE Seed --------------------------------
(***************************************************************************)
(* prisma/seed.ts, which every start of the backend runs before it serves, *)
(* and prisma/seeds/seed.sql, its other form. The seed is a list of        *)
(* statements, each committed on its own: it may die after any of them, be *)
(* started again, meet a second one, and the gateway may be in use while   *)
(* it runs, as README.md has it for SEED_RESET. seed.sql is one            *)
(* transaction.                                                            *)
(*                                                                         *)
(* The database is a function from the keys of its rows to their estado; a *)
(* key is a table and the ids, names or codes that are unique in it. Roles *)
(* and modules go by name and code: a row of an earlier generation is      *)
(* found by that. A user goes by id and email. Passwords and attributes    *)
(* no statement looks at are left out.                                     *)
(***************************************************************************)
EXTENDS Naturals, SequencesExt

CONSTANTS
  Processes,
  Deployments,   \* the databases and the ways they are used, see Deployment
  MaxFaults,     \* bound on deaths
  None

VARIABLES
  deployment,    \* which of them this is
  rows,          \* [key |-> estado] of the rows there are
  email,         \* [id |-> email] of the users
  proc,          \* the processes and their locals
  decided,       \* history: rows that people have inactivated and not restored
  changes, faults

vars == <<deployment, rows, email, proc, decided, changes, faults>>

\* The processes; how they are started, "boot", "reset" (SEED_RESET) or "sql";
\* the email of each seed, as the variables may be set; the users [id |-> email]
\* and the rows of an earlier generation; the rows administrators may
\* inactivate, the menus they may give a route, whether somebody signs in, and
\* how many things people may do in all.
Deployment(processes, modes, environments, users, old, touched, routed, signIn, changed) ==
  [processes |-> processes, modes |-> modes, environments |-> environments,
   users |-> users, old |-> old, touched |-> touched, routed |-> routed,
   signIn |-> signIn, changes |-> changed]

-----------------------------------------------------------------------------
(* What is seeded *)

Seeds == {"superAdmin", "admin", "demo", "sales"}
SeedUsers == <<"superAdmin", "admin", "demo", "sales">>
SeedRoles == <<"SUPER_ADMIN", "ADMIN", "USER", "VENTAS">>
SeedModules == <<"ADMIN", "VENTAS">>

LegacyMenus == {"legacy"}

SeedMenus ==
  << <<"adminMenu", "ADMIN">>, <<"usersMenu", "ADMIN">>, <<"rolesMenu", "ADMIN">>,
     <<"modulesMenu", "ADMIN">>, <<"menusMenu", "ADMIN">>,
     <<"extServicesMenu", "ADMIN">>, <<"salesMenu", "VENTAS">>,
     <<"ordersMenu", "VENTAS">> >>

ModuleOf(n) ==
  IF \E i \in DOMAIN SeedMenus : SeedMenus[i] = <<n, "VENTAS">> THEN "VENTAS" ELSE "ADMIN"

Permission(r, a, d) == [resource |-> r, action |-> a, delegable |-> d]
ReadWriteDelete(r) ==
  << Permission(r, "read", TRUE), Permission(r, "write", TRUE),
     Permission(r, "delete", FALSE) >>
SeedPermissions ==
  ReadWriteDelete("users") \o ReadWriteDelete("roles")
  \o << Permission("roles", "create", TRUE),
        Permission("roles", "assign_user", TRUE),
        Permission("roles", "unassign_user", TRUE),
        Permission("roles", "assign_permission", FALSE),
        Permission("roles", "unassign_permission", FALSE) >>
  \o ReadWriteDelete("modules") \o ReadWriteDelete("menus")
  \o << Permission("permissions", "read", TRUE),
        Permission("permissions", "write", FALSE),
        Permission("permissions", "delete", FALSE) >>

Code(p) == <<p.resource, p.action>>

CanAdminReceiveSeedPermission(p) ==
  \/ Code(p) \in {<<"roles", "assign_permission">>, <<"roles", "unassign_permission">>}
  \/ p.resource = "permissions" /\ p.action = "read"
  \/ p.resource \in {"users", "roles", "modules", "menus"}

\* The list of seed.sql.
SqlAdminReceives(p) ==
  /\ p.action # "delete"
  /\ p.resource = "permissions" => p.action = "read"

SeesModule(r, m) == r \in {"SUPER_ADMIN", "ADMIN"} \/ (r = "VENTAS" /\ m = "VENTAS")

-----------------------------------------------------------------------------
(* The statements *)

Step(do, key, keys) == [do |-> do, key |-> key, keys |-> keys]
Upserts(keys) == [i \in DOMAIN keys |-> Step("upsert", keys[i], {})]
Ensures(keys) == [i \in DOMAIN keys |-> Step("ensure", keys[i], {})]

\* One statement for each element of s that has an interest in it.
Each(s, Op(_)) == FlattenSeq([i \in DOMAIN s |-> Op(s[i])])

Linked(table, x, Sees(_)) ==
  Upserts(Each(SeedRoles, LAMBDA r : IF Sees(r) THEN << <<table, r, x>> >> ELSE <<>>))

MenuSteps(n) ==
  Upserts(<< <<"menu", n[1]>> >>)
  \o Linked("roleMenu", n[1], LAMBDA r : SeesModule(r, n[2]))

PermissionSteps(p) ==
  Linked("rolePermission", Code(p),
         LAMBDA r : \/ r = "SUPER_ADMIN"
                    \/ r = "ADMIN" /\ CanAdminReceiveSeedPermission(p))

Disallowed ==
  {<<"rolePermission", "ADMIN", Code(SeedPermissions[i])>> :
     i \in {j \in DOMAIN SeedPermissions :
              ~CanAdminReceiveSeedPermission(SeedPermissions[j])}}

Creation ==
  Ensures([i \in 1 .. 4 |-> <<"user", SeedUsers[i]>>])
  \o Ensures([i \in 1 .. 4 |-> <<"role", SeedRoles[i]>>])
  \o Upserts([i \in 1 .. 4 |-> <<"userRole", SeedUsers[i], SeedRoles[i]>>])
  \o << Step("revoke", None, {<<"userRole", "admin", "SUPER_ADMIN">>}) >>
  \o Ensures([i \in 1 .. 2 |-> <<"module", SeedModules[i]>>])
  \o Each(SeedModules,
          LAMBDA m : Linked("roleModule", m, LAMBDA r : SeesModule(r, m)))
  \o Each(SeedMenus, MenuSteps)
  \o Upserts([i \in DOMAIN SeedPermissions |->
                <<"permission", Code(SeedPermissions[i])>>])
  \o Each(SeedPermissions, PermissionSteps)
  \o << Step("revoke", None, Disallowed) >>
  \o Upserts(<< <<"seedRun">> >>)

Tables ==
  <<"seedRun", "token", "rolePermission", "permission", "roleMenu", "roleModule",
    "userRole", "menu", "module", "role", "user">>

Delete(table) == Step("delete", <<table>>, {})
Clean(table) == Step("clean", <<table>>, {})

Puts(s) == s.do \in {"ensure", "upsert"}

KeysOf(steps) == {steps[i].key : i \in {j \in DOMAIN steps : Puts(steps[j])}}

SqlOmits ==
  {<<"rolePermission", "ADMIN", Code(SeedPermissions[i])>> :
     i \in {j \in DOMAIN SeedPermissions : ~SqlAdminReceives(SeedPermissions[j])}}

Main ==
  [reset |-> [i \in DOMAIN Tables |-> Delete(Tables[i])] \o Creation,
   boot |-> << Step("check", None, {}), Clean("roleMenu"), Clean("menu") >> \o Creation]

-----------------------------------------------------------------------------
(* Rows and processes *)

Present(k) == k \in DOMAIN rows

\* Foreign keys; all of them are ON DELETE RESTRICT.
References(k) ==
  CASE k[1] = "userRole" -> {<<"user", k[2]>>, <<"role", k[3]>>}
    [] k[1] = "token" -> {<<"user", k[2]>>, <<"role", k[3]>>}
    [] k[1] = "roleModule" -> {<<"role", k[2]>>, <<"module", k[3]>>}
    [] k[1] = "roleMenu" -> {<<"role", k[2]>>, <<"menu", k[3]>>}
    [] k[1] = "rolePermission" -> {<<"role", k[2]>>, <<"permission", k[3]>>}
    [] k[1] = "menu" -> {<<"module", ModuleOf(k[2])>>}
    [] k[1] = "route" -> {<<"menu", k[2]>>}
    [] OTHER -> {}

\* Earlier rows fit the schema. The users are not among them, nor the row of this
\* seed: one with more in it has a name of its own.
ASSUME DeploymentsAssumption ==
  \A d \in Deployments :
    /\ d.modes \subseteq {"boot", "reset", "sql"}
    /\ \A x, y \in DOMAIN d.users : x # y => d.users[x] # d.users[y]
    /\ <<"seedRun">> \notin d.old
    /\ \A k \in d.old :
         /\ k[1] # "user"
         /\ References(k) \subseteq d.old \cup {<<"user", x>> : x \in DOMAIN d.users}

\* What the proofs use of the data above, which have no parameters: TLC evaluates
\* it.
ASSUME PlanAssumption ==
  /\ \A k \in KeysOf(Creation) :
       /\ k[Len(k)] \notin LegacyMenus
       /\ References(k) \subseteq KeysOf(Creation) \ SqlOmits
       /\ k[1] = "user" => k \in {<<"user", s>> : s \in Seeds}
       /\ k[1] = "userRole" => k = <<"userRole", k[2], k[3]>>
  /\ {<<"user", s>> : s \in Seeds} \subseteq KeysOf(Creation)
  /\ \A m \in {"boot", "reset"} :
       /\ Len(Main[m]) \in Nat
       /\ \A k \in KeysOf(Creation) :
            \E i \in 1 .. Len(Main[m]) : Puts(Main[m][i]) /\ Main[m][i].key = k
       /\ \A i \in 1 .. Len(Main[m]) :
            LET s == Main[m][i] IN
            /\ Puts(s) => s.key \in KeysOf(Creation)
            /\ Puts(s) /\ s.key[1] = "seedRun" => i = Len(Main[m])
            /\ s.do = "ensure" => s.key[1] \in {"user", "role", "module"}
            /\ s.do = "upsert" => s.key[1] # "user"
            /\ s.do = "clean" => s.key[1] \in {"menu", "roleMenu"}
            /\ s.do = "delete" =>
                 /\ m = "reset" /\ \A j \in 1 .. i - 1 : Main[m][j].do = "delete"
                 /\ i = 1 => s.key[1] = "seedRun"

With(f, k, v) == [x \in DOMAIN f \cup {k} |-> IF x = k THEN v ELSE f[x]]

Put(k, estado) == rows' = With(rows, k, estado)

Idle == [pc |-> 0, mode |-> None, env |-> None, who |-> [s \in Seeds |-> None],
         absent |-> FALSE, out |-> "new"]

Init ==
  /\ deployment \in Deployments
  /\ email = deployment.users
  /\ rows = [k \in deployment.old \cup {<<"user", x>> : x \in DOMAIN email} |-> "ACTIVO"]
  /\ proc = [p \in deployment.processes |-> Idle]
  /\ decided = {} /\ changes = 0 /\ faults = 0

Is(p, do) == proc[p].pc > 0 /\ Main[proc[p].mode][proc[p].pc].do = do
Now(p) == Main[proc[p].mode][proc[p].pc]

\* The seeded users go by the ids this process has found for them.
Key(p) ==
  LET k == Now(p).key IN
  IF k[1] = "userRole" THEN <<k[1], proc[p].who[k[2]], k[3]>> ELSE k

Goto(p, next) == proc' = [proc EXCEPT ![p] = next]

End(p, out) == Goto(p, [Idle EXCEPT !.mode = proc[p].mode, !.out = out])

Went(p, next) ==
  IF next.pc = Len(Main[next.mode]) THEN End(p, "done")
  ELSE Goto(p, [next EXCEPT !.pc = @ + 1, !.absent = FALSE])

On(p) == Went(p, proc[p])

people == <<decided, changes>>
tables == <<rows, email>>

\* An error ends the process; what it has written stays.
Fail(p) == End(p, "failed") /\ UNCHANGED <<tables, people, faults>>

-----------------------------------------------------------------------------
\* The container starts, or somebody runs the seed once more.
\* ensureDistinctSeedEmails: with two equal emails it ends at once.
Start(p) ==
  /\ proc[p].pc = 0
  /\ IF proc[p].out = "done" THEN changes < deployment.changes /\ changes' = changes + 1
     ELSE UNCHANGED changes
  /\ \E m \in deployment.modes \ {"sql"}, env \in deployment.environments :
       /\ \A s, t \in Seeds : s # t => env[s] # env[t]
       /\ Goto(p, [Idle EXCEPT !.pc = 1, !.mode = m, !.env = env])
  /\ UNCHANGED <<tables, decided, faults>>

Check(p) ==
  /\ Is(p, "check")
  /\ IF Present(<<"seedRun">>) THEN End(p, "done") ELSE On(p)
  /\ UNCHANGED <<tables, people, faults>>

InTable(table) == {k \in DOMAIN rows : k[1] = table}

Deletable(gone) == \A k \in DOMAIN rows \ gone : References(k) \cap gone = {}

\* (a bug) The legacy menus are not told from the others.
DeleteManyOfAll(p) ==
  /\ Is(p, "delete") \/ Is(p, "clean")
  /\ LET gone == InTable(Now(p).key[1]) IN
     IF ~Deletable(gone) THEN Fail(p)
     ELSE /\ rows' = [k \in DOMAIN rows \ gone |-> rows[k]]
          /\ email' = [x \in {y \in DOMAIN email : <<"user", y>> \notin gone} |-> email[x]]
          /\ decided' = decided \ gone
          /\ On(p) /\ UNCHANGED <<changes, faults>>

\* deleteMany: of a table, or of the legacy menus and their links.
DeleteMany(p) ==
  /\ Is(p, "delete") \/ Is(p, "clean")
  /\ LET table == Now(p).key[1]
         gone == {k \in InTable(table) : Now(p).do = "clean" => k[Len(k)] \in LegacyMenus}
     IN  IF ~Deletable(gone) THEN Fail(p)
         ELSE /\ rows' = [k \in DOMAIN rows \ gone |-> rows[k]]
              /\ email' = [x \in {y \in DOMAIN email : <<"user", y>> \notin gone} |-> email[x]]
              /\ decided' = decided \ gone
              /\ On(p) /\ UNCHANGED <<changes, faults>>

Owners(address) == {x \in DOMAIN email : email[x] = address}

Absent(p) == Goto(p, [proc[p] EXCEPT !.absent = TRUE])

\* (a bug) Users of an earlier generation are not looked for.
FindById(p) ==
  /\ Is(p, "ensure") /\ ~proc[p].absent
  /\ LET k == Now(p).key
         found(x) == Went(p, [proc[p] EXCEPT !.who[k[2]] = x])
     IN  CASE k[1] # "user" -> IF Present(k) THEN On(p) ELSE Absent(p)
           [] k[1] = "user" /\ Present(k) -> found(k[2])
           [] OTHER -> Absent(p)
  /\ UNCHANGED <<tables, people, faults>>

\* ensureSeedUser, ensureSeedRole and ensureSeedModule: what is there is used,
\* by its id or else by its email, name or code.
Find(p) ==
  /\ Is(p, "ensure") /\ ~proc[p].absent
  /\ LET k == Now(p).key
         found(x) == Went(p, [proc[p] EXCEPT !.who[k[2]] = x])
     IN  CASE k[1] # "user" -> IF Present(k) THEN On(p) ELSE Absent(p)
           [] k[1] = "user" /\ Present(k) -> found(k[2])
           [] k[1] = "user" /\ ~Present(k) /\ Owners(proc[p].env[k[2]]) # {} ->
                \E x \in Owners(proc[p].env[k[2]]) : found(x)
           [] OTHER -> Absent(p)
  /\ UNCHANGED <<tables, people, faults>>

\* Then create it, which fails if another one has by now.
Create(p) ==
  /\ Is(p, "ensure") /\ proc[p].absent
  /\ LET k == Now(p).key
         address == proc[p].env[k[2]]
     IN  IF Present(k) \/ (k[1] = "user" /\ Owners(address) # {}) THEN Fail(p)
         ELSE /\ Put(k, "ACTIVO")
              /\ IF k[1] = "user"
                   THEN /\ email' = With(email, k[2], address)
                        /\ Went(p, [proc[p] EXCEPT !.who[k[2]] = k[2]])
                   ELSE On(p) /\ UNCHANGED email
              /\ UNCHANGED <<people, faults>>

\* (a bug) What is there is made ACTIVO again.
UpsertActive(p) ==
  /\ Is(p, "upsert")
  /\ Put(Key(p), "ACTIVO") /\ On(p)
  /\ UNCHANGED <<email, people, faults>>

\* upsert with an empty update: INSERT ... ON CONFLICT.
Upsert(p) ==
  /\ Is(p, "upsert")
  /\ LET k == Key(p) IN
     CASE Present(k) -> On(p) /\ UNCHANGED <<tables, people, faults>>
       [] ~Present(k) /\ References(k) \subseteq DOMAIN rows ->
            Put(k, "ACTIVO") /\ On(p) /\ UNCHANGED <<email, people, faults>>
       [] OTHER -> Fail(p)

Inactivated(keys) == [k \in DOMAIN rows |-> IF k \in keys THEN "INACTIVO" ELSE rows[k]]

\* updateMany: of the administrator's SUPER_ADMIN, and of the permissions ADMIN
\* is not to have.
Revoke(p) ==
  /\ Is(p, "revoke")
  /\ rows' = Inactivated({<<k[1], IF k[1] = "userRole" THEN proc[p].who[k[2]] ELSE k[2], k[3]>> :
                            k \in Now(p).keys})
  /\ On(p) /\ UNCHANGED <<email, people, faults>>

Die(p) ==
  /\ proc[p].pc > 0 /\ faults < MaxFaults
  /\ faults' = faults + 1
  /\ End(p, "dead") /\ UNCHANGED <<tables, people>>

-----------------------------------------------------------------------------
SqlEmail == [s \in Seeds |-> s]

\* Roles and modules of an earlier generation, which may have the seeded ids
\* or others.
EarlierNames == {k \in deployment.old \cap KeysOf(Creation) : k[1] \in {"role", "module"}}

\* seed.sql. Rows are inserted ON CONFLICT of the id DO NOTHING, so a user of
\* another id with one of the emails makes all of it fail, and so does a role
\* or a module of another id with one of the names or codes.
SqlSeed(p) ==
  /\ "sql" \in deployment.modes /\ proc[p].pc = 0 /\ proc[p].out = "new"
  /\ LET seeded == (KeysOf(Creation) \ SqlOmits) \ DOMAIN rows
         off == SqlOmits \cup {<<"userRole", "admin", "SUPER_ADMIN">>}
         old == {k \in InTable("menu") \cup InTable("roleMenu") : k[Len(k)] \in LegacyMenus}
         fails == ~Deletable(old) \/ \E s \in Seeds : Owners(SqlEmail[s]) \ {s} # {}
     IN  \/ /\ Present(<<"seedRun">>)
            /\ End(p, "done") /\ UNCHANGED <<tables, decided>>
         \/ /\ ~Present(<<"seedRun">>) /\ (fails \/ \E k \in EarlierNames : Present(k))
            /\ End(p, "failed") /\ UNCHANGED <<tables, decided>>
         \/ /\ ~Present(<<"seedRun">>) /\ ~fails
            /\ rows' = [k \in seeded \cup (DOMAIN rows \ old) |->
                          IF k \in seeded THEN "ACTIVO" ELSE Inactivated(off)[k]]
            /\ email' = [x \in DOMAIN email \cup Seeds |->
                           IF x \in DOMAIN email THEN email[x] ELSE SqlEmail[x]]
            /\ decided' = decided \ old
            /\ End(p, "done")
  /\ UNCHANGED <<changes, faults>>

-----------------------------------------------------------------------------
(* Meanwhile *)

Changes == changes < deployment.changes /\ changes' = changes + 1 /\ UNCHANGED <<email, proc, faults>>

Inactivate ==
  /\ Changes
  /\ \E k \in deployment.touched :
       /\ Present(k) /\ rows[k] = "ACTIVO"
       /\ rows' = Inactivated({k}) /\ decided' = decided \cup {k}

\* MenusService gives a menu its proxy route.
AddRoute ==
  /\ Changes
  /\ \E n \in deployment.routed :
       /\ Present(<<"menu", n>>) /\ Put(<<"route", n>>, "ACTIVO")
       /\ decided' = decided \ {<<"route", n>>}

\* AuthService.selectRole stores a refresh token.
IssueToken ==
  /\ deployment.signIn /\ Changes
  /\ \E k \in InTable("userRole") :
       /\ rows[k] = "ACTIVO" /\ Put(<<"token", k[2], k[3]>>, "ACTIVO")
       /\ decided' = decided \ {<<"token", k[2], k[3]>>}

Run(p) == Check(p) \/ DeleteMany(p) \/ Find(p) \/ Create(p) \/ Upsert(p) \/ Revoke(p)

Next ==
  /\ \/ \E p \in deployment.processes : Start(p) \/ Run(p) \/ Die(p) \/ SqlSeed(p)
     \/ Inactivate \/ AddRoute \/ IssueToken
  /\ UNCHANGED deployment

Spec == Init /\ [][Next]_vars

\* The container is started again until its seed goes through.
LiveSpec == Spec /\ \A p \in Processes :
  /\ WF_vars(p \in DOMAIN proc /\ Start(p) /\ UNCHANGED deployment)
  /\ WF_vars(p \in DOMAIN proc /\ Run(p) /\ UNCHANGED deployment)

-----------------------------------------------------------------------------
(* Properties *)

\* Rows keep their shape and what they refer to is there, whatever seed.ts and
\* the gateway write at a time.
TypeOK ==
  /\ \A k \in DOMAIN rows : /\ rows[k] \in {"ACTIVO", "INACTIVO"}
                            /\ References(k) \subseteq DOMAIN rows
  /\ {<<"user", x>> : x \in DOMAIN email} = InTable("user")
  /\ \A x, y \in DOMAIN email : x # y => email[x] # email[y]
  /\ decided \subseteq DOMAIN rows

Seeded(k) ==
  CASE k[1] = "user" -> TRUE
    [] k[1] = "userRole" -> \E u \in DOMAIN email : Present(<<k[1], u, k[3]>>)
    [] OTHER -> Present(k)

\* seedRun is written last and deleted first: where it is, every row of the
\* seed is, however often seed.ts died or failed and was started again (those
\* seed.sql does not have excepted).
SeedRunMeansSeeded ==
  Present(<<"seedRun">>) => \A k \in KeysOf(Creation) \ SqlOmits : Seeded(k)

\* The same, inductively, where nobody resets while another one seeds: what a
\* process has been through is there.
Alone == "reset" \in deployment.modes => \A p, q \in deployment.processes : p = q

SeedInv ==
  /\ \A p \in deployment.processes : proc[p].pc > 0 =>
       /\ proc[p].mode \in deployment.modes \ {"sql"}
       /\ proc[p].pc \in 1 .. Len(Main[proc[p].mode])
       /\ Alone =>
            /\ \A i \in 1 .. proc[p].pc - 1 :
                 LET s == Main[proc[p].mode][i] IN Puts(s) => Seeded(s.key)
            /\ proc[p].pc > 1 /\ Now(p).do = "delete" => ~Present(<<"seedRun">>)
  /\ Alone => SeedRunMeansSeeded

\* "no reactiva registros inactivados por la aplicacion" (seed.sql:9): also not
\* when it was interrupted and is run again, or twice at once.
DecisionsAreKept == \A k \in decided : rows[k] = "INACTIVO"

RequiredOfAdmin ==
  ({"users", "roles", "modules", "menus"} \X {"read", "write", "delete"})
  \cup ({"roles"} \X {"create", "assign_user", "unassign_user",
                      "assign_permission", "unassign_permission"})
  \cup {<<"permissions", "read">>}

\* Once it is seeded ADMIN can call what the controllers open to it with
\* @RequireRoles('ADMIN'): PermissionsGuard finds the permission.
AdminReachesEndpoints ==
  Present(<<"seedRun">>) /\ "sql" \notin deployment.modes =>
    \A c \in RequiredOfAdmin :
      LET k == <<"rolePermission", "ADMIN", c>> IN
      Present(k) /\ (k \in decided \/ rows[k] = "ACTIVO")

\* The backend starts in the end: seeds that meet at a unique key, or find rows of
\* an earlier generation, end, are started again and go through.
SeedFinishes == <>(\A p \in DOMAIN proc : proc[p].out = "done")

\* "Ambos usan exactamente los mismos identificadores, de modo que ejecutar uno u
\* otro converge al mismo estado de bootstrap" (seed.sql:5).
SeedsConverge ==
  Present(<<"seedRun">>) /\ changes = 0 =>
    \A i \in DOMAIN SeedPermissions :
      LET k == <<"rolePermission", "ADMIN", Code(SeedPermissions[i])>> IN
      (Present(k) /\ rows[k] = "ACTIVO")
        <=> CanAdminReceiveSeedPermission(SeedPermissions[i])

\* "reinicializar explicitamente los usuarios, roles, modulos, menus, sesiones y
\* permisos con los valores bootstrap" (README.md:43).
ResetGoesThrough ==
  \A p \in DOMAIN proc : ~(proc[p].mode = "reset" /\ proc[p].out = "failed")

\* "Los correos seed de SUPER_ADMIN, ADMIN, demo y ventas deben ser distintos"
\* (seed.ts:138): they are four users, and one is left with SUPER_ADMIN.
SuperAdminIsSeeded ==
  Present(<<"seedRun">>) =>
    \E k \in InTable("userRole") :
      k[3] = "SUPER_ADMIN" /\ (rows[k] = "ACTIVO" \/ k \in decided)
=============================================================================

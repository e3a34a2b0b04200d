# A verification project for Master Gateway Auth

The Master Gateway signs users in, issues them a session for one role, serves
the menu of that role and forwards requests to registered microservices. This
directory holds TLA+ models of its code, the TLC configurations that check them
on small instances, and theorems that hold for every instance. Paths below are
relative to the repository; `auth.service.ts` without a path is
`backend/src/auth/auth.service.ts`.

    tlc -workers 2 -config AuthService.cfg MCAuthService     model-check a run
    tlapm AuthService_proofs.tla                             check the proofs

## 1. The system: components, state, operations

| Component | State | Operations | Talks to |
|---|---|---|---|
| AuthService (`auth/`) | `refresh_tokens`; nothing in memory | login, selectRole, refresh, logout, validateInternal | PostgreSQL, KeysService |
| UsersService (`users/`) | `usuarios` | create (with default role), update, remove | `usuario_roles`, `refresh_tokens` |
| RolesService (`roles/`) | `roles`, `usuario_roles`, `rol_modulos`, `rol_menus`, `rol_permisos` | CRUD, assign and unassign users, modules, menus, permissions | all the tables it links |
| PermissionsService | `permisos` | CRUD | |
| Guards, PolicyService, `authz.rego` | none (claims of the access token) | JWT, role, permission, OPA, in that order | OPA |
| KeysService | two PEM files, a cache per process | load or generate, JWKS | file system |
| ModulesService, MenusService | `modulos`, `menus` (a forest), `servicio_externo_rutas` | CRUD, tree of a role, attach and detach a proxy route | `servicios_externos` |
| ExternalServicesService | `servicios_externos` | create after a probe, provision a module, rotate the API key, remove | the service's HTTP endpoints |
| ServiceProxy | none | resolve a route, authorize, forward | the route tables, microservices |
| Frontend session (`services/api.ts`, `auth.service.ts`) | localStorage (shared by tabs), `isRefreshing` and a queue (per tab) | request and response interceptors, login, logout | AuthService |
| Frontend navigation (`stores/menu.ts`, `router/`) | the tree, registered routes | load, reset, add, update, remove, guard | MenusService |
| Seed, migrations, Kong registration | `_seed_runs` | batch programs at start-up | PostgreSQL, Kong |

All services of the backend are stateless NestJS singletons: their state is the
database, shared by every replica (`k8s/README.md` scales the backend to
three). A handler is an async function, so anything may happen between two of
its awaits: another handler, another replica, a crash. Most handlers are a
sequence of single statements; a few wrap some of their statements in
`prisma.$transaction`, at PostgreSQL's default isolation, READ COMMITTED, and
with their checks before the transaction. That is where the hard behaviours
are:

* **Sessions.** refresh reads the row, checks it, consumes it, inserts the
  successor and links the old row to it: four statements, no transaction.
  Requests replay, race, crash; users are removed meanwhile.
* **Administration.** Checks (role active, nobody assigned, actor holds the
  permission) precede the writes they guard. Access tokens carry a copy of the
  permissions for fifteen minutes, and refresh never checks the assignment
  again.
* **Navigation.** The menu forest is kept acyclic by a walk before the write;
  a public path is unique whatever the state of its row; removal cascades are
  written in three services.
* **Frontend.** One refresh at a time per tab, but one refresh token for all
  tabs; menu loads overlap, and views go on with answers that come late, twice or
  never.

What makes each component correct: a session is one chain of tokens and ends
when it is ended (AuthService); nobody gets a role, a permission or a menu by a
path an administrator could not have granted (RolesService, guards); the menu
is a forest, a public path leads to one active route, removal leaves nothing
reachable (Modules, Menus, ExternalServices, ServiceProxy); a tab that is
signed in holds the session's live token (frontend); re-running the seed
converges (seed). `PROJECT.json` lists the hazards at their lines.

## 2. Modules

| Module | What it is | Theorems | Runs |
|---|---|---|---|
| `SessionChain` | Abstract: a session is a capability in one place at a time | | `sessions` |
| `AuthService` | Sessions as the code implements them | `AuthService_proofs` | `sessions`, `rotated_token_replay`, `liveness` |
| `FrontendSession` | The browser's side: tabs, localStorage, the axios interceptors | `FrontendSession_proofs` | `frontend_tabs`, `logout_ends_session`, `liveness` |
| `Authorization` | Guards, policy service and `authz.rego` as operators | | with `Administration` |
| `Administration` | Roles, users, permissions, and the requests that change them | `Administration_proofs` | `administration` |
| `Catalog` | Modules, menus, services and routes, and the requests that change them | `Catalog_proofs` | `catalog`, `menu_cycle`, `liveness` |
| `ServiceProxy` | The tree of a role and the calls through `/proxy` | `ServiceProxy_proofs` | `proxy` |
| `SsrfGuard` | Which addresses may be called | `ServiceProxy_proofs` | `proxy` |
| `FrontendMenu` | Menu store, dynamic routes, router guard, menu views | `Views_proofs` | `views`, `liveness` |
| `ServiceWizard`, `DynamicPage` | The two views whose answers may come late | `Views_proofs` | `views`, `liveness` |
| `Views` | `FrontendMenu`, `ServiceWizard` and `DynamicPage`, and their properties | `Views_proofs` | `views` |
| `Seed` | The seed, statement by statement, when containers start | `Seed_proofs` | `startup`, `reset_fails`, `liveness` |
| `Keys`, `KongRegistration` | What else runs then | `Startup_proofs` | `startup`, `liveness` |
| `Startup` | `Seed`, `Keys` and `KongRegistration`, and their properties | `Startup_proofs` | `startup`, `reset_fails` |
| `MCAuthService`, `MCFrontendSession`, `MCAdministration`, `MCCatalog`, `MCServiceProxy`, `MCViews`, `MCStartup`, `MCLiveness` | Their instances for TLC | | |

How they compose. `SessionChain` joins the two sides of a session: `AuthService`
is checked to implement it, and `FrontendSession` takes its actions as the
backend. `Administration` extends `Authorization`: every request passes the
guards with the token it carries. `ServiceProxy` and `Catalog` look at the same
tables from two sides; `Catalog` has the requests that change them, call by
call, and `ServiceProxy` those that read them, under changes that are one step
each (what `Catalog` shows of a change is that its transaction is one).

The other components share no state with each other. `Views` and `Startup` put
those together that belong together: a behaviour is one of their *scenarios*, chosen
by `Init`, and the variables of the other modules do not change. For parts that share
nothing, checking each alone is checking all of them, and so is proving: the theorems
are about the specifications that TLC checks. `MCServiceProxy` (calls and addresses)
and `MCLiveness` do the same for TLC. `MCCatalog` and `MCServiceProxy` extend the
module they are about and its scenarios are parts of its `Next`: each bounds what requests ask for,
and what they do with it is the module's. A cfg names the scenarios it is about.

### 2.1 SessionChain

What refresh-token rotation promises, with no requests, rows or locks. A session
is `unopened`, in `transit` (the backend is about to issue its next token),
`live` (held by exactly one token, never used before) or `closed`, for ever.

### 2.2 AuthService

| Variable | Code |
|---|---|
| `tokens` | table `refresh_tokens` by `jti`: user, role, `estado`, `revocado_en` set or not, `reemplazado_por_jti`, `reutilizacion_detectada` |
| `userActive`, `assigned` | `usuarios.estado`; ACTIVE rows of `usuario_roles` with an ACTIVE role |
| `temp`, `expired` | users that hold a valid tempToken; refresh tokens older than seven days |
| `req` | the requests being served: the database call each will make next, and the locals that live across its awaits |
| `removal` | the transaction of `DELETE /users/:id`: rows its first statement has updated and locked |
| `delivered` | refresh tokens that reached a client |
| `root`, `raced` | history, never read by an action's guard: the session a jti was drawn for; sessions being issued while a removal of their user was open |

`root` is also what marks a jti as drawn. One action is one database call and
the code up to the next one:

| Handler | Actions |
|---|---|
| login (49-98) | `Login`, `TempTokenExpires` |
| selectRole (100-139) | `SelectRole`, `FindAssignment`, `IssueSessionTokens`, `Reply` |
| refresh (141-253) | `RefreshVerify`, `RefreshRead`, then `RefreshExpire`, or `RefreshClaim` followed by `RevokeTokenFamily` or `IssueSessionTokens`, `RefreshReplace`, `Reply` |
| logout (255-280) | `Logout` (verification touches nothing, so the handler is its one statement) |
| any of them | `Fail`: a crash, an exception or a lost answer at any await |
| UsersService.remove (141-165) | `RemoveCheck`, `RemoveRevoke`, `RemoveCommit`, `RemoveRollback` |
| time | `TokenExpires` |

Choices a reader should know:

* A statement that must update a row an open removal has updated waits
  (`Locked`), and re-evaluates its WHERE afterwards, as READ COMMITTED does.
  The removal's own first statement does not see rows inserted later, and what
  it did is visible only at commit. The two later statements of the transaction
  touch tables nobody waits on and commit with it.
* A request reserves its jti when it starts (`Fresh`), instead of drawing it in
  `issueSessionTokens`. It makes an exhausted set of ids a request that does not
  start, never one that stops halfway, and it is not observable: nobody else
  knows the value before the row is inserted.
* A client may present any token it was ever given, at any time, any number of
  times, in parallel. Tokens that do not verify change nothing and are left out,
  as are the argon2 comparison (a jti belongs to one token), throttling and logs.
* After `RefreshVerify` a token may still expire before its row is read: the
  JWT and the row have the same lifetime, so this is the only way to line 172.
* Only `UsersService.remove` changes users and assignments here. Two concurrent
  removals of one user are not modelled: the second one finds nothing to revoke.

Properties, and the way the code could break each:

| Property | Says | Would break if |
|---|---|---|
| `TypeOK` | shape; only stored tokens were delivered | a token were answered before it is stored |
| `OneLiveTokenPerSession` | a session has at most one ACTIVE token, none while the next is being issued, and is never issued for twice | the consumption were not conditional, or came after issuing |
| `ReplacementIsSuccessor` | `reemplazado_por_jti` names an existing token of the same session, user and role, with no other predecessor | the link were written before the row, or to the wrong row |
| `ActiveIffNotRevoked` | `estado` and `revocado_en` agree | one of six writes set only one of them |
| `RemovalEndsSettledSessions` | a removed user keeps no session but those being issued during the removal | the removal forgot or narrowed its first statement |
| `EndedSessionsStayEnded` | no step reopens a session | a revoked row could be consumed |
| `ImplementsSessionChain` | every step is a step of SessionChain or none | any of the above |
| `RequestsAnswered` | every request ends | a removal kept its locks |

### 2.3 FrontendSession

| Variable | Code |
|---|---|
| `phase`, `holder`, `used` | the backend, as in `SessionChain` |
| `issuedTo`, `expired` | the session each pair of tokens belongs to; pairs whose access token is over |
| `storage` | `accessToken` and `refreshToken` in localStorage |
| `page`, `refreshing` | of each tab: whether it shows `/app`; `isRefreshing` |
| `call` | every HTTP call under way, its place in `pendingQueue`, and the request for tokens made on its behalf |
| `lost` | history: tokens whose answer reached no page |

| Code | Actions |
|---|---|
| selectRole (`services/auth.service.ts` 13-25) | `SelectRole`, `IssueTokens`, `RoleSelected` or `RoleRefused` |
| a view's call, logout (35-43, `Sidebar.vue` 118-123) | `Send`; for logout also `ServeLogout`, `Logout` |
| interceptor, outcomes it passes on (`services/api.ts` 40, 90) | `Settle` |
| interceptor, 401 (47-81) | `Enqueue`, or `PresentRefreshToken` followed by `RefreshDone` or `RefreshRefused`, or `NoRefreshToken` |
| interceptor, 403 (83-88) | `Forbidden` |
| the backend's refresh | `Read`, `Claim`, `IssueTokens`, `BackendFails` |
| the network, the user, time | `AnswerLost`, `Unheard`, `Visit`, `AccessExpires`, `SessionEnds` |

Choices a reader should know:

* A pair of access and refresh token is one number, in the order of issue: every
  write sets or clears both. `StoredAccessOnly` shows what would happen if not.
* A 401 is answered and taken up in one step: an access token that is not
  accepted never is again, so only the moment of taking it up matters.
* `window.location.href = ...` is a document loaded at once. What the old
  document could still do before it is unloaded (settle a logout, that is clear a
  storage that is clear) changes nothing.
* Logout, by contrast, only moves the router: the document, its queue and a
  refresh under way stay.
* A call sent again takes its header from localStorage, which its tab has just
  written. Calls of the queue do not get `_retry`; only the one that refreshes.
* All sessions are of one user and role, where reuse of one ends the others
  (`revokeTokenFamily`). `OtherOrigin` is the build setting `VITE_API_URL`.
* `page` keeps `/login`, `/select-role` and `/unauthorized` as one: `outside`.

| Property | Says | Would break if |
|---|---|---|
| `TypeOK` | shape; localStorage holds both tokens of a pair or neither | one `setItem` were forgotten |
| `QueueHasLeader` | in a tab `isRefreshing` is set exactly while one call refreshes, and a queue has such a call | a failure reset the flag and kept the queue |
| `StoredTokenIsHolder` | if the stored token is not the one that holds its live session, that one is on its way or was lost on it | an answer were not stored whole |
| `StoredTokensAdvance` | within a session, the stored token is never replaced by an older one, whatever tab answers last | the backend rotated a token twice |
| `CallsSettle` | every call settles | the queue were forgotten on one path |

### 2.4 Authorization and Administration

`Authorization` reads like the code it models: `@Roles` and
`@RequirePermissions` of each handler, then `RolesGuard`, `PermissionsGuard`,
and `PolicyGuard` with what it sends to OPA and what `authz.rego` answers. A
token is its claims; they are a copy made when it was issued.

| Variable of `Administration` | Code |
|---|---|
| `role`, `perm`, `user`, `area` | the tables `roles`, `permisos`, `usuarios`; the ACTIVE modules and menus |
| `link` | ACTIVE rows of `usuario_roles`, `rol_permisos`, `rol_modulos`, `rol_menus` |
| `req` | the requests: handler, locals, the database call each makes next |
| `granted`, `delegated`, `recoded`, `raced` | history: who gave what; permissions that were delegable or got another code; assignments made while their role was being removed |

| Handler | Actions |
|---|---|
| RolesService create, update, remove (126-184) | `ReadUnique` and `CreateRole`; `ReadRole` and `UpdateRole`; `ReadRole`, `CountUsers`, `RemoveRole` |
| assign and unassign of users, modules, menus (186-291) | `ReadRole`, `ReadThing`, `WriteLink` |
| assignPermission, unassignPermission (293-340) | `ReadRole`, `ReadPermission`, then for roles that are not SUPER_ADMIN `ReadGranter`, `ReadHolder`; `WriteLink` |
| PermissionsService | `CreatePermission`; `ReadThing` and `UpdatePermission` or `RemovePermission` |
| UsersService create (62-109), remove | `InsertUser`, `DefaultRole`, `CommitUser`; `RemoveUser` |
| ModulesService remove, for its links | `RemoveArea` |

`Start` chooses a token that some role could have been issued at that moment,
and the body. A unique index refuses what an earlier read let by (`NameFree`,
`CodeFree`).

| Property | Says | Would break if |
|---|---|---|
| `GrantsComeFromSuperAdmin` | a role holds a permission only if SUPER_ADMIN or the seed granted it to that role, or to some role while it was delegable, unless its code was changed | delegation did not look at what the acting role holds |
| `SettledRolesStayActive` | an active user in an inactive role got it by an assignment that ran during the role's removal | removal did not count the holders |
| `UsersBeginWithRole` (`AdministrationMore.cfg`) | a user who can be seen was given a role | the user and the link were not one transaction |

### 2.5 Catalog

| Variable | Code |
|---|---|
| `module`, `menu`, `service`, `route` | the tables `modulos`, `menus`, `servicios_externos`, `servicio_externo_rutas` |
| `req` | the requests, their locals, their next call |
| `crossed` | history: menus placed while another request changed the tree |

What the tables hold at the start is one of `SeededMenus`, and `Asks` bounds the
bodies that come; both are constants, and the proofs are for any. A body of update
tells what is not given from what is given as null (`nulls`): a menu is moved to the
top or loses its url (`Left`). Clearing a route works on an INACTIVE one too.

| Handler | Actions |
|---|---|
| ModulesService create, update, remove (36-101) | `ReadExists`, `CreateModule`; `ReadModule`, `UpdateModule`; `ReadModule`, `CollectModule`, `RemoveModule` |
| MenusService create (172-211) | `ReadModule`, `ReadParent`, `Probe`, `CreateMenu` |
| MenusService update (326-414) | `ReadMenu`, `ReadModule`, `Walk` (a row at a time), `ReadParent`, `ReadRoute`, `Probe`, `UpdateMenu` with `Attach`, `Reattach` or `Detach` |
| MenusService remove (452-495) | `ReadMenu`, `Collect` (a level at a time), `RemoveMenu` |
| ExternalServicesService create, remove, provision (211-402) | `ReadExists`, `Probe`, `CreateService`; `ReadService`, `RemoveService`; `ReadService`, `ReadExists`, `Provision` |

A transaction is one action. Those of MenusService and ExternalServicesService
only write rows whose ids they know, or retire a path (`Freed`); a unique index
that stops one leaves nothing behind.

| Property | Says | Would break if |
|---|---|---|
| `CyclesNeedCrossedMoves` | a cycle takes two menus that were placed by requests that ran together | the walk stopped early |
| `OrphansNeedCrossedPlacement` | an ACTIVE menu in an INACTIVE module, or below an INACTIVE menu of an ACTIVE module, was placed by a request that ran together with another, or its parent was | removal forgot a level |
| `ImplicitServicesFollow` | an ACTIVE route through an implicit service finds that service ACTIVE | attaching again did not activate it |
| `ProvisionedOnce` | the routes of a registered service are in one module | codes of modules were not unique |
| `RequestsEnd` | every handler ends, unless there is a cycle | a level were collected twice |

### 2.6 ServiceProxy and SsrfGuard

`Arrive`, `ResolveRoute`, `EnsureAuthorized`, `CheckTarget`, `Upstream` and
`TimesOut` are `forward`, one step per wait; `Administer` is everything that
changes the tables meanwhile. `Tree` is `treeForRole`, `MatchPath` and
`BuildHeaders` are the functions of those names.

| Property | Says | Would break if |
|---|---|---|
| `CallsUseWhatWasInForce` | a call goes to a service, with a key, that a matching route had while it was served, for a menu its role could open meanwhile | access were looked up for another menu |
| `RefusalsHaveAReason` | each refusal was true at some moment of the call | only the first match were tried |
| `ShownMenusAreAllowed` | a menu in a role's tree is one its calls may open, and so are the menus above it | the tree were of another role |
| `IdentityIsTheGateways` | no header a client sends passes for the user's identity or the service's credential | one name were not blocked |
| `RefusedByRange` | an IPv4 address is refused exactly if it is in one of the special-purpose ranges, given by first and last address | a mask were off |
| `MappedAlike` | an IPv4-mapped IPv6 address is judged as the IPv4 address is | its halves were swapped |

`SsrfGuard` has one decision, `Resolved`: the run tries every first octet and both
sides of every boundary of the others, and compares the masks with the ranges' first
and last addresses; the theorems are for all octets.

### 2.7 FrontendMenu, ServiceWizard, DynamicPage

JavaScript runs to the next await, so an action is a click, the backend serving
a call, or an answer with all that follows from it.

`FrontendMenu`: the store and the router (`modules`, `nodes`, `twins`, `state`,
`registered`, `page`, `nav`), the calls for the tree (`load`), the modal and the
deletion of `MenuListView` and `ModuleListView` (`editing`, `save`, `del`), and
what the backend has (`server`). `work` says who signs in, what there is at first,
what users do, and the bounds of TLC; the theorems are for any. `SelectRole`,
`Logout`, `BackToLogin`, `Reload`, `Visit` and `ForceLoad` are the user's; `LoadAnswered` and
`LoadFailed` include the guard that waits for the load (`router/index.ts`).

* The store is a tree of nodes, and `addMenu` does not look whether a menu has one: a
  tree asked for while a menu is created may bring it before the answer to the
  creation does. `twins` is the second node of such a menu. There are never three,
  because an id is created once and a load replaces the tree. `updateMenu` and
  `removeMenu` find the first.
* `ServeSave` and `ServeDelete` are what the backend does and whether its answer
  arrives: done and answered, done and lost, or refused. After the second the store
  is as it was, and the next tree brings the change.
* What was done for one node and shows at another is history: `robbed` are the urls
  that some node still has and whose route went with another, until the next tree;
  `crossed` are the menus whose save crossed with something; `stale` says that the
  session changed while answers were on their way.
* A save that a reload leaves behind counts as served before it or refused. Deletions
  are one at a time, though `handleDelete` does not wait for the one before: two of them
  take away what each alone does, in either order.

`ServiceWizard`: the three steps of `ExternalServiceFormView`; `Probed`,
`Created`, `Provisioned` and `Refused` are answers. Nothing in the form waits for a
probe: an answer that finds another url in it is stored all the same, and is `late`,
as are the items that are made from it. `DynamicPage`: one instance that the router
keeps from one dynamic route to the next. Its calls return in any order, with an
answer or an error; `overtaken` says that, since the last went out, an older one
failed or returned after it.

| Property | Says | Would break if |
|---|---|---|
| `RoutesHaveMenus` | the router has no route for what the tree does not show | a removal unregistered the top menu only |
| `MenusHaveRoutes` | what the tree shows can be opened, unless another node with its url, of another menu or of the same one shown twice, was edited or removed since the last tree | an edit changed the node only |
| `MenuIsOfRole` | the tree is of the session's role, unless a role was selected without logging out, or somebody left while the tree was being loaded or a menu saved | logout kept the store |
| `MenusOfTheService` | menus that are provisioned are under their service's code and lead to endpoints it listed itself, were added by hand, or came with a late answer | a second probe kept the first one's items |
| `OnlyProbedServices` | nothing but an answer for the url in the form, or a late one, lets an administrator go on | a changed url kept its probe |
| `QuietPageShowsItsMenu` | a page without calls under way shows the answer or the error of its own menu, whatever came before its own, unless it was overtaken | the page were loaded once |

Each exception is something the code lets happen: `EveryMenuHasRoute`,
`MenuIsOfActiveRole`, `OnlyWhatAnswered` and `PageShowsItsMenu` are stated without
exceptions, and TLC finds them violated (section 5).

### 2.8 Seed, Keys, KongRegistration

`Seed`: the database is a function from the keys of rows to their `estado`. The
seed is a list of statements (`Main` with `Step`s made from the seeded data), and
`Run` executes the next one of a process; each commits alone. `Die` ends a
process between two of them. Meanwhile the gateway may be in use: `Inactivate`,
`AddRoute`, `IssueToken`. `SqlSeed` is `seed.sql`, one transaction; its rows conflict by
id only, so an earlier role or module may make all of it fail (`EarlierNames`; the model
has no ids, so it may or may not).

`Keys`: `ensureKeysLoaded` is synchronous, but another replica, or the end of
the process, comes between any two of its calls on files; `writeFileSync` empties
the file before it fills it (`OpenPrivate`, `FillPrivate`, ...), and a process that ends
in between leaves it empty (`Torn`). A `volume` is who
mounts the directory, what it may have at first and whether it can be written: the
Secret of the cluster, the volume of one replica, or one that several share.

`KongRegistration`: one action per HTTP request of `auto-register-kong.js`, with
what Kong does with it; answers with an error, 5xx or 400, which the script does not
look at (`ErrorAnswer`), and broken connections (`Fails`) at any of them.

| Property | Says | Would break if |
|---|---|---|
| `DecisionsAreKept` | what an administrator inactivated stays so while the row is there, whatever seeds run | an upsert set `estado` |
| `SeedRunMeansSeeded` | where the row of `_seed_runs` is, every row of the seed is, however often it died or failed before | the menus that a start cleans away were not told from those of the seed |
| `TokensCrossReplicas` | replicas that share one read-only Secret verify each other's tokens | a pair that cannot be written were used |
| `OwnTokensVerify` | a replica alone on its volume verifies what it signs, though it may crash anywhere and the public file may have been lost | the public file were written first |
| `CleanSuccessIsRegistered` | an execution that met no answer with an error and reports success has its service and paths in Kong | a failed list counted as empty |
| `Idempotent` | after such a success further executions with the same variables change nothing | a service found were created again |
| `EveryReplicaServes` | every replica gets both halves, though it may read what another writes and processes may end anywhere, unless that left a file empty | one field were checked instead of both |
| `SeedFinishes` | every container's seed finishes | a row were looked for by id only |

## 3. Runs

| Run | Instance | Shows |
|---|---|---|
| `sessions` | 1 user, 1 role, 3 jtis, 2 requests | the safety of sessions and that they implement `SessionChain` |
| `frontend_tabs` | 2 tabs, 2 calls, 2 sessions, 3 tokens | tokens in a localStorage that two tabs write |
| `administration` | 3 requests; 3 seeded roles and a free id, 2 users, 3 permissions, 1 menu, 4 role names, 3 codes; two workloads | permissions, and holders of roles |
| `catalog` | scenarios `menus` (3 menus, 2 requests), `routes` (1 menu, 3 requests), `paths` (2 menus, 2 paths, 2 requests), `services` (1 service, 3 requests) | the forest, routes and provisioning |
| `proxy` | scenarios `calls` (1 call, 2 changes), `tree` (3 menus, 3 changes), `headers`, `targets` | calls, trees, headers, addresses |
| `views` | scenarios `navigation` (3 menus; workloads `Editing`: 3 edits, `Sessions`: 2 roles, 2 loads, `Handover`: 2 roles, 2 edits), `wizard` (2 codes, 2 urls, 2 changes), `page` (4 menus, 3 calls) | the frontend's answers that come late, fail or are lost |
| `startup` | scenarios `seed` (2 replicas, or one process in each mode), `keys` (2 replicas on a Secret, or 1 on its own volume; 2 crashes), `kong` (3 containers) | start-up with deaths and administrators at work |
| `liveness` | scenarios `sessions`, `tabs`, `menus`, `seed` (2 replicas, no deaths), `keys` (2 replicas on one volume, 1 crash), smaller | what must eventually happen |
| `rotated_token_replay`, `logout_ends_session`, `menu_cycle`, `reset_fails` | as `sessions`, `frontend_tabs`, `catalog`, `startup` | a sentence of the repository each that the code does not keep (section 5) |

Other configurations, to run by hand. They check more of the same instances:

| Configuration (module) | Checks | Result |
|---|---|---|
| `AdministrationMore.cfg` (`MCAdministration`) | `TypeOK`, `UsersBeginWithRole`, and `GrantsInv`, `HoldersInv`, `LinksInv` (the inductive invariants of the proofs) | holds |
| `FrontendMore.cfg` (`MCFrontendSession`) | `FrontendInv` and `TokensInv` (the inductive invariants of the proofs) | holds |
| `CatalogMore.cfg` (`MCCatalog`) | `TypeOK`, `RequestsKnow`, `TreeInv`, `CodesKept` (the inductive invariants of the proofs) | holds |
| `ServiceProxyMore.cfg` (`MCServiceProxy`) | `TypeOK`, `CallsKnow` (the inductive invariant of the proofs) | holds |
| `ViewsMore.cfg` (`MCViews`) | `TypesOK`, `EditsReachTheirMenu`, `SomethingForSomebody`, and `RoutesInv`, `RoleInv`, `EditsInv` (the inductive invariants of the proofs) | holds |
| `StartupMore.cfg` (`MCStartup`) | `TypeOK`, `SeedInv` (the inductive invariants of the proofs), `TypesOK`, `AdminReachesEndpoints`, `JwksIsCurrent`, also for two replicas that share a volume | holds |
| `LivenessMore.cfg` (`MCLiveness`) | `NavigationSettles`, `LoadingEnds` | holds |
| `Liveness` with `MaxFaults = 1` and the scenario `seed` only | `SeedFinishes`, when a seed may also die or fail anywhere (545 268 states) | holds |
| `AuthServiceDocs`, `FrontendDocs`, `AdministrationDocs`, `CatalogDocs`, `ViewsDocs`, `StartupDocs`, `LivenessDocs` | what the repository's documents, comments and tests say | each property is violated (section 5); TLC stops at the first, so check them one at a time |
| `FrontendDocs` with `OtherOrigin = TRUE` | `StoredTokensWereIssued` | violated |
| `ServiceProxy` with `Groups <- FirstGroups` | `UniqueLocalByFirstByte` | violated |
| `StartupDocs` with `SPECIFICATION NamedSpec` | `NamedIsRegistered` | violated |
| `LivenessDocs` with `Writable = TRUE` and the scenario `keys` only | `AlwaysServes`, by a torn file | violated |

**Bounds.** `Jtis` bounds how many tokens are ever issued, `Requests` how many
are served at once. Two requests are enough for every race of sessions: refresh
against refresh; logout and removal are actions of their own. Three jtis give two
sessions, one of them rotated, or one session rotated twice, which is what a
replay of a token two generations old needs. One pair of user and role suffices
because every statement filters by jti or by that pair.

In the browser, two tabs are all the actors a race on localStorage has, and one
call in each is enough: the first refreshes while the other signs out, in or
refreshes too. The queue with several calls is in `liveness`, and for any number
in the proof. When `MaxToken` pairs are issued the backend can only fail, as it
may at any time.

Three requests in `administration` are two that delegate while the third takes
back, or a removal, an assignment and one that looks: each chain of delegations
has a middle. Two are enough in `menus`, where a cycle takes two moves and an
orphan one placement and one removal; three in `routes`, since a
route is set, cleared and set again around a removal; three in `services`, where
of two provisions another changes what they looked at. Three menus make a
subtree with an inner level.

Calls of `proxy` do not meet, so there is one, with two changes: what it read
before and what it reads after. A client sends none of the headers or all of
them: each header is judged by itself. The seed's data are those of the repository,
whole; deaths and decisions are counted (`MaxFaults`, `changes`), two each.
Every bound is a constant or a field of the scenario, named where it is declared.

Three menus, one of them a page below another and one still to be made, and three
edits: a menu created while the tree is loaded, then edited and removed. In the wizard
a second url is enough for a probe to be of the other one, and three calls of a page are
one that is its own and two that are late in either order.

`liveness` has fewer faults than the safety runs, because TLC keeps the graph of
all behaviours. Its seeds do not die (`MaxFaults = 0`): two of them start together, fail
where they meet at a unique key, and are started again; with one death `SeedFinishes` was
checked by hand. One process of two may crash anywhere in `keys` (`MaxCrashes = 1`).
Requests and tabs meet failures as in their own runs.

**Symmetry** is used where the sets it permutes occur in no scenario's data, and
in no liveness run. **Deadlock** is checked for `frontend_tabs`, where somebody can
always do something. Elsewhere requests, tokens or changes are used up, and the
system stops because the bound is reached. That nothing
hangs before is what `liveness` shows.

**Fairness.**

* Sessions: weak fairness on a transaction (`RemovalStep`): Prisma commits it or
  rolls it back when its timeout expires. Strong fairness on a request's own
  steps: Node resumes a handler whose await has settled, and a statement that
  waits for a row lock is first in PostgreSQL's queue for it, so transactions
  that come one after another cannot pass it over for ever.
* `FrontendSession`: weak fairness on each call (`Proceed`): it is answered or
  the browser reports an error, and the event loop runs the handler.
* `Catalog`: weak fairness on the steps of a request that has begun, for the same
  reason; there are no locks to wait for.
* `FrontendMenu`, `DynamicPage`: a call that was sent is served, and answered or
  refused (axios has a timeout).
* `Keys`: a replica's code goes on, and requests that verify a token keep coming
  to it; no more crashes than `MaxCrashes` happen, and a replica that crashed is
  started again.
* `Seed`: a container that ended is started again and its code goes on; deaths
  are bounded. Compose and Kubernetes restart what fails.

Nothing is assumed of clients, users, administrators, failures, logouts or
expiry.

## 4. What is proved

For any sets and any values of the constants, from assumptions that only keep
null apart from values and handlers' names among those there are.

**`AuthService_proofs`** (assumption `NoneAssumption`):

* `SessionInvariance`: `Spec => []SessionInv`, the inductive invariant;
* `TypeCorrect`, `SessionNeverForks`, `SuccessorsAreRight`: the invariants
  `TypeOK`, `OneLiveTokenPerSession` and `ReplacementIsSuccessor`.

None of the three is inductive by itself. What they need is what a request in
flight knows of the table at each of its awaits (`RequestLocals`): for example,
that between consuming a row and linking it that row cannot become ACTIVE again,
that its jti is still drawn for its own session, that the row to be inserted does
not exist. To that come `NextsDiffer` (two requests never hold the same jti),
`RootsAreSessions` and `LockedRowsExist`. The proof has one lemma per action.
Revocations, by expiry, reuse, logout and removal alike, share `RevocationStep`:
they only take rows out of use. Steps that leave the table alone share
`QuietStep`. The claim, the insertion and the link have proofs of their own.

Its second part is about what sessions promise:

* `Refinement`: `Spec => ImplementsSessionChain`, the abstract specification
  (it states no fairness, so the prover can take all of it);
* `EndedSessionsStay`, `EstadoSaysRevoked`, `RemovalEndsSessions`:
  `EndedSessionsStayEnded`, `ActiveIffNotRevoked`, `RemovalEndsSettledSessions`.

It sorts the actions by what they do to sessions: `selectRole` opens
one (`Opens`), the claim of refresh spends the live token of one (`Spends`), the
insertion stores the next (`Stores`), and all others at most take tokens out of
use (`Narrows`); `Moves` says there is nothing else. Ended sessions and the
refinement follow from these four cases. The refinement also needs the mapped
variables, which are defined with CASE and CHOOSE, as relations: `Phased` says by
which rows and requests a session is unopened, in transit, live with which
holder, or closed, and holds because a session never forks. The theorem on
removal adds `RemovalsSettle` to the invariant: while the transaction is open, an
ACTIVE row of its user is one it has locked, or of a session noted in `raced`;
afterwards only the latter.

**`FrontendSession_proofs`** (assumptions `NoTabAssumption`, and for the second part
`TokensAssumption`: null and the string `"undefined"` are no tokens):

* `FrontendInvariance`: `Spec => []FrontendInv`, the inductive invariant;
* `FrontendTypeCorrect` and `OneRefreshPerTab`: `TypeOK` and `QueueHasLeader`.

`QueueHasLeader` needs types (a call under way has a tab or has lost it) and that
a selectRole is never sent, queued or refreshed (`SignInsAreNotRefreshed`).
Otherwise a step either leaves alone who refreshes in each tab (`QuietStep`, and
`OneCallStep` for the many that touch one call) or empties one tab
(`ClearingStep`: reloads, failures, answers); `Enqueue` and
`PresentRefreshToken`, which do neither, have proofs of their own.

Its second part is about the tokens:

* `TokensInvariance`: `Spec => [](FrontendInv /\ TokensInv)`;
* `StoredKeepsUp`, `StoredOnlyAdvances`: `StoredTokenIsHolder` and
  `StoredTokensAdvance`.

That localStorage keeps up with the session is not inductive: an answer that lands
must bring the holder. It does because a token on its way to the browser has not
been stored, so nobody presented it, so nothing newer came of it
(`FlyingTokensAreNew`); that takes `OnlyIssued` (nobody presents what was not
issued), `OneIssuer` and `HolderIsNewest` for the session. Most actions only end
calls and sessions (`Fades`); presenting, reading, claiming, issuing and landing
have lemmas of their own.

**`Administration_proofs`** (assumptions `NoneAssumption`, `WorkloadsAssumption`,
`KindsAssumption`: tables share no ids, `SeedAssumption`: what the seed leaves is
typed, its codes differ, its links are of active roles):

* `GrantsInvariance`: `Spec => []GrantsInv`, the inductive invariant;
* `GrantsAreGiven`: `GrantsComeFromSuperAdmin`, for any number of roles,
  permissions and concurrent requests.

`GrantsComeFromSuperAdmin` alone is not inductive: the write of a delegation
does not look at anything. What it needs is what the request has learned before
(`Knows`): the permission it read was delegable at that time, and once it has
found its own role to hold it, that permission had been given to some role
(`Given`). Both stay true whatever others do, because the history they are about
only grows; what a role *holds* may be gone by then, which is why the weaker
statement is the one that holds (section 5, `DelegatorHoldsPermission`). To that
come the shapes that keep rows of one table from being taken for another's
(`Shaped`). The lemmas `ReadStep` and `WriteStep` carry what every read and every
write leaves alone, and one lemma follows each handler.

Its second part is about who holds the roles:

* `HoldersInvariance`: `Spec => []HoldersInv`, inductive next to `GrantsInv`;
* `RolesStayActive`: `SettledRolesStayActive`.

The removal's write does not look at anything either. What makes it safe is that
a removal which has counted (`Removing`) and an assignment which has found the
role ACTIVE (`Assigning`) are noted in `raced` as soon as both are under way, and
that otherwise neither can spoil what the other saw: whoever holds the role after
the count was being assigned then, and an assignment under way has an ACTIVE role
until a removal of it writes. A user who is being created is the other half: it
must not be there yet (`Creating`, `Sees`), and no two creations may have the same
one, or the commit of one would revive a holder that the count did not see.
`ReadHolds` says what any read leaves so, `WriteHolds` what any write must keep.

Its third part is about rows that need each other:

* `LinksInvariance`: `Spec => []LinksInv`, inductive next to the other two;
* `UsersHaveRoles`: `UsersBeginWithRole`;
* `AdministrationTypeCorrect`: `TypeOK`, which also says that a link is of a role
  with a row.

The write of a link looks up no role: the request has found it, some calls ago
(`Linking`), and rows of roles are never deleted. The removal of a user writes the
user's row: that it cannot bring in a user without a role is what `Sees` knows.

**`ServiceProxy_proofs`** (assumption `SeedAssumption`: the rows at the start fit
`schema.prisma`, and null is no word of a header):

* `ProxyInvariance`: `Spec => []ProxyInv`, the inductive invariant;
* `CallsInForce`, `RefusalsReasoned`, `IdentityKept`: `CallsUseWhatWasInForce`,
  `RefusalsHaveAReason`, `IdentityIsTheGateways`;
* `TreesAllowed`: `ShownMenusAreAllowed`, for the tree as the least set of visible
  menus whose parents are none or in it.

A call looks at the routes at one moment and at its role's access at another, and
neither need be so any more when it goes out. `CallsKnow` is what makes that
inductive: the history of a call under way contains all there is to find and to
open now (each change by an administrator adds to it), and what the call found
and was told is in its history. So administrators make one kind of step, proved
once for all of them, and a step of a call only moves what it just saw from the
tables into what it knows. `IdentityIsTheGateways` rests on which headers are
blocked, and on none being put in by the route's credential before the Gateway's
own are set.

Its second part is about addresses (assumption `GuardAssumption`: octets have 8 bits
and groups 16, null is no reason), for `GuardSpec`:

* `GuardRefusesTheRanges`, `MappedFormsAreJudgedAlike`: `RefusedByRange`,
  `MappedAlike`, for every octet in each position.

The code masks, the property compares with first and last addresses. A mask leaves
of each octet what division by a power of two leaves (`MaskByOctets`), so each length
of a mask asks of at most one octet more than that it is equal or anything (`Slash8`,
`Slash10`, ...); to be between two addresses is an order of octets, the first that
differs decides (`OrderByOctets`). `MaskAsks` and `BetweenAsks` say that of the
ranges, and `BlockedWithin` that it is the same. `MappedAlike` is that packing two
octets into a group and taking it apart again loses nothing
(`MappedAreTheOctets`).

**`Catalog_proofs`** (assumptions `SeedAssumption`: rows at the start fit
`schema.prisma`, null is no row, id or handler; `ForestAssumption`: they form a
forest in which what is ACTIVE is below what is ACTIVE):

* `CatalogInvariance`: `Spec => []CatalogInv`, inductive, and from it
  `CatalogTypeCorrect` and `ServicesFollow`: `TypeOK`, `ImplicitServicesFollow`;
* `TreeInvariance`: `Spec => []TreeInv`, inductive next to `CatalogInv`, and from it
  `CyclesTakeTwo` and `OrphansTakeTwo`: `CyclesNeedCrossedMoves` and
  `OrphansNeedCrossedPlacement`;
* `OneProvision`: `ProvisionedOnce`, if no request rewrites the code of a module.
  Without that it is false (section 5).

A handler writes at the end what it read call by call, so the invariants say what
a request knows at each of its calls. Of rows that is easy (`RequestsKnow`): rows are
inactivated and never deleted, so those it has seen are there (`Grown`,
`KnowsMore`), and a transaction keeps foreign keys and unique indexes (`RowsGo`, one
lemma per transaction; `Detach`, `Attach` and `Reattach` have their own). Of the
tree it is not, because others change it under the request. `TreeInv` says what is
left: what `assertNoCycle` has walked is a set that leads upwards without the menu
itself (`Climbed`), what was found ACTIVE still is (`PlacementHolds`), what
`remove` has collected lacks nothing below what it has looked through
(`SubtreeCollected`), but for menus of requests that ran together, and these are in
`crossed` (`TogetherCross`). For reads one lemma says it all (`BecomesTree`): a read
moves one request and no row. For writes, `TreeGrows` says what any transaction may do
to the tree that others look at, and `OthersKnowTheTree` and `CyclesAfter` follow
from it alone. A cycle that a move closes is either closed among what was walked,
and then was there before, or leaves it through a menu in `crossed`.

The proof corrected the model's property: with three requests a menu that did not
cross stays ACTIVE under a parent that did, moved out of the module whose removal
made the parent INACTIVE. TLC found it when `TreeInv` was checked with three
requests, and `OrphansNeedCrossedPlacement` now names it.

**`Views_proofs`** (assumptions `WorkloadsAssumption`: workloads are typed;
`NoneAssumption`: null is no role, menu, url, row or navigation; `UrlsAssumption`:
the urls of menus are not those of `/login`, `/app` and the blank document;
`PageAssumption`: null is no page):

* `MenuTypeCorrect`: `Spec => []TypeOK`;
* `RoutesInvariance`, and from it `RoutesFollowMenus` and `MenusCanBeOpened`:
  `RoutesHaveMenus`, `MenusHaveRoutes`;
* `RoleInvariance`, and from it `RolesSeeTheirMenus`: `MenuIsOfRole`;
* `EditsInvariance`, inductive next to `RoutesInv`, and from it `EditsShown`:
  `EditsReachTheirMenu`.

What a step does to the store is one of five things: it replaces the tree, adds a
node, gives one another url, drops a subtree, or nothing; what each of them keeps is
proved for any tree, second nodes included (`ReplaceRoutes`, `AddRoutes`,
`UpdateRoutes`, `DropRoutes`). A route is taken away only with a node that had its url,
and what still has that url is then in `robbed`.
Trees go from the backend into answers and from answers into the store, and on the
way only lose menus (`Flows`); only the save of a menu brings in something new. The
three invariants are about what travels. `RoutesInv`: a menu that is created is in no
tree before the backend made it, so its url is the same in every tree that has it
when the store adds it, also for the second time. `RoleInv`: an answer
is for the role that asked, and that is the role there is. `EditsInv`: of a menu that
did not cross, store, answers and backend have one url and one node, but while it is
being saved (`Catching`), and then the modal is still open for it. What crosses
is what the code leaves to chance: the answer lost after the save, a save with a tree on
its way, a tree that brings a menu before `addMenu` does, a modal that moves.

The proof corrected a property here too. `MenuIsOfRole` excused only loads that were
under way when the session changed; but the answer to a save is applied as well,
whatever happened meanwhile: `saveMenu` goes on after its await, and `addMenu` puts
the administrator's menu, with its route, into the tree of the role that has signed in
since (`MenuListView.vue:295-297`, `menu.ts:93-111`). `Handover` is the workload in
which TLC reaches that, and `stale` now counts it.

Its second part is about the form and the page, which are scenarios of `ViewsSpec`:

* `MenusAreOfTheService`, `ProbedBeforeGoingOn`: `MenusOfTheService`,
  `OnlyProbedServices`. The form and what was probed and listed agree at each of its
  steps (`FormInv`, `ProbedInv`), because a change of the form goes back to the first and
  discards what is there; what an answer leaves in it afterwards is marked `late`;
* `RegisteredForSomebody`: `SomethingForSomebody`;
* `QuietPage`: `QuietPageShowsItsMenu`. While the last call is under way nothing older
  has failed, and once it has returned nothing older returns, or the page is
  `overtaken`; so what is shown in the end is what that call brought (`PageInv`).

None of them assumes that anybody waits, that answers come in order or that none
fails.

**`Seed_proofs`** (assumptions `DeploymentsAssumption`: rows of an earlier generation
fit the schema, the users' emails differ, and the row of this seed is not among
them; `PlanAssumption`: see below):

* `DecisionsStay`: `DecisionsAreKept`;
* `SeedTypeCorrect`: `Spec => []TypeOK`, foreign keys and unique emails included;
* `SeedInvariance`: `Spec => []SeedInv`, and from it
  `SeedRunHolds`: `Spec => [](Alone => SeedRunMeansSeeded)`.

All of it is for any number of processes, deaths and changes, and any database of an
earlier generation.

What a process has been through is there: that is `SeedInv`, and it is inductive because
nothing a start deletes is of the seed (`LossKeeps`), so that one process does not
undo what another has done (`OthersBeen`). The row of the seed comes last
(`LastStep`), when all the rest has been gone through. A reset is the exception:
it deletes everything, and its first statement is about that row
(`DeleteStep`). A second process may put it back while the first goes on
deleting, and then the row stands for rows that are not there. `Alone` excludes
that and nothing else: where a reset is possible, there is one process. It is how
`README.md:43-47` of the repository has it run, by hand in one container; nothing in
`seed.ts` enforces it. What happens otherwise TLC shows when `ResetTwice` is put for
`BootAndReset` in `Startup.cfg`, with the scenario `seed` only and no faults:
`SeedRunMeansSeeded` is violated. `_seed_runs`
names the seed's version (`core-security-v2`), which is why the row is not one of an earlier
generation.

`PlanAssumption` is what the proofs use of the seed's data: that `Main` goes through
every key of `Creation`, with the row of the seed last, that what is seeded refers
to what is seeded, and so on. It has no parameters: everything in it is a constant of
`seed.ts`, folded from lists, which the prover cannot compute. TLC evaluates it on
every run of `startup`, so it is checked and not assumed of anything that could vary.

The first of these proofs corrected the model: `seed.sql` also deletes legacy menus
and their links, and `decided`, which remembers what administrators inactivated, was
not told; a row that is gone decides nothing.

**`Startup_proofs`** (assumptions `KeysAssumption` and `KongAssumption`: what is
deployed, see below) is about the two modules that run next to the seed, for
`StartupSpec`:

* `StartupTypes`: `TypesOK`;
* `JwksFollowsKeys`: `JwksIsCurrent`, for any number of replicas on any volume;
  `SecretTokensCross`: `TokensCrossReplicas`, for any number on a read-only Secret;
  `OwnTokensAccepted`: `OwnTokensVerify`, for one that may write, alone. No file goes away (`Seen`), and
  what a replica has read stays true as long as nobody else writes: `SecretInv`,
  since nobody can, and `OwnInv`, since the one who does is not reading. `OwnInv`
  rests on the order of the writes: while a pair is being written the public file
  holds no key (`Writing`), so no crash leaves halves of two pairs.
* `CleanMeansRegistered`: `CleanSuccessIsRegistered`, since containers of one service
  have one url and no two paths one name; `RegisteredStays`: `Idempotent`, since they
  have the same variables.
  What Kong has of a service only grows (`Effect`), so what an execution was told
  still holds at its end (`Sound`), and what Kong refuses is there already.

The assumptions are the proofs' finding. `OwnTokensAccepted` needs `NoStrangeHalf`: on
a volume that lost only its *private* file, a replica that dies between the writes
of a new pair leaves a new private half beside the old public one, and from then on
signs what it does not accept (`keys.service.ts:64` looks only at whether the files
are there); TLC finds it when `OwnVolume` in `MCStartup` begins with such a volume
and the assumption is left out. `CleanMeansRegistered` needs `OneUrl`, since the 409 that the slower of two
containers gets is not looked at (`auto-register-kong.js:96`), and `NamesTellPaths`,
without which it is false (section 5).

**Model-checked only.** Every invariant and every action property of the passing
runs is proved. Liveness and ENABLED are beyond the prover, and stay with the run
`liveness`; so is what a recursive definition computes, and therefore what `Seed`
builds from its data: TLC evaluates that (`PlanAssumption`). What `NavigationSettles`,
`LoadingEnds` and `AdminReachesEndpoints` say is checked by the configurations of
section 3 that are run by hand.

## 5. Where the code and its documentation part

Each has a configuration in which TLC finds the property violated; the lines and
the sentences are quoted in `PROJECT.json`, "findings".

*Sessions* (`RotatedTokenReplay.cfg`, `AuthServiceDocs.cfg`)

* **A rotated token that is presented again is refused, but nothing is revoked**
  (`RotatedTokenReplayRevokes`). `refresh` tests `estado` at line 148 and every
  rotation sets it, so the branch at line 160 is dead; the unit test builds a row
  no write produces. `docs/seguridad.md:13` says reuse inactivates the family.
* **Detected reuse does not end the session** (`ReuseEndsSession`). The loser of
  a race revokes before the winner inserts. Line 442 says all of the family.
* **A removed user may keep a session** (`RemovedUserHasNoSession`), issued while
  the removal ran, and it renews itself: refresh does not look at the user again.

*Frontend session* (`LogoutEndsSession.cfg`, `FrontendDocs.cfg`)

* **Logout may leave the session alive** (`LogoutEndsSession`). Its body names the
  refresh token read before the call; if the access token has expired the
  interceptor rotates that token first and sends the same body again.
* **A late answer signs the browser in again** (`SignedOutUntilRoleSelected`).
* **A failed refresh may leave the browser signed in** (`FailedRefreshSignsOut`),
  if an administration call, or the menu tree, asked for it (`api.ts` line 72).
* **No refresh on another origin** (`StoredTokensWereIssued`): `api.ts` line 64
  posts to a literal `/api` path and ignores `VITE_API_URL`.

*Administration* (`AdministrationDocs.cfg`)

* **An active user may be left with an inactive role** (`AssignedRolesStayActive`)
  by an assignment that races with the removal.
* **A permission may be delegated by a role that no longer holds it**
  (`DelegatorHoldsPermission`).
* **With OPA nobody but SUPER_ADMIN can delegate** (`PolicyLetsDelegate`): the
  guard sends no target, and the rule needs one.

*Catalog* (`MenuCycle.cfg`, `CatalogDocs.cfg`)

* **Two moves may make a cycle** (`MenusFormForest`), and the walks that meet it
  do not end.
* **A moved menu leaves its children in the old module** (`ChildrenShareModule`).
* **A removed module keeps its service provisioned** (`RemovedModuleFreesService`).
* **A service may be provisioned twice** (`ProvisionedOnce`, scenario `recoded`),
  if the code of the first module is changed in between.
* **A removed service leaves its menus** (`RemovedServiceHidesMenus`).
* **A removed menu may keep its path** (`RemovedMenusFreePaths`), through an update
  that looked before.
* **A menu whose url changes keeps the route of the old one** (`RoutesFollowUrls`).

*Addresses* (`ServiceProxy.cfg` with `Groups <- FirstGroups`)

* **`fc::1` is taken for a unique local address** (`UniqueLocalByFirstByte`): the
  test is on the text. It refuses too much, never too little.

*Views* (`ViewsDocs.cfg`)

* **A menu may lose its route to another's removal** (`EveryMenuHasRoute`).
* **A menu may be shown twice** (`EachMenuOnce`), if a tree brings it before the answer
  to its creation does; the route goes with whichever of the two is edited or removed,
  and the other cannot be opened (`EveryMenuHasRoute` again).
* **The tree of another role may be shown** (`MenuIsOfActiveRole`): a late answer,
  or a role selected again without logging out.
* **A saved menu may update another in the tree** (`SavedMenuIsUpdated`).
* **A service may be registered with a url nobody probed** (`OnlyWhatAnswered`),
  if the form changes under the probe.
* **A page may show the answer, or the error, of another** (`PageShowsItsMenu`): one
  that comes after its own, or an error that comes before.

*Start-up* (`ResetFails.cfg`, `StartupDocs.cfg`, `LivenessDocs.cfg`)

* **SEED_RESET stops halfway** where a proxy route exists (`ResetGoesThrough`), and
  so does every start where a legacy menu has one (`SeedFinishes`).
* **`seed.sql` and `seed.ts` do not converge** (`SeedsConverge`).
* **Swapped addresses take SUPER_ADMIN's role away** (`SuperAdminIsSeeded`).
* **Replicas on one new volume may refuse their own tokens** (`SharedTokensVerify`),
  and **a volume that is read-only and empty stops the backend** (`AlwaysServes`).
* **A process that ends while it writes a key file leaves it empty for ever**
  (`AlwaysServes`): `writeFileSync` empties the file first, and `keys.service.ts:64`
  only asks whether both exist, so an empty `public.pem` is never replaced.
  `EveryReplicaServes` says that nothing else keeps a replica from its keys.
* **The Kong script reports success after an error, or for a route whose name another
  has** (`SuccessIsRegistered`, `NamedIsRegistered`).

Some sentences are from the implementation plan in `docs/planificacion`, written
for an earlier Angular frontend of the same design. Seen, not a run:
`docs/seguridad.md:14` says SUPER_ADMIN may delete users physically;
`UsersService.remove` never does, as its own comment explains.

## 6. Not modelled

* Configuration, logging and bootstrap: read once at start-up, no state after.
* The Ventas child service: only its documentation is in this repository.
* The CodeBERT scanner: a batch program that reads sources and prints a report.
* Deployment: declarative files and shell scripts around the program.
* `UsersService.update`, `ExternalServicesService.update` and `probeExisting`, and
  updates that change names, icons, order or methods only: no decision reads what
  they write. `rotateApiKey` is in `ServiceProxy`.
* `service-proxy/service-identity.service.ts`: provided, but what the proxy uses is
  the one in `external-services/`, which `HeadersFor` has.
* The other views load, show and send a form; the operations they call are
  modelled with their services. The dialog of `RoleListView` has the order of
  answers that `DynamicPage` shows.
* Passwords, argon2, throttling, JWT encoding, OpenAPI discovery: their outcomes
  are choices where one is needed.
* `resolveSeedPassword` and the migration script.

## 7. Plan

1. `RoleListView`'s dialog, and the migration script next to `Seed`.

--------------------------- MODULE Authorization ---------------------------
(***************************************************************************)
(* What the backend asks of an access token before an administration       *)
(* handler runs: JwtAuthGuard has verified it, then RolesGuard,            *)
(* PermissionsGuard and PolicyGuard look at the claims it was signed with, *)
(* never at the database. A token is [roleId, roleName, permissions]; a    *)
(* handler is named as the method of its controller, with its resource.    *)
(***************************************************************************)
EXTENDS TLC

SuperAdmin == "SUPER_ADMIN"

-----------------------------------------------------------------------------
(* @RequirePermissions of each handler *)

RolesController ==
  [findRoles |-> "roles:read", createRole |-> "roles:create",
   updateRole |-> "roles:write", removeRole |-> "roles:delete",
   assignUser |-> "roles:assign_user", unassignUser |-> "roles:unassign_user",
   assignArea |-> "roles:write", unassignArea |-> "roles:write",
   assignPermission |-> "roles:assign_permission",
   unassignPermission |-> "roles:unassign_permission"]

UsersController ==
  [findUsers |-> "users:read", createUser |-> "users:write",
   updateUser |-> "users:write", removeUser |-> "users:delete"]

PermissionsController ==
  [findPermissions |-> "permissions:read",
   createPermission |-> "permissions:write",
   updatePermission |-> "permissions:write",
   removePermission |-> "permissions:delete"]

ModulesController ==
  [findModules |-> "modules:read", createModule |-> "modules:write",
   updateModule |-> "modules:write", removeModule |-> "modules:delete"]

MenusController ==
  [findMenus |-> "menus:read", createMenu |-> "menus:write",
   updateMenu |-> "menus:write", removeMenu |-> "menus:delete"]

RequiredPermission ==
  RolesController @@ UsersController @@ PermissionsController
    @@ ModulesController @@ MenusController

\* @RequireRoles: of the class, or of the handler where it has one.
RequiredRoles(h) ==
  IF h \in {"createPermission", "updatePermission", "removePermission"}
    THEN {SuperAdmin}
    ELSE {"ADMIN"}

-----------------------------------------------------------------------------
(* The guards, in the order they run *)

RolesGuard(token, h) ==
  \/ token.roleName = SuperAdmin
  \/ token.roleName \in RequiredRoles(h)

PermissionsGuard(token, h) ==
  \/ token.roleName = SuperAdmin
  \/ RequiredPermission[h] \in token.permissions

\* The role and the permission an operation is about, for authz.rego; what
\* rego finds undefined satisfies no condition, and fails no negated one.
Undefined == [roleName |-> "", code |-> "", delegable |-> FALSE]

\* authz.rego; hard are the permission codes that end in ":delete_hard".
Rego(token, action, target, hard) ==
  LET has(code) == code # "" /\ code \in token.permissions
      notSuper == target.roleName \notin {SuperAdmin, "SUPERADMIN"}
      onTarget == {"roles:assign_permission", "roles:unassign_permission"}
      unguarded == onTarget \cup {"roles:create"}
  IN  \/ token.roleName \in {SuperAdmin, "SUPERADMIN"}
      \/ /\ has(action) /\ notSuper
         /\ action \in onTarget => has(target.code)
         /\ action = "roles:assign_permission" =>
              target.delegable /\ target.code \notin hard
         /\ action \notin unguarded => action \notin hard

\* PolicyService.evaluate behind PolicyGuard: without OPA_URL it does not
\* intervene; any failure of OPA denies. The guard sends no target.
PolicyGuard(engine, token, h, hard) ==
  \/ engine = "disabled"
  \/ engine = "opa" /\ Rego(token, RequiredPermission[h], Undefined, hard)

Admits(engine, token, h, hard) ==
  /\ RolesGuard(token, h)
  /\ PermissionsGuard(token, h)
  /\ PolicyGuard(engine, token, h, hard)
=============================================================================

-------------------------- MODULE MCAdministration --------------------------
(* Small instances of Administration for TLC. *)
EXTENDS Administration

CONSTANTS rs, ra, rb, rc, u1, u2, pa, px, pn, m1, q1, q2, q3

Row(name) == [name |-> name, active |-> TRUE]

\* The roles of the seed, and one more that nobody holds.
MCSeededRole ==
  [r \in Roles |-> CASE r = rs -> Row(SuperAdmin) [] r = ra -> Row("ADMIN")
                     [] r = rb -> Row("USER") [] OTHER -> None]

\* ADMIN may grant; the other permissions are delegable or not.
MCSeededPerm ==
  [p \in Perms |->
     CASE p = pa -> [code |-> "roles:assign_permission", delegable |-> FALSE, active |-> TRUE]
       [] p = px -> [code |-> "x", delegable |-> TRUE, active |-> TRUE]
       [] OTHER -> None]

\* ADMIN may grant; a user is SUPER_ADMIN, and USER sees a menu.
MCSeededLink == {<<ra, pa>>, <<rs, u1>>, <<rb, m1>>}

Grants ==
  {"assignPermission", "unassignPermission", "createPermission",
   "updatePermission", "removePermission"}

Holders ==
  {"createRole", "updateRole", "removeRole", "assignUser", "unassignUser",
   "assignArea", "unassignArea", "createUser", "removeUser",
   "removeModule"}

GrantsOrHolders ==
  {[engine |-> "disabled", ops |-> Grants], [engine |-> "opa", ops |-> Holders]}

\* With OPA too, permissions are given out.
Documented == GrantsOrHolders \cup {[engine |-> "opa", ops |-> PermissionOps]}

Symmetry == Permutations(Requests)
=============================================================================

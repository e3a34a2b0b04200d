------------------------------ MODULE MCViews ------------------------------
(* Small instances of Views, for TLC.                                      *)
EXTENDS Views, TLC

CONSTANTS admin, clerk, m1, n1, n2, n3, n4, u1, u2, us, l1, l2, c1, c2

-----------------------------------------------------------------------------
\* A menu with a page, and below it another, which may be one of the views.
Seeded(url) ==
  [n \in Menus |->
     CASE n = n1 -> [module |-> m1, parent |-> None, url |-> u1]
       [] n = n2 -> [module |-> m1, parent |-> n1, url |-> url]
       [] OTHER -> None]

OnlyTheTop(r) == {n1}

\* An administrator edits menus.
Editing ==
  [roles |-> {admin}, menu |-> Seeded(u2), ops |-> {"login", "edit", "load"},
   urls |-> {u1, u2}, loads |-> {l1}, edits |-> 3]

\* Roles come and go.
Sessions ==
  [roles |-> {admin, clerk}, menu |-> Seeded(us),
   ops |-> {"login", "logout", "back", "reload", "visit", "load"},
   urls |-> {}, loads |-> {l1, l2}, edits |-> 0]

\* An administrator leaves while a menu is being saved, and another role comes.
Handover ==
  [roles |-> {admin, clerk}, menu |-> Seeded(u2), ops |-> {"login", "logout", "edit"},
   urls |-> {u2}, loads |-> {l1}, edits |-> 2]

EditsAndSessions == {Editing, Sessions, Handover}
=============================================================================

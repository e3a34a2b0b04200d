--------------------------- MODULE MCServiceProxy ---------------------------
(* Small instances of ServiceProxy, and of the SsrfGuard that judges the   *)
(* addresses the gateway calls, for TLC. A behaviour is one of the         *)
(* scenarios: a part of what ServiceProxy does with the constants of the   *)
(* configuration, or the guard alone with ServiceProxy at rest.            *)
EXTENDS ServiceProxy, SsrfGuard, Integers, TLC

CONSTANTS admin, clerk, auditor, m1, m2, n1, n2, n3, s1, s2, k1, Scenarios

VARIABLE scenario

\* A root and two leaves, one below it and one in a module of its own.
MCSeededMenus ==
  [n \in Menus |->
     [module |-> IF n = n3 THEN m2 ELSE m1,
      parent |-> IF n = n2 THEN n1 ELSE None, active |-> TRUE]]

\* /a/:x and /a/b: the second also matches the first.
MCPatterns == {<<"a", Param>>, <<"a", "b">>}
MCPaths == {<<"a", "b">>, <<"a", "c">>, <<"b">>}

MCSeededRoutes ==
  [n \in Menus |->
     IF n = n2 THEN [pattern |-> <<"a", Param>>, service |-> s1,
                     methods |-> {"GET"}, active |-> TRUE]
     ELSE None]

\* A client's headers go through or not one by one.
MCHeaderSets ==
  {{}, {"authorization", "x-gateway-user-id", "x-gateway-permissions", "x-api-key", "accept"}}

\* What a scenario is about: how often administrators change something, for
\* whom and of what, who calls, with which headers, and how services are
\* called.
Part ==
  CASE scenario = "calls" ->     \* Routes, services and access change under a call.
         [changes |-> 2, roles |-> {clerk}, modules |-> {}, menus |-> {n1, n2},
          services |-> {s1, s2}, callers |-> {admin, clerk}, headers |-> {},
          strategies |-> {"API_KEY"}]
    [] scenario = "tree" ->      \* What roles see of a larger tree.
         [changes |-> 3, roles |-> {clerk}, modules |-> Modules, menus |-> Menus,
          services |-> {s1}, callers |-> {}, headers |-> {},
          strategies |-> {"API_KEY"}]
    [] scenario = "headers" ->   \* The headers that clients send and services read.
         [changes |-> 1, roles |-> {auditor}, modules |-> {m1}, menus |-> {n1, n2},
          services |-> {s1}, callers |-> {admin, auditor}, headers |-> Headers,
          strategies |-> Strategies]

\* All that is not in the part is as it was at the start.
InPart ==
  /\ changes <= Part.changes
  /\ Roles \ Part.roles \subseteq roles /\ Services \ Part.services \subseteq services
  /\ roleModule \subseteq Part.roles \X Part.modules
  /\ roleMenu \subseteq Part.roles \X Part.menus
  /\ \A n \in Menus :
       /\ menu[n].parent \in Part.menus \cup {None}
       /\ n \notin Part.menus => route[n] = None /\ menu[n].parent = None
       /\ route[n] # None => route[n].service \in Part.services
  /\ \A s \in Services :
       /\ credential[s].strategy \in Part.strategies \cup {"API_KEY"}
       /\ s \notin Part.services => credential[s] = [strategy |-> "API_KEY", key |-> None]
  /\ \A c \in Calls :
       call[c].role \in Part.callers \cup {None} /\ call[c].headers \subseteq Part.headers

\* Every first octet, and both sides of every boundary in the others.
Boundaries ==
  <<0 .. 255,
    {0, 1, 15, 16, 17, 18, 19, 20, 31, 32, 63, 64, 127, 128, 167, 168, 169, 253, 254, 255},
    {0, 1, 255}, {0, 255}>>

\* The first group of the ranges of IPv6, their neighbours, and the shorter
\* groups with the same digits. 252 is 0xfc, 65152 is 0xfe80.
FirstGroups == {0, 1, 15, 252, 253, 254, 4032, 8193, 64511, 64512, 64768, 65023, 65024, 65152}

\* Those printed with four digits.
FullGroups == FirstGroups \ {252, 253, 4032}

ProxyAtRest ==
  /\ Init
  /\ roleModule = {} /\ roleMenu = {}
  /\ credential = [s \in Services |-> [strategy |-> "API_KEY", key |-> None]]

GuardAtRest == GuardInit /\ ~allowed

MCInit ==
  /\ scenario \in Scenarios
  /\ \/ scenario # "targets" /\ Init /\ InPart /\ GuardAtRest
     \/ scenario = "targets" /\ GuardInit /\ ProxyAtRest

MCNext ==
  /\ UNCHANGED scenario
  /\ \/ scenario # "targets" /\ Next /\ InPart' /\ UNCHANGED guardVars
     \/ scenario = "targets" /\ GuardNext /\ UNCHANGED vars

MCSpec == MCInit /\ [][MCNext]_<<scenario, vars, guardVars>>
=============================================================================

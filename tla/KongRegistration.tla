-------------------------- MODULE KongRegistration --------------------------
(***************************************************************************)
(* auto-register-kong.js: containers that each run it once, in any order   *)
(* or together, against one admin API of Kong. One action is one HTTP      *)
(* request, what Kong does with it and the code up to the next request. An *)
(* answer that is lost and a connection that is refused both end the       *)
(* script: the request before is then one that took effect or one that was *)
(* never sent.                                                             *)
(*                                                                         *)
(* Kong, as the script uses it: services have a name and a url, routes a   *)
(* name, which is unique, a path and a service. A refused request changes  *)
(* nothing.                                                                *)
(***************************************************************************)
EXTENDS Naturals, Sequences, SequencesExt

CONSTANTS
  Runs,           \* executions of the script
  Services, Urls, Paths, Names,
  Config,         \* [service, url, paths] of each execution
  Dashed,         \* of a path: the path with '-' for every '/'
  Earlier,        \* the [url, routes] Kong may have at the start
  MaxErrors,      \* bound on the answers with an error
  None

VARIABLES
  url,            \* of each service, or None
  routes,         \* [service, name, path]
  run,            \* the executions and their locals
  errors          \* answers with an error so far

vars == <<url, routes, run, errors>>

-----------------------------------------------------------------------------
Route == [service: Services, name: Names, path: Paths]

\* What the constants are.
Values ==
  /\ Config \in [Runs -> [service: Services, url: Urls, paths: Seq(Paths)]]
  /\ Dashed \in [Paths -> Names]
  /\ None \notin Urls /\ MaxErrors \in Nat
  /\ \A k \in Earlier:
       k.url \in [Services -> Urls \cup {None}] /\ k.routes \subseteq Route

\* Containers of one service have one url, though not always the same paths.
OneUrl == \A q, r \in Runs:
  Config[q].service = Config[r].service => Config[q].url = Config[r].url

\* Containers of one service have the same variables.
SameVariables == \A q, r \in Runs:
  Config[q].service = Config[r].service => Config[q] = Config[r]

\* No two paths share a name, and the routes Kong has are the script's.
NamesTellPaths ==
  /\ \A p, o \in Paths: Dashed[p] = Dashed[o] => p = o
  /\ \A k \in Earlier: \A o \in k.routes: o.name = Dashed[o.path]

Steps == {"wait", "find", "update", "create", "list", "route"}

\* left: the positions of the paths still to create.
\* clean: history, no answer to this execution was an error.
TypeOK ==
  /\ url \in [Services -> Urls \cup {None}]
  /\ routes \subseteq Route
  /\ run \in [Runs -> [pc: Steps \cup {"done", "failed"}, left: SUBSET Nat, clean: BOOLEAN]]
  /\ errors \in 0 .. MaxErrors

Init ==
  /\ \E k \in Earlier: url = k.url /\ routes = k.routes
  /\ run = [r \in Runs |-> [pc |-> "wait", left |-> {}, clean |-> TRUE]]
  /\ errors = 0

-----------------------------------------------------------------------------
Service(r) == Config[r].service

At(r, pc) == run[r].pc = pc

Goes(r, pc) == run' = [run EXCEPT ![r].pc = pc]

\* The script ends with the last path.
Lists(r, left) == [run[r] EXCEPT !.pc = IF left = {} THEN "done" ELSE "route",
                                 !.left = left]

Creates(r, left) == run' = [run EXCEPT ![r] = Lists(r, left)]

\* waitForServices: for a time that promises nothing.
Wait(r) ==
  /\ At(r, "wait") /\ Goes(r, "find")
  /\ UNCHANGED <<url, routes, errors>>

Find(r) ==
  /\ At(r, "find")
  /\ Goes(r, IF url[Service(r)] = None THEN "create" ELSE "update")
  /\ UNCHANGED <<url, routes, errors>>

\* (a bug) The service is deleted, and its routes with it, and made again.
Remake(r) ==
  /\ At(r, "update")
  /\ url' = [url EXCEPT ![Service(r)] = Config[r].url]
  /\ routes' = {k \in routes: k.service # Service(r)}
  /\ Goes(r, "list")
  /\ UNCHANGED errors

Update(r) ==
  /\ At(r, "update")
  /\ url' = [url EXCEPT ![Service(r)] = Config[r].url]
  /\ Goes(r, "list")
  /\ UNCHANGED <<routes, errors>>

\* Kong answers 409 when another execution was faster, and nobody looks.
Create(r) ==
  /\ At(r, "create")
  /\ url' = [url EXCEPT ![Service(r)] = IF @ = None THEN Config[r].url ELSE @]
  /\ Goes(r, "list")
  /\ UNCHANGED <<routes, errors>>

\* (a bug) One path that is there is taken for all.
ListAny(r) ==
  /\ At(r, "list")
  /\ Creates(r, IF \E k \in routes: k.service = Service(r) THEN {} ELSE DOMAIN Config[r].paths)
  /\ UNCHANGED <<url, routes, errors>>

List(r) ==
  /\ At(r, "list")
  /\ Creates(r, {i \in DOMAIN Config[r].paths :
                   ~\E k \in routes: k.service = Service(r) /\ k.path = Config[r].paths[i]})
  /\ UNCHANGED <<url, routes, errors>>

First(r) == {i \in run[r].left : \A j \in run[r].left : i <= j}

Put(r, path) == [service |-> Service(r), name |-> Dashed[path], path |-> path]

\* Refused when the name is taken or the service is not there.
Refused(r, path) ==
  \/ url[Service(r)] = None
  \/ \E o \in routes: o.service = Service(r) /\ o.name = Dashed[path]

CreateRoute(r) ==
  /\ At(r, "route")
  /\ \E i \in First(r):
       LET path == Config[r].paths[i] IN
       /\ routes' = IF Refused(r, path) THEN routes ELSE routes \cup {Put(r, path)}
       /\ Creates(r, run[r].left \ {i})
  /\ UNCHANGED <<url, errors>>

\* Kong answers with an error, 5xx or 400 to a url or a path that it finds
\* invalid, and nobody looks: a service that cannot be read is taken for a new
\* one, a list that cannot be read for an empty one, and a write for done.
ErrorAnswer(r) ==
  /\ errors < MaxErrors
  /\ \E s \in
       CASE At(r, "find") -> {[run[r] EXCEPT !.pc = "create"]}
         [] At(r, "update") \/ At(r, "create") -> {[run[r] EXCEPT !.pc = "list"]}
         [] At(r, "list") -> {Lists(r, DOMAIN Config[r].paths)}
         [] At(r, "route") -> {Lists(r, run[r].left \ First(r))}
         [] OTHER -> {}:
       run' = [run EXCEPT ![r] = [s EXCEPT !.clean = FALSE]]
  /\ errors' = errors + 1
  /\ UNCHANGED <<url, routes>>

\* request rejects: process.exit(1).
Fails(r) ==
  /\ run[r].pc \in Steps \ {"wait"}
  /\ Goes(r, "failed")
  /\ UNCHANGED <<url, routes, errors>>

Next == \E r \in Runs:
  \/ Wait(r) \/ Find(r) \/ Update(r) \/ Create(r) \/ List(r) \/ CreateRoute(r)
  \/ ErrorAnswer(r) \/ Fails(r)

Spec == Init /\ [][Next]_vars

-----------------------------------------------------------------------------
Registered(r) ==
  /\ url[Service(r)] = Config[r].url
  /\ \A p \in ToSet(Config[r].paths):
       \E k \in routes: k.service = Service(r) /\ k.path = p

\* An execution that reports success has its service and its paths in Kong
\* (auto-register-kong.js:157).
SuccessIsRegistered == \A r \in Runs: At(r, "done") => Registered(r)

\* So has one that met no answer with an error, whatever the others met
\* (auto-register-kong.js:81-138).
CleanSuccessIsRegistered == \A r \in Runs:
  At(r, "done") /\ run[r].clean => Registered(r)

\* After such a success, further executions with the same variables change
\* nothing (AUTO_REGISTRATION_GUIDE.md:141).
KeepsRegistered ==
  \A r \in Runs: At(r, "done") /\ run[r].clean =>
    /\ url'[Service(r)] = url[Service(r)]
    /\ \A k \in Route: k.service = Service(r) => (k \in routes' <=> k \in routes)

Idempotent == [][KeepsRegistered]_vars
=============================================================================

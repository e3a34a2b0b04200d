------------------------------ MODULE Startup -------------------------------
(***************************************************************************)
(* What runs when the gateway is deployed: the seed of the database        *)
(* (Seed), the keys each replica loads (Keys) and the registration in Kong *)
(* (KongRegistration). They share no state, so a behaviour is one of the   *)
(* scenarios and the variables of the other modules do not change.         *)
(***************************************************************************)
EXTENDS Seed

CONSTANTS
  Replicas, Pairs, Missing, Empty, Volumes, MaxCrashes,       \* see Keys
  Runs, Services, Urls, Paths, Names, Config, Dashed, Earlier,
  MaxErrors,                                                  \* see KongRegistration
  Scenarios

VARIABLES
  scenario,
  volume, file, service, used, issued, crashes,
  url, routes, run, errors

K == INSTANCE Keys
G == INSTANCE KongRegistration

seed == vars
keys == <<volume, file, service, used, issued, crashes>>
kong == <<url, routes, run, errors>>

\* Assumptions on the files that are deployed and on the variables of the
\* containers, each where a module names it.
ASSUME KeysAssumption == K!Values /\ K!OnePairDeployed /\ K!NoStrangeHalf

ASSUME KongAssumption == G!Values /\ G!OneUrl /\ G!SameVariables /\ G!NamesTellPaths

-----------------------------------------------------------------------------
SeedAtRest ==
  /\ deployment = Deployment({}, {}, {}, <<>>, {}, {}, {}, FALSE, 0)
  /\ rows = <<>> /\ email = <<>> /\ proc = <<>>
  /\ decided = {} /\ changes = 0 /\ faults = 0

KeysAtRest ==
  /\ volume = None /\ file = None /\ service = None /\ used = None
  /\ issued = None /\ crashes = None

KongAtRest == url = None /\ routes = None /\ run = None /\ errors = None

StartupInit ==
  /\ scenario \in Scenarios
  /\ \/ scenario = "seed" /\ Init /\ KeysAtRest /\ KongAtRest
     \/ scenario = "keys" /\ K!Init /\ SeedAtRest /\ KongAtRest
     \/ scenario = "kong" /\ G!Init /\ SeedAtRest /\ KeysAtRest

StartupNext ==
  /\ \/ scenario = "seed" /\ Next /\ UNCHANGED <<keys, kong>>
     \/ scenario = "keys" /\ K!Next /\ UNCHANGED <<seed, kong>>
     \/ scenario = "kong" /\ G!Next /\ UNCHANGED <<seed, keys>>
  /\ UNCHANGED scenario

startup == <<scenario, seed, keys, kong>>

StartupSpec == StartupInit /\ [][StartupNext]_startup

-----------------------------------------------------------------------------
\* Files, replicas, services and routes keep their shape (rows: TypeOK of Seed).
TypesOK ==
  /\ scenario = "keys" => K!TypeOK
  /\ scenario = "kong" => G!TypeOK

-----------------------------------------------------------------------------
(* What Keys.tla states *)

\* A token of one replica is accepted by every other that has keys, when they
\* read one Secret (hpa-backend.yaml:2-4).
TokensCrossReplicas == scenario = "keys" => K!TokensCrossReplicas

\* A replica alone on its volume accepts the tokens it signs (keys.service.ts:84).
OwnTokensVerify == scenario = "keys" => K!OwnTokensVerify

\* The key a replica publishes is the one that verifies its tokens.
JwksIsCurrent == scenario = "keys" => K!JwksIsCurrent

\* What is said of one replica is said of more on a shared volume.
SharedTokensVerify == scenario = "keys" => \A r \in Replicas: K!Verifies(r)

-----------------------------------------------------------------------------
(* What KongRegistration.tla states *)

\* A registration nothing failed in leaves service and routes in Kong.
CleanSuccessIsRegistered == scenario = "kong" => G!CleanSuccessIsRegistered

\* A registration takes away nothing another had made.
Idempotent == [][scenario = "kong" => G!KeepsRegistered]_kong

\* "Si ya existe -> lo actualiza", "Crea las rutas especificadas"
\* (AUTO_REGISTRATION_GUIDE.md:139-140).
SuccessIsRegistered == scenario = "kong" => G!SuccessIsRegistered
=============================================================================

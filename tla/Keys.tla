-------------------------------- MODULE Keys --------------------------------
(***************************************************************************)
(* KeysService: the RSA pair that a replica of the Master signs with,      *)
(* publishes and verifies with, read from two files that replicas may      *)
(* share, or generated into them. ensureKeysLoaded is synchronous, so      *)
(* nothing else of its replica runs meanwhile; other replicas, and the end *)
(* of the process, come between any two of its calls. writeFileSync first  *)
(* empties the file, so each write is two of them.                         *)
(*                                                                         *)
(* A pair is one value: its private half in one file, its public half in   *)
(* the other. A token is the pair that signed it; its claims belong to     *)
(* AuthService.                                                            *)
(***************************************************************************)
EXTENDS Naturals

CONSTANTS
  Replicas,
  Pairs,
  Missing,        \* no file
  Empty,          \* '', of a file or of a field
  Volumes,        \* what replicas may share, see Volume
  MaxCrashes

VARIABLES
  volume,         \* which of them this is
  file,           \* [private, public]
  service,        \* of each replica: its fields and where its code is
  used,           \* pairs generated so far
  issued,         \* pairs that signed a token
  crashes

vars == <<volume, file, service, used, issued, crashes>>

File == Pairs \cup {Missing, Empty}

\* The replicas that mount a directory, the files they may find in it, and
\* whether it can be written.
Volume == [replicas: SUBSET Replicas, files: SUBSET [private: File, public: File],
           writable: BOOLEAN]

\* What the constants are.
Values ==
  /\ Missing \notin Pairs /\ Empty \notin Pairs /\ Missing # Empty
  /\ MaxCrashes \in Nat
  /\ Volumes \subseteq Volume

Alone(v) == \A p, q \in v.replicas: p = q

\* A Secret of the cluster: if both files are there, they are halves of one pair.
OnePairDeployed == \A v \in Volumes: \A f \in v.files:
  ~v.writable /\ f.private # Missing /\ f.public # Missing => f.private = f.public

\* The volume of a replica may have lost files, but has the private half of each
\* public one.
NoStrangeHalf == \A v \in Volumes: \A f \in v.files:
  Alone(v) /\ f.public \in Pairs => f.private = f.public

-----------------------------------------------------------------------------
Uses == {"boot", "sign", "verify", "jwks"}

Service ==
  [pc: {"down", "up", "exists_private", "exists_public", "generate",
        "open_private", "fill_private", "open_public", "fill_public",
        "read_private", "read_public", "act"},
   use: Uses,
   private: Pairs \cup {Empty}, public: Pairs \cup {Empty},
   pair: Pairs \cup {Empty},   \* the one being generated
   jwks: Pairs \cup {Empty}]

TypeOK ==
  /\ volume \in Volumes
  /\ file \in [private: File, public: File]
  /\ service \in [Replicas -> Service]
  /\ used \subseteq Pairs
  /\ issued \subseteq Pairs
  /\ crashes \in 0 .. MaxCrashes

Down == [pc |-> "down", use |-> "boot", private |-> Empty, public |-> Empty,
         pair |-> Empty, jwks |-> Empty]

Init ==
  /\ volume \in Volumes /\ file \in volume.files
  /\ service = [r \in Replicas |-> Down]
  /\ used = Pairs \cap {file.private, file.public}
  /\ issued = {}
  /\ crashes = 0

-----------------------------------------------------------------------------
At(r, pc) == service[r].pc = pc

Loaded(s) == s.private # Empty /\ s.public # Empty

Becomes(r, s) == service' = [service EXCEPT ![r] = s] /\ UNCHANGED volume

Goes(r, pc) == Becomes(r, [service[r] EXCEPT !.pc = pc])

\* onModuleInit.
Boot(r) ==
  /\ At(r, "down")
  /\ Becomes(r, [Down EXCEPT !.pc = "exists_private"])
  /\ UNCHANGED <<file, used, issued, crashes>>

\* (a bug) Only the private half is looked at.
GetByPrivate(r, use) ==
  /\ At(r, "up")
  /\ Becomes(r, [service[r] EXCEPT
       !.use = use,
       !.pc = IF service[r].private # Empty THEN "act" ELSE "exists_private"])
  /\ UNCHANGED <<file, used, issued, crashes>>

\* A getter, called by a request that signs, verifies or publishes.
Get(r, use) ==
  /\ At(r, "up")
  /\ Becomes(r, [service[r] EXCEPT
       !.use = use,
       !.pc = IF Loaded(service[r]) THEN "act" ELSE "exists_private"])
  /\ UNCHANGED <<file, used, issued, crashes>>

ExistsPrivate(r) ==
  /\ At(r, "exists_private")
  /\ Goes(r, IF file.private = Missing THEN "generate" ELSE "exists_public")
  /\ UNCHANGED <<file, used, issued, crashes>>

ExistsPublic(r) ==
  /\ At(r, "exists_public")
  /\ Goes(r, IF file.public = Missing THEN "generate" ELSE "read_private")
  /\ UNCHANGED <<file, used, issued, crashes>>

Generate(r) ==
  /\ At(r, "generate")
  /\ \E k \in Pairs \ used:
       /\ used' = used \cup {k}
       /\ Becomes(r, [service[r] EXCEPT !.pair = k, !.pc = "open_private"])
  /\ UNCHANGED <<file, issued, crashes>>

\* (a bug) The public file is written first.
OpenPublicFirst(r) ==
  /\ At(r, "open_private") /\ volume.writable
  /\ file' = [file EXCEPT !.public = service[r].pair]
  /\ Goes(r, "fill_private")
  /\ UNCHANGED <<used, issued, crashes>>

OpenPrivate(r) ==
  /\ At(r, "open_private") /\ volume.writable
  /\ file' = [file EXCEPT !.private = Empty]
  /\ Goes(r, "fill_private")
  /\ UNCHANGED <<used, issued, crashes>>

\* (a bug) A pair that cannot be written is used all the same.
KeepUnwritten(r) ==
  /\ At(r, "open_private") /\ ~volume.writable
  /\ Becomes(r, [service[r] EXCEPT
       !.private = service[r].pair, !.public = service[r].pair, !.pc = "act"])
  /\ UNCHANGED <<file, used, issued, crashes>>

\* On a read-only volume writeFileSync throws: onModuleInit fails and the
\* process ends. Nobody has its pair, so the value may stand for a later one.
CannotWrite(r) ==
  /\ At(r, "open_private") /\ ~volume.writable
  /\ Becomes(r, Down)
  /\ used' = used \ {service[r].pair}
  /\ UNCHANGED <<file, issued, crashes>>

FillPrivate(r) ==
  /\ At(r, "fill_private")
  /\ file' = [file EXCEPT !.private = service[r].pair]
  /\ Goes(r, "open_public")
  /\ UNCHANGED <<used, issued, crashes>>

OpenPublic(r) ==
  /\ At(r, "open_public")
  /\ file' = [file EXCEPT !.public = Empty]
  /\ Goes(r, "fill_public")
  /\ UNCHANGED <<used, issued, crashes>>

FillPublic(r) ==
  /\ At(r, "fill_public")
  /\ file' = [file EXCEPT !.public = service[r].pair]
  /\ Becomes(r, [service[r] EXCEPT
       !.private = service[r].pair, !.public = service[r].pair, !.pair = Empty,
       !.jwks = Empty, !.pc = "act"])
  /\ UNCHANGED <<used, issued, crashes>>

ReadPrivate(r) ==
  /\ At(r, "read_private")
  /\ Becomes(r, [service[r] EXCEPT !.private = file.private, !.pc = "read_public"])
  /\ UNCHANGED <<file, used, issued, crashes>>

ReadPublic(r) ==
  /\ At(r, "read_public")
  /\ Becomes(r, [service[r] EXCEPT
       !.public = file.public, !.jwks = Empty, !.pc = "act"])
  /\ UNCHANGED <<file, used, issued, crashes>>

\* signGatewayToken: importPKCS8 throws on ''.
Sign(r) ==
  /\ At(r, "act") /\ service[r].use = "sign"
  /\ issued' = issued \cup ({service[r].private} \ {Empty})
  /\ Goes(r, "up")
  /\ UNCHANGED <<file, used, crashes>>

\* getJwks: createPublicKey throws on ''. exportJWK waits for nothing, so it is
\* one step.
Jwks(r) ==
  /\ At(r, "act") /\ service[r].use = "jwks"
  /\ Becomes(r, [service[r] EXCEPT
       !.pc = "up", !.jwks = IF @ = Empty THEN service[r].public ELSE @])
  /\ UNCHANGED <<file, used, issued, crashes>>

\* The end of onModuleInit, or of a getter whose caller only verifies.
Idle(r) ==
  /\ At(r, "act") /\ service[r].use \in {"boot", "verify"}
  /\ Goes(r, "up")
  /\ UNCHANGED <<file, used, issued, crashes>>

\* The process ends anywhere: a deployment, a scale-down, a crash.
Crash(r) ==
  /\ ~At(r, "down") /\ crashes < MaxCrashes
  /\ Becomes(r, Down)
  /\ crashes' = crashes + 1
  /\ UNCHANGED <<file, used, issued>>

Step(r) ==
  \/ Boot(r) \/ ExistsPrivate(r) \/ ExistsPublic(r) \/ Generate(r)
  \/ OpenPrivate(r) \/ CannotWrite(r) \/ FillPrivate(r) \/ OpenPublic(r)
  \/ FillPublic(r) \/ ReadPrivate(r) \/ ReadPublic(r)
  \/ Sign(r) \/ Jwks(r) \/ Idle(r)

Next == \E r \in volume.replicas:
          Step(r) \/ Crash(r) \/ \E use \in Uses \ {"boot"}: Get(r, use)

Spec == Init /\ [][Next]_vars

\* A process started goes on, and requests that need a key keep coming.
FairSpec ==
  /\ Spec
  /\ \A r \in Replicas:
       /\ WF_vars(r \in volume.replicas /\ Step(r))
       /\ WF_vars(r \in volume.replicas /\ Get(r, "verify"))

-----------------------------------------------------------------------------
(* What verifyGatewayToken accepts at a replica. *)
Accepts(r, token) == service[r].public = token

\* A replica that has both halves accepts what it signs.
Verifies(r) ==
  At(r, "up") /\ Loaded(service[r]) => Accepts(r, service[r].private)

\* A replica alone on its volume that has both halves has the two of one pair,
\* so it accepts what it signs and children accept it with the key it
\* publishes (keys.service.ts:50-94).
OwnTokensVerify == Alone(volume) => \A r \in Replicas: Verifies(r)

\* Replicas with the deployed pair accept every token any of them ever signed,
\* whatever restarts, and without it nobody signs (hpa-backend.yaml:2-4).
TokensCrossReplicas == ~volume.writable =>
  \A r \in Replicas: \A token \in issued: At(r, "up") => Accepts(r, token)

\* A replica that read its files again publishes the key it now verifies with,
\* not the one it had cached (keys.service.ts:33-48, 74).
JwksIsCurrent == \A r \in Replicas:
  At(r, "up") /\ Loaded(service[r]) /\ service[r].jwks # Empty =>
    service[r].jwks = service[r].public

\* A process ended between the two steps of a write: both files are there, so no
\* pair is generated any more, and one is empty (keys.service.ts:64, 72-73, 84-85).
Torn == crashes > 0 /\ Missing \notin {file.private, file.public}
                    /\ Empty \in {file.private, file.public}

\* Every replica ends up with both halves, even one that read a file another was
\* writing and wherever processes end, unless a file stays torn
\* (keys.service.ts:50-94).
EveryReplicaServes ==
  \A r \in Replicas: <>[](r \in volume.replicas => Loaded(service[r]) \/ Torn)
=============================================================================

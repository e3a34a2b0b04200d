----------------------------- MODULE MCStartup -----------------------------
(* Small instances of Startup, for TLC.                                    *)
EXTENDS Startup

CONSTANTS p1, p2, r1, r2, k1, k2, k3, k4, e1, e2, e3,
          master, ventas, url1, url2, api, health, dash

-----------------------------------------------------------------------------
NoUsers == <<>>
OneUser == [x \in {"old"} |-> "superAdmin"]

Default == [s \in Seeds |-> s]

\* The address of the administrator is the one SUPER_ADMIN had.
Moved == [Default EXCEPT !["superAdmin"] = "other", !["admin"] = "superAdmin"]

\* What an earlier generation left.
Older ==
  {<<"role", "SUPER_ADMIN">>, <<"role", "ADMIN">>, <<"userRole", "old", "SUPER_ADMIN">>,
   <<"module", "ADMIN">>, <<"menu", "legacy">>, <<"roleMenu", "ADMIN", "legacy">>}

Roleless == {<<"role", "ADMIN">>, <<"module", "ADMIN">>, <<"menu", "legacy">>}

ARow == {<<"rolePermission", "ADMIN", <<"users", "write">> >>}
SomeRows == ARow \cup {<<"roleMenu", "ADMIN", "salesMenu">>}

\* Two replicas start over an older database.
Boot == Deployment({p1, p2}, {"boot"}, {Default}, OneUser, Older, ARow, {}, FALSE, 1)

\* One process, started in each way, over a database in use.
Reset == Deployment({p1}, {"boot", "reset", "sql"}, {Default}, NoUsers, Roleless,
                    SomeRows, {"salesMenu"}, TRUE, 2)

BootAndReset == {Boot, Reset}

\* A database that is reset twice at once.
ResetTwice == {Deployment({p1, p2}, {"boot", "reset"}, {Default}, NoUsers, {}, {}, {}, FALSE, 0)}

\* A new database in use.
ResetOnly == {Deployment({p1}, {"boot", "reset"}, {Default}, NoUsers, {}, {},
                         {"salesMenu"}, FALSE, 2)}

\* The addresses are changed before the seed is run once more.
MovedEmails ==
  {Deployment({p1}, {"boot"}, {Default, Moved}, NoUsers, {}, {}, {}, FALSE, 0)}

\* The seed of SQL and that of TypeScript, over a new database.
SqlOrBoot == {Deployment({p1}, {"sql", "boot"}, {Default}, NoUsers, {}, {}, {}, FALSE, 0)}

Documented == MovedEmails \cup SqlOrBoot

-----------------------------------------------------------------------------
Files(private, public) == [private |-> private, public |-> public]

OfNewVolume == {Files(Missing, Missing)}

\* The Secret of the cluster: one pair in both files, or not there yet.
Secret == [replicas |-> {r1, r2}, files |-> OfNewVolume \cup {Files(k1, k1)},
           writable |-> FALSE]

\* One replica on a volume that is new, or lost its public file, or neither.
OwnVolume == [replicas |-> {r1}, writable |-> TRUE,
              files |-> OfNewVolume \cup {Files(k1, Missing), Files(k1, k1)}]

SecretOrOwn == {Secret, OwnVolume}

\* Two replicas on one new volume.
Shared == {[replicas |-> {r1, r2}, files |-> OfNewVolume, writable |-> TRUE]}

AllVolumes == SecretOrOwn \cup Shared

-----------------------------------------------------------------------------
\* Two containers of the master, restarted together, and one of ventas that
\* asks for a path the master has too.
Configs ==
  [e \in {e1, e2, e3} |->
     IF e = e3 THEN [service |-> ventas, url |-> url2, paths |-> <<health>>]
     ELSE [service |-> master, url |-> url2, paths |-> <<api, health>>]]

NewKong == [url |-> [s \in {master, ventas} |-> None], routes |-> {}]

\* The master as an earlier version left it.
OldKong ==
  [url |-> [s \in {master, ventas} |-> IF s = master THEN url1 ELSE None],
   routes |-> {[service |-> master, name |-> api, path |-> api]}]

NewOrOldKong == {NewKong, OldKong}

OwnNames == [p \in {api, health} |-> p]

-----------------------------------------------------------------------------
\* "/api/health" and "/api-health" have the same name.
Named == INSTANCE KongRegistration WITH
  Runs <- {e1}, Dashed <- [p \in {api, health} |-> dash], Earlier <- {NewKong}, MaxErrors <- 0

\* Nothing but one registration whose paths share a name.
NamedSpec ==
  /\ scenario = "names" /\ Named!Init /\ SeedAtRest /\ KeysAtRest
  /\ [][Named!Next /\ UNCHANGED <<scenario, seed, keys>>]_startup

\* Its success is one of those AUTO_REGISTRATION_GUIDE.md:139-140 speaks of.
NamedIsRegistered == Named!SuccessIsRegistered
=============================================================================

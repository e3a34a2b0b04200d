---------------------------- MODULE Seed_proofs ----------------------------
(***************************************************************************)
(* That the seed keeps what administrators decided, that rows fit the      *)
(* schema, and that the row that says a database is seeded is there only   *)
(* with the rest: for any number of processes, deaths and changes, and any *)
(* database of an earlier generation that fits the schema.                 *)
(***************************************************************************)
EXTENDS Seed, TLAPS

-----------------------------------------------------------------------------
(* Decisions *)

DecisionsInv == decided \subseteq DOMAIN rows /\ DecisionsAreKept

LEMMA PutRows ==
  ASSUME NEW k, NEW estado, Put(k, estado)
  PROVE  /\ DOMAIN rows' = DOMAIN rows \cup {k}
         /\ rows'[k] = estado
         /\ \A x \in DOMAIN rows \ {k} : rows'[x] = rows[x]
BY DEF Put, With

LEMMA InactivatedRows ==
  ASSUME NEW keys
  PROVE  /\ DOMAIN Inactivated(keys) = DOMAIN rows
         /\ \A x \in DOMAIN rows : Inactivated(keys)[x] = IF x \in keys THEN "INACTIVO" ELSE rows[x]
BY DEF Inactivated

\* A statement of the seed adds a row that was not there, inactivates some, or
\* deletes some with what was decided of them.
LEMMA StatementsKeep ==
  ASSUME DecisionsInv, NEW p, Start(p) \/ Run(p) \/ Die(p)
  PROVE  DecisionsInv'
<1>1. CASE Start(p) \/ Check(p) \/ Find(p) \/ Die(p)
  BY <1>1 DEF Start, Check, Find, Die, tables, people, DecisionsInv, DecisionsAreKept
<1>2. CASE DeleteMany(p)
  <2>1. CASE UNCHANGED <<rows, decided>>
    BY <2>1 DEF DecisionsInv, DecisionsAreKept
  <2>2. CASE \E gone : rows' = [k \in DOMAIN rows \ gone |-> rows[k]] /\ decided' = decided \ gone
    BY <2>2 DEF DecisionsInv, DecisionsAreKept
  <2> QED
    BY <1>2, <2>1, <2>2 DEF DeleteMany, Fail, tables, people
<1>3. CASE Create(p)
  <2>1. CASE UNCHANGED <<rows, decided>>
    BY <2>1 DEF DecisionsInv, DecisionsAreKept
  <2>2. CASE \E k : ~Present(k) /\ Put(k, "ACTIVO") /\ decided' = decided
    BY <2>2, PutRows DEF DecisionsInv, DecisionsAreKept, Present
  <2> QED
    BY <1>3, <2>1, <2>2 DEF Create, Fail, tables, people
<1>4. CASE Upsert(p)
  <2>1. CASE UNCHANGED <<rows, decided>>
    BY <2>1 DEF DecisionsInv, DecisionsAreKept
  <2>2. CASE \E k : ~Present(k) /\ Put(k, "ACTIVO") /\ decided' = decided
    BY <2>2, PutRows DEF DecisionsInv, DecisionsAreKept, Present
  <2> QED
    BY <1>4, <2>1, <2>2 DEF Upsert, Fail, tables, people
<1>5. CASE Revoke(p)
  BY <1>5, InactivatedRows DEF Revoke, people, DecisionsInv, DecisionsAreKept
<1> QED
  BY <1>1, <1>2, <1>3, <1>4, <1>5 DEF Run

LEMMA SqlKeeps ==
  ASSUME DecisionsInv, NEW p, SqlSeed(p)
  PROVE  DecisionsInv'
<1>1. CASE UNCHANGED <<rows, decided>>
  BY <1>1 DEF DecisionsInv, DecisionsAreKept
<1>2. CASE \E old, off, seeded :
             /\ rows' = [k \in seeded \cup (DOMAIN rows \ old) |->
                           IF k \in seeded THEN "ACTIVO" ELSE Inactivated(off)[k]]
             /\ decided' = decided \ old /\ seeded \cap DOMAIN rows = {}
  <2>1. PICK old, off, seeded :
             /\ rows' = [k \in seeded \cup (DOMAIN rows \ old) |->
                           IF k \in seeded THEN "ACTIVO" ELSE Inactivated(off)[k]]
             /\ decided' = decided \ old /\ seeded \cap DOMAIN rows = {}
    BY <1>2
  <2> QED
    BY <2>1, InactivatedRows DEF DecisionsInv, DecisionsAreKept
<1> QED
  <2> DEFINE seeded == (KeysOf(Creation) \ SqlOmits) \ DOMAIN rows
             off == SqlOmits \cup {<<"userRole", "admin", "SUPER_ADMIN">>}
             old == {k \in InTable("menu") \cup InTable("roleMenu") : k[Len(k)] \in LegacyMenus}
  <2>1. \/ UNCHANGED <<rows, decided>>
        \/ /\ rows' = [k \in seeded \cup (DOMAIN rows \ old) |->
                         IF k \in seeded THEN "ACTIVO" ELSE Inactivated(off)[k]]
           /\ decided' = decided \ old
    BY DEF SqlSeed, tables
  <2>2. seeded \cap DOMAIN rows = {}
    OBVIOUS
  <2> HIDE DEF seeded, off, old
  <2> QED
    BY <1>1, <1>2, <2>1, <2>2

LEMMA PeopleKeep ==
  ASSUME DecisionsInv, Inactivate \/ AddRoute \/ IssueToken
  PROVE  DecisionsInv'
<1>1. CASE Inactivate
  BY <1>1, InactivatedRows DEF Inactivate, Present, DecisionsInv, DecisionsAreKept
<1>2. CASE \E k : Put(k, "ACTIVO") /\ decided' = decided \ {k}
  BY <1>2, PutRows DEF DecisionsInv, DecisionsAreKept
<1> QED
  BY <1>1, <1>2 DEF AddRoute, IssueToken

THEOREM DecisionsInvariance == Spec => []DecisionsInv
<1>1. Init => DecisionsInv
  BY DEF Init, DecisionsInv, DecisionsAreKept
<1>2. DecisionsInv /\ [Next]_vars => DecisionsInv'
  <2> SUFFICES ASSUME DecisionsInv, [Next]_vars
               PROVE  DecisionsInv'
    OBVIOUS
  <2>1. CASE UNCHANGED vars
    BY <2>1 DEF vars, DecisionsInv, DecisionsAreKept
  <2>2. CASE Next
    BY <2>2, StatementsKeep, SqlKeeps, PeopleKeep DEF Next
  <2> QED
    BY <2>1, <2>2
<1> QED
  BY <1>1, <1>2, PTL DEF Spec

\* No statement of the seed makes a row ACTIVO that somebody has inactivated, even
\* if it is interrupted, started again or run twice at once (seed.ts, seed.sql:9).
THEOREM DecisionsStay == Spec => []DecisionsAreKept
<1>1. DecisionsInv => DecisionsAreKept
  BY DEF DecisionsInv
<1> QED
  BY <1>1, DecisionsInvariance, PTL

-----------------------------------------------------------------------------
(* Processes *)

Local(c) ==
  c \in [pc: Nat, mode: {c.mode}, env: {c.env}, who: {c.who}, absent: {c.absent}, out: {c.out}]

\* Where a process is, if it runs.
Placed(c) ==
  c.pc > 0 => c.mode \in deployment.modes \ {"sql"} /\ c.pc \in 1 .. Len(Main[c.mode])

ProcOK ==
  /\ deployment \in Deployments
  /\ proc = [q \in deployment.processes |-> proc[q]]
  /\ \A q \in deployment.processes : Local(proc[q]) /\ Placed(proc[q])

\* What a step of p does to p; the other processes stay where they are.
Ends(p) == proc'[p].pc = 0
Waits(p) == proc'[p].pc = proc[p].pc /\ proc'[p].mode = proc[p].mode
GoesOn(p) ==
  /\ proc'[p].pc = proc[p].pc + 1 /\ proc'[p].mode = proc[p].mode
  /\ proc[p].pc \in Nat /\ proc[p].pc # Len(Main[proc[p].mode])
Begins(p) == proc'[p].pc = 1
Alike(p) == \A q \in deployment.processes \ {p} : proc'[q] = proc[q]

LEMMA GotoMoves ==
  ASSUME ProcOK, UNCHANGED deployment, NEW p \in deployment.processes,
         NEW c, Local(c), Placed(c), Goto(p, c)
  PROVE  ProcOK' /\ Alike(p) /\ proc'[p] = c
<1>1. proc' = [proc EXCEPT ![p] = c]
  BY DEF Goto
<1>2. DOMAIN proc = deployment.processes
  BY DEF ProcOK
<1>3. proc'[p] = c /\ Alike(p)
  BY <1>1, <1>2 DEF Alike
<1>4. proc' = [q \in deployment.processes |-> proc'[q]]
  BY <1>1, <1>2
<1>5. \A q \in deployment.processes : Local(proc'[q]) /\ Placed(proc'[q])
  BY <1>3 DEF ProcOK, Alike
<1>6. \A q \in deployment.processes : Placed(proc[q])' <=> Placed(proc'[q])
  BY DEF Placed
<1> QED
  BY <1>3, <1>4, <1>5, <1>6 DEF ProcOK, Local, Placed

LEMMA EndMoves ==
  ASSUME ProcOK, UNCHANGED deployment, NEW p \in deployment.processes, NEW out, End(p, out)
  PROVE  ProcOK' /\ Alike(p) /\ Ends(p)
<1> DEFINE c == [Idle EXCEPT !.mode = proc[p].mode, !.out = out]
<1>1. Local(c) /\ c.pc = 0
  BY DEF Local, Idle
<1>2. Goto(p, c)
  BY DEF End
<1> HIDE DEF c
<1> QED
  BY <1>1, <1>2, GotoMoves DEF Ends, Placed

LEMMA WentMoves ==
  ASSUME ProcOK, UNCHANGED deployment, NEW p \in deployment.processes, proc[p].pc > 0,
         NEW next, Local(next), next.pc = proc[p].pc, next.mode = proc[p].mode, Went(p, next)
  PROVE  ProcOK' /\ Alike(p) /\ (Ends(p) \/ GoesOn(p))
<1>1. CASE next.pc = Len(Main[next.mode])
  BY <1>1, EndMoves DEF Went
<1>2. CASE next.pc # Len(Main[next.mode])
  <2> DEFINE c == [next EXCEPT !.pc = @ + 1, !.absent = FALSE]
  <2>1. Local(c) /\ c.pc = next.pc + 1 /\ c.mode = next.mode
    <3>1. next.pc \in Nat /\ next.pc + 1 \in Nat
      BY DEF Local
    <3>2. /\ c.pc = next.pc + 1 /\ c.mode = next.mode /\ c.env = next.env
          /\ c.who = next.who /\ c.out = next.out /\ c.absent = FALSE
      BY DEF Local
    <3>3. c \in [pc: Nat, mode: {next.mode}, env: {next.env}, who: {next.who},
                 absent: {FALSE}, out: {next.out}]
      BY <3>1 DEF Local
    <3> HIDE DEF c
    <3> QED
      BY <3>2, <3>3 DEF Local
  <2>2. Goto(p, c)
    BY <1>2 DEF Went
  <2> HIDE DEF c
  <2>3. proc[p].mode \in {"boot", "reset"} /\ Placed(proc[p])
    BY DeploymentsAssumption DEF ProcOK, Placed
  <2>4. Len(Main[proc[p].mode]) \in Nat
    BY <2>3, PlanAssumption
  <2>5. Placed(c)
    BY <1>2, <2>1, <2>3, <2>4 DEF Placed
  <2> QED
    BY <1>2, <2>1, <2>2, <2>5, GotoMoves DEF GoesOn, Local
<1> QED
  BY <1>1, <1>2

LEMMA OnMoves ==
  ASSUME ProcOK, UNCHANGED deployment, NEW p \in deployment.processes, proc[p].pc > 0, On(p)
  PROVE  ProcOK' /\ Alike(p) /\ (Ends(p) \/ GoesOn(p))
BY WentMoves DEF On, ProcOK

LEMMA FoundMoves ==
  ASSUME ProcOK, UNCHANGED deployment, NEW p \in deployment.processes, proc[p].pc > 0,
         NEW s, NEW x, Went(p, [proc[p] EXCEPT !.who[s] = x])
  PROVE  ProcOK' /\ Alike(p) /\ (Ends(p) \/ GoesOn(p))
<1> DEFINE next == [proc[p] EXCEPT !.who[s] = x]
<1>1. Local(proc[p])
  BY DEF ProcOK
<1>2. Local(next) /\ next.pc = proc[p].pc /\ next.mode = proc[p].mode
  BY <1>1 DEF Local
<1>3. Went(p, next)
  OBVIOUS
<1> HIDE DEF next
<1> QED
  BY <1>2, <1>3, WentMoves

LEMMA AbsentMoves ==
  ASSUME ProcOK, UNCHANGED deployment, NEW p \in deployment.processes, Absent(p)
  PROVE  ProcOK' /\ Alike(p) /\ Waits(p)
<1> DEFINE c == [proc[p] EXCEPT !.absent = TRUE]
<1>1. Local(proc[p]) /\ Placed(proc[p])
  BY DEF ProcOK
<1>2. Local(c) /\ c.pc = proc[p].pc /\ c.mode = proc[p].mode
  BY <1>1 DEF Local
<1>3. Placed(c)
  BY <1>1, <1>2 DEF Placed
<1>4. Goto(p, c)
  BY DEF Absent
<1> HIDE DEF c
<1> QED
  BY <1>2, <1>3, <1>4, GotoMoves DEF Waits

LEMMA PlanStep ==
  ASSUME NEW m \in {"boot", "reset"}, NEW i \in 1 .. Len(Main[m])
  PROVE  /\ Puts(Main[m][i]) => Main[m][i].key \in KeysOf(Creation)
         /\ Puts(Main[m][i]) /\ Main[m][i].key[1] = "seedRun" => i = Len(Main[m])
         /\ Main[m][i].do = "ensure" => Main[m][i].key[1] \in {"user", "role", "module"}
         /\ Main[m][i].do = "upsert" => Main[m][i].key[1] # "user"
         /\ Main[m][i].do = "clean" => Main[m][i].key[1] \in {"menu", "roleMenu"}
         /\ Main[m][i].do = "delete" => m = "reset" /\ (i = 1 => Main[m][i].key[1] = "seedRun")
BY PlanAssumption

LEMMA PlanHas ==
  ASSUME NEW m \in {"boot", "reset"}, NEW k \in KeysOf(Creation)
  PROVE  \E i \in 1 .. Len(Main[m]) : Puts(Main[m][i]) /\ Main[m][i].key = k
BY PlanAssumption

\* The step p is at.
LEMMA AtStep ==
  ASSUME ProcOK, NEW p \in deployment.processes, proc[p].pc > 0
  PROVE  /\ proc[p].mode \in {"boot", "reset"}
         /\ proc[p].mode = "reset" => "reset" \in deployment.modes
         /\ proc[p].pc \in 1 .. Len(Main[proc[p].mode])
         /\ Len(Main[proc[p].mode]) \in Nat
         /\ Now(p) = Main[proc[p].mode][proc[p].pc]
         /\ Puts(Now(p)) => Now(p).key \in KeysOf(Creation)
         /\ Puts(Now(p)) /\ Now(p).key[1] = "seedRun" => proc[p].pc = Len(Main[proc[p].mode])
         /\ Now(p).do = "ensure" => Now(p).key[1] \in {"user", "role", "module"}
         /\ Now(p).do = "upsert" => Now(p).key[1] # "user"
         /\ Now(p).do = "clean" => Now(p).key[1] \in {"menu", "roleMenu"}
         /\ Now(p).do = "delete" => /\ proc[p].mode = "reset"
                                    /\ proc[p].pc = 1 => Now(p).key[1] = "seedRun"
<1>1. Placed(proc[p]) /\ deployment \in Deployments
  BY DEF ProcOK
<1>2. /\ proc[p].mode \in {"boot", "reset"} /\ proc[p].pc \in 1 .. Len(Main[proc[p].mode])
      /\ proc[p].mode \in deployment.modes
  BY <1>1, DeploymentsAssumption DEF Placed
<1> QED
  <2>1. Len(Main[proc[p].mode]) \in Nat
    BY <1>2, PlanAssumption
  <2> QED
    BY <1>2, <2>1, PlanStep DEF Now

\* What was deleted before a deletion.
LEMMA BeforeDeletion ==
  ASSUME NEW m \in {"boot", "reset"}, NEW i \in 1 .. Len(Main[m]), Main[m][i].do = "delete",
         NEW j \in 1 .. i - 1
  PROVE  m = "reset" /\ Main[m][j].do = "delete"
BY PlanAssumption

LEMMA StartMoves ==
  ASSUME ProcOK, UNCHANGED deployment, NEW p \in deployment.processes, Start(p)
  PROVE  ProcOK' /\ Alike(p) /\ Begins(p)
<1>1. PICK m \in deployment.modes \ {"sql"}, env \in deployment.environments :
        Goto(p, [Idle EXCEPT !.pc = 1, !.mode = m, !.env = env])
  BY DEF Start
<1> DEFINE c == [Idle EXCEPT !.pc = 1, !.mode = m, !.env = env]
<1>2. Local(c) /\ c.pc = 1 /\ c.mode = m
  BY DEF Local, Idle
<1>3. m \in {"boot", "reset"}
  BY DeploymentsAssumption DEF ProcOK
<1>4. 1 .. Len(Main[m]) # {}
  <2>1. <<"user", "demo">> \in {<<"user", s>> : s \in Seeds}
    BY DEF Seeds
  <2>2. <<"user", "demo">> \in KeysOf(Creation)
    BY <2>1, PlanAssumption
  <2>3. \E i \in 1 .. Len(Main[m]) : Main[m][i].key = <<"user", "demo">>
    BY <1>3, <2>2, PlanHas
  <2> QED
    BY <2>3
<1>5. 1 \in 1 .. Len(Main[m])
  <2>1. Len(Main[m]) \in Nat
    BY <1>3, PlanAssumption
  <2> QED
    BY <1>4, <2>1
<1>6. Goto(p, c)
  BY <1>1
<1> HIDE DEF c
<1>7. Placed(c)
  BY <1>2, <1>5 DEF Placed
<1> QED
  BY <1>2, <1>6, <1>7, GotoMoves DEF Begins

\* What Run can do to p.
RunMove(p) ==
  /\ ProcOK' /\ Alike(p) /\ proc[p].pc > 0
  /\ Ends(p) \/ GoesOn(p) \/ (Waits(p) /\ Now(p).do = "ensure")

LEMMA RunMoves ==
  ASSUME ProcOK, UNCHANGED deployment, NEW p \in deployment.processes, Run(p)
  PROVE  RunMove(p)
<1>1. /\ proc[p].pc > 0
      /\ Find(p) \/ Create(p) => Now(p).do = "ensure"
  BY DEF Run, Check, DeleteMany, Find, Create, Upsert, Revoke, Is, Now
<1>2. ASSUME NEW out, End(p, out)
      PROVE  RunMove(p)
  BY <1>1, <1>2, EndMoves DEF RunMove
<1>3. ASSUME On(p)
      PROVE  RunMove(p)
  BY <1>1, <1>3, OnMoves DEF RunMove
<1>4. ASSUME NEW s, NEW x, Went(p, [proc[p] EXCEPT !.who[s] = x])
      PROVE  RunMove(p)
  BY <1>1, <1>4, FoundMoves DEF RunMove
<1>5. ASSUME Absent(p), Find(p)
      PROVE  RunMove(p)
  BY <1>1, <1>5, AbsentMoves DEF RunMove
<1>6. CASE Check(p)
  BY <1>2, <1>3, <1>6 DEF Check
<1>7. CASE DeleteMany(p)
  BY <1>2, <1>3, <1>7 DEF DeleteMany, Fail
<1>8. CASE Find(p)
  BY <1>3, <1>4, <1>5, <1>8 DEF Find
<1>9. CASE Create(p)
  BY <1>2, <1>3, <1>4, <1>9 DEF Create, Fail
<1>10. CASE Upsert(p)
  BY <1>2, <1>3, <1>10 DEF Upsert, Fail
<1>11. CASE Revoke(p)
  BY <1>3, <1>11 DEF Revoke
<1> QED
  BY <1>6, <1>7, <1>8, <1>9, <1>10, <1>11 DEF Run

LEMMA ProcStep ==
  ASSUME ProcOK, Next
  PROVE  ProcOK'
<1>1. UNCHANGED deployment
  BY DEF Next
<1>2. ASSUME NEW p \in deployment.processes, Start(p) \/ Run(p) \/ Die(p) \/ SqlSeed(p)
      PROVE  ProcOK'
  <2>1. CASE Die(p) \/ SqlSeed(p)
    BY <1>1, <2>1, EndMoves DEF Die, SqlSeed
  <2> QED
    BY <1>1, <1>2, <2>1, StartMoves, RunMoves DEF RunMove
<1>3. CASE Inactivate \/ AddRoute \/ IssueToken
  BY <1>1, <1>3 DEF Inactivate, AddRoute, IssueToken, Changes, ProcOK, Local, Placed
<1> QED
  BY <1>2, <1>3 DEF Next

THEOREM ProcessesMove == Spec => []ProcOK
<1>1. Init => ProcOK
  <2> SUFFICES ASSUME Init
               PROVE  ProcOK
    OBVIOUS
  <2>1. Local(Idle) /\ Idle.pc = 0
    BY DEF Local, Idle
  <2>2. \A q \in deployment.processes : proc[q] = Idle
    BY DEF Init
  <2>3. proc = [q \in deployment.processes |-> proc[q]]
    BY DEF Init
  <2> QED
    BY <2>1, <2>2, <2>3 DEF Init, ProcOK, Placed
<1>2. ProcOK /\ [Next]_vars => ProcOK'
  <2> SUFFICES ASSUME ProcOK, [Next]_vars
               PROVE  ProcOK'
    OBVIOUS
  <2>1. CASE UNCHANGED vars
    BY <2>1 DEF vars, ProcOK, Local, Placed
  <2> QED
    BY <2>1, ProcStep
<1> QED
  BY <1>1, <1>2, PTL DEF Spec

-----------------------------------------------------------------------------
(* Rows *)

Fit ==
  \A k \in DOMAIN rows : /\ rows[k] \in {"ACTIVO", "INACTIVO"}
                         /\ References(k) \subseteq DOMAIN rows

UserRows == {<<"user", x>> : x \in DOMAIN email}
UsersFit == UserRows = InTable("user")
EmailsFit == \A x, y \in DOMAIN email : x # y => email[x] # email[y]
DataOK == Fit /\ UsersFit /\ EmailsFit

LEMMA UsersReferToNothing ==
  ASSUME NEW k, k[1] \in {"user", "role", "module", "permission", "seedRun"}
  PROVE  References(k) = {}
BY DEF References

LEMMA UnchangedData ==
  ASSUME DataOK, UNCHANGED tables
  PROVE  DataOK'
BY DEF DataOK, Fit, UsersFit, UserRows, EmailsFit, InTable, tables

LEMMA FailedData ==
  ASSUME DataOK, NEW p, Fail(p)
  PROVE  DataOK'
BY UnchangedData DEF Fail

\* A row that is not a user's, with what it refers to in place.
LEMMA PutData ==
  ASSUME DataOK, NEW k, k[1] # "user", References(k) \subseteq DOMAIN rows,
         NEW estado \in {"ACTIVO", "INACTIVO"}, Put(k, estado), UNCHANGED email
  PROVE  DataOK'
<1>0. /\ DOMAIN rows' = DOMAIN rows \cup {k} /\ rows'[k] = estado
      /\ \A x \in DOMAIN rows \ {k} : rows'[x] = rows[x]
  BY PutRows
<1>1. Fit'
  <2> SUFFICES ASSUME NEW x \in DOMAIN rows'
               PROVE  rows'[x] \in {"ACTIVO", "INACTIVO"} /\ References(x) \subseteq DOMAIN rows'
    BY DEF Fit
  <2>1. CASE x = k
    BY <1>0, <2>1
  <2>2. CASE x # k
    <3>1. x \in DOMAIN rows
      BY <1>0, <2>2
    <3> QED
      BY <1>0, <2>2, <3>1 DEF DataOK, Fit
  <2> QED
    BY <2>1, <2>2
<1>2. InTable("user")' = InTable("user")
  <2>1. InTable("user")' = {x \in DOMAIN rows' : x[1] = "user"}
    BY DEF InTable
  <2> QED
    BY <1>0, <2>1 DEF InTable
<1> QED
  BY <1>1, <1>2 DEF DataOK, UsersFit, UserRows, EmailsFit

LEMMA InactivatedData ==
  ASSUME DataOK, NEW keys, rows' = Inactivated(keys), UNCHANGED email
  PROVE  DataOK'
BY InactivatedRows DEF DataOK, Fit, UsersFit, UserRows, EmailsFit, InTable

\* Rows that no other refers to, and with the users' rows the users, go.
LEMMA DeletedData ==
  ASSUME DataOK, NEW gone, Deletable(gone), rows' = [k \in DOMAIN rows \ gone |-> rows[k]],
         email' = [x \in {y \in DOMAIN email : <<"user", y>> \notin gone} |-> email[x]]
  PROVE  DataOK'
<1>1. Fit'
  BY DEF DataOK, Fit, Deletable
<1>2. UsersFit'
  <2>1. DOMAIN rows' = DOMAIN rows \ gone
        /\ DOMAIN email' = {y \in DOMAIN email : <<"user", y>> \notin gone}
    OBVIOUS
  <2>2. UserRows' = UserRows \ gone
    BY <2>1 DEF UserRows
  <2>3. InTable("user")' = InTable("user") \ gone
    BY <2>1 DEF InTable
  <2> QED
    BY <2>2, <2>3 DEF DataOK, UsersFit
<1>3. EmailsFit'
  BY DEF DataOK, EmailsFit
<1> QED
  BY <1>1, <1>2, <1>3 DEF DataOK

LEMMA DeleteManyData ==
  ASSUME DataOK, NEW p, DeleteMany(p)
  PROVE  DataOK'
<1> DEFINE table == Now(p).key[1]
           gone == {k \in InTable(table) : Now(p).do = "clean" => k[Len(k)] \in LegacyMenus}
<1>1. CASE ~Deletable(gone)
  BY <1>1, FailedData DEF DeleteMany
<1>2. CASE Deletable(gone)
  <2>1. /\ rows' = [k \in DOMAIN rows \ gone |-> rows[k]]
        /\ email' = [x \in {y \in DOMAIN email : <<"user", y>> \notin gone} |-> email[x]]
    BY <1>2 DEF DeleteMany
  <2> HIDE DEF gone
  <2> QED
    BY <1>2, <2>1, DeletedData
<1> QED
  BY <1>1, <1>2

LEMMA CreatedUserData ==
  ASSUME DataOK, NEW x, NEW address, Owners(address) = {},
         Put(<<"user", x>>, "ACTIVO"), email' = With(email, x, address)
  PROVE  DataOK'
<1> DEFINE k == <<"user", x>>
<1>1. DOMAIN rows' = DOMAIN rows \cup {k}
  BY PutRows
<1>2. Fit'
  BY <1>1, PutRows, UsersReferToNothing DEF DataOK, Fit
<1>3. DOMAIN email' = DOMAIN email \cup {x} /\ email'[x] = address
      /\ \A y \in DOMAIN email \ {x} : email'[y] = email[y]
  BY DEF With
<1>4. UsersFit'
  BY <1>1, <1>3 DEF DataOK, UsersFit, UserRows, InTable
<1>5. EmailsFit'
  BY <1>3 DEF DataOK, EmailsFit, Owners
<1> QED
  BY <1>2, <1>4, <1>5 DEF DataOK

LEMMA CreateData ==
  ASSUME ProcOK, DataOK, NEW p \in deployment.processes, Create(p)
  PROVE  DataOK'
<1> DEFINE k == Now(p).key
           address == proc[p].env[k[2]]
<1>1. CASE Present(k) \/ (k[1] = "user" /\ Owners(address) # {})
  BY <1>1, FailedData DEF Create
<1>2. CASE ~(Present(k) \/ (k[1] = "user" /\ Owners(address) # {}))
  <2>1. /\ Put(k, "ACTIVO")
        /\ IF k[1] = "user" THEN email' = With(email, k[2], address) ELSE UNCHANGED email
    BY <1>2 DEF Create
  <2>2. Now(p).do = "ensure" /\ Puts(Now(p)) /\ proc[p].pc > 0
    BY DEF Create, Is, Now, Puts
  <2>3. k[1] \in {"user", "role", "module"} /\ k \in KeysOf(Creation)
    BY <2>2, AtStep
  <2>4. k[1] = "user" => k = <<"user", k[2]>>
    BY <2>3, PlanAssumption
  <2> HIDE DEF k, address
  <2>5. CASE k[1] = "user"
    BY <1>2, <2>1, <2>4, <2>5, CreatedUserData
  <2>6. CASE k[1] # "user"
    BY <2>1, <2>3, <2>6, UsersReferToNothing, PutData
  <2> QED
    BY <2>5, <2>6
<1> QED
  BY <1>1, <1>2

\* What p upserts is no user.
LEMMA KeyUpserted ==
  ASSUME ProcOK, NEW p \in deployment.processes, Is(p, "upsert")
  PROVE  /\ Key(p)[1] = Now(p).key[1] /\ Key(p)[1] # "user"
         /\ Now(p).key[1] # "userRole" => Key(p) = Now(p).key
         /\ Now(p).key[1] = "userRole" =>
              Key(p) = <<"userRole", proc[p].who[Now(p).key[2]], Now(p).key[3]>>
BY AtStep DEF Key, Is, Now

LEMMA UpsertData ==
  ASSUME ProcOK, DataOK, NEW p \in deployment.processes, Upsert(p)
  PROVE  DataOK'
<1> DEFINE k == Key(p)
<1>1. k[1] # "user"
  BY KeyUpserted DEF Upsert
<1>2. CASE Present(k)
  BY <1>2, UnchangedData DEF Upsert
<1>3. CASE ~Present(k) /\ References(k) \subseteq DOMAIN rows
  <2>1. Put(k, "ACTIVO") /\ UNCHANGED email
    BY <1>3 DEF Upsert
  <2> QED
    BY <1>1, <1>3, <2>1, PutData
<1>4. CASE ~Present(k) /\ ~(References(k) \subseteq DOMAIN rows)
  BY <1>4, FailedData DEF Upsert
<1> QED
  BY <1>2, <1>3, <1>4

\* What seed.sql adds and deletes.
SqlSeeded == (KeysOf(Creation) \ SqlOmits) \ DOMAIN rows
SqlOld == {k \in InTable("menu") \cup InTable("roleMenu") : k[Len(k)] \in LegacyMenus}
SqlOff == SqlOmits \cup {<<"userRole", "admin", "SUPER_ADMIN">>}

SqlApplied ==
  /\ ~Present(<<"seedRun">>) /\ Deletable(SqlOld)
  /\ \A s \in Seeds : Owners(SqlEmail[s]) \subseteq {s}
  /\ rows' = [k \in SqlSeeded \cup (DOMAIN rows \ SqlOld) |->
                IF k \in SqlSeeded THEN "ACTIVO" ELSE Inactivated(SqlOff)[k]]
  /\ email' = [x \in DOMAIN email \cup Seeds |->
                 IF x \in DOMAIN email THEN email[x] ELSE SqlEmail[x]]

LEMMA SqlSteps ==
  ASSUME NEW p, SqlSeed(p)
  PROVE  UNCHANGED tables \/ SqlApplied
BY DEF SqlSeed, SqlApplied, SqlSeeded, SqlOld, SqlOff, tables

LEMMA SqlRows ==
  ASSUME SqlApplied
  PROVE  /\ DOMAIN rows' = SqlSeeded \cup (DOMAIN rows \ SqlOld)
         /\ DOMAIN email' = DOMAIN email \cup Seeds
         /\ KeysOf(Creation) \ SqlOmits \subseteq DOMAIN rows'
         /\ SqlOld \cap KeysOf(Creation) = {}
         /\ \A k \in DOMAIN rows' : rows'[k] \in {"ACTIVO", "INACTIVO", rows[k]}
<1>1. SqlOld \cap KeysOf(Creation) = {}
  BY PlanAssumption DEF SqlOld
<1>2. DOMAIN rows' = SqlSeeded \cup (DOMAIN rows \ SqlOld)
  BY DEF SqlApplied
<1>3. \A k \in DOMAIN rows' : rows'[k] \in {"ACTIVO", "INACTIVO", rows[k]}
  BY <1>2, InactivatedRows DEF SqlApplied
<1> QED
  BY <1>1, <1>2, <1>3 DEF SqlApplied, SqlSeeded

LEMMA UsersNotOmitted ==
  ASSUME NEW s \in Seeds
  PROVE  <<"user", s>> \in KeysOf(Creation) \ SqlOmits
<1>1. <<"user", s>> \in KeysOf(Creation)
  BY PlanAssumption
<1>2. \A k \in SqlOmits : k[1] = "rolePermission"
  BY DEF SqlOmits
<1> QED
  BY <1>1, <1>2

LEMMA SqlData ==
  ASSUME DataOK, SqlApplied
  PROVE  DataOK'
<1>1. Fit'
  <2> SUFFICES ASSUME NEW k \in DOMAIN rows'
               PROVE  References(k) \subseteq DOMAIN rows'
    BY SqlRows DEF DataOK, Fit, SqlApplied, SqlSeeded
  <2>1. CASE k \in SqlSeeded
    <3>1. References(k) \subseteq KeysOf(Creation) \ SqlOmits
      BY <2>1, PlanAssumption DEF SqlSeeded
    <3> QED
      BY <3>1, SqlRows
  <2>2. CASE k \in DOMAIN rows \ SqlOld
    BY <2>2, SqlRows DEF DataOK, Fit, SqlApplied, Deletable
  <2> QED
    BY <2>1, <2>2, SqlRows
<1>2. UsersFit'
  <2>1. ASSUME NEW k \in DOMAIN rows', k[1] = "user"
        PROVE  k \in UserRows'
    <3>1. CASE k \in SqlSeeded
      <4>1. k \in {<<"user", s>> : s \in Seeds}
        BY <2>1, <3>1, PlanAssumption DEF SqlSeeded
      <4> QED
        BY <4>1, SqlRows DEF UserRows
    <3>2. CASE k \in DOMAIN rows
      BY <2>1, <3>2, SqlRows DEF DataOK, UsersFit, UserRows, InTable
    <3> QED
      BY <2>1, <3>1, <3>2, SqlRows
  <2>2. ASSUME NEW x \in DOMAIN email'
        PROVE  <<"user", x>> \in DOMAIN rows'
    <3>1. CASE x \in Seeds
      BY <3>1, UsersNotOmitted, SqlRows
    <3>2. CASE x \in DOMAIN email
      <4>1. <<"user", x>> \in DOMAIN rows
        BY <3>2 DEF DataOK, UsersFit, UserRows, InTable
      <4>2. <<"user", x>> \notin SqlOld
        BY DEF SqlOld, InTable
      <4> QED
        BY <4>1, <4>2, SqlRows
    <3> QED
      BY <2>2, <3>1, <3>2, SqlRows
  <2> QED
    BY <2>1, <2>2 DEF UsersFit, UserRows, InTable
<1>3. EmailsFit'
  BY DEF DataOK, EmailsFit, SqlApplied, SqlEmail, Owners
<1> QED
  BY <1>1, <1>2, <1>3 DEF DataOK

LEMMA PeopleData ==
  ASSUME DataOK, Inactivate \/ AddRoute \/ IssueToken
  PROVE  DataOK'
<1>1. UNCHANGED email
  BY DEF Inactivate, AddRoute, IssueToken, Changes
<1>2. CASE Inactivate
  BY <1>1, <1>2, InactivatedData DEF Inactivate
<1>3. CASE AddRoute
  <2>1. PICK n : Present(<<"menu", n>>) /\ Put(<<"route", n>>, "ACTIVO")
    BY <1>3 DEF AddRoute
  <2>2. References(<<"route", n>>) = {<<"menu", n>>}
    BY DEF References
  <2> QED
    BY <1>1, <2>1, <2>2, PutData DEF Present
<1>4. CASE IssueToken
  <2>1. PICK k \in InTable("userRole") : Put(<<"token", k[2], k[3]>>, "ACTIVO")
    BY <1>4 DEF IssueToken
  <2>2. References(<<"token", k[2], k[3]>>) = References(k)
    BY DEF References, InTable
  <2>3. References(k) \subseteq DOMAIN rows
    BY DEF DataOK, Fit, InTable
  <2> QED
    BY <1>1, <2>1, <2>2, <2>3, PutData
<1> QED
  BY <1>2, <1>3, <1>4

LEMMA RunData ==
  ASSUME ProcOK, DataOK, NEW p \in deployment.processes, Run(p)
  PROVE  DataOK'
<1>1. CASE Check(p) \/ Find(p)
  BY <1>1, UnchangedData DEF Check, Find
<1>2. CASE Revoke(p)
  BY <1>2, InactivatedData DEF Revoke
<1> QED
  BY <1>1, <1>2, DeleteManyData, CreateData, UpsertData DEF Run

LEMMA InitData == Init => DataOK
<1> SUFFICES ASSUME Init
             PROVE  DataOK
  OBVIOUS
<1>1. /\ \A k \in deployment.old :
           k[1] # "user" /\ References(k) \subseteq deployment.old \cup UserRows
      /\ EmailsFit
  BY DeploymentsAssumption DEF Init, EmailsFit, UserRows
<1>2. DOMAIN rows = deployment.old \cup UserRows
  BY DEF Init, UserRows
<1>3. \A k \in UserRows : k[1] = "user"
  BY DEF UserRows
<1>4. Fit
  BY <1>1, <1>2, <1>3, UsersReferToNothing DEF Fit, Init
<1> QED
  BY <1>1, <1>2, <1>3, <1>4 DEF DataOK, UsersFit, InTable

THEOREM DataInvariance == Spec => []DataOK
<1>1. ProcOK /\ DataOK /\ [Next]_vars => DataOK'
  <2> SUFFICES ASSUME ProcOK, DataOK, [Next]_vars
               PROVE  DataOK'
    OBVIOUS
  <2>1. CASE UNCHANGED vars
    BY <2>1, UnchangedData DEF vars, tables
  <2>2. ASSUME NEW p \in deployment.processes, Start(p) \/ Run(p) \/ Die(p) \/ SqlSeed(p)
        PROVE  DataOK'
    <3>1. CASE Start(p) \/ Die(p)
      BY <3>1, UnchangedData DEF Start, Die
    <3> QED
      BY <2>2, <3>1, RunData, SqlSteps, SqlData, UnchangedData
  <2> QED
    BY <2>1, <2>2, PeopleData DEF Next
<1> QED
  BY <1>1, InitData, ProcessesMove, PTL DEF Spec

\* Rows keep their shape, what they refer to is there, the users are those that
\* have a row and their emails differ, whatever seed.ts, seed.sql and the gateway
\* write at a time.
THEOREM SeedTypeCorrect == Spec => []TypeOK
<1>1. DataOK /\ DecisionsInv => TypeOK
  BY DEF DataOK, Fit, UsersFit, UserRows, EmailsFit, DecisionsInv, TypeOK
<1> QED
  BY <1>1, DataInvariance, DecisionsInvariance, PTL

-----------------------------------------------------------------------------
(* The row of the seed *)

SeedRunKey == <<"seedRun">>

\* What a process has been through is there, and once it deletes the row of the
\* seed is not.
Been(p) ==
  proc[p].pc > 0 =>
    /\ \A i \in 1 .. proc[p].pc - 1 :
         Puts(Main[proc[p].mode][i]) => Seeded(Main[proc[p].mode][i].key)
    /\ proc[p].pc > 1 /\ Main[proc[p].mode][proc[p].pc].do = "delete" => ~Present(SeedRunKey)

AllBeen == \A q \in deployment.processes : Been(q)
SeedOK == AllBeen /\ SeedRunMeansSeeded

\* No row of the seed is lost.
Kept == \A k \in KeysOf(Creation) : Seeded(k) => Seeded(k)'

LEMMA GrowthKeeps ==
  ASSUME DOMAIN rows \subseteq DOMAIN rows', DOMAIN email \subseteq DOMAIN email'
  PROVE  Kept
BY DEF Kept, Seeded, Present

LEMMA LossKeeps ==
  ASSUME NEW gone, gone \cap KeysOf(Creation) = {}, \A k \in gone : k[1] \in {"menu", "roleMenu"},
         DOMAIN rows \ gone \subseteq DOMAIN rows', DOMAIN email \subseteq DOMAIN email'
  PROVE  Kept
<1> SUFFICES ASSUME NEW k \in KeysOf(Creation), Seeded(k)
             PROVE  Seeded(k)'
  BY DEF Kept
<1>1. CASE k[1] = "user"
  BY <1>1 DEF Seeded
<1>2. CASE k[1] = "userRole"
  <2>1. PICK u \in DOMAIN email : <<k[1], u, k[3]>> \in DOMAIN rows
    BY <1>2 DEF Seeded, Present
  <2>2. <<k[1], u, k[3]>> \notin gone
    BY <1>2
  <2>3. u \in DOMAIN email' /\ <<k[1], u, k[3]>> \in DOMAIN rows'
    BY <2>1, <2>2
  <2> QED
    BY <1>2, <2>3 DEF Seeded, Present
<1>3. CASE k[1] \notin {"user", "userRole"}
  BY <1>3 DEF Seeded, Present
<1> QED
  BY <1>1, <1>2, <1>3

LEMMA RowStays ==
  ASSUME SeedRunMeansSeeded, Kept, Present(SeedRunKey)' => Present(SeedRunKey)
  PROVE  SeedRunMeansSeeded'
BY DEF SeedRunMeansSeeded, Kept, SeedRunKey

\* A process that does nothing itself, or deletes.
LEMMA OthersBeen ==
  ASSUME ProcOK, AllBeen, Alone, Kept, UNCHANGED deployment,
         NEW p \in deployment.processes, NEW q \in deployment.processes, q # p,
         proc'[q] = proc[q]
  PROVE  Been(q)'
<1> SUFFICES ASSUME proc[q].pc > 0
             PROVE  Been(q)'
  BY DEF Been
<1>0. PICK m, n : m = proc[q].mode /\ n = proc[q].pc
  OBVIOUS
<1>1. /\ m \in {"boot", "reset"} /\ n \in 1 .. Len(Main[m])
      /\ m = "reset" => "reset" \in deployment.modes
      /\ Len(Main[m]) \in Nat
  BY <1>0, AtStep
<1>2. ASSUME NEW i \in 1 .. n - 1, Puts(Main[m][i])
      PROVE  Seeded(Main[m][i].key)'
  <2>1. Seeded(Main[m][i].key)
    BY <1>0, <1>2 DEF AllBeen, Been
  <2>2. i \in 1 .. Len(Main[m])
    BY <1>1
  <2>3. Main[m][i].key \in KeysOf(Creation)
    BY <1>1, <1>2, <2>2, PlanStep
  <2> QED
    BY <2>1, <2>3 DEF Kept
<1>3. Main[m][n].do # "delete"
  BY <1>1, PlanStep DEF Alone
<1> QED
  BY <1>0, <1>2, <1>3 DEF Been

LEMMA StaysBeen ==
  ASSUME ProcOK, AllBeen, Kept, NEW q \in deployment.processes, Waits(q),
         Present(SeedRunKey)' => Present(SeedRunKey)
  PROVE  Been(q)'
<1> SUFFICES ASSUME proc[q].pc > 0
             PROVE  Been(q)'
  BY DEF Been, Waits
<1>0. PICK m, n : m = proc[q].mode /\ n = proc[q].pc
  OBVIOUS
<1>1. m \in {"boot", "reset"} /\ n \in 1 .. Len(Main[m]) /\ Len(Main[m]) \in Nat
  BY <1>0, AtStep
<1>2. ASSUME NEW i \in 1 .. n - 1, Puts(Main[m][i])
      PROVE  Seeded(Main[m][i].key)'
  <2>1. Seeded(Main[m][i].key)
    BY <1>0, <1>2 DEF AllBeen, Been
  <2>2. i \in 1 .. Len(Main[m])
    BY <1>1
  <2>3. Main[m][i].key \in KeysOf(Creation)
    BY <1>1, <1>2, <2>2, PlanStep
  <2> QED
    BY <2>1, <2>3 DEF Kept
<1>3. n > 1 /\ Main[m][n].do = "delete" => ~Present(SeedRunKey)
  BY <1>0 DEF AllBeen, Been
<1> QED
  BY <1>0, <1>2, <1>3 DEF Been, Waits

\* p has come to no further step.
LEMMA NoFurther ==
  ASSUME ProcOK, SeedOK, Alone, Kept, UNCHANGED deployment, NEW p \in deployment.processes,
         Alike(p), Ends(p) \/ Begins(p) \/ Waits(p),
         Present(SeedRunKey)' => Present(SeedRunKey)
  PROVE  SeedOK'
<1>1. Been(p)'
  <2>1. CASE Ends(p)
    BY <2>1 DEF Ends, Been
  <2>2. CASE Begins(p)
    BY <2>2 DEF Begins, Been
  <2>3. CASE Waits(p)
    BY <2>3, StaysBeen DEF SeedOK
  <2> QED
    BY <2>1, <2>2, <2>3
<1>2. AllBeen'
  BY <1>1, OthersBeen DEF SeedOK, AllBeen, Alike
<1> QED
  BY <1>2, RowStays DEF SeedOK

\* p has been through a step that is no deletion.
LEMMA Further ==
  ASSUME ProcOK, SeedOK, Alone, Kept, UNCHANGED deployment, NEW p \in deployment.processes,
         Alike(p), proc[p].pc > 0, GoesOn(p), Now(p).do # "delete",
         NEW k, k = Now(p).key, Puts(Now(p)) => Seeded(k)'
  PROVE  AllBeen'
<1>0. PICK m, n : m = proc[p].mode /\ n = proc[p].pc
  OBVIOUS
<1>1. /\ m \in {"boot", "reset"} /\ n \in 1 .. Len(Main[m]) /\ Len(Main[m]) \in Nat
      /\ Now(p) = Main[m][n]
  BY <1>0, AtStep
<1>2. n + 1 \in 1 .. Len(Main[m]) /\ proc'[p].pc = n + 1 /\ proc'[p].mode = m
  BY <1>0, <1>1 DEF GoesOn
<1>3. ASSUME NEW i \in 1 .. n, Puts(Main[m][i])
      PROVE  Seeded(Main[m][i].key)'
  <2>1. i \in 1 .. Len(Main[m])
    BY <1>1
  <2>2. CASE i = n
    BY <1>1, <1>3, <2>2
  <2>3. CASE i \in 1 .. n - 1
    <3>1. Seeded(Main[m][i].key)
      BY <1>0, <1>1, <1>3, <2>3 DEF SeedOK, AllBeen, Been
    <3>2. Main[m][i].key \in KeysOf(Creation)
      BY <1>1, <1>3, <2>1, PlanStep
    <3> QED
      BY <3>1, <3>2 DEF Kept
  <2> QED
    BY <1>1, <2>2, <2>3
<1>4. Main[m][n + 1].do # "delete"
  <2>1. n \in 1 .. (n + 1) - 1
    BY <1>1
  <2> QED
    BY <1>1, <1>2, <2>1, BeforeDeletion
<1>5. Been(p)'
  BY <1>1, <1>2, <1>3, <1>4 DEF Been
<1> QED
  BY <1>5, OthersBeen DEF SeedOK, AllBeen, Alike

\* The row of the seed comes last.
LEMMA LastStep ==
  ASSUME ProcOK, SeedOK, Kept, NEW p \in deployment.processes, proc[p].pc > 0,
         Puts(Now(p)), Now(p).key = SeedRunKey, Seeded(SeedRunKey)'
  PROVE  SeedRunMeansSeeded'
<1>0. PICK m, n : m = proc[p].mode /\ n = proc[p].pc
  OBVIOUS
<1>1. /\ m \in {"boot", "reset"} /\ n = Len(Main[m]) /\ Len(Main[m]) \in Nat
      /\ Now(p) = Main[m][n]
  BY <1>0, AtStep DEF SeedRunKey
<1> SUFFICES ASSUME NEW k \in KeysOf(Creation)
             PROVE  Seeded(k)'
  BY DEF SeedRunMeansSeeded
<1>2. PICK i \in 1 .. Len(Main[m]) : Puts(Main[m][i]) /\ Main[m][i].key = k
  BY <1>1, PlanHas
<1>3. CASE i = n
  BY <1>1, <1>2, <1>3
<1>4. CASE i \in 1 .. n - 1
  BY <1>0, <1>1, <1>2, <1>4 DEF SeedOK, AllBeen, Been, Kept
<1>5. i = n \/ i \in 1 .. n - 1
  BY <1>1
<1> QED
  BY <1>3, <1>4, <1>5

\* A statement that puts a row.
LEMMA PutStep ==
  ASSUME ProcOK, SeedOK, Alone, UNCHANGED deployment, NEW p \in deployment.processes,
         Alike(p), proc[p].pc > 0, Ends(p) \/ GoesOn(p), Puts(Now(p)),
         NEW k, k = Now(p).key, Seeded(k)',
         DOMAIN rows \subseteq DOMAIN rows', DOMAIN email \subseteq DOMAIN email',
         Present(SeedRunKey)' => Present(SeedRunKey) \/ k = SeedRunKey
  PROVE  SeedOK'
<1>1. Kept
  BY GrowthKeeps
<1>2. SeedRunMeansSeeded'
  BY <1>1, LastStep, RowStays DEF SeedOK
<1>3. Now(p).do # "delete"
  BY DEF Puts
<1>4. CASE GoesOn(p)
  BY <1>1, <1>2, <1>3, <1>4, Further DEF SeedOK
<1>5. CASE Ends(p)
  <2>1. Been(p)'
    BY <1>5 DEF Been, Ends
  <2> QED
    BY <1>1, <1>2, <2>1, OthersBeen DEF SeedOK, AllBeen, Alike
<1> QED
  BY <1>4, <1>5

\* A statement that puts none and deletes none of the seed.
LEMMA PlainStep ==
  ASSUME ProcOK, SeedOK, Alone, Kept, UNCHANGED deployment, NEW p \in deployment.processes,
         RunMove(p), ~Puts(Now(p)), Now(p).do # "delete",
         Present(SeedRunKey)' => Present(SeedRunKey)
  PROVE  SeedOK'
<1>1. Alike(p) /\ proc[p].pc > 0 /\ (Ends(p) \/ GoesOn(p))
  BY DEF RunMove, Puts
<1>2. CASE Ends(p)
  BY <1>1, <1>2, NoFurther
<1>3. CASE GoesOn(p)
  <2>1. AllBeen'
    BY <1>1, <1>3, Further
  <2> QED
    BY <2>1, RowStays DEF SeedOK
<1> QED
  BY <1>1, <1>2, <1>3

LEMMA FailStep ==
  ASSUME ProcOK, SeedOK, Alone, UNCHANGED deployment, NEW p \in deployment.processes,
         UNCHANGED tables, Alike(p), Ends(p) \/ Begins(p)
  PROVE  SeedOK'
<1>1. Kept
  BY GrowthKeeps DEF tables
<1> QED
  BY <1>1, NoFurther DEF tables, Present

LEMMA DeleteStep ==
  ASSUME ProcOK, SeedOK, Alone, UNCHANGED deployment, NEW p \in deployment.processes,
         DeleteMany(p), RunMove(p), Now(p).do = "delete"
  PROVE  SeedOK'
<1>0. PICK m, n : m = proc[p].mode /\ n = proc[p].pc
  OBVIOUS
<1>1. /\ m = "reset" /\ n \in 1 .. Len(Main[m]) /\ Len(Main[m]) \in Nat
      /\ Now(p) = Main[m][n] /\ \A q \in deployment.processes : q = p
      /\ n = 1 => Now(p).key[1] = "seedRun"
  BY <1>0, AtStep DEF RunMove, Alone
<1>2. CASE Fail(p)
  BY <1>2, EndMoves, FailStep DEF Fail
<1>3. ASSUME ~Fail(p)
      PROVE  ~Present(SeedRunKey)'
  <2> DEFINE gone == {k \in InTable(Now(p).key[1]) :
                        Now(p).do = "clean" => k[Len(k)] \in LegacyMenus}
  <2>1. rows' = [k \in DOMAIN rows \ gone |-> rows[k]]
    BY <1>3 DEF DeleteMany
  <2>2. CASE n = 1
    <3>1. gone = InTable("seedRun")
      BY <1>1, <2>2
    <3> QED
      BY <2>1, <3>1 DEF InTable, Present, SeedRunKey
  <2>3. CASE n > 1
    <3>1. ~Present(SeedRunKey)
      <4>1. Been(p) /\ proc[p].pc > 1
        BY <1>0, <2>3 DEF SeedOK, AllBeen
      <4>2. Main[proc[p].mode][proc[p].pc].do = "delete"
        BY <1>0, <1>1
      <4> QED
        BY <1>0, <1>1, <2>3, <4>1, <4>2 DEF Been
    <3> QED
      BY <2>1, <3>1 DEF Present
  <2> QED
    BY <1>1, <2>2, <2>3
<1>4. ASSUME ~Fail(p)
      PROVE  SeedOK'
  <2>1. SeedRunMeansSeeded'
    BY <1>3, <1>4 DEF SeedRunMeansSeeded, SeedRunKey
  <2>2. Been(p)'
    <3>1. CASE GoesOn(p)
      <4>1. \A i \in 1 .. n : Main[m][i].do = "delete"
        BY <1>1, BeforeDeletion
      <4>2. proc'[p].pc = n + 1 /\ proc'[p].mode = m
        BY <1>0, <3>1 DEF GoesOn
      <4> QED
        BY <1>1, <1>3, <1>4, <4>1, <4>2 DEF Been, Puts
    <3>2. CASE Ends(p)
      BY <3>2 DEF Been, Ends
    <3> QED
      BY <3>1, <3>2 DEF RunMove
  <2> QED
    BY <1>1, <2>1, <2>2 DEF SeedOK, AllBeen
<1> QED
  BY <1>2, <1>4

LEMMA CleanStep ==
  ASSUME ProcOK, SeedOK, Alone, UNCHANGED deployment, NEW p \in deployment.processes,
         DeleteMany(p), RunMove(p), Now(p).do = "clean"
  PROVE  SeedOK'
<1> DEFINE table == Now(p).key[1]
           gone == {k \in InTable(table) : Now(p).do = "clean" => k[Len(k)] \in LegacyMenus}
<1>1. table \in {"menu", "roleMenu"}
  BY AtStep DEF RunMove
<1>2. /\ \A k \in gone : k[1] \in {"menu", "roleMenu"}
      /\ gone \cap KeysOf(Creation) = {}
      /\ SeedRunKey \notin gone /\ \A y : <<"user", y>> \notin gone
  BY <1>1, PlanAssumption DEF InTable, SeedRunKey
<1>3. \/ UNCHANGED tables
      \/ /\ rows' = [k \in DOMAIN rows \ gone |-> rows[k]]
         /\ email' = [x \in {y \in DOMAIN email : <<"user", y>> \notin gone} |-> email[x]]
  BY DEF DeleteMany, Fail
<1> HIDE DEF gone
<1>4. /\ DOMAIN rows \ gone \subseteq DOMAIN rows' /\ DOMAIN rows' \subseteq DOMAIN rows
      /\ DOMAIN email \subseteq DOMAIN email'
  BY <1>2, <1>3 DEF tables
<1>5. Kept
  BY <1>2, <1>4, LossKeeps
<1> QED
  BY <1>4, <1>5, PlainStep DEF Present, Puts

LEMMA FindStep ==
  ASSUME ProcOK, SeedOK, Alone, UNCHANGED deployment, NEW p \in deployment.processes,
         Find(p), RunMove(p)
  PROVE  SeedOK'
<1>1. UNCHANGED tables /\ Puts(Now(p)) /\ Now(p).do = "ensure"
  BY DEF Find, Is, Now, Puts
<1>2. Kept
  BY <1>1, GrowthKeeps DEF tables
<1>3. CASE Absent(p)
  <2>1. Waits(p) /\ Alike(p)
    BY <1>3, AbsentMoves
  <2> QED
    BY <1>1, <1>2, <2>1, NoFurther DEF tables, Present
<1>4. CASE ~Absent(p)
  <2>1. PICK k : k = Now(p).key
    OBVIOUS
  <2>2. k[1] \in {"user", "role", "module"}
    BY <1>1, <2>1, AtStep DEF RunMove
  <2>3. k[1] # "user" => Present(k)
    BY <1>4, <2>1 DEF Find
  <2>4. Seeded(k)'
    BY <1>1, <2>2, <2>3 DEF Seeded, Present, tables
  <2>5. CASE Waits(p)
    BY <1>1, <1>2, <2>5, NoFurther DEF tables, Present, RunMove
  <2> QED
    BY <1>1, <2>1, <2>4, <2>5, PutStep DEF tables, Present, RunMove
<1> QED
  BY <1>3, <1>4

LEMMA CreateStep ==
  ASSUME ProcOK, SeedOK, Alone, UNCHANGED deployment, NEW p \in deployment.processes,
         Create(p), RunMove(p)
  PROVE  SeedOK'
<1>1. CASE Fail(p)
  BY <1>1, EndMoves, FailStep DEF Fail
<1>2. CASE ~Fail(p)
  <2>1. PICK k : k = Now(p).key
    OBVIOUS
  <2>2. Puts(Now(p)) /\ Now(p).do = "ensure" /\ k[1] \in {"user", "role", "module"}
    BY <2>1, AtStep DEF Create, Is, Now, Puts, RunMove
  <2>3. /\ Put(k, "ACTIVO")
        /\ UNCHANGED email \/ \E x, y : email' = With(email, x, y)
    BY <1>2, <2>1 DEF Create
  <2>4. DOMAIN rows' = DOMAIN rows \cup {k} /\ DOMAIN email \subseteq DOMAIN email'
    BY <2>3, PutRows DEF With
  <2>5. Seeded(k)'
    BY <2>2, <2>4 DEF Seeded, Present
  <2>6. Present(SeedRunKey)' => Present(SeedRunKey)
    BY <2>2, <2>4 DEF Present, SeedRunKey
  <2>7. Kept
    BY <2>4, GrowthKeeps
  <2>8. CASE Waits(p)
    BY <2>6, <2>7, <2>8, NoFurther DEF RunMove
  <2> QED
    BY <2>1, <2>2, <2>4, <2>5, <2>6, <2>8, PutStep DEF RunMove
<1> QED
  BY <1>1, <1>2

LEMMA UpsertStep ==
  ASSUME ProcOK, DataOK, SeedOK, Alone, UNCHANGED deployment, NEW p \in deployment.processes,
         Upsert(p), RunMove(p)
  PROVE  SeedOK'
<1>1. CASE Fail(p)
  BY <1>1, EndMoves, FailStep DEF Fail
<1>2. CASE ~Fail(p)
  <2>1. PICK k, key : k = Now(p).key /\ key = Key(p)
    OBVIOUS
  <2>2. Puts(Now(p)) /\ Now(p).do = "upsert" /\ Is(p, "upsert")
    BY DEF Upsert, Is, Now, Puts
  <2>3. UNCHANGED email /\ (UNCHANGED rows \/ Put(key, "ACTIVO"))
    BY <1>2, <2>1 DEF Upsert, tables
  <2>4. key \in DOMAIN rows'
    <3>1. (Present(key) /\ UNCHANGED rows) \/ Put(key, "ACTIVO")
      BY <1>2, <2>1 DEF Upsert, tables
    <3> QED
      BY <3>1, PutRows, ZenonT(60) DEF Present
  <2>5. DOMAIN rows \subseteq DOMAIN rows' /\ DOMAIN rows' \subseteq DOMAIN rows \cup {key}
    BY <2>3, PutRows
  <2>6. /\ key[1] = k[1] /\ k[1] # "user"
        /\ k[1] # "userRole" => key = k
        /\ k[1] = "userRole" => \E u : key = <<"userRole", u, k[3]>>
    BY <2>1, <2>2, KeyUpserted
  <2>7. Seeded(k)'
    <3>1. CASE k[1] = "userRole"
      <4>1. PICK u : key = <<"userRole", u, k[3]>>
        BY <2>6, <3>1
      <4>2. <<"user", u>> \in References(key)
        BY <4>1 DEF References
      <4>3. DataOK'
        BY UpsertData
      <4>4. <<"user", u>> \in DOMAIN rows'
        BY <2>4, <4>2, <4>3 DEF DataOK, Fit
      <4>5. u \in DOMAIN email'
        BY <4>3, <4>4 DEF DataOK, UsersFit, UserRows, InTable
      <4> QED
        BY <2>4, <3>1, <4>1, <4>5 DEF Seeded, Present
    <3>2. CASE k[1] # "userRole"
      BY <2>4, <2>6, <3>2 DEF Seeded, Present
    <3> QED
      BY <3>1, <3>2
  <2>8. Present(SeedRunKey)' => Present(SeedRunKey) \/ k = SeedRunKey
    BY <2>5, <2>6 DEF Present, SeedRunKey
  <2> QED
    BY <2>1, <2>2, <2>3, <2>5, <2>7, <2>8, PutStep DEF RunMove
<1> QED
  BY <1>1, <1>2

LEMMA RunStep ==
  ASSUME ProcOK, DataOK, SeedOK, Alone, UNCHANGED deployment, NEW p \in deployment.processes,
         Run(p)
  PROVE  SeedOK'
<1>1. RunMove(p)
  BY RunMoves
<1>2. ASSUME Check(p) \/ Revoke(p)
      PROVE  SeedOK'
  <2>1. ~Puts(Now(p)) /\ Now(p).do # "delete"
    BY <1>2 DEF Check, Revoke, Is, Now, Puts
  <2>2. DOMAIN rows' = DOMAIN rows /\ DOMAIN email' = DOMAIN email
    BY <1>2, InactivatedRows DEF Check, Revoke, tables
  <2>3. Kept
    BY <2>2, GrowthKeeps
  <2> QED
    BY <1>1, <2>1, <2>2, <2>3, PlainStep DEF Present
<1>3. ASSUME DeleteMany(p)
      PROVE  SeedOK'
  BY <1>1, <1>3, DeleteStep, CleanStep DEF DeleteMany, Is, Now
<1> QED
  BY <1>1, <1>2, <1>3, FindStep, CreateStep, UpsertStep DEF Run

LEMMA SqlStep ==
  ASSUME ProcOK, DataOK, SeedOK, Alone, UNCHANGED deployment, NEW p \in deployment.processes,
         SqlSeed(p)
  PROVE  SeedOK'
<1>1. Alike(p) /\ Ends(p)
  BY EndMoves DEF SqlSeed
<1>2. CASE UNCHANGED tables
  BY <1>1, <1>2, FailStep
<1>3. CASE SqlApplied
  <2>1. DataOK'
    BY <1>3, SqlData
  <2>2. Kept
    <3>1. \A k \in SqlOld : k[1] \in {"menu", "roleMenu"}
      BY DEF SqlOld, InTable
    <3> QED
      BY <1>3, <3>1, SqlRows, LossKeeps
  <2>3. SeedRunMeansSeeded'
    <3> SUFFICES ASSUME NEW k \in KeysOf(Creation) \ SqlOmits
                 PROVE  Seeded(k)'
      BY DEF SeedRunMeansSeeded
    <3>1. k \in DOMAIN rows'
      BY <1>3, SqlRows
    <3>2. CASE k[1] = "userRole"
      <4>1. k = <<"userRole", k[2], k[3]>>
        BY <3>2, PlanAssumption
      <4>2. <<"user", k[2]>> \in DOMAIN rows'
        BY <2>1, <3>1, <3>2 DEF DataOK, Fit, References
      <4>3. k[2] \in DOMAIN email'
        BY <2>1, <4>2 DEF DataOK, UsersFit, UserRows, InTable
      <4> QED
        BY <3>1, <3>2, <4>1, <4>3 DEF Seeded, Present
    <3>3. CASE k[1] # "userRole"
      BY <3>1, <3>3 DEF Seeded, Present
    <3> QED
      BY <3>2, <3>3
  <2>4. Been(p)'
    BY <1>1 DEF Been, Ends
  <2> QED
    BY <1>1, <2>2, <2>3, <2>4, OthersBeen DEF SeedOK, AllBeen, Alike
<1> QED
  BY <1>2, <1>3, SqlSteps

LEMMA PeopleStep ==
  ASSUME ProcOK, SeedOK, UNCHANGED deployment, Inactivate \/ AddRoute \/ IssueToken
  PROVE  SeedOK'
<1>1. UNCHANGED <<email, proc>>
  BY DEF Inactivate, AddRoute, IssueToken, Changes
<1>2. /\ DOMAIN rows \subseteq DOMAIN rows'
      /\ Present(SeedRunKey)' => Present(SeedRunKey)
  <2>1. CASE Inactivate
    BY <2>1, InactivatedRows DEF Inactivate, Present
  <2>2. CASE \E k : k[1] \in {"route", "token"} /\ Put(k, "ACTIVO")
    <3>1. PICK k : k[1] \in {"route", "token"} /\ Put(k, "ACTIVO")
      BY <2>2
    <3>2. DOMAIN rows' = DOMAIN rows \cup {k}
      BY <3>1, PutRows
    <3> QED
      BY <3>1, <3>2 DEF Present, SeedRunKey
  <2>3. AddRoute => \E k : k[1] \in {"route", "token"} /\ Put(k, "ACTIVO")
    <3> SUFFICES ASSUME AddRoute
                 PROVE  \E k : k[1] \in {"route", "token"} /\ Put(k, "ACTIVO")
      OBVIOUS
    <3>1. PICK n : Put(<<"route", n>>, "ACTIVO")
      BY DEF AddRoute
    <3>2. <<"route", n>>[1] = "route"
      OBVIOUS
    <3> QED
      BY <3>1, <3>2
  <2>4. IssueToken => \E k : k[1] \in {"route", "token"} /\ Put(k, "ACTIVO")
    <3> SUFFICES ASSUME IssueToken
                 PROVE  \E k : k[1] \in {"route", "token"} /\ Put(k, "ACTIVO")
      OBVIOUS
    <3>1. PICK x, y : Put(<<"token", x, y>>, "ACTIVO")
      BY DEF IssueToken
    <3>2. <<"token", x, y>>[1] = "token"
      OBVIOUS
    <3> QED
      BY <3>1, <3>2
  <2> QED
    BY <2>1, <2>2, <2>3, <2>4
<1>3. Kept
  BY <1>1, <1>2, GrowthKeeps
<1>4. \A q \in deployment.processes : Waits(q)
  BY <1>1 DEF Waits
<1>5. AllBeen'
  BY <1>2, <1>3, <1>4, StaysBeen DEF SeedOK, AllBeen
<1> QED
  BY <1>2, <1>3, <1>5, RowStays DEF SeedOK

\* What SeedInv says, but for Alone.
SeedHolds == Alone => SeedOK

THEOREM SeedHoldsInvariance == Spec => []SeedHolds
<1>1. Init => SeedHolds
  <2> SUFFICES ASSUME Init
               PROVE  SeedOK
    BY DEF SeedHolds
  <2>1. AllBeen
    BY DEF Init, Idle, AllBeen, Been
  <2>2. ~Present(SeedRunKey)
    BY DeploymentsAssumption DEF Init, Present, SeedRunKey
  <2> QED
    BY <2>1, <2>2 DEF SeedOK, SeedRunMeansSeeded, SeedRunKey
<1>2. ProcOK /\ DataOK /\ SeedHolds /\ [Next]_vars => SeedHolds'
  <2> SUFFICES ASSUME ProcOK, DataOK, SeedHolds, [Next]_vars, Alone'
               PROVE  SeedOK'
    BY DEF SeedHolds
  <2>1. UNCHANGED deployment
    BY DEF Next, vars
  <2>2. Alone /\ SeedOK
    BY <2>1 DEF Alone, SeedHolds
  <2>3. CASE UNCHANGED vars
    <3>1. Kept /\ (Present(SeedRunKey)' => Present(SeedRunKey))
      BY <2>3, GrowthKeeps DEF vars, Present
    <3>2. \A q \in deployment.processes : Waits(q)
      BY <2>3 DEF vars, Waits
    <3>3. AllBeen'
      BY <2>1, <2>2, <3>1, <3>2, StaysBeen DEF SeedOK, AllBeen
    <3> QED
      BY <2>2, <3>1, <3>3, RowStays DEF SeedOK
  <2>4. ASSUME NEW p \in deployment.processes, Start(p) \/ Run(p) \/ Die(p) \/ SqlSeed(p)
        PROVE  SeedOK'
    <3>1. CASE Start(p)
      BY <2>1, <2>2, <3>1, StartMoves, FailStep DEF Start
    <3>2. CASE Die(p)
      BY <2>1, <2>2, <3>2, EndMoves, FailStep DEF Die
    <3> QED
      BY <2>1, <2>2, <2>4, <3>1, <3>2, RunStep, SqlStep
  <2> QED
    BY <2>1, <2>2, <2>3, <2>4, PeopleStep DEF Next
<1> QED
  BY <1>1, <1>2, ProcessesMove, DataInvariance, PTL DEF Spec

\* While a process runs it has written what it has been through; while it
\* deletes, the row of the seed is gone (seed.ts, the order of main).
THEOREM SeedInvariance == Spec => []SeedInv
<1>1. ProcOK /\ SeedHolds => SeedInv
  <2> SUFFICES ASSUME ProcOK, SeedHolds
               PROVE  SeedInv
    OBVIOUS
  <2>1. ASSUME NEW p \in deployment.processes, proc[p].pc > 0
        PROVE  /\ proc[p].mode \in deployment.modes \ {"sql"}
               /\ proc[p].pc \in 1 .. Len(Main[proc[p].mode])
    BY <2>1 DEF ProcOK, Placed
  <2>2. ASSUME NEW p \in deployment.processes, proc[p].pc > 0, Alone
        PROVE  /\ \A i \in 1 .. proc[p].pc - 1 :
                    Puts(Main[proc[p].mode][i]) => Seeded(Main[proc[p].mode][i].key)
               /\ proc[p].pc > 1 /\ Now(p).do = "delete" => ~Present(<<"seedRun">>)
    BY <2>2 DEF SeedHolds, SeedOK, AllBeen, Been, Now, SeedRunKey
  <2> QED
    BY <2>1, <2>2 DEF SeedInv, SeedHolds, SeedOK
<1> QED
  BY <1>1, SeedHoldsInvariance, ProcessesMove, PTL

\* A database with the row of the seed has every other row of it, however often
\* seed.ts dies, fails, is run again or meets another one, and whatever people
\* change meanwhile; with a reset, if nothing else seeds at the time.
THEOREM SeedRunHolds == Spec => [](Alone => SeedRunMeansSeeded)
<1>1. SeedInv => (Alone => SeedRunMeansSeeded)
  BY DEF SeedInv
<1> QED
  BY <1>1, SeedInvariance, PTL
=============================================================================

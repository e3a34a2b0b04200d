--------------------------- MODULE Startup_proofs ---------------------------
(***************************************************************************)
(* That the tokens of a replica are accepted where they should be, by the  *)
(* replicas that read one Secret and by the one that writes its own pair,  *)
(* and that a registration nothing failed in is in Kong and stays there,   *)
(* for any number of replicas, files, pairs, crashes, containers, services *)
(* and paths.                                                              *)
(***************************************************************************)
EXTENDS Startup, Sequences, TLAPS

-----------------------------------------------------------------------------
(* Keys *)

Points ==
  {"down", "up", "exists_private", "exists_public", "generate", "open_private",
   "fill_private", "open_public", "fill_public", "read_private", "read_public", "act"}

Halves == Pairs \cup {Empty}

\* The replica r goes to a place with these fields; the others stay as they are.
Moves(r, pc, private, public, pair, jwks) ==
  LET t == service'[r] IN
  /\ t.pc = pc /\ t.private = private /\ t.public = public /\ t.pair = pair
  /\ t.jwks = jwks
  /\ \A q \in Replicas \ {r} : service'[q] = service[q]

Stays(r, pc) ==
  Moves(r, pc, service[r].private, service[r].public, service[r].pair, service[r].jwks)

LEMMA Changed ==
  ASSUME service \in [Replicas -> K!Service], NEW r \in Replicas, NEW s \in K!Service,
         K!Becomes(r, s)
  PROVE  /\ service' \in [Replicas -> K!Service] /\ service'[r] = s
         /\ \A q \in Replicas \ {r} : service'[q] = service[q]
BY DEF K!Becomes

Typed == service' \in [Replicas -> K!Service]

LEMMA KeyMoves ==
  ASSUME K!Values, K!TypeOK, NEW r \in Replicas
  PROVE  LET s == service[r] IN
         /\ K!Boot(r) => Typed /\ Moves(r, "exists_private", Empty, Empty, Empty, Empty)
         /\ K!Crash(r) \/ K!CannotWrite(r) => Typed /\ Moves(r, "down", Empty, Empty, Empty, Empty)
         /\ \A use \in K!Uses : K!Get(r, use) =>
              Typed /\ Stays(r, IF K!Loaded(s) THEN "act" ELSE "exists_private")
         /\ K!ExistsPrivate(r) =>
              Typed /\ Stays(r, IF file.private = Missing THEN "generate" ELSE "exists_public")
         /\ K!ExistsPublic(r) =>
              Typed /\ Stays(r, IF file.public = Missing THEN "generate" ELSE "read_private")
         /\ K!Generate(r) =>
              Typed /\ \E k \in Pairs : Moves(r, "open_private", s.private, s.public, k, s.jwks)
         /\ K!OpenPrivate(r) => Typed /\ Stays(r, "fill_private")
         /\ K!FillPrivate(r) => Typed /\ Stays(r, "open_public")
         /\ K!OpenPublic(r) => Typed /\ Stays(r, "fill_public")
         /\ K!FillPublic(r) => Typed /\ Moves(r, "act", s.pair, s.pair, Empty, Empty)
         /\ K!ReadPrivate(r) /\ file.private # Missing =>
              Typed /\ Moves(r, "read_public", file.private, s.public, s.pair, s.jwks)
         /\ K!ReadPublic(r) /\ file.public # Missing =>
              Typed /\ Moves(r, "act", s.private, file.public, s.pair, Empty)
         /\ K!Sign(r) \/ K!Idle(r) => Typed /\ Stays(r, "up")
         /\ K!Jwks(r) =>
              Typed /\ Moves(r, "up", s.private, s.public, s.pair,
                             IF s.jwks = Empty THEN s.public ELSE s.jwks)
<1> DEFINE s == service[r]
<1>1. /\ service \in [Replicas -> K!Service] /\ s \in K!Service
      /\ s.private \in Halves /\ s.public \in Halves /\ s.pair \in Halves /\ s.jwks \in Halves
      /\ Empty \in Halves /\ Pairs \subseteq Halves
  BY DEF K!TypeOK, K!Service, Halves
<1>2. /\ file.private # Missing => file.private \in Halves
      /\ file.public # Missing => file.public \in Halves
  BY DEF K!TypeOK, K!File, Halves
<1>3. ASSUME NEW pc \in Points, K!Goes(r, pc)
      PROVE  Typed /\ Stays(r, pc)
  <2> DEFINE t == [s EXCEPT !.pc = pc]
  <2>1. t \in K!Service /\ t.pc = pc /\ t.private = s.private /\ t.public = s.public
        /\ t.pair = s.pair /\ t.jwks = s.jwks
    BY <1>1 DEF K!Service, Points
  <2>2. K!Becomes(r, t)
    BY <1>3 DEF K!Goes
  <2> HIDE DEF t
  <2> QED
    BY <1>1, <2>1, <2>2, Changed DEF Typed, Stays, Moves
<1>4. ASSUME K!Boot(r)
      PROVE  Typed /\ Moves(r, "exists_private", Empty, Empty, Empty, Empty)
  <2> DEFINE t == [K!Down EXCEPT !.pc = "exists_private"]
  <2>1. t \in K!Service /\ t.pc = "exists_private" /\ t.private = Empty /\ t.public = Empty
        /\ t.pair = Empty /\ t.jwks = Empty
    BY DEF K!Down, K!Service, K!Uses
  <2>2. K!Becomes(r, t)
    BY <1>4 DEF K!Boot
  <2> HIDE DEF t
  <2> QED
    BY <1>1, <2>1, <2>2, Changed DEF Typed, Moves
<1>5. K!Crash(r) \/ K!CannotWrite(r) => Typed /\ Moves(r, "down", Empty, Empty, Empty, Empty)
  <2>1. K!Down \in K!Service
    BY DEF K!Down, K!Service, K!Uses
  <2> QED
    BY <1>1, <2>1, Changed DEF K!Crash, K!CannotWrite, Typed, Moves, K!Down
<1>6. ASSUME NEW use \in K!Uses, K!Get(r, use)
      PROVE  Typed /\ Stays(r, IF K!Loaded(s) THEN "act" ELSE "exists_private")
  <2> DEFINE pc == IF K!Loaded(s) THEN "act" ELSE "exists_private"
             t == [s EXCEPT !.use = use, !.pc = pc]
  <2>1. pc \in Points
    BY DEF Points
  <2>2. K!Becomes(r, t)
    BY <1>6 DEF K!Get
  <2> HIDE DEF pc
  <2>3. t \in K!Service /\ t.pc = pc /\ t.private = s.private /\ t.public = s.public
        /\ t.pair = s.pair /\ t.jwks = s.jwks
    BY <1>1, <2>1 DEF K!Service, Points
  <2> HIDE DEF t
  <2>4. Typed /\ Stays(r, pc)
    BY <1>1, <2>2, <2>3, Changed DEF Typed, Stays, Moves
  <2> QED
    BY <2>4 DEF pc
<1>7. /\ K!ExistsPrivate(r) =>
           Typed /\ Stays(r, IF file.private = Missing THEN "generate" ELSE "exists_public")
      /\ K!ExistsPublic(r) =>
           Typed /\ Stays(r, IF file.public = Missing THEN "generate" ELSE "read_private")
  BY <1>3 DEF K!ExistsPrivate, K!ExistsPublic, Points
<1>8. K!Generate(r) =>
        Typed /\ \E k \in Pairs : Moves(r, "open_private", s.private, s.public, k, s.jwks)
  <2> SUFFICES ASSUME NEW k \in Pairs, K!Becomes(r, [s EXCEPT !.pair = k, !.pc = "open_private"])
               PROVE  Typed /\ Moves(r, "open_private", s.private, s.public, k, s.jwks)
    BY DEF K!Generate
  <2> DEFINE t == [s EXCEPT !.pair = k, !.pc = "open_private"]
  <2>1. t \in K!Service /\ t.pc = "open_private" /\ t.private = s.private /\ t.public = s.public
        /\ t.pair = k /\ t.jwks = s.jwks
    BY <1>1, <1>2 DEF K!Service, Halves
  <2>2. K!Becomes(r, t)
    OBVIOUS
  <2> HIDE DEF t
  <2> QED
    BY <1>1, <2>1, <2>2, Changed DEF Typed, Moves
<1>9. /\ K!OpenPrivate(r) => Typed /\ Stays(r, "fill_private")
      /\ K!FillPrivate(r) => Typed /\ Stays(r, "open_public")
      /\ K!OpenPublic(r) => Typed /\ Stays(r, "fill_public")
      /\ K!Sign(r) \/ K!Idle(r) => Typed /\ Stays(r, "up")
  BY <1>3 DEF K!OpenPrivate, K!FillPrivate, K!OpenPublic, K!Sign, K!Idle, Points
<1>10. ASSUME K!FillPublic(r)
       PROVE  Typed /\ Moves(r, "act", s.pair, s.pair, Empty, Empty)
  <2> DEFINE t == [s EXCEPT !.private = s.pair, !.public = s.pair, !.pair = Empty,
                            !.jwks = Empty, !.pc = "act"]
  <2>1. t \in K!Service /\ t.pc = "act" /\ t.private = s.pair /\ t.public = s.pair
        /\ t.pair = Empty /\ t.jwks = Empty
    BY <1>1, <1>2 DEF K!Service, Halves
  <2>2. K!Becomes(r, t)
    BY <1>10 DEF K!FillPublic
  <2> HIDE DEF t
  <2> QED
    BY <1>1, <2>1, <2>2, Changed DEF Typed, Moves
<1>11. ASSUME K!ReadPrivate(r), file.private # Missing
       PROVE  Typed /\ Moves(r, "read_public", file.private, s.public, s.pair, s.jwks)
  <2> DEFINE t == [s EXCEPT !.private = file.private, !.pc = "read_public"]
  <2>1. t \in K!Service /\ t.pc = "read_public" /\ t.private = file.private /\ t.public = s.public
        /\ t.pair = s.pair /\ t.jwks = s.jwks
    BY <1>1, <1>2, <1>11 DEF K!Service, Halves
  <2>2. K!Becomes(r, t)
    BY <1>11 DEF K!ReadPrivate
  <2> HIDE DEF t
  <2> QED
    BY <1>1, <2>1, <2>2, Changed DEF Typed, Moves
<1>12. ASSUME K!ReadPublic(r), file.public # Missing
       PROVE  Typed /\ Moves(r, "act", s.private, file.public, s.pair, Empty)
  <2> DEFINE t == [s EXCEPT !.public = file.public, !.jwks = Empty, !.pc = "act"]
  <2>1. t \in K!Service /\ t.pc = "act" /\ t.private = s.private /\ t.public = file.public
        /\ t.pair = s.pair /\ t.jwks = Empty
    BY <1>1, <1>2, <1>12 DEF K!Service, Halves
  <2>2. K!Becomes(r, t)
    BY <1>12 DEF K!ReadPublic
  <2> HIDE DEF t
  <2> QED
    BY <1>1, <2>1, <2>2, Changed DEF Typed, Moves
<1>13. ASSUME K!Jwks(r)
       PROVE  Typed /\ Moves(r, "up", s.private, s.public, s.pair,
                              IF s.jwks = Empty THEN s.public ELSE s.jwks)
  <2> DEFINE jwks == IF s.jwks = Empty THEN s.public ELSE s.jwks
             t == [s EXCEPT !.pc = "up", !.jwks = jwks]
  <2>1. t \in K!Service /\ t.pc = "up" /\ t.private = s.private /\ t.public = s.public
        /\ t.pair = s.pair /\ t.jwks = jwks
    BY <1>1, <1>2 DEF K!Service, Halves
  <2>2. K!Becomes(r, t)
    BY <1>13 DEF K!Jwks
  <2> HIDE DEF t
  <2> QED
    BY <1>1, <2>1, <2>2, Changed DEF Typed, Stays, Moves
<1> QED
  BY <1>4, <1>5, <1>6, <1>7, <1>8, <1>9, <1>10, <1>11, <1>12, <1>13

KeyAct(r) == K!Step(r) \/ K!Crash(r) \/ \E use \in K!Uses \ {"boot"} : K!Get(r, use)

LEMMA VolumeStays == ASSUME NEW r, KeyAct(r) PROVE volume' = volume
BY DEF KeyAct, K!Step, K!Boot, K!ExistsPrivate, K!ExistsPublic, K!Generate, K!OpenPrivate,
       K!CannotWrite, K!FillPrivate, K!OpenPublic, K!FillPublic, K!ReadPrivate, K!ReadPublic,
       K!Sign, K!Jwks, K!Idle, K!Crash, K!Get, K!Becomes, K!Goes

LEMMA OfVolume ==
  ASSUME K!Values, volume \in Volumes
  PROVE  /\ volume.replicas \subseteq Replicas
         /\ volume.files \subseteq [private: K!File, public: K!File]
BY DEF K!Values, K!Volume

\* No file goes away, so a file that was seen can be read.
Seen == \A r \in Replicas :
  /\ service[r].pc = "exists_public" => file.private # Missing
  /\ service[r].pc \in {"read_private", "read_public"} =>
       file.private # Missing /\ file.public # Missing

\* What a step does to the files and to the tokens.
LEMMA FileMoves ==
  ASSUME K!Values, K!TypeOK, NEW r \in Replicas, KeyAct(r)
  PROVE  LET s == service[r] IN
         /\ file' \in [private: K!File, public: K!File]
         /\ used' \subseteq Pairs /\ issued' \subseteq Pairs /\ crashes' \in 0 .. MaxCrashes
         /\ file.private # Missing => file'.private # Missing
         /\ file.public # Missing => file'.public # Missing
         /\ \/ file' = file
            \/ /\ K!OpenPrivate(r) /\ volume.writable
               /\ file'.private = Empty /\ file'.public = file.public
            \/ K!FillPrivate(r) /\ file'.private = s.pair /\ file'.public = file.public
            \/ K!OpenPublic(r) /\ file'.public = Empty /\ file'.private = file.private
            \/ K!FillPublic(r) /\ file'.public = s.pair /\ file'.private = file.private
         /\ \/ issued' = issued
            \/ K!Sign(r) /\ issued' = issued \cup ({s.private} \ {Empty})
<1> DEFINE s == service[r]
<1>1. /\ s.private \in Halves /\ s.pair \in K!File /\ s.pair # Missing
      /\ Empty \in K!File /\ Empty # Missing /\ crashes \in 0 .. MaxCrashes
      /\ file \in [private: K!File, public: K!File] /\ used \subseteq Pairs /\ issued \subseteq Pairs
      /\ MaxCrashes \in Nat
  BY DEF K!Values, K!TypeOK, K!Service, K!File, Halves
<1>2. CASE K!OpenPrivate(r)
  BY <1>1, <1>2 DEF K!OpenPrivate
<1>3. CASE K!FillPrivate(r)
  BY <1>1, <1>3 DEF K!FillPrivate
<1>4. CASE K!OpenPublic(r)
  BY <1>1, <1>4 DEF K!OpenPublic
<1>5. CASE K!FillPublic(r)
  BY <1>1, <1>5 DEF K!FillPublic
<1>6. CASE K!Sign(r)
  BY <1>1, <1>6 DEF K!Sign, Halves
<1>7. CASE K!Boot(r) \/ K!ExistsPrivate(r) \/ K!ExistsPublic(r) \/ K!ReadPrivate(r)
           \/ K!ReadPublic(r) \/ K!Jwks(r) \/ K!Idle(r) \/ \E use \in K!Uses \ {"boot"} : K!Get(r, use)
  BY <1>1, <1>7 DEF K!Boot, K!ExistsPrivate, K!ExistsPublic, K!ReadPrivate, K!ReadPublic, K!Jwks,
                    K!Idle, K!Get
<1>8. CASE K!Generate(r) \/ K!CannotWrite(r)
  BY <1>1, <1>8 DEF K!Generate, K!CannotWrite
<1>9. CASE K!Crash(r)
  BY <1>1, <1>9 DEF K!Crash
<1> QED
  BY <1>2, <1>3, <1>4, <1>5, <1>6, <1>7, <1>8, <1>9 DEF KeyAct, K!Step

\* What is not there does not start.
OthersDown == \A r \in Replicas \ volume.replicas : service[r] = K!Down

KeyInv == K!TypeOK /\ Seen /\ OthersDown

LEMMA KeyStep ==
  ASSUME K!Values, KeyInv, NEW r \in volume.replicas, KeyAct(r)
  PROVE  KeyInv'
<1> DEFINE s == service[r]
<1>1. K!TypeOK /\ Seen /\ OthersDown /\ volume' = volume
  BY VolumeStays DEF KeyInv
<1>0. r \in Replicas
  BY <1>1, OfVolume DEF K!TypeOK
<1>2. /\ s.pc = "exists_public" => file.private # Missing
      /\ s.pc \in {"read_private", "read_public"} => file.private # Missing /\ file.public # Missing
  BY <1>0, <1>1 DEF Seen
<1>3. /\ file' \in [private: K!File, public: K!File]
      /\ used' \subseteq Pairs /\ issued' \subseteq Pairs /\ crashes' \in 0 .. MaxCrashes
      /\ file.private # Missing => file'.private # Missing
      /\ file.public # Missing => file'.public # Missing
  BY <1>0, <1>1, FileMoves
<1>4. /\ Typed /\ \A q \in Replicas \ {r} : service'[q] = service[q]
      /\ service'[r].pc = "exists_public" => file.private # Missing
      /\ service'[r].pc \in {"read_private", "read_public"} =>
           file.private # Missing /\ file.public # Missing
  <2>1. CASE K!Boot(r) \/ K!Crash(r) \/ K!CannotWrite(r) \/ K!Generate(r)
    BY <1>0, <1>1, <2>1, KeyMoves DEF Moves
  <2>2. CASE \E use \in K!Uses \ {"boot"} : K!Get(r, use)
    BY <1>0, <1>1, <2>2, KeyMoves DEF Moves, Stays
  <2>3. CASE K!ExistsPrivate(r) \/ K!OpenPrivate(r) \/ K!FillPrivate(r) \/ K!OpenPublic(r)
             \/ K!Sign(r) \/ K!Idle(r)
    BY <1>0, <1>1, <2>3, KeyMoves DEF Moves, Stays
  <2>4. CASE K!ExistsPublic(r)
    BY <1>0, <1>1, <1>2, <2>4, KeyMoves DEF Moves, Stays, K!ExistsPublic, K!At
  <2>5. CASE K!ReadPrivate(r) \/ K!ReadPublic(r)
    BY <1>0, <1>1, <1>2, <2>5, KeyMoves DEF Moves, K!ReadPrivate, K!ReadPublic, K!At
  <2>6. CASE K!FillPublic(r) \/ K!Jwks(r)
    BY <1>0, <1>1, <2>6, KeyMoves DEF Moves
  <2> QED
    BY <2>1, <2>2, <2>3, <2>4, <2>5, <2>6 DEF KeyAct, K!Step
<1>5. Seen' /\ OthersDown'
  BY <1>1, <1>3, <1>4 DEF Seen, OthersDown
<1>6. K!TypeOK'
  BY <1>1, <1>3, <1>4 DEF K!TypeOK, Typed
<1> QED
  BY <1>5, <1>6 DEF KeyInv

LEMMA KeyStart == K!Values /\ K!Init => KeyInv
<1> SUFFICES ASSUME K!Values, K!Init
             PROVE  KeyInv
  OBVIOUS
<1>1. volume \in Volumes /\ file \in [private: K!File, public: K!File]
  BY OfVolume DEF K!Init
<1>2. service \in [Replicas -> K!Service] /\ \A r \in Replicas : service[r] = K!Down
  BY DEF K!Init, K!Down, K!Service, K!Uses
<1>3. used \subseteq Pairs /\ issued \subseteq Pairs /\ crashes \in 0 .. MaxCrashes
  BY DEF K!Init, K!Values
<1> QED
  BY <1>1, <1>2, <1>3 DEF KeyInv, K!TypeOK, Seen, OthersDown, K!Down

\* A replica that has started publishes nothing, or the key it verifies with.
Published == \A r \in Replicas :
  service[r].pc \in {"act", "up"} => service[r].jwks \in {Empty, service[r].public}

LEMMA PublishedStep ==
  ASSUME K!Values, KeyInv, Published, NEW r \in Replicas, KeyAct(r)
  PROVE  Published'
<1> DEFINE s == service[r]
<1>1. /\ K!TypeOK /\ Seen
      /\ s.pc \in {"act", "up"} => s.jwks \in {Empty, s.public}
  BY DEF KeyInv, Published
<1>2. K!ReadPrivate(r) \/ K!ReadPublic(r) => file.private # Missing /\ file.public # Missing
  BY <1>1 DEF Seen, K!ReadPrivate, K!ReadPublic, K!At
<1>3. /\ \A q \in Replicas \ {r} : service'[q] = service[q]
      /\ service'[r].pc \in {"act", "up"} => service'[r].jwks \in {Empty, service'[r].public}
  <2>1. CASE K!Boot(r) \/ K!Crash(r) \/ K!CannotWrite(r) \/ K!Generate(r) \/ K!ReadPrivate(r)
             \/ K!ReadPublic(r) \/ K!FillPublic(r)
    BY <1>1, <1>2, <2>1, KeyMoves DEF Moves
  <2>2. CASE \E use \in K!Uses \ {"boot"} : K!Get(r, use)
    BY <1>1, <2>2, KeyMoves DEF Moves, Stays, K!Get, K!At
  <2>3. CASE K!ExistsPrivate(r) \/ K!ExistsPublic(r) \/ K!OpenPrivate(r) \/ K!FillPrivate(r)
             \/ K!OpenPublic(r)
    BY <1>1, <2>3, KeyMoves DEF Moves, Stays
  <2>4. CASE K!Sign(r) \/ K!Idle(r)
    BY <1>1, <2>4, KeyMoves DEF Moves, Stays, K!Sign, K!Idle, K!At
  <2>5. CASE K!Jwks(r)
    BY <1>1, <2>5, KeyMoves DEF Moves, K!Jwks, K!At
  <2> QED
    BY <2>1, <2>2, <2>3, <2>4, <2>5 DEF KeyAct, K!Step
<1> QED
  BY <1>3 DEF Published

SecretInv ==
  /\ file.private # Missing /\ file.public # Missing => file.private = file.public
  /\ issued \subseteq {file.private}
  /\ \A r \in Replicas :
       /\ service[r].pc \notin {"fill_private", "open_public", "fill_public"}
       /\ service[r].pc = "read_public" => service[r].private = file.private
       /\ service[r].pc \in {"act", "up"} =>
            /\ file.private # Missing /\ file.public # Missing
            /\ service[r].private = file.private /\ service[r].public = file.public

LEMMA SecretStep ==
  ASSUME K!Values, ~volume.writable, KeyInv, SecretInv, NEW r \in Replicas, KeyAct(r)
  PROVE  SecretInv'
<1> DEFINE s == service[r]
<1>1. /\ K!TypeOK /\ Seen
      /\ s.pc \notin {"fill_private", "open_public", "fill_public"}
      /\ s.pc = "read_public" => s.private = file.private
      /\ s.pc \in {"act", "up"} =>
            /\ file.private # Missing /\ file.public # Missing
            /\ s.private = file.private /\ s.public = file.public
  BY DEF KeyInv, SecretInv
<1>2. ~K!OpenPrivate(r) /\ ~K!FillPrivate(r) /\ ~K!OpenPublic(r) /\ ~K!FillPublic(r)
  BY <1>1 DEF K!OpenPrivate, K!FillPrivate, K!OpenPublic, K!FillPublic, K!At
<1>3. file' = file /\ issued' \subseteq {file.private}
  <2>1. CASE issued' = issued
    BY <1>1, <1>2, <2>1, FileMoves DEF SecretInv
  <2>2. CASE K!Sign(r) /\ issued' = issued \cup ({s.private} \ {Empty})
    BY <1>1, <1>2, <2>2, FileMoves DEF SecretInv, K!Sign, K!At
  <2> QED
    BY <1>1, <2>1, <2>2, FileMoves
<1>4. K!ReadPrivate(r) \/ K!ReadPublic(r) => file.private # Missing /\ file.public # Missing
  BY <1>1 DEF Seen, K!ReadPrivate, K!ReadPublic, K!At
<1>5. LET t == service'[r] IN
      /\ \A q \in Replicas \ {r} : service'[q] = service[q]
      /\ t.pc \notin {"fill_private", "open_public", "fill_public"}
      /\ t.pc = "read_public" => t.private = file.private
      /\ t.pc \in {"act", "up"} =>
            /\ file.private # Missing /\ file.public # Missing
            /\ t.private = file.private /\ t.public = file.public
  <2>1. CASE K!Boot(r) \/ K!Crash(r) \/ K!CannotWrite(r) \/ K!Generate(r)
    BY <1>1, <2>1, KeyMoves DEF Moves
  <2>2. CASE \E use \in K!Uses \ {"boot"} : K!Get(r, use)
    BY <1>1, <2>2, KeyMoves DEF Moves, Stays, K!Get, K!At
  <2>3. CASE K!ExistsPrivate(r) \/ K!ExistsPublic(r)
    BY <1>1, <2>3, KeyMoves DEF Moves, Stays
  <2>4. CASE K!ReadPrivate(r)
    BY <1>1, <1>4, <2>4, KeyMoves DEF Moves
  <2>5. CASE K!ReadPublic(r)
    BY <1>1, <1>4, <2>5, KeyMoves DEF Moves, K!ReadPublic, K!At
  <2>6. CASE K!Sign(r) \/ K!Idle(r)
    BY <1>1, <2>6, KeyMoves DEF Moves, Stays, K!Sign, K!Idle, K!At
  <2>7. CASE K!Jwks(r)
    BY <1>1, <2>7, KeyMoves DEF Moves, K!Jwks, K!At
  <2> QED
    BY <1>2, <2>1, <2>2, <2>3, <2>4, <2>5, <2>6, <2>7 DEF KeyAct, K!Step
<1> QED
  BY <1>3, <1>5 DEF SecretInv

-----------------------------------------------------------------------------
(* One replica that writes its own pair *)

\* While a pair is written, the file of the public half is out of use.
Writing ==
  {"generate", "open_private", "fill_private", "open_public", "fill_public"}

OwnInv ==
  /\ file.public \in Pairs => file.private = file.public
  /\ \A r \in volume.replicas : LET s == service[r] IN
       /\ s.pc \in Writing => file.public \notin Pairs
       /\ s.pc \in {"open_public", "fill_public"} => file.private = s.pair
       /\ s.pc = "read_public" => s.private = file.private
       /\ s.pc \in {"act", "up"} /\ K!Loaded(s) => s.private = s.public

LEMMA OwnStep ==
  ASSUME K!Values, K!Alone(volume), KeyInv, OwnInv, NEW r \in volume.replicas, KeyAct(r)
  PROVE  OwnInv'
<1> DEFINE s == service[r]
           t == service'[r]
<1>1. /\ K!TypeOK /\ Seen
      /\ file.public \in Pairs => file.private = file.public
      /\ s.pc \in Writing => file.public \notin Pairs
      /\ s.pc \in {"open_public", "fill_public"} => file.private = s.pair
      /\ s.pc = "read_public" => s.private = file.private
      /\ s.pc \in {"act", "up"} /\ K!Loaded(s) => s.private = s.public
      /\ Missing \notin Pairs /\ Empty \notin Pairs
  BY DEF KeyInv, OwnInv, K!Values
<1>0. r \in Replicas /\ volume' = volume
  BY <1>1, OfVolume, VolumeStays DEF K!TypeOK
<1>2. SUFFICES
        /\ file'.public \in Pairs => file'.private = file'.public
        /\ t.pc \in Writing => file'.public \notin Pairs
        /\ t.pc \in {"open_public", "fill_public"} => file'.private = t.pair
        /\ t.pc = "read_public" => t.private = file'.private
        /\ t.pc \in {"act", "up"} /\ K!Loaded(t) => t.private = t.public
  BY <1>0 DEF OwnInv, K!Loaded, K!Alone
<1>3. K!ReadPrivate(r) \/ K!ReadPublic(r) => file.private # Missing /\ file.public # Missing
  BY <1>0, <1>1 DEF Seen, K!ReadPrivate, K!ReadPublic, K!At
<1>4. K!OpenPrivate(r) \/ K!FillPrivate(r) \/ K!OpenPublic(r) \/ K!FillPublic(r) \/ file' = file
  BY <1>0, <1>1, FileMoves
<1>5. CASE K!Boot(r) \/ K!Crash(r) \/ K!CannotWrite(r)
  <2>1. file' = file
    BY <1>5 DEF K!Boot, K!Crash, K!CannotWrite
  <2> QED
    BY <1>0, <1>1, <1>5, <2>1, KeyMoves DEF Moves, Writing
<1>6. CASE \E use \in K!Uses \ {"boot"} : K!Get(r, use)
  <2>1. file' = file /\ s.pc = "up"
    BY <1>6 DEF K!Get, K!At
  <2> QED
    BY <1>0, <1>1, <1>6, <2>1, KeyMoves DEF Moves, Stays, Writing, K!Loaded
<1>7. CASE K!ExistsPrivate(r) \/ K!ExistsPublic(r)
  <2>1. file' = file
    BY <1>7 DEF K!ExistsPrivate, K!ExistsPublic
  <2> QED
    BY <1>0, <1>1, <1>7, <2>1, KeyMoves DEF Moves, Stays, Writing
<1>8. CASE K!Generate(r)
  <2>1. file' = file /\ s.pc = "generate"
    BY <1>8 DEF K!Generate, K!At
  <2> QED
    BY <1>0, <1>1, <1>8, <2>1, KeyMoves DEF Moves, Writing
<1>9. CASE K!OpenPrivate(r)
  <2>1. s.pc = "open_private" /\ file'.public = file.public
    BY <1>0, <1>9 DEF K!OpenPrivate, K!At, K!TypeOK, KeyInv
  <2>2. t.pc = "fill_private"
    BY <1>0, <1>1, <1>9, KeyMoves DEF Moves, Stays
  <2> QED
    BY <1>1, <2>1, <2>2 DEF Writing
<1>10. CASE K!FillPrivate(r)
  <2>1. s.pc = "fill_private" /\ file'.public = file.public /\ file'.private = s.pair
    BY <1>0, <1>10 DEF K!FillPrivate, K!At, K!TypeOK, KeyInv
  <2>2. t.pc = "open_public" /\ t.pair = s.pair
    BY <1>0, <1>1, <1>10, KeyMoves DEF Moves, Stays
  <2> QED
    BY <1>1, <2>1, <2>2 DEF Writing
<1>11. CASE K!OpenPublic(r)
  <2>1. s.pc = "open_public" /\ file'.public = Empty /\ file'.private = file.private
    BY <1>0, <1>11 DEF K!OpenPublic, K!At, K!TypeOK, KeyInv
  <2>2. t.pc = "fill_public" /\ t.pair = s.pair
    BY <1>0, <1>1, <1>11, KeyMoves DEF Moves, Stays
  <2> QED
    BY <1>1, <2>1, <2>2 DEF Writing
<1>12. CASE K!FillPublic(r)
  <2>1. s.pc = "fill_public" /\ file'.public = s.pair /\ file'.private = file.private
    BY <1>0, <1>12 DEF K!FillPublic, K!At, K!TypeOK, KeyInv
  <2>2. t.pc = "act" /\ t.private = s.pair /\ t.public = s.pair
    BY <1>0, <1>1, <1>12, KeyMoves DEF Moves
  <2> QED
    BY <1>1, <2>1, <2>2 DEF Writing
<1>13. CASE K!ReadPrivate(r)
  <2>1. file' = file
    BY <1>13 DEF K!ReadPrivate
  <2> QED
    BY <1>0, <1>1, <1>3, <1>13, <2>1, KeyMoves DEF Moves, Writing
<1>14. CASE K!ReadPublic(r)
  <2>1. file' = file /\ s.pc = "read_public"
    BY <1>14 DEF K!ReadPublic, K!At
  <2>2. t.pc = "act" /\ t.private = s.private /\ t.public = file.public
    BY <1>0, <1>1, <1>3, <1>14, KeyMoves DEF Moves
  <2>3. file.public # Empty => file.public \in Pairs
    BY <1>1, <1>3, <1>14 DEF K!TypeOK, K!File
  <2> QED
    BY <1>1, <2>1, <2>2, <2>3 DEF Writing, K!Loaded
<1>15. CASE K!Sign(r) \/ K!Idle(r)
  <2>1. file' = file /\ s.pc = "act"
    BY <1>15 DEF K!Sign, K!Idle, K!At
  <2> QED
    BY <1>0, <1>1, <1>15, <2>1, KeyMoves DEF Moves, Stays, Writing, K!Loaded
<1>16. CASE K!Jwks(r)
  <2>1. file' = file /\ s.pc = "act"
    BY <1>16 DEF K!Jwks, K!At
  <2> QED
    BY <1>0, <1>1, <1>16, <2>1, KeyMoves DEF Moves, Writing, K!Loaded
<1> QED
  BY <1>5, <1>6, <1>7, <1>8, <1>9, <1>10, <1>11, <1>12, <1>13, <1>14, <1>15, <1>16
     DEF KeyAct, K!Step

-----------------------------------------------------------------------------
(* Keys, as a scenario *)

KeysInv ==
  /\ KeyInv /\ Published
  /\ ~volume.writable => SecretInv
  /\ K!Alone(volume) => OwnInv

LEMMA KeysStart == K!Init => KeysInv
<1> SUFFICES ASSUME K!Init
             PROVE  KeysInv
  OBVIOUS
<1>1. KeyInv
  BY KeyStart, KeysAssumption
<1>2. volume \in Volumes /\ file \in volume.files /\ issued = {}
  BY DEF K!Init
<1>3. \A r \in Replicas : service[r] = K!Down
  BY DEF K!Init
<1>4. \A r \in volume.replicas : service[r] = K!Down
  BY <1>2, <1>3, OfVolume, KeysAssumption
<1>5. Published
  BY <1>3 DEF Published, K!Down
<1>6. ~volume.writable => SecretInv
  BY <1>2, <1>3, KeysAssumption DEF K!OnePairDeployed, SecretInv, K!Down
<1>7. K!Alone(volume) => OwnInv
  BY <1>2, <1>4, KeysAssumption DEF K!NoStrangeHalf, OwnInv, K!Down, Writing
<1> QED
  BY <1>1, <1>5, <1>6, <1>7 DEF KeysInv

LEMMA KeysStep == ASSUME KeysInv, NEW r \in volume.replicas, KeyAct(r) PROVE KeysInv'
<1>1. KeyInv /\ Published /\ K!Values
  BY KeysAssumption DEF KeysInv
<1>2. r \in Replicas /\ volume' = volume
  BY <1>1, OfVolume, VolumeStays DEF KeyInv, K!TypeOK
<1>3. KeyInv'
  BY <1>1, KeyStep
<1>4. Published'
  BY <1>1, <1>2, PublishedStep
<1>5. ~volume.writable => SecretInv'
  BY <1>1, <1>2, SecretStep DEF KeysInv
<1>6. K!Alone(volume) => OwnInv'
  BY <1>1, OwnStep DEF KeysInv
<1> QED
  BY <1>2, <1>3, <1>4, <1>5, <1>6 DEF KeysInv, K!Alone

LEMMA KeysRests == KeysInv /\ UNCHANGED keys => KeysInv'
BY DEF keys, KeysInv, KeyInv, K!TypeOK, Seen, OthersDown, Published, SecretInv, OwnInv, K!Alone,
       K!Loaded

\* Of behaviours that are about the keys.
OfKeys == scenario = "keys" => KeysInv

LEMMA OfKeysStep == OfKeys /\ [StartupNext]_startup => OfKeys'
<1> SUFFICES ASSUME OfKeys, [StartupNext]_startup, scenario' = "keys"
             PROVE  KeysInv'
  BY DEF OfKeys
<1>1. CASE UNCHANGED startup
  BY <1>1, KeysRests DEF OfKeys, startup
<1>2. CASE StartupNext
  <2>1. scenario = "keys" /\ K!Next
    BY <1>2 DEF StartupNext
  <2>2. PICK r \in volume.replicas : KeyAct(r)
    BY <2>1 DEF K!Next, KeyAct
  <2> QED
    BY <2>1, <2>2, KeysStep DEF OfKeys
<1> QED
  BY <1>1, <1>2

LEMMA OfKeysInvariance == StartupSpec => []OfKeys
<1>1. StartupInit => OfKeys
  BY KeysStart DEF StartupInit, OfKeys
<1> QED
  BY <1>1, OfKeysStep, PTL DEF StartupSpec

\* Whatever files it found, and however often it read them again, the key a replica
\* publishes is the one it verifies with: reading or writing a pair drops the key that
\* was cached (keys.service.ts:33-48, 74).
THEOREM JwksFollowsKeys == StartupSpec => []JwksIsCurrent
<1>1. OfKeys => JwksIsCurrent
  BY DEF OfKeys, KeysInv, Published, JwksIsCurrent, K!JwksIsCurrent, K!At
<1> QED
  BY <1>1, OfKeysInvariance, PTL

\* Any number of replicas that share the pair of a read-only Secret accept every token
\* any of them signed, however they restart, and where the Secret is incomplete nobody
\* signs (hpa-backend.yaml:2-4).
THEOREM SecretTokensCross == StartupSpec => []TokensCrossReplicas
<1>1. OfKeys => TokensCrossReplicas
  BY DEF OfKeys, KeysInv, SecretInv, TokensCrossReplicas, K!TokensCrossReplicas, K!At, K!Accepts
<1> QED
  BY <1>1, OfKeysInvariance, PTL

\* A replica that is alone on its volume accepts the tokens it signs, though it may
\* crash between any two writes of a pair: the public half is written last, so a crash
\* leaves a new private half with no public one, or with an empty one, and never with
\* another's (keys.service.ts:50-94).
THEOREM OwnTokensAccepted == StartupSpec => []OwnTokensVerify
<1>1. OfKeys => OwnTokensVerify
  <2> SUFFICES ASSUME OfKeys, scenario = "keys", K!Alone(volume), NEW r \in Replicas
               PROVE  K!Verifies(r)
    BY DEF OwnTokensVerify, K!OwnTokensVerify
  <2>1. KeyInv /\ OwnInv
    BY DEF OfKeys, KeysInv
  <2>2. CASE r \in volume.replicas
    BY <2>1, <2>2 DEF OwnInv, K!Verifies, K!At, K!Accepts
  <2>3. CASE r \notin volume.replicas
    BY <2>1, <2>3 DEF KeyInv, OthersDown, K!Verifies, K!At, K!Down
  <2> QED
    BY <2>2, <2>3
<1> QED
  BY <1>1, OfKeysInvariance, PTL


-----------------------------------------------------------------------------
(* KongRegistration *)

Has(r, i) == \E k \in routes : k.service = G!Service(r) /\ k.path = Config[r].paths[i]

\* An execution that met no error: since it wrote the service it is there with its url,
\* and since it listed the paths, each is in Kong or left to create.
Sound(r) == run[r].clean =>
  /\ run[r].pc = "create" => url[G!Service(r)] \in {None, Config[r].url}
  /\ run[r].pc \in {"list", "route", "done"} => url[G!Service(r)] = Config[r].url
  /\ run[r].pc \in {"route", "done"} =>
       \A i \in DOMAIN Config[r].paths : i \in run[r].left \/ Has(r, i)

KongInv ==
  /\ G!TypeOK
  /\ \A k \in routes : k.name = Dashed[k.path]
  /\ \A r \in Runs :
       /\ run[r].left \subseteq DOMAIN Config[r].paths
       /\ run[r].pc = "done" => run[r].left = {}
       /\ Sound(r)

KongAct(r) ==
  \/ G!Wait(r) \/ G!Find(r) \/ G!Update(r) \/ G!Create(r) \/ G!List(r) \/ G!CreateRoute(r)
  \/ G!ErrorAnswer(r) \/ G!Fails(r)

Execution == [pc: G!Steps \cup {"done", "failed"}, left: SUBSET Nat, clean: BOOLEAN]

\* The execution r becomes x; the others stay as they are.
Turns(r, x) ==
  run' \in [Runs -> Execution] /\ run'[r] = x /\ \A q \in Runs \ {r} : run'[q] = run[q]

\* What r becomes, by its fields.
Proceeds(r, pc, left, clean) ==
  LET t == run'[r] IN
  /\ run' \in [Runs -> Execution]
  /\ t.pc = pc /\ t.left = left /\ t.clean = clean
  /\ \A q \in Runs \ {r} : run'[q] = run[q]

After(left) == IF left = {} THEN "done" ELSE "route"

LEMMA RunBecomes ==
  ASSUME G!TypeOK, NEW r \in Runs, NEW x \in Execution, run' = [run EXCEPT ![r] = x]
  PROVE  Turns(r, x)
BY DEF G!TypeOK, Execution, Turns

LEMMA RunGoes ==
  ASSUME G!TypeOK, NEW r \in Runs, NEW pc \in G!Steps \cup {"done", "failed"}, G!Goes(r, pc)
  PROVE  Proceeds(r, pc, run[r].left, run[r].clean)
<1> DEFINE x == [run[r] EXCEPT !.pc = pc]
<1>1. run[r] \in Execution
  BY DEF G!TypeOK, Execution
<1>2. x \in Execution /\ x.pc = pc /\ x.left = run[r].left /\ x.clean = run[r].clean
  BY <1>1 DEF Execution
<1>3. run' = [run EXCEPT ![r] = x]
  BY DEF G!Goes, G!TypeOK, Execution
<1> HIDE DEF x
<1> QED
  BY <1>2, <1>3, RunBecomes DEF Turns, Proceeds

LEMMA ListsIs ==
  ASSUME G!TypeOK, NEW r \in Runs, NEW left \in SUBSET Nat
  PROVE  LET x == G!Lists(r, left) IN
         x \in Execution /\ x.pc = After(left) /\ x.left = left /\ x.clean = run[r].clean
<1>1. run[r] \in Execution
  BY DEF G!TypeOK, Execution
<1>2. After(left) \in G!Steps \cup {"done", "failed"}
  BY DEF After, G!Steps
<1>3. G!Lists(r, left) = [run[r] EXCEPT !.pc = After(left), !.left = left]
  BY DEF G!Lists, After
<1> QED
  BY <1>1, <1>2, <1>3 DEF Execution

LEMMA RunCreates ==
  ASSUME G!TypeOK, NEW r \in Runs, NEW left \in SUBSET Nat, G!Creates(r, left)
  PROVE  Proceeds(r, After(left), left, run[r].clean)
<1> DEFINE x == G!Lists(r, left)
<1>1. x \in Execution /\ x.pc = After(left) /\ x.left = left /\ x.clean = run[r].clean
  BY ListsIs
<1>2. run' = [run EXCEPT ![r] = x]
  BY DEF G!Creates
<1> HIDE DEF x
<1> QED
  BY <1>1, <1>2, RunBecomes DEF Turns, Proceeds

\* What one request changes in Kong.
Effect(r) ==
  /\ url' \in [Services -> Urls \cup {None}]
  /\ \A s \in Services \ {G!Service(r)} : url'[s] = url[s]
  /\ url'[G!Service(r)] \in {url[G!Service(r)], Config[r].url}
  /\ routes \subseteq routes' /\ routes' \subseteq G!Route
  /\ \A k \in routes' : k.name = Dashed[k.path]
  /\ errors' \in 0 .. MaxErrors

LEMMA KongEffect ==
  ASSUME G!Values, KongInv, NEW r \in Runs, KongAct(r)
  PROVE  Effect(r)
<1>1. /\ url \in [Services -> Urls \cup {None}] /\ routes \subseteq G!Route
      /\ errors \in 0 .. MaxErrors /\ MaxErrors \in Nat
      /\ \A k \in routes : k.name = Dashed[k.path]
      /\ G!Service(r) \in Services /\ Config[r].url \in Urls /\ Config[r].paths \in Seq(Paths)
      /\ run[r].left \subseteq DOMAIN Config[r].paths
  BY DEF G!Values, KongInv, G!TypeOK, G!Service
<1>2. CASE G!Wait(r) \/ G!Find(r) \/ G!List(r) \/ G!Fails(r)
  BY <1>1, <1>2 DEF G!Wait, G!Find, G!List, G!Fails, Effect
<1>3. CASE G!Update(r) \/ G!Create(r)
  BY <1>1, <1>3 DEF G!Update, G!Create, Effect
<1>4. CASE G!ErrorAnswer(r)
  BY <1>1, <1>4 DEF G!ErrorAnswer, Effect
<1>5. CASE G!CreateRoute(r)
  <2>1. PICK i \in G!First(r) :
          routes' = IF G!Refused(r, Config[r].paths[i]) THEN routes
                    ELSE routes \cup {G!Put(r, Config[r].paths[i])}
    BY <1>5 DEF G!CreateRoute
  <2>2. Config[r].paths[i] \in Paths
    BY <1>1, <2>1 DEF G!First
  <2>3. /\ G!Put(r, Config[r].paths[i]) \in G!Route
        /\ G!Put(r, Config[r].paths[i]).name = Dashed[G!Put(r, Config[r].paths[i]).path]
    BY <1>1, <2>2 DEF G!Put, G!Route, G!Values
  <2>4. routes \subseteq routes' /\ routes' \subseteq G!Route
        /\ \A k \in routes' : k.name = Dashed[k.path]
    BY <1>1, <2>1, <2>3
  <2>5. UNCHANGED <<url, errors>>
    BY <1>5 DEF G!CreateRoute
  <2> QED
    BY <1>1, <2>4, <2>5 DEF Effect
<1> QED
  BY <1>2, <1>3, <1>4, <1>5 DEF KongAct

\* Another execution's request takes nothing from what q relies on.
LEMMA OthersSound ==
  ASSUME G!Values, G!OneUrl, KongInv, NEW r \in Runs, NEW q \in Runs, Effect(r),
         run'[q] = run[q]
  PROVE  Sound(q)'
<1> SUFFICES ASSUME run[q].clean
             PROVE  /\ run[q].pc = "create" => url'[G!Service(q)] \in {None, Config[q].url}
                    /\ run[q].pc \in {"list", "route", "done"} =>
                         url'[G!Service(q)] = Config[q].url
                    /\ run[q].pc \in {"route", "done"} =>
                         \A i \in DOMAIN Config[q].paths : i \in run[q].left \/ Has(q, i)'
  BY DEF Sound, G!Service
<1>1. Sound(q) /\ G!Service(q) \in Services
  BY DEF KongInv, G!Values, G!Service
<1>2. url'[G!Service(q)] \in {url[G!Service(q)], Config[q].url}
  <2>1. G!Service(q) = G!Service(r) => Config[q].url = Config[r].url
    BY DEF G!OneUrl, G!Service
  <2> QED
    BY <1>1, <2>1 DEF Effect
<1>3. \A i : Has(q, i) => Has(q, i)'
  BY DEF Effect, Has, G!Service
<1> QED
  BY <1>1, <1>2, <1>3 DEF Sound

\* The execution itself: each answer but an error tells it what is in Kong.
LEMMA OwnSound ==
  ASSUME G!Values, G!NamesTellPaths, KongInv, NEW r \in Runs, KongAct(r), Effect(r)
  PROVE  /\ run' \in [Runs -> Execution]
         /\ \A q \in Runs \ {r} : run'[q] = run[q]
         /\ run'[r].left \subseteq DOMAIN Config[r].paths
         /\ run'[r].pc = "done" => run'[r].left = {}
         /\ Sound(r)'
<1> DEFINE c == Config[r]
           s == G!Service(r)
           t == run'[r]
           Good == /\ t.pc = "create" => url'[s] \in {None, c.url}
                   /\ t.pc \in {"list", "route", "done"} => url'[s] = c.url
                   /\ t.pc \in {"route", "done"} =>
                        \A i \in DOMAIN c.paths : i \in t.left \/ Has(r, i)'
<1>0. G!TypeOK /\ run[r] \in Execution
  BY DEF KongInv, G!TypeOK, Execution
<1>1. /\ run[r].left \subseteq DOMAIN c.paths /\ DOMAIN c.paths \subseteq Nat
      /\ run[r].pc = "done" => run[r].left = {}
      /\ Sound(r) /\ s \in Services /\ c.url \in Urls /\ c.url # None
  BY DEF KongInv, G!Values, G!Service
<1>2. \A i : Has(r, i) => Has(r, i)'
  BY DEF Effect, Has, G!Service
<1>3. (t.clean => Good) => Sound(r)'
  BY DEF Sound, G!Service
<1>4. CASE G!Wait(r)
  <2>1. Proceeds(r, "find", run[r].left, run[r].clean)
    BY <1>0, <1>4, RunGoes DEF G!Wait, G!Steps
  <2> QED
    BY <1>1, <1>3, <2>1 DEF Proceeds
<1>5. CASE G!Find(r)
  <2>1. PICK pc \in {"create", "update"} :
          /\ Proceeds(r, pc, run[r].left, run[r].clean)
          /\ pc = "create" => url[s] = None
    BY <1>0, <1>5, RunGoes DEF G!Find, G!Steps
  <2>2. url' = url
    BY <1>5 DEF G!Find
  <2> QED
    BY <1>1, <1>3, <2>1, <2>2 DEF Proceeds
<1>6. CASE G!Update(r)
  <2>1. Proceeds(r, "list", run[r].left, run[r].clean)
    BY <1>0, <1>6, RunGoes DEF G!Update, G!Steps
  <2>2. url'[s] = c.url
    BY <1>0, <1>1, <1>6 DEF G!Update, G!TypeOK
  <2> QED
    BY <1>1, <1>3, <2>1, <2>2 DEF Proceeds
<1>7. CASE G!Create(r)
  <2>1. Proceeds(r, "list", run[r].left, run[r].clean)
    BY <1>0, <1>7, RunGoes DEF G!Create, G!Steps
  <2>2. run[r].clean => url[s] \in {None, c.url}
    BY <1>1, <1>7 DEF G!Create, G!At, Sound
  <2>3. run[r].clean => url'[s] = c.url
    BY <1>0, <1>1, <1>7, <2>2 DEF G!Create, G!TypeOK
  <2> QED
    BY <1>1, <1>3, <2>1, <2>3 DEF Proceeds
<1>8. CASE G!List(r)
  <2> DEFINE left == {i \in DOMAIN c.paths : ~Has(r, i)}
  <2>1. G!Creates(r, left) /\ url' = url /\ run[r].pc = "list"
    BY <1>8 DEF G!List, G!At, Has
  <2>2. left \subseteq DOMAIN c.paths /\ \A i \in DOMAIN c.paths : i \in left \/ Has(r, i)
    OBVIOUS
  <2> HIDE DEF left
  <2>3. Proceeds(r, After(left), left, run[r].clean)
    BY <1>0, <1>1, <2>1, <2>2, RunCreates
  <2>4. run[r].clean => url'[s] = c.url
    BY <1>1, <2>1 DEF Sound
  <2> QED
    BY <1>2, <1>3, <2>2, <2>3, <2>4 DEF Proceeds, After
<1>9. CASE G!CreateRoute(r)
  <2>1. PICK i \in G!First(r) :
          /\ routes' = IF G!Refused(r, c.paths[i]) THEN routes
                       ELSE routes \cup {G!Put(r, c.paths[i])}
          /\ G!Creates(r, run[r].left \ {i})
    BY <1>9 DEF G!CreateRoute
  <2>2. i \in DOMAIN c.paths /\ c.paths[i] \in Paths
    BY <1>1, <2>1 DEF G!First, G!Values
  <2>3. Proceeds(r, After(run[r].left \ {i}), run[r].left \ {i}, run[r].clean)
    <3>1. run[r].left \ {i} \in SUBSET Nat
      BY <1>1
    <3> QED
      BY <1>0, <2>1, <3>1, RunCreates
  <2>4. run[r].pc = "route" /\ url' = url
    BY <1>9 DEF G!CreateRoute, G!At
  <2>5. run[r].clean => url[s] = c.url /\ \A j \in DOMAIN c.paths : j \in run[r].left \/ Has(r, j)
    BY <1>1, <2>4 DEF Sound
  <2>6. url[s] # None => Has(r, i)'
    <3>1. CASE G!Refused(r, c.paths[i]) /\ url[s] # None
      <4>1. PICK o \in routes : o.service = s /\ o.name = Dashed[c.paths[i]]
        BY <3>1 DEF G!Refused
      <4>2. o.path \in Paths /\ o.name = Dashed[o.path]
        BY DEF KongInv, G!TypeOK, G!Route
      <4>3. o.path = c.paths[i]
        BY <2>2, <4>1, <4>2 DEF G!NamesTellPaths
      <4>4. Has(r, i)
        BY <4>1, <4>3 DEF Has
      <4> QED
        BY <1>2, <4>4
    <3>2. CASE ~G!Refused(r, c.paths[i])
      <4>1. G!Put(r, c.paths[i]) \in routes'
        BY <2>1, <3>2
      <4>2. G!Put(r, c.paths[i]).service = s /\ G!Put(r, c.paths[i]).path = c.paths[i]
        BY DEF G!Put
      <4> QED
        BY <4>1, <4>2 DEF Has, G!Service
    <3> QED
      BY <3>1, <3>2
  <2>7. run[r].clean => \A j \in DOMAIN c.paths : j \in run[r].left \ {i} \/ Has(r, j)'
    BY <1>1, <1>2, <2>5, <2>6
  <2> QED
    BY <1>1, <1>3, <2>3, <2>4, <2>5, <2>7 DEF Proceeds, After
<1>10. CASE G!ErrorAnswer(r)
  <2>1. PICK x \in Execution :
          /\ run' = [run EXCEPT ![r] = [x EXCEPT !.clean = FALSE]]
          /\ x.left \subseteq DOMAIN c.paths
          /\ x.pc = "done" => x.left = {}
    <3>1. CASE G!At(r, "find")
      BY <1>0, <1>1, <1>10, <3>1 DEF G!ErrorAnswer, G!At, Execution, G!Steps
    <3>2. CASE G!At(r, "update") \/ G!At(r, "create")
      BY <1>0, <1>1, <1>10, <3>2 DEF G!ErrorAnswer, G!At, Execution, G!Steps
    <3>3. CASE G!At(r, "list")
      <4> DEFINE left == DOMAIN c.paths
      <4>1. run' = [run EXCEPT ![r] = [G!Lists(r, left) EXCEPT !.clean = FALSE]]
        BY <1>10, <3>3 DEF G!ErrorAnswer, G!At
      <4>2. left \in SUBSET Nat /\ left \subseteq DOMAIN c.paths
        BY <1>1
      <4> HIDE DEF left
      <4> QED
        BY <1>0, <1>1, <4>1, <4>2, ListsIs, ZenonT(60) DEF After
    <3>4. CASE G!At(r, "route")
      <4> DEFINE left == run[r].left \ G!First(r)
      <4>1. run' = [run EXCEPT ![r] = [G!Lists(r, left) EXCEPT !.clean = FALSE]]
        BY <1>10, <3>4 DEF G!ErrorAnswer, G!At
      <4>2. left \in SUBSET Nat /\ left \subseteq DOMAIN c.paths
        BY <1>1
      <4> HIDE DEF left
      <4> QED
        BY <1>0, <1>1, <4>1, <4>2, ListsIs, ZenonT(60) DEF After
    <3>5. CASE ~G!At(r, "find") /\ ~G!At(r, "update") /\ ~G!At(r, "create") /\ ~G!At(r, "list")
               /\ ~G!At(r, "route")
      BY <1>10, <3>5 DEF G!ErrorAnswer
    <3> QED
      BY <3>1, <3>2, <3>3, <3>4, <3>5
  <2> DEFINE y == [x EXCEPT !.clean = FALSE]
  <2>2. y \in Execution /\ y.pc = x.pc /\ y.left = x.left /\ ~y.clean
    BY <2>1 DEF Execution
  <2>3. run' = [run EXCEPT ![r] = y]
    BY <2>1
  <2> HIDE DEF y
  <2>4. Turns(r, y)
    BY <1>0, <2>2, <2>3, RunBecomes
  <2> QED
    BY <1>3, <2>1, <2>2, <2>4 DEF Turns
<1>11. CASE G!Fails(r)
  <2>1. Proceeds(r, "failed", run[r].left, run[r].clean)
    BY <1>0, <1>11, RunGoes DEF G!Fails, G!Steps
  <2> QED
    BY <1>1, <1>3, <2>1 DEF Proceeds
<1> QED
  BY <1>4, <1>5, <1>6, <1>7, <1>8, <1>9, <1>10, <1>11 DEF KongAct

LEMMA KongStep ==
  ASSUME G!Values, G!OneUrl, G!NamesTellPaths, KongInv, NEW r \in Runs, KongAct(r)
  PROVE  KongInv'
<1>1. Effect(r)
  BY KongEffect
<1>2. /\ run' \in [Runs -> Execution]
      /\ \A q \in Runs \ {r} : run'[q] = run[q]
      /\ run'[r].left \subseteq DOMAIN Config[r].paths
      /\ run'[r].pc = "done" => run'[r].left = {}
      /\ Sound(r)'
  BY <1>1, OwnSound
<1>3. ASSUME NEW q \in Runs
      PROVE  /\ run'[q].left \subseteq DOMAIN Config[q].paths
             /\ run'[q].pc = "done" => run'[q].left = {}
             /\ Sound(q)'
  <2>1. CASE q = r
    BY <1>2, <2>1
  <2>2. CASE q # r
    <3>1. run'[q] = run[q]
      BY <1>2, <2>2
    <3>2. Sound(q)'
      BY <1>1, <3>1, OthersSound
    <3> QED
      BY <3>1, <3>2 DEF KongInv
  <2> QED
    BY <2>1, <2>2
<1>4. G!TypeOK' /\ \A k \in routes' : k.name = Dashed[k.path]
  BY <1>1, <1>2 DEF G!TypeOK, Execution, Effect
<1> QED
  BY <1>3, <1>4 DEF KongInv

LEMMA KongStart == G!Values /\ G!NamesTellPaths /\ G!Init => KongInv
<1> SUFFICES ASSUME G!Values, G!NamesTellPaths, G!Init
             PROVE  KongInv
  OBVIOUS
<1>1. PICK k \in Earlier : url = k.url /\ routes = k.routes
  BY DEF G!Init
<1>2. G!TypeOK
  BY <1>1 DEF G!Values, G!Init, G!TypeOK, G!Steps
<1>3. \A r \in Runs : run[r].pc = "wait" /\ run[r].left = {}
  BY DEF G!Init
<1> QED
  BY <1>1, <1>2, <1>3 DEF KongInv, G!NamesTellPaths, Sound

-----------------------------------------------------------------------------
(* KongRegistration, as a scenario *)

LEMMA KongRests == KongInv /\ UNCHANGED kong => KongInv'
BY DEF KongInv, kong, G!TypeOK, Sound, Has

\* Of behaviours that are about registrations.
OfKong == scenario = "kong" => KongInv

LEMMA OfKongStep == OfKong /\ [StartupNext]_startup => OfKong'
<1> SUFFICES ASSUME OfKong, [StartupNext]_startup, scenario' = "kong"
             PROVE  KongInv'
  BY DEF OfKong
<1>1. CASE UNCHANGED startup
  BY <1>1, KongRests DEF OfKong, startup
<1>2. CASE StartupNext
  <2>1. scenario = "kong" /\ G!Next
    BY <1>2 DEF StartupNext
  <2>2. PICK r \in Runs : KongAct(r)
    BY <2>1 DEF G!Next, KongAct
  <2> QED
    BY <2>1, <2>2, KongStep, KongAssumption DEF OfKong
<1> QED
  BY <1>1, <1>2

LEMMA OfKongInvariance == StartupSpec => []OfKong
<1>1. StartupInit => OfKong
  BY KongStart, KongAssumption DEF StartupInit, OfKong
<1> QED
  BY <1>1, OfKongStep, PTL DEF StartupSpec

\* A registration that met no answer with an error has its service and all its paths in Kong,
\* whatever other containers do or meet, and though a refusal is taken for success: what
\* Kong refuses is there already (auto-register-kong.js:81-138).
THEOREM CleanMeansRegistered == StartupSpec => []CleanSuccessIsRegistered
<1>1. OfKong => CleanSuccessIsRegistered
  <2> SUFFICES ASSUME KongInv, NEW r \in Runs, run[r].pc = "done", run[r].clean
               PROVE  G!Registered(r)
    BY DEF OfKong, CleanSuccessIsRegistered, G!CleanSuccessIsRegistered, G!At
  <2>1. url[G!Service(r)] = Config[r].url /\ \A i \in DOMAIN Config[r].paths : Has(r, i)
    BY DEF KongInv, Sound
  <2>2. ASSUME NEW p \in G!ToSet(Config[r].paths)
        PROVE  \E k \in routes : k.service = G!Service(r) /\ k.path = p
    BY <2>1, <2>2 DEF G!ToSet, Has
  <2> QED
    BY <2>1, <2>2 DEF G!Registered
<1> QED
  BY <1>1, OfKongInvariance, PTL

LEMMA KeepsStep ==
  ASSUME KongInv, NEW r \in Runs, KongAct(r), NEW q \in Runs, run[q].pc = "done", run[q].clean
  PROVE  /\ url'[G!Service(q)] = url[G!Service(q)]
         /\ \A k \in G!Route : k.service = G!Service(q) => (k \in routes' <=> k \in routes)
<1>1. Effect(r) /\ G!Service(q) \in Services
  BY KongEffect, KongAssumption DEF G!Values, G!Service
<1>2. /\ url[G!Service(q)] = Config[q].url /\ Config[q].url # None
      /\ \A i \in DOMAIN Config[q].paths : Has(q, i)
  <2>1. Config[q].url \in Urls /\ None \notin Urls
    BY KongAssumption DEF G!Values
  <2>2. Sound(q) /\ run[q].left = {}
    BY DEF KongInv
  <2> QED
    BY <2>1, <2>2 DEF Sound
<1>3. url'[G!Service(q)] = url[G!Service(q)]
  <2>1. G!Service(q) = G!Service(r) => Config[q].url = Config[r].url
    BY KongAssumption DEF G!OneUrl, G!Service
  <2> QED
    BY <1>1, <1>2, <2>1 DEF Effect
<1>4. ASSUME NEW k \in G!Route, k.service = G!Service(q), k \in routes'
      PROVE  k \in routes
  <2>1. CASE G!CreateRoute(r) /\ G!Service(r) = G!Service(q)
    <3>1. PICK i \in G!First(r) :
            routes' = IF G!Refused(r, Config[r].paths[i]) THEN routes
                      ELSE routes \cup {G!Put(r, Config[r].paths[i])}
      BY <2>1 DEF G!CreateRoute
    <3>2. i \in DOMAIN Config[q].paths /\ Config[q] = Config[r]
      BY <2>1, <3>1, KongAssumption DEF G!SameVariables, G!Service, KongInv, G!First
    <3>3. PICK o \in routes : o.service = G!Service(q) /\ o.path = Config[q].paths[i]
      BY <1>2, <3>2 DEF Has
    <3>4. o.name = Dashed[o.path]
      BY DEF KongInv
    <3>5. G!Refused(r, Config[r].paths[i])
      BY <2>1, <3>2, <3>3, <3>4 DEF G!Refused
    <3> QED
      BY <1>4, <3>1, <3>5
  <2>2. CASE G!CreateRoute(r) /\ G!Service(r) # G!Service(q)
    <3>1. PICK i \in G!First(r) :
            routes' = IF G!Refused(r, Config[r].paths[i]) THEN routes
                      ELSE routes \cup {G!Put(r, Config[r].paths[i])}
      BY <2>2 DEF G!CreateRoute
    <3>2. k # G!Put(r, Config[r].paths[i])
      BY <1>4, <2>2 DEF G!Put
    <3> QED
      BY <1>4, <3>1, <3>2
  <2>3. CASE ~G!CreateRoute(r)
    BY <1>4, <2>3 DEF KongAct, G!Wait, G!Find, G!Update, G!Create, G!List, G!ErrorAnswer, G!Fails
  <2> QED
    BY <2>1, <2>2, <2>3
<1> QED
  BY <1>1, <1>3, <1>4 DEF Effect

\* After such a success, whatever further executions do with the same variables, in any
\* order, changes nothing of the service (AUTO_REGISTRATION_GUIDE.md:141).
THEOREM RegisteredStays == StartupSpec => Idempotent
<1>1. OfKong /\ [StartupNext]_startup => [scenario = "kong" => G!KeepsRegistered]_kong
  <2> SUFFICES ASSUME OfKong, StartupNext, scenario = "kong"
               PROVE  G!KeepsRegistered
    BY DEF startup
  <2>1. KongInv /\ G!Next
    BY DEF OfKong, StartupNext
  <2>2. PICK r \in Runs : KongAct(r)
    BY <2>1 DEF G!Next, KongAct
  <2> QED
    BY <2>1, <2>2, KeepsStep DEF G!KeepsRegistered, G!At
<1> QED
  BY <1>1, OfKongInvariance, PTL DEF StartupSpec, Idempotent

-----------------------------------------------------------------------------
\* Files, replicas, services and routes keep their shape: a half of a pair is read only
\* from a file that is there, and a route is created only for a path of the container.
THEOREM StartupTypes == StartupSpec => []TypesOK
<1>1. OfKeys /\ OfKong => TypesOK
  BY DEF OfKeys, OfKong, KeysInv, KeyInv, KongInv, TypesOK
<1> QED
  BY <1>1, OfKeysInvariance, OfKongInvariance, PTL
=============================================================================

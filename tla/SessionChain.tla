---------------------------- MODULE SessionChain ----------------------------
(***************************************************************************)
(* What refresh-token rotation promises, without requests, rows or locks:  *)
(* a session is a capability that is in one place at a time. It is unopened*)
(* until a role is selected, in transit while the backend is issuing its   *)
(* next token, held by exactly one never-used token otherwise, and once    *)
(* closed it stays closed.                                                 *)
(***************************************************************************)
CONSTANTS Sessions, Tokens, NoToken  \* NoToken is not one of Tokens

VARIABLES
  phase,   \* of each session
  holder,  \* the token that holds a live session
  used     \* tokens ever issued

chainVars == <<phase, holder, used>>

Phases == {"unopened", "transit", "live", "closed"}

Init ==
  /\ phase = [s \in Sessions |-> "unopened"]
  /\ holder = [s \in Sessions |-> NoToken]
  /\ used = {}

(* A role was selected: the first token is being issued.                   *)
Open(s) ==
  /\ phase[s] = "unopened"
  /\ phase' = [phase EXCEPT ![s] = "transit"]
  /\ UNCHANGED <<holder, used>>

(* The next token of the session exists; no token is ever issued twice.    *)
Issue(s, t) ==
  /\ phase[s] = "transit"
  /\ t \notin used
  /\ phase' = [phase EXCEPT ![s] = "live"]
  /\ holder' = [holder EXCEPT ![s] = t]
  /\ used' = used \cup {t}

(* The holder is presented, and is spent before its successor exists.      *)
Consume(s) ==
  /\ phase[s] = "live"
  /\ phase' = [phase EXCEPT ![s] = "transit"]
  /\ holder' = [holder EXCEPT ![s] = NoToken]
  /\ UNCHANGED used

(* Logout, expiry, reuse, removal of the user, or a request that failed    *)
(* before issuing; family revocation and removal close several at once.    *)
Close(S) ==
  /\ \A s \in S : phase[s] \in {"live", "transit"}
  /\ phase' = [s \in Sessions |-> IF s \in S THEN "closed" ELSE phase[s]]
  /\ holder' = [s \in Sessions |-> IF s \in S THEN NoToken ELSE holder[s]]
  /\ UNCHANGED used

Next ==
  \/ \E s \in Sessions : Open(s) \/ Consume(s)
  \/ \E s \in Sessions, t \in Tokens : Issue(s, t)
  \/ \E S \in SUBSET Sessions : Close(S)

Spec == Init /\ [][Next]_chainVars
=============================================================================

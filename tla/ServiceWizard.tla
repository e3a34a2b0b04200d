--------------------------- MODULE ServiceWizard ----------------------------
(***************************************************************************)
(* ExternalServiceFormView: an administrator probes a service, chooses     *)
(* which endpoints become menus and for which roles, and registers it; the *)
(* answers of the Master come while the form goes on changing.             *)
(*                                                                         *)
(* A service that answers is its url, and an item is the url its endpoint  *)
(* was discovered at, the code its path was made from, and whether it is   *)
(* complete (enabled, with a name, both paths and a method). What the      *)
(* Master checks is in Catalog: here it accepts or refuses.                *)
(***************************************************************************)
EXTENDS Naturals, FiniteSets

CONSTANTS
  Codes, Urls, Roles,
  MaxEdits,       \* bound on changes of code and url
  None

VARIABLES
  step,
  form,           \* [code, url]
  probing,        \* the url under way, or None
  probeResult,    \* [url, reachable, late], or None
  menuItems, selectedRoles,
  submitting,     \* "no", "create" or "provision"
  registered,     \* in the Master: the url of each code, or None
  provisioned,    \* in the Master: [code, item]
  edits

local == <<step, form, probing, probeResult, menuItems, selectedRoles, submitting>>
master == <<registered, provisioned>>
vars == <<local, master, edits>>

-----------------------------------------------------------------------------
\* late: history, whether the answer found another url in the form than the one it
\* is of.
ProbeResult == [url: Urls, reachable: BOOLEAN, late: BOOLEAN]

\* at, late: history, the url whose probe listed the endpoint, None for a manual
\* one, and whether that answer was late.
Item == [at: Urls \cup {None}, late: BOOLEAN, code: Codes, complete: BOOLEAN]

TypeOK ==
  /\ step \in 1 .. 3
  /\ form \in [code: Codes, url: Urls]
  /\ probing \in Urls \cup {None}
  /\ probeResult \in ProbeResult \cup {None}
  /\ menuItems \subseteq Item
  /\ selectedRoles \subseteq Roles
  /\ submitting \in {"no", "create", "provision"}
  /\ registered \in [Codes -> Urls \cup {None}]
  /\ provisioned \subseteq [code: Codes, item: Item]
  /\ edits \in 0 .. MaxEdits

Init ==
  /\ step = 1
  /\ form \in [code: Codes, url: Urls]
  /\ probing = None /\ probeResult = None
  /\ menuItems = {} /\ selectedRoles = {}
  /\ submitting = "no"
  /\ registered = [c \in Codes |-> None] /\ provisioned = {}
  /\ edits = 0

-----------------------------------------------------------------------------
Edits ==
  /\ step = 1 /\ edits < MaxEdits
  /\ form' \in [code: Codes, url: Urls] /\ form' # form
  /\ edits' = edits + 1
  /\ UNCHANGED <<step, probing, menuItems, selectedRoles, submitting, master>>

\* (a bug) The inputs do not call resetProbe.
EditKeeps == Edits /\ UNCHANGED probeResult

\* Code, url and the paths of the probe; each input calls resetProbe.
Edit == Edits /\ probeResult' = None

RunProbe ==
  /\ step = 1 /\ probing = None
  /\ probing' = form.url
  /\ UNCHANGED <<step, form, probeResult, menuItems, selectedRoles, submitting,
                 master, edits>>

\* Whatever the form holds by now: its inputs are not disabled meanwhile.
Probed ==
  /\ probing # None
  /\ probeResult' \in
       [url: {probing}, reachable: BOOLEAN, late: {probing # form.url}] \cup {None}
  /\ probing' = None
  /\ UNCHANGED <<step, form, menuItems, selectedRoles, submitting, master, edits>>

Discovered ==
  [at: {probeResult.url}, late: {probeResult.late}, code: {form.code}, complete: {TRUE}]

Manual == [at |-> None, late |-> FALSE, code |-> form.code, complete |-> FALSE]

ToStep2 ==
  /\ step = 1 /\ probeResult # None /\ probeResult.reachable
  /\ step' = 2
  /\ UNCHANGED <<form, probing, probeResult, selectedRoles, submitting, master, edits>>

\* (a bug) Items that are there are kept.
GoToStep2Keeps ==
  /\ ToStep2
  /\ menuItems' = IF menuItems = {} THEN Discovered ELSE menuItems

\* The endpoints the probe listed, and a manual item when it listed none.
GoToStep2 == ToStep2 /\ menuItems' \in {Discovered, {Manual}}

AddManualItem ==
  /\ step = 2
  /\ menuItems' = menuItems \cup {Manual}
  /\ UNCHANGED <<step, form, probing, probeResult, selectedRoles, submitting, master, edits>>

\* An item is completed, emptied or taken out, or roles are chosen.
Choose ==
  /\ step = 2
  /\ \/ /\ \E i \in menuItems: \E b \in BOOLEAN:
             menuItems' = (menuItems \ {i}) \cup {[i EXCEPT !.complete = b]}
        /\ UNCHANGED selectedRoles
     \/ /\ selectedRoles' \in SUBSET Roles
        /\ UNCHANGED menuItems
  /\ UNCHANGED <<step, form, probing, probeResult, submitting, master, edits>>

Enabled == {i \in menuItems: i.complete}

Complete == Enabled # {} /\ selectedRoles # {}

GoToStep3 ==
  /\ step = 2 /\ Complete
  /\ step' = 3
  /\ UNCHANGED <<form, probing, probeResult, menuItems, selectedRoles, submitting,
                 master, edits>>

Back ==
  /\ step > 1 /\ submitting = "no"
  /\ step' = step - 1
  /\ UNCHANGED <<form, probing, probeResult, menuItems, selectedRoles, submitting,
                 master, edits>>

Submit ==
  /\ step = 3 /\ submitting = "no"
  /\ submitting' = "create"
  /\ UNCHANGED <<step, form, probing, probeResult, menuItems, selectedRoles,
                 master, edits>>

\* The Master probes again and refuses a code it has.
Created ==
  /\ submitting = "create" /\ registered[form.code] = None
  /\ registered' = [registered EXCEPT ![form.code] = form.url]
  /\ submitting' = "provision"
  /\ UNCHANGED <<step, form, probing, probeResult, menuItems, selectedRoles,
                 provisioned, edits>>

\* In one transaction; then load and router.push, and the form is gone.
Provisioned ==
  /\ submitting = "provision"
  /\ provisioned' = provisioned \cup [code: {form.code}, item: Enabled]
  /\ submitting' = "no" /\ step' = 1
  /\ probing' = None /\ probeResult' = None
  /\ menuItems' = {} /\ selectedRoles' = {}
  /\ UNCHANGED <<form, registered, edits>>

\* Either call fails: the wizard stays where it is.
Refused ==
  /\ submitting # "no"
  /\ submitting' = "no"
  /\ UNCHANGED <<step, form, probing, probeResult, menuItems, selectedRoles,
                 master, edits>>

Next ==
  \/ Edit \/ RunProbe \/ Probed \/ GoToStep2 \/ AddManualItem \/ Choose
  \/ GoToStep3 \/ Back \/ Submit \/ Created \/ Provisioned \/ Refused

Spec == Init /\ [][Next]_vars

-----------------------------------------------------------------------------
GoesOn == step = 1 /\ step' = 2

\* However the form is changed, before, during and after probes, the administrator
\* goes on only from an answer for the url that is in it, unless the answer found
\* another one there when it came (ExternalServiceFormView.vue:330-353).
GoesOnProbed == GoesOn => probeResult.late \/ probeResult.url = form.url

\* The menus of a service are under its own code and lead to endpoints it listed
\* itself or that were written by hand, but for those of a late answer
\* (ExternalServiceFormView.vue:355-375).
MenusOfTheService == \A p \in provisioned:
  /\ p.item.late \/ p.item.at \in {None, registered[p.code]}
  /\ p.item.code = p.code

\* "Guardar sigue bloqueado si el probe falla" (diagramas-secuencia.md:159).
SavesWhatAnswered == GoesOn => probeResult.url = form.url

\* A service is registered only for somebody and with something to show,
\* however often the administrator went back (ExternalServiceFormView.vue:387-406).
SomethingForSomebody == submitting # "no" => Enabled # {} /\ selectedRoles # {}
=============================================================================

------------------------------- MODULE Views --------------------------------
(***************************************************************************)
(* What a signed-in administrator uses: the menu store with its routes     *)
(* (FrontendMenu), the form that registers a service (ServiceWizard) and   *)
(* the page of a menu (DynamicPage). They share no state, so a behaviour   *)
(* is one of the scenarios and the variables of the other modules do not   *)
(* change.                                                                 *)
(***************************************************************************)
EXTENDS FrontendMenu

CONSTANTS
  Codes, ServiceUrls, ServiceRoles, MaxEdits,  \* see ServiceWizard
  PageMenus, External, MaxCalls,               \* see DynamicPage
  Scenarios

ASSUME PageAssumption == None \notin PageMenus

VARIABLES
  scenario,
  step, form, probing, probeResult, menuItems, selectedRoles, submitting,
  inMaster, provisioned, changes,
  pageMenu, loading, payload, error, calls, waiting, overtaken

navigation == vars
wizard == <<step, form, probing, probeResult, menuItems, selectedRoles, submitting,
            inMaster, provisioned, changes>>
dynamicPage == <<pageMenu, loading, payload, error, calls, waiting, overtaken>>

W == INSTANCE ServiceWizard WITH
  Urls <- ServiceUrls, Roles <- ServiceRoles, registered <- inMaster, edits <- changes

P == INSTANCE DynamicPage WITH Menus <- PageMenus, menu <- pageMenu

-----------------------------------------------------------------------------
NavigationAtRest ==
  /\ work = None /\ server = [modules |-> {}, menu |-> NoTree.menu, used |-> {}]
  /\ role = None /\ page = "login" /\ nav = None
  /\ modules = {} /\ nodes = NoTree.menu /\ twins = NoTree.menu
  /\ state = "idle" /\ registered = {}
  /\ load = [l \in Loads |-> NoCall]
  /\ editing = None /\ save = NoSave /\ del = NoSave /\ edited = 0
  /\ robbed = {} /\ stale = FALSE /\ crossed = {}

WizardAtRest ==
  /\ step = None /\ form = None /\ probing = None /\ probeResult = None
  /\ menuItems = None /\ selectedRoles = None /\ submitting = None
  /\ inMaster = None /\ provisioned = None /\ changes = None

PageAtRest ==
  /\ pageMenu = None /\ loading = None /\ payload = None /\ error = None /\ calls = None
  /\ waiting = None /\ overtaken = None

ViewsInit ==
  /\ scenario \in Scenarios
  /\ \/ scenario = "navigation" /\ Init /\ WizardAtRest /\ PageAtRest
     \/ scenario = "wizard" /\ W!Init /\ NavigationAtRest /\ PageAtRest
     \/ scenario = "page" /\ P!Init /\ NavigationAtRest /\ WizardAtRest

ViewsNext ==
  /\ \/ scenario = "navigation" /\ Next /\ UNCHANGED <<wizard, dynamicPage>>
     \/ scenario = "wizard" /\ W!Next /\ UNCHANGED <<navigation, dynamicPage>>
     \/ scenario = "page" /\ P!Next /\ UNCHANGED <<navigation, wizard>>
  /\ UNCHANGED scenario

views == <<scenario, navigation, wizard, dynamicPage>>

ViewsSpec == ViewsInit /\ [][ViewsNext]_views

-----------------------------------------------------------------------------
\* Store, router, form and page keep their shape.
TypesOK ==
  /\ scenario = "navigation" => TypeOK
  /\ scenario = "wizard" => W!TypeOK

-----------------------------------------------------------------------------
(* What ServiceWizard.tla and DynamicPage.tla state *)

\* Menus lead to endpoints of their service, or manual ones, but for late answers.
MenusOfTheService == scenario = "wizard" => W!MenusOfTheService

\* What is registered has menus and somebody to see them.
SomethingForSomebody == scenario = "wizard" => W!SomethingForSomebody

\* The form goes on from an answer for its url, or from one that came late.
OnlyProbedServices == [][scenario = "wizard" => W!GoesOnProbed]_wizard

\* A page with no call under way shows the answer of its own menu, unless an older
\* call failed since that one went out, or returned after it.
QuietPageShowsItsMenu == scenario = "page" => P!QuietPageShowsItsMenu

\* "\"Guardar\" sigue bloqueado si el probe falla" (diagramas-secuencia.md:159).
OnlyWhatAnswered == [][scenario = "wizard" => W!SavesWhatAnswered]_wizard

\* The page shows what its menu's endpoint answers (DynamicPageView.vue:149-151).
PageShowsItsMenu == scenario = "page" => P!PageShowsItsMenu
=============================================================================

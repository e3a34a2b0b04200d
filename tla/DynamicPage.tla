---------------------------- MODULE DynamicPage -----------------------------
(***************************************************************************)
(* DynamicPageView: one instance that the router keeps while it goes from  *)
(* one dynamic route to another, and the calls through the proxy it makes. *)
(* What a menu's endpoint answers is known by the menu.                    *)
(***************************************************************************)
EXTENDS Naturals, Sequences

CONSTANTS
  Menus,
  External,       \* the menus whose url leads out of the gateway
  MaxCalls,       \* bound on calls under way
  None

VARIABLES
  menu,           \* route.meta.menu
  loading, payload, error,
  calls,          \* under way, the oldest first
  waiting,        \* history: whether the last of them all has not returned yet
  overtaken       \* history: since it went out, an older call failed, or returned
                  \* after it

history == <<waiting, overtaken>>
vars == <<menu, loading, payload, error, calls, history>>

-----------------------------------------------------------------------------
\* (a bug) One load at a time.
LoadOnce(m) ==
  IF m \in External \/ loading THEN UNCHANGED <<loading, payload, error, calls, history>>
  ELSE /\ loading' = TRUE /\ payload' = None /\ error' = None
       /\ calls' = Append(calls, m) /\ waiting' = TRUE /\ overtaken' = FALSE

\* loadProxyData up to its await.
Load(m) ==
  IF m \in External THEN UNCHANGED <<loading, payload, error, calls, history>>
  ELSE /\ loading' = TRUE /\ payload' = None /\ error' = None
       /\ calls' = Append(calls, m) /\ waiting' = TRUE /\ overtaken' = FALSE

Init ==
  /\ menu \in Menus \ External
  /\ loading = TRUE /\ payload = None /\ error = None
  /\ calls = <<menu>> /\ waiting = TRUE /\ overtaken = FALSE

\* The watch of fullPath.
Navigate(m) ==
  /\ m # menu /\ Len(calls) < MaxCalls
  /\ menu' = m /\ Load(m)

Reload ==
  /\ menu \notin External /\ ~loading /\ Len(calls) < MaxCalls
  /\ Load(menu) /\ UNCHANGED menu

Without(i) == [j \in 1 .. Len(calls) - 1 |-> IF j < i THEN calls[j] ELSE calls[j + 1]]

Failed(i) == error' = calls[i] /\ loading' = FALSE /\ UNCHANGED payload

Answered(i) == payload' = calls[i] /\ loading' = FALSE /\ UNCHANGED error

\* In any order.
Returns(i) ==
  LET last == waiting /\ i = Len(calls) IN
  /\ \/ Answered(i) /\ overtaken' = (overtaken \/ ~waiting)
     \/ Failed(i) /\ overtaken' = (overtaken \/ ~last)
  /\ calls' = Without(i) /\ waiting' = (waiting /\ ~last)
  /\ UNCHANGED menu

Next ==
  \/ \E m \in Menus: Navigate(m)
  \/ Reload
  \/ \E i \in DOMAIN calls: Returns(i)

Spec == Init /\ [][Next]_vars

\* The oldest call returns, at the latest by its timeout.
FairSpec == Spec /\ WF_vars(calls # <<>> /\ Returns(1))

-----------------------------------------------------------------------------
(* What the template shows when it is not loading. *)
Shown == IF error # None THEN error ELSE payload

Quiet == calls = <<>> /\ menu \notin External

\* When every call has returned, what is shown is the answer of the menu the
\* page shows, or its error, also when older calls returned while its own was
\* under way, unless one of them failed then or returned after it
\* (DynamicPageView.vue:142-160).
QuietPageShowsItsMenu == Quiet /\ ~overtaken => Shown = menu

\* When every call has returned, the page shows what its menu's endpoint answered
\* (DynamicPageView.vue:149-151).
PageShowsItsMenu == Quiet => Shown = menu

\* A page that is left alone ends loading (DynamicPageView.vue:157-159).
LoadingEnds == loading ~> ~loading
=============================================================================

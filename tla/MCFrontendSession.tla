------------------------- MODULE MCFrontendSession -------------------------
(* Small instances of FrontendSession for TLC. *)
EXTENDS FrontendSession, TLC

CONSTANTS t1, t2, c1, c2, c3, s1, s2

\* Ids of one kind are interchangeable: sound for the safety runs only.
Symmetry == Permutations(Tabs) \cup Permutations(Calls)
              \cup Permutations(Sessions)
=============================================================================

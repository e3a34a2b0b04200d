--------------------------- MODULE MCAuthService ---------------------------
(* Small instances of AuthService for TLC. *)
EXTENDS AuthService, TLC

CONSTANTS u1, u2, ro1, j1, j2, j3, j4, j5, r1, r2, r3

\* Ids of one kind are interchangeable: sound for the safety runs only.
Symmetry == Permutations(Jtis) \cup Permutations(Requests)
=============================================================================

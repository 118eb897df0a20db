---------------------------- MODULE MCUserRoles -----------------------------
(* Small instances of UserRoles. *)
EXTENDS UserRoles, TLC

\* Requests, and sessions, are interchangeable.
Symmetry == Permutations(Requests) \cup Permutations(Sessions)

=============================================================================

--------------------------- MODULE MCMemberships ----------------------------
(* Small instances of Memberships. *)
EXTENDS Memberships, TLC

\* Requests, sessions and invitations are interchangeable.
Symmetry ==
  Permutations(Requests) \cup Permutations(Sessions) \cup Permutations(Invitations)

=============================================================================

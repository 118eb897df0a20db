--------------------------- MODULE MCCredentials ----------------------------
(* Small instances of Credentials. *)
EXTENDS Credentials, TLC

\* Requests, sessions, links and codes are interchangeable.
Symmetry ==
  Permutations(Requests) \cup Permutations(Sessions)
    \cup Permutations(Tokens) \cup Permutations(Codes)

=============================================================================

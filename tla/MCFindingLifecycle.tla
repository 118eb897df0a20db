------------------------- MODULE MCFindingLifecycle --------------------------
(* Small instances of FindingLifecycle: a source with three tables,
   of which the second has no personal data. *)
EXTENDS FindingLifecycle

\* A column of the first table, whose values are long, two of the third, and two
\* rules.  The names of the two columns differ in case only, so they share a
\* fingerprint.
MCSpots         == {"t1.tel", "t3.mail", "t3.Mail"}
MCTableOf       == [p \in MCSpots |-> IF p = "t1.tel" THEN 1 ELSE 3]
MCRuleOf        == [p \in MCSpots |-> IF p = "t1.tel" THEN "phone" ELSE "email"]
MCFingerprintOf == [p \in MCSpots |-> IF p = "t3.Mail" THEN "t3.mail" ELSE p]

=============================================================================

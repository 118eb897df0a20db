------------------------------ MODULE OneTime ------------------------------
(***************************************************************************)
(* What a single-use secret promises (a reset link, a recovery code): it   *)
(* is issued once, it is spent while it is live, and what it was spent for *)
(* happens once.  With Apart that may come after the spending, or never;   *)
(* without, both are one step.                                             *)
(***************************************************************************)
EXTENDS Naturals

CONSTANTS Items, Apart

VARIABLES
  state,   \* [Items -> State]
  uses     \* [Items -> Nat]: how often the item has had its effect

vars == <<state, uses>>

State == {"none", "live", "spent", "gone"}

Init ==
  /\ state = [i \in Items |-> "none"]
  /\ uses = [i \in Items |-> 0]

\* New items are issued, and some that were never spent are withdrawn.
Issue(new, withdrawn) ==
  /\ \A i \in new : state[i] = "none"
  /\ \A i \in withdrawn : state[i] = "live"
  /\ state' = [i \in Items |-> IF i \in new THEN "live"
                               ELSE IF i \in withdrawn THEN "gone" ELSE state[i]]
  /\ UNCHANGED uses

SpendAndUse(i) ==
  /\ state[i] = "live"
  /\ state' = [state EXCEPT ![i] = "spent"]
  /\ uses' = [uses EXCEPT ![i] = 1]

Spend(i) ==
  /\ Apart /\ state[i] = "live"
  /\ state' = [state EXCEPT ![i] = "spent"]
  /\ UNCHANGED uses

Use(i) ==
  /\ Apart /\ state[i] = "spent" /\ uses[i] = 0
  /\ uses' = [uses EXCEPT ![i] = 1]
  /\ UNCHANGED state

Next ==
  \/ \E new, withdrawn \in SUBSET Items : Issue(new, withdrawn)
  \/ \E i \in Items : SpendAndUse(i) \/ Spend(i) \/ Use(i)

Spec == Init /\ [][Next]_vars

-----------------------------------------------------------------------------
(* What follows, for whoever implements it. *)


\* A secret that was spent or withdrawn does not come back, and what it was spent
\* for is not undone.
KeepsSpent ==
  \A i \in Items : /\ state[i] \in {"spent", "gone"} => state'[i] = state[i]
                   /\ uses'[i] >= uses[i]
SpentStays == [][KeepsSpent]_vars

=============================================================================

----------------------------- MODULE BackupBook -----------------------------
(***************************************************************************)
(* What the directory of the sets promises to whoever restores from it,    *)
(* whatever runs are killed or at work at once: a set appears whole, once, *)
(* in one step; retention takes a logical set only while another remains,  *)
(* and no physical set.                                                    *)
(***************************************************************************)
CONSTANTS Runs, Physical

VARIABLES
  kept,   \* sets that can be restored: a manifest, and all that it names
  past    \* sets that could be restored once

vars == <<kept, past>>

Logical == Runs \ Physical

Init == kept = {} /\ past = {}

Publish(s) ==
  /\ s \notin kept \cup past
  /\ kept' = kept \cup {s}
  /\ UNCHANGED past

Retire(s) ==
  /\ s \in kept \cap Logical
  /\ \E t \in kept \cap Logical : t # s
  /\ kept' = kept \ {s}
  /\ past' = past \cup {s}

Next == \E s \in Runs : Publish(s) \/ Retire(s)

Spec == Init /\ [][Next]_vars

-----------------------------------------------------------------------------
(* What follows, for whoever implements it. *)

\* A physical set stays once it is there; a set that was taken apart never looks
\* whole again.
SetsStay ==
  [][/\ kept \cap Physical \subseteq kept'
     /\ past \subseteq past' /\ past' \cap kept' = {}]_vars

=============================================================================

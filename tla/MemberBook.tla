----------------------------- MODULE MemberBook -----------------------------
(***************************************************************************)
(* What the members of an organization are promised, as if every request   *)
(* were one step: the owner stays and somebody governs, a member who is    *)
(* changed or removed loses his sessions in that step, and one joins by    *)
(* spending a pending invitation of one's own.                             *)
(***************************************************************************)
CONSTANTS Users, Sessions, Invitations, Nobody

VARIABLES
  role,          \* [Users -> OrgRole or "none"]
  invitations,   \* [Invitations -> Invitation]
  sessions       \* [Sessions -> Session]

vars == <<role, invitations, sessions>>

Assignable == {"admin", "auditor", "member"}
OrgRole    == Assignable \cup {"owner"}
Governors  == {u \in Users : role[u] \in {"owner", "admin"}}

Blank     == [status |-> "none", user |-> Nobody, role |-> "member", expired |-> FALSE]
NoSession == [status |-> "none", user |-> Nobody, here |-> FALSE]

Init ==
  /\ role \in [Users -> OrgRole \cup {"none"}]
  /\ Governors # {}
  /\ invitations = [i \in Invitations |-> Blank]
  /\ sessions = [s \in Sessions |-> NoSession]

\* A member who is not the owner gets another role, or with "none" is removed, if
\* somebody is left who governs; his sessions end with it.
Change(u, to) ==
  /\ role[u] \notin {"none", "owner", to}
  /\ Governors \ {u} # {} \/ role[u] \notin {"owner", "admin"}
  /\ role' = [role EXCEPT ![u] = to]
  /\ sessions' = [s \in Sessions |->
       IF sessions[s].user # u THEN sessions[s]
       ELSE [sessions[s] EXCEPT !.here = FALSE, !.status = "ended"]]
  /\ UNCHANGED invitations

\* Somebody joins who is no member, by his pending invitation and with its role.
Accept(i) ==
  LET u == invitations[i].user IN
  /\ invitations[i].status = "pending" /\ u \in Users /\ role[u] = "none"
  /\ role' = [role EXCEPT ![u] = invitations[i].role]
  /\ invitations' = [invitations EXCEPT ![i].status = "accepted"]
  /\ UNCHANGED sessions

Invite(i, u, to) ==
  /\ invitations[i].status = "none" /\ Governors # {}
  /\ invitations' = [invitations EXCEPT
       ![i] = [status |-> "pending", user |-> u, role |-> to, expired |-> FALSE]]
  /\ UNCHANGED <<role, sessions>>

Expire(i) ==
  /\ invitations[i].status = "pending" /\ ~invitations[i].expired
  /\ invitations' = [invitations EXCEPT ![i].expired = TRUE]
  /\ UNCHANGED <<role, sessions>>

Revoke(i) ==
  /\ invitations[i].status # "none"
  /\ invitations' = [invitations EXCEPT ![i].status = "revoked"]
  /\ UNCHANGED <<role, sessions>>

\* A session opens, in the organization or not.
Open(s, u, here) ==
  /\ sessions[s].status = "none"
  /\ sessions' = [sessions EXCEPT ![s] = [status |-> "active", user |-> u, here |-> here]]
  /\ UNCHANGED <<role, invitations>>

\* It enters the organization or leaves it.
Switch(s, here) ==
  /\ sessions' = [sessions EXCEPT ![s].here = here]
  /\ UNCHANGED <<role, invitations>>

End(s) ==
  /\ sessions[s].status = "active"
  /\ sessions' = [sessions EXCEPT ![s].status = "ended"]
  /\ UNCHANGED <<role, invitations>>

Forget(s) ==
  /\ sessions[s].status = "ended"
  /\ sessions' = [sessions EXCEPT ![s] = NoSession]
  /\ UNCHANGED <<role, invitations>>

Next ==
  \/ \E u \in Users, to \in Assignable \cup {"none"} : Change(u, to)
  \/ \E i \in Invitations : Accept(i) \/ Expire(i) \/ Revoke(i)
  \/ \E i \in Invitations, u \in Users, to \in Assignable : Invite(i, u, to)
  \/ \E s \in Sessions, u \in Users, here \in BOOLEAN : Open(s, u, here)
  \/ \E s \in Sessions, here \in BOOLEAN : Switch(s, here)
  \/ \E s \in Sessions : End(s) \/ Forget(s)

Spec == Init /\ [][Next]_vars

-----------------------------------------------------------------------------
(* What follows, for whoever implements it. *)


\* The owner stays the owner: no change, removal or invitation reaches him.
OwnerStays == [][\A u \in Users : role[u] = "owner" => role'[u] = "owner"]_vars

\* Whoever is changed or removed has no session left in that very step, and none of
\* his sessions has the organization as its active one.
ChangedLogsOut ==
  [][\A u \in Users : role'[u] # role[u] /\ role[u] # "none" =>
       \A s \in Sessions : sessions'[s].user = u =>
         sessions'[s].status # "active" /\ ~sessions'[s].here]_vars

\* An invitation that was accepted or revoked is never pending again.
InvitationsEnd ==
  [][\A i \in Invitations :
       invitations[i].status \in {"accepted", "revoked"} =>
         invitations'[i].status \in {invitations[i].status, "revoked"}]_vars

=============================================================================

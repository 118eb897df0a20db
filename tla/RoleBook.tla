------------------------------ MODULE RoleBook ------------------------------
(***************************************************************************)
(* What the global roles promise, as if every operation were one step: a   *)
(* role set is replaced only if an administrator is left and with every    *)
(* session of the user ended, and a session opens with the roles of its    *)
(* user at that very moment.                                               *)
(***************************************************************************)
CONSTANTS Users, Sessions, Nobody

VARIABLES
  roles,     \* [Users -> SUBSET Role]: the rows of `user_roles`
  sessions   \* [Sessions -> Session]: the followed rows of `sessions`

vars == <<roles, sessions>>

Role == {"admin", "auditor"}
Admins == {u \in Users : "admin" \in roles[u]}

NoSession == [roles |-> {}, status |-> "none", user |-> Nobody, pending |-> FALSE]
\* What it was no longer matters.
Ended == [roles |-> {}, status |-> "ended", user |-> Nobody, pending |-> FALSE]
Opened(u, held, pending) ==
  [roles |-> held, status |-> "active", user |-> u, pending |-> pending]

\* The sessions once those of the set ended have ended.
Ending(ended) ==
  [s \in Sessions |-> IF s \in ended /\ sessions[s].status = "active"
                      THEN Ended
                      ELSE sessions[s]]

SessionsOf(u) == {s \in Sessions : sessions[s].user = u}

Init ==
  /\ roles \in [Users -> SUBSET Role]
  /\ Admins # {}
  /\ sessions = [s \in Sessions |-> NoSession]

\* A role set is replaced: an administrator stays, the user's sessions end.
Replace(u, next) ==
  /\ "admin" \in next \/ Admins \ {u} # {}
  /\ roles' = [roles EXCEPT ![u] = next]
  /\ sessions' = Ending(SessionsOf(u))

\* Registration gives the first role.
Grant(u) ==
  /\ roles' = [roles EXCEPT ![u] = @ \cup {"auditor"}]
  /\ UNCHANGED sessions

\* A session opens with the roles of now; the one it takes over from ends.
Open(s, u, pending, from) ==
  /\ sessions[s].status = "none" /\ s \notin from
  /\ sessions' = [Ending(from) EXCEPT ![s] = Opened(u, roles[u], pending)]
  /\ UNCHANGED roles

End(ended) == sessions' = Ending(ended) /\ UNCHANGED roles

Forget(s) ==
  /\ sessions[s].status = "ended"
  /\ sessions' = [sessions EXCEPT ![s] = NoSession]
  /\ UNCHANGED roles

Next ==
  \/ \E ended \in SUBSET Sessions : End(ended)
  \/ \E u \in Users, next \in SUBSET Role : Replace(u, next)
  \/ \E u \in Users : Grant(u)
  \/ \E s \in Sessions, u \in Users, pending \in BOOLEAN, from \in SUBSET Sessions :
       Open(s, u, pending, from)
  \/ \E s \in Sessions : Forget(s)

Spec == Init /\ [][Next]_vars

-----------------------------------------------------------------------------
(* What follows, for whoever implements it. *)


\* The roles, the user and the second factor of an active session are those it
\* was opened with: all that can happen to it is its end.
TokensFixed ==
  [][\A s \in Sessions : sessions[s].status = "active" =>
       sessions'[s] \in {sessions[s], Ended}]_vars

\* Whoever loses a role, or becomes an administrator, has no session left in that
\* very step.
RetiredAtOnce ==
  [][\A u \in Users : roles'[u] \notin {roles[u], roles[u] \cup {"auditor"}} =>
       \A s \in Sessions : sessions'[s].user = u => sessions'[s].status # "active"]_vars

=============================================================================

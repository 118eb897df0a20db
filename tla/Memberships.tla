---------------------------- MODULE Memberships -----------------------------
(***************************************************************************)
(* The members of one organization: role changes and removals with their   *)
(* row locks, invitations that are created, accepted and revoked, and the  *)
(* sessions that have the organization as their active one.                *)
(*                                                                         *)
(* PostgreSQL under READ COMMITTED, as in UserRoles: a statement sees what *)
(* is committed when it starts, SELECT ... FOR UPDATE takes the rows of    *)
(* its snapshot one by one, waits for each, and does not return those that *)
(* no longer qualify once they are free; writes show at COMMIT.            *)
(*                                                                         *)
(* Users are numbered in the order of the primary key. No statement here   *)
(* reads the memberships of another organization.                          *)
(***************************************************************************)
EXTENDS Integers, FiniteSets

CONSTANTS
  Users,        \* users that may be members, in the order of user_sub
  Sessions,     \* rows of `sessions' that are followed
  Invitations,  \* rows of `invitations' that may be created
  Requests,     \* requests at work at once
  Nobody        \* no user, no request

ASSUME ConstantsAssumption ==
  /\ Users \subseteq Int /\ IsFiniteSet(Users)
  /\ Nobody \notin Users /\ Nobody \notin Requests

VARIABLES
  role,         \* [Users -> OrgRole or "none"]: the committed rows of `memberships'
  invitations,  \* [Invitations -> Invitation]
  sessions,     \* [Sessions -> Session]
  step,         \* [Requests -> Step]: the statement the request is at
  job,          \* [Requests -> Job]: what it was asked
  todo,         \* [Requests -> SUBSET Users]: rows of its snapshot it has yet to lock
  found,        \* [Requests -> SUBSET Users]: the governors that lock 2 has returned
  rowLock,      \* [Users -> Requests or Nobody]: who holds the membership row
  invLock       \* [Invitations -> Requests or Nobody]: who holds the invitation

requestVars == <<step, job, todo, found>>
lockVars    == <<rowLock, invLock>>
vars == <<role, invitations, sessions, requestVars, lockVars>>

\* What the members are promised, as if every request were one step.
Book == INSTANCE MemberBook

AdminCapable == {"owner", "admin"}
Assignable   == {"admin", "auditor", "member"}
OrgRole      == AdminCapable \cup Assignable
Step == {"idle", "target", "governors", "locking", "accept", "insert", "joined",
         "revoke", "open", "member", "switch"}

Invitation == [status : {"none", "pending", "accepted", "revoked"},
               user : Users \cup {Nobody}, role : Assignable, expired : BOOLEAN]
Session    == [status : {"none", "active", "ended"}, user : Users \cup {Nobody},
               here : BOOLEAN]
Job        == [user : Users \cup {Nobody}, to : Assignable \cup {"none"},
               on : SUBSET (Invitations \cup Sessions), here : BOOLEAN]

\* user is the target or the one who accepts or logs in, to the role he is to
\* have, on the invitation or session it is about, and here what was read before
\* the transaction: that the invitation is late, or that the user is a member.
Asked(u, to, on, here) == [user |-> u, to |-> to, on |-> on, here |-> here]
NoJob == Asked(Nobody, "none", {}, FALSE)

Governors == {u \in Users : role[u] \in AdminCapable}
Active    == {s \in Sessions : sessions[s].status = "active"}
First(S)  == CHOOSE u \in S : \A v \in S : u <= v

TypeOK ==
  /\ role \in [Users -> OrgRole \cup {"none"}]
  /\ invitations \in [Invitations -> Invitation]
  /\ sessions \in [Sessions -> Session]
  /\ step \in [Requests -> Step]
  /\ job \in [Requests -> Job]
  /\ todo \in [Requests -> SUBSET Users]
  /\ found \in [Requests -> SUBSET Users]
  /\ rowLock \in [Users -> Requests \cup {Nobody}]
  /\ invLock \in [Invitations -> Requests \cup {Nobody}]

-----------------------------------------------------------------------------
(* Provisioning gives an organization its owner; the migration of older    *)
(* installations makes the administrators `admin', with or without one.    *)

Init ==
  /\ role \in [Users -> OrgRole \cup {"none"}]
  /\ Governors # {}
  /\ invitations = [i \in Invitations |->
       [status |-> "none", user |-> Nobody, role |-> "member", expired |-> FALSE]]
  /\ sessions = [s \in Sessions |-> [status |-> "none", user |-> Nobody, here |-> FALSE]]
  /\ step = [r \in Requests |-> "idle"]
  /\ job = [r \in Requests |-> NoJob]
  /\ todo = [r \in Requests |-> {}]
  /\ found = [r \in Requests |-> {}]
  /\ rowLock = [u \in Users |-> Nobody]
  /\ invLock = [i \in Invitations |-> Nobody]

\* The transaction of r ends: its locks are free, what it read is gone, and the
\* row it deleted leaves the snapshots of the others.
Finish(r, gone) ==
  /\ step' = [step EXCEPT ![r] = "idle"]
  /\ job' = [job EXCEPT ![r] = NoJob]
  /\ todo' = [q \in Requests |-> IF q = r THEN {} ELSE todo[q] \ gone]
  /\ found' = [found EXCEPT ![r] = {}]
  /\ rowLock' = [u \in Users |-> IF rowLock[u] = r THEN Nobody ELSE rowLock[u]]
  /\ invLock' = [i \in Invitations |-> IF invLock[i] = r THEN Nobody ELSE invLock[i]]

\* It ends without having written.
GiveUp(r) == Finish(r, {}) /\ UNCHANGED <<role, invitations, sessions>>

Ask(r, first, asked) ==
  /\ step[r] = "idle"
  /\ step' = [step EXCEPT ![r] = first]
  /\ job' = [job EXCEPT ![r] = asked]
  /\ UNCHANGED <<role, invitations, sessions, todo, found, lockVars>>

Go(r, next) ==
  /\ step' = [step EXCEPT ![r] = next]
  /\ UNCHANGED <<role, invitations, sessions, job>>

\* requireOrgContext and requireOrgRole: the session is in the organization and
\* its user governs it.
ByGovernor == \E s \in Active : sessions[s].here /\ sessions[s].user \in Governors

-----------------------------------------------------------------------------
(* updateRole, and remove, for which the role to have is "none".           *)

AskChange(r, u, to) == ByGovernor /\ Ask(r, "target", Asked(u, to, {}, FALSE))

\* Bug: a change that has nothing to do returns without ending its transaction.
BugLockTarget(r) ==
  LET u == job[r].user IN
  /\ step[r] = "target" /\ rowLock[u] = Nobody
  /\ IF role[u] \in {"none", "owner", job[r].to}
     THEN /\ rowLock' = [rowLock EXCEPT ![u] = r]
          /\ step' = [step EXCEPT ![r] = "idle"]
          /\ UNCHANGED <<role, invitations, sessions, job, todo, found, invLock>>
     ELSE /\ rowLock' = [rowLock EXCEPT ![u] = r]
          /\ Go(r, "governors") /\ UNCHANGED <<todo, found, invLock>>

\* Lock 1: the row of the target. Not a member, the owner, the same role already:
\* the request ends.
LockTarget(r) ==
  LET u == job[r].user IN
  /\ step[r] = "target"
  /\ IF role[u] \in {"none", "owner", job[r].to}
     THEN (role[u] = "none" \/ rowLock[u] = Nobody) /\ GiveUp(r)
     ELSE /\ rowLock[u] = Nobody
          /\ rowLock' = [rowLock EXCEPT ![u] = r]
          /\ Go(r, "governors") /\ UNCHANGED <<todo, found, invLock>>

\* Lock 2 starts: the governors as committed now.
SnapshotGovernors(r) ==
  /\ step[r] = "governors"
  /\ todo' = [todo EXCEPT ![r] = Governors]
  /\ Go(r, "locking") /\ UNCHANGED <<found, lockVars>>

\* Bug: without FOR UPDATE the governors are counted and not locked.
BugLockGovernor(r) ==
  LET u == First(todo[r]) IN
  /\ step[r] = "locking" /\ todo[r] # {}
  /\ todo' = [todo EXCEPT ![r] = @ \ {u}]
  /\ found' = [found EXCEPT ![r] = @ \cup ({u} \cap Governors)]
  /\ UNCHANGED <<role, invitations, sessions, step, job, lockVars>>

\* The next of them, in the order of the primary key. A row that was changed
\* meanwhile is locked, and returned if it is still a governor's.
LockGovernor(r) ==
  LET u == First(todo[r]) IN
  /\ step[r] = "locking" /\ todo[r] # {}
  /\ rowLock[u] \in {Nobody, r}
  /\ rowLock' = [rowLock EXCEPT ![u] = r]
  /\ todo' = [todo EXCEPT ![r] = @ \ {u}]
  /\ found' = [found EXCEPT ![r] = @ \cup ({u} \cap Governors)]
  /\ UNCHANGED <<role, invitations, sessions, step, job, invLock>>

LastGovernor(r) == role[job[r].user] \in AdminCapable /\ found[r] \subseteq {job[r].user}

\* 403 Cannot remove the last organization admin.
Refuse(r) ==
  /\ step[r] = "locking" /\ todo[r] = {} /\ LastGovernor(r)
  /\ GiveUp(r)

\* Bug: the sessions of a member who is removed or changed are left alone.
BugChange(r) ==
  /\ step[r] = "locking" /\ todo[r] = {} /\ ~LastGovernor(r)
  /\ role' = [role EXCEPT ![job[r].user] = job[r].to]
  /\ Finish(r, IF job[r].to = "none" THEN {job[r].user} ELSE {})
  /\ UNCHANGED <<invitations, sessions>>

\* The row is written, and the sessions of the user are revoked and leave the
\* organization.
Change(r) ==
  LET u == job[r].user
      to == job[r].to
  IN
  /\ step[r] = "locking" /\ todo[r] = {} /\ ~LastGovernor(r)
  /\ role' = [role EXCEPT ![u] = to]
  /\ sessions' = [s \in Sessions |->
       IF sessions[s].user # u THEN sessions[s]
       ELSE [sessions[s] EXCEPT !.here = FALSE, !.status = "ended"]]
  /\ Finish(r, IF to = "none" THEN {u} ELSE {})
  /\ UNCHANGED invitations

-----------------------------------------------------------------------------
(* Invitations.                                                            *)

\* POST /current/invitations: one INSERT.
Invite(i, u, to) ==
  /\ ByGovernor /\ invitations[i].status = "none"
  /\ invitations' = [invitations EXCEPT
       ![i] = [status |-> "pending", user |-> u, role |-> to, expired |-> FALSE]]
  /\ UNCHANGED <<role, sessions, requestVars, lockVars>>

\* INVITATION_TTL_MS passes.
Expire(i) ==
  /\ invitations[i].status = "pending" /\ ~invitations[i].expired
  /\ invitations' = [invitations EXCEPT ![i].expired = TRUE]
  /\ UNCHANGED <<role, sessions, requestVars, lockVars>>

\* The user who was invited comes with the token. The now that is compared with
\* the expiry is that of the request.
AskAccept(r, i) ==
  /\ invitations[i].status # "none"
  /\ Ask(r, "accept", Asked(invitations[i].user, "none", {i}, invitations[i].expired))

\* Bug: without FOR UPDATE the invitation is read and not locked.
BugLockInvitation(r) ==
  \E i \in Invitations \cap job[r].on :
    /\ step[r] = "accept"
    /\ IF invitations[i].status = "pending" /\ ~job[r].here
       THEN Go(r, "insert") /\ UNCHANGED <<todo, found, lockVars>>
       ELSE GiveUp(r)

\* consumeByTokenHash: the invitation is locked and must be pending and in time.
LockInvitation(r) ==
  \E i \in Invitations \cap job[r].on :
    /\ step[r] = "accept" /\ invLock[i] = Nobody
    /\ IF invitations[i].status = "pending" /\ ~job[r].here
       THEN /\ invLock' = [invLock EXCEPT ![i] = r]
            /\ Go(r, "insert") /\ UNCHANGED <<todo, found, rowLock>>
       ELSE GiveUp(r)

\* INSERT ... ON CONFLICT DO NOTHING waits for another insert of the same row;
\* a row that is there makes the request end: already a member.
Inserting(u) == {r \in Requests : step[r] = "joined" /\ job[r].user = u}

InsertMember(r) ==
  LET u == job[r].user IN
  /\ step[r] = "insert"
  /\ IF role[u] # "none" THEN GiveUp(r)
     ELSE /\ Inserting(u) = {}
          /\ Go(r, "joined") /\ UNCHANGED <<todo, found, lockVars>>

\* The invitation is marked as accepted; COMMIT.
Join(r) ==
  \E i \in Invitations \cap job[r].on :
    /\ step[r] = "joined"
    /\ role' = [role EXCEPT ![job[r].user] = invitations[i].role]
    /\ invitations' = [invitations EXCEPT ![i].status = "accepted"]
    /\ Finish(r, {})
    /\ UNCHANGED sessions

AskRevoke(r, i) ==
  /\ ByGovernor /\ invitations[i].status # "none"
  /\ Ask(r, "revoke", Asked(Nobody, "none", {i}, FALSE))

\* One DELETE, which waits for whoever holds the row.
Revoke(r) ==
  \E i \in Invitations \cap job[r].on :
    /\ step[r] = "revoke" /\ invLock[i] = Nobody
    /\ invitations' = [invitations EXCEPT ![i].status = "revoked"]
    /\ Finish(r, {})
    /\ UNCHANGED <<role, sessions>>

-----------------------------------------------------------------------------
(* Sessions and their active organization.                                 *)

\* Login reads the first organization of the user and then opens the session in
\* a transaction of its own.
AskLogin(r, u) == Ask(r, "open", Asked(u, "none", {}, role[u] # "none"))

OpenSession(r) ==
  LET free   == {s \in Sessions : sessions[s].status = "none"}
      opened == [status |-> "active", user |-> job[r].user, here |-> job[r].here]
  IN
  /\ step[r] = "open"
  /\ \/ \E s \in free : sessions' = [sessions EXCEPT ![s] = opened]
     \/ free = {} /\ UNCHANGED sessions     \* it is not followed
  /\ Finish(r, {})
  /\ UNCHANGED <<role, invitations>>

\* POST /active: the route finds the membership, then setActiveOrganization does
\* so again and writes the session in a second statement.
AskActive(r, s) ==
  /\ s \in Active /\ role[sessions[s].user] # "none"
  /\ Ask(r, "member", Asked(sessions[s].user, "none", {s}, FALSE))

FindMember(r) ==
  /\ step[r] = "member"
  /\ IF role[job[r].user] = "none" THEN GiveUp(r)
     ELSE Go(r, "switch") /\ UNCHANGED <<todo, found, lockVars>>

SetActive(r) ==
  \E s \in Sessions \cap job[r].on :
    /\ step[r] = "switch"
    /\ sessions' = [sessions EXCEPT ![s].here = sessions[s].user = job[r].user]
    /\ Finish(r, {})
    /\ UNCHANGED <<role, invitations>>

\* A session ends by logout or by its expiry.
EndSession(s) ==
  /\ s \in Active
  /\ sessions' = [sessions EXCEPT ![s].status = "ended"]
  /\ UNCHANGED <<role, invitations, requestVars, lockVars>>

\* cleanupStale, whose retention is longer than any request.
CleanUp(s) ==
  /\ sessions[s].status = "ended" /\ \A r \in Requests : s \notin job[r].on
  /\ sessions' = [sessions EXCEPT ![s] = [status |-> "none", user |-> Nobody, here |-> FALSE]]
  /\ UNCHANGED <<role, invitations, requestVars, lockVars>>

-----------------------------------------------------------------------------
\* A statement fails or the process dies: ROLLBACK.
Abort(r) == step[r] # "idle" /\ GiveUp(r)

\* The requests that r waits for.
WaitsFor(r) == {q \in Requests \ {r} :
  \/ step[r] = "target" /\ role[job[r].user] # "none" /\ rowLock[job[r].user] = q
  \/ step[r] = "locking" /\ todo[r] # {} /\ rowLock[First(todo[r])] = q
  \/ step[r] \in {"accept", "revoke"} /\ \E i \in Invitations \cap job[r].on : invLock[i] = q
  \/ step[r] = "insert" /\ role[job[r].user] = "none" /\ q \in Inserting(job[r].user)}

Deadlocked(waiting) ==
  /\ waiting # {} /\ \A r \in waiting : WaitsFor(r) # {}
  /\ waiting = UNION {WaitsFor(r) : r \in waiting}

\* PostgreSQL finds requests that wait for each other, and ends one.
BreakDeadlock(r) ==
  (\E waiting \in SUBSET Requests : r \in waiting /\ Deadlocked(waiting)) /\ Abort(r)

Advance(r) ==
  \/ SnapshotGovernors(r) \/ Refuse(r) \/ Change(r)
  \/ Join(r) \/ OpenSession(r) \/ FindMember(r) \/ SetActive(r)
  \/ BreakDeadlock(r)

Wait(r) == LockTarget(r) \/ LockGovernor(r) \/ LockInvitation(r) \/ InsertMember(r)
           \/ Revoke(r)

Next ==
  \/ \E r \in Requests :
       \/ \E u \in Users, to \in Assignable \cup {"none"} : AskChange(r, u, to)
       \/ \E i \in Invitations : AskAccept(r, i) \/ AskRevoke(r, i)
       \/ \E u \in Users : AskLogin(r, u)
       \/ \E s \in Sessions : AskActive(r, s)
       \/ Wait(r) \/ Advance(r) \/ Abort(r)
  \/ \E i \in Invitations, u \in Users, to \in Assignable : Invite(i, u, to)
  \/ \E i \in Invitations : Expire(i)
  \/ \E s \in Sessions : EndSession(s) \/ CleanUp(s)

Spec == Init /\ [][Next]_vars

-----------------------------------------------------------------------------
(* Properties.                                                             *)

\* updateRole and remove: whatever changes run at once, and in an organization
\* without an owner too, somebody can govern it.
GovernorRemains == Governors # {}

\* Requests wait for each other only as two changes do: all hold their target, one
\* of them out of the order of the primary key, and another waits for that row.
\* Invitations, and the rows taken in order, make no circle.
DeadlockByTarget ==
  \A waiting \in SUBSET Requests : Deadlocked(waiting) =>
    /\ \A r \in waiting : step[r] = "locking"
    /\ \E r, q \in waiting :
         /\ rowLock[First(todo[r])] = q /\ First(todo[r]) = job[q].user
         /\ First(todo[q]) < job[q].user

\* An active session whose organization its user is no member of.
Stray(s) ==
  /\ s \in Active /\ sessions[s].here
  /\ sessions[s].user \notin {u \in Users : role[u] # "none"}

\* Only a login leaves a session in an organization its user was removed from, as
\* it reads the membership before it opens the session: a removal clears those
\* that are open, and a switch that overlaps a removal finds its session ended.
StraysFromLogin ==
  [][\A s \in Sessions : Stray(s)' => Stray(s) \/ sessions[s].status = "none"]_vars

\* Each request acts as one step of the book: the owner is left alone, somebody
\* governs, who is changed or removed loses his sessions at once, and an
\* invitation is spent by its user, for its role, or not at all.
BookSpec == Book!Spec

\* consumeByTokenHash: who becomes a member does so by a pending invitation of
\* his, with its role, and spends it; an invitation is accepted in no other way,
\* whatever is accepted twice, revoked or removed meanwhile.
InvitationsSpent == [][
  /\ \A u \in Users : role[u] = "none" /\ role'[u] # "none" =>
       \E i \in Invitations :
         /\ invitations[i].status = "pending" /\ invitations'[i].status = "accepted"
         /\ invitations[i].user = u /\ invitations[i].role = role'[u]
  /\ \A i \in Invitations :
       invitations[i].status # "accepted" /\ invitations'[i].status = "accepted" =>
         LET u == invitations[i].user IN
         invitations[i].status = "pending" /\ role[u] = "none" /\ role'[u] # "none"
  ]_vars

=============================================================================

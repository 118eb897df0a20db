----------------------------- MODULE UserRoles ------------------------------
(***************************************************************************)
(* The global roles (`user_roles') and the sessions that carry them: the   *)
(* requests that replace a role set, open a session, finish a two-factor   *)
(* login, log out and register, statement by statement.                    *)
(*                                                                         *)
(* PostgreSQL under READ COMMITTED: every statement sees what is committed *)
(* when it starts. SELECT ... FOR UPDATE takes the rows of its snapshot one *)
(* by one, waits for each, and leaves out a row that was deleted meanwhile; *)
(* a row inserted again in its place is not in the snapshot. Writes show   *)
(* at COMMIT, and locks are held until the transaction ends.               *)
(*                                                                         *)
(* Users are numbered in the order of their primary key.                   *)
(***************************************************************************)
EXTENDS Integers, FiniteSets

CONSTANTS
  Users,      \* users that may exist, in the order of users.sub
  Newcomers,  \* those of them that have yet to register
  Sessions,   \* rows of `sessions` that are followed
  Requests,   \* requests at work at once
  Nobody      \* no user, no request

ASSUME ConstantsAssumption ==
  /\ Users \subseteq Int /\ IsFiniteSet(Users) /\ Newcomers \subseteq Users
  /\ Nobody \notin Users /\ Nobody \notin Requests

VARIABLES
  roles,      \* [Users -> SUBSET Role]: the committed rows of `user_roles'
  account,    \* [Users -> Account]: the row of `users' and its registration
  sessions,   \* [Sessions -> Session]
  step,       \* [Requests -> Step]: the statement the request is at
  job,        \* [Requests -> Job]: what it was asked
  todo,       \* [Requests -> SUBSET Users]: administrators of its snapshot it has yet to lock
  userLock,   \* [Users -> Requests or Nobody]: who holds the row of `users'
  adminLock   \* [Users -> Requests or Nobody]: who holds the row (user, admin)

requestVars == <<step, job, todo>>
lockVars    == <<userLock, adminLock>>
vars == <<roles, account, sessions, requestVars, lockVars>>

Book == INSTANCE RoleBook

Role    == {"admin", "auditor"}
Account == {"none", "new", "adding", "full"}
Step    == {"idle", "change", "admins", "locking", "login", "read", "open"}
Session == [roles : SUBSET Role, status : {"none", "active", "ended"},
            user : Users \cup {Nobody}, pending : BOOLEAN]
Job     == [user : Users \cup {Nobody}, pending : BOOLEAN, next : SUBSET Role,
            held : SUBSET Role, from : SUBSET Sessions]

Asked(u, next, from, pending) ==
  [user |-> u, pending |-> pending, next |-> next, held |-> {}, from |-> from]
NoJob  == Asked(Nobody, {}, {}, FALSE)
Admins == Book!Admins
Active == {s \in Sessions : sessions[s].status = "active"}

Locked(r) == {u \in Users : adminLock[u] = r}     \* adminSubs, once todo is empty
First(S)  == CHOOSE u \in S : \A v \in S : u <= v

TypeOK ==
  /\ roles \in [Users -> SUBSET Role]
  /\ account \in [Users -> Account]
  /\ sessions \in [Sessions -> Session]
  /\ step \in [Requests -> Step]
  /\ job \in [Requests -> Job]
  /\ todo \in [Requests -> SUBSET Users]
  /\ userLock \in [Users -> Requests \cup {Nobody}]
  /\ adminLock \in [Users -> Requests \cup {Nobody}]

-----------------------------------------------------------------------------
(* The start: provisioning has made an administrator.                      *)

Init ==
  /\ Book!Init
  /\ account = [u \in Users |-> IF u \in Newcomers THEN "none" ELSE "full"]
  /\ \A u \in Newcomers : roles[u] = {}
  /\ step = [r \in Requests |-> "idle"]
  /\ job = [r \in Requests |-> NoJob]
  /\ todo = [r \in Requests |-> {}]
  /\ userLock = [u \in Users |-> Nobody]
  /\ adminLock = [u \in Users |-> Nobody]

\* Bug: a deleted row stays in the snapshots of the others.
BugFinishStale(r, deleted) ==
  /\ step' = [step EXCEPT ![r] = "idle"]
  /\ job' = [job EXCEPT ![r] = NoJob]
  /\ todo' = [todo EXCEPT ![r] = {}]
  /\ userLock' = [u \in Users |-> IF userLock[u] = r THEN Nobody ELSE userLock[u]]
  /\ adminLock' = [u \in Users |-> IF adminLock[u] = r THEN Nobody ELSE adminLock[u]]

\* The transaction of r ends: its locks are free, its snapshot is gone, and
\* the administrator rows it deleted leave the snapshots of the others.
Finish(r, deleted) ==
  /\ step' = [step EXCEPT ![r] = "idle"]
  /\ job' = [job EXCEPT ![r] = NoJob]
  /\ todo' = [q \in Requests |-> IF q = r THEN {} ELSE todo[q] \ deleted]
  /\ userLock' = [u \in Users |-> IF userLock[u] = r THEN Nobody ELSE userLock[u]]
  /\ adminLock' = [u \in Users |-> IF adminLock[u] = r THEN Nobody ELSE adminLock[u]]

Ask(r, first, asked) ==
  /\ step[r] = "idle" /\ account[asked.user] # "none"
  /\ step' = [step EXCEPT ![r] = first]
  /\ job' = [job EXCEPT ![r] = asked]
  /\ UNCHANGED <<roles, account, sessions, todo, lockVars>>

-----------------------------------------------------------------------------
(* PATCH /api/users/:sub/roles: setRolesAndRevokeSessions.                 *)

\* The request comes with a full session whose token says administrator.
AskRoles(r, u, next) ==
  /\ \E s \in Active : ~sessions[s].pending /\ "admin" \in sessions[s].roles
  /\ Ask(r, "change", Asked(u, next, {}, FALSE))

\* Bug: without FOR UPDATE nobody waits.
BugLockUser(r) ==
  /\ step[r] \in {"change", "login"}
  /\ userLock' = [userLock EXCEPT ![job[r].user] = r]
  /\ step' = [step EXCEPT ![r] = IF @ = "change" THEN "admins" ELSE "read"]
  /\ UNCHANGED <<roles, account, sessions, job, todo, adminLock>>

\* Lock 1, of every transaction here: the row of the user.
LockUser(r) ==
  LET u == job[r].user IN
  /\ step[r] \in {"change", "login"}
  /\ userLock[u] = Nobody
  /\ userLock' = [userLock EXCEPT ![u] = r]
  /\ step' = [step EXCEPT ![r] = IF @ = "change" THEN "admins" ELSE "read"]
  /\ UNCHANGED <<roles, account, sessions, job, todo, adminLock>>

\* Lock 2 starts: the administrators as committed now.
SnapshotAdmins(r) ==
  /\ step[r] = "admins"
  /\ todo' = [todo EXCEPT ![r] = Admins]
  /\ step' = [step EXCEPT ![r] = "locking"]
  /\ UNCHANGED <<roles, account, sessions, job, lockVars>>

\* Bug: the row of the user itself comes first.
BugLockAdmin(r) ==
  LET u == IF job[r].user \in todo[r] THEN job[r].user ELSE First(todo[r]) IN
  /\ step[r] = "locking" /\ todo[r] # {}
  /\ adminLock[u] = Nobody
  /\ adminLock' = [adminLock EXCEPT ![u] = r]
  /\ todo' = [todo EXCEPT ![r] = @ \ {u}]
  /\ UNCHANGED <<roles, account, sessions, step, job, userLock>>

\* The next row of the snapshot, in the order of the primary key.
LockAdmin(r) ==
  LET u == First(todo[r]) IN
  /\ step[r] = "locking" /\ todo[r] # {}
  /\ adminLock[u] = Nobody
  /\ adminLock' = [adminLock EXCEPT ![u] = r]
  /\ todo' = [todo EXCEPT ![r] = @ \ {u}]
  /\ UNCHANGED <<roles, account, sessions, step, job, userLock>>

Decides(r) == step[r] = "locking" /\ todo[r] = {}

LastAdmin(r) == "admin" \notin job[r].next /\ Locked(r) = {job[r].user}

\* 403 Cannot remove the last administrator role.
Refuse(r) ==
  /\ Decides(r) /\ LastAdmin(r)
  /\ Finish(r, {})
  /\ UNCHANGED <<roles, account, sessions>>

\* The set is the same: nothing is written, no session is revoked.
NoChange(r) ==
  /\ Decides(r) /\ ~LastAdmin(r)
  /\ roles[job[r].user] = job[r].next
  /\ Finish(r, {})
  /\ UNCHANGED <<roles, account, sessions>>

\* All rows of the user are deleted and the new ones inserted, and every
\* session of the user is revoked. An insert of the same row that registration
\* has not committed is waited for.
Blocked(r) ==
  LET u == job[r].user IN
  /\ Decides(r) /\ ~LastAdmin(r) /\ roles[u] # job[r].next
  /\ "auditor" \in job[r].next \ roles[u] /\ account[u] = "adding"

\* Bug: the sessions of the user are not revoked.
BugReplaceRoles(r) ==
  LET u == job[r].user IN
  /\ Decides(r) /\ ~LastAdmin(r) /\ ~Blocked(r)
  /\ roles[u] # job[r].next
  /\ roles' = [roles EXCEPT ![u] = job[r].next]
  /\ Finish(r, {u})
  /\ UNCHANGED <<account, sessions>>

ReplaceRoles(r) ==
  LET u == job[r].user IN
  /\ Decides(r) /\ ~LastAdmin(r) /\ ~Blocked(r)
  /\ roles[u] # job[r].next
  /\ roles' = [roles EXCEPT ![u] = job[r].next]
  /\ sessions' = Book!Ending(Book!SessionsOf(u))
  /\ Finish(r, {u})
  /\ UNCHANGED account

-----------------------------------------------------------------------------
(* Sessions: createSessionForUser and promotePendingSession.               *)

\* The password is right; a second factor makes the session a pending one.
AskLogin(r, u, pending) ==
  Ask(r, "login", Asked(u, {}, {}, pending))

\* The second factor is right: the pending session is to be replaced.
AskPromotion(r, s) ==
  /\ s \in Active /\ sessions[s].pending
  /\ Ask(r, "login", Asked(sessions[s].user, {}, {s}, FALSE))

\* The roles that go into the token.
ReadRoles(r) ==
  /\ step[r] = "read"
  /\ job' = [job EXCEPT ![r].held = roles[job[r].user]]
  /\ step' = [step EXCEPT ![r] = "open"]
  /\ UNCHANGED <<roles, account, sessions, todo, lockVars>>

\* The code was used before: advanceStep moves nothing.
Replay(r) ==
  /\ step[r] = "read" /\ job[r].from # {}
  /\ Finish(r, {})
  /\ UNCHANGED <<roles, account, sessions>>

\* The session row is inserted; when every followed row is taken the new one is
\* not followed. setSessionMfaPending comes in a statement of its own, before
\* anybody holds the token.
OpenSession(r) ==
  LET free   == {s \in Sessions : sessions[s].status = "none"}
      opened == Book!Opened(job[r].user, job[r].held, job[r].pending)
  IN
  /\ step[r] = "open"
  /\ \/ \E s \in free : sessions' = [Book!Ending(job[r].from) EXCEPT ![s] = opened]
     \/ free = {} /\ sessions' = Book!Ending(job[r].from)
  /\ Finish(r, {})
  /\ UNCHANGED <<roles, account>>

\* POST /logout, and the expiry of the row.
EndSession(s) ==
  /\ s \in Active
  /\ sessions' = Book!Ending({s})
  /\ UNCHANGED <<roles, account, requestVars, lockVars>>

\* POST /logout-all: one UPDATE, of the rows of the user.
EndSessions(u) ==
  /\ \E s \in Active : sessions[s].user = u
  /\ sessions' = Book!Ending(Book!SessionsOf(u))
  /\ UNCHANGED <<roles, account, requestVars, lockVars>>

\* cleanupStale, whose retention is longer than any request.
CleanUp(s) ==
  /\ \A r \in Requests : s \notin job[r].from
  /\ Book!Forget(s)
  /\ UNCHANGED <<account, requestVars, lockVars>>

-----------------------------------------------------------------------------
(* POST /register: three statements, each committed on its own.            *)

\* upsertBySub and updatePasswordHash: from now on the user can log in.
Register(u) ==
  /\ account[u] = "none"
  /\ account' = [account EXCEPT ![u] = "new"]
  /\ UNCHANGED <<roles, sessions, requestVars, lockVars>>

\* addRole inserts the row, which waits for the foreign key on the user's row.
AddRole(u) ==
  /\ account[u] = "new"
  /\ account' = [account EXCEPT ![u] = "adding"]
  /\ UNCHANGED <<roles, sessions, requestVars, lockVars>>

\* The inserted role shows.
CommitRole(u) ==
  /\ account[u] = "adding" /\ userLock[u] = Nobody
  /\ account' = [account EXCEPT ![u] = "full"]
  /\ Book!Grant(u)
  /\ UNCHANGED <<requestVars, lockVars>>

\* addRole fails: the user stays without a role.
LoseRole(u) ==
  /\ account[u] \in {"new", "adding"}
  /\ account' = [account EXCEPT ![u] = "full"]
  /\ UNCHANGED <<roles, sessions, requestVars, lockVars>>

-----------------------------------------------------------------------------
\* A statement fails or the process dies: ROLLBACK.
Abort(r) ==
  /\ step[r] # "idle"
  /\ Finish(r, {})
  /\ UNCHANGED <<roles, account, sessions>>

\* PostgreSQL finds that a role change and a registration wait for each other,
\* and ends one of them.
BreakDeadlock(r) == Blocked(r) /\ (Abort(r) \/ LoseRole(job[r].user))

Advance(r) ==
  \/ SnapshotAdmins(r) \/ Refuse(r) \/ NoChange(r) \/ ReplaceRoles(r)
  \/ ReadRoles(r) \/ Replay(r) \/ OpenSession(r) \/ BreakDeadlock(r)

Next ==
  \/ \E r \in Requests :
       \/ \E u \in Users, next \in SUBSET Role : AskRoles(r, u, next)
       \/ \E u \in Users, pending \in BOOLEAN : AskLogin(r, u, pending)
       \/ \E s \in Sessions : AskPromotion(r, s)
       \/ LockUser(r) \/ LockAdmin(r) \/ Advance(r) \/ Abort(r)
  \/ \E s \in Sessions : EndSession(s) \/ CleanUp(s)
  \/ \E u \in Users : EndSessions(u) \/ Register(u) \/ AddRole(u) \/ CommitRole(u) \/ LoseRole(u)

Spec == Init /\ [][Next]_vars

-----------------------------------------------------------------------------
(* Properties.                                                             *)

\* setRolesAndRevokeSessions, the invariant of its comment: whatever role
\* changes run at once, the platform keeps an administrator.
AdminRemains == Admins # {}

\* No token outlives the roles it carries: an active session says what
\* `user_roles' says, but for the auditor that registration adds late.
SessionRolesHeld ==
  \A s \in Active :
    sessions[s].roles \in {roles[sessions[s].user], roles[sessions[s].user] \ {"auditor"}}

\* The request whose lock r waits for, if any.
Blocker(r) ==
  IF step[r] \in {"change", "login"} THEN userLock[job[r].user]
  ELSE IF step[r] = "locking" /\ todo[r] # {} THEN adminLock[First(todo[r])]
  ELSE Nobody

\* The locks are taken in the order of the primary key: no set of role changes
\* and logins waits for itself.
NoDeadlock ==
  \A waiting \in (SUBSET Requests) \ {{}} : \E r \in waiting : Blocker(r) \notin waiting

\* Statement by statement and interleaved, the operations are those of the role
\* book, each in one step: the transactions are serialisable.
BookSpec == Book!Spec

=============================================================================

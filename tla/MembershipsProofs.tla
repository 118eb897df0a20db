------------------------- MODULE MembershipsProofs --------------------------
(***************************************************************************)
(* Theorems of Memberships, for every set of users, sessions, invitations  *)
(* and requests.                                                           *)
(*                                                                         *)
(* The argument: a governor that a request counts is one it has locked,    *)
(* nobody changes a row without its lock, and an invitation that is being  *)
(* consumed is locked from the check of its state to the COMMIT.           *)
(***************************************************************************)
EXTENDS Memberships, FiniteSetTheorems, TLAPS

-----------------------------------------------------------------------------
(* The inductive invariant.                                                *)

\* A change, and a login, is about a user; past its first lock a change holds the
\* row of that user, a member who is neither the owner nor what he is to be.
TargetLocked ==
  \A r \in Requests : step[r] \in {"target", "governors", "locking", "open"} =>
    /\ job[r].user \in Users
    /\ step[r] \in {"governors", "locking"} =>
         /\ role[job[r].user] \notin {"none", "owner", job[r].to}
         /\ rowLock[job[r].user] = r

\* The governors a request counts are governors still, because it holds them.
FoundLocked == \A r \in Requests : \A u \in found[r] : u \in Governors /\ rowLock[u] = r

\* An invitation is for a user, it is the user who accepts it, and it was there
\* when it was to be revoked.
OnInvitation ==
  /\ \A i \in Invitations : invitations[i].status # "none" => invitations[i].user \in Users
  /\ \A r \in Requests : step[r] \in {"accept", "insert", "joined"} =>
       /\ job[r].user \in Users
       /\ \E i \in Invitations :
            /\ job[r].on = {i}
            /\ invitations[i].status # "none" /\ invitations[i].user = job[r].user
  /\ \A r \in Requests : step[r] = "revoke" =>
       \A i \in Invitations \cap job[r].on : invitations[i].status # "none"

\* An invitation that was found pending is locked, and so pending still.
InvitationLocked ==
  \A r \in Requests : step[r] \in {"insert", "joined"} =>
    \A i \in Invitations \cap job[r].on :
      invLock[i] = r /\ invitations[i].status = "pending"

\* A user who is being inserted is no member, and is inserted once.
JoinersNew ==
  \A r \in Requests : step[r] = "joined" =>
    /\ role[job[r].user] = "none"
    /\ \A q \in Requests : step[q] = "joined" /\ job[q].user = job[r].user => q = r

IInv ==
  /\ TypeOK /\ TargetLocked /\ FoundLocked
  /\ OnInvitation /\ InvitationLocked /\ JoinersNew
  /\ GovernorRemains

-----------------------------------------------------------------------------
(* The order of the primary key.                                           *)

\* A finite set of integers has a least and a greatest element: no smallest subset
\* is without.
LEMMA FiniteHasEnds ==
  ASSUME NEW S \in SUBSET Int, IsFiniteSet(S), S # {}
  PROVE  \E u, w \in S : \A v \in S : u <= v /\ v <= w
<1> DEFINE Ends(X) == \E u, w \in X : \A v \in X : u <= v /\ v <= w
           Without == {X \in SUBSET S : X # {} /\ ~Ends(X)}
           R == StrictSubsetOrdering(S)
<1> SUFFICES ASSUME Without # {} PROVE FALSE
  <2>1. S \in SUBSET S
    OBVIOUS
  <2>2. Ends(S)
    BY <2>1
  <2> QED
    BY <2>2
<1>1. IsWellFoundedOn(R, SUBSET S)
  BY FS_StrictSubsetOrderingWellFounded, FS_FiniteSubsetsOfFinite
<1>2. Without \subseteq SUBSET S
  OBVIOUS
<1> HIDE DEF R
<1>3. \E X \in Without : \A Y \in Without : <<Y, X>> \notin R
  <2> HIDE DEF Without
  <2> QED
    BY <1>1, <1>2, WFMin
<1>4. PICK X \in Without : \A Y \in Without : <<Y, X>> \notin R
  BY <1>3
<1>5. PICK x \in X : TRUE
  OBVIOUS
<1> DEFINE Y == X \ {x}
<1>6. <<Y, X>> \in R
  BY <1>5 DEF R, StrictSubsetOrdering
<1>7. CASE Y = {}
  <2>1. \A v \in X : x <= v /\ v <= x
    BY <1>5, <1>7
  <2> QED
    BY <1>5, <2>1
<1>8. CASE Y # {}
  <2>1. Ends(Y)
    BY <1>4, <1>6, <1>8
  <2>2. PICK u, w \in Y : \A v \in Y : u <= v /\ v <= w
    BY <2>1
  <2> DEFINE least == IF x < u THEN x ELSE u
             greatest == IF x > w THEN x ELSE w
  <2>3. least \in X /\ greatest \in X /\ \A v \in X : least <= v /\ v <= greatest
    <3>1. X \subseteq Int /\ \A v \in X : v = x \/ v \in Y
      OBVIOUS
    <3>2. x \in Int /\ u \in Int /\ w \in Int /\ u \in X /\ w \in X /\ u <= w
      BY <1>5, <2>2, <3>1
    <3> HIDE DEF Y, Without
    <3> QED
      BY <1>5, <2>2, <3>1, <3>2
  <2> QED
    BY <2>3
<1> QED
  BY <1>7, <1>8
\* First picks the least of a set of users.
LEMMA FirstIsLeast ==
  ASSUME NEW S \in SUBSET Users, S # {}
  PROVE  First(S) \in S /\ \A v \in S : First(S) <= v
<1>1. S \in SUBSET Int /\ IsFiniteSet(S)
  BY ConstantsAssumption, FS_Subset
<1> QED
  BY <1>1, FiniteHasEnds DEF First

-----------------------------------------------------------------------------
(* What the end of a transaction leaves.                                   *)

LEMMA FinishKeeps ==
  ASSUME TypeOK, NEW r \in Requests, NEW gone, Finish(r, gone)
  PROVE  /\ step' \in [Requests -> Step] /\ job' \in [Requests -> Job]
         /\ todo' \in [Requests -> SUBSET Users]
         /\ found' \in [Requests -> SUBSET Users]
         /\ rowLock' \in [Users -> Requests \cup {Nobody}]
         /\ invLock' \in [Invitations -> Requests \cup {Nobody}]
         /\ step'[r] = "idle" /\ found'[r] = {}
         /\ \A q \in Requests \ {r} :
              /\ step'[q] = step[q] /\ job'[q] = job[q] /\ found'[q] = found[q]
              /\ \A u \in Users : rowLock[u] = q => rowLock'[u] = q
              /\ \A i \in Invitations : invLock[i] = q => invLock'[i] = q
<1>1. NoJob \in Job
  BY DEF NoJob, Asked, Job
<1>2. /\ step' \in [Requests -> Step] /\ job' \in [Requests -> Job]
      /\ todo' \in [Requests -> SUBSET Users]
      /\ found' \in [Requests -> SUBSET Users]
      /\ rowLock' \in [Users -> Requests \cup {Nobody}]
      /\ invLock' \in [Invitations -> Requests \cup {Nobody}]
  BY <1>1 DEF TypeOK, Finish, Step
<1>3. step'[r] = "idle" /\ found'[r] = {}
  BY DEF TypeOK, Finish
<1>4. \A q \in Requests \ {r} :
        /\ step'[q] = step[q] /\ job'[q] = job[q] /\ found'[q] = found[q]
        /\ \A u \in Users : rowLock[u] = q => rowLock'[u] = q
        /\ \A i \in Invitations : invLock[i] = q => invLock'[i] = q
  BY DEF TypeOK, Finish
<1> QED
  BY <1>2, <1>3, <1>4

\* The others go on with their invitations when a transaction ends, if it has
\* changed none that they have locked.
LEMMA FinishInvitations ==
  ASSUME IInv, NEW r \in Requests, NEW gone, Finish(r, gone),
         \A i \in Invitations :
           /\ invitations'[i].status = "none" <=> invitations[i].status = "none"
           /\ invitations'[i].user = invitations[i].user,
         \A i \in Invitations : invLock[i] \in Requests \ {r} =>
           invitations'[i].status = invitations[i].status
  PROVE  OnInvitation' /\ InvitationLocked'
<1>1. \A q \in Requests \ {r} :
        /\ step'[q] = step[q] /\ job'[q] = job[q]
        /\ \A i \in Invitations : invLock[i] = q => invLock'[i] = q
  BY FinishKeeps DEF IInv
<1>2. step'[r] = "idle"
  BY FinishKeeps DEF IInv
<1>3. OnInvitation'
  <2> SUFFICES ASSUME NEW q \in Requests, step'[q] \in {"accept", "insert", "joined"}
               PROVE  /\ job'[q].user \in Users
                      /\ \E i \in Invitations :
                           /\ job'[q].on = {i}
                           /\ invitations'[i].status # "none"
                           /\ invitations'[i].user = job'[q].user
    <3>1. \A i \in Invitations :
            invitations'[i].status # "none" => invitations'[i].user \in Users
      BY DEF IInv, OnInvitation
    <3>2. \A q \in Requests : step'[q] = "revoke" =>
            \A i \in Invitations \cap job'[q].on : invitations'[i].status # "none"
      BY <1>1, <1>2 DEF IInv, OnInvitation
    <3> QED
      BY <3>1, <3>2 DEF OnInvitation
  <2>1. q # r /\ step[q] \in {"accept", "insert", "joined"} /\ job'[q] = job[q]
    BY <1>1, <1>2
  <2> QED
    BY <2>1 DEF IInv, OnInvitation
<1>4. InvitationLocked'
  <2> SUFFICES ASSUME NEW q \in Requests, step'[q] \in {"insert", "joined"},
                      NEW i \in Invitations \cap job'[q].on
               PROVE  invLock'[i] = q /\ invitations'[i].status = "pending"
    BY DEF InvitationLocked
  <2>1. q # r /\ step[q] \in {"insert", "joined"} /\ i \in job[q].on
    BY <1>1, <1>2
  <2>2. invLock[i] = q /\ invitations[i].status = "pending"
    BY <2>1 DEF IInv, InvitationLocked
  <2> QED
    BY <1>1, <2>1, <2>2
<1> QED
  BY <1>3, <1>4

\* A transaction that ends without having written keeps the invariant.
LEMMA GiveUpKeeps ==
  ASSUME IInv, NEW r \in Requests, GiveUp(r)
  PROVE  IInv'
<1>1. Finish(r, {}) /\ UNCHANGED <<role, invitations, sessions>> /\ TypeOK
  BY DEF GiveUp, IInv
<1>2. \A q \in Requests \ {r} :
        /\ step'[q] = step[q] /\ job'[q] = job[q] /\ found'[q] = found[q]
        /\ \A u \in Users : rowLock[u] = q => rowLock'[u] = q
        /\ \A i \in Invitations : invLock[i] = q => invLock'[i] = q
  BY <1>1, FinishKeeps
<1>3. step'[r] = "idle" /\ found'[r] = {}
  BY <1>1, FinishKeeps
<1>4. TypeOK'
  BY <1>1, FinishKeeps DEF TypeOK
<1>5. TargetLocked'
  BY <1>1, <1>2, <1>3 DEF IInv, TargetLocked
<1>6. FoundLocked'
  BY <1>1, <1>2, <1>3 DEF IInv, FoundLocked, Governors
<1>7. OnInvitation' /\ InvitationLocked'
  BY <1>1, FinishInvitations
<1>9. JoinersNew'
  BY <1>1, <1>2, <1>3 DEF IInv, JoinersNew
<1>10. GovernorRemains'
  BY <1>1 DEF IInv, GovernorRemains, Governors
<1> QED
  BY <1>4, <1>5, <1>6, <1>7, <1>9, <1>10 DEF IInv

\* A step to another statement that writes nothing and leaves the locks of the
\* others: what is to be shown is what the new statement relies on.
LEMMA StatementKeeps ==
  ASSUME IInv, NEW r \in Requests, NEW next \in Step, Go(r, next),
         TypeOK',
         \A u \in Users : rowLock[u] # Nobody => rowLock'[u] = rowLock[u],
         \A i \in Invitations : invLock[i] # Nobody => invLock'[i] = invLock[i],
         found' = found,
         next \in {"governors", "locking"} =>
           /\ job[r].user \in Users /\ role[job[r].user] \notin {"none", "owner", job[r].to}
           /\ rowLock'[job[r].user] = r,
         next \in {"accept", "insert", "joined"} => step[r] \in {"accept", "insert"},
         next \in {"insert", "joined"} =>
           \A i \in Invitations \cap job[r].on :
             invLock'[i] = r /\ invitations[i].status = "pending",
         next \notin {"target", "revoke", "open"},
         next = "joined" => role[job[r].user] = "none" /\ Inserting(job[r].user) = {}
  PROVE  IInv'
<1> USE ConstantsAssumption
<1>1. /\ step' = [step EXCEPT ![r] = next]
      /\ UNCHANGED <<role, invitations, sessions, job>>
  BY DEF Go
<1>2. step'[r] = next /\ \A q \in Requests \ {r} : step'[q] = step[q]
  BY <1>1 DEF IInv, TypeOK
<1>3. TargetLocked'
  <2> SUFFICES ASSUME NEW q \in Requests,
                      step'[q] \in {"target", "governors", "locking", "open"}
               PROVE  /\ job[q].user \in Users
                      /\ step'[q] \in {"governors", "locking"} =>
                           /\ role[job[q].user] \notin {"none", "owner", job[q].to}
                           /\ rowLock'[job[q].user] = q
    BY <1>1 DEF TargetLocked
  <2>1. CASE q = r
    BY <1>2, <2>1
  <2>2. CASE q # r
    <3>1. step'[q] = step[q]
      BY <1>2, <2>2
    <3> QED
      BY <3>1 DEF IInv, TargetLocked
  <2> QED
    BY <2>1, <2>2
<1>4. FoundLocked'
  <2> SUFFICES ASSUME NEW q \in Requests, NEW u \in found[q]
               PROVE  u \in Governors' /\ rowLock'[u] = q
    BY DEF FoundLocked
  <2>1. u \in Governors /\ rowLock[u] = q
    BY DEF IInv, FoundLocked
  <2> QED
    BY <1>1, <2>1 DEF Governors
<1>5. OnInvitation'
  BY <1>1, <1>2 DEF IInv, OnInvitation
<1>6. InvitationLocked'
  BY <1>1, <1>2 DEF IInv, InvitationLocked
<1>7. JoinersNew'
  <2> SUFFICES ASSUME NEW p \in Requests, step'[p] = "joined"
               PROVE  /\ role[job[p].user] = "none"
                      /\ \A q \in Requests : step'[q] = "joined" /\ job[q].user = job[p].user
                                               => q = p
    BY <1>1 DEF JoinersNew
  <2>1. CASE p = r
    BY <1>1, <1>2, <2>1 DEF Inserting
  <2>2. CASE p # r
    BY <1>1, <1>2, <2>2 DEF IInv, JoinersNew, Inserting
  <2> QED
    BY <2>1, <2>2
<1>8. GovernorRemains'
  BY <1>1 DEF IInv, GovernorRemains, Governors
<1> QED
  BY <1>3, <1>4, <1>5, <1>6, <1>7, <1>8 DEF IInv

-----------------------------------------------------------------------------
(* The requests.                                                           *)

LEMMA InitInvariant == Init => IInv
<1> SUFFICES ASSUME Init PROVE IInv
  OBVIOUS
<1>1. TypeOK
  BY DEF Init, TypeOK, Step, Job, NoJob, Asked, Invitation, Session, Assignable
<1>2. TargetLocked /\ FoundLocked /\ OnInvitation /\ InvitationLocked /\ JoinersNew
  BY DEF Init, TargetLocked, FoundLocked, OnInvitation, InvitationLocked, JoinersNew
<1> QED
  BY <1>1, <1>2 DEF Init, IInv, GovernorRemains

\* A request that is asked touches nothing yet.
LEMMA AskKeeps ==
  ASSUME IInv, NEW r \in Requests, NEW first \in {"target", "accept", "revoke", "open", "member"},
         NEW asked \in Job, Ask(r, first, asked),
         first \in {"target", "open"} => asked.user \in Users,
         first = "revoke" =>
           \A i \in Invitations \cap asked.on : invitations[i].status # "none",
         first = "accept" =>
           /\ asked.user \in Users
           /\ \E i \in Invitations :
                /\ asked.on = {i}
                /\ invitations[i].status # "none" /\ invitations[i].user = asked.user
  PROVE  IInv'
<1>1. /\ step' = [step EXCEPT ![r] = first] /\ job' = [job EXCEPT ![r] = asked]
      /\ UNCHANGED <<role, invitations, sessions, todo, found, lockVars>>
  BY DEF Ask
<1>2. TypeOK'
  BY <1>1 DEF IInv, TypeOK, Step, lockVars
<1>3. /\ step'[r] = first /\ job'[r] = asked
      /\ \A q \in Requests \ {r} : step'[q] = step[q] /\ job'[q] = job[q]
  BY <1>1 DEF IInv, TypeOK
<1>4. TargetLocked' /\ InvitationLocked' /\ JoinersNew'
  BY <1>1, <1>3 DEF IInv, TargetLocked, InvitationLocked, JoinersNew, lockVars
<1>5. FoundLocked' /\ GovernorRemains'
  BY <1>1 DEF IInv, FoundLocked, GovernorRemains, Governors, lockVars
<1>6. OnInvitation'
  BY <1>1, <1>3 DEF IInv, OnInvitation
<1> QED
  BY <1>2, <1>4, <1>5, <1>6 DEF IInv

LEMMA LockTargetKeeps ==
  ASSUME IInv, NEW r \in Requests, LockTarget(r)
  PROVE  IInv'
<1> DEFINE u == job[r].user
<1>1. CASE role[u] \in {"none", "owner", job[r].to}
  BY <1>1, GiveUpKeeps DEF LockTarget
<1>2. CASE role[u] \notin {"none", "owner", job[r].to}
  <2>1. /\ rowLock[u] = Nobody /\ rowLock' = [rowLock EXCEPT ![u] = r]
        /\ Go(r, "governors") /\ UNCHANGED <<todo, found, invLock>>
    BY <1>2 DEF LockTarget
  <2>2. u \in Users
    BY DEF LockTarget, IInv, TargetLocked
  <2>3. TypeOK'
    BY <2>1 DEF IInv, TypeOK, Go, Step
  <2> QED
    BY <2>1, <2>2, <2>3, <1>2, StatementKeeps DEF IInv, TypeOK, Step
<1> QED
  BY <1>1, <1>2

LEMMA LockGovernorKeeps ==
  ASSUME IInv, NEW r \in Requests, LockGovernor(r)
  PROVE  IInv'
<1> DEFINE u == First(todo[r])
<1>1. /\ step[r] = "locking" /\ rowLock[u] \in {Nobody, r}
      /\ rowLock' = [rowLock EXCEPT ![u] = r]
      /\ todo' = [todo EXCEPT ![r] = @ \ {u}]
      /\ found' = [found EXCEPT ![r] = @ \cup ({u} \cap Governors)]
      /\ UNCHANGED <<role, invitations, sessions, step, job, invLock>>
  BY DEF LockGovernor
<1>2. TypeOK'
  <2>1. Governors \subseteq Users
    BY DEF Governors
  <2> QED
    BY <1>1, <2>1 DEF IInv, TypeOK
<1>3. \A v \in Users, q \in Requests : rowLock[v] = q => rowLock'[v] = q
  BY <1>1, ConstantsAssumption DEF IInv, TypeOK
<1>4. TargetLocked'
  BY <1>1, <1>3 DEF IInv, TargetLocked
<1>5. FoundLocked'
  <2> SUFFICES ASSUME NEW q \in Requests, NEW v \in found'[q]
               PROVE  v \in Governors /\ rowLock'[v] = q
    BY <1>1 DEF FoundLocked, Governors
  <2>1. Governors \subseteq Users
    BY DEF Governors
  <2>2. CASE v \in found[q]
    BY <1>3, <2>1, <2>2 DEF IInv, FoundLocked
  <2>3. CASE v \notin found[q]
    <3>1. q = r /\ v = u /\ v \in Governors
      BY <1>1, <2>3 DEF IInv, TypeOK
    <3> QED
      BY <1>1, <2>1, <3>1 DEF IInv, TypeOK
  <2> QED
    BY <2>2, <2>3
<1>6. OnInvitation' /\ InvitationLocked' /\ JoinersNew' /\ GovernorRemains'
  BY <1>1 DEF IInv, OnInvitation, InvitationLocked, JoinersNew, GovernorRemains, Governors
<1> QED
  BY <1>2, <1>4, <1>5, <1>6 DEF IInv

\* Who changes a row holds it: what the others counted stays, and of the
\* governors one other than the target is left.
LEMMA ChangeKeeps ==
  ASSUME IInv, NEW r \in Requests, Change(r)
  PROVE  IInv'
<1> DEFINE u == job[r].user
           gone == IF job[r].to = "none" THEN {u} ELSE {}
<1>1. /\ step[r] = "locking" /\ ~LastGovernor(r)
      /\ role' = [role EXCEPT ![u] = job[r].to]
      /\ sessions' = [s \in Sessions |->
           IF sessions[s].user # u THEN sessions[s]
           ELSE [sessions[s] EXCEPT !.here = FALSE, !.status = "ended"]]
      /\ Finish(r, gone) /\ UNCHANGED invitations
  BY DEF Change
<1>2. u \in Users /\ role[u] # "none" /\ rowLock[u] = r
  BY <1>1 DEF IInv, TargetLocked
<1>3. \A q \in Requests \ {r} :
        /\ step'[q] = step[q] /\ job'[q] = job[q] /\ found'[q] = found[q]
        /\ \A v \in Users : rowLock[v] = q => rowLock'[v] = q
        /\ \A i \in Invitations : invLock[i] = q => invLock'[i] = q
  BY <1>1, FinishKeeps DEF IInv
<1>4. step'[r] = "idle" /\ found'[r] = {}
  BY <1>1, FinishKeeps DEF IInv
<1>5. \A v \in Users \ {u} : role'[v] = role[v]
  BY <1>1 DEF IInv, TypeOK
<1>6. TypeOK'
  <2>1. role' \in [Users -> OrgRole \cup {"none"}]
    BY <1>1 DEF IInv, TypeOK, Job, OrgRole
  <2>2. sessions' \in [Sessions -> Session]
    <3> SUFFICES ASSUME NEW s \in Sessions
                 PROVE  [sessions[s] EXCEPT !.here = FALSE, !.status = "ended"] \in Session
      BY <1>1 DEF IInv, TypeOK
    <3> QED
      BY DEF IInv, TypeOK, Session
  <2> QED
    BY <1>1, <2>1, <2>2, FinishKeeps DEF IInv, TypeOK
<1>7. TargetLocked'
  BY <1>2, <1>3, <1>4, <1>5 DEF IInv, TargetLocked
<1>8. FoundLocked'
  <2> SUFFICES ASSUME NEW q \in Requests, NEW v \in found'[q]
               PROVE  v \in Governors' /\ rowLock'[v] = q
    BY DEF FoundLocked
  <2>1. q # r /\ v \in found[q]
    BY <1>3, <1>4
  <2>2. v \in Users /\ role[v] \in AdminCapable /\ rowLock[v] = q
    BY <2>1 DEF IInv, FoundLocked, Governors
  <2>3. v # u /\ rowLock'[v] = q
    BY <1>2, <1>3, <2>1, <2>2
  <2> QED
    BY <1>5, <2>2, <2>3 DEF Governors
<1>9. OnInvitation' /\ InvitationLocked'
  BY <1>1, FinishInvitations
<1>10. JoinersNew'
  <2> SUFFICES ASSUME NEW p \in Requests, step'[p] = "joined"
               PROVE  /\ role'[job'[p].user] = "none"
                      /\ \A q \in Requests :
                           step'[q] = "joined" /\ job'[q].user = job'[p].user => q = p
    BY DEF JoinersNew
  <2>1. /\ p # r /\ step[p] = "joined" /\ job'[p] = job[p]
        /\ job[p].user \in Users /\ role[job[p].user] = "none"
    BY <1>3, <1>4 DEF IInv, JoinersNew, OnInvitation
  <2>2. role'[job'[p].user] = "none"
    BY <1>2, <1>5, <2>1
  <2> QED
    BY <1>3, <1>4, <2>1, <2>2 DEF IInv, JoinersNew
<1>11. GovernorRemains'
  <2>1. CASE role[u] \notin AdminCapable
    BY <1>5, <2>1 DEF IInv, GovernorRemains, Governors
  <2>2. CASE role[u] \in AdminCapable
    <3>1. PICK v \in found[r] : v # u
      BY <1>1, <2>2 DEF LastGovernor
    <3>2. v \in Users /\ role[v] \in AdminCapable
      BY <3>1 DEF IInv, FoundLocked, Governors
    <3> QED
      BY <1>5, <3>1, <3>2 DEF GovernorRemains, Governors
  <2> QED
    BY <2>1, <2>2
<1> QED
  BY <1>6, <1>7, <1>8, <1>9, <1>10, <1>11 DEF IInv

-----------------------------------------------------------------------------
(* The invitations.                                                        *)

\* A step that only changes an invitation, to a pending one, keeps the invariant.
LEMMA InvitationStepKeeps ==
  ASSUME IInv, NEW i \in Invitations, NEW changed \in Invitation,
         invitations' = [invitations EXCEPT ![i] = changed],
         changed.status = "pending",
         changed.user \in Users,
         invitations[i].status = "none" \/ changed.user = invitations[i].user,
         UNCHANGED <<role, sessions, requestVars, lockVars>>
  PROVE  IInv'
<1>1. UNCHANGED <<role, sessions, step, job, todo, found, rowLock, invLock>>
  BY DEF requestVars, lockVars
<1>2. TypeOK'
  BY <1>1 DEF IInv, TypeOK
<1>3. invitations'[i] = changed /\ \A j \in Invitations \ {i} : invitations'[j] = invitations[j]
  BY DEF IInv, TypeOK
<1>4. OnInvitation'
  BY <1>1, <1>3 DEF IInv, OnInvitation
<1>5. InvitationLocked'
  BY <1>1, <1>3 DEF IInv, InvitationLocked
<1>6. TargetLocked' /\ FoundLocked' /\ JoinersNew' /\ GovernorRemains'
  BY <1>1 DEF IInv, TargetLocked, FoundLocked, JoinersNew, GovernorRemains, Governors
<1> QED
  BY <1>2, <1>4, <1>5, <1>6 DEF IInv

LEMMA InviteKeeps ==
  ASSUME IInv, NEW i \in Invitations, NEW u \in Users, NEW to \in Assignable, Invite(i, u, to)
  PROVE  IInv'
<1> DEFINE changed == [status |-> "pending", user |-> u, role |-> to, expired |-> FALSE]
<1>1. changed \in Invitation /\ changed.status = "pending"
  BY DEF Invitation
<1> QED
  BY <1>1, InvitationStepKeeps DEF Invite

LEMMA ExpireKeeps ==
  ASSUME IInv, NEW i \in Invitations, Expire(i)
  PROVE  IInv'
<1> DEFINE changed == [invitations[i] EXCEPT !.expired = TRUE]
<1>1. /\ changed \in Invitation /\ changed.status = "pending"
      /\ changed.user = invitations[i].user /\ changed.user \in Users
  BY DEF Expire, IInv, TypeOK, Invitation, OnInvitation
<1>2. invitations' = [invitations EXCEPT ![i] = changed]
  BY DEF Expire, IInv, TypeOK, Invitation
<1> QED
  BY <1>1, <1>2, InvitationStepKeeps DEF Expire

LEMMA RevokeKeeps ==
  ASSUME IInv, NEW r \in Requests, Revoke(r)
  PROVE  IInv'
<1>1. PICK i \in Invitations \cap job[r].on :
        /\ step[r] = "revoke" /\ invLock[i] = Nobody
        /\ invitations' = [invitations EXCEPT ![i].status = "revoked"]
        /\ Finish(r, {}) /\ UNCHANGED <<role, sessions>>
  BY DEF Revoke
<1> DEFINE changed == [invitations[i] EXCEPT !.status = "revoked"]
<1>2. /\ changed \in Invitation /\ changed.status = "revoked"
      /\ changed.user = invitations[i].user
  BY DEF IInv, TypeOK, Invitation
<1>3. invitations' = [invitations EXCEPT ![i] = changed]
  BY <1>1 DEF IInv, TypeOK, Invitation
<1>4. \A q \in Requests \ {r} :
        /\ step'[q] = step[q] /\ job'[q] = job[q] /\ found'[q] = found[q]
        /\ \A v \in Users : rowLock[v] = q => rowLock'[v] = q
        /\ \A j \in Invitations : invLock[j] = q => invLock'[j] = q
  BY <1>1, FinishKeeps DEF IInv
<1>5. step'[r] = "idle" /\ found'[r] = {}
  BY <1>1, FinishKeeps DEF IInv
<1>6. TypeOK'
  BY <1>1, <1>2, <1>3, FinishKeeps DEF IInv, TypeOK
<1>7. invitations'[i] = changed /\ \A j \in Invitations \ {i} : invitations'[j] = invitations[j]
  BY <1>3 DEF IInv, TypeOK
<1>8. OnInvitation' /\ InvitationLocked'
  <2>1. invitations[i].status # "none"
    BY <1>1 DEF IInv, OnInvitation
  <2> QED
    BY <1>1, <1>2, <1>7, <2>1, ConstantsAssumption, FinishInvitations
<1>9. TargetLocked'
  BY <1>1, <1>4, <1>5 DEF IInv, TargetLocked
<1>10. FoundLocked'
  BY <1>1, <1>4, <1>5 DEF IInv, FoundLocked, Governors
<1>11. JoinersNew' /\ GovernorRemains'
  <2>1. JoinersNew'
    BY <1>1, <1>4, <1>5 DEF IInv, JoinersNew
  <2>2. GovernorRemains'
    BY <1>1 DEF IInv, GovernorRemains, Governors
  <2> QED
    BY <2>1, <2>2
<1> QED
  BY <1>6, <1>8, <1>9, <1>10, <1>11 DEF IInv

LEMMA AskAcceptKeeps ==
  ASSUME IInv, NEW r \in Requests, NEW i \in Invitations, AskAccept(r, i)
  PROVE  IInv'
<1> DEFINE asked == Asked(invitations[i].user, "none", {i}, invitations[i].expired)
<1>1. asked \in Job /\ asked.on = {i} /\ asked.user = invitations[i].user
  BY DEF Asked, Job, IInv, TypeOK, Invitation
<1>2. invitations[i].status # "none" /\ invitations[i].user \in Users
  BY DEF AskAccept, IInv, OnInvitation
<1> QED
  BY <1>1, <1>2, AskKeeps DEF AskAccept

LEMMA LockInvitationKeeps ==
  ASSUME IInv, NEW r \in Requests, LockInvitation(r)
  PROVE  IInv'
<1>1. PICK i \in Invitations \cap job[r].on :
        /\ step[r] = "accept" /\ invLock[i] = Nobody
        /\ IF invitations[i].status = "pending" /\ ~job[r].here
           THEN /\ invLock' = [invLock EXCEPT ![i] = r]
                /\ Go(r, "insert") /\ UNCHANGED <<todo, found, rowLock>>
           ELSE GiveUp(r)
  BY DEF LockInvitation
<1>2. CASE GiveUp(r)
  BY <1>2, GiveUpKeeps
<1>3. CASE ~GiveUp(r)
  <2>1. /\ invLock' = [invLock EXCEPT ![i] = r] /\ invitations[i].status = "pending"
        /\ Go(r, "insert") /\ UNCHANGED <<todo, found, rowLock>>
    BY <1>1, <1>3
  <2>2. job[r].on = {i}
    BY <1>1 DEF IInv, OnInvitation
  <2>3. TypeOK'
    BY <2>1 DEF IInv, TypeOK, Go, Step
  <2>4. /\ invLock'[i] = r
        /\ \A j \in Invitations : invLock[j] # Nobody => invLock'[j] = invLock[j]
    BY <1>1, <2>1 DEF IInv, TypeOK
  <2> QED
    BY <1>1, <2>1, <2>2, <2>3, <2>4, StatementKeeps DEF Step
<1> QED
  BY <1>2, <1>3

LEMMA InsertMemberKeeps ==
  ASSUME IInv, NEW r \in Requests, InsertMember(r)
  PROVE  IInv'
<1>1. CASE role[job[r].user] # "none"
  BY <1>1, GiveUpKeeps DEF InsertMember
<1>2. CASE role[job[r].user] = "none"
  <2>1. /\ step[r] = "insert" /\ Inserting(job[r].user) = {}
        /\ Go(r, "joined") /\ UNCHANGED <<todo, found, rowLock, invLock>>
    BY <1>2 DEF InsertMember, lockVars
  <2>2. TypeOK'
    BY <2>1 DEF IInv, TypeOK, Go, Step
  <2>3. \A i \in Invitations \cap job[r].on :
          invLock[i] = r /\ invitations[i].status = "pending"
    BY <2>1 DEF IInv, InvitationLocked
  <2> QED
    BY <1>2, <2>1, <2>2, <2>3, StatementKeeps DEF Step
<1> QED
  BY <1>1, <1>2

\* What Join writes: a user who was no member gets the role of his invitation.
LEMMA JoinWrites ==
  ASSUME IInv, NEW r \in Requests, Join(r)
  PROVE  \E i \in Invitations :
           /\ step[r] = "joined" /\ job[r].on = {i} /\ job[r].user = invitations[i].user
           /\ invitations[i].user \in Users /\ invLock[i] = r
           /\ invitations[i].status = "pending" /\ role[invitations[i].user] = "none"
           /\ role' = [role EXCEPT ![invitations[i].user] = invitations[i].role]
           /\ invitations' = [invitations EXCEPT
                ![i] = [invitations[i] EXCEPT !.status = "accepted"]]
           /\ Finish(r, {}) /\ UNCHANGED sessions
<1>1. PICK i \in Invitations \cap job[r].on :
        /\ step[r] = "joined"
        /\ role' = [role EXCEPT ![job[r].user] = invitations[i].role]
        /\ invitations' = [invitations EXCEPT ![i].status = "accepted"]
        /\ Finish(r, {}) /\ UNCHANGED sessions
  BY DEF Join
<1>2. /\ job[r].on = {i} /\ job[r].user = invitations[i].user /\ job[r].user \in Users
  BY <1>1 DEF IInv, OnInvitation
<1>3. invLock[i] = r /\ invitations[i].status = "pending"
  BY <1>1 DEF IInv, InvitationLocked
<1>4. role[job[r].user] = "none"
  BY <1>1 DEF IInv, JoinersNew
<1> QED
  BY <1>1, <1>2, <1>3, <1>4

LEMMA JoinKeeps ==
  ASSUME IInv, NEW r \in Requests, Join(r)
  PROVE  IInv'
<1>1. PICK i \in Invitations :
        /\ step[r] = "joined" /\ job[r].on = {i} /\ job[r].user = invitations[i].user
        /\ invitations[i].user \in Users /\ invLock[i] = r
        /\ invitations[i].status = "pending" /\ role[invitations[i].user] = "none"
        /\ role' = [role EXCEPT ![invitations[i].user] = invitations[i].role]
        /\ invitations' = [invitations EXCEPT
             ![i] = [invitations[i] EXCEPT !.status = "accepted"]]
        /\ Finish(r, {}) /\ UNCHANGED sessions
  BY JoinWrites
<1> DEFINE u == invitations[i].user
           changed == [invitations[i] EXCEPT !.status = "accepted"]
<1>2. /\ changed \in Invitation /\ changed.status = "accepted" /\ changed.user = u
      /\ invitations[i].role \in Assignable
  BY DEF IInv, TypeOK, Invitation
<1>3. /\ \A q \in Requests \ {r} :
           /\ step'[q] = step[q] /\ job'[q] = job[q] /\ found'[q] = found[q]
           /\ \A v \in Users : rowLock[v] = q => rowLock'[v] = q
      /\ step'[r] = "idle" /\ found'[r] = {}
  BY <1>1, FinishKeeps DEF IInv
<1>4. /\ invitations'[i] = changed
      /\ \A j \in Invitations \ {i} : invitations'[j] = invitations[j]
  BY <1>1 DEF IInv, TypeOK
<1>5. /\ role'[u] = invitations[i].role /\ role'[u] # "none"
      /\ \A v \in Users \ {u} : role'[v] = role[v]
  BY <1>1, <1>2 DEF IInv, TypeOK, Assignable
<1>6. TypeOK'
  <2>1. role' \in [Users -> OrgRole \cup {"none"}]
    BY <1>1, <1>2 DEF IInv, TypeOK, OrgRole
  <2>2. invitations' \in [Invitations -> Invitation]
    BY <1>1, <1>2 DEF IInv, TypeOK
  <2> QED
    BY <1>1, <2>1, <2>2, FinishKeeps DEF IInv, TypeOK
<1>7. OnInvitation' /\ InvitationLocked'
  BY <1>1, <1>2, <1>4, FinishInvitations
<1>8. TargetLocked'
  BY <1>1, <1>3, <1>5 DEF IInv, TargetLocked
<1>9. FoundLocked'
  <2> SUFFICES ASSUME NEW q \in Requests, NEW v \in found'[q]
               PROVE  v \in Governors' /\ rowLock'[v] = q
    BY DEF FoundLocked
  <2>1. q # r /\ v \in Users /\ role[v] \in AdminCapable /\ rowLock[v] = q
    BY <1>3 DEF IInv, FoundLocked, Governors
  <2>2. v # u
    BY <1>1, <2>1 DEF AdminCapable
  <2> QED
    BY <1>3, <1>5, <2>1, <2>2 DEF Governors
<1>10. JoinersNew'
  <2> SUFFICES ASSUME NEW p \in Requests, step'[p] = "joined"
               PROVE  /\ role'[job'[p].user] = "none"
                      /\ \A q \in Requests :
                           step'[q] = "joined" /\ job'[q].user = job'[p].user => q = p
    BY DEF JoinersNew
  <2>1. /\ p # r /\ step[p] = "joined" /\ job'[p] = job[p]
        /\ job[p].user \in Users /\ role[job[p].user] = "none"
    BY <1>3 DEF IInv, JoinersNew, OnInvitation
  <2>2. job[p].user # u
    BY <1>1, <2>1 DEF IInv, JoinersNew
  <2> QED
    BY <1>3, <1>5, <2>1, <2>2 DEF IInv, JoinersNew
<1>11. GovernorRemains'
  BY <1>1, <1>5 DEF IInv, GovernorRemains, Governors, AdminCapable
<1> QED
  BY <1>6, <1>7, <1>8, <1>9, <1>10, <1>11 DEF IInv

-----------------------------------------------------------------------------
(* The sessions.                                                           *)

\* The invariant says nothing of the sessions: what writes only them keeps it.
LEMMA SessionStepKeeps ==
  ASSUME IInv, sessions' \in [Sessions -> Session],
         UNCHANGED <<role, invitations, requestVars, lockVars>>
  PROVE  IInv'
BY DEF IInv, TypeOK, TargetLocked, FoundLocked, OnInvitation, InvitationLocked, JoinersNew,
       GovernorRemains, Governors, Inserting, requestVars, lockVars

\* The same for a transaction that writes only sessions.
LEMMA SessionFinishKeeps ==
  ASSUME IInv, NEW r \in Requests, sessions' \in [Sessions -> Session], Finish(r, {}),
         UNCHANGED <<role, invitations>>
  PROVE  IInv'
<1>1. /\ \A q \in Requests \ {r} :
           /\ step'[q] = step[q] /\ job'[q] = job[q] /\ found'[q] = found[q]
           /\ \A u \in Users : rowLock[u] = q => rowLock'[u] = q
      /\ step'[r] = "idle" /\ found'[r] = {}
  BY FinishKeeps DEF IInv
<1>2. TypeOK'
  BY FinishKeeps DEF IInv, TypeOK
<1>3. OnInvitation' /\ InvitationLocked'
  BY FinishInvitations
<1>4. TargetLocked'
  BY <1>1 DEF IInv, TargetLocked
<1>5. FoundLocked'
  BY <1>1 DEF IInv, FoundLocked, Governors
<1>6. JoinersNew'
  BY <1>1 DEF IInv, JoinersNew
<1>7. GovernorRemains'
  BY DEF IInv, GovernorRemains, Governors
<1> QED
  BY <1>2, <1>3, <1>4, <1>5, <1>6, <1>7 DEF IInv

LEMMA OpenSessionKeeps ==
  ASSUME IInv, NEW r \in Requests, OpenSession(r)
  PROVE  IInv'
<1>1. [status |-> "active", user |-> job[r].user, here |-> job[r].here] \in Session
  BY DEF IInv, TypeOK, Job, Session
<1>2. sessions' \in [Sessions -> Session]
  BY <1>1 DEF OpenSession, IInv, TypeOK
<1> QED
  BY <1>2, SessionFinishKeeps DEF OpenSession

LEMMA SetActiveKeeps ==
  ASSUME IInv, NEW r \in Requests, SetActive(r)
  PROVE  IInv'
<1>1. PICK s \in Sessions :
        /\ sessions' = [sessions EXCEPT ![s].here = sessions[s].user = job[r].user]
        /\ Finish(r, {}) /\ UNCHANGED <<role, invitations>>
  BY DEF SetActive
<1>2. \A b \in BOOLEAN : [sessions[s] EXCEPT !.here = b] \in Session
  BY DEF IInv, TypeOK, Session
<1>3. sessions' \in [Sessions -> Session]
  BY <1>1, <1>2 DEF IInv, TypeOK
<1> QED
  BY <1>1, <1>3, SessionFinishKeeps

LEMMA EndSessionKeeps ==
  ASSUME IInv, NEW s \in Sessions, EndSession(s) \/ CleanUp(s)
  PROVE  IInv'
<1>1. /\ [sessions[s] EXCEPT !.status = "ended"] \in Session
      /\ [status |-> "none", user |-> Nobody, here |-> FALSE] \in Session
  BY DEF IInv, TypeOK, Session
<1>2. sessions' \in [Sessions -> Session]
  BY <1>1 DEF EndSession, CleanUp, IInv, TypeOK
<1> QED
  BY <1>2, SessionStepKeeps DEF EndSession, CleanUp

-----------------------------------------------------------------------------
(* Who holds a lock, and which of them were taken in order.                *)

\* Only changes hold rows: their target, and governors before those to come.
RowsInOrder ==
  \A r \in Requests, u \in Users : rowLock[u] = r =>
    /\ step[r] \in {"governors", "locking"}
    /\ u = job[r].user \/ (step[r] = "locking" /\ \A v \in todo[r] : u < v)

\* Only who accepts an invitation holds it.
InvitationsHeld ==
  \A r \in Requests, i \in Invitations : invLock[i] = r => step[r] \in {"insert", "joined"}

\* A transaction that ends takes nothing and frees what it held.
LEMMA FinishFrees ==
  ASSUME TypeOK, RowsInOrder, InvitationsHeld, NEW r \in Requests, NEW gone, Finish(r, gone)
  PROVE  RowsInOrder' /\ InvitationsHeld'
<1> USE ConstantsAssumption
<1>1. /\ \A u \in Users : rowLock'[u] = IF rowLock[u] = r THEN Nobody ELSE rowLock[u]
      /\ \A i \in Invitations : invLock'[i] = IF invLock[i] = r THEN Nobody ELSE invLock[i]
      /\ \A q \in Requests \ {r} :
           step'[q] = step[q] /\ job'[q] = job[q] /\ todo'[q] \subseteq todo[q]
  BY DEF TypeOK, Finish
<1>2. ASSUME NEW q \in Requests, NEW u \in Users, rowLock'[u] = q
      PROVE  q # r /\ rowLock[u] = q
  BY <1>1, <1>2
<1>3. ASSUME NEW q \in Requests, NEW i \in Invitations, invLock'[i] = q
      PROVE  q # r /\ invLock[i] = q
  BY <1>1, <1>3
<1>4. RowsInOrder'
  <2> SUFFICES ASSUME NEW q \in Requests, NEW u \in Users, rowLock'[u] = q
               PROVE  /\ step'[q] \in {"governors", "locking"}
                      /\ u = job'[q].user \/ (step'[q] = "locking" /\ \A v \in todo'[q] : u < v)
    BY DEF RowsInOrder
  <2>1. q # r /\ rowLock[u] = q
    BY <1>2
  <2> QED
    BY <1>1, <2>1 DEF RowsInOrder
<1>5. InvitationsHeld'
  BY <1>1, <1>3 DEF InvitationsHeld
<1> QED
  BY <1>4, <1>5

LEMMA LocksKept ==
  ASSUME IInv, RowsInOrder, InvitationsHeld, [Next]_vars
  PROVE  RowsInOrder' /\ InvitationsHeld'
<1> USE ConstantsAssumption
<1>1. ASSUME NEW r \in Requests, NEW first \in Step, NEW asked \in Job, Ask(r, first, asked)
      PROVE  RowsInOrder' /\ InvitationsHeld'
  <2>1. /\ step[r] = "idle" /\ UNCHANGED <<todo, rowLock, invLock>>
        /\ \A q \in Requests \ {r} : step'[q] = step[q] /\ job'[q] = job[q]
    BY <1>1 DEF Ask, lockVars, IInv, TypeOK
  <2> QED
    BY <2>1 DEF RowsInOrder, InvitationsHeld
<1>2. ASSUME NEW r \in Requests, NEW gone, Finish(r, gone)
      PROVE  RowsInOrder' /\ InvitationsHeld'
  BY <1>2, FinishFrees DEF IInv
<1>3. ASSUME NEW r \in Requests, LockTarget(r), ~GiveUp(r)
      PROVE  RowsInOrder' /\ InvitationsHeld'
  <2>1. /\ step[r] = "target" /\ rowLock' = [rowLock EXCEPT ![job[r].user] = r]
        /\ step' = [step EXCEPT ![r] = "governors"]
        /\ UNCHANGED <<job, todo, invLock>>
    BY <1>3 DEF LockTarget, Go
  <2>2. step'[r] = "governors" /\ \A q \in Requests \ {r} : step'[q] = step[q]
    BY <2>1 DEF IInv, TypeOK
  <2>3. \A u \in Users : rowLock'[u] = IF u = job[r].user THEN r ELSE rowLock[u]
    BY <2>1 DEF IInv, TypeOK
  <2>4. RowsInOrder'
    BY <2>1, <2>2, <2>3 DEF RowsInOrder
  <2>5. InvitationsHeld'
    BY <2>1, <2>2 DEF InvitationsHeld
  <2> QED
    BY <2>4, <2>5
<1>4. ASSUME NEW r \in Requests, SnapshotGovernors(r)
      PROVE  RowsInOrder' /\ InvitationsHeld'
  <2>1. /\ step[r] = "governors" /\ step' = [step EXCEPT ![r] = "locking"]
        /\ todo' = [todo EXCEPT ![r] = Governors]
        /\ UNCHANGED <<job, rowLock, invLock>>
    BY <1>4 DEF SnapshotGovernors, Go, lockVars
  <2>2. /\ step'[r] = "locking"
        /\ \A q \in Requests \ {r} : step'[q] = step[q] /\ todo'[q] = todo[q]
    BY <2>1 DEF IInv, TypeOK
  <2> QED
    BY <2>1, <2>2 DEF RowsInOrder, InvitationsHeld
<1>5. ASSUME NEW r \in Requests, LockGovernor(r)
      PROVE  RowsInOrder' /\ InvitationsHeld'
  <2> DEFINE w == First(todo[r])
  <2>1. /\ step[r] = "locking" /\ todo[r] # {}
        /\ rowLock' = [rowLock EXCEPT ![w] = r]
        /\ todo' = [todo EXCEPT ![r] = @ \ {w}]
        /\ UNCHANGED <<step, job, invLock>>
    BY <1>5 DEF LockGovernor
  <2>2. todo[r] \subseteq Users /\ w \in todo[r] /\ \A v \in todo[r] : w <= v
    BY <2>1, FirstIsLeast DEF IInv, TypeOK
  <2>3. \A u \in Users : rowLock'[u] = IF u = w THEN r ELSE rowLock[u]
    BY <2>1 DEF IInv, TypeOK
  <2>4. /\ todo'[r] = todo[r] \ {w}
        /\ \A q \in Requests \ {r} : todo'[q] = todo[q]
    BY <2>1 DEF IInv, TypeOK
  <2> HIDE DEF w
  <2>5. \A v \in todo'[r] : w < v
    <3>1. todo[r] \subseteq Int
      BY <2>2
    <3> QED
      BY <2>2, <2>4, <3>1
  <2>6. RowsInOrder'
    <3> SUFFICES ASSUME NEW q \in Requests, NEW u \in Users, rowLock'[u] = q
                 PROVE  /\ step[q] \in {"governors", "locking"}
                        /\ u = job[q].user \/ (step[q] = "locking" /\ \A v \in todo'[q] : u < v)
      BY <2>1 DEF RowsInOrder
    <3>1. CASE u = w
      BY <2>1, <2>3, <2>5, <3>1
    <3>2. CASE u # w
      BY <2>3, <2>4, <3>2 DEF RowsInOrder
    <3> QED
      BY <3>1, <3>2
  <2> QED
    BY <2>1, <2>6 DEF InvitationsHeld
<1>6. ASSUME NEW r \in Requests, NEW next \in {"insert", "joined", "switch"}, Go(r, next),
             next = "joined" => step[r] = "insert",
             next = "insert" => step[r] = "accept",
             next = "switch" => step[r] = "member",
             UNCHANGED <<todo, rowLock>>,
             \A i \in Invitations : invLock'[i] = invLock[i] \/ (invLock'[i] = r /\ next = "insert")
      PROVE  RowsInOrder' /\ InvitationsHeld'
  <2>1. step' = [step EXCEPT ![r] = next] /\ job' = job
    BY <1>6 DEF Go
  <2>2. step'[r] = next /\ \A q \in Requests \ {r} : step'[q] = step[q]
    BY <2>1 DEF IInv, TypeOK
  <2>3. RowsInOrder'
    BY <1>6, <2>1, <2>2 DEF RowsInOrder
  <2>4. InvitationsHeld'
    BY <1>6, <2>2 DEF InvitationsHeld
  <2> QED
    BY <2>3, <2>4
<1>7. CASE UNCHANGED <<step, job, todo, rowLock, invLock>>
  BY <1>7 DEF RowsInOrder, InvitationsHeld
<1> QED
  <2>1. CASE UNCHANGED vars
    BY <1>7, <2>1 DEF vars, requestVars, lockVars
  <2>2. ASSUME NEW r \in Requests, NEW u \in Users, NEW to \in Assignable \cup {"none"},
               AskChange(r, u, to)
        PROVE  RowsInOrder' /\ InvitationsHeld'
    <3>1. Asked(u, to, {}, FALSE) \in Job /\ "target" \in Step
      BY DEF Asked, Job, Step
    <3> QED
      BY <1>1, <2>2, <3>1 DEF AskChange
  <2>3. ASSUME NEW r \in Requests, NEW i \in Invitations, AskAccept(r, i) \/ AskRevoke(r, i)
        PROVE  RowsInOrder' /\ InvitationsHeld'
    <3>1. /\ Asked(invitations[i].user, "none", {i}, invitations[i].expired) \in Job
          /\ Asked(Nobody, "none", {i}, FALSE) \in Job
          /\ "accept" \in Step /\ "revoke" \in Step
      BY DEF Asked, Job, Step, IInv, TypeOK, Invitation
    <3> QED
      BY <1>1, <2>3, <3>1 DEF AskAccept, AskRevoke
  <2>4. ASSUME NEW r \in Requests, NEW u \in Users, AskLogin(r, u)
        PROVE  RowsInOrder' /\ InvitationsHeld'
    <3>1. Asked(u, "none", {}, role[u] # "none") \in Job /\ "open" \in Step
      BY DEF Asked, Job, Step
    <3> QED
      BY <1>1, <2>4, <3>1 DEF AskLogin
  <2>5. ASSUME NEW r \in Requests, NEW s \in Sessions, AskActive(r, s)
        PROVE  RowsInOrder' /\ InvitationsHeld'
    <3>1. Asked(sessions[s].user, "none", {s}, FALSE) \in Job /\ "member" \in Step
      BY DEF Asked, Job, Step, IInv, TypeOK, Session
    <3> QED
      BY <1>1, <2>5, <3>1 DEF AskActive
  <2>6. ASSUME NEW r \in Requests, GiveUp(r)
        PROVE  RowsInOrder' /\ InvitationsHeld'
    BY <1>2, <2>6 DEF GiveUp
  <2>7. ASSUME NEW r \in Requests,
               \/ Change(r) \/ Join(r) \/ Revoke(r) \/ OpenSession(r) \/ SetActive(r)
               \/ Refuse(r) \/ BreakDeadlock(r) \/ Abort(r)
        PROVE  RowsInOrder' /\ InvitationsHeld'
    BY <1>2, <2>6, <2>7 DEF Change, Join, Revoke, OpenSession, SetActive, Refuse,
                            BreakDeadlock, Abort
  <2>8. ASSUME NEW r \in Requests, LockInvitation(r)
        PROVE  RowsInOrder' /\ InvitationsHeld'
    <3>1. CASE GiveUp(r)
      BY <2>6, <3>1
    <3>2. CASE ~GiveUp(r)
      <4>1. PICK i \in Invitations :
              /\ step[r] = "accept" /\ invLock' = [invLock EXCEPT ![i] = r]
              /\ Go(r, "insert") /\ UNCHANGED <<todo, rowLock>>
        BY <2>8, <3>2 DEF LockInvitation
      <4>2. \A j \in Invitations : invLock'[j] = invLock[j] \/ invLock'[j] = r
        BY <4>1 DEF IInv, TypeOK
      <4> QED
        BY <1>6, <4>1, <4>2
    <3> QED
      BY <3>1, <3>2
  <2>9. ASSUME NEW r \in Requests, InsertMember(r) \/ FindMember(r)
        PROVE  RowsInOrder' /\ InvitationsHeld'
    <3>1. CASE GiveUp(r)
      BY <2>6, <3>1
    <3>2. CASE ~GiveUp(r)
      <4>1. /\ \/ step[r] = "insert" /\ Go(r, "joined")
               \/ step[r] = "member" /\ Go(r, "switch")
            /\ UNCHANGED <<todo, rowLock, invLock>>
        BY <2>9, <3>2 DEF InsertMember, FindMember, lockVars
      <4> QED
        BY <1>6, <4>1
    <3> QED
      BY <3>1, <3>2
  <2>10. ASSUME NEW r \in Requests, LockTarget(r) PROVE RowsInOrder' /\ InvitationsHeld'
    BY <1>3, <2>6, <2>10
  <2> QED
    BY <1>4, <1>5, <1>7, <2>1, <2>2, <2>3, <2>4, <2>5, <2>7, <2>8, <2>9, <2>10
    DEF Next, Wait, Advance, Invite, Expire, EndSession, CleanUp, requestVars, lockVars

-----------------------------------------------------------------------------
(* The theorems.                                                           *)

LEMMA StepKeeps == IInv /\ [Next]_vars => IInv'
<1> SUFFICES ASSUME IInv, [Next]_vars PROVE IInv'
  OBVIOUS
<1>1. ASSUME NEW r \in Requests, NEW u \in Users, NEW to \in Assignable \cup {"none"},
             AskChange(r, u, to)
      PROVE  IInv'
  <2>1. Asked(u, to, {}, FALSE) \in Job /\ Asked(u, to, {}, FALSE).user = u
    BY DEF Asked, Job
  <2> QED
    BY <1>1, <2>1, AskKeeps DEF AskChange
<1>2. ASSUME NEW r \in Requests, NEW i \in Invitations, AskRevoke(r, i)
      PROVE  IInv'
  <2>1. /\ Asked(Nobody, "none", {i}, FALSE) \in Job
        /\ Asked(Nobody, "none", {i}, FALSE).on = {i}
    BY DEF Asked, Job
  <2> QED
    BY <1>2, <2>1, AskKeeps DEF AskRevoke
<1>3. ASSUME NEW r \in Requests, NEW u \in Users, AskLogin(r, u)
      PROVE  IInv'
  <2>1. Asked(u, "none", {}, role[u] # "none") \in Job
    BY DEF Asked, Job
  <2>2. Asked(u, "none", {}, role[u] # "none").user = u
    BY DEF Asked
  <2> QED
    BY <1>3, <2>1, <2>2, AskKeeps DEF AskLogin
<1>4. ASSUME NEW r \in Requests, NEW s \in Sessions, AskActive(r, s)
      PROVE  IInv'
  <2>1. Asked(sessions[s].user, "none", {s}, FALSE) \in Job
    BY DEF Asked, Job, IInv, TypeOK, Session
  <2> QED
    BY <1>4, <2>1, AskKeeps DEF AskActive
<1>5. ASSUME NEW r \in Requests, SnapshotGovernors(r)
      PROVE  IInv'
  <2>1. /\ step[r] = "governors" /\ todo' = [todo EXCEPT ![r] = Governors]
        /\ Go(r, "locking") /\ UNCHANGED <<found, rowLock, invLock>>
    BY <1>5 DEF SnapshotGovernors, lockVars
  <2>2. TypeOK'
    BY <2>1 DEF IInv, TypeOK, Go, Step, Governors
  <2>3. /\ job[r].user \in Users /\ role[job[r].user] \notin {"none", "owner", job[r].to}
        /\ rowLock[job[r].user] = r
    BY <2>1 DEF IInv, TargetLocked
  <2> QED
    BY <2>1, <2>2, <2>3, StatementKeeps DEF Step
<1>6. ASSUME NEW r \in Requests, FindMember(r)
      PROVE  IInv'
  <2>1. CASE role[job[r].user] = "none"
    BY <1>6, <2>1, GiveUpKeeps DEF FindMember
  <2>2. CASE role[job[r].user] # "none"
    <3>1. Go(r, "switch") /\ UNCHANGED <<todo, found, rowLock, invLock>>
      BY <1>6, <2>2 DEF FindMember, lockVars
    <3>2. TypeOK'
      BY <3>1 DEF IInv, TypeOK, Go, Step
    <3> QED
      BY <3>1, <3>2, StatementKeeps DEF Step
  <2> QED
    BY <2>1, <2>2
<1>7. ASSUME NEW r \in Requests, Refuse(r) \/ BreakDeadlock(r) \/ Abort(r)
      PROVE  IInv'
  BY <1>7, GiveUpKeeps DEF Refuse, BreakDeadlock, Abort
<1>8. CASE UNCHANGED vars
  BY <1>8 DEF vars, requestVars, lockVars, IInv, TypeOK, TargetLocked, FoundLocked, OnInvitation,
              InvitationLocked, JoinersNew, GovernorRemains, Governors
<1> QED
  BY <1>1, <1>2, <1>3, <1>4, <1>5, <1>6, <1>7, <1>8, AskAcceptKeeps, LockTargetKeeps,
     LockGovernorKeeps, ChangeKeeps, InviteKeeps, ExpireKeeps, LockInvitationKeeps,
     InsertMemberKeeps, JoinKeeps, RevokeKeeps, OpenSessionKeeps, SetActiveKeeps,
     EndSessionKeeps
  DEF Next, Wait, Advance

LEMMA Invariant == Spec => []IInv
BY InitInvariant, StepKeeps, PTL DEF Spec

\* Every variable keeps its type: an invitation never makes an owner.
THEOREM MembershipsTypeCorrect == Spec => []TypeOK
<1>1. IInv => TypeOK
  BY DEF IInv
<1> QED
  BY <1>1, Invariant, PTL

\* updateRole and remove: whatever changes run at once, in an organization with
\* or without an owner, somebody is left who can govern it.
THEOREM GovernorStays == Spec => []GovernorRemains
<1>1. IInv => GovernorRemains
  BY DEF IInv
<1> QED
  BY <1>1, Invariant, PTL

\* consumeByTokenHash: one becomes a member by a pending invitation of one's own,
\* with its role, and spends it; nothing else accepts an invitation.
THEOREM InvitationsAreSpent == Spec => InvitationsSpent
<1> DEFINE Spent ==
             /\ \A u \in Users : role[u] = "none" /\ role'[u] # "none" =>
                  \E i \in Invitations :
                    /\ invitations[i].status = "pending" /\ invitations'[i].status = "accepted"
                    /\ invitations[i].user = u /\ invitations[i].role = role'[u]
             /\ \A i \in Invitations :
                  invitations[i].status # "accepted" /\ invitations'[i].status = "accepted" =>
                    LET u == invitations[i].user IN
                    invitations[i].status = "pending" /\ role[u] = "none" /\ role'[u] # "none"
<1>1. IInv /\ [Next]_vars => Spent \/ UNCHANGED vars
  <2> SUFFICES ASSUME IInv, Next PROVE Spent
    BY DEF vars
  <2>1. ASSUME NEW r \in Requests, Join(r)
        PROVE  Spent
    <3>1. PICK i \in Invitations :
            /\ invitations[i].user \in Users
            /\ invitations[i].status = "pending" /\ role[invitations[i].user] = "none"
            /\ role' = [role EXCEPT ![invitations[i].user] = invitations[i].role]
            /\ invitations' = [invitations EXCEPT
                 ![i] = [invitations[i] EXCEPT !.status = "accepted"]]
      BY <2>1, JoinWrites
    <3>2. /\ role'[invitations[i].user] = invitations[i].role
          /\ invitations[i].role # "none"
          /\ invitations'[i].status = "accepted"
          /\ \A u \in Users \ {invitations[i].user} : role'[u] = role[u]
          /\ \A j \in Invitations \ {i} : invitations'[j] = invitations[j]
      BY <3>1 DEF IInv, TypeOK, Invitation, Assignable
    <3> QED
      BY <3>1, <3>2
  <2>2. ASSUME NEW r \in Requests, Change(r)
        PROVE  Spent
    <3>1. /\ job[r].user \in Users /\ role[job[r].user] # "none"
          /\ role' = [role EXCEPT ![job[r].user] = job[r].to] /\ UNCHANGED invitations
      BY <2>2 DEF Change, IInv, TargetLocked
    <3> QED
      BY <3>1 DEF IInv, TypeOK
  <2>3. ASSUME NEW r \in Requests, Revoke(r)
        PROVE  Spent
    <3>1. PICK i \in Invitations :
            /\ invitations' = [invitations EXCEPT ![i].status = "revoked"]
            /\ UNCHANGED role
      BY <2>3 DEF Revoke
    <3> QED
      BY <3>1 DEF IInv, TypeOK, Invitation
  <2>4. ASSUME NEW i \in Invitations, NEW u \in Users, NEW to \in Assignable, Invite(i, u, to)
        PROVE  Spent
    BY <2>4 DEF Invite, IInv, TypeOK
  <2>5. ASSUME NEW i \in Invitations, Expire(i)
        PROVE  Spent
    BY <2>5 DEF Expire, IInv, TypeOK, Invitation
  <2>6. CASE UNCHANGED <<role, invitations>>
    BY <2>6
  <2> QED
    BY <2>1, <2>2, <2>3, <2>4, <2>5, <2>6
    DEF Next, Wait, Advance, Ask, AskChange, AskAccept, AskRevoke, AskLogin, AskActive,
        LockTarget, SnapshotGovernors, LockGovernor, Refuse, LockInvitation, InsertMember,
        OpenSession, FindMember, SetActive, EndSession, CleanUp, Abort, BreakDeadlock,
        GiveUp, Go
<1> QED
  BY <1>1, Invariant, PTL DEF Spec, InvitationsSpent

\* Each request acts as one step: what a change or an acceptance rests on is under
\* its locks until the COMMIT, and the others write with one statement.
THEOREM MembersImplemented == Spec => BookSpec
<1>1. Init => Book!Init
  BY DEF Init, Book!Init, Governors, Book!Governors, AdminCapable, OrgRole, Assignable,
         Book!OrgRole, Book!Assignable, Book!Blank, Book!NoSession
<1>2. IInv /\ [Next]_vars => [Book!Next]_(Book!vars)
  <2> SUFFICES ASSUME IInv, Next, ~(UNCHANGED <<role, invitations, sessions>>)
               PROVE  Book!Next
    BY DEF vars, Book!vars
  <2>1. ASSUME NEW r \in Requests, Change(r)
        PROVE  Book!Next
    <3> DEFINE u == job[r].user
               to == job[r].to
    <3>1. /\ u \in Users /\ to \in Book!Assignable \cup {"none"}
          /\ role[u] \notin {"none", "owner", to}
      BY <2>1 DEF Change, IInv, TargetLocked, TypeOK, Job, Assignable, Book!Assignable
    <3>2. Governors \ {u} # {} \/ role[u] \notin {"owner", "admin"}
      <4>1. found[r] \subseteq Governors
        BY DEF IInv, FoundLocked
      <4> QED
        BY <2>1, <4>1 DEF Change, LastGovernor, AdminCapable
    <3>3. Governors = Book!Governors
      BY DEF Governors, Book!Governors, AdminCapable
    <3>4. Book!Change(u, to)
      BY <2>1, <3>1, <3>2, <3>3 DEF Change, Book!Change
    <3> QED
      BY <3>1, <3>4 DEF Book!Next
  <2>2. ASSUME NEW r \in Requests, Join(r)
        PROVE  Book!Next
    <3>1. PICK i \in Invitations :
            /\ invitations[i].user \in Users
            /\ invitations[i].status = "pending" /\ role[invitations[i].user] = "none"
            /\ role' = [role EXCEPT ![invitations[i].user] = invitations[i].role]
            /\ invitations' = [invitations EXCEPT
                 ![i] = [invitations[i] EXCEPT !.status = "accepted"]]
            /\ UNCHANGED sessions
      BY <2>2, JoinWrites
    <3>2. Book!Accept(i)
      BY <3>1 DEF Book!Accept
    <3> QED
      BY <3>2 DEF Book!Next
  <2>3. ASSUME NEW i \in Invitations, NEW u \in Users, NEW to \in Assignable, Invite(i, u, to)
        PROVE  Book!Next
    <3>1. Governors # {} /\ Governors = Book!Governors
      BY DEF IInv, GovernorRemains, Governors, Book!Governors, AdminCapable
    <3>2. Book!Invite(i, u, to)
      BY <2>3, <3>1 DEF Invite, Book!Invite
    <3> QED
      BY <3>2 DEF Book!Next, Assignable, Book!Assignable
  <2>4. ASSUME NEW i \in Invitations, Expire(i)
        PROVE  Book!Next
    BY <2>4 DEF Expire, Book!Expire, Book!Next
  <2>5. ASSUME NEW r \in Requests, Revoke(r)
        PROVE  Book!Next
    <3>1. PICK i \in Invitations \cap job[r].on :
            /\ step[r] = "revoke" /\ UNCHANGED <<role, sessions>>
            /\ invitations' = [invitations EXCEPT ![i].status = "revoked"]
      BY <2>5 DEF Revoke
    <3>2. Book!Revoke(i)
      BY <3>1 DEF Book!Revoke, IInv, OnInvitation
    <3> QED
      BY <3>2 DEF Book!Next
  <2>6. ASSUME NEW r \in Requests, OpenSession(r)
        PROVE  Book!Next
    <3>1. /\ job[r].user \in Users /\ job[r].here \in BOOLEAN
          /\ UNCHANGED <<role, invitations>>
      BY <2>6 DEF OpenSession, IInv, TargetLocked, TypeOK, Job
    <3>2. PICK s \in Sessions :
            /\ sessions[s].status = "none"
            /\ sessions' = [sessions EXCEPT ![s] =
                 [status |-> "active", user |-> job[r].user, here |-> job[r].here]]
      BY <2>6, <3>1 DEF OpenSession
    <3>3. Book!Open(s, job[r].user, job[r].here)
      BY <3>1, <3>2 DEF Book!Open
    <3> QED
      BY <3>1, <3>3 DEF Book!Next
  <2>7. ASSUME NEW r \in Requests, SetActive(r)
        PROVE  Book!Next
    <3>1. PICK s \in Sessions :
            /\ sessions' = [sessions EXCEPT ![s].here = sessions[s].user = job[r].user]
            /\ UNCHANGED <<role, invitations>>
      BY <2>7 DEF SetActive
    <3>2. Book!Switch(s, sessions[s].user = job[r].user)
      BY <3>1 DEF Book!Switch
    <3>3. (sessions[s].user = job[r].user) \in BOOLEAN
      OBVIOUS
    <3> QED
      BY <3>2, <3>3 DEF Book!Next
  <2>8. ASSUME NEW s \in Sessions, EndSession(s) \/ CleanUp(s)
        PROVE  Book!Next
    BY <2>8 DEF EndSession, CleanUp, Active, Book!End, Book!Forget, Book!NoSession, Book!Next
  <2> QED
    BY <2>1, <2>2, <2>3, <2>4, <2>5, <2>6, <2>7, <2>8
    DEF Next, Wait, Advance, Ask, AskChange, AskAccept, AskRevoke, AskLogin, AskActive,
        LockTarget, SnapshotGovernors, LockGovernor, Refuse, LockInvitation, InsertMember,
        FindMember, Abort, BreakDeadlock, GiveUp, Go
<1> QED
  BY <1>1, <1>2, Invariant, PTL DEF Spec, BookSpec, Book!Spec

\* Both hold in every state.
LEMMA LockInvariant == Spec => [](RowsInOrder /\ InvitationsHeld)
<1>1. Init => RowsInOrder /\ InvitationsHeld
  BY ConstantsAssumption DEF Init, RowsInOrder, InvitationsHeld
<1>2. IInv /\ (RowsInOrder /\ InvitationsHeld) /\ [Next]_vars
        => (RowsInOrder /\ InvitationsHeld)'
  BY LocksKept
<1> QED
  BY <1>1, <1>2, Invariant, PTL DEF Spec

\* Who waits in a circle is a change past its first lock: nobody waits for one who
\* holds nothing, and who holds an invitation waits for nobody that waits.
LEMMA WaitersAreChanges ==
  ASSUME IInv, RowsInOrder, InvitationsHeld,
         NEW D \in SUBSET Requests, Deadlocked(D)
  PROVE  \A r \in D : /\ step[r] = "locking" /\ todo[r] # {}
                        /\ rowLock[First(todo[r])] \in D \ {r}
<1> USE ConstantsAssumption
<1>1. \A r \in D : WaitsFor(r) # {} /\ WaitsFor(r) \subseteq D /\ \E q \in D : r \in WaitsFor(q)
  BY DEF Deadlocked
<1>2. ASSUME NEW r \in D
      PROVE  step[r] \in {"target", "locking", "accept", "revoke", "insert"}
  <2>1. PICK q \in WaitsFor(r) : TRUE
    BY <1>1
  <2> QED
    BY <2>1 DEF WaitsFor
<1>3. ASSUME NEW r \in D, step[r] = "insert"
      PROVE  FALSE
  <2>1. PICK q \in WaitsFor(r) : TRUE
    BY <1>1
  <2>2. q \in D /\ step[q] = "joined"
    BY <1>1, <1>3, <2>1 DEF WaitsFor, Inserting
  <2> QED
    BY <1>2, <2>2
<1>4. ASSUME NEW r \in D
      PROVE  step[r] = "locking"
  <2>1. PICK q \in D : r \in WaitsFor(q)
    BY <1>1
  <2>2. CASE step[q] = "target"
    <3>1. job[q].user \in Users /\ rowLock[job[q].user] = r
      BY <2>1, <2>2 DEF WaitsFor, IInv, TargetLocked
    <3> QED
      BY <1>2, <3>1 DEF RowsInOrder
  <2>3. CASE step[q] = "locking"
    <3>1. todo[q] # {} /\ rowLock[First(todo[q])] = r
      BY <2>1, <2>3 DEF WaitsFor
    <3>2. First(todo[q]) \in Users
      BY <3>1, FirstIsLeast DEF IInv, TypeOK
    <3> QED
      BY <1>2, <3>1, <3>2 DEF RowsInOrder
  <2>4. CASE step[q] \in {"accept", "revoke"}
    <3>1. PICK i \in Invitations : invLock[i] = r
      BY <2>1, <2>4 DEF WaitsFor
    <3>2. step[r] \in {"insert", "joined"}
      BY <3>1 DEF InvitationsHeld
    <3> QED
      BY <1>2, <1>3, <3>2
  <2> QED
    BY <1>2, <1>3, <2>2, <2>3, <2>4
<1> SUFFICES ASSUME NEW r \in D
             PROVE  todo[r] # {} /\ rowLock[First(todo[r])] \in D \ {r}
  BY <1>4
<1>5. PICK q \in WaitsFor(r) : TRUE
  BY <1>1
<1>6. q \in D /\ q # r /\ todo[r] # {} /\ rowLock[First(todo[r])] = q
  BY <1>1, <1>4, <1>5 DEF WaitsFor
<1> QED
  BY <1>6

\* memberships.repo.ts: two changes can wait for each other, because the target is
\* locked before the governors; it is the only way to wait in a circle here. Of
\* those that wait, look at the row last in key order: who holds it waits for an
\* earlier one, so it is not a governor's row taken in order, it is his target.
THEOREM CirclesNeedATarget == Spec => []DeadlockByTarget
<1>1. IInv /\ RowsInOrder /\ InvitationsHeld => DeadlockByTarget
  <2> SUFFICES ASSUME IInv, RowsInOrder, InvitationsHeld,
                      NEW D \in SUBSET Requests, Deadlocked(D)
               PROVE  /\ \A r \in D : step[r] = "locking"
                      /\ \E r, q \in D :
                           /\ rowLock[First(todo[r])] = q /\ First(todo[r]) = job[q].user
                           /\ First(todo[q]) < job[q].user
    BY DEF DeadlockByTarget
  <2>1. \A r \in D : /\ step[r] = "locking" /\ todo[r] # {}
                      /\ rowLock[First(todo[r])] \in D \ {r}
    BY WaitersAreChanges
  <2>2. \A r \in D : First(todo[r]) \in todo[r] /\ First(todo[r]) \in Users
    BY <2>1, FirstIsLeast DEF IInv, TypeOK
  <2> DEFINE W == {First(todo[r]) : r \in D}
  <2>3. W \in SUBSET Int /\ IsFiniteSet(W) /\ W # {}
    <3>1. W \subseteq Users
      BY <2>2
    <3>2. W # {}
      BY DEF Deadlocked
    <3> HIDE DEF W
    <3> QED
      BY <3>1, <3>2, ConstantsAssumption, FS_Subset
  <2>4. PICK last \in W : \A v \in W : v <= last
    <3> HIDE DEF W
    <3> QED
      BY <2>3, FiniteHasEnds
  <2>5. PICK r \in D : last = First(todo[r])
    BY <2>4
  <2>6. PICK q \in D : rowLock[last] = q
    BY <2>1, <2>5
  <2>7. /\ First(todo[q]) \in todo[q] /\ First(todo[q]) \in W
        /\ First(todo[q]) \in Int /\ last \in Int /\ last \in Users
    BY <2>2, <2>3, <2>5
  <2>8. First(todo[q]) <= last
    BY <2>4, <2>7
  <2>9. First(todo[q]) # last
    BY <2>1, <2>6
  <2>11. First(todo[q]) < last
    BY <2>7, <2>8, <2>9
  <2> HIDE DEF W
  <2>10. last = job[q].user
    <3>1. last = job[q].user \/ \A v \in todo[q] : last < v
      BY <2>6, <2>7 DEF RowsInOrder
    <3> QED
      BY <2>7, <2>8, <3>1
  <2> QED
    BY <2>1, <2>5, <2>6, <2>10, <2>11
<1> QED
  BY <1>1, Invariant, LockInvariant, PTL

-----------------------------------------------------------------------------
(* Sessions of those who left.                                             *)

\* A session that is about to enter the organization was not cleaned up meanwhile;
\* if it is active still, its user is a member still, for a removal would have
\* ended it.
SwitchSound ==
  /\ \A s \in Active : sessions[s].user \in Users
  /\ \A r \in Requests : step[r] \in {"member", "switch"} =>
       /\ job[r].user \in Users
       /\ \A s \in Sessions \cap job[r].on :
            /\ sessions[s].status # "none"
            /\ step[r] = "switch" /\ s \in Active /\ sessions[s].user = job[r].user
                 => role[job[r].user] # "none"

\* A step that leaves roles and sessions alone and makes no request switch.
LEMMA SwitchUntouched ==
  ASSUME SwitchSound, UNCHANGED <<role, sessions>>,
         \A r \in Requests : step'[r] \in {"member", "switch"} =>
           step'[r] = step[r] /\ job'[r] = job[r]
  PROVE  SwitchSound'
BY DEF SwitchSound, Active

\* A request that ends is no longer about to switch.
LEMMA FinishedNotSwitching ==
  ASSUME TypeOK, NEW q \in Requests, NEW gone, Finish(q, gone)
  PROVE  \A r \in Requests : step'[r] \in {"member", "switch"} =>
           r # q /\ step'[r] = step[r] /\ job'[r] = job[r]
BY DEF TypeOK, Finish

\* What a write does to it: users keep or gain their membership or lose their
\* sessions, and no session is cleaned up that a request is about to write.
LEMMA SwitchWritten ==
  ASSUME IInv, SwitchSound, NEW q \in Requests \cup {Nobody},
         \A r \in Requests : step'[r] \in {"member", "switch"} =>
           r # q /\ step'[r] = step[r] /\ job'[r] = job[r],
         \A s \in Sessions :
           \/ sessions'[s].user = sessions[s].user /\ sessions'[s].status = sessions[s].status
           \/ sessions'[s].status = "ended"
           \/ /\ sessions[s].status = "none"
              /\ sessions'[s].status = "active" => sessions'[s].user \in Users
           \/ sessions'[s].status = "none" /\ \A r \in Requests : s \notin job[r].on,
         \A u \in Users : role[u] # "none" /\ role'[u] = "none" =>
           \A s \in Sessions : sessions'[s].user = u => sessions'[s].status # "active"
  PROVE  SwitchSound'
<1>1. ASSUME NEW s \in Active' PROVE sessions'[s].user \in Users
  BY <1>1 DEF SwitchSound, Active
<1>2. ASSUME NEW r \in Requests, step'[r] \in {"member", "switch"},
             NEW s \in Sessions \cap job'[r].on
      PROVE  /\ sessions'[s].status # "none"
             /\ step'[r] = "switch" /\ s \in Active' /\ sessions'[s].user = job'[r].user
                  => role'[job'[r].user] # "none"
  <2>1. step'[r] = step[r] /\ job'[r] = job[r] /\ job[r].user \in Users
    BY <1>2 DEF SwitchSound
  <2>2. sessions[s].status # "none"
    BY <1>2, <2>1 DEF SwitchSound
  <2>3. sessions'[s].status # "none"
    BY <1>2, <2>1, <2>2
  <2>4. ASSUME step[r] = "switch", sessions'[s].status = "active",
               sessions'[s].user = job[r].user
        PROVE  role'[job[r].user] # "none"
    <3>1. sessions[s].user = job[r].user /\ sessions[s].status = "active"
      BY <2>2, <2>4
    <3>2. role[job[r].user] # "none"
      BY <1>2, <2>1, <2>4, <3>1 DEF SwitchSound, Active
    <3> QED
      BY <2>1, <2>4, <3>2
  <2> QED
    BY <2>1, <2>3, <2>4 DEF Active
<1>3. ASSUME NEW r \in Requests, step'[r] \in {"member", "switch"}
      PROVE  job'[r].user \in Users
  BY <1>3 DEF SwitchSound
<1> QED
  BY <1>1, <1>2, <1>3 DEF SwitchSound

LEMMA SwitchStep ==
  ASSUME IInv, SwitchSound, [Next]_vars
  PROVE  SwitchSound'
<1> USE DEF IInv
<1>1. ASSUME NEW q \in Requests, Change(q) PROVE SwitchSound'
  <2> DEFINE u == job[q].user
  <2>1. PICK gone : Finish(q, gone)
    BY <1>1 DEF Change
  <2>2. \A r \in Requests : step'[r] \in {"member", "switch"} =>
          r # q /\ step'[r] = step[r] /\ job'[r] = job[r]
    BY <2>1, FinishedNotSwitching
  <2>3. \A s \in Sessions : IF sessions[s].user # u THEN sessions'[s] = sessions[s]
                            ELSE sessions'[s].status = "ended" /\ sessions'[s].user = u
    BY <1>1 DEF Change, TypeOK, Session
  <2>4. \A v \in Users : role[v] # "none" /\ role'[v] = "none" => v = u
    BY <1>1 DEF Change, TypeOK
  <2> QED
    BY <2>2, <2>3, <2>4, SwitchWritten
<1>2. ASSUME NEW q \in Requests, Join(q) PROVE SwitchSound'
  <2>1. Finish(q, {}) /\ UNCHANGED sessions
    BY <1>2 DEF Join
  <2>2. \A r \in Requests : step'[r] \in {"member", "switch"} =>
          r # q /\ step'[r] = step[r] /\ job'[r] = job[r]
    BY <2>1, FinishedNotSwitching
  <2>3. \A v \in Users : role[v] # "none" => role'[v] # "none"
    BY <1>2 DEF Join, TypeOK, Invitation, Assignable
  <2> QED
    BY <2>1, <2>2, <2>3, SwitchWritten
<1>3. ASSUME NEW q \in Requests, OpenSession(q) PROVE SwitchSound'
  <2>1. Finish(q, {}) /\ UNCHANGED role /\ step[q] = "open" /\ job[q].user \in Users
    BY <1>3 DEF OpenSession, TargetLocked
  <2>2. \A r \in Requests : step'[r] \in {"member", "switch"} =>
          r # q /\ step'[r] = step[r] /\ job'[r] = job[r]
    BY <2>1, FinishedNotSwitching
  <2>3. \A s \in Sessions : sessions'[s] = sessions[s] \/
          (sessions[s].status = "none" /\ sessions'[s].user \in Users)
    BY <1>3, <2>1 DEF OpenSession, TypeOK
  <2> QED
    BY <2>1, <2>2, <2>3, SwitchWritten
<1>4. ASSUME NEW q \in Requests, SetActive(q) PROVE SwitchSound'
  <2>1. Finish(q, {}) /\ UNCHANGED role
    BY <1>4 DEF SetActive
  <2>2. \A r \in Requests : step'[r] \in {"member", "switch"} =>
          r # q /\ step'[r] = step[r] /\ job'[r] = job[r]
    BY <2>1, FinishedNotSwitching
  <2>3. \A s \in Sessions : /\ sessions'[s].user = sessions[s].user
                            /\ sessions'[s].status = sessions[s].status
    BY <1>4 DEF SetActive, TypeOK, Session
  <2> QED
    BY <2>1, <2>2, <2>3, SwitchWritten
<1>5. ASSUME NEW s \in Sessions, EndSession(s) \/ CleanUp(s) PROVE SwitchSound'
  <2>1. UNCHANGED <<role, step, job>>
    BY <1>5 DEF EndSession, CleanUp, requestVars
  <2>2. \A t \in Sessions :
          \/ sessions'[t] = sessions[t] \/ sessions'[t].status = "ended"
          \/ sessions'[t].status = "none" /\ \A r \in Requests : t \notin job[r].on
    BY <1>5 DEF EndSession, CleanUp, TypeOK, Session
  <2>3. Nobody \notin Requests
    BY ConstantsAssumption
  <2> QED
    BY <2>1, <2>2, <2>3, SwitchWritten
<1>6. ASSUME NEW q \in Requests, NEW s \in Sessions, AskActive(q, s) PROVE SwitchSound'
  <2>1. /\ step' = [step EXCEPT ![q] = "member"] /\ UNCHANGED <<role, sessions>>
        /\ job' = [job EXCEPT ![q] = Asked(sessions[s].user, "none", {s}, FALSE)]
        /\ s \in Active
    BY <1>6 DEF AskActive, Ask
  <2>2. job'[q].user = sessions[s].user /\ job'[q].on = {s} /\ step'[q] = "member"
    BY <2>1 DEF TypeOK, Asked
  <2>3. \A r \in Requests \ {q} : step'[r] = step[r] /\ job'[r] = job[r]
    BY <2>1 DEF TypeOK
  <2>4. sessions[s].status = "active" /\ sessions[s].user \in Users /\ Active' = Active
    BY <2>1 DEF SwitchSound, Active
  <2>5. ASSUME NEW r \in Requests, step'[r] \in {"member", "switch"}
        PROVE  /\ job'[r].user \in Users
               /\ \A t \in Sessions \cap job'[r].on :
                    /\ sessions'[t].status # "none"
                    /\ step'[r] = "switch" /\ t \in Active' /\ sessions'[t].user = job'[r].user
                         => role'[job'[r].user] # "none"
    <3>1. CASE r = q
      BY <2>1, <2>2, <2>4, <3>1
    <3>2. CASE r # q
      BY <2>1, <2>3, <2>4, <2>5, <3>2 DEF SwitchSound
    <3> QED
      BY <3>1, <3>2
  <2> QED
    BY <2>1, <2>4, <2>5 DEF SwitchSound
<1>7. ASSUME NEW q \in Requests, FindMember(q) PROVE SwitchSound'
  <2>1. CASE GiveUp(q)
    BY <2>1, FinishedNotSwitching, SwitchUntouched DEF GiveUp
  <2>2. CASE ~GiveUp(q)
    <3>1. /\ step[q] = "member" /\ role[job[q].user] # "none"
          /\ step' = [step EXCEPT ![q] = "switch"] /\ UNCHANGED <<role, sessions, job>>
      BY <1>7, <2>2 DEF FindMember, Go
    <3> QED
      BY <3>1 DEF SwitchSound, Active, TypeOK
  <2> QED
    BY <2>1, <2>2
<1>8. ASSUME NEW q \in Requests,
             \/ \E u \in Users, to \in Assignable \cup {"none"} : AskChange(q, u, to)
             \/ \E i \in Invitations : AskAccept(q, i)
             \/ \E i \in Invitations : AskRevoke(q, i)
             \/ \E u \in Users : AskLogin(q, u)
      PROVE  SwitchSound'
  <2>1. PICK first \in {"target", "accept", "revoke", "open"} : \E asked : Ask(q, first, asked)
    BY <1>8 DEF AskChange, AskAccept, AskRevoke, AskLogin
  <2>2. \A r \in Requests : step'[r] \in {"member", "switch"} =>
          step'[r] = step[r] /\ job'[r] = job[r]
    BY <2>1 DEF Ask, TypeOK
  <2> QED
    BY <2>1, <2>2, SwitchUntouched DEF Ask
<1>9. ASSUME NEW q \in Requests,
             \/ LockTarget(q) \/ SnapshotGovernors(q) \/ LockGovernor(q)
             \/ Refuse(q) \/ LockInvitation(q) \/ InsertMember(q)
             \/ Abort(q) \/ BreakDeadlock(q)
      PROVE  SwitchSound'
  <2>1. CASE GiveUp(q)
    BY <2>1, FinishedNotSwitching, SwitchUntouched DEF GiveUp
  <2>2. CASE ~GiveUp(q)
    <3>1. /\ UNCHANGED <<role, sessions, job>>
          /\ \/ UNCHANGED step
             \/ \E next \in {"governors", "locking", "insert", "joined"} :
                  step' = [step EXCEPT ![q] = next]
      BY <1>9, <2>2 DEF LockTarget, SnapshotGovernors, LockGovernor, Refuse, LockInvitation,
         InsertMember, Abort, BreakDeadlock, Go
    <3>2. \A r \in Requests : step'[r] \in {"member", "switch"} =>
            step'[r] = step[r] /\ job'[r] = job[r]
      BY <3>1 DEF TypeOK
    <3> QED
      BY <3>1, <3>2, SwitchUntouched
  <2> QED
    BY <2>1, <2>2
<1>10. ASSUME NEW q \in Requests, Revoke(q) PROVE SwitchSound'
  <2>1. Finish(q, {}) /\ UNCHANGED <<role, sessions>>
    BY <1>10 DEF Revoke
  <2> QED
    BY <2>1, FinishedNotSwitching, SwitchUntouched
<1>11. CASE UNCHANGED <<role, sessions, step, job>>
  BY <1>11, SwitchUntouched
<1> QED
  BY <1>1, <1>2, <1>3, <1>4, <1>5, <1>6, <1>7, <1>8, <1>9, <1>10, <1>11
  DEF Next, Advance, Wait, Invite, Expire, requestVars, vars

\* Only a login leaves an active session in an organization its user was removed
\* from; no removal, acceptance or switch does, whatever they overlap.
THEOREM OnlyLoginsStray == Spec => StraysFromLogin
<1>1. Init => SwitchSound
  BY DEF Init, SwitchSound, Active
<1>2. ASSUME IInv, SwitchSound, [Next]_vars, NEW s \in Sessions, Stray(s)', ~Stray(s)
      PROVE  sessions[s].status = "none"
  <2> DEFINE Members == {u \in Users : role[u] # "none"}
  <2> USE DEF IInv
  <2>0. /\ sessions'[s].status = "active" /\ sessions'[s].here
        /\ sessions'[s].user \notin Members'
        /\ sessions[s].status = "active" /\ sessions[s].here => sessions[s].user \in Members
    BY <1>2 DEF Stray, Active
  <2>1. ASSUME NEW q \in Requests, Change(q) PROVE FALSE
    <3>0. sessions'[s] = IF sessions[s].user # job[q].user THEN sessions[s]
                         ELSE [sessions[s] EXCEPT !.here = FALSE, !.status = "ended"]
      BY <2>1 DEF Change
    <3>1. sessions'[s] = sessions[s] /\ sessions[s].user # job[q].user
      <4>1. sessions[s] \in Session
        BY <1>2 DEF TypeOK
      <4> QED
        BY <2>0, <3>0, <4>1 DEF Session
    <3>2. sessions[s].user \in Members
      BY <2>0, <3>1
    <3>3. role'[sessions[s].user] = role[sessions[s].user]
      BY <1>2, <2>1, <3>1, <3>2 DEF Change, TypeOK
    <3> QED
      BY <2>0, <3>1, <3>2, <3>3
  <2>2. ASSUME NEW q \in Requests, Join(q) PROVE FALSE
    <3>1. sessions'[s] = sessions[s] /\ \A v \in Users : role[v] # "none" => role'[v] # "none"
      BY <1>2, <2>2 DEF Join, TypeOK, Invitation, Assignable
    <3> QED
      BY <2>0, <3>1
  <2>3. ASSUME NEW q \in Requests, OpenSession(q) PROVE sessions[s].status = "none"
    <3>1. sessions'[s] = sessions[s] \/ sessions[s].status = "none"
      BY <1>2, <2>3 DEF OpenSession, TypeOK
    <3>2. UNCHANGED role
      BY <2>3 DEF OpenSession
    <3> QED
      BY <2>0, <3>1, <3>2
  <2>4. ASSUME NEW q \in Requests, SetActive(q) PROVE FALSE
    <3>1. PICK t \in Sessions \cap job[q].on :
            /\ step[q] = "switch" /\ UNCHANGED role
            /\ sessions' = [sessions EXCEPT ![t].here = sessions[t].user = job[q].user]
      BY <2>4 DEF SetActive
    <3>2. CASE s # t
      BY <1>2, <2>0, <3>1, <3>2 DEF TypeOK
    <3>3. CASE s = t
      <4>1. /\ sessions'[s].user = sessions[s].user /\ sessions'[s].status = sessions[s].status
            /\ sessions'[s].here = (sessions[s].user = job[q].user)
        BY <1>2, <3>1, <3>3 DEF TypeOK, Session
      <4>2. job[q].user \in Users /\ role[job[q].user] # "none"
        BY <1>2, <2>0, <3>1, <3>3, <4>1 DEF SwitchSound, Active
      <4> QED
        BY <2>0, <3>1, <4>1, <4>2
    <3> QED
      BY <3>2, <3>3
  <2>5. ASSUME NEW t \in Sessions, EndSession(t) \/ CleanUp(t) PROVE FALSE
    <3>1. (sessions'[s] = sessions[s] \/ sessions'[s].status # "active") /\ UNCHANGED role
      BY <1>2, <2>5 DEF EndSession, CleanUp, TypeOK, Session
    <3> QED
      BY <2>0, <3>1
  <2>6. CASE UNCHANGED <<role, sessions>>
    BY <2>0, <2>6
  <2> QED
    BY <1>2, <2>1, <2>2, <2>3, <2>4, <2>5, <2>6
    DEF Next, Wait, Advance, Ask, AskChange, AskAccept, AskRevoke, AskLogin, AskActive,
        LockTarget, SnapshotGovernors, LockGovernor, Refuse, LockInvitation, InsertMember,
        Invite, Expire, Revoke, FindMember, Abort, BreakDeadlock, GiveUp, Go, vars
<1>3. IInv /\ SwitchSound /\ [Next]_vars =>
        \A s \in Sessions : Stray(s)' => Stray(s) \/ sessions[s].status = "none"
  BY <1>2
<1> QED
  BY <1>1, <1>3, SwitchStep, Invariant, PTL DEF Spec, StraysFromLogin

-----------------------------------------------------------------------------
(* What the members can rely on. *)

\* The owner keeps his role, whoever governs besides him.
THEOREM OwnerIsKept == Spec => Book!OwnerStays
<1>1. TypeOK /\ [Book!Next]_(Book!vars) =>
        \A u \in Users : role[u] = "owner" => role'[u] = "owner"
  BY DEF TypeOK, Book!Next, Book!vars, Book!Change, Book!Accept, Book!Expire, Book!Revoke,
     Book!Invite, Book!Open, Book!Switch, Book!End, Book!Forget
<1> QED
  BY <1>1, MembersImplemented, MembershipsTypeCorrect, PTL DEF BookSpec, Book!Spec, Book!OwnerStays

\* Whoever is changed or removed is logged out in that step, and out of the
\* organization, but for a login that is in flight.
THEOREM ChangesLogOut == Spec => Book!ChangedLogsOut
<1>1. TypeOK /\ [Book!Next]_(Book!vars) =>
        \A u \in Users : role'[u] # role[u] /\ role[u] # "none" =>
          \A s \in Sessions : sessions'[s].user = u =>
            sessions'[s].status # "active" /\ ~sessions'[s].here
  <2> SUFFICES ASSUME TypeOK, [Book!Next]_(Book!vars), NEW u \in Users,
                      role'[u] # role[u], role[u] # "none",
                      NEW s \in Sessions, sessions'[s].user = u
               PROVE  sessions'[s].status # "active" /\ ~sessions'[s].here
    OBVIOUS
  <2>1. PICK v \in Users, to \in Book!Assignable \cup {"none"} : Book!Change(v, to)
    BY DEF TypeOK, Book!Next, Book!vars, Book!Accept, Book!Expire, Book!Revoke,
       Book!Invite, Book!Open, Book!Switch, Book!End, Book!Forget
  <2>2. v = u
    BY <2>1 DEF TypeOK, Book!Change
  <2>3. sessions[s].user = u
    BY <2>1, <2>2 DEF TypeOK, Session, Book!Change
  <2> QED
    BY <2>1, <2>2, <2>3 DEF TypeOK, Session, Book!Change
<1> QED
  BY <1>1, MembersImplemented, MembershipsTypeCorrect, PTL
  DEF BookSpec, Book!Spec, Book!ChangedLogsOut

\* An invitation that was accepted or revoked cannot be accepted again.
THEOREM InvitationsStayEnded == Spec => Book!InvitationsEnd
<1>1. TypeOK /\ [Book!Next]_(Book!vars) =>
        \A i \in Invitations :
          invitations[i].status \in {"accepted", "revoked"} =>
            invitations'[i].status \in {invitations[i].status, "revoked"}
  BY DEF TypeOK, Invitation, Book!Next, Book!vars, Book!Change, Book!Accept, Book!Expire,
     Book!Revoke, Book!Invite, Book!Open, Book!Switch, Book!End, Book!Forget
<1> QED
  BY <1>1, MembersImplemented, MembershipsTypeCorrect, PTL
  DEF BookSpec, Book!Spec, Book!InvitationsEnd

=============================================================================

-------------------------- MODULE UserRolesProofs ---------------------------
(***************************************************************************)
(* Theorems of UserRoles, for every set of users, sessions and requests.   *)
(*                                                                         *)
(* The argument is the discipline of the locks: whoever reads or writes    *)
(* the roles of a user holds the user's row, an administrator row cannot   *)
(* go while another request holds it, and rows are taken in the order of   *)
(* their key.                                                              *)
(***************************************************************************)
EXTENDS UserRoles, FiniteSetTheorems, TLAPS

\* A finite set of integers has a least and a greatest element: no smallest subset
\* is without.
LEMMA FiniteHasEnds ==
  ASSUME NEW S \in SUBSET Int, IsFiniteSet(S), S # {}
  PROVE  \E u, w \in S : \A v \in S : u <= v /\ v <= w
<1> DEFINE Ends(X) == \E u, w \in X : \A v \in X : u <= v /\ v <= w
           Without == {X \in SUBSET S : X # {} /\ ~Ends(X)}
           R == StrictSubsetOrdering(S)
<1> SUFFICES ASSUME Without # {} PROVE FALSE
  <2>1. S \in SUBSET S
    OBVIOUS
  <2>2. Ends(S)
    BY <2>1
  <2> QED
    BY <2>2
<1>1. IsWellFoundedOn(R, SUBSET S)
  BY FS_StrictSubsetOrderingWellFounded, FS_FiniteSubsetsOfFinite
<1>2. Without \subseteq SUBSET S
  OBVIOUS
<1> HIDE DEF R
<1>3. \E X \in Without : \A Y \in Without : <<Y, X>> \notin R
  <2> HIDE DEF Without
  <2> QED
    BY <1>1, <1>2, WFMin
<1>4. PICK X \in Without : \A Y \in Without : <<Y, X>> \notin R
  BY <1>3
<1>5. PICK x \in X : TRUE
  OBVIOUS
<1> DEFINE Y == X \ {x}
<1>6. <<Y, X>> \in R
  BY <1>5 DEF R, StrictSubsetOrdering
<1>7. CASE Y = {}
  <2>1. \A v \in X : x <= v /\ v <= x
    BY <1>5, <1>7
  <2> QED
    BY <1>5, <2>1
<1>8. CASE Y # {}
  <2>1. Ends(Y)
    BY <1>4, <1>6, <1>8
  <2>2. PICK u, w \in Y : \A v \in Y : u <= v /\ v <= w
    BY <2>1
  <2> DEFINE least == IF x < u THEN x ELSE u
             greatest == IF x > w THEN x ELSE w
  <2>3. least \in X /\ greatest \in X /\ \A v \in X : least <= v /\ v <= greatest
    <3>1. X \subseteq Int /\ \A v \in X : v = x \/ v \in Y
      OBVIOUS
    <3>2. x \in Int /\ u \in Int /\ w \in Int /\ u \in X /\ w \in X /\ u <= w
      BY <1>5, <2>2, <3>1
    <3> HIDE DEF Y, Without
    <3> QED
      BY <1>5, <2>2, <3>1, <3>2
  <2> QED
    BY <2>3
<1> QED
  BY <1>7, <1>8

\* First picks the least of a set of users.
LEMMA FirstIsLeast ==
  ASSUME NEW S \in SUBSET Users, S # {}
  PROVE  First(S) \in S /\ \A v \in S : First(S) <= v
<1>1. S \in SUBSET Int /\ IsFiniteSet(S)
  BY ConstantsAssumption, FS_Subset
<1> QED
  BY <1>1, FiniteHasEnds DEF First

\* Ending sessions keeps the others, and what it ends is of no user.
LEMMA EndingIsSession ==
  ASSUME TypeOK, NEW ended
  PROVE  /\ Book!Ending(ended) \in [Sessions -> Session]
         /\ \A s \in Sessions :
              Book!Ending(ended)[s].status = "active" =>
                Book!Ending(ended)[s] = sessions[s] /\ (s \notin ended)
BY DEF TypeOK, Session, Role, Book!Ending, Book!Ended, Book!NoSession, Book!Role

-----------------------------------------------------------------------------
(* The inductive invariant.                                                *)

Holding == {"admins", "locking", "read", "open"}

\* Who is past its first lock holds the row of its user, and only that one.
UserLocks ==
  /\ \A r \in Requests : step[r] # "idle" => job[r].user \in Users
  /\ \A r \in Requests : step[r] \in Holding => userLock[job[r].user] = r
  /\ \A r \in Requests, u \in Users :
       userLock[u] = r => step[r] \in Holding /\ job[r].user = u

\* Locked rows, and the rows of a snapshot, are administrators still; and a
\* request that has taken its snapshot has its own user in it.
AdminLocks ==
  /\ \A u \in Users : adminLock[u] # Nobody => u \in Admins
  /\ \A r \in Requests : todo[r] \subseteq Admins
  /\ \A r \in Requests, u \in Users : adminLock[u] = r => step[r] = "locking"
  /\ \A r \in Requests : step[r] = "locking" /\ job[r].user \in Admins =>
                           job[r].user \in todo[r] \cup Locked(r)
  /\ \A r \in Requests : todo[r] # {} => step[r] = "locking"

\* Rows are taken in the order of the key.
LockOrder ==
  \A r \in Requests, u, v \in Users : adminLock[u] = r /\ v \in todo[r] => u < v

\* The roles of the token are those of the user until the session is open.
RolesRead == \A r \in Requests : step[r] = "open" => job[r].held = roles[job[r].user]

\* A session that a request is to replace is still there, if it has ended or not.
SourcesKept ==
  \A r \in Requests : \A s \in job[r].from : sessions[s].status # "none"

\* A session that is active is of a user.
SessionsOwned == \A s \in Active : sessions[s].user \in Users

IInv ==
  /\ TypeOK /\ UserLocks /\ AdminLocks /\ LockOrder
  /\ RolesRead /\ SourcesKept /\ SessionsOwned
  /\ AdminRemains /\ SessionRolesHeld
-----------------------------------------------------------------------------
(* What the end of a transaction leaves.                                   *)

LEMMA FinishKeeps ==
  ASSUME TypeOK, UserLocks, LockOrder,
         NEW r \in Requests, NEW deleted, Finish(r, deleted)
  PROVE  /\ step' \in [Requests -> Step] /\ job' \in [Requests -> Job]
         /\ todo' \in [Requests -> SUBSET Users]
         /\ userLock' \in [Users -> Requests \cup {Nobody}]
         /\ adminLock' \in [Users -> Requests \cup {Nobody}]
         /\ step'[r] = "idle" /\ job'[r].from = {} /\ todo'[r] = {}
         /\ \A q \in Requests : q # r =>
              /\ step'[q] = step[q] /\ job'[q] = job[q] /\ todo'[q] = todo[q] \ deleted
              /\ \A u \in Users : adminLock'[u] = q <=> adminLock[u] = q
         /\ \A u \in Users : adminLock'[u] # r
         /\ UserLocks' /\ LockOrder'
<1> USE ConstantsAssumption
<1>1. NoJob \in Job /\ NoJob.from = {}
  BY DEF NoJob, Asked, Job, Role
<1>2. /\ step' \in [Requests -> Step] /\ job' \in [Requests -> Job]
      /\ todo' \in [Requests -> SUBSET Users]
      /\ userLock' \in [Users -> Requests \cup {Nobody}]
      /\ adminLock' \in [Users -> Requests \cup {Nobody}]
  BY <1>1 DEF TypeOK, Finish, Step
<1>3. step'[r] = "idle" /\ job'[r].from = {} /\ todo'[r] = {}
  BY <1>1 DEF TypeOK, Finish
<1>4. /\ \A q \in Requests : q # r =>
           /\ step'[q] = step[q] /\ job'[q] = job[q] /\ todo'[q] = todo[q] \ deleted
           /\ \A u \in Users : /\ adminLock'[u] = q <=> adminLock[u] = q
                               /\ userLock'[u] = q <=> userLock[u] = q
      /\ \A u \in Users : adminLock'[u] # r /\ userLock'[u] # r
  BY DEF TypeOK, Finish
<1>5. UserLocks'
  <2>1. \A q \in Requests : step'[q] # "idle" => job'[q].user \in Users
    BY <1>3, <1>4 DEF UserLocks
  <2>2. \A q \in Requests : step'[q] \in Holding => userLock'[job'[q].user] = q
    <3> SUFFICES ASSUME NEW q \in Requests, step'[q] \in Holding
                 PROVE  userLock'[job'[q].user] = q
      OBVIOUS
    <3>1. q # r /\ step'[q] = step[q] /\ job'[q] = job[q]
      BY <1>3, <1>4 DEF Holding
    <3>2. job[q].user \in Users /\ userLock[job[q].user] = q
      BY <3>1 DEF UserLocks, Holding
    <3>3. \A u \in Users : userLock'[u] = q <=> userLock[u] = q
      BY <1>4, <3>1
    <3> QED
      BY <3>1, <3>2, <3>3
  <2>3. \A q \in Requests, u \in Users :
          userLock'[u] = q => step'[q] \in Holding /\ job'[q].user = u
    BY <1>3, <1>4 DEF UserLocks
  <2> QED
    BY <2>1, <2>2, <2>3 DEF UserLocks
<1>6. LockOrder'
  BY <1>3, <1>4 DEF LockOrder
<1> QED
  BY <1>2, <1>3, <1>4, <1>5, <1>6

\* The administrator rows stay in order when a transaction ends, if nobody else
\* holds a row that it deletes or is about the user of one.
LEMMA FinishLocks ==
  ASSUME TypeOK, UserLocks, AdminLocks, LockOrder,
         NEW r \in Requests, NEW deleted, Finish(r, deleted),
         \A u \in Users \ deleted : u \in Admins => u \in Admins',
         \A u \in Users \ deleted : u \in Admins' => u \in Admins,
         \A u \in Users \cap deleted : adminLock[u] \in {r, Nobody},
         \A q \in Requests : q # r /\ step[q] = "locking" => job[q].user \notin deleted
  PROVE  AdminLocks'
<1> USE ConstantsAssumption
<1>0. /\ step'[r] = "idle" /\ todo'[r] = {}
      /\ \A q \in Requests : q # r =>
           /\ step'[q] = step[q] /\ job'[q] = job[q] /\ todo'[q] = todo[q] \ deleted
           /\ \A u \in Users : adminLock'[u] = q <=> adminLock[u] = q
      /\ \A u \in Users : adminLock'[u] # r
      /\ adminLock' \in [Users -> Requests \cup {Nobody}]
      /\ todo' \in [Requests -> SUBSET Users]
  <2> HIDE DEF Finish, TypeOK, UserLocks, LockOrder
  <2> QED
    BY FinishKeeps
<1>1. \A u \in Users : adminLock'[u] # Nobody => u \in Admins'
  <2> SUFFICES ASSUME NEW u \in Users, adminLock'[u] # Nobody PROVE u \in Admins'
    OBVIOUS
  <2>1. adminLock'[u] \in Requests /\ adminLock'[u] # r
    BY <1>0
  <2>2. adminLock[u] = adminLock'[u]
    BY <1>0, <2>1
  <2>3. u \in Admins /\ u \notin deleted
    BY <2>1, <2>2 DEF AdminLocks
  <2> QED
    BY <2>3
<1>2. \A q \in Requests : todo'[q] \subseteq Admins'
  <2> SUFFICES ASSUME NEW q \in Requests, NEW u \in todo'[q] PROVE u \in Admins'
    OBVIOUS
  <2>1. q # r /\ u \in todo[q] \ deleted
    BY <1>0
  <2>2. u \in Users /\ u \in Admins
    BY <2>1 DEF AdminLocks, TypeOK
  <2> QED
    BY <2>1, <2>2
<1>3. \A q \in Requests, u \in Users : adminLock'[u] = q => step'[q] = "locking"
  BY <1>0 DEF AdminLocks
<1>4. \A q \in Requests : step'[q] = "locking" /\ job'[q].user \in Admins' =>
                            job'[q].user \in todo'[q] \cup Locked(q)'
  <2> SUFFICES ASSUME NEW q \in Requests, step'[q] = "locking", job'[q].user \in Admins'
               PROVE  job'[q].user \in todo'[q] \cup Locked(q)'
    OBVIOUS
  <2> DEFINE u == job[q].user
  <2>1. q # r /\ step[q] = "locking" /\ job'[q].user = u /\ u \notin deleted
    BY <1>0
  <2>2. u \in Users
    BY <2>1 DEF UserLocks
  <2>3. u \in todo[q] \cup Locked(q)
    BY <2>1, <2>2 DEF AdminLocks
  <2>4. CASE u \in todo[q]
    BY <2>4, <2>1, <1>0
  <2>5. CASE u \in Locked(q)
    BY <2>5, <2>1, <2>2, <1>0 DEF Locked
  <2> QED
    BY <2>3, <2>4, <2>5
<1>5. \A q \in Requests : todo'[q] # {} => step'[q] = "locking"
  BY <1>0 DEF AdminLocks
<1> QED
  BY <1>1, <1>2, <1>3, <1>4, <1>5 DEF AdminLocks

\* A transaction that ends without writing keeps the invariant.
LEMMA FinishOnly ==
  ASSUME IInv, NEW r \in Requests, Finish(r, {}), UNCHANGED <<roles, account, sessions>>
  PROVE  IInv'
<1>1. Admins' = Admins /\ Active' = Active
  BY DEF Admins, Book!Admins, Active
<1>0. /\ step' \in [Requests -> Step] /\ job' \in [Requests -> Job]
      /\ todo' \in [Requests -> SUBSET Users]
      /\ userLock' \in [Users -> Requests \cup {Nobody}]
      /\ adminLock' \in [Users -> Requests \cup {Nobody}]
      /\ step'[r] = "idle" /\ job'[r].from = {}
      /\ \A q \in Requests : q # r => step'[q] = step[q] /\ job'[q] = job[q]
      /\ UserLocks' /\ LockOrder'
  BY FinishKeeps DEF IInv
<1>2. TypeOK'
  BY <1>0 DEF TypeOK, IInv
<1>3. AdminLocks'
  BY <1>1, FinishLocks DEF IInv
<1>4. RolesRead' /\ SourcesKept'
  BY <1>0 DEF RolesRead, SourcesKept, IInv
<1>5. SessionsOwned' /\ AdminRemains' /\ SessionRolesHeld'
  BY <1>1 DEF SessionsOwned, AdminRemains, SessionRolesHeld, IInv
<1> QED
  BY <1>0, <1>2, <1>3, <1>4, <1>5 DEF IInv
-----------------------------------------------------------------------------
(* Every action keeps the invariant.                                       *)

LEMMA AskKeeps ==
  ASSUME IInv, NEW r \in Requests, NEW first \in {"change", "login"}, NEW asked \in Job,
         asked.user \in Users, asked.from \subseteq Active, Ask(r, first, asked)
  PROVE  IInv'
<1> USE DEF Ask, lockVars
<1>1. /\ step[r] = "idle" /\ step'[r] = first /\ job'[r] = asked
      /\ \A q \in Requests : q # r => step'[q] = step[q] /\ job'[q] = job[q]
      /\ step' \in [Requests -> Step] /\ job' \in [Requests -> Job]
  BY DEF IInv, TypeOK, Step
<1>2. UNCHANGED <<roles, account, sessions, todo, userLock, adminLock, Admins, Active>>
  BY DEF Admins, Book!Admins, Active
<1>3. TypeOK'
  BY <1>1, <1>2 DEF IInv, TypeOK
<1>4. UserLocks'
  BY <1>1, <1>2 DEF IInv, UserLocks, Holding
<1>5. AdminLocks'
  BY <1>1, <1>2 DEF IInv, AdminLocks, Locked
<1>6. LockOrder' /\ AdminRemains' /\ SessionRolesHeld' /\ SessionsOwned'
  BY <1>1, <1>2 DEF IInv, LockOrder, AdminRemains, SessionRolesHeld, SessionsOwned
<1>7. RolesRead'
  BY <1>1, <1>2 DEF IInv, RolesRead
<1>8. SourcesKept'
  BY <1>1, <1>2 DEF IInv, SourcesKept, Active
<1> QED
  BY <1>3, <1>4, <1>5, <1>6, <1>7, <1>8 DEF IInv

LEMMA LockUserKeeps ==
  ASSUME IInv, NEW r \in Requests, LockUser(r)
  PROVE  IInv'
<1> DEFINE u == job[r].user
<1> USE ConstantsAssumption
<1>0. u \in Users /\ step[r] \in {"change", "login"} /\ userLock[u] = Nobody
  BY DEF IInv, UserLocks, LockUser
<1>1. /\ step'[r] \in {"admins", "read"} /\ userLock'[u] = r
      /\ \A v \in Users : v # u => userLock'[v] = userLock[v]
      /\ \A q \in Requests : q # r => step'[q] = step[q]
      /\ step' \in [Requests -> Step] /\ userLock' \in [Users -> Requests \cup {Nobody}]
  BY <1>0 DEF IInv, TypeOK, Step, LockUser
<1>2. UNCHANGED <<roles, account, sessions, job, todo, adminLock, Admins, Active>>
  BY DEF LockUser, Admins, Book!Admins, Active
<1>3. TypeOK'
  BY <1>1, <1>2 DEF IInv, TypeOK
<1>4. UserLocks'
  <2>1. \A q \in Requests : step'[q] # "idle" => job'[q].user \in Users
    BY <1>0, <1>1, <1>2 DEF IInv, UserLocks
  <2>2. \A q \in Requests : step'[q] \in Holding => userLock'[job'[q].user] = q
    <3> SUFFICES ASSUME NEW q \in Requests, step'[q] \in Holding
                 PROVE  userLock'[job[q].user] = q
      BY <1>2
    <3>1. CASE q = r
      BY <3>1, <1>1
    <3>2. CASE q # r
      <4>1. step[q] \in Holding /\ job[q].user \in Users /\ userLock[job[q].user] = q
        BY <3>2, <1>1 DEF IInv, UserLocks, Holding
      <4>2. job[q].user # u
        BY <4>1, <1>0
      <4> QED
        BY <4>1, <4>2, <1>1
    <3> QED
      BY <3>1, <3>2
  <2>3. \A q \in Requests, v \in Users :
          userLock'[v] = q => step'[q] \in Holding /\ job'[q].user = v
    BY <1>0, <1>1, <1>2 DEF IInv, UserLocks, Holding
  <2> QED
    BY <2>1, <2>2, <2>3 DEF UserLocks
<1>5. AdminLocks'
  BY <1>0, <1>1, <1>2 DEF IInv, AdminLocks, Locked
<1>6. LockOrder' /\ AdminRemains' /\ SessionRolesHeld' /\ SessionsOwned'
  BY <1>1, <1>2 DEF IInv, LockOrder, AdminRemains, SessionRolesHeld, SessionsOwned
<1>7. RolesRead' /\ SourcesKept'
  BY <1>1, <1>2 DEF IInv, RolesRead, SourcesKept
<1> QED
  BY <1>3, <1>4, <1>5, <1>6, <1>7 DEF IInv

LEMMA SnapshotKeeps ==
  ASSUME IInv, NEW r \in Requests, SnapshotAdmins(r)
  PROVE  IInv'
<1> USE ConstantsAssumption
<1>0. Admins \subseteq Users
  BY DEF Admins, Book!Admins
<1>1. /\ step[r] = "admins" /\ step'[r] = "locking" /\ todo'[r] = Admins
      /\ \A q \in Requests : q # r => step'[q] = step[q] /\ todo'[q] = todo[q]
      /\ step' \in [Requests -> Step] /\ todo' \in [Requests -> SUBSET Users]
  BY <1>0 DEF IInv, TypeOK, Step, SnapshotAdmins
<1>2. UNCHANGED <<roles, account, sessions, job, userLock, adminLock, Admins, Active>>
  BY DEF SnapshotAdmins, lockVars, Admins, Book!Admins, Active
<1>3. TypeOK'
  BY <1>1, <1>2 DEF IInv, TypeOK
<1>4. UserLocks'
  BY <1>1, <1>2 DEF IInv, UserLocks, Holding
<1>5. AdminLocks'
  BY <1>1, <1>2 DEF IInv, AdminLocks, Locked
<1>6. LockOrder'
  BY <1>1, <1>2 DEF IInv, LockOrder, AdminLocks
<1>7. RolesRead' /\ SourcesKept' /\ AdminRemains' /\ SessionRolesHeld' /\ SessionsOwned'
  BY <1>1, <1>2
     DEF IInv, RolesRead, SourcesKept, AdminRemains, SessionRolesHeld, SessionsOwned
<1> QED
  BY <1>3, <1>4, <1>5, <1>6, <1>7 DEF IInv

LEMMA LockAdminKeeps ==
  ASSUME IInv, NEW r \in Requests, LockAdmin(r)
  PROVE  IInv'
<1> DEFINE u == First(todo[r])
<1> USE ConstantsAssumption
<1>0. /\ u \in todo[r] /\ u \in Users /\ step[r] = "locking" /\ adminLock[u] = Nobody
      /\ \A v \in todo[r] : u <= v
  BY FirstIsLeast DEF IInv, TypeOK, LockAdmin
<1>1. /\ todo'[r] = todo[r] \ {u} /\ adminLock'[u] = r
      /\ \A v \in Users : v # u => adminLock'[v] = adminLock[v]
      /\ \A q \in Requests : q # r => todo'[q] = todo[q]
      /\ todo' \in [Requests -> SUBSET Users]
      /\ adminLock' \in [Users -> Requests \cup {Nobody}]
  BY <1>0 DEF IInv, TypeOK, LockAdmin
<1>2. UNCHANGED <<roles, account, sessions, step, job, userLock, Admins, Active>>
  BY DEF LockAdmin, Admins, Book!Admins, Active
<1>3. TypeOK'
  BY <1>1, <1>2 DEF IInv, TypeOK
<1>4. UserLocks'
  BY <1>2 DEF IInv, UserLocks
<1>5. AdminLocks'
  <2>1. /\ \A v \in Users : adminLock'[v] # Nobody => v \in Admins'
        /\ \A q \in Requests : todo'[q] \subseteq Admins'
        /\ \A q \in Requests, v \in Users : adminLock'[v] = q => step'[q] = "locking"
        /\ \A q \in Requests : todo'[q] # {} => step'[q] = "locking"
    BY <1>0, <1>1, <1>2 DEF IInv, AdminLocks
  <2>2. \A q \in Requests : todo[q] \cup Locked(q) \subseteq todo'[q] \cup Locked(q)'
    BY <1>0, <1>1 DEF Locked
  <2>3. \A q \in Requests : step'[q] = "locking" /\ job'[q].user \in Admins' =>
                              job'[q].user \in todo'[q] \cup Locked(q)'
    BY <2>2, <1>2 DEF IInv, AdminLocks
  <2> QED
    BY <2>1, <2>3 DEF AdminLocks
<1>6. LockOrder'
  <2> SUFFICES ASSUME NEW q \in Requests, NEW v \in Users, NEW w \in Users,
                      adminLock'[v] = q, w \in todo'[q]
               PROVE  v < w
    BY DEF LockOrder
  <2>1. CASE v = u
    <3>1. q = r /\ w \in todo[r] /\ w # u
      BY <2>1, <1>1
    <3> QED
      BY <2>1, <3>1, <1>0
  <2>2. CASE v # u
    BY <2>2, <1>1 DEF IInv, LockOrder
  <2> QED
    BY <2>1, <2>2
<1>7. RolesRead' /\ SourcesKept' /\ AdminRemains' /\ SessionRolesHeld' /\ SessionsOwned'
  BY <1>2 DEF IInv, RolesRead, SourcesKept, AdminRemains, SessionRolesHeld, SessionsOwned
<1> QED
  BY <1>3, <1>4, <1>5, <1>6, <1>7 DEF IInv
LEMMA ReplaceKeeps ==
  ASSUME IInv, NEW r \in Requests, ReplaceRoles(r)
  PROVE  IInv'
<1> DEFINE u == job[r].user
           next == job[r].next
<1> USE ConstantsAssumption
<1>0. /\ step[r] = "locking" /\ todo[r] = {} /\ ~LastAdmin(r)
      /\ roles' = [roles EXCEPT ![u] = next] /\ Finish(r, {u})
      /\ sessions' = Book!Ending(Book!SessionsOf(u)) /\ account' = account
  BY DEF ReplaceRoles, Decides
<1>1. u \in Users /\ userLock[u] = r /\ next \in SUBSET Role
  BY <1>0 DEF IInv, UserLocks, Holding, TypeOK, Job
<1>2. /\ roles' \in [Users -> SUBSET Role] /\ roles'[u] = next
      /\ \A v \in Users : v # u => roles'[v] = roles[v]
  BY <1>0, <1>1 DEF IInv, TypeOK
<1>3. \A v \in Users : v # u => (v \in Admins <=> v \in Admins')
  BY <1>2 DEF Admins, Book!Admins
<1>4. \A q \in Requests : q # r /\ step[q] \in Holding => job[q].user # u
  BY <1>1 DEF IInv, UserLocks
<1>5. \A v \in Users \cap {u} : adminLock[v] \in {r, Nobody}
  <2>1. adminLock[u] # Nobody => u \in Locked(r)
    BY <1>0, <1>1 DEF IInv, AdminLocks
  <2> QED
    BY <2>1 DEF Locked
<1>6. /\ step' \in [Requests -> Step] /\ job' \in [Requests -> Job]
      /\ todo' \in [Requests -> SUBSET Users]
      /\ userLock' \in [Users -> Requests \cup {Nobody}]
      /\ adminLock' \in [Users -> Requests \cup {Nobody}]
      /\ step'[r] = "idle" /\ job'[r].from = {}
      /\ \A q \in Requests : q # r => step'[q] = step[q] /\ job'[q] = job[q]
      /\ UserLocks' /\ LockOrder'
  BY <1>0, FinishKeeps DEF IInv
<1>7. AdminLocks'
  <2>1. \A q \in Requests : q # r /\ step[q] = "locking" => job[q].user \notin {u}
    BY <1>4 DEF Holding
  <2> QED
    BY <1>0, <1>3, <1>5, <2>1, FinishLocks DEF IInv
<1>8. AdminRemains'
  <2>1. CASE "admin" \in next
    BY <2>1, <1>1, <1>2 DEF AdminRemains, Admins, Book!Admins
  <2>2. CASE "admin" \notin next
    <3>1. Locked(r) # {u}
      BY <1>0, <2>2 DEF LastAdmin
    <3>2. \E v \in Users : v \in Admins /\ v # u
      <4>1. CASE u \in Admins
        <5>1. u \in Locked(r)
          BY <4>1, <1>0 DEF IInv, AdminLocks
        <5>2. PICK v \in Locked(r) : v # u
          BY <3>1, <5>1
        <5>3. v \in Users /\ adminLock[v] # Nobody
          BY <5>2 DEF Locked
        <5> QED
          BY <5>2, <5>3 DEF IInv, AdminLocks
      <4>2. CASE u \notin Admins
        BY <4>2 DEF IInv, AdminRemains, Admins, Book!Admins
      <4> QED
        BY <4>1, <4>2
    <3> QED
      BY <3>2, <1>3 DEF AdminRemains
  <2> QED
    BY <2>1, <2>2
<1>9. /\ sessions' \in [Sessions -> Session]
      /\ \A s \in Active' : s \in Active /\ sessions'[s] = sessions[s] /\ sessions[s].user # u
  BY <1>0, EndingIsSession DEF IInv, Active, Book!SessionsOf
<1>10. SessionsOwned' /\ SessionRolesHeld'
  BY <1>2, <1>9 DEF IInv, SessionsOwned, SessionRolesHeld
<1>11. RolesRead'
  <2> SUFFICES ASSUME NEW q \in Requests, step'[q] = "open"
               PROVE  job'[q].held = roles'[job'[q].user]
    BY DEF RolesRead
  <2>1. q # r /\ step[q] = "open" /\ job'[q] = job[q]
    BY <1>6
  <2>2. job[q].user \in Users /\ job[q].user # u /\ job[q].held = roles[job[q].user]
    BY <2>1, <1>4 DEF IInv, UserLocks, RolesRead, Holding
  <2> QED
    BY <2>1, <2>2, <1>2
<1>12. SourcesKept'
  <2>1. \A s \in Sessions : sessions[s].status # "none" => sessions'[s].status # "none"
    BY <1>0 DEF Book!Ending, Book!Ended
  <2>2. \A q \in Requests : job[q].from \subseteq Sessions
    BY DEF IInv, TypeOK, Job
  <2> QED
    BY <1>6, <2>1, <2>2 DEF IInv, SourcesKept
<1>13. TypeOK'
  BY <1>0, <1>2, <1>6, <1>9 DEF IInv, TypeOK
<1> QED
  BY <1>6, <1>7, <1>8, <1>10, <1>11, <1>12, <1>13 DEF IInv

LEMMA ReadKeeps ==
  ASSUME IInv, NEW r \in Requests, ReadRoles(r)
  PROVE  IInv'
<1> USE ConstantsAssumption
<1>0. step[r] = "read" /\ job[r].user \in Users /\ roles[job[r].user] \in SUBSET Role
  BY DEF ReadRoles, IInv, UserLocks, TypeOK
<1>1. /\ step'[r] = "open" /\ job'[r].held = roles[job[r].user]
      /\ job'[r].user = job[r].user /\ job'[r].from = job[r].from
      /\ \A q \in Requests : q # r => step'[q] = step[q] /\ job'[q] = job[q]
      /\ step' \in [Requests -> Step] /\ job' \in [Requests -> Job]
  <2> DEFINE new == [job[r] EXCEPT !.held = roles[job[r].user]]
  <2>1. job' = [job EXCEPT ![r] = new] /\ step' = [step EXCEPT ![r] = "open"]
    BY DEF ReadRoles
  <2>2. /\ new \in Job /\ new.held = roles[job[r].user]
        /\ new.user = job[r].user /\ new.from = job[r].from
    <3>1. job[r] \in Job
      BY DEF IInv, TypeOK
    <3> QED
      BY <1>0, <3>1 DEF Job
  <2>3. job \in [Requests -> Job] /\ step \in [Requests -> Step] /\ "open" \in Step
    BY DEF IInv, TypeOK, Step
  <2> HIDE DEF new
  <2> QED
    BY <2>1, <2>2, <2>3
<1>2. UNCHANGED <<roles, account, sessions, todo, userLock, adminLock, Admins, Active>>
  BY DEF ReadRoles, lockVars, Admins, Book!Admins, Active
<1>3. TypeOK'
  BY <1>1, <1>2 DEF IInv, TypeOK
<1>4. UserLocks'
  BY <1>0, <1>1, <1>2 DEF IInv, UserLocks, Holding
<1>5. AdminLocks'
  BY <1>0, <1>1, <1>2 DEF IInv, AdminLocks, Locked
<1>6. LockOrder' /\ AdminRemains' /\ SessionRolesHeld' /\ SessionsOwned'
  BY <1>2 DEF IInv, LockOrder, AdminRemains, SessionRolesHeld, SessionsOwned
<1>7. RolesRead' /\ SourcesKept'
  BY <1>1, <1>2 DEF IInv, RolesRead, SourcesKept
<1> QED
  BY <1>3, <1>4, <1>5, <1>6, <1>7 DEF IInv

LEMMA OpenKeeps ==
  ASSUME IInv, NEW r \in Requests, OpenSession(r)
  PROVE  IInv'
<1> DEFINE u == job[r].user
<1> USE ConstantsAssumption
<1>0. /\ step[r] = "open" /\ Finish(r, {}) /\ roles' = roles /\ account' = account
      /\ u \in Users /\ job[r].held = roles[u] /\ job[r].pending \in BOOLEAN
  BY DEF OpenSession, IInv, UserLocks, RolesRead, TypeOK, Job
<1>1. Admins' = Admins
  BY <1>0 DEF Admins, Book!Admins
<1>2. /\ step' \in [Requests -> Step] /\ job' \in [Requests -> Job]
      /\ todo' \in [Requests -> SUBSET Users]
      /\ userLock' \in [Users -> Requests \cup {Nobody}]
      /\ adminLock' \in [Users -> Requests \cup {Nobody}]
      /\ step'[r] = "idle" /\ job'[r].from = {}
      /\ \A q \in Requests : q # r => step'[q] = step[q] /\ job'[q] = job[q]
      /\ UserLocks' /\ LockOrder'
  BY <1>0, FinishKeeps DEF IInv
<1>3. AdminLocks'
  BY <1>0, <1>1, FinishLocks DEF IInv
<1>4. RolesRead' /\ AdminRemains'
  BY <1>0, <1>1, <1>2 DEF IInv, RolesRead, AdminRemains
<1>5. /\ sessions' \in [Sessions -> Session]
      /\ \A s \in Active' : \/ s \in Active /\ sessions'[s] = sessions[s]
                            \/ sessions'[s].user = u /\ sessions'[s].roles = roles[u]
      /\ \A s \in Sessions : sessions[s].status # "none" => sessions'[s].status # "none"
  <2> DEFINE ended == Book!Ending(job[r].from)
             opened == Book!Opened(u, job[r].held, job[r].pending)
  <2>1. /\ ended \in [Sessions -> Session]
        /\ \A s \in Sessions : ended[s].status = "active" => ended[s] = sessions[s]
    BY EndingIsSession DEF IInv
  <2>2. \A s \in Sessions : sessions[s].status # "none" => ended[s].status # "none"
    BY DEF Book!Ending, Book!Ended
  <2>3. /\ opened \in Session /\ opened.user = u /\ opened.roles = roles[u]
        /\ opened.status # "none"
    BY <1>0 DEF Book!Opened, Session, IInv, TypeOK
  <2>4. CASE sessions' = ended
    BY <2>1, <2>2, <2>4 DEF Active
  <2>5. ASSUME NEW s \in Sessions, sessions' = [ended EXCEPT ![s] = opened]
        PROVE  <1>5!:
    <3> HIDE DEF ended, opened
    <3>1. /\ sessions' \in [Sessions -> Session] /\ sessions'[s] = opened
          /\ \A t \in Sessions : t # s => sessions'[t] = ended[t]
      BY <2>1, <2>3, <2>5
    <3> QED
      BY <2>1, <2>2, <2>3, <3>1 DEF Active
  <2> QED
    BY <2>4, <2>5 DEF OpenSession
<1>6. SessionsOwned' /\ SessionRolesHeld'
  BY <1>0, <1>5 DEF IInv, SessionsOwned, SessionRolesHeld
<1>7. SourcesKept'
  <2>1. \A q \in Requests : job[q].from \subseteq Sessions
    BY DEF IInv, TypeOK, Job
  <2> QED
    BY <1>2, <1>5, <2>1 DEF IInv, SourcesKept
<1>8. TypeOK'
  BY <1>0, <1>2, <1>5 DEF IInv, TypeOK
<1> QED
  BY <1>2, <1>3, <1>4, <1>6, <1>7, <1>8 DEF IInv
\* Sessions end, or an ended one is forgotten.
LEMMA SessionsKeep ==
  ASSUME IInv, UNCHANGED <<roles, account, requestVars, lockVars>>,
         \/ \E ended : sessions' = Book!Ending(ended)
         \/ \E s \in Sessions : /\ \A r \in Requests : s \notin job[r].from
                                /\ sessions[s].status = "ended"
                                /\ sessions' = [sessions EXCEPT ![s] = Book!NoSession]
  PROVE  IInv'
<1> USE ConstantsAssumption
<1>1. /\ sessions' \in [Sessions -> Session]
      /\ \A s \in Active' : s \in Active /\ sessions'[s] = sessions[s]
      /\ \A s \in Sessions : /\ sessions[s].status # "none"
                             /\ \E r \in Requests : s \in job[r].from
                             => sessions'[s].status # "none"
  <2>1. ASSUME NEW ended, sessions' = Book!Ending(ended) PROVE <1>1!:
    <3>1. \A s \in Sessions : sessions[s].status # "none" => sessions'[s].status # "none"
      BY <2>1 DEF Book!Ending, Book!Ended
    <3> QED
      BY <2>1, <3>1, EndingIsSession DEF IInv, Active
  <2>2. ASSUME NEW s \in Sessions, \A r \in Requests : s \notin job[r].from,
               sessions' = [sessions EXCEPT ![s] = Book!NoSession]
        PROVE  <1>1!:
    BY <2>2 DEF IInv, TypeOK, Session, Active, Book!NoSession
  <2> QED
    BY <2>1, <2>2
<1>2. UNCHANGED <<roles, account, step, job, todo, userLock, adminLock, Admins>>
  BY DEF requestVars, lockVars, Admins, Book!Admins
<1>3. TypeOK' /\ UserLocks' /\ LockOrder' /\ RolesRead' /\ AdminRemains'
  BY <1>1, <1>2 DEF IInv, TypeOK, UserLocks, LockOrder, RolesRead, AdminRemains
<1>4. AdminLocks'
  BY <1>2 DEF IInv, AdminLocks, Locked
<1>5. SessionsOwned' /\ SessionRolesHeld'
  BY <1>1, <1>2 DEF IInv, SessionsOwned, SessionRolesHeld
<1>6. SourcesKept'
  <2>1. \A q \in Requests : job[q].from \subseteq Sessions
    BY DEF IInv, TypeOK, Job
  <2> QED
    BY <1>1, <1>2, <2>1 DEF IInv, SourcesKept
<1> QED
  BY <1>3, <1>4, <1>5, <1>6 DEF IInv

\* A user registers; the first role comes while nobody holds the user's row.
LEMMA RegistrationKeeps ==
  ASSUME IInv, NEW u \in Users, Register(u) \/ AddRole(u) \/ CommitRole(u) \/ LoseRole(u)
  PROVE  IInv'
<1> USE ConstantsAssumption
<1>0. UNCHANGED <<sessions, step, job, todo, userLock, adminLock, Active>>
  BY DEF Register, AddRole, CommitRole, LoseRole, Book!Grant, requestVars, lockVars, Active
<1>1. account' \in [Users -> Account]
  BY DEF Register, AddRole, CommitRole, LoseRole, IInv, TypeOK, Account
<1>2. /\ roles' \in [Users -> SUBSET Role] /\ Admins' = Admins
      /\ \A v \in Users : \/ roles'[v] = roles[v]
                          \/ roles'[v] = roles[v] \cup {"auditor"} /\ userLock[v] = Nobody
  <2>1. CASE roles' = roles
    BY <2>1 DEF IInv, TypeOK, Admins, Book!Admins
  <2>2. CASE CommitRole(u)
    BY <2>2 DEF CommitRole, Book!Grant, IInv, TypeOK, Role, Admins, Book!Admins
  <2> QED
    BY <2>1, <2>2 DEF Register, AddRole, LoseRole
<1>3. TypeOK' /\ UserLocks' /\ LockOrder' /\ SourcesKept' /\ SessionsOwned' /\ AdminRemains'
  BY <1>0, <1>1, <1>2
     DEF IInv, TypeOK, UserLocks, LockOrder, SourcesKept, SessionsOwned, AdminRemains
<1>4. AdminLocks'
  BY <1>0, <1>2 DEF IInv, AdminLocks, Locked
<1>5. RolesRead'
  <2> SUFFICES ASSUME NEW r \in Requests, step[r] = "open"
               PROVE  job[r].held = roles'[job[r].user]
    BY <1>0 DEF RolesRead
  <2>1. job[r].user \in Users /\ userLock[job[r].user] = r /\ job[r].held = roles[job[r].user]
    BY DEF IInv, UserLocks, RolesRead, Holding
  <2> QED
    BY <1>2, <2>1
<1>6. SessionRolesHeld'
  <2> SUFFICES ASSUME NEW s \in Active
               PROVE  sessions[s].roles \in
                        {roles'[sessions[s].user], roles'[sessions[s].user] \ {"auditor"}}
    BY <1>0 DEF SessionRolesHeld
  <2> DEFINE v == sessions[s].user
             R == roles[v]
  <2>1. v \in Users /\ sessions[s].roles \in {R, R \ {"auditor"}}
    BY DEF IInv, SessionsOwned, SessionRolesHeld
  <2>2. CASE roles'[v] = R
    BY <2>1, <2>2
  <2>3. CASE roles'[v] = R \cup {"auditor"}
    <3>1. (R \cup {"auditor"}) \ {"auditor"} = R \ {"auditor"}
      OBVIOUS
    <3>2. R = R \cup {"auditor"} \/ R = R \ {"auditor"}
      OBVIOUS
    <3> QED
      BY <2>1, <2>3, <3>1, <3>2
  <2> QED
    BY <1>2, <2>1, <2>2, <2>3
<1> QED
  BY <1>3, <1>4, <1>5, <1>6 DEF IInv

LEMMA InvariantHolds == Spec => []IInv
<1>1. Init => IInv
  <2> SUFFICES ASSUME Init PROVE IInv
    OBVIOUS
  <2>1. TypeOK /\ UserLocks
    BY ConstantsAssumption
       DEF Init, Book!Init, Book!Role, Role, TypeOK, Account, Step, NoJob, Asked, Job,
           Session, Book!NoSession, UserLocks, Holding
  <2>2. AdminLocks /\ LockOrder /\ RolesRead /\ SourcesKept
    BY ConstantsAssumption
       DEF Init, AdminLocks, LockOrder, RolesRead, SourcesKept, Locked, NoJob, Asked
  <2>3. AdminRemains /\ SessionsOwned /\ SessionRolesHeld
    BY DEF Init, Book!Init, Book!NoSession, AdminRemains, Admins,
           SessionsOwned, SessionRolesHeld, Active
  <2> QED
    BY <2>1, <2>2, <2>3 DEF IInv
<1>2. IInv /\ [Next]_vars => IInv'
  <2> SUFFICES ASSUME IInv, [Next]_vars PROVE IInv'
    OBVIOUS
  <2>1. ASSUME NEW r \in Requests, NEW u \in Users, NEW next \in SUBSET Role,
               AskRoles(r, u, next)
        PROVE  IInv'
    <3>1. Asked(u, next, {}, FALSE) \in Job /\ Asked(u, next, {}, FALSE).user = u
          /\ Asked(u, next, {}, FALSE).from = {}
      BY DEF Asked, Job
    <3> QED
      BY <2>1, <3>1, AskKeeps DEF AskRoles
  <2>2. ASSUME NEW r \in Requests, NEW u \in Users, NEW pending \in BOOLEAN,
               AskLogin(r, u, pending)
        PROVE  IInv'
    <3>1. Asked(u, {}, {}, pending) \in Job /\ Asked(u, {}, {}, pending).user = u
          /\ Asked(u, {}, {}, pending).from = {}
      BY DEF Asked, Job
    <3> QED
      BY <2>2, <3>1, AskKeeps DEF AskLogin
  <2>3. ASSUME NEW r \in Requests, NEW s \in Sessions, AskPromotion(r, s) PROVE IInv'
    <3> DEFINE asked == Asked(sessions[s].user, {}, {s}, FALSE)
    <3>1. s \in Active /\ sessions[s].user \in Users
      BY <2>3 DEF AskPromotion, IInv, SessionsOwned
    <3>2. asked \in Job /\ asked.user \in Users /\ asked.from \subseteq Active
      BY <3>1 DEF Asked, Job
    <3>3. Ask(r, "login", asked)
      BY <2>3 DEF AskPromotion
    <3> HIDE DEF asked
    <3> QED
      BY <3>2, <3>3, AskKeeps
  <2>4. ASSUME NEW r \in Requests,
               LockUser(r) \/ LockAdmin(r) \/ SnapshotAdmins(r) \/ ReplaceRoles(r)
               \/ ReadRoles(r) \/ OpenSession(r)
        PROVE  IInv'
    BY <2>4, LockUserKeeps, LockAdminKeeps, SnapshotKeeps, ReplaceKeeps, ReadKeeps, OpenKeeps
  <2>5. ASSUME NEW r \in Requests, Refuse(r) \/ NoChange(r) \/ Replay(r) \/ Abort(r)
        PROVE  IInv'
    BY <2>5, FinishOnly DEF Refuse, NoChange, Replay, Abort
  <2>6. ASSUME NEW u \in Users, Register(u) \/ AddRole(u) \/ CommitRole(u) \/ LoseRole(u)
        PROVE  IInv'
    BY <2>6, RegistrationKeeps
  <2>7. ASSUME NEW r \in Requests, BreakDeadlock(r) PROVE IInv'
    <3>1. CASE Abort(r)
      BY <3>1, <2>5
    <3>2. CASE LoseRole(job[r].user)
      <4>1. job[r].user \in Users
        BY <2>7 DEF BreakDeadlock, Blocked, Decides, IInv, UserLocks
      <4> QED
        BY <3>2, <4>1, <2>6
    <3> QED
      BY <2>7, <3>1, <3>2 DEF BreakDeadlock
  <2>8. ASSUME NEW s \in Sessions, EndSession(s) \/ CleanUp(s) PROVE IInv'
    BY <2>8, SessionsKeep DEF EndSession, CleanUp, Book!Forget, lockVars, requestVars
  <2>9. ASSUME NEW u \in Users, EndSessions(u) PROVE IInv'
    BY <2>9, SessionsKeep DEF EndSessions
  <2>10. CASE UNCHANGED vars
    <3>1. UNCHANGED <<roles, account, requestVars, lockVars>>
      BY <2>10 DEF vars
    <3>2. UNCHANGED <<roles, account, sessions, step, job, todo, userLock, adminLock>>
      BY <2>10 DEF vars, requestVars, lockVars
    <3> QED
      BY <3>2 DEF IInv, TypeOK, UserLocks, AdminLocks, LockOrder, RolesRead, SourcesKept,
                  SessionsOwned, AdminRemains, SessionRolesHeld, Locked, Active, Admins,
                  Book!Admins
  <2> QED
    BY <2>1, <2>2, <2>3, <2>4, <2>5, <2>6, <2>7, <2>8, <2>9, <2>10 DEF Next, Advance
<1> QED
  BY <1>1, <1>2, PTL DEF Spec
-----------------------------------------------------------------------------
(* Theorems.                                                               *)

\* All variables keep their types.
THEOREM RolesTypeCorrect == Spec => []TypeOK
<1>1. IInv => TypeOK
  BY DEF IInv
<1> QED
  BY <1>1, InvariantHolds, PTL

\* setRolesAndRevokeSessions, for any number of administrators and of requests
\* at once: one administrator at least remains.
THEOREM AdministratorRemains == Spec => []AdminRemains
<1>1. IInv => AdminRemains
  BY DEF IInv
<1> QED
  BY <1>1, InvariantHolds, PTL

\* An active session carries the roles of its user, but for the auditor that
\* registration adds after the user can log in.
THEOREM SessionsHoldRoles == Spec => []SessionRolesHeld
<1>1. IInv => SessionRolesHeld
  BY DEF IInv
<1> QED
  BY <1>1, InvariantHolds, PTL

\* The transactions are serialisable: each has its effect in one step, which is
\* an operation of the role book.
THEOREM BookImplemented == Spec => BookSpec
<1>1. Init => Book!Init
  BY DEF Init
<1>2. IInv /\ IInv' /\ [Next]_vars => [Book!Next]_(Book!vars)
  <2> SUFFICES ASSUME IInv, IInv', [Next]_vars,
                      ~(UNCHANGED <<roles, sessions>>)
               PROVE  Book!Next
    BY DEF Book!vars
  <2>1. ASSUME NEW r \in Requests, ReplaceRoles(r) PROVE Book!Next
    <3> DEFINE u == job[r].user
               next == job[r].next
    <3>1. u \in Users /\ next \in SUBSET Book!Role
      BY <2>1 DEF ReplaceRoles, Decides, IInv, UserLocks, TypeOK, Job, Role, Book!Role
    <3>2. roles' = [roles EXCEPT ![u] = next] /\ sessions' = Book!Ending(Book!SessionsOf(u))
      BY <2>1 DEF ReplaceRoles
    <3>3. "admin" \in next \/ Book!Admins \ {u} # {}
      <4> SUFFICES ASSUME "admin" \notin next PROVE Book!Admins \ {u} # {}
        OBVIOUS
      <4>1. PICK v \in Users : "admin" \in roles'[v]
        BY DEF IInv, AdminRemains, Admins, Book!Admins
      <4>2. v # u /\ roles'[v] = roles[v]
        BY <3>1, <3>2, <4>1 DEF IInv, TypeOK
      <4> QED
        BY <4>1, <4>2 DEF Book!Admins
    <3>4. Book!Replace(u, next)
      BY <3>2, <3>3 DEF Book!Replace
    <3> QED
      BY <3>1, <3>4 DEF Book!Next
  <2>2. ASSUME NEW r \in Requests, OpenSession(r) PROVE Book!Next
    <3> DEFINE u == job[r].user
    <3>1. /\ u \in Users /\ job[r].held = roles[u] /\ job[r].pending \in BOOLEAN
          /\ job[r].from \in SUBSET Sessions /\ roles' = roles
          /\ \A s \in job[r].from : sessions[s].status # "none"
      BY <2>2 DEF OpenSession, IInv, UserLocks, RolesRead, SourcesKept, TypeOK, Job
    <3>2. CASE sessions' = Book!Ending(job[r].from)
      BY <3>1, <3>2 DEF Book!Next, Book!End
    <3>3. ASSUME NEW s \in Sessions, sessions[s].status = "none",
                 sessions' = [Book!Ending(job[r].from) EXCEPT
                                ![s] = Book!Opened(u, job[r].held, job[r].pending)]
          PROVE  Book!Next
      <4>1. Book!Open(s, u, job[r].pending, job[r].from)
        BY <3>1, <3>3 DEF Book!Open
      <4> QED
        BY <3>1, <4>1 DEF Book!Next
    <3> QED
      BY <2>2, <3>2, <3>3 DEF OpenSession
  <2>3. ASSUME NEW s \in Sessions, EndSession(s) \/ CleanUp(s) PROVE Book!Next
    BY <2>3 DEF EndSession, CleanUp, Book!End, Book!Next
  <2>4. ASSUME NEW u \in Users, EndSessions(u) PROVE Book!Next
    <3>1. Book!SessionsOf(u) \in SUBSET Sessions
      BY DEF Book!SessionsOf
    <3> QED
      BY <2>4, <3>1 DEF EndSessions, Book!End, Book!Next
  <2>5. ASSUME NEW u \in Users, CommitRole(u) PROVE Book!Next
    BY <2>5 DEF CommitRole, Book!Next
  <2> QED
    BY <2>1, <2>2, <2>3, <2>4, <2>5
       DEF Next, Advance, AskRoles, AskLogin, AskPromotion, Ask, LockUser, LockAdmin,
           SnapshotAdmins, Refuse, NoChange, ReadRoles, Replay, Abort, BreakDeadlock,
           Register, AddRole, LoseRole, vars
<1> QED
  BY <1>1, <1>2, InvariantHolds, PTL DEF Spec, BookSpec, Book!Spec

\* Role changes and logins never wait for each other in a circle: who waits for
\* a user's row holds nothing, and of those that wait for an administrator row
\* the one that waits for the last is not waited for by them.
THEOREM RolesDeadlockFree == Spec => []NoDeadlock
<1>1. IInv => NoDeadlock
  <2> SUFFICES ASSUME IInv PROVE NoDeadlock
    OBVIOUS
  <2> SUFFICES ASSUME NEW D \in (SUBSET Requests) \ {{}},
                      \A r \in D : Blocker(r) \in D
               PROVE  FALSE
    BY DEF NoDeadlock
  <2>0. D \subseteq Requests /\ D # {}
    OBVIOUS
  <2> USE ConstantsAssumption
  <2> DEFINE Wants(r) == step[r] = "locking" /\ todo[r] # {}
             W == {First(todo[r]) : r \in {q \in D : Wants(q)}}
  <2>1. \A r \in D : Wants(r) => /\ First(todo[r]) \in todo[r] /\ First(todo[r]) \in Users
                                 /\ adminLock[First(todo[r])] \in D
    <3> SUFFICES ASSUME NEW r \in D, Wants(r)
                 PROVE  /\ First(todo[r]) \in todo[r] /\ First(todo[r]) \in Users
                        /\ adminLock[First(todo[r])] \in D
      OBVIOUS
    <3>1. todo[r] \subseteq Users
      BY DEF IInv, TypeOK
    <3>2. First(todo[r]) \in todo[r]
      BY <3>1, FirstIsLeast
    <3>3. Blocker(r) = adminLock[First(todo[r])]
      BY DEF Blocker
    <3> QED
      BY <3>1, <3>2, <3>3
  <2>2. \A r \in D : Wants(r) \/ /\ step[r] \in {"change", "login"}
                                 /\ userLock[job[r].user] \in D
    BY DEF Blocker
  <2>3. W # {}
    <3>1. PICK r \in D : TRUE
      BY <2>0
    <3>2. CASE Wants(r)
      BY <3>2
    <3>3. CASE ~Wants(r)
      <4> DEFINE q == userLock[job[r].user]
      <4>1. q \in D /\ job[r].user \in Users
        BY <2>2, <3>3 DEF IInv, UserLocks
      <4>2. step[q] \in Holding
        BY <4>1 DEF IInv, UserLocks
      <4>3. Wants(q)
        BY <2>2, <4>1, <4>2 DEF Holding
      <4> QED
        BY <4>1, <4>3
    <3> QED
      BY <3>2, <3>3
  <2>4. W \subseteq Users
    BY <2>1
  <2>5. PICK last \in W : \A v \in W : v <= last
    <3>1. W \in SUBSET Int /\ IsFiniteSet(W)
      BY <2>4, ConstantsAssumption, FS_Subset
    <3> HIDE DEF W
    <3> QED
      BY <2>3, <3>1, FiniteHasEnds
  <2>6. PICK r \in D : Wants(r) /\ last = First(todo[r])
    BY <2>5
  <2> DEFINE q == adminLock[last]
  <2>7. q \in D /\ last \in Users
    BY <2>1, <2>6
  <2>8. step[q] = "locking"
    BY <2>7 DEF IInv, AdminLocks
  <2>9. Wants(q)
    BY <2>2, <2>7, <2>8
  <2>10. First(todo[q]) \in todo[q] /\ First(todo[q]) \in Users /\ First(todo[q]) \in W
    BY <2>1, <2>7, <2>9
  <2>11. last < First(todo[q])
    BY <2>7, <2>10 DEF IInv, LockOrder
  <2>12. First(todo[q]) <= last
    BY <2>5, <2>10
  <2>13. last \in Int /\ First(todo[q]) \in Int
    BY <2>7, <2>10
  <2> HIDE DEF W, q
  <2> QED
    BY <2>11, <2>12, <2>13
<1> QED
  BY <1>1, InvariantHolds, PTL
-----------------------------------------------------------------------------
(* What the sessions can rely on. *)

\* A session that is active is what it was opened as, or it ends: no request
\* changes the roles or the user of a token in use.
THEOREM TokensStay == Spec => Book!TokensFixed
<1>1. TypeOK /\ [Book!Next]_(Book!vars) =>
        \A s \in Sessions : sessions[s].status = "active" =>
          sessions'[s] \in {sessions[s], Book!Ended}
  BY DEF TypeOK, Book!Next, Book!vars, Book!End, Book!Replace, Book!Grant, Book!Open,
     Book!Forget, Book!Ending
<1> QED
  BY <1>1, BookImplemented, RolesTypeCorrect, PTL DEF BookSpec, Book!Spec, Book!TokensFixed

\* Whoever loses a role, or becomes an administrator, is logged out in that step,
\* whatever logins and promotions of his are in flight.
THEOREM RetirementLogsOut == Spec => Book!RetiredAtOnce
<1>1. TypeOK /\ [Book!Next]_(Book!vars) =>
        \A u \in Users : roles'[u] \notin {roles[u], roles[u] \cup {"auditor"}} =>
          \A s \in Sessions : sessions'[s].user = u => sessions'[s].status # "active"
  <2> SUFFICES ASSUME TypeOK, [Book!Next]_(Book!vars), NEW u \in Users,
                      roles'[u] \notin {roles[u], roles[u] \cup {"auditor"}},
                      NEW s \in Sessions, sessions'[s].user = u
               PROVE  sessions'[s].status # "active"
    OBVIOUS
  <2>1. PICK v \in Users, next \in SUBSET Book!Role : Book!Replace(v, next)
    BY DEF TypeOK, Book!Next, Book!vars, Book!End, Book!Grant, Book!Open, Book!Forget
  <2>2. v = u
    BY <2>1 DEF TypeOK, Book!Replace
  <2> QED
    BY <2>1, <2>2 DEF Book!Replace, Book!Ending, Book!SessionsOf, Book!Ended
<1> QED
  BY <1>1, BookImplemented, RolesTypeCorrect, PTL DEF BookSpec, Book!Spec, Book!RetiredAtOnce

=============================================================================

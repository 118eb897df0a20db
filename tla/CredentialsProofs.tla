-------------------------- MODULE CredentialsProofs -------------------------
(***************************************************************************)
(* Theorems of Credentials, for every set of requests, sessions, links,    *)
(* codes and TOTP steps.                                                   *)
(*                                                                         *)
(* The argument: a code that a promotion is about to use was spent for it  *)
(* alone and has not been used; no request rests on a password that was    *)
(* replaced before it began; every step that was accepted is behind the    *)
(* gate.                                                                   *)
(***************************************************************************)
EXTENDS Credentials, TLAPS

-----------------------------------------------------------------------------
(* The inductive invariant.                                                *)

\* A recovery code in flight is spent, is unused, and is in flight once.
CodesInFlight ==
  \A r \in Requests : job[r].code # Nobody =>
    /\ codes[job[r].code] = "spent" /\ uses[job[r].code] = 0
    /\ \A q \in Requests : job[q].code = job[r].code => q = r

\* What was not spent has not been used.
UsedIfSpent ==
  /\ \A t \in Tokens : tokens[t] # "spent" => uses[t] = 0
  /\ \A c \in Codes : codes[c] # "spent" => uses[c] = 0

\* No request rests on an old password (one that was overtaken is late), and a
\* promotion has a recovery code or a TOTP step.
RequestsSound ==
  \A r \in Requests :
    /\ job[r].pass # "old"
    /\ step[r] = "promote" => job[r].code # Nobody \/ job[r].totp \in Steps

\* The gate is past every step that was accepted.
GatePassed == \A n \in accepted : n <= mfa.last

-----------------------------------------------------------------------------
(* Types.                                                                  *)

LEMMA NoJobType ==
  /\ NoJob \in Job
  /\ NoJob.on = Nobody /\ NoJob.pass = "current" /\ NoJob.factor = "none"
  /\ NoJob.code = Nobody /\ NoJob.totp = -1
BY StepsAssumption DEF NoJob, Job, Pass, Factor

LEMMA NoSessionType ==
  /\ NoSession \in Session /\ ~NoSession.active
BY DEF NoSession, Session, Pass, Factor

LEMMA EndingType ==
  ASSUME TypeOK, NEW ended
  PROVE  /\ Ending(ended) \in [Sessions -> Session]
         /\ \A s \in Sessions : Ending(ended)[s].active =>
              Ending(ended)[s] = sessions[s] /\ s \notin ended
BY NoSessionType DEF Ending, TypeOK

LEMMA OutdatedType ==
  ASSUME NEW kept, NEW rows \in [Sessions -> Session]
  PROVE  /\ Outdated(kept, rows) \in [Sessions -> Session]
         /\ \A s \in Sessions :
              /\ Outdated(kept, rows)[s].active = rows[s].active
              /\ Outdated(kept, rows)[s].pending = rows[s].pending
              /\ Outdated(kept, rows)[s].handed = rows[s].handed
              /\ Outdated(kept, rows)[s].factor = rows[s].factor
              /\ s = kept /\ rows[s].active => Outdated(kept, rows)[s].pass = "current"
BY DEF Outdated, Session, Pass, Factor

LEMMA OvertakenType ==
  ASSUME TypeOK, NEW r
  PROVE  /\ Overtaken(r) \in [Requests -> Job]
         /\ \A q \in Requests : q # r =>
              /\ Overtaken(r)[q].code = job[q].code
              /\ Overtaken(r)[q].totp = job[q].totp
              /\ Overtaken(r)[q].pass # job[q].pass => Overtaken(r)[q].pass = "late"
         /\ r \in Requests => Overtaken(r)[r] = NoJob
<1>1. ASSUME NEW q \in Requests
      PROVE  [job[q] EXCEPT !.pass = "late"] \in Job
  BY DEF TypeOK, Job, Pass
<1> QED
  BY <1>1, NoJobType DEF Overtaken, TypeOK, Job

LEMMA FinishType ==
  ASSUME TypeOK, NEW r \in Requests, Finish(r)
  PROVE  /\ step' \in [Requests -> Step] /\ job' \in [Requests -> Job]
         /\ job' = [job EXCEPT ![r] = NoJob]
         /\ step' = [step EXCEPT ![r] = "idle"]
BY NoJobType DEF Finish, TypeOK, Step

LEMMA AskType ==
  ASSUME TypeOK, NEW r \in Requests, NEW next \in Step, NEW input \in Job, Ask(r, next, input)
  PROVE  step' \in [Requests -> Step] /\ job' \in [Requests -> Job]
BY DEF Ask, TypeOK

LEMMA ReplacingType ==
  ASSUME NEW S, NEW rows \in [S -> Secret], NEW issued, NEW withdrawn
  PROVE  /\ Replacing(rows, issued, withdrawn) \in [S -> Secret]
         /\ \A x \in S : (Replacing(rows, issued, withdrawn)[x] = "spent") <=> (rows[x] = "spent")
BY DEF Replacing, Secret

\* What a promotion is asked with.
LEMMA PromotionType ==
  ASSUME TypeOK, NEW s \in Sessions
  PROVE  /\ Promotion(s) \in Job /\ Promotion(s).pass = sessions[s].pass
         /\ Promotion(s).code = Nobody
         /\ \A n \in Steps :
              LET j == [Promotion(s) EXCEPT !.secret = mfa.secret, !.totp = n] IN
                j \in Job /\ j.pass = sessions[s].pass /\ j.code = Nobody /\ j.totp = n
         /\ \A c \in Codes :
              LET j == [Promotion(s) EXCEPT !.code = c] IN
                j \in Job /\ j.pass = sessions[s].pass /\ j.code = c
BY NoJobType DEF Promotion, TypeOK, Job, Session

LEMMA InitType == Init => TypeOK
<1> SUFFICES ASSUME Init
             PROVE  TypeOK
  OBVIOUS
<1>1. /\ tokens \in [Tokens -> Secret] /\ codes \in [Codes -> Secret]
      /\ step \in [Requests -> Step]
  BY DEF Init, Secret, Step
<1>2. sessions \in [Sessions -> Session] /\ job \in [Requests -> Job]
  BY NoSessionType, NoJobType DEF Init
<1>3. /\ mfa \in [on : BOOLEAN, secret : 0..MaxSecrets, last : Steps \cup {-1}]
      /\ secrets \in 0..MaxSecrets
  BY StepsAssumption DEF Init
<1> QED
  BY <1>1, <1>2, <1>3 DEF Init, TypeOK

LEMMA TypeStep ==
  TypeOK /\ CodesInFlight /\ UsedIfSpent /\ RequestsSound /\ [Next]_vars => TypeOK'
<1> SUFFICES ASSUME TypeOK, CodesInFlight, UsedIfSpent, RequestsSound, [Next]_vars
             PROVE  TypeOK'
  OBVIOUS
<1> USE DEF userVars, historyVars
<1>1. ASSUME NEW r \in Requests, AskForgot(r) \/ AskLogin(r)
      PROVE  TypeOK'
  <2>1. [NoJob EXCEPT !.links = {t \in Tokens : tokens[t] = "live"}] \in Job
    BY NoJobType DEF Job
  <2>2. step' \in [Requests -> Step] /\ job' \in [Requests -> Job]
    BY <1>1, <2>1, AskType, NoJobType DEF AskForgot, AskLogin, Step
  <2> QED
    BY <1>1, <2>2 DEF AskForgot, AskLogin, TypeOK
<1>2. ASSUME NEW r \in Requests, ReadFactor(r)
      PROVE  TypeOK'
  <2>1. [job[r] EXCEPT !.factor = IF mfa.on THEN "asked" ELSE "none"] \in Job
    BY DEF TypeOK, Job, Factor
  <2> QED
    BY <1>2, <2>1 DEF ReadFactor, TypeOK, Step
<1>3. ASSUME NEW r \in Requests, MarkPending(r)
      PROVE  TypeOK'
  <2>1. sessions' \in [Sessions -> Session]
    BY <1>3 DEF MarkPending, TypeOK, Session, Active
  <2> QED
    BY <1>3, <2>1, FinishType DEF MarkPending, TypeOK
<1>4. ASSUME NEW r \in Requests, Change(r)
      PROVE  TypeOK'
  BY <1>4, EndingType, OutdatedType, OvertakenType DEF Change, TypeOK, Step
<1>5. ASSUME NEW r \in Requests, EnableMfa(r) \/ DisableMfa(r)
      PROVE  TypeOK'
  <2>1. CASE EnableMfa(r)
    BY <2>1 DEF EnableMfa, TypeOK, Step
  <2>2. CASE DisableMfa(r)
    <3>1. mfa' \in [on : BOOLEAN, secret : 0..MaxSecrets, last : Steps \cup {-1}]
      BY <2>2, StepsAssumption DEF DisableMfa
    <3>2. codes' \in [Codes -> Secret]
      BY <2>2, ReplacingType DEF DisableMfa, TypeOK
    <3> QED
      BY <2>2, <3>1, <3>2, FinishType DEF DisableMfa, TypeOK
  <2> QED
    BY <1>5, <2>1, <2>2
<1>6. ASSUME NEW r \in Requests, Replay(r) \/ Abort(r)
      PROVE  TypeOK'
  BY <1>6, FinishType DEF Replay, Abort, TypeOK
<1>7. ASSUME NEW r \in Requests, NEW issued, CreateLink(r, issued) \/ NewCodes(r, issued)
      PROVE  TypeOK'
  BY <1>7, FinishType, ReplacingType DEF CreateLink, NewCodes, TypeOK
<1>8. ASSUME NEW r \in Requests, NEW s \in Sessions,
             AskChange(r, s) \/ AskEnable(r, s) \/ AskCodes(r, s) \/ AskDisable(r, s)
      PROVE  TypeOK'
  <2>1. [NoJob EXCEPT !.on = s] \in Job
    BY NoJobType DEF Job
  <2>2. step' \in [Requests -> Step] /\ job' \in [Requests -> Job]
    BY <1>8, <2>1, AskType, NoJobType DEF AskChange, AskEnable, AskCodes, AskDisable, Step
  <2> QED
    BY <1>8, <2>2 DEF AskChange, AskEnable, AskCodes, AskDisable, TypeOK
<1>9. ASSUME NEW r \in Requests, NEW s \in Sessions, OpenSession(r, s)
      PROVE  TypeOK'
  <2>1. sessions' \in [Sessions -> Session]
    BY <1>9 DEF OpenSession, TypeOK, Session, Job
  <2>2. step' \in [Requests -> Step] /\ job' \in [Requests -> Job]
    <3>1. CASE job[r].factor = "none"
      BY <1>9, <3>1, FinishType DEF OpenSession
    <3>2. CASE job[r].factor # "none"
      <4>1. [job[r] EXCEPT !.on = s] \in Job
        BY DEF TypeOK, Job
      <4>2. job' = [job EXCEPT ![r] = [job[r] EXCEPT !.on = s]]
        BY <1>9, <3>2 DEF OpenSession
      <4>3. step' = [step EXCEPT ![r] = "mark"]
        BY <1>9, <3>2 DEF OpenSession
      <4> QED
        BY <4>1, <4>2, <4>3 DEF TypeOK, Step
    <3> QED
      BY <3>1, <3>2
  <2> QED
    BY <1>9, <2>1, <2>2 DEF OpenSession, TypeOK
<1>10. ASSUME NEW r \in Requests, NEW s \in Sessions, Promote(r, s)
       PROVE  /\ sessions' \in [Sessions -> Session]
              /\ step' \in [Requests -> Step] /\ job' \in [Requests -> Job]
  <2>1. [active |-> TRUE, pending |-> FALSE, handed |-> TRUE,
         pass |-> job[r].pass, factor |-> "passed"] \in Session
    BY DEF TypeOK, Job, Session, Factor
  <2> QED
    BY <1>10, <2>1, FinishType, EndingType DEF Promote
<1>11. ASSUME NEW r \in Requests, NEW s \in Sessions, PromoteByCode(r, s)
       PROVE  TypeOK'
  <2>1. job[r].code \in Codes /\ uses[job[r].code] = 0
    BY <1>11 DEF PromoteByCode, CodesInFlight, TypeOK, Job
  <2> QED
    BY <1>10, <1>11, <2>1 DEF PromoteByCode, TypeOK
<1>12. ASSUME NEW r \in Requests, NEW s \in Sessions, PromoteByTotp(r, s)
       PROVE  TypeOK'
  <2>1. job[r].totp \in Steps
    BY <1>12 DEF PromoteByTotp, Promote, RequestsSound
  <2> QED
    BY <1>10, <1>12, <2>1 DEF PromoteByTotp, TypeOK
<1>13. ASSUME NEW r \in Requests, NEW s \in Sessions, NEW n \in Steps, AskVerify(r, s, n)
       PROVE  TypeOK'
  <2>1. step' \in [Requests -> Step] /\ job' \in [Requests -> Job]
    BY <1>13, AskType, PromotionType DEF AskVerify, Step
  <2> QED
    BY <1>13, <2>1 DEF AskVerify, TypeOK
<1>14. ASSUME NEW r \in Requests, NEW s \in Sessions, NEW c \in Codes, AskRecovery(r, s, c)
       PROVE  TypeOK'
  <2>1. step' \in [Requests -> Step] /\ job' \in [Requests -> Job]
    BY <1>14, AskType, PromotionType DEF AskRecovery, Step
  <2> QED
    BY <1>14, <2>1 DEF AskRecovery, TypeOK, Secret
<1>15. ASSUME NEW t \in Tokens, ExpireLink(t)
       PROVE  TypeOK'
  BY <1>15 DEF ExpireLink, TypeOK, Secret, requestVars
<1>16. ASSUME NEW t \in Tokens, Reset(t)
       PROVE  TypeOK'
  <2>1. uses[t] = 0
    BY <1>16 DEF Reset, UsedIfSpent
  <2>2. sessions' \in [Sessions -> Session] /\ job' \in [Requests -> Job]
    BY <1>16, EndingType, OutdatedType, OvertakenType DEF Reset
  <2> QED
    BY <1>16, <2>1, <2>2 DEF Reset, TypeOK, Secret
<1>17. ASSUME NEW s \in Sessions, EndSession(s) \/ Setup(s)
       PROVE  TypeOK'
  <2>1. CASE EndSession(s)
    BY <2>1, EndingType DEF EndSession, TypeOK, requestVars
  <2>2. CASE Setup(s)
    BY <2>2, StepsAssumption DEF Setup, TypeOK, requestVars
  <2> QED
    BY <1>17, <2>1, <2>2
<1>18. CASE EndSessions
  BY <1>18, EndingType DEF EndSessions, TypeOK, requestVars
<1>19. CASE UNCHANGED vars
  BY <1>19 DEF vars, requestVars, TypeOK
<1> QED
  BY <1>1, <1>2, <1>3, <1>4, <1>5, <1>6, <1>7, <1>8, <1>9, <1>11, <1>12, <1>13, <1>14,
     <1>15, <1>16, <1>17, <1>18, <1>19 DEF Next

-----------------------------------------------------------------------------
(* Single-use secrets.                                                     *)

\* Steps that leave links, codes and their uses alone, and bring no code in flight.
LEMMA SecretsKept ==
  ASSUME CodesInFlight, UsedIfSpent, UNCHANGED <<tokens, codes, uses>>,
         \A r \in Requests : job'[r].code \in {job[r].code, Nobody}
  PROVE  CodesInFlight' /\ UsedIfSpent'
BY DEF CodesInFlight, UsedIfSpent

\* The same for links and codes that are issued or withdrawn.
LEMMA SecretsIssued ==
  ASSUME CodesInFlight, UsedIfSpent, UNCHANGED uses,
         \A t \in Tokens : tokens'[t] = "spent" <=> tokens[t] = "spent",
         \A c \in Codes : codes'[c] = "spent" <=> codes[c] = "spent",
         TypeOK,
         \A r \in Requests : job'[r].code \in {job[r].code, Nobody}
  PROVE  CodesInFlight' /\ UsedIfSpent'
<1>1. \A r \in Requests : job[r].code \in Codes \cup {Nobody}
  BY DEF TypeOK, Job
<1> QED
  BY <1>1 DEF CodesInFlight, UsedIfSpent

\* A request that ends has no code in flight.
LEMMA FinishCode ==
  ASSUME TypeOK, NEW r \in Requests, Finish(r)
  PROVE  job'[r].code = Nobody /\ \A q \in Requests \ {r} : job'[q] = job[q]
BY FinishType, NoJobType DEF TypeOK

LEMMA SecretsStep ==
  TypeOK /\ CodesInFlight /\ UsedIfSpent /\ RequestsSound /\ [Next]_vars
    => CodesInFlight' /\ UsedIfSpent'
<1> SUFFICES ASSUME TypeOK, CodesInFlight, UsedIfSpent, RequestsSound, [Next]_vars
             PROVE  CodesInFlight' /\ UsedIfSpent'
  OBVIOUS
<1> USE DEF userVars, historyVars
<1>1. ASSUME NEW r \in Requests, AskForgot(r) \/ AskLogin(r)
      PROVE  CodesInFlight' /\ UsedIfSpent'
  <2>1. [NoJob EXCEPT !.links = {t \in Tokens : tokens[t] = "live"}].code = Nobody
    BY DEF NoJob
  <2> QED
    BY <1>1, <2>1, SecretsKept, NoJobType DEF AskForgot, AskLogin, Ask, TypeOK
<1>2. ASSUME NEW r \in Requests, ReadFactor(r)
      PROVE  CodesInFlight' /\ UsedIfSpent'
  <2>1. [job[r] EXCEPT !.factor = IF mfa.on THEN "asked" ELSE "none"].code = job[r].code
    BY DEF TypeOK, Job
  <2> QED
    BY <1>2, <2>1, SecretsKept DEF ReadFactor, TypeOK
<1>3. ASSUME NEW r \in Requests, MarkPending(r) \/ Replay(r) \/ Abort(r)
      PROVE  CodesInFlight' /\ UsedIfSpent'
  BY <1>3, SecretsKept, FinishCode DEF MarkPending, Replay, Abort
<1>4. ASSUME NEW r \in Requests, Change(r)
      PROVE  CodesInFlight' /\ UsedIfSpent'
  BY <1>4, SecretsKept, OvertakenType, NoJobType DEF Change
<1>5. ASSUME NEW r \in Requests, EnableMfa(r)
      PROVE  CodesInFlight' /\ UsedIfSpent'
  BY <1>5, SecretsKept DEF EnableMfa
<1>6. ASSUME NEW r \in Requests, NEW issued,
             CreateLink(r, issued) \/ NewCodes(r, issued) \/ DisableMfa(r)
      PROVE  CodesInFlight' /\ UsedIfSpent'
  <2>1. /\ \A t \in Tokens : tokens'[t] = "spent" <=> tokens[t] = "spent"
        /\ \A c \in Codes : codes'[c] = "spent" <=> codes[c] = "spent"
    BY <1>6, ReplacingType DEF CreateLink, NewCodes, DisableMfa, TypeOK
  <2>2. \A q \in Requests : job'[q].code \in {job[q].code, Nobody}
    BY <1>6, FinishCode DEF CreateLink, NewCodes, DisableMfa
  <2> QED
    BY <1>6, <2>1, <2>2, SecretsIssued DEF CreateLink, NewCodes, DisableMfa
<1>7. ASSUME NEW r \in Requests, NEW s \in Sessions,
             AskChange(r, s) \/ AskEnable(r, s) \/ AskCodes(r, s) \/ AskDisable(r, s)
      PROVE  CodesInFlight' /\ UsedIfSpent'
  <2>1. [NoJob EXCEPT !.on = s].code = Nobody
    BY DEF NoJob
  <2> QED
    BY <1>7, <2>1, SecretsKept, NoJobType
    DEF AskChange, AskEnable, AskCodes, AskDisable, Ask, TypeOK
<1>8. ASSUME NEW r \in Requests, NEW s \in Sessions, OpenSession(r, s)
      PROVE  CodesInFlight' /\ UsedIfSpent'
  <2>1. \A q \in Requests : job'[q].code \in {job[q].code, Nobody}
    <3>1. CASE job[r].factor = "none"
      BY <1>8, <3>1, FinishCode DEF OpenSession
    <3>2. CASE job[r].factor # "none"
      BY <1>8, <3>2 DEF OpenSession, TypeOK, Job
    <3> QED
      BY <3>1, <3>2
  <2> QED
    BY <1>8, <2>1, SecretsKept DEF OpenSession
<1>9. ASSUME NEW r \in Requests, NEW s \in Sessions, PromoteByCode(r, s)
      PROVE  CodesInFlight' /\ UsedIfSpent'
  <2>1. /\ job[r].code \in Codes /\ codes[job[r].code] = "spent"
        /\ uses' = [uses EXCEPT ![job[r].code] = @ + 1]
        /\ \A q \in Requests \ {r} : job[q].code # job[r].code
        /\ UNCHANGED <<tokens, codes>>
    BY <1>9 DEF PromoteByCode, CodesInFlight, TypeOK, Job
  <2>2. job'[r].code = Nobody /\ \A q \in Requests \ {r} : job'[q] = job[q]
    BY <1>9, FinishCode DEF PromoteByCode, Promote
  <2>3. CodesInFlight'
    BY <2>1, <2>2 DEF CodesInFlight, TypeOK, Job
  <2>4. UsedIfSpent'
    BY <2>1, NamesAssumption DEF UsedIfSpent, TypeOK
  <2> QED
    BY <2>3, <2>4
<1>10. ASSUME NEW r \in Requests, NEW s \in Sessions, PromoteByTotp(r, s)
       PROVE  CodesInFlight' /\ UsedIfSpent'
  BY <1>10, SecretsKept, FinishCode DEF PromoteByTotp, Promote
<1>11. ASSUME NEW r \in Requests, NEW s \in Sessions, NEW n \in Steps, AskVerify(r, s, n)
       PROVE  CodesInFlight' /\ UsedIfSpent'
  BY <1>11, SecretsKept, PromotionType DEF AskVerify, Ask, TypeOK
<1>12. ASSUME NEW r \in Requests, NEW s \in Sessions, NEW c \in Codes, AskRecovery(r, s, c)
       PROVE  CodesInFlight' /\ UsedIfSpent'
  <2>1. /\ codes[c] = "live" /\ codes' = [codes EXCEPT ![c] = "spent"]
        /\ job'[r].code = c /\ \A q \in Requests \ {r} : job'[q] = job[q]
        /\ UNCHANGED <<tokens, uses>>
    BY <1>12, PromotionType DEF AskRecovery, Ask, TypeOK
  <2>2. uses[c] = 0 /\ \A q \in Requests : job[q].code # c
    BY <2>1, NamesAssumption DEF UsedIfSpent, CodesInFlight
  <2>3. \A q \in Requests \ {r} : job'[q].code # c
    BY <2>1, <2>2
  <2>4. CodesInFlight'
    <3>1. \A q \in Requests : job[q].code \in Codes \cup {Nobody}
      BY DEF TypeOK, Job
    <3>2. codes'[c] = "spent" /\ \A d \in Codes : codes[d] = "spent" => codes'[d] = "spent"
      BY <2>1 DEF TypeOK
    <3> QED
      BY <2>1, <2>2, <2>3, <3>1, <3>2 DEF CodesInFlight
  <2> QED
    BY <2>1, <2>4 DEF UsedIfSpent, TypeOK
<1>13. ASSUME NEW t \in Tokens, ExpireLink(t)
       PROVE  CodesInFlight' /\ UsedIfSpent'
  BY <1>13, SecretsIssued DEF ExpireLink, TypeOK, requestVars
<1>14. ASSUME NEW t \in Tokens, Reset(t)
       PROVE  CodesInFlight' /\ UsedIfSpent'
  <2>1. /\ tokens' = [tokens EXCEPT ![t] = "spent"] /\ UNCHANGED codes
        /\ \A i \in Tokens \cup Codes : i # t => uses'[i] = uses[i]
        /\ \A q \in Requests : job'[q].code \in {job[q].code, Nobody}
    <3>1. tokens' = [tokens EXCEPT ![t] = "spent"] /\ UNCHANGED codes
      BY <1>14 DEF Reset
    <3>2. \A i \in Tokens \cup Codes : i # t => uses'[i] = uses[i]
      BY <1>14 DEF Reset, TypeOK
    <3>3. job' = Overtaken(Nobody)
      BY <1>14 DEF Reset
    <3>4. \A q \in Requests : job'[q].code \in {job[q].code, Nobody}
      BY <3>3, OvertakenType, NoJobType
    <3> QED
      BY <3>1, <3>2, <3>4
  <2>2. \A q \in Requests : job[q].code \in Codes \cup {Nobody}
    BY DEF TypeOK, Job
  <2>3. t \notin Codes
    BY NamesAssumption
  <2>4. UsedIfSpent'
    BY <2>1, <2>3 DEF UsedIfSpent, TypeOK
  <2>5. CodesInFlight'
    BY <2>1, <2>2, <2>3 DEF CodesInFlight
  <2> QED
    BY <2>4, <2>5
<1>15. ASSUME NEW s \in Sessions, EndSession(s) \/ Setup(s)
       PROVE  CodesInFlight' /\ UsedIfSpent'
  BY <1>15, SecretsKept DEF EndSession, Setup, requestVars
<1>16. CASE EndSessions \/ UNCHANGED vars
  BY <1>16, SecretsKept DEF EndSessions, vars, requestVars
<1> QED
  BY <1>1, <1>2, <1>3, <1>4, <1>5, <1>6, <1>7, <1>8, <1>9, <1>10, <1>11, <1>12, <1>13, <1>14,
     <1>15, <1>16 DEF Next

-----------------------------------------------------------------------------
(* The password.                                                           *)

\* What a request that ends, or that begins with nothing read, rests on.
LEMMA RequestsKept ==
  ASSUME TypeOK, RequestsSound, NEW r \in Requests,
         \A q \in Requests \ {r} : job'[q] = job[q] /\ step'[q] = step[q],
         job'[r].pass # "old", step'[r] # "promote"
  PROVE  RequestsSound'
BY DEF RequestsSound

LEMMA PasswordStep ==
  TypeOK /\ RequestsSound /\ OldPasswordEnds /\ [Next]_vars => RequestsSound' /\ OldPasswordEnds'
<1> SUFFICES ASSUME TypeOK, RequestsSound, OldPasswordEnds, [Next]_vars
             PROVE  RequestsSound' /\ OldPasswordEnds'
  OBVIOUS
<1> USE DEF userVars, historyVars
<1>1. ASSUME UNCHANGED sessions
      PROVE  OldPasswordEnds'
  BY <1>1 DEF OldPasswordEnds, Active
<1>2. ASSUME NEW r \in Requests, Finish(r)
      PROVE  RequestsSound'
  BY <1>2, FinishType, NoJobType DEF RequestsSound, TypeOK
<1>3. ASSUME NEW ended, sessions' = Ending(ended)
      PROVE  OldPasswordEnds'
  BY <1>3, EndingType DEF OldPasswordEnds, Active
<1>4. ASSUME NEW r \in Requests, AskForgot(r) \/ AskLogin(r)
      PROVE  RequestsSound' /\ OldPasswordEnds'
  <2>1. [NoJob EXCEPT !.links = {t \in Tokens : tokens[t] = "live"}].pass = "current"
    BY DEF NoJob
  <2>2. job'[r].pass # "old" /\ step'[r] # "promote"
    BY <1>4, <2>1, NoJobType DEF AskForgot, AskLogin, Ask, TypeOK
  <2> QED
    BY <1>1, <1>4, <2>2, RequestsKept DEF AskForgot, AskLogin, Ask, TypeOK
<1>5. ASSUME NEW r \in Requests, ReadFactor(r)
      PROVE  RequestsSound' /\ OldPasswordEnds'
  <2>1. [job[r] EXCEPT !.factor = IF mfa.on THEN "asked" ELSE "none"].pass = job[r].pass
    BY DEF TypeOK, Job
  <2>2. job'[r].pass # "old" /\ step'[r] # "promote"
    BY <1>5, <2>1 DEF ReadFactor, TypeOK, RequestsSound
  <2> QED
    BY <1>1, <1>5, <2>2, RequestsKept DEF ReadFactor, TypeOK
<1>6. ASSUME NEW r \in Requests, MarkPending(r)
      PROVE  RequestsSound' /\ OldPasswordEnds'
  <2>1. OldPasswordEnds'
    BY <1>6 DEF MarkPending, OldPasswordEnds, Active, TypeOK, Session
  <2> QED
    BY <1>2, <1>6, <2>1 DEF MarkPending
<1>7. ASSUME NEW r \in Requests, Change(r)
      PROVE  RequestsSound' /\ OldPasswordEnds'
  <2>1. RequestsSound'
    <3>1. /\ job' = Overtaken(r) /\ step'[r] = "idle"
          /\ \A q \in Requests \ {r} : step'[q] = step[q]
      BY <1>7 DEF Change, TypeOK
    <3>2. \A q \in Requests \ {r} : job'[q].pass # "old"
      BY <3>1, OvertakenType DEF RequestsSound
    <3>3. \A q \in Requests \ {r} : job'[q].code = job[q].code /\ job'[q].totp = job[q].totp
      BY <3>1, OvertakenType
    <3>4. job'[r].pass # "old"
      BY <3>1, OvertakenType, NoJobType
    <3> QED
      BY <3>1, <3>2, <3>3, <3>4 DEF RequestsSound
  <2> DEFINE kept == job[r].on
             rows == Ending(Sessions \ {kept})
  <2>2. rows \in [Sessions -> Session] /\ \A s \in Sessions : rows[s].active => s = kept
    BY EndingType
  <2>3. sessions' = Outdated(kept, rows)
    BY <1>7 DEF Change
  <2> HIDE DEF rows, kept
  <2>4. OldPasswordEnds'
    BY <2>2, <2>3, OutdatedType DEF OldPasswordEnds, Active
  <2> QED
    BY <2>1, <2>4
<1>8. ASSUME NEW t \in Tokens, Reset(t)
      PROVE  RequestsSound' /\ OldPasswordEnds'
  <2>1. job' = Overtaken(Nobody) /\ step' = step
    BY <1>8 DEF Reset
  <2>2. RequestsSound'
    <3>1. \A q \in Requests : q # Nobody
      BY NamesAssumption
    <3>2. \A q \in Requests : job'[q].pass # "old"
      BY <2>1, <3>1, OvertakenType DEF RequestsSound
    <3>3. \A q \in Requests : job'[q].code = job[q].code /\ job'[q].totp = job[q].totp
      BY <2>1, <3>1, OvertakenType
    <3> QED
      BY <2>1, <3>2, <3>3 DEF RequestsSound
  <2> DEFINE rows == Ending(Sessions)
  <2>3. rows \in [Sessions -> Session] /\ \A s \in Sessions : ~rows[s].active
    BY EndingType, NoSessionType DEF Ending
  <2>4. sessions' = Outdated(Nobody, rows)
    BY <1>8 DEF Reset
  <2> HIDE DEF rows
  <2>5. OldPasswordEnds'
    BY <2>3, <2>4, OutdatedType DEF OldPasswordEnds, Active
  <2> QED
    BY <2>2, <2>5
<1>9. ASSUME NEW r \in Requests, EnableMfa(r)
      PROVE  RequestsSound' /\ OldPasswordEnds'
  BY <1>1, <1>9 DEF EnableMfa, RequestsSound, TypeOK
<1>10. ASSUME NEW r \in Requests, NEW issued,
              CreateLink(r, issued) \/ NewCodes(r, issued) \/ DisableMfa(r)
                \/ Replay(r) \/ Abort(r)
       PROVE  RequestsSound' /\ OldPasswordEnds'
  BY <1>1, <1>2, <1>10 DEF CreateLink, NewCodes, DisableMfa, Replay, Abort
<1>11. ASSUME NEW r \in Requests, NEW s \in Sessions,
              AskChange(r, s) \/ AskEnable(r, s) \/ AskCodes(r, s) \/ AskDisable(r, s)
       PROVE  RequestsSound' /\ OldPasswordEnds'
  <2>1. [NoJob EXCEPT !.on = s].pass = "current"
    BY DEF NoJob
  <2>2. job'[r].pass # "old" /\ step'[r] # "promote"
    BY <1>11, <2>1, NoJobType DEF AskChange, AskEnable, AskCodes, AskDisable, Ask, TypeOK
  <2> QED
    BY <1>1, <1>11, <2>2, RequestsKept
    DEF AskChange, AskEnable, AskCodes, AskDisable, Ask, TypeOK
<1>12. ASSUME NEW r \in Requests, NEW s \in Sessions, OpenSession(r, s)
       PROVE  RequestsSound' /\ OldPasswordEnds'
  <2>1. OldPasswordEnds'
    BY <1>12 DEF OpenSession, OldPasswordEnds, Active, TypeOK, RequestsSound
  <2>2. CASE job[r].factor = "none"
    BY <1>2, <1>12, <2>1, <2>2 DEF OpenSession
  <2>3. CASE job[r].factor # "none"
    <3>1. [job[r] EXCEPT !.on = s].pass = job[r].pass
      BY DEF TypeOK, Job
    <3>2. job'[r].pass # "old" /\ step'[r] # "promote"
      BY <1>12, <2>3, <3>1 DEF OpenSession, TypeOK, RequestsSound
    <3> QED
      BY <1>12, <2>1, <2>3, <3>2, RequestsKept DEF OpenSession, TypeOK
  <2> QED
    BY <2>2, <2>3
<1>13. ASSUME NEW r \in Requests, NEW s \in Sessions, PromoteByCode(r, s) \/ PromoteByTotp(r, s)
       PROVE  RequestsSound' /\ OldPasswordEnds'
  <2>1. Promote(r, s)
    BY <1>13 DEF PromoteByCode, PromoteByTotp
  <2>2. OldPasswordEnds'
    <3>1. job[r].pass # "old"
      BY DEF RequestsSound
    <3>2. \A q \in Sessions \ {s} : sessions'[q] = Ending({job[r].on})[q]
      BY <2>1, EndingType DEF Promote
    <3>3. sessions'[s].pass = job[r].pass
      BY <2>1, EndingType DEF Promote
    <3> QED
      BY <3>1, <3>2, <3>3, EndingType DEF OldPasswordEnds, Active
  <2> QED
    BY <1>2, <2>1, <2>2 DEF Promote
<1>14. ASSUME NEW r \in Requests, NEW s \in Sessions, NEW n \in Steps, AskVerify(r, s, n)
       PROVE  RequestsSound' /\ OldPasswordEnds'
  <2>1. sessions[s].pass # "old"
    BY <1>14 DEF AskVerify, Awaiting, OldPasswordEnds
  <2>2. job'[r].pass # "old" /\ job'[r].totp \in Steps
    BY <1>14, <2>1, PromotionType DEF AskVerify, Ask, TypeOK
  <2> QED
    BY <1>1, <1>14, <2>2 DEF AskVerify, Ask, RequestsSound, TypeOK
<1>15. ASSUME NEW r \in Requests, NEW s \in Sessions, NEW c \in Codes, AskRecovery(r, s, c)
       PROVE  RequestsSound' /\ OldPasswordEnds'
  <2>1. sessions[s].pass # "old"
    BY <1>15 DEF AskRecovery, Awaiting, OldPasswordEnds
  <2>2. job'[r].pass # "old" /\ job'[r].code # Nobody
    <3> DEFINE j == [Promotion(s) EXCEPT !.code = c]
    <3>1. j.pass = sessions[s].pass /\ j.code = c
      BY PromotionType
    <3>2. job' = [job EXCEPT ![r] = j]
      BY <1>15 DEF AskRecovery, Ask
    <3> HIDE DEF j
    <3>3. job'[r] = j
      BY <3>2 DEF TypeOK
    <3> QED
      BY <2>1, <3>1, <3>3, NamesAssumption
  <2> QED
    BY <1>1, <1>15, <2>2 DEF AskRecovery, Ask, RequestsSound, TypeOK
<1>16. ASSUME NEW s \in Sessions, EndSession(s) \/ EndSessions
       PROVE  RequestsSound' /\ OldPasswordEnds'
  BY <1>3, <1>16 DEF EndSession, EndSessions, requestVars, RequestsSound
<1>17. CASE EndSessions
  BY <1>3, <1>17 DEF EndSessions, requestVars, RequestsSound
<1>18. CASE UNCHANGED <<sessions, step, job>>
  BY <1>1, <1>18 DEF RequestsSound
<1> QED
  BY <1>4, <1>5, <1>6, <1>7, <1>8, <1>9, <1>10, <1>11, <1>12, <1>13, <1>14, <1>15, <1>16,
     <1>17, <1>18
  DEF Next, ExpireLink, Setup, vars, requestVars

LEMMA FirstState ==
  Init => /\ TypeOK /\ CodesInFlight /\ UsedIfSpent /\ RequestsSound /\ GatePassed
          /\ OldPasswordEnds /\ SecondFactorHeld
<1> SUFFICES ASSUME Init
             PROVE  /\ CodesInFlight /\ UsedIfSpent /\ RequestsSound /\ GatePassed
                    /\ OldPasswordEnds /\ SecondFactorHeld
  BY InitType
<1>1. CodesInFlight /\ UsedIfSpent /\ RequestsSound /\ GatePassed
  BY NoJobType DEF Init, CodesInFlight, UsedIfSpent, RequestsSound, GatePassed
<1>2. Active = {}
  BY NoSessionType DEF Init, Active
<1> QED
  BY <1>1, <1>2 DEF OldPasswordEnds, SecondFactorHeld, Verified

LEMMA Inductive ==
  TypeOK /\ CodesInFlight /\ UsedIfSpent /\ RequestsSound /\ OldPasswordEnds /\ [Next]_vars
    => TypeOK' /\ CodesInFlight' /\ UsedIfSpent' /\ RequestsSound' /\ OldPasswordEnds'
BY TypeStep, SecretsStep, PasswordStep

\* The type invariant: links and codes have their effect once at most.
THEOREM CredentialsTypeCorrect == Spec => []TypeOK
BY FirstState, Inductive, PTL DEF Spec

\* No session that goes on rests on a password that was replaced, but one that was
\* opened by a request in flight at the time.
THEOREM OldPasswordIsOver == Spec => []OldPasswordEnds
BY FirstState, Inductive, PTL DEF Spec

-----------------------------------------------------------------------------
(* The second factor.                                                      *)

LEMMA FactorStep == TypeOK /\ SecondFactorHeld /\ [Next]_vars => SecondFactorHeld'
<1> SUFFICES ASSUME TypeOK, SecondFactorHeld, [Next]_vars
             PROVE  SecondFactorHeld'
  OBVIOUS
<1> USE DEF userVars, historyVars, requestVars
<1>1. ASSUME UNCHANGED sessions
      PROVE  SecondFactorHeld'
  BY <1>1 DEF SecondFactorHeld, Verified, Active
<1>2. ASSUME NEW ended, sessions' = Ending(ended)
      PROVE  SecondFactorHeld'
  BY <1>2, EndingType DEF SecondFactorHeld, Verified, Active
<1>3. ASSUME NEW ended, NEW kept, sessions' = Outdated(kept, Ending(ended))
      PROVE  SecondFactorHeld'
  <2> DEFINE rows == Ending(ended)
  <2>1. /\ rows \in [Sessions -> Session]
        /\ \A s \in Sessions : rows[s].active => rows[s] = sessions[s]
    BY EndingType
  <2>2. sessions' = Outdated(kept, rows)
    BY <1>3
  <2> HIDE DEF rows
  <2> QED
    BY <2>1, <2>2, OutdatedType DEF SecondFactorHeld, Verified, Active
<1>4. ASSUME NEW r \in Requests, NEW s \in Sessions, OpenSession(r, s)
      PROVE  SecondFactorHeld'
  <2>1. /\ \A q \in Sessions \ {s} : sessions'[q] = sessions[q]
        /\ sessions'[s].handed => sessions'[s].factor = "none"
    BY <1>4 DEF OpenSession, TypeOK
  <2> QED
    BY <2>1 DEF SecondFactorHeld, Verified, Active
<1>5. ASSUME NEW r \in Requests, MarkPending(r)
      PROVE  SecondFactorHeld'
  <2>1. CASE job[r].on \in Active
    <3> DEFINE s == job[r].on
    <3>1. s \in Sessions /\ sessions'[s].pending
      BY <1>5, <2>1 DEF MarkPending, Active, TypeOK, Session
    <3>2. \A q \in Sessions \ {s} : sessions'[q] = sessions[q]
      BY <1>5, <2>1 DEF MarkPending, Active, TypeOK
    <3> QED
      BY <3>1, <3>2 DEF SecondFactorHeld, Verified, Active
  <2>2. CASE job[r].on \notin Active
    BY <1>1, <1>5, <2>2 DEF MarkPending
  <2> QED
    BY <2>1, <2>2
<1>6. ASSUME NEW r \in Requests, NEW s \in Sessions, Promote(r, s)
      PROVE  SecondFactorHeld'
  <2>1. /\ \A q \in Sessions \ {s} : sessions'[q] = Ending({job[r].on})[q]
        /\ sessions'[s].factor = "passed"
    BY <1>6, EndingType DEF Promote
  <2> QED
    BY <2>1, EndingType DEF SecondFactorHeld, Verified, Active
<1>7. ASSUME NEW t \in Tokens, Reset(t)
      PROVE  SecondFactorHeld'
  BY <1>3, <1>7 DEF Reset
<1>8. ASSUME NEW r \in Requests, Change(r)
      PROVE  SecondFactorHeld'
  BY <1>3, <1>8 DEF Change
<1>9. ASSUME NEW s \in Sessions, EndSession(s)
       PROVE  SecondFactorHeld'
  BY <1>2, <1>9 DEF EndSession
<1>10. CASE EndSessions
  BY <1>2, <1>10 DEF EndSessions
<1> QED
  BY <1>1, <1>4, <1>5, <1>6, <1>7, <1>8, <1>9, <1>10
  DEF Next, AskForgot, AskLogin, ReadFactor, EnableMfa, DisableMfa, Replay, Abort, CreateLink,
      NewCodes, AskChange, AskEnable, AskCodes, AskDisable, PromoteByCode, PromoteByTotp,
      AskVerify, AskRecovery, ExpireLink, Setup, vars

\* A login that found the second factor required gives no full session before it.
THEOREM SecondFactorIsGiven == Spec => []SecondFactorHeld
<1>1. Init => SecondFactorHeld
  BY FirstState
<1>2. TypeOK /\ SecondFactorHeld /\ [Next]_vars => SecondFactorHeld'
  BY FactorStep
<1> QED
  BY <1>1, <1>2, CredentialsTypeCorrect, PTL DEF Spec

-----------------------------------------------------------------------------
(* The replay gate.                                                        *)

LEMMA GateStep ==
  TypeOK /\ RequestsSound /\ GatePassed /\ [Next]_vars => GatePassed'
<1> SUFFICES ASSUME TypeOK, RequestsSound, GatePassed, [Next]_vars
             PROVE  GatePassed'
  OBVIOUS
<1> USE DEF userVars, historyVars, requestVars
<1>1. ASSUME NEW r \in Requests, NEW s \in Sessions, PromoteByTotp(r, s)
      PROVE  GatePassed'
  <2>1. /\ job[r].totp \in Int /\ mfa.last \in Int /\ accepted \subseteq Int
        /\ mfa.last < job[r].totp
        /\ mfa'.last = job[r].totp
        /\ accepted' \subseteq accepted \cup {job[r].totp}
    BY <1>1, StepsAssumption DEF PromoteByTotp, Advances, TypeOK, Job
  <2> QED
    BY <2>1 DEF GatePassed
<1>2. CASE accepted' = {}
  BY <1>2 DEF GatePassed
<1>3. CASE UNCHANGED <<accepted, mfa>>
  BY <1>3 DEF GatePassed
<1>4. ASSUME NEW r \in Requests, EnableMfa(r)
      PROVE  GatePassed'
  <2>1. mfa'.last = mfa.last /\ accepted' = accepted
    BY <1>4 DEF EnableMfa, TypeOK
  <2> QED
    BY <2>1 DEF GatePassed
<1> QED
  BY <1>1, <1>2, <1>3, <1>4
  DEF Next, AskForgot, AskLogin, ReadFactor, MarkPending, Change, DisableMfa, Replay, Abort,
      CreateLink, NewCodes, AskChange, AskEnable, AskCodes, AskDisable, OpenSession,
      PromoteByCode, AskVerify, AskRecovery, ExpireLink, Reset, EndSession, EndSessions, Setup,
      vars

\* A TOTP code of the present secret opens one session.
THEOREM StepsOpenOnce == Spec => StepsNotReplayed
<1>1. TypeOK /\ GatePassed =>
        \A r \in Requests, s \in Sessions :
          PromoteByTotp(r, s) /\ job[r].secret = mfa.secret => job[r].totp \notin accepted
  <2> SUFFICES ASSUME TypeOK, GatePassed, NEW r \in Requests, NEW s \in Sessions,
                      PromoteByTotp(r, s), job[r].totp \in accepted
               PROVE  FALSE
    OBVIOUS
  <2>1. mfa.last \in Int /\ job[r].totp \in Int
    <3>1. job[r] \in Job /\ mfa.last \in Steps \cup {-1}
      BY DEF TypeOK
    <3>2. job[r].totp \in Steps \cup {-1}
      BY <3>1 DEF Job
    <3>3. \A n \in Steps \cup {-1} : n \in Int
      BY StepsAssumption
    <3> QED
      BY <3>1, <3>2, <3>3
  <2>2. mfa.last < job[r].totp
    BY DEF PromoteByTotp, Advances
  <2>3. job[r].totp <= mfa.last
    BY DEF GatePassed
  <2> QED
    BY <2>1, <2>2, <2>3
<1> QED
  BY <1>1, FirstState, Inductive, GateStep, PTL DEF Spec, StepsNotReplayed

-----------------------------------------------------------------------------
(* Single-use secrets implement OneTime.                                   *)

\* Rows that are issued and withdrawn are so in OneTime.
LEMMA ReplacingIssues ==
  ASSUME NEW S, NEW rows \in [S -> Secret], NEW issued, NEW withdrawn
  PROVE  \E new, void \in SUBSET S :
           /\ \A x \in new : rows[x] = "none"
           /\ \A x \in void : rows[x] = "live"
           /\ Replacing(rows, issued, withdrawn) =
                [x \in S |-> IF x \in new THEN "live"
                             ELSE IF x \in void THEN "gone" ELSE rows[x]]
<1> DEFINE new == {x \in S : x \in issued /\ rows[x] = "none"}
           void == {x \in S : x \in withdrawn /\ rows[x] = "live"}
<1>1. \A x \in S : (x \in new) <=> (x \in issued /\ rows[x] = "none")
  OBVIOUS
<1>2. \A x \in S : (x \in void) <=> (x \in withdrawn /\ rows[x] = "live")
  OBVIOUS
<1>3. new \in SUBSET S /\ void \in SUBSET S
  OBVIOUS
<1>4. (\A x \in new : rows[x] = "none") /\ (\A x \in void : rows[x] = "live")
  OBVIOUS
<1> HIDE DEF new, void
<1>5. Replacing(rows, issued, withdrawn) =
        [x \in S |-> IF x \in new THEN "live"
                     ELSE IF x \in void THEN "gone" ELSE rows[x]]
  <2>1. DOMAIN rows = S
    OBVIOUS
  <2>2. \A x \in S : (IF x \in new THEN "live" ELSE IF x \in void THEN "gone" ELSE rows[x])
                     = (IF x \in issued /\ rows[x] = "none" THEN "live"
                        ELSE IF x \in withdrawn /\ rows[x] = "live" THEN "gone" ELSE rows[x])
    BY <1>1, <1>2
  <2> QED
    BY <2>1, <2>2 DEF Replacing
<1> QED
  BY <1>3, <1>4, <1>5

LEMMA LinksStep ==
  TypeOK /\ CodesInFlight /\ UsedIfSpent /\ [Next]_vars => [Links!Next]_(Links!vars)
<1> SUFFICES ASSUME TypeOK, CodesInFlight, UsedIfSpent, [Next]_vars
             PROVE  [Links!Next]_(Links!vars)
  OBVIOUS
<1> USE DEF userVars, historyVars, requestVars
<1>1. ASSUME NEW new \in SUBSET Tokens, NEW void \in SUBSET Tokens,
             \A x \in new : tokens[x] = "none", \A x \in void : tokens[x] = "live",
             tokens' = [x \in Tokens |-> IF x \in new THEN "live"
                                         ELSE IF x \in void THEN "gone" ELSE tokens[x]],
             UNCHANGED uses
      PROVE  Links!Next
  <2>1. Links!Issue(new, void)
    BY <1>1 DEF Links!Issue
  <2> QED
    BY <2>1 DEF Links!Next
<1>2. ASSUME NEW r \in Requests, NEW issued, CreateLink(r, issued)
      PROVE  Links!Next
  <2>0. PICK links \in SUBSET Tokens : links = job[r].links
    BY DEF TypeOK, Job
  <2>1. tokens' = Replacing(tokens, issued, links) /\ UNCHANGED uses
    BY <1>2, <2>0 DEF CreateLink
  <2>2. PICK new, void \in SUBSET Tokens :
          /\ \A x \in new : tokens[x] = "none"
          /\ \A x \in void : tokens[x] = "live"
          /\ Replacing(tokens, issued, links) =
               [x \in Tokens |-> IF x \in new THEN "live"
                                 ELSE IF x \in void THEN "gone" ELSE tokens[x]]
    <3>1. tokens \in [Tokens -> Secret]
      BY DEF TypeOK
    <3> QED
      BY <3>1, ReplacingIssues
  <2> QED
    BY <1>1, <2>1, <2>2
<1>3. ASSUME NEW t \in Tokens, ExpireLink(t)
      PROVE  Links!Next
  <2>1. /\ tokens[t] = "live" /\ tokens' = [tokens EXCEPT ![t] = "gone"]
        /\ UNCHANGED uses
    BY <1>3 DEF ExpireLink
  <2>2. tokens' = [x \in Tokens |-> IF x \in {} THEN "live"
                                    ELSE IF x \in {t} THEN "gone" ELSE tokens[x]]
    BY <2>1 DEF TypeOK
  <2>3. /\ {} \in SUBSET Tokens /\ {t} \in SUBSET Tokens
        /\ \A x \in {t} : tokens[x] = "live"
    BY <2>1
  <2>4. \A x \in {} : tokens[x] = "none"
    OBVIOUS
  <2> QED
    BY <1>1, <2>1, <2>2, <2>3, <2>4
<1>4. ASSUME NEW t \in Tokens, Reset(t)
      PROVE  Links!Next
  <2>1. /\ tokens[t] = "live" /\ uses[t] = 0
        /\ tokens' = [tokens EXCEPT ![t] = "spent"]
        /\ uses' = [uses EXCEPT ![t] = @ + 1]
    BY <1>4 DEF Reset, UsedIfSpent
  <2>2. [x \in Tokens |-> uses[x]]' = [[x \in Tokens |-> uses[x]] EXCEPT ![t] = 1]
    <3>1. \A x \in Tokens : uses'[x] = IF x = t THEN 1 ELSE uses[x]
      BY <2>1 DEF TypeOK
    <3> QED
      BY <3>1
  <2>3. Links!SpendAndUse(t)
    BY <2>1, <2>2 DEF Links!SpendAndUse
  <2> QED
    BY <2>3 DEF Links!Next
<1>5. ASSUME UNCHANGED tokens, \A t \in Tokens : uses'[t] = uses[t]
      PROVE  UNCHANGED Links!vars
  BY <1>5 DEF Links!vars
<1>6. ASSUME NEW r \in Requests, NEW s \in Sessions, PromoteByCode(r, s)
      PROVE  UNCHANGED Links!vars
  <2>1. job[r].code \in Codes
    BY <1>6 DEF PromoteByCode, TypeOK, Job
  <2>2. \A t \in Tokens : uses'[t] = uses[t]
    BY <1>6, <2>1, NamesAssumption DEF PromoteByCode, TypeOK
  <2> QED
    BY <1>5, <1>6, <2>2 DEF PromoteByCode
<1>7. CASE UNCHANGED <<tokens, uses>>
  BY <1>5, <1>7
<1> QED
  BY <1>2, <1>3, <1>4, <1>6, <1>7
  DEF Next, AskForgot, AskLogin, ReadFactor, MarkPending, Change, EnableMfa, DisableMfa, Replay,
      Abort, NewCodes, AskChange, AskEnable, AskCodes, AskDisable, OpenSession,
      PromoteByTotp, AskVerify, AskRecovery, EndSession, EndSessions, Setup, vars

LEMMA RecoveryStep ==
  TypeOK /\ CodesInFlight /\ UsedIfSpent /\ [Next]_vars => [Recovery!Next]_(Recovery!vars)
<1> SUFFICES ASSUME TypeOK, CodesInFlight, UsedIfSpent, [Next]_vars
             PROVE  [Recovery!Next]_(Recovery!vars)
  OBVIOUS
<1> USE DEF userVars, historyVars, requestVars
<1>1. ASSUME NEW issued, codes' = Replacing(codes, issued, Codes), UNCHANGED uses
      PROVE  Recovery!Next
  <2>1. PICK new, void \in SUBSET Codes :
          /\ \A x \in new : codes[x] = "none"
          /\ \A x \in void : codes[x] = "live"
          /\ Replacing(codes, issued, Codes) =
               [x \in Codes |-> IF x \in new THEN "live"
                                ELSE IF x \in void THEN "gone" ELSE codes[x]]
    <3>1. codes \in [Codes -> Secret]
      BY DEF TypeOK
    <3> QED
      BY <3>1, ReplacingIssues
  <2>2. Recovery!Issue(new, void)
    BY <1>1, <2>1 DEF Recovery!Issue
  <2> QED
    BY <2>2 DEF Recovery!Next
<1>2. ASSUME NEW r \in Requests, NEW issued, NewCodes(r, issued) \/ DisableMfa(r)
      PROVE  Recovery!Next
  BY <1>1, <1>2 DEF NewCodes, DisableMfa
<1>3. ASSUME NEW r \in Requests, NEW s \in Sessions, NEW c \in Codes, AskRecovery(r, s, c)
      PROVE  Recovery!Next
  <2>1. Recovery!Spend(c)
    BY <1>3 DEF AskRecovery, Recovery!Spend
  <2> QED
    BY <2>1 DEF Recovery!Next
<1>4. ASSUME NEW r \in Requests, NEW s \in Sessions, PromoteByCode(r, s)
      PROVE  Recovery!Next
  <2>0. PICK c \in Codes : c = job[r].code
    BY <1>4 DEF PromoteByCode, TypeOK, Job
  <2>1. codes[c] = "spent" /\ uses[c] = 0
    BY <1>4, <2>0 DEF PromoteByCode, Promote, CodesInFlight, TypeOK, Job
  <2>2. uses' = [uses EXCEPT ![c] = @ + 1] /\ UNCHANGED codes
    BY <1>4, <2>0 DEF PromoteByCode
  <2>3. [x \in Codes |-> uses[x]]' = [[x \in Codes |-> uses[x]] EXCEPT ![c] = 1]
    <3>1. \A x \in Codes : uses'[x] = IF x = c THEN 1 ELSE uses[x]
      BY <2>1, <2>2 DEF TypeOK
    <3> QED
      BY <3>1
  <2>4. Recovery!Use(c)
    BY <2>1, <2>2, <2>3 DEF Recovery!Use
  <2> QED
    BY <2>1, <2>4 DEF Recovery!Next
<1>5. ASSUME UNCHANGED codes, \A c \in Codes : uses'[c] = uses[c]
      PROVE  UNCHANGED Recovery!vars
  BY <1>5 DEF Recovery!vars
<1>6. ASSUME NEW t \in Tokens, Reset(t)
      PROVE  UNCHANGED Recovery!vars
  <2>1. \A c \in Codes : uses'[c] = uses[c]
    BY <1>6, NamesAssumption DEF Reset, TypeOK
  <2> QED
    BY <1>5, <1>6, <2>1 DEF Reset
<1>7. CASE UNCHANGED <<codes, uses>>
  BY <1>5, <1>7
<1> QED
  BY <1>2, <1>3, <1>4, <1>6, <1>7
  DEF Next, AskForgot, AskLogin, ReadFactor, MarkPending, Change, EnableMfa, Replay, Abort,
      CreateLink, AskChange, AskEnable, AskCodes, AskDisable, OpenSession, PromoteByTotp,
      AskVerify, ExpireLink, EndSession, EndSessions, Setup, vars

\* Reset links and recovery codes implement OneTime: they are spent once, and what
\* they are for happens once.
THEOREM SecretsImplemented == Spec => SecretsSpec
<1>1. Init => Links!Init /\ Recovery!Init
  BY DEF Init, Links!Init, Recovery!Init
<1> QED
  BY <1>1, FirstState, Inductive, LinksStep, RecoveryStep, PTL
  DEF Spec, SecretsSpec, Links!Spec, Recovery!Spec

\* A link or a recovery code that was spent or withdrawn never works again.
THEOREM SpentForGood == Spec => Links!SpentStays /\ Recovery!SpentStays
<1>1. TypeOK /\ [Links!Next]_(Links!vars) => Links!KeepsSpent
  <2> SUFFICES ASSUME TypeOK, [Links!Next]_(Links!vars), NEW i \in Tokens
               PROVE  /\ tokens[i] \in {"spent", "gone"} => tokens'[i] = tokens[i]
                      /\ uses'[i] >= uses[i]
    BY DEF Links!KeepsSpent
  <2>1. uses[i] \in 0..1
    BY DEF TypeOK
  <2>2. tokens[i] \in {"spent", "gone"} => tokens'[i] = tokens[i]
    BY DEF TypeOK, Links!Next, Links!vars, Links!Issue, Links!SpendAndUse, Links!Spend, Links!Use
  <2>3. uses'[i] = uses[i] \/ uses'[i] = 1
    BY DEF Links!Next, Links!vars, Links!Issue, Links!SpendAndUse, Links!Spend, Links!Use
  <2> QED
    BY <2>1, <2>2, <2>3
<1>2. TypeOK /\ [Recovery!Next]_(Recovery!vars) => Recovery!KeepsSpent
  <2> SUFFICES ASSUME TypeOK, [Recovery!Next]_(Recovery!vars), NEW i \in Codes
               PROVE  /\ codes[i] \in {"spent", "gone"} => codes'[i] = codes[i]
                      /\ uses'[i] >= uses[i]
    BY DEF Recovery!KeepsSpent
  <2>1. uses[i] \in 0..1
    BY DEF TypeOK
  <2>2. codes[i] \in {"spent", "gone"} => codes'[i] = codes[i]
    BY DEF TypeOK, Recovery!Next, Recovery!vars, Recovery!Issue,
       Recovery!SpendAndUse, Recovery!Spend, Recovery!Use
  <2>3. uses'[i] = uses[i] \/ uses'[i] = 1
    BY DEF Recovery!Next, Recovery!vars, Recovery!Issue,
       Recovery!SpendAndUse, Recovery!Spend, Recovery!Use
  <2> QED
    BY <2>1, <2>2, <2>3
<1> QED
  BY <1>1, <1>2, SecretsImplemented, CredentialsTypeCorrect, PTL
  DEF SecretsSpec, Links!Spec, Recovery!Spec, Links!SpentStays, Recovery!SpentStays

=============================================================================

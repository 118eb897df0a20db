---------------------------- MODULE Credentials ----------------------------
(***************************************************************************)
(* What one user logs in with: the password and its reset links, the TOTP  *)
(* secret with its replay gate, the recovery codes, and the sessions they  *)
(* open.  Sources: routes/auth.ts, repositories/mfa.repo.ts,               *)
(* password-reset.repo.ts, users.repo.ts, sessions.repo.ts.                *)
(*                                                                         *)
(* A handler is a request that goes from one database call to the next; a  *)
(* transaction that locks the user's row first is one step.                *)
(***************************************************************************)
EXTENDS Integers, FiniteSets

CONSTANTS
  Requests,     \* requests in flight
  Sessions,     \* the rows of `sessions` that are followed
  Tokens,       \* the rows of `password_reset_tokens` that are followed
  Codes,        \* the rows of `mfa_recovery_codes` that are followed
  MaxSecrets,   \* bound: secrets that are ever generated
  Steps,        \* TOTP periods whose codes are presented, at whatever moment
  Nobody

ASSUME StepsAssumption == Steps \subseteq Nat /\ MaxSecrets \in Nat
ASSUME NamesAssumption ==
  /\ Tokens \cap Codes = {}
  /\ Nobody \notin Requests \cup Sessions \cup Codes

VARIABLES
  tokens,     \* [Tokens -> Secret]: reset links
  codes,      \* [Codes -> Secret]: recovery codes; "spent" outlives the row
  mfa,        \* mfa_enabled, mfa_secret_encrypted (0: null), mfa_last_verified_step
  secrets,    \* how many secrets were generated
  sessions,   \* [Sessions -> Session]
  step,       \* [Requests -> Step]: the database call a request is at
  job,        \* [Requests -> Job]: what it has read so far
  accepted,   \* history: steps of the present secret that opened a session
  uses        \* history: [Tokens \cup Codes -> Nat], effects of single-use secrets

userVars == <<tokens, codes, mfa, secrets, sessions>>
requestVars == <<step, job>>
historyVars == <<accepted, uses>>
vars == <<userVars, requestVars, historyVars>>

\* A reset link that expires is as good as void; recovery codes are deleted.
Secret == {"none", "live", "gone", "spent"}

\* The password a session or a request rests on: the user's, or one that was
\* replaced; "late" if that happened while the request was in flight.
Pass == {"current", "late", "old"}

\* The second factor: not required, required and not yet given, given.
Factor == {"none", "asked", "passed"}

Session == [active : BOOLEAN, pending : BOOLEAN,
            handed : BOOLEAN, pass : Pass, factor : Factor]
\* No row, or one that was revoked or has expired.
NoSession == [active |-> FALSE, pending |-> FALSE, handed |-> FALSE,
              pass |-> "current", factor |-> "none"]

Active == {s \in Sessions : sessions[s].active}

\* A session whose cookie a client has: requireAuth, then requireMfaVerified or
\* the contrary in the two routes that await the second factor.
Verified == {s \in Active : sessions[s].handed /\ ~sessions[s].pending}
Awaiting == {s \in Active : sessions[s].handed /\ sessions[s].pending}

Step == {"idle", "forgot", "factor", "open", "mark", "change", "enable", "codes",
         "disable", "promote"}
Job == [on : Sessions \cup {Nobody}, pass : Pass, factor : Factor,
        secret : 0..MaxSecrets, totp : Steps \cup {-1},
        code : Codes \cup {Nobody}, links : SUBSET Tokens]
NoJob == [on |-> Nobody, pass |-> "current", factor |-> "none", secret |-> 0,
          totp |-> -1, code |-> Nobody, links |-> {}]

Init ==
  /\ tokens = [t \in Tokens |-> "none"]
  /\ codes = [c \in Codes |-> "none"]
  /\ mfa = [on |-> FALSE, secret |-> 0, last |-> -1]
  /\ secrets = 0
  /\ sessions = [s \in Sessions |-> NoSession]
  /\ step = [r \in Requests |-> "idle"]
  /\ job = [r \in Requests |-> NoJob]
  /\ accepted = {}
  /\ uses = [i \in Tokens \cup Codes |-> 0]

Ask(r, next, input) ==
  /\ step[r] = "idle"
  /\ step' = [step EXCEPT ![r] = next]
  /\ job' = [job EXCEPT ![r] = input]

Finish(r) ==
  /\ step' = [step EXCEPT ![r] = "idle"]
  /\ job' = [job EXCEPT ![r] = NoJob]

\* A row for a new session: one that no request still means.
Free(s) == s \notin Active /\ \A r \in Requests : job[r].on # s

Ending(ended) == [s \in Sessions |-> IF s \in ended THEN NoSession ELSE sessions[s]]

-----------------------------------------------------------------------------
(* The password.                                                           *)

\* Once the password has changed, by a request of r or by nobody's: who is about
\* to open a session is late, and the sessions that go on, but for kept, are old.
Overtaken(r) ==
  [q \in Requests |->
     IF q = r THEN NoJob
     ELSE IF step[q] \in {"factor", "open", "promote"} /\ job[q].pass = "current"
     THEN [job[q] EXCEPT !.pass = "late"]
     ELSE job[q]]
Outdated(kept, rows) ==
  [s \in Sessions |->
     IF ~rows[s].active THEN rows[s]
     ELSE [rows[s] EXCEPT !.pass = IF s = kept THEN "current" ELSE "old"]]

\* POST /password/forgot: the links are found that are pending ...
AskForgot(r) ==
  /\ Ask(r, "forgot", [NoJob EXCEPT !.links = {t \in Tokens : tokens[t] = "live"}])
  /\ UNCHANGED <<userVars, historyVars>>

\* Bug: a row that was spent is issued once more.
BugReplacing(rows, issued, withdrawn) ==
  [x \in DOMAIN rows |-> IF x \in issued THEN "live"
                         ELSE IF x \in withdrawn /\ rows[x] = "live" THEN "gone"
                         ELSE rows[x]]

\* The rows once those of issued are new and those of withdrawn void or deleted.
Replacing(rows, issued, withdrawn) ==
  [x \in DOMAIN rows |-> IF x \in issued /\ rows[x] = "none" THEN "live"
                         ELSE IF x \in withdrawn /\ rows[x] = "live" THEN "gone"
                         ELSE rows[x]]

\* ... and at COMMIT those that are pending still are void, and a new one, which
\* may be one that is followed, is live.
CreateLink(r, issued) ==
  /\ step[r] = "forgot"
  /\ tokens' = Replacing(tokens, issued, job[r].links)
  /\ Finish(r)
  /\ UNCHANGED <<codes, mfa, secrets, sessions, historyVars>>

ExpireLink(t) ==
  /\ tokens[t] = "live"
  /\ tokens' = [tokens EXCEPT ![t] = "gone"]
  /\ UNCHANGED <<codes, mfa, secrets, sessions, requestVars, historyVars>>

\* Bug: sessions that await their second factor are forgotten.
BugReset(t) ==
  /\ tokens[t] = "live"
  /\ sessions' = Outdated(Nobody, Ending(Verified))
  /\ job' = Overtaken(Nobody)
  /\ tokens' = [tokens EXCEPT ![t] = "spent"]
  /\ uses' = [uses EXCEPT ![t] = @ + 1]
  /\ UNCHANGED <<codes, mfa, secrets, step, accepted>>

\* POST /password/reset, one transaction: the password is set, every session
\* ends and the link is spent.
Reset(t) ==
  /\ tokens[t] = "live"
  /\ sessions' = Outdated(Nobody, Ending(Sessions))
  /\ job' = Overtaken(Nobody)
  /\ tokens' = [tokens EXCEPT ![t] = "spent"]
  /\ uses' = [uses EXCEPT ![t] = @ + 1]
  /\ UNCHANGED <<codes, mfa, secrets, step, accepted>>

\* POST /password/change: the present password is read and verified ...
AskChange(r, s) ==
  /\ s \in Verified
  /\ Ask(r, "change", [NoJob EXCEPT !.on = s])
  /\ UNCHANGED <<userVars, historyVars>>

\* ... hashed, and replaced whatever it is by now; the other sessions end.
Change(r) ==
  /\ step[r] = "change"
  /\ sessions' = Outdated(job[r].on, Ending(Sessions \ {job[r].on}))
  /\ step' = [step EXCEPT ![r] = "idle"]
  /\ job' = Overtaken(r)
  /\ UNCHANGED <<tokens, codes, mfa, secrets, historyVars>>

-----------------------------------------------------------------------------
(* Login.                                                                  *)

\* handleLocalLogin verifies the password ...
AskLogin(r) ==
  /\ Ask(r, "factor", NoJob)
  /\ UNCHANGED <<userVars, historyVars>>

\* ... asks whether a second factor is required ...
ReadFactor(r) ==
  /\ step[r] = "factor"
  /\ step' = [step EXCEPT ![r] = "open"]
  /\ job' = [job EXCEPT ![r].factor = IF mfa.on THEN "asked" ELSE "none"]
  /\ UNCHANGED <<userVars, historyVars>>

\* Bug: the cookie is sent first and the session marked afterwards.
BugOpenSession(r, s) ==
  /\ step[r] = "open" /\ Free(s)
  /\ sessions' = [sessions EXCEPT ![s] =
       [active |-> TRUE, pending |-> FALSE, handed |-> TRUE,
        pass |-> job[r].pass, factor |-> job[r].factor]]
  /\ IF job[r].factor = "none"
     THEN Finish(r)
     ELSE /\ step' = [step EXCEPT ![r] = "mark"]
          /\ job' = [job EXCEPT ![r].on = s]
  /\ UNCHANGED <<tokens, codes, mfa, secrets, historyVars>>

\* ... opens the session, which is marked as pending in a statement of its own
\* before its cookie is sent.
OpenSession(r, s) ==
  /\ step[r] = "open" /\ Free(s)
  /\ sessions' = [sessions EXCEPT ![s] =
       [active |-> TRUE, pending |-> FALSE, handed |-> job[r].factor = "none",
        pass |-> job[r].pass, factor |-> job[r].factor]]
  /\ IF job[r].factor = "none"
     THEN Finish(r)
     ELSE /\ step' = [step EXCEPT ![r] = "mark"]
          /\ job' = [job EXCEPT ![r].on = s]
  /\ UNCHANGED <<tokens, codes, mfa, secrets, historyVars>>

MarkPending(r) ==
  /\ step[r] = "mark"
  /\ sessions' = IF job[r].on \in Active
                 THEN [sessions EXCEPT ![job[r].on].pending = TRUE, ![job[r].on].handed = TRUE]
                 ELSE sessions
  /\ Finish(r)
  /\ UNCHANGED <<tokens, codes, mfa, secrets, historyVars>>

\* DELETE /sessions/:jti, POST /logout, or the row expires.
EndSession(s) ==
  /\ s \in Active
  /\ sessions' = Ending({s})
  /\ UNCHANGED <<tokens, codes, mfa, secrets, requestVars, historyVars>>

\* POST /logout-all.
EndSessions ==
  /\ Verified \cup Awaiting # {}
  /\ sessions' = Ending(Sessions)
  /\ UNCHANGED <<tokens, codes, mfa, secrets, requestVars, historyVars>>

-----------------------------------------------------------------------------
(* The second factor.                                                      *)

\* POST /mfa/setup: the conditional UPDATE decides, whatever was read before.
Setup(s) ==
  /\ s \in Verified /\ ~mfa.on /\ secrets < MaxSecrets
  /\ secrets' = secrets + 1
  /\ mfa' = [mfa EXCEPT !.secret = secrets + 1]
  /\ accepted' = {}
  /\ UNCHANGED <<tokens, codes, sessions, requestVars, uses>>

\* POST /mfa/enable: state and code are verified (the step is not recorded) ...
AskEnable(r, s) ==
  /\ s \in Verified /\ ~mfa.on /\ mfa.secret # 0
  /\ Ask(r, "enable", NoJob)
  /\ UNCHANGED <<userVars, historyVars>>

\* ... then the flag is set, whatever has become of the secret ...
EnableMfa(r) ==
  /\ step[r] = "enable"
  /\ mfa' = [mfa EXCEPT !.on = TRUE]
  /\ step' = [step EXCEPT ![r] = "codes"]
  /\ UNCHANGED <<tokens, codes, secrets, sessions, job, historyVars>>

\* ... and a transaction of its own replaces the recovery codes.
NewCodes(r, issued) ==
  /\ step[r] = "codes"
  /\ codes' = Replacing(codes, issued, Codes)
  /\ Finish(r)
  /\ UNCHANGED <<tokens, mfa, secrets, sessions, historyVars>>

\* POST /mfa/recovery/regenerate, after it has verified a code.
AskCodes(r, s) ==
  /\ s \in Verified /\ mfa.on /\ mfa.secret # 0
  /\ Ask(r, "codes", NoJob)
  /\ UNCHANGED <<userVars, historyVars>>

\* POST /mfa/disable verifies a code and then clears everything.
AskDisable(r, s) ==
  /\ s \in Verified /\ mfa.on /\ mfa.secret # 0
  /\ Ask(r, "disable", NoJob)
  /\ UNCHANGED <<userVars, historyVars>>

DisableMfa(r) ==
  /\ step[r] = "disable"
  /\ mfa' = [on |-> FALSE, secret |-> 0, last |-> -1]
  /\ codes' = Replacing(codes, {}, Codes)
  /\ accepted' = {}
  /\ Finish(r)
  /\ UNCHANGED <<tokens, secrets, sessions, uses>>

-----------------------------------------------------------------------------
(* From a pending session to a full one.                                   *)

Promotion(s) == [NoJob EXCEPT !.on = s, !.pass = sessions[s].pass]

\* POST /mfa/verify: the code belongs to the secret that was read.
AskVerify(r, s, n) ==
  /\ s \in Awaiting /\ mfa.on /\ mfa.secret # 0
  /\ Ask(r, "promote", [Promotion(s) EXCEPT !.secret = mfa.secret, !.totp = n])
  /\ UNCHANGED <<userVars, historyVars>>

\* Bug: used_at is read before the transaction, and not again.
BugAskRecovery(r, s, c) ==
  /\ s \in Awaiting /\ codes[c] \in {"live", "spent"}
  /\ Ask(r, "promote", [Promotion(s) EXCEPT !.code = c])
  /\ codes' = [codes EXCEPT ![c] = "spent"]
  /\ UNCHANGED <<tokens, mfa, secrets, sessions, historyVars>>

\* POST /mfa/recovery: the code is spent in a transaction of its own.
AskRecovery(r, s, c) ==
  /\ s \in Awaiting /\ codes[c] = "live"
  /\ Ask(r, "promote", [Promotion(s) EXCEPT !.code = c])
  /\ codes' = [codes EXCEPT ![c] = "spent"]
  /\ UNCHANGED <<tokens, mfa, secrets, sessions, historyVars>>

\* promotePendingSession without the gate and with it: the pending session ends
\* if it has not, and a full one opens.
Promote(r, s) ==
  /\ step[r] = "promote" /\ Free(s)
  /\ sessions' = [Ending({job[r].on}) EXCEPT ![s] =
       [active |-> TRUE, pending |-> FALSE, handed |-> TRUE,
        pass |-> job[r].pass, factor |-> "passed"]]
  /\ Finish(r)

PromoteByCode(r, s) ==
  /\ job[r].code # Nobody
  /\ Promote(r, s)
  /\ uses' = [uses EXCEPT ![job[r].code] = @ + 1]
  /\ UNCHANGED <<tokens, codes, mfa, secrets, accepted>>

\* Bug: only the last step is refused.
BugAdvances(n) == mfa.last # n

\* The replay gate.
Advances(n) == mfa.last < n

PromoteByTotp(r, s) ==
  /\ job[r].code = Nobody /\ Advances(job[r].totp)
  /\ Promote(r, s)
  /\ mfa' = [mfa EXCEPT !.last = job[r].totp]
  /\ accepted' = IF job[r].secret = mfa.secret THEN accepted \cup {job[r].totp} ELSE accepted
  /\ UNCHANGED <<tokens, codes, secrets, uses>>

Replay(r) ==
  /\ step[r] = "promote" /\ job[r].code = Nobody /\ ~Advances(job[r].totp)
  /\ Finish(r)
  /\ UNCHANGED <<userVars, historyVars>>

-----------------------------------------------------------------------------
\* A statement fails, or the process dies: what was committed stays.
Abort(r) ==
  /\ step[r] # "idle"
  /\ Finish(r)
  /\ UNCHANGED <<userVars, historyVars>>

Next ==
  \/ \E r \in Requests :
       \/ AskForgot(r) \/ AskLogin(r)
       \/ ReadFactor(r) \/ MarkPending(r) \/ Change(r) \/ EnableMfa(r) \/ DisableMfa(r)
       \/ Replay(r) \/ Abort(r)
       \/ CreateLink(r, {}) \/ \E t \in Tokens : CreateLink(r, {t})
       \/ \E issued \in SUBSET Codes : NewCodes(r, issued)
       \/ \E s \in Sessions :
            \/ AskChange(r, s) \/ AskEnable(r, s) \/ AskCodes(r, s) \/ AskDisable(r, s)
            \/ OpenSession(r, s) \/ PromoteByCode(r, s) \/ PromoteByTotp(r, s)
            \/ \E n \in Steps : AskVerify(r, s, n)
            \/ \E c \in Codes : AskRecovery(r, s, c)
  \/ \E t \in Tokens : ExpireLink(t) \/ Reset(t)
  \/ \E s \in Sessions : EndSession(s) \/ Setup(s)
  \/ EndSessions

Spec == Init /\ [][Next]_vars

-----------------------------------------------------------------------------
(* Properties.                                                             *)

TypeOK ==
  /\ tokens \in [Tokens -> Secret]
  /\ codes \in [Codes -> Secret]
  /\ mfa \in [on : BOOLEAN, secret : 0..MaxSecrets, last : Steps \cup {-1}]
  /\ secrets \in 0..MaxSecrets
  /\ sessions \in [Sessions -> Session]
  /\ step \in [Requests -> Step] /\ job \in [Requests -> Job]
  /\ accepted \in SUBSET Steps
  /\ uses \in [Tokens \cup Codes -> 0..1]

\* Once the password has changed, by a reset or from a session, no session that
\* rests on the former one goes on, pending ones included; only a login or a
\* promotion that was in flight (which is late) may still open one.
OldPasswordEnds == \A s \in Active : sessions[s].pass # "old"

\* A login that found the second factor required gives no full session before
\* that factor is given, although the session opens full and is marked later,
\* if at all.
SecondFactorHeld == \A s \in Verified : sessions[s].factor # "asked"

\* A TOTP code of the present secret opens one session, whatever requests present
\* it at once, promotions that verified a former secret included.
StepsNotReplayed == [][
  \A r \in Requests, s \in Sessions :
    PromoteByTotp(r, s) /\ job[r].secret = mfa.secret => job[r].totp \notin accepted]_vars

\* A reset link sets the password once, in the step that spends it; a recovery
\* code is spent once and opens one session at most, which may come later.
Links == INSTANCE OneTime WITH
  Items <- Tokens, Apart <- FALSE, state <- tokens, uses <- [t \in Tokens |-> uses[t]]
Recovery == INSTANCE OneTime WITH
  Items <- Codes, Apart <- TRUE, state <- codes, uses <- [c \in Codes |-> uses[c]]
SecretsSpec == Links!Spec /\ Recovery!Spec

=============================================================================

---------------------------- MODULE UserAccounts ----------------------------
(***************************************************************************)
(* The account of one user: login, token refresh and logout (auth.service. *)
(* ts), the guard of protected requests (jwt-auth.guard.ts) and the reset  *)
(* of the password by a mailed code (verification.service.ts), all under   *)
(* src/apps/api/src/auth/.                                                 *)
(*                                                                         *)
(* Login counts failures from a row it read before it checked the          *)
(* password.  A refresh locks its token's row, then the session's; a       *)
(* logout locks the session's row, then the tokens': when they meet the    *)
(* database aborts one of them.  A reset revokes the sessions and leaves   *)
(* their tokens alone.  Expiry of tokens and sessions is left out: it only *)
(* ever refuses more.                                                      *)
(***************************************************************************)
EXTENDS Requests, Integers, FiniteSets

CONSTANTS
    Session,         \* rows of user_sessions
    MaxTokens,       \* bound: refresh tokens of a session
    MaxResets,       \* bound: password resets, one challenge at least for each
    MaxChallenges,   \* bound: challenges issued
    MaxFailures,     \* bound: failedLoginCount
    LockAfter,       \* failed logins that lock the account
    MaxAttempts      \* MAX_ATTEMPTS for one code

ASSUME AccountAssumption ==
    /\ MaxTokens \in Nat \ {0} /\ MaxResets \in Nat /\ MaxChallenges \in Nat
    /\ MaxFailures \in Nat /\ LockAfter \in Nat \ {0}
    /\ MaxAttempts \in Nat \ {0} /\ IsFiniteSet(Request)

VARIABLES
    password,      \* the user's password, by the number of resets before it
    failures,      \* failedLoginCount
    lock,          \* lockedUntil: "none", in the future or in the past
    session,       \* user_sessions
    token,         \* session_refresh_tokens of each session, in their order
    challenge,     \* verification_challenges for PASSWORD_RESET
    cooling,       \* the latest challenge is less than a minute old
    auth,          \* requests in flight
    streak,        \* history: failures recorded since the last success
    uncounted      \* history: a login met another one or a reset since then

accountVars == <<password, failures, lock, session, token, challenge, cooling,
                 auth, streak, uncounted>>

login == <<failures, lock, streak, uncounted>>
tokens == <<session, token>>
codes == <<challenge, cooling>>

Password == 0..MaxResets
Token == 1..MaxTokens
Challenge == 1..MaxChallenges

NoSession == [state |-> "none", by |-> 0, overtaken |-> FALSE]
NoChallenge == [state |-> "none", attempts |-> 0, accepted |-> 0]
NoAuth == [phase |-> "idle", typed |-> 0, read |-> 0, overtaken |-> FALSE,
           session |-> None, token |-> 0, late |-> FALSE, locks |-> FALSE,
           seen |-> {}, challenge |-> 0, right |-> FALSE]

AccountInit ==
    /\ password = 0
    /\ failures = 0
    /\ lock = "none"
    /\ session = [s \in Session |-> NoSession]
    /\ token = [s \in Session |-> [t \in Token |-> "none"]]
    /\ challenge = [h \in Challenge |-> NoChallenge]
    /\ cooling = FALSE
    /\ auth = [r \in Request |-> NoAuth]
    /\ streak = 0
    /\ uncounted = FALSE

-----------------------------------------------------------------------------

AuthStart(r, request) ==
    /\ auth[r] = NoAuth
    /\ auth' = [auth EXCEPT ![r] = request]

AuthReturn(r) == auth' = [auth EXCEPT ![r] = NoAuth]

AuthProceed(r, condition, phase) ==
    IF condition THEN auth' = Moved(auth, r, phase) ELSE AuthReturn(r)

-----------------------------------------------------------------------------
(* login() *)

\* Logins between their read of the user and their write of it.
Counting == {r \in Request : auth[r].phase \in {"fail", "clear"}}

ReceiveLogin(r, p) ==
    /\ AuthStart(r, [NoAuth EXCEPT !.phase = "login", !.typed = p])
    /\ UNCHANGED <<password, login, tokens, codes>>

\* The lock is read with the password, which is checked after the read.
ReadUser(r) ==
    /\ At(auth, r, "login")
    /\ IF lock = "future"
       THEN AuthReturn(r) /\ UNCHANGED uncounted
       ELSE /\ auth' = [auth EXCEPT
                  ![r].phase = IF auth[r].typed = password THEN "clear" ELSE "fail",
                  ![r].read = failures]
            /\ uncounted' = (uncounted \/ Counting # {})
    /\ UNCHANGED <<password, failures, lock, streak, tokens, codes>>

CountedTwice(r) == auth[r].read + 2

Counted(r) == auth[r].read + 1

LocksBeyond(n) == n > LockAfter

Locks(n) == n >= LockAfter

\* recordFailedLogin()
RecordFailure(r) ==
    /\ At(auth, r, "fail")
    /\ auth[r].read < MaxFailures
    /\ failures' = Counted(r)
    /\ lock' = IF Locks(Counted(r)) THEN "future" ELSE lock
    /\ streak' = IF streak < MaxFailures THEN streak + 1 ELSE streak
    /\ AuthReturn(r)
    /\ UNCHANGED <<password, uncounted, tokens, codes>>

ClearFailures(r) ==
    /\ At(auth, r, "clear")
    /\ failures' = 0
    /\ lock' = "none"
    /\ streak' = 0
    /\ uncounted' = (Counting # {r})
    /\ auth' = Moved(auth, r, "open")
    /\ UNCHANGED <<password, tokens, codes>>

\* createSessionResult()
OpenSession(r, s) ==
    /\ At(auth, r, "open")
    /\ session[s].state = "none"
    /\ session' = [session EXCEPT ![s] = [state |-> "open",
                       by |-> auth[r].typed, overtaken |-> auth[r].overtaken]]
    /\ token' = [token EXCEPT ![s][1] = "live"]
    /\ AuthReturn(r)
    /\ UNCHANGED <<password, login, codes>>

\* Fifteen minutes pass.
LockExpires ==
    /\ lock = "future"
    /\ lock' = "past"
    /\ UNCHANGED <<password, failures, streak, uncounted, tokens, codes, auth>>

-----------------------------------------------------------------------------
(* refresh() *)

Open(s) == session[s].state = "open"

\* The open transaction that holds the row of token t, or of session s.
HoldsToken(r, s, t) ==
    At(auth, r, "renew") /\ auth[r].session = s /\ auth[r].token = t

HoldsSession(r, s) ==
    auth[r].phase \in {"tokens", "revoke"} /\ auth[r].session = s
        /\ auth[r].locks

TokenLocked(s, t) == \E r \in Request : HoldsToken(r, s, t)
SessionLocked(s) == \E r \in Request : HoldsSession(r, s)

\* A client presents a refresh token it was issued.
ReceiveRefresh(r, s, t) ==
    /\ token[s][t] # "none"
    /\ AuthStart(r, [NoAuth EXCEPT !.phase = "refresh", !.session = s,
                         !.token = t, !.late = ~Open(s)])
    /\ UNCHANGED <<password, login, tokens, codes>>

Usable(s, t) == token[s][t] # "revoked" /\ Open(s)

\* A token that was used before ends its session.
ReadToken(r) ==
    /\ At(auth, r, "refresh")
    /\ LET s == auth[r].session
           t == auth[r].token
       IN  AuthProceed(r, Usable(s, t),
               IF token[s][t] = "used" THEN "end" ELSE "consume")
    /\ UNCHANGED <<password, login, tokens, codes>>

UnspentOrUsed(s, t) == token[s][t] # "revoked"

\* updateMany where usedAt and revokedAt are null
Unspent(s, t) == token[s][t] = "live"

ConsumeToken(r) ==
    /\ At(auth, r, "consume")
    /\ LET s == auth[r].session
           t == auth[r].token
       IN  /\ ~TokenLocked(s, t)
           /\ AuthProceed(r, Unspent(s, t), "renew")
    /\ UNCHANGED <<password, login, tokens, codes>>

Unissued(s) == {t \in Token : token[s][t] = "none"}

\* The next token and the session's row, on which the transaction waits for
\* whoever ends the session.
CommitRefresh(r) ==
    /\ At(auth, r, "renew")
    /\ LET s == auth[r].session
           t == auth[r].token
       IN  /\ ~SessionLocked(s)
           /\ \E n \in Unissued(s) :
                 /\ \A m \in Unissued(s) : n <= m
                 /\ token' = [token EXCEPT ![s][t] = "used", ![s][n] = "live"]
    /\ AuthReturn(r)
    /\ UNCHANGED <<password, login, session, codes>>

-----------------------------------------------------------------------------
(* logout() and revokeSession() *)

\* JwtAuthGuard: the access token names a session that must be open.
ReceiveLogout(r, s) ==
    /\ Open(s)
    /\ AuthStart(r, [NoAuth EXCEPT !.phase = "end", !.session = s])
    /\ UNCHANGED <<password, login, tokens, codes>>

\* updateMany where revokedAt is null: the row stays locked if it matched.
EndSession(r) ==
    /\ At(auth, r, "end")
    /\ ~SessionLocked(auth[r].session)
    /\ auth' = [auth EXCEPT ![r].phase = "tokens",
                            ![r].locks = Open(auth[r].session)]
    /\ UNCHANGED <<password, login, tokens, codes>>

\* The second statement sees the tokens committed when it starts.
ReadTokens(r) ==
    /\ At(auth, r, "tokens")
    /\ auth' = [auth EXCEPT ![r].phase = "revoke",
                   ![r].seen = {t \in Token :
                       token[auth[r].session][t] \in {"live", "used"}}]
    /\ UNCHANGED <<password, login, tokens, codes>>

CommitEnd(r) ==
    /\ At(auth, r, "revoke")
    /\ LET s == auth[r].session
       IN  /\ \A t \in auth[r].seen : ~TokenLocked(s, t)
           /\ session' = IF auth[r].locks
                         THEN [session EXCEPT ![s].state = "ended"]
                         ELSE session
           /\ token' = [token EXCEPT ![s] =
                  [t \in Token |-> IF t \in auth[r].seen THEN "revoked"
                                                          ELSE @[t]]]
    /\ AuthReturn(r)
    /\ UNCHANGED <<password, login, codes>>

\* A refresh waits for the row of a session whose holder waits for its token.
Crossed(r, q) ==
    \E s \in Session, t \in Token :
        /\ HoldsToken(r, s, t) /\ HoldsSession(q, s)
        /\ At(auth, q, "revoke") /\ t \in auth[q].seen

\* The database breaks the cycle by aborting either transaction.
AbortDeadlocked(r) ==
    /\ \E q \in Request : Crossed(r, q) \/ Crossed(q, r)
    /\ AuthReturn(r)
    /\ UNCHANGED <<password, login, tokens, codes>>

-----------------------------------------------------------------------------
(* issue(), consume() and confirmPasswordReset() *)

ReceiveIssue(r) ==
    /\ AuthStart(r, [NoAuth EXCEPT !.phase = "cooldown"])
    /\ UNCHANGED <<password, login, tokens, codes>>

ReadLatest(r) ==
    /\ At(auth, r, "cooldown")
    /\ AuthProceed(r, ~cooling, "supersede")
    /\ UNCHANGED <<password, login, tokens, codes>>

Valid(h) == challenge[h].state = "valid"

\* An open transaction that supersedes challenge h holds its row.
ChallengeLocked(h) ==
    \E r \in Request : At(auth, r, "issue") /\ h \in auth[r].seen

Supersede(r) ==
    /\ At(auth, r, "supersede")
    /\ \A h \in Challenge : ~ChallengeLocked(h)
    /\ auth' = [auth EXCEPT ![r].phase = "issue",
                            ![r].seen = {h \in Challenge : Valid(h)}]
    /\ UNCHANGED <<password, login, tokens, codes>>

CommitIssue(r, h) ==
    /\ At(auth, r, "issue")
    /\ challenge[h].state = "none"
    /\ challenge' = [k \in Challenge |->
           IF k = h THEN [NoChallenge EXCEPT !.state = "valid"]
           ELSE IF k \in auth[r].seen
                THEN [challenge[k] EXCEPT !.state = "spent"]
                ELSE challenge[k]]
    /\ cooling' = TRUE
    /\ auth' = [auth EXCEPT ![r] = [NoAuth EXCEPT !.phase = "deliver",
                                                  !.challenge = h]]
    /\ UNCHANGED <<password, login, tokens>>

\* The mail goes out, or the challenge is withdrawn.
Deliver(r) ==
    /\ At(auth, r, "deliver")
    /\ AuthReturn(r) \/ auth' = Moved(auth, r, "withdraw")
    /\ UNCHANGED <<password, login, tokens, codes>>

Withdraw(r) ==
    /\ At(auth, r, "withdraw")
    /\ ~ChallengeLocked(auth[r].challenge)
    /\ challenge' = [challenge EXCEPT ![auth[r].challenge].state = "spent"]
    /\ AuthReturn(r)
    /\ UNCHANGED <<password, login, tokens, cooling>>

\* A minute passes; ten minutes pass.
CooldownEnds ==
    /\ cooling
    /\ cooling' = FALSE
    /\ UNCHANGED <<password, login, tokens, challenge, auth>>

ChallengeExpires(h) ==
    /\ Valid(h) /\ ~ChallengeLocked(h)
    /\ challenge' = [challenge EXCEPT ![h].state = "spent"]
    /\ UNCHANGED <<password, login, tokens, cooling, auth>>

ReceiveConfirm(r, h, correct) ==
    /\ challenge[h].state # "none"
    /\ AuthStart(r, [NoAuth EXCEPT !.phase = "code", !.challenge = h,
                                   !.right = correct])
    /\ UNCHANGED <<password, login, tokens, codes>>

Guessable(h) == Valid(h) /\ challenge[h].attempts < MaxAttempts

ReadChallenge(r) ==
    /\ At(auth, r, "code")
    /\ AuthProceed(r, Guessable(auth[r].challenge),
                   IF auth[r].right THEN "accept" ELSE "miss")
    /\ UNCHANGED <<password, login, tokens, codes>>

CountMiss(r) ==
    /\ At(auth, r, "miss")
    /\ ~ChallengeLocked(auth[r].challenge)
    /\ challenge' = [challenge EXCEPT ![auth[r].challenge].attempts = @ + 1]
    /\ AuthReturn(r)
    /\ UNCHANGED <<password, login, tokens, cooling>>

AcceptableAgain(h) == challenge[h].attempts < MaxAttempts

\* updateMany where consumedAt is null, attempts are left and it is in time
Acceptable(h) == Valid(h) /\ challenge[h].attempts < MaxAttempts

AcceptCode(r) ==
    /\ At(auth, r, "accept")
    /\ LET h == auth[r].challenge
       IN  /\ ~ChallengeLocked(h)
           /\ IF Acceptable(h)
              THEN /\ challenge' = [challenge EXCEPT
                          ![h].state = "spent", ![h].accepted = @ + 1]
                   /\ auth' = Moved(auth, r, "reset")
              ELSE AuthReturn(r) /\ UNCHANGED challenge
    /\ UNCHANGED <<password, login, tokens, cooling>>

EndsNothing(s) == session[s].state

\* updateMany on the user's sessions where revokedAt is null
AfterReset(s) == IF Open(s) THEN "reset" ELSE session[s].state

\* Logins that have seen the old password accepted.
Admitted == {r \in Request : auth[r].phase \in {"clear", "open"}}

CommitReset(r) ==
    /\ At(auth, r, "reset")
    /\ password < MaxResets
    /\ \A s \in Session : ~SessionLocked(s)
    /\ password' = password + 1
    /\ failures' = 0
    /\ lock' = "none"
    /\ streak' = 0
    /\ uncounted' = (Counting # {})
    /\ session' = [s \in Session |->
                      [session[s] EXCEPT !.state = AfterReset(s)]]
    /\ auth' = [q \in Request |->
           IF q = r THEN NoAuth
           ELSE [auth[q] EXCEPT !.overtaken = (@ \/ q \in Admitted)]]
    /\ UNCHANGED <<token, codes>>

\* The process dies or the connection drops; open transactions roll back.
LoseAuth(r) ==
    /\ auth[r] # NoAuth
    /\ AuthReturn(r)
    /\ UNCHANGED <<password, login, tokens, codes>>

-----------------------------------------------------------------------------

AccountStep(r) ==
    \/ \E p \in Password : ReceiveLogin(r, p)
    \/ ReadUser(r) \/ RecordFailure(r) \/ ClearFailures(r)
    \/ \E s \in Session : OpenSession(r, s) \/ ReceiveLogout(r, s)
    \/ \E s \in Session, t \in Token : ReceiveRefresh(r, s, t)
    \/ ReadToken(r) \/ ConsumeToken(r) \/ CommitRefresh(r)
    \/ EndSession(r) \/ ReadTokens(r) \/ CommitEnd(r) \/ AbortDeadlocked(r)
    \/ ReceiveIssue(r) \/ ReadLatest(r) \/ Supersede(r)
    \/ \E h \in Challenge : CommitIssue(r, h)
    \/ Deliver(r) \/ Withdraw(r)
    \/ \E h \in Challenge, c \in BOOLEAN : ReceiveConfirm(r, h, c)
    \/ ReadChallenge(r) \/ CountMiss(r) \/ AcceptCode(r) \/ CommitReset(r)
    \/ LoseAuth(r)

AccountNext ==
    \/ \E r \in Request : AccountStep(r)
    \/ LockExpires \/ CooldownEnds
    \/ \E h \in Challenge : ChallengeExpires(h)

AccountSpec == AccountInit /\ [][AccountNext]_accountVars

-----------------------------------------------------------------------------
(* Properties *)

AuthRequest ==
    [phase : {"idle", "login", "fail", "clear", "open", "refresh", "consume",
              "renew", "end", "tokens", "revoke", "cooldown", "supersede",
              "issue", "deliver", "withdraw", "code", "miss", "accept",
              "reset"},
     typed : Password, read : 0..MaxFailures, overtaken : BOOLEAN,
     session : Session \cup {None}, token : Token \cup {0}, late : BOOLEAN,
     locks : BOOLEAN, seen : SUBSET (Token \cup Challenge),
     challenge : Challenge \cup {0}, right : BOOLEAN]

\* Every variable has its type.
AccountTypeOK ==
    /\ password \in Password
    /\ failures \in 0..MaxFailures
    /\ lock \in {"none", "future", "past"}
    /\ session \in [Session -> [state : {"none", "open", "ended", "reset"},
                                by : Password, overtaken : BOOLEAN]]
    /\ token \in [Session -> [Token -> {"none", "live", "used", "revoked"}]]
    /\ challenge \in [Challenge -> [state : {"none", "valid", "spent"},
                                    attempts : Nat, accepted : Nat]]
    /\ cooling \in BOOLEAN
    /\ auth \in [Request -> AuthRequest]
    /\ streak \in 0..MaxFailures /\ uncounted \in BOOLEAN

Live(s) == {t \in Token : token[s][t] = "live"}

OneLiveToken == \A s \in Session : Cardinality(Live(s)) <= 1

NoneAfterLogout ==
    \A s \in Session : session[s].state = "ended" => Live(s) = {}

LateRefreshRefused ==
    \A r \in Request :
        auth[r].late => auth[r].phase \notin {"consume", "renew"}

\* Refreshes of one session, its logout, the detection of a reused token and a
\* password reset may all overlap: a session has at most one refresh token
\* that still works, one that was logged out has none, and a refresh that
\* begins after its session was revoked in any way gets no new token.
SessionsStayEnded == OneLiveToken /\ NoneAfterLogout /\ LateRefreshRefused

\* A password reset ends the sessions opened with the old password; one that
\* outlives it was being opened while the reset committed.
OldPasswordSessionsEnd ==
    \A s \in Session :
        Open(s) /\ session[s].by # password => session[s].overtaken

CodesAreSpent ==
    \A h \in Challenge :
        /\ challenge[h].accepted <= 1
        /\ challenge[h].attempts < MaxAttempts + Cardinality(Request)

FailuresCount ==
    (~uncounted /\ streak < MaxFailures) =>
        /\ failures = streak
        /\ streak >= LockAfter => lock # "none"

\* Neither a code nor a password can be guessed at without end.  A mailed code
\* resets the password at most once and is compared with a wrong guess
\* MAX_ATTEMPTS times, or as many times more as requests can pass the check of
\* the attempts together with the last one.  Failed logins that meet no other
\* login or reset are all counted, and have locked the account once they reach
\* the limit.
GuessesAreBounded == CodesAreSpent /\ FailuresCount

=============================================================================

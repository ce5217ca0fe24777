------------------------- MODULE UserAccountsProofs -------------------------
(***************************************************************************)
(* Safety of UserAccounts for every set of requests and sessions and every *)
(* number of tokens, resets, challenges and allowed failures.              *)
(***************************************************************************)
EXTENDS UserAccounts, FiniteSetTheorems, TLAPS

AuthPhase ==
    {"idle", "login", "fail", "clear", "open", "refresh", "consume", "renew",
     "end", "tokens", "revoke", "cooldown", "supersede", "issue", "deliver",
     "withdraw", "code", "miss", "accept", "reset"}

Refreshing == {"refresh", "consume", "renew"}
Ending == {"end", "tokens", "revoke"}
Confirming == {"withdraw", "deliver", "code", "miss", "accept", "reset"}

\* What a request carries in each phase.
AuthFilled(w) ==
    /\ w.phase \in Refreshing => w.session \in Session /\ w.token \in Token
    /\ w.phase \in Ending => w.session \in Session
    /\ w.phase \in Confirming => w.challenge \in Challenge
    /\ w.seen # {} => w.phase \in {"revoke", "issue"}
    /\ w.phase = "revoke" => w.seen \subseteq Token
    /\ w.phase = "issue" => w.seen \subseteq Challenge

GoodAuth == {w \in AuthRequest : AuthFilled(w)}

AccountTypes == AccountTypeOK /\ auth \in [Request -> GoodAuth]

-----------------------------------------------------------------------------
(* Requests *)

LEMMA NoAuthIsGood == NoAuth \in GoodAuth
  <1>1. 0 \in Password /\ 0 \in 0..MaxFailures
    BY AccountAssumption DEF Password
  <1>2. NoAuth \in AuthRequest
    BY <1>1 DEF NoAuth, AuthRequest
  <1>3. QED
    BY <1>2 DEF GoodAuth, AuthFilled, NoAuth, Refreshing, Ending, Confirming

LEMMA OneAuthMoves ==
    ASSUME auth \in [Request -> GoodAuth], NEW r \in Request, NEW w \in GoodAuth,
           auth' = [auth EXCEPT ![r] = w]
    PROVE  /\ auth' \in [Request -> GoodAuth]
           /\ auth'[r] = w
           /\ \A q \in Request \ {r} : auth'[q] = auth[q]
  OBVIOUS

LEMMA ReturnIsGood ==
    ASSUME auth \in [Request -> GoodAuth], NEW r \in Request, AuthReturn(r)
    PROVE  auth' \in [Request -> GoodAuth]
  BY NoAuthIsGood DEF AuthReturn

\* Phases that ask for what the request carries already.
AccountFollows(p, q) ==
    \/ q \in {"open", "idle"}
    \/ p \in Refreshing /\ q \in {"consume", "renew", "end"}
    \/ p \in Ending /\ q = "tokens"
    \/ p \in Confirming /\ q \in Confirming
    \/ q \in {"supersede", "fail", "clear"}

LEMMA AccountPhaseIsGood ==
    ASSUME auth \in [Request -> GoodAuth], NEW r \in Request,
           NEW q \in AuthPhase, AccountFollows(auth[r].phase, q),
           auth[r].phase \notin {"revoke", "issue"}
    PROVE  [auth[r] EXCEPT !.phase = q] \in GoodAuth
  <1> DEFINE v == auth[r]
             w == [v EXCEPT !.phase = q]
  <1>1. v \in AuthRequest /\ AuthFilled(v)
    BY DEF GoodAuth
  <1>2. w \in AuthRequest
    BY <1>1 DEF AuthRequest, AuthPhase
  <1>3. /\ w.phase = q /\ w.session = v.session /\ w.token = v.token
        /\ w.challenge = v.challenge /\ w.seen = v.seen
    BY <1>1 DEF AuthRequest
  <1>4. v.seen = {}
    BY <1>1 DEF AuthFilled
  <1> HIDE DEF v, w
  <1>5. AccountFollows(v.phase, q)
    BY DEF v
  <1>6. AuthFilled(w)
    BY <1>1, <1>3, <1>4, <1>5
    DEF AuthFilled, AccountFollows, Refreshing, Ending, Confirming
  <1>7. QED
    BY <1>2, <1>6 DEF GoodAuth, v, w

LEMMA AccountMovedIsGood ==
    ASSUME auth \in [Request -> GoodAuth], NEW r \in Request,
           NEW q \in AuthPhase, AccountFollows(auth[r].phase, q),
           auth[r].phase \notin {"revoke", "issue"},
           auth' = Moved(auth, r, q)
    PROVE  auth' \in [Request -> GoodAuth]
  <1>1. auth' = [auth EXCEPT ![r] = [auth[r] EXCEPT !.phase = q]]
    BY DEF Moved
  <1>2. QED
    BY <1>1, AccountPhaseIsGood, OneAuthMoves

LEMMA ProceedIsGood ==
    ASSUME auth \in [Request -> GoodAuth], NEW r \in Request,
           NEW q \in AuthPhase, AccountFollows(auth[r].phase, q),
           auth[r].phase \notin {"revoke", "issue"},
           NEW c, AuthProceed(r, c, q)
    PROVE  auth' \in [Request -> GoodAuth]
  BY ReturnIsGood, AccountMovedIsGood DEF AuthProceed

-----------------------------------------------------------------------------
(* Type correctness *)

LEMMA AccountInitTypes == AccountInit => AccountTypes
  <1> SUFFICES ASSUME AccountInit PROVE AccountTypes
    OBVIOUS
  <1>1. 0 \in Password /\ 0 \in 0..MaxFailures
    BY AccountAssumption DEF Password
  <1>2. auth \in [Request -> GoodAuth] /\ auth \in [Request -> AuthRequest]
    BY NoAuthIsGood DEF AccountInit, GoodAuth
  <1>3. session \in [Session -> [state : {"none", "open", "ended", "reset"},
                                 by : Password, overtaken : BOOLEAN]]
    BY <1>1 DEF AccountInit, NoSession
  <1>4. challenge \in [Challenge -> [state : {"none", "valid", "spent"},
                                     attempts : Nat, accepted : Nat]]
    BY DEF AccountInit, NoChallenge
  <1>5. QED
    BY <1>1, <1>2, <1>3, <1>4 DEF AccountInit, AccountTypes, AccountTypeOK

LEMMA AccountGoodIsTyped ==
    ASSUME auth' \in [Request -> GoodAuth]
    PROVE  auth' \in [Request -> AuthRequest]
  BY DEF GoodAuth

LEMMA AuthAt ==
    ASSUME AccountTypes, NEW r \in Request
    PROVE  auth[r] \in AuthRequest /\ AuthFilled(auth[r])
  BY DEF AccountTypes, GoodAuth

LEMMA LoginTypes ==
    ASSUME AccountTypes, NEW r \in Request,
           \/ \E p \in Password : ReceiveLogin(r, p)
           \/ ReadUser(r) \/ RecordFailure(r) \/ ClearFailures(r)
           \/ \E s \in Session : OpenSession(r, s)
    PROVE  AccountTypes'
  <1>0. auth \in [Request -> GoodAuth]
    BY DEF AccountTypes
  <1>1. ASSUME NEW p \in Password, ReceiveLogin(r, p)
        PROVE  AccountTypes'
    <2> DEFINE w == [NoAuth EXCEPT !.phase = "login", !.typed = p]
    <2>1. w \in GoodAuth
      BY NoAuthIsGood
      DEF GoodAuth, AuthRequest, AuthFilled, NoAuth, Refreshing, Ending, Confirming
    <2>2. auth' \in [Request -> GoodAuth]
      BY <1>0, <1>1, <2>1, OneAuthMoves DEF ReceiveLogin, AuthStart
    <2>3. QED
      BY <1>1, <2>2, AccountGoodIsTyped
      DEF ReceiveLogin, AccountTypes, AccountTypeOK, login, tokens, codes
  <1>2. CASE ReadUser(r)
    <2> DEFINE q == IF auth[r].typed = password THEN "clear" ELSE "fail"
               v == [auth[r] EXCEPT !.phase = q]
               w == [v EXCEPT !.read = failures]
    <2>1. v \in GoodAuth
      BY <1>0, <1>2, AccountPhaseIsGood DEF ReadUser, At, AccountFollows, AuthPhase
    <2>2. w \in GoodAuth
      <3>1. w \in AuthRequest
        BY <2>1 DEF GoodAuth, AuthRequest, AccountTypes, AccountTypeOK
      <3>2. /\ w.phase = v.phase /\ w.session = v.session /\ w.token = v.token
            /\ w.challenge = v.challenge /\ w.seen = v.seen
        BY <2>1 DEF GoodAuth, AuthRequest
      <3>3. QED
        BY <2>1, <3>1, <3>2 DEF GoodAuth, AuthFilled
    <2>3. auth' \in [Request -> GoodAuth]
      <3>1. CASE lock = "future"
        BY <1>0, <1>2, <3>1, ReturnIsGood DEF ReadUser
      <3>2. CASE lock # "future"
        <4>1. auth' = [auth EXCEPT ![r] = w]
          BY <1>2, <3>2 DEF ReadUser
        <4>2. QED
          BY <1>0, <2>2, <4>1, OneAuthMoves
      <3>3. QED
        BY <3>1, <3>2
    <2>4. uncounted' \in BOOLEAN
      BY <1>2 DEF ReadUser, AccountTypes, AccountTypeOK
    <2>5. QED
      BY <1>2, <2>3, <2>4, AccountGoodIsTyped
      DEF ReadUser, AccountTypes, AccountTypeOK, tokens, codes
  <1>3. CASE RecordFailure(r)
    <2>1. auth' \in [Request -> GoodAuth]
      BY <1>0, <1>3, ReturnIsGood DEF RecordFailure
    <2>2. auth[r].read \in 0..MaxFailures /\ auth[r].read < MaxFailures
      BY <1>3, AuthAt DEF RecordFailure, AuthRequest
    <2>3. failures' \in 0..MaxFailures /\ streak' \in 0..MaxFailures
      BY <1>3, <2>2, AccountAssumption
      DEF RecordFailure, Counted, AccountTypes, AccountTypeOK
    <2>4. lock' \in {"none", "future", "past"}
      BY <1>3 DEF RecordFailure, AccountTypes, AccountTypeOK
    <2>5. QED
      BY <1>3, <2>1, <2>3, <2>4, AccountGoodIsTyped
      DEF RecordFailure, AccountTypes, AccountTypeOK, tokens, codes
  <1>4. CASE ClearFailures(r)
    <2>1. auth' \in [Request -> GoodAuth]
      BY <1>0, <1>4, AccountMovedIsGood DEF ClearFailures, At, AccountFollows, AuthPhase
    <2>2. 0 \in 0..MaxFailures
      BY AccountAssumption
    <2>3. QED
      BY <1>4, <2>1, <2>2, AccountGoodIsTyped
      DEF ClearFailures, AccountTypes, AccountTypeOK, tokens, codes
  <1>5. ASSUME NEW s \in Session, OpenSession(r, s)
        PROVE  AccountTypes'
    <2>1. auth' \in [Request -> GoodAuth]
      BY <1>0, <1>5, ReturnIsGood DEF OpenSession
    <2>2. auth[r].typed \in Password /\ auth[r].overtaken \in BOOLEAN
      BY AuthAt DEF AuthRequest
    <2>3. session' \in [Session -> [state : {"none", "open", "ended", "reset"},
                                    by : Password, overtaken : BOOLEAN]]
      BY <1>5, <2>2 DEF OpenSession, AccountTypes, AccountTypeOK
    <2>4. token' \in [Session -> [Token -> {"none", "live", "used", "revoked"}]]
      BY <1>5 DEF OpenSession, AccountTypes, AccountTypeOK
    <2>5. QED
      BY <1>5, <2>1, <2>3, <2>4, AccountGoodIsTyped
      DEF OpenSession, AccountTypes, AccountTypeOK, login, codes
  <1>6. QED
    BY <1>1, <1>2, <1>3, <1>4, <1>5

LEMMA SessionTypes ==
    ASSUME AccountTypes, NEW r \in Request,
           \/ \E s \in Session, t \in Token : ReceiveRefresh(r, s, t)
           \/ \E s \in Session : ReceiveLogout(r, s)
           \/ ReadToken(r) \/ ConsumeToken(r) \/ CommitRefresh(r)
           \/ EndSession(r) \/ ReadTokens(r) \/ CommitEnd(r)
           \/ AbortDeadlocked(r)
    PROVE  AccountTypes'
  <1>0. auth \in [Request -> GoodAuth]
    BY DEF AccountTypes
  <1>1. ASSUME NEW s \in Session, NEW t \in Token, ReceiveRefresh(r, s, t)
        PROVE  AccountTypes'
    <2> DEFINE w == [NoAuth EXCEPT !.phase = "refresh", !.session = s,
                                   !.token = t, !.late = ~Open(s)]
    <2>1. w \in GoodAuth
      BY ZenonT(40), NoAuthIsGood
      DEF GoodAuth, AuthRequest, AuthFilled, NoAuth, Refreshing, Ending,
          Confirming, Open
    <2>2. auth' \in [Request -> GoodAuth]
      BY <1>0, <1>1, <2>1, OneAuthMoves DEF ReceiveRefresh, AuthStart
    <2>3. QED
      BY <1>1, <2>2, AccountGoodIsTyped
      DEF ReceiveRefresh, AccountTypes, AccountTypeOK, login, tokens, codes
  <1>2. ASSUME NEW s \in Session, ReceiveLogout(r, s)
        PROVE  AccountTypes'
    <2> DEFINE w == [NoAuth EXCEPT !.phase = "end", !.session = s]
    <2>1. w \in GoodAuth
      BY NoAuthIsGood
      DEF GoodAuth, AuthRequest, AuthFilled, NoAuth, Refreshing, Ending, Confirming
    <2>2. auth' \in [Request -> GoodAuth]
      BY <1>0, <1>2, <2>1, OneAuthMoves DEF ReceiveLogout, AuthStart
    <2>3. QED
      BY <1>2, <2>2, AccountGoodIsTyped
      DEF ReceiveLogout, AccountTypes, AccountTypeOK, login, tokens, codes
  <1>3. CASE ReadToken(r) \/ ConsumeToken(r) \/ AbortDeadlocked(r)
    <2>1. auth' \in [Request -> GoodAuth]
      <3>1. CASE ReadToken(r)
        BY <1>0, <3>1, ProceedIsGood
        DEF ReadToken, At, AccountFollows, AuthPhase, Refreshing
      <3>2. CASE ConsumeToken(r)
        BY <1>0, <3>2, ProceedIsGood
        DEF ConsumeToken, At, AccountFollows, AuthPhase, Refreshing
      <3>3. CASE AbortDeadlocked(r)
        BY <1>0, <3>3, ReturnIsGood DEF AbortDeadlocked
      <3>4. QED
        BY <1>3, <3>1, <3>2, <3>3
    <2>2. QED
      BY <1>3, <2>1, AccountGoodIsTyped
      DEF ReadToken, ConsumeToken, AbortDeadlocked, AccountTypes,
          AccountTypeOK, login, tokens, codes
  <1>4. CASE CommitRefresh(r)
    <2>1. auth' \in [Request -> GoodAuth]
      BY <1>0, <1>4, ReturnIsGood DEF CommitRefresh
    <2>2. auth[r].session \in Session /\ auth[r].token \in Token
      BY <1>4, AuthAt DEF CommitRefresh, At, AuthFilled, Refreshing
    <2>3. PICK n \in Unissued(auth[r].session) :
              token' = [token EXCEPT ![auth[r].session][auth[r].token] = "used",
                                     ![auth[r].session][n] = "live"]
      BY <1>4 DEF CommitRefresh
    <2>4. token' \in [Session -> [Token -> {"none", "live", "used", "revoked"}]]
      BY <2>2, <2>3 DEF AccountTypes, AccountTypeOK, Unissued
    <2>5. QED
      BY <1>4, <2>1, <2>4, AccountGoodIsTyped
      DEF CommitRefresh, AccountTypes, AccountTypeOK, login, codes
  <1>5. CASE EndSession(r)
    <2> DEFINE v == [auth[r] EXCEPT !.phase = "tokens"]
               w == [v EXCEPT !.locks = Open(auth[r].session)]
    <2>1. v \in GoodAuth
      BY <1>0, <1>5, AccountPhaseIsGood
      DEF EndSession, At, AccountFollows, AuthPhase, Ending
    <2>2. w \in GoodAuth
      <3>1. w \in AuthRequest
        BY <2>1 DEF GoodAuth, AuthRequest, Open
      <3>2. /\ w.phase = v.phase /\ w.session = v.session /\ w.token = v.token
            /\ w.challenge = v.challenge /\ w.seen = v.seen
        BY <2>1 DEF GoodAuth, AuthRequest
      <3>3. QED
        BY <2>1, <3>1, <3>2 DEF GoodAuth, AuthFilled
    <2>3. auth' = [auth EXCEPT ![r] = w]
      BY <1>5 DEF EndSession
    <2>4. auth' \in [Request -> GoodAuth]
      BY <1>0, <2>2, <2>3, OneAuthMoves
    <2>5. QED
      BY <1>5, <2>4, AccountGoodIsTyped
      DEF EndSession, AccountTypes, AccountTypeOK, login, tokens, codes
  <1>6. CASE ReadTokens(r)
    <2> DEFINE Seen == {t \in Token :
                          token[auth[r].session][t] \in {"live", "used"}}
               w == [auth[r] EXCEPT !.phase = "revoke", !.seen = Seen]
    <2>1. auth[r] \in AuthRequest /\ auth[r].session \in Session
      BY <1>6, AuthAt DEF ReadTokens, At, AuthFilled, Ending
    <2>2. w \in AuthRequest
      BY <2>1 DEF AuthRequest
    <2>3. w.phase = "revoke" /\ w.seen = Seen /\ w.session = auth[r].session
      BY <2>1 DEF AuthRequest
    <2> HIDE DEF w
    <2>4. w \in GoodAuth
      BY <2>1, <2>2, <2>3
      DEF GoodAuth, AuthFilled, Refreshing, Ending, Confirming
    <2>5. auth' = [auth EXCEPT ![r] = w]
      BY <1>6 DEF ReadTokens, w
    <2>6. auth' \in [Request -> GoodAuth]
      BY <1>0, <2>4, <2>5, OneAuthMoves
    <2>7. QED
      BY <1>6, <2>6, AccountGoodIsTyped
      DEF ReadTokens, AccountTypes, AccountTypeOK, login, tokens, codes
  <1>7. CASE CommitEnd(r)
    <2>1. auth' \in [Request -> GoodAuth]
      BY <1>0, <1>7, ReturnIsGood DEF CommitEnd
    <2>2. auth[r].session \in Session
      BY <1>7, AuthAt DEF CommitEnd, At, AuthFilled, Ending
    <2>3. session' \in [Session -> [state : {"none", "open", "ended", "reset"},
                                    by : Password, overtaken : BOOLEAN]]
      <3>1. session \in [Session -> [state : {"none", "open", "ended", "reset"},
                                     by : Password, overtaken : BOOLEAN]]
        BY DEF AccountTypes, AccountTypeOK
      <3>2. session' = session
            \/ session' = [session EXCEPT ![auth[r].session].state = "ended"]
        BY <1>7 DEF CommitEnd
      <3>3. QED
        BY <2>2, <3>1, <3>2
    <2>4. token' \in [Session -> [Token -> {"none", "live", "used", "revoked"}]]
      BY <1>7, <2>2 DEF CommitEnd, AccountTypes, AccountTypeOK
    <2>5. QED
      BY <1>7, <2>1, <2>3, <2>4, AccountGoodIsTyped
      DEF CommitEnd, AccountTypes, AccountTypeOK, login, codes
  <1>8. QED
    BY <1>1, <1>2, <1>3, <1>4, <1>5, <1>6, <1>7

LEMMA CodeTypes ==
    ASSUME AccountTypes, NEW r \in Request,
           \/ ReceiveIssue(r) \/ ReadLatest(r) \/ Supersede(r)
           \/ \E h \in Challenge : CommitIssue(r, h)
           \/ Deliver(r) \/ Withdraw(r)
    PROVE  AccountTypes'
  <1>0. auth \in [Request -> GoodAuth]
    BY DEF AccountTypes
  <1>1. CASE ReceiveIssue(r)
    <2> DEFINE w == [NoAuth EXCEPT !.phase = "cooldown"]
    <2>1. w \in GoodAuth
      BY NoAuthIsGood
      DEF GoodAuth, AuthRequest, AuthFilled, NoAuth, Refreshing, Ending, Confirming
    <2>2. auth' \in [Request -> GoodAuth]
      BY <1>0, <1>1, <2>1, OneAuthMoves DEF ReceiveIssue, AuthStart
    <2>3. QED
      BY <1>1, <2>2, AccountGoodIsTyped
      DEF ReceiveIssue, AccountTypes, AccountTypeOK, login, tokens, codes
  <1>2. CASE ReadLatest(r) \/ Deliver(r)
    <2>1. auth' \in [Request -> GoodAuth]
      <3>1. CASE ReadLatest(r)
        BY <1>0, <3>1, ProceedIsGood DEF ReadLatest, At, AccountFollows, AuthPhase
      <3>2. CASE Deliver(r) /\ AuthReturn(r)
        BY <1>0, <3>2, ReturnIsGood
      <3>3. CASE Deliver(r) /\ auth' = Moved(auth, r, "withdraw")
        BY <1>0, <3>3, AccountMovedIsGood
        DEF Deliver, At, AccountFollows, AuthPhase, Confirming
      <3>4. QED
        BY <1>2, <3>1, <3>2, <3>3 DEF Deliver
    <2>2. QED
      BY <1>2, <2>1, AccountGoodIsTyped
      DEF ReadLatest, Deliver, AccountTypes, AccountTypeOK, login, tokens, codes
  <1>3. CASE Supersede(r)
    <2> DEFINE Seen == {h \in Challenge : Valid(h)}
               w == [auth[r] EXCEPT !.phase = "issue", !.seen = Seen]
    <2>1. auth[r] \in AuthRequest
      BY AuthAt
    <2>2. w \in AuthRequest
      BY <2>1 DEF AuthRequest
    <2>3. w.phase = "issue" /\ w.seen = Seen
      BY <2>1 DEF AuthRequest
    <2>4. Seen \subseteq Challenge
      OBVIOUS
    <2> HIDE DEF w, Seen
    <2>5. w \in GoodAuth
      BY <2>2, <2>3, <2>4
      DEF GoodAuth, AuthFilled, Refreshing, Ending, Confirming
    <2>6. auth' = [auth EXCEPT ![r] = w]
      BY <1>3 DEF Supersede, w, Seen
    <2>7. auth' \in [Request -> GoodAuth]
      BY <1>0, <2>5, <2>6, OneAuthMoves
    <2>8. QED
      BY <1>3, <2>7, AccountGoodIsTyped
      DEF Supersede, AccountTypes, AccountTypeOK, login, tokens, codes
  <1>4. ASSUME NEW h \in Challenge, CommitIssue(r, h)
        PROVE  AccountTypes'
    <2> DEFINE w == [NoAuth EXCEPT !.phase = "deliver", !.challenge = h]
    <2>1. w \in GoodAuth
      BY NoAuthIsGood
      DEF GoodAuth, AuthRequest, AuthFilled, NoAuth, Refreshing, Ending, Confirming
    <2>2. auth' \in [Request -> GoodAuth]
      BY <1>0, <1>4, <2>1, OneAuthMoves DEF CommitIssue
    <2>3. challenge' \in [Challenge -> [state : {"none", "valid", "spent"},
                                        attempts : Nat, accepted : Nat]]
      <3> DEFINE R == [state : {"none", "valid", "spent"},
                       attempts : Nat, accepted : Nat]
      <3>1. challenge \in [Challenge -> R]
        BY DEF AccountTypes, AccountTypeOK
      <3>2. [NoChallenge EXCEPT !.state = "valid"] \in R
        BY DEF NoChallenge
      <3>3. \A k \in Challenge : [challenge[k] EXCEPT !.state = "spent"] \in R
        BY <3>1
      <3> HIDE DEF R
      <3>4. challenge' \in [Challenge -> R]
        BY <1>4, <3>1, <3>2, <3>3 DEF CommitIssue
      <3>5. QED
        BY <3>4 DEF R
    <2>4. QED
      BY <1>4, <2>2, <2>3, AccountGoodIsTyped
      DEF CommitIssue, AccountTypes, AccountTypeOK, login, tokens
  <1>5. CASE Withdraw(r)
    <2>1. auth' \in [Request -> GoodAuth]
      BY <1>0, <1>5, ReturnIsGood DEF Withdraw
    <2>2. challenge' \in [Challenge -> [state : {"none", "valid", "spent"},
                                        attempts : Nat, accepted : Nat]]
      BY <1>5 DEF Withdraw, AccountTypes, AccountTypeOK
    <2>3. QED
      BY <1>5, <2>1, <2>2, AccountGoodIsTyped
      DEF Withdraw, AccountTypes, AccountTypeOK, login, tokens
  <1>6. QED
    BY <1>1, <1>2, <1>3, <1>4, <1>5

LEMMA ConfirmTypes ==
    ASSUME AccountTypes, NEW r \in Request,
           \/ \E h \in Challenge, c \in BOOLEAN : ReceiveConfirm(r, h, c)
           \/ ReadChallenge(r) \/ CountMiss(r) \/ AcceptCode(r)
           \/ CommitReset(r) \/ LoseAuth(r)
    PROVE  AccountTypes'
  <1>0. auth \in [Request -> GoodAuth]
    BY DEF AccountTypes
  <1>1. ASSUME NEW h \in Challenge, NEW c \in BOOLEAN, ReceiveConfirm(r, h, c)
        PROVE  AccountTypes'
    <2> DEFINE w == [NoAuth EXCEPT !.phase = "code", !.challenge = h, !.right = c]
    <2>1. w \in GoodAuth
      BY NoAuthIsGood
      DEF GoodAuth, AuthRequest, AuthFilled, NoAuth, Refreshing, Ending, Confirming
    <2>2. auth' \in [Request -> GoodAuth]
      BY <1>0, <1>1, <2>1, OneAuthMoves DEF ReceiveConfirm, AuthStart
    <2>3. QED
      BY <1>1, <2>2, AccountGoodIsTyped
      DEF ReceiveConfirm, AccountTypes, AccountTypeOK, login, tokens, codes
  <1>2. CASE ReadChallenge(r) \/ LoseAuth(r)
    <2>1. auth' \in [Request -> GoodAuth]
      <3>1. CASE ReadChallenge(r)
        BY <1>0, <3>1, ProceedIsGood
        DEF ReadChallenge, At, AccountFollows, AuthPhase, Confirming
      <3>2. CASE LoseAuth(r)
        BY <1>0, <3>2, ReturnIsGood DEF LoseAuth
      <3>3. QED
        BY <1>2, <3>1, <3>2
    <2>2. QED
      BY <1>2, <2>1, AccountGoodIsTyped
      DEF ReadChallenge, LoseAuth, AccountTypes, AccountTypeOK, login, tokens,
          codes
  <1>3. CASE CountMiss(r)
    <2>1. auth' \in [Request -> GoodAuth]
      BY <1>0, <1>3, ReturnIsGood DEF CountMiss
    <2>2. challenge' \in [Challenge -> [state : {"none", "valid", "spent"},
                                        attempts : Nat, accepted : Nat]]
      <3>1. auth[r].challenge \in Challenge
        BY <1>3, AuthAt DEF CountMiss, At, AuthFilled, Confirming
      <3>2. PICK h \in Challenge :
               challenge' = [challenge EXCEPT ![h].attempts = @ + 1]
        BY <1>3, <3>1 DEF CountMiss
      <3>3. challenge \in [Challenge -> [state : {"none", "valid", "spent"},
                                         attempts : Nat, accepted : Nat]]
        BY DEF AccountTypes, AccountTypeOK
      <3>4. QED
        BY <3>2, <3>3
    <2>3. QED
      BY <1>3, <2>1, <2>2, AccountGoodIsTyped
      DEF CountMiss, AccountTypes, AccountTypeOK, login, tokens
  <1>4. CASE AcceptCode(r)
    <2>1. auth' \in [Request -> GoodAuth]
      <3>1. CASE AuthReturn(r)
        BY <1>0, <3>1, ReturnIsGood
      <3>2. CASE auth' = Moved(auth, r, "reset")
        BY <1>0, <1>4, <3>2, AccountMovedIsGood
        DEF AcceptCode, At, AccountFollows, AuthPhase, Confirming
      <3>3. QED
        BY <1>4, <3>1, <3>2 DEF AcceptCode
    <2>2. challenge' \in [Challenge -> [state : {"none", "valid", "spent"},
                                        attempts : Nat, accepted : Nat]]
      <3>1. challenge \in [Challenge -> [state : {"none", "valid", "spent"},
                                         attempts : Nat, accepted : Nat]]
        BY DEF AccountTypes, AccountTypeOK
      <3> DEFINE h == auth[r].challenge
      <3>2. h \in Challenge
        BY <1>4, AuthAt DEF AcceptCode, At, AuthFilled, Confirming
      <3>3. challenge' = challenge
            \/ challenge' = [challenge EXCEPT ![h].state = "spent",
                                              ![h].accepted = @ + 1]
        BY <1>4 DEF AcceptCode
      <3> HIDE DEF h
      <3>4. QED
        BY <3>1, <3>2, <3>3
    <2>3. QED
      BY <1>4, <2>1, <2>2, AccountGoodIsTyped
      DEF AcceptCode, AccountTypes, AccountTypeOK, login, tokens
  <1>5. CASE CommitReset(r)
    <2> DEFINE v(q) == [auth[q] EXCEPT
                           !.overtaken = (auth[q].overtaken \/ q \in Admitted)]
    <2>1. ASSUME NEW q \in Request
          PROVE  v(q) \in GoodAuth
      <3>1. auth[q] \in AuthRequest /\ AuthFilled(auth[q])
        BY AuthAt
      <3>2. v(q) \in AuthRequest
        <4>1. (auth[q].overtaken \/ q \in Admitted) \in BOOLEAN
          OBVIOUS
        <4>2. QED
          BY <3>1, <4>1 DEF AuthRequest
      <3>3. /\ v(q).phase = auth[q].phase /\ v(q).session = auth[q].session
            /\ v(q).token = auth[q].token /\ v(q).challenge = auth[q].challenge
            /\ v(q).seen = auth[q].seen
        BY <3>1 DEF AuthRequest
      <3>4. QED
        BY <3>1, <3>2, <3>3 DEF GoodAuth, AuthFilled
    <2>2. auth' = [q \in Request |-> IF q = r THEN NoAuth ELSE v(q)]
      BY <1>5 DEF CommitReset
    <2> HIDE DEF v
    <2>3. auth' \in [Request -> GoodAuth]
      BY <2>1, <2>2, NoAuthIsGood
    <2>4. session' \in [Session -> [state : {"none", "open", "ended", "reset"},
                                    by : Password, overtaken : BOOLEAN]]
      BY <1>5 DEF CommitReset, AfterReset, AccountTypes, AccountTypeOK
    <2>5. 0 \in 0..MaxFailures /\ password' \in Password
      BY <1>5, AccountAssumption
      DEF CommitReset, AccountTypes, AccountTypeOK, Password
    <2>6. QED
      BY <1>5, <2>3, <2>4, <2>5, AccountGoodIsTyped
      DEF CommitReset, AccountTypes, AccountTypeOK, codes
  <1>6. QED
    BY <1>1, <1>2, <1>3, <1>4, <1>5

LEMMA TimeTypes ==
    ASSUME AccountTypes,
           LockExpires \/ CooldownEnds \/ \E h \in Challenge : ChallengeExpires(h)
    PROVE  AccountTypes'
  <1>1. CASE LockExpires
    BY <1>1 DEF LockExpires, AccountTypes, AccountTypeOK, tokens, codes
  <1>2. CASE CooldownEnds
    BY <1>2 DEF CooldownEnds, AccountTypes, AccountTypeOK, login, tokens
  <1>3. ASSUME NEW h \in Challenge, ChallengeExpires(h)
        PROVE  AccountTypes'
    <2>1. challenge' \in [Challenge -> [state : {"none", "valid", "spent"},
                                        attempts : Nat, accepted : Nat]]
      BY <1>3 DEF ChallengeExpires, AccountTypes, AccountTypeOK
    <2>2. QED
      BY <1>3, <2>1 DEF ChallengeExpires, AccountTypes, AccountTypeOK, login, tokens
  <1>4. QED
    BY <1>1, <1>2, <1>3

LEMMA AccountNextTypes == AccountTypes /\ [AccountNext]_accountVars => AccountTypes'
  <1> SUFFICES ASSUME AccountTypes, [AccountNext]_accountVars
               PROVE  AccountTypes'
    OBVIOUS
  <1>1. CASE UNCHANGED accountVars
    BY <1>1 DEF accountVars, login, tokens, codes, AccountTypes, AccountTypeOK
  <1>2. ASSUME NEW r \in Request, AccountStep(r)
        PROVE  AccountTypes'
    BY <1>2, LoginTypes, SessionTypes, CodeTypes, ConfirmTypes DEF AccountStep
  <1>3. QED
    BY <1>1, <1>2, TimeTypes DEF AccountNext

LEMMA AccountTypesInvariant == AccountSpec => []AccountTypes
  BY AccountInitTypes, AccountNextTypes, PTL DEF AccountSpec

\* The user, the sessions and their tokens, the codes and the requests in
\* flight stay well typed; no failure is counted twice, in particular.
THEOREM AccountTypeCorrect == AccountSpec => []AccountTypeOK
  BY AccountTypesInvariant, PTL DEF AccountTypes

-----------------------------------------------------------------------------
(* How a step moves the requests *)

\* Only the request that takes the step moves; a reset marks the others.
LEMMA AccountOthersStay ==
    ASSUME AccountTypes, NEW r \in Request, AccountStep(r), ~CommitReset(r)
    PROVE  \A q \in Request \ {r} : auth'[q] = auth[q]
  <1>1. auth \in [Request -> GoodAuth]
    BY DEF AccountTypes
  <1>2. CASE \/ \E p \in Password : ReceiveLogin(r, p)
             \/ ReadUser(r) \/ RecordFailure(r) \/ ClearFailures(r)
             \/ \E s \in Session : OpenSession(r, s) \/ ReceiveLogout(r, s)
             \/ \E s \in Session, t \in Token : ReceiveRefresh(r, s, t)
             \/ ReadToken(r) \/ ConsumeToken(r) \/ CommitRefresh(r)
    BY <1>1, <1>2
    DEF ReceiveLogin, ReadUser, RecordFailure, ClearFailures, OpenSession,
        ReceiveLogout, ReceiveRefresh, ReadToken, ConsumeToken, CommitRefresh,
        AuthStart, AuthReturn, AuthProceed, Moved
  <1>3. CASE \/ EndSession(r) \/ ReadTokens(r) \/ CommitEnd(r)
             \/ AbortDeadlocked(r)
             \/ ReceiveIssue(r) \/ ReadLatest(r) \/ Supersede(r)
             \/ \E h \in Challenge : CommitIssue(r, h)
             \/ Deliver(r) \/ Withdraw(r)
             \/ \E h \in Challenge, c \in BOOLEAN : ReceiveConfirm(r, h, c)
             \/ ReadChallenge(r) \/ CountMiss(r) \/ AcceptCode(r)
             \/ LoseAuth(r)
    BY <1>1, <1>3
    DEF EndSession, ReadTokens, CommitEnd, AbortDeadlocked, ReceiveIssue,
        ReadLatest, Supersede, CommitIssue, Deliver, Withdraw, ReceiveConfirm,
        ReadChallenge, CountMiss, AcceptCode, LoseAuth,
        AuthStart, AuthReturn, AuthProceed, Moved
  <1>4. QED
    BY <1>2, <1>3 DEF AccountStep

LEMMA Returned ==
    ASSUME AccountTypes, NEW r \in Request, AuthReturn(r)
    PROVE  auth'[r] = NoAuth /\ auth'[r].phase = "idle"
  BY DEF AccountTypes, AuthReturn, NoAuth

LEMMA AccountMovedTo ==
    ASSUME AccountTypes, NEW r \in Request, NEW p, auth' = Moved(auth, r, p)
    PROVE  auth'[r] = [auth[r] EXCEPT !.phase = p] /\ auth'[r].phase = p
  BY DEF AccountTypes, Moved, GoodAuth, AuthRequest

LEMMA ProceededTo ==
    ASSUME AccountTypes, NEW r \in Request, NEW c, NEW p, AuthProceed(r, c, p)
    PROVE  \/ c /\ auth'[r] = [auth[r] EXCEPT !.phase = p] /\ auth'[r].phase = p
           \/ auth'[r] = NoAuth /\ auth'[r].phase = "idle"
  BY Returned, AccountMovedTo DEF AuthProceed

\* The phase each action leaves its request in.
LEMMA LoginPhases ==
    ASSUME AccountTypes, NEW r \in Request
    PROVE  /\ \A p \in Password : ReceiveLogin(r, p) => auth'[r].phase = "login"
           /\ ReadUser(r) => auth'[r].phase \in {"idle", "fail", "clear"}
           /\ RecordFailure(r) => auth'[r].phase = "idle"
           /\ ClearFailures(r) => auth'[r].phase = "open"
           /\ \A s \in Session : OpenSession(r, s) => auth'[r].phase = "idle"
  <1>1. auth \in [Request -> GoodAuth] /\ auth[r] \in AuthRequest
    BY AuthAt DEF AccountTypes
  <1>2. \A p \in Password : ReceiveLogin(r, p) => auth'[r].phase = "login"
    BY <1>1 DEF ReceiveLogin, AuthStart, NoAuth
  <1>3. ReadUser(r) => auth'[r].phase \in {"idle", "fail", "clear"}
    BY <1>1, Returned DEF ReadUser, AuthRequest
  <1>4. QED
    BY <1>2, <1>3, Returned, AccountMovedTo DEF RecordFailure, ClearFailures, OpenSession

LEMMA SessionPhases ==
    ASSUME AccountTypes, NEW r \in Request
    PROVE  /\ \A s \in Session, t \in Token :
                 ReceiveRefresh(r, s, t) => auth'[r].phase = "refresh"
           /\ \A s \in Session : ReceiveLogout(r, s) => auth'[r].phase = "end"
           /\ ReadToken(r) => auth'[r].phase \in {"idle", "end", "consume"}
           /\ ConsumeToken(r) => auth'[r].phase \in {"idle", "renew"}
           /\ CommitRefresh(r) => auth'[r].phase = "idle"
           /\ EndSession(r) => auth'[r].phase = "tokens"
           /\ ReadTokens(r) => auth'[r].phase = "revoke"
           /\ CommitEnd(r) => auth'[r].phase = "idle"
           /\ AbortDeadlocked(r) => auth'[r].phase = "idle"
  <1>1. auth \in [Request -> GoodAuth] /\ auth[r] \in AuthRequest
    BY AuthAt DEF AccountTypes
  <1>2. \A s \in Session, t \in Token :
           ReceiveRefresh(r, s, t) => auth'[r].phase = "refresh"
    BY <1>1 DEF ReceiveRefresh, AuthStart, NoAuth
  <1>3. \A s \in Session : ReceiveLogout(r, s) => auth'[r].phase = "end"
    BY <1>1 DEF ReceiveLogout, AuthStart, NoAuth
  <1>4. ReadToken(r) => auth'[r].phase \in {"idle", "end", "consume"}
    BY ProceededTo DEF ReadToken
  <1>5. ConsumeToken(r) => auth'[r].phase \in {"idle", "renew"}
    BY ProceededTo DEF ConsumeToken
  <1>6. EndSession(r) => auth'[r].phase = "tokens"
    BY <1>1 DEF EndSession, AuthRequest
  <1>7. ReadTokens(r) => auth'[r].phase = "revoke"
    BY <1>1 DEF ReadTokens, AuthRequest
  <1>8. QED
    BY <1>2, <1>3, <1>4, <1>5, <1>6, <1>7, Returned
    DEF CommitRefresh, CommitEnd, AbortDeadlocked

LEMMA CodePhases ==
    ASSUME AccountTypes, NEW r \in Request
    PROVE  /\ ReceiveIssue(r) => auth'[r].phase = "cooldown"
           /\ ReadLatest(r) => auth'[r].phase \in {"idle", "supersede"}
           /\ Supersede(r) => auth'[r].phase = "issue"
           /\ \A h \in Challenge : CommitIssue(r, h) => auth'[r].phase = "deliver"
           /\ Deliver(r) => auth'[r].phase \in {"idle", "withdraw"}
           /\ Withdraw(r) => auth'[r].phase = "idle"
           /\ \A h \in Challenge, c \in BOOLEAN :
                 ReceiveConfirm(r, h, c) => auth'[r].phase = "code"
           /\ ReadChallenge(r) => auth'[r].phase \in {"idle", "miss", "accept"}
           /\ CountMiss(r) => auth'[r].phase = "idle"
           /\ AcceptCode(r) => auth'[r].phase \in {"idle", "reset"}
           /\ CommitReset(r) => auth'[r].phase = "idle"
           /\ LoseAuth(r) => auth'[r].phase = "idle"
  <1>1. auth \in [Request -> GoodAuth] /\ auth[r] \in AuthRequest
    BY AuthAt DEF AccountTypes
  <1>2. ReceiveIssue(r) => auth'[r].phase = "cooldown"
    BY <1>1 DEF ReceiveIssue, AuthStart, NoAuth
  <1>3. Supersede(r) => auth'[r].phase = "issue"
    BY <1>1 DEF Supersede, AuthRequest
  <1>4. \A h \in Challenge : CommitIssue(r, h) => auth'[r].phase = "deliver"
    BY <1>1 DEF CommitIssue, NoAuth
  <1>5. \A h \in Challenge, c \in BOOLEAN :
           ReceiveConfirm(r, h, c) => auth'[r].phase = "code"
    BY <1>1 DEF ReceiveConfirm, AuthStart, NoAuth
  <1>6. CommitReset(r) => auth'[r].phase = "idle"
    BY <1>1 DEF CommitReset, NoAuth
  <1>7. ReadLatest(r) => auth'[r].phase \in {"idle", "supersede"}
    BY ProceededTo DEF ReadLatest
  <1>8. ReadChallenge(r) => auth'[r].phase \in {"idle", "miss", "accept"}
    BY ProceededTo DEF ReadChallenge
  <1>9. Deliver(r) => auth'[r].phase \in {"idle", "withdraw"}
    BY Returned, AccountMovedTo DEF Deliver
  <1>10. AcceptCode(r) => auth'[r].phase \in {"idle", "reset"}
    BY Returned, AccountMovedTo DEF AcceptCode
  <1>11. QED
    BY <1>2, <1>3, <1>4, <1>5, <1>6, <1>7, <1>8, <1>9, <1>10, Returned
    DEF Withdraw, CountMiss, LoseAuth

\* Which action brings a request to a phase.
LEMMA AccountEntered ==
    ASSUME AccountTypes, NEW r \in Request, AccountStep(r)
    PROVE  /\ auth'[r].phase \in {"fail", "clear"} => ReadUser(r)
           /\ auth'[r].phase = "open" => ClearFailures(r)
           /\ auth'[r].phase = "refresh" =>
                 \E s \in Session, t \in Token : ReceiveRefresh(r, s, t)
           /\ auth'[r].phase = "consume" => ReadToken(r)
           /\ auth'[r].phase = "renew" => ConsumeToken(r)
           /\ auth'[r].phase = "end" =>
                 ReadToken(r) \/ \E s \in Session : ReceiveLogout(r, s)
           /\ auth'[r].phase = "tokens" => EndSession(r)
           /\ auth'[r].phase = "revoke" => ReadTokens(r)
           /\ auth'[r].phase \in {"miss", "accept"} => ReadChallenge(r)
  BY LoginPhases, SessionPhases, CodePhases DEF AccountStep

-----------------------------------------------------------------------------
(* A reset ends the sessions of the old password *)

PasswordInv ==
    /\ OldPasswordSessionsEnd
    /\ \A r \in Request :
          auth[r].phase \in {"clear", "open"} /\ auth[r].typed # password
              => auth[r].overtaken

\* Sessions are opened by OpenSession only, and only a reset sets the password.
LEMMA SessionWriters ==
    ASSUME AccountTypes, NEW r \in Request, AccountStep(r), ~CommitReset(r)
    PROVE  /\ password' = password
           /\ \A s \in Session :
                 \/ OpenSession(r, s)
                 \/ session'[s] = session[s]
                 \/ CommitEnd(r) /\ s = auth[r].session /\ auth[r].locks
                    /\ session'[s].state = "ended"
  <1>1. CASE \E z \in Session : OpenSession(r, z)
    <2>1. PICK z \in Session : OpenSession(r, z)
      BY <1>1
    <2>2. password' = password
          /\ \A s \in Session \ {z} : session'[s] = session[s]
      BY <2>1 DEF OpenSession, AccountTypes, AccountTypeOK
    <2>3. QED
      BY <2>1, <2>2
  <1>2. CASE CommitEnd(r)
    BY <1>2 DEF CommitEnd, AccountTypes, AccountTypeOK
  <1>3. CASE ~CommitEnd(r) /\ \A s \in Session : ~OpenSession(r, s)
    <2>1. password' = password /\ session' = session
      BY <1>3
      DEF AccountStep, ReceiveLogin, ReadUser, RecordFailure, ClearFailures,
          ReceiveLogout, ReceiveRefresh, ReadToken, ConsumeToken,
          CommitRefresh, EndSession, ReadTokens, AbortDeadlocked,
          ReceiveIssue, ReadLatest, Supersede, CommitIssue, Deliver, Withdraw,
          ReceiveConfirm, ReadChallenge, CountMiss, AcceptCode, LoseAuth,
          tokens
    <2>2. QED
      BY <2>1
  <1>4. QED
    BY <1>1, <1>2, <1>3

LEMMA ResetKeepsPasswordInv ==
    ASSUME AccountTypes, PasswordInv, NEW r \in Request, CommitReset(r)
    PROVE  PasswordInv'
  <1>1. \A s \in Session : session'[s].state # "open"
    <2>1. ASSUME NEW s \in Session
          PROVE  session'[s].state = AfterReset(s)
      BY DEF CommitReset, AccountTypes, AccountTypeOK
    <2>2. QED
      BY <2>1 DEF AfterReset, Open
  <1>2. ASSUME NEW q \in Request, auth'[q].phase \in {"clear", "open"}
        PROVE  auth'[q].overtaken
    <2>1. q # r
      BY <1>2, CodePhases
    <2>2. auth[q] \in AuthRequest
      BY AuthAt
    <2>3. auth'[q] = [auth[q] EXCEPT
              !.overtaken = (auth[q].overtaken \/ q \in Admitted)]
      BY <2>1 DEF CommitReset
    <2>4. auth'[q].phase = auth[q].phase
          /\ auth'[q].overtaken = (auth[q].overtaken \/ q \in Admitted)
      BY <2>2, <2>3 DEF AuthRequest
    <2>5. q \in Admitted
      BY <1>2, <2>4 DEF Admitted
    <2>6. QED
      BY <2>4, <2>5
  <1>3. QED
    BY <1>1, <1>2 DEF PasswordInv, OldPasswordSessionsEnd, Open

LEMMA StepKeepsPasswordInv ==
    ASSUME AccountTypes, PasswordInv, NEW r \in Request, AccountStep(r)
    PROVE  PasswordInv'
  <1>0. CASE CommitReset(r)
    BY <1>0, ResetKeepsPasswordInv
  <1> SUFFICES ASSUME ~CommitReset(r)
               PROVE  PasswordInv'
    BY <1>0
  <1>1. password' = password
    BY SessionWriters
  <1>2. OldPasswordSessionsEnd'
    <2>1. ASSUME NEW s \in Session, session'[s].state = "open",
                 session'[s].by # password
          PROVE  session'[s].overtaken
      <3>1. CASE OpenSession(r, s)
        <4>1. session'[s] = [state |-> "open", by |-> auth[r].typed,
                             overtaken |-> auth[r].overtaken]
              /\ auth[r].phase = "open"
          BY <3>1 DEF OpenSession, At, AccountTypes, AccountTypeOK
        <4>2. QED
          BY <2>1, <4>1 DEF PasswordInv
      <3>2. CASE session'[s] = session[s]
        BY <2>1, <3>2 DEF PasswordInv, OldPasswordSessionsEnd, Open
      <3>3. QED
        BY <2>1, <3>1, <3>2, SessionWriters
    <2>2. QED
      BY <1>1, <2>1 DEF OldPasswordSessionsEnd, Open
  <1>3. ASSUME NEW q \in Request, auth'[q].phase \in {"clear", "open"},
               auth'[q].typed # password
        PROVE  auth'[q].overtaken
    <2>1. CASE q # r
      BY <1>3, <2>1, AccountOthersStay DEF PasswordInv
    <2>2. CASE q = r /\ auth'[r].phase = "clear"
      <3>1. ReadUser(r)
        BY <2>2, AccountEntered
      <3>2. auth' = [auth EXCEPT
                ![r].phase = IF auth[r].typed = password THEN "clear" ELSE "fail",
                ![r].read = failures]
        BY <2>2, <3>1, Returned DEF ReadUser
      <3>3. auth'[r].typed = auth[r].typed
            /\ (auth'[r].phase = "clear" => auth[r].typed = password)
        BY <3>2, AuthAt DEF AccountTypes, AuthRequest
      <3>4. QED
        BY <1>3, <2>2, <3>3
    <2>3. CASE q = r /\ auth'[r].phase = "open"
      <3>1. ClearFailures(r)
        BY <2>3, AccountEntered
      <3>2. auth'[r] = [auth[r] EXCEPT !.phase = "open"] /\ auth[r].phase = "clear"
        BY <3>1, AccountMovedTo DEF ClearFailures, At
      <3>3. auth'[r].typed = auth[r].typed /\ auth'[r].overtaken = auth[r].overtaken
        BY <3>2, AuthAt DEF AuthRequest
      <3>4. QED
        BY <1>3, <2>3, <3>2, <3>3 DEF PasswordInv
    <2>4. QED
      BY <1>3, <2>1, <2>2, <2>3
  <1>4. QED
    BY <1>1, <1>2, <1>3 DEF PasswordInv

LEMMA TimeKeeps ==
    ASSUME LockExpires \/ CooldownEnds \/ \E h \in Challenge : ChallengeExpires(h)
    PROVE  UNCHANGED <<password, failures, session, token, auth, streak, uncounted>>
  BY DEF LockExpires, CooldownEnds, ChallengeExpires, login, tokens, codes

LEMMA PasswordInvariant == AccountSpec => []PasswordInv
  <1>1. AccountInit => PasswordInv
    BY DEF AccountInit, PasswordInv, OldPasswordSessionsEnd, Open, NoSession, NoAuth
  <1>2. ASSUME AccountTypes, PasswordInv,
               UNCHANGED <<password, session, auth>>
        PROVE  PasswordInv'
    BY <1>2 DEF PasswordInv, OldPasswordSessionsEnd, Open
  <1>3. AccountTypes /\ PasswordInv /\ [AccountNext]_accountVars => PasswordInv'
    <2> SUFFICES ASSUME AccountTypes, PasswordInv, [AccountNext]_accountVars
                 PROVE  PasswordInv'
      OBVIOUS
    <2>1. CASE UNCHANGED accountVars
      BY <1>2, <2>1 DEF accountVars
    <2>2. QED
      BY <1>2, <2>1, StepKeepsPasswordInv, TimeKeeps DEF AccountNext
  <1>4. QED
    BY <1>1, <1>3, AccountTypesInvariant, PTL DEF AccountSpec

\* A password reset ends every session of the old password but one that was
\* being opened meanwhile, for any number of sessions, resets and requests.
THEOREM ResetEndsOldSessions == AccountSpec => []OldPasswordSessionsEnd
  BY PasswordInvariant, PTL DEF PasswordInv

-----------------------------------------------------------------------------
(* Sessions that were ended stay ended *)

\* No token is issued before its session, and no request names a session that
\* does not exist.
SessionsComeFirst ==
    /\ \A s \in Session, t \in Token :
          session[s].state = "none" => token[s][t] = "none"
    /\ \A r \in Request :
          auth[r].phase \in Refreshing \cup Ending
              => session[auth[r].session].state # "none"

\* A refresh under way holds a token that works, and holds it alone.
TokenIsHeld ==
    /\ \A r \in Request, s \in Session, t \in Token :
          HoldsToken(r, s, t) => token[s][t] = "live"
    /\ \A r, q \in Request, s \in Session, t \in Token :
          HoldsToken(r, s, t) /\ HoldsToken(q, s, t) => r = q

\* Whoever ends a session holds its row alone, and sees all of its tokens.
SessionIsHeld ==
    /\ \A r \in Request, s \in Session : HoldsSession(r, s) => Open(s)
    /\ \A r, q \in Request, s \in Session :
          HoldsSession(r, s) /\ HoldsSession(q, s) => r = q
    /\ \A r \in Request, s \in Session :
          HoldsSession(r, s) /\ auth[r].phase = "revoke"
              => Live(s) \subseteq auth[r].seen

LiveIsOne == \A s \in Session : \A t, u \in Live(s) : t = u

LateIsLate ==
    \A r \in Request :
        auth[r].late => /\ auth[r].phase = "refresh"
                        /\ session[auth[r].session].state \in {"ended", "reset"}

SessionInv ==
    SessionsComeFirst /\ TokenIsHeld /\ SessionIsHeld /\ LiveIsOne
        /\ NoneAfterLogout /\ LateIsLate

\* A request keeps its session, its token and its locks to the end.
LEMMA FieldsKept ==
    ASSUME AccountTypes, NEW r \in Request
    PROVE  /\ ReadToken(r) /\ auth'[r].phase # "idle" =>
                 /\ auth[r].phase = "refresh" /\ Open(auth[r].session)
                 /\ auth'[r].session = auth[r].session
                 /\ auth'[r].token = auth[r].token /\ auth'[r].late = auth[r].late
           /\ ConsumeToken(r) /\ auth'[r].phase # "idle" =>
                 /\ auth[r].phase = "consume"
                 /\ Unspent(auth[r].session, auth[r].token)
                 /\ ~TokenLocked(auth[r].session, auth[r].token)
                 /\ auth'[r].session = auth[r].session
                 /\ auth'[r].token = auth[r].token /\ auth'[r].late = auth[r].late
           /\ EndSession(r) =>
                 /\ auth[r].phase = "end" /\ ~SessionLocked(auth[r].session)
                 /\ auth'[r].locks = Open(auth[r].session)
                 /\ auth'[r].session = auth[r].session
                 /\ auth'[r].late = auth[r].late
           /\ ReadTokens(r) =>
                 /\ auth[r].phase = "tokens"
                 /\ auth'[r].seen = {t \in Token :
                        token[auth[r].session][t] \in {"live", "used"}}
                 /\ auth'[r].locks = auth[r].locks
                 /\ auth'[r].session = auth[r].session
                 /\ auth'[r].late = auth[r].late
  <1>1. auth \in [Request -> GoodAuth] /\ auth[r] \in AuthRequest
    BY AuthAt DEF AccountTypes
  <1>2. ASSUME ReadToken(r), auth'[r].phase # "idle"
        PROVE  /\ auth[r].phase = "refresh" /\ Open(auth[r].session)
               /\ auth'[r].session = auth[r].session
               /\ auth'[r].token = auth[r].token /\ auth'[r].late = auth[r].late
    <2>1. \E p : auth'[r] = [auth[r] EXCEPT !.phase = p]
      BY <1>2, ProceededTo DEF ReadToken
    <2>2. Usable(auth[r].session, auth[r].token)
      BY <1>2, ProceededTo DEF ReadToken
    <2>3. QED
      BY <1>1, <1>2, <2>1, <2>2 DEF ReadToken, At, Usable, AuthRequest
  <1>3. ASSUME ConsumeToken(r), auth'[r].phase # "idle"
        PROVE  /\ auth[r].phase = "consume"
               /\ Unspent(auth[r].session, auth[r].token)
               /\ ~TokenLocked(auth[r].session, auth[r].token)
               /\ auth'[r].session = auth[r].session
               /\ auth'[r].token = auth[r].token /\ auth'[r].late = auth[r].late
    <2>1. auth'[r] = [auth[r] EXCEPT !.phase = "renew"]
          /\ Unspent(auth[r].session, auth[r].token)
      BY <1>3, ProceededTo DEF ConsumeToken
    <2>2. QED
      BY <1>1, <1>3, <2>1 DEF ConsumeToken, At, AuthRequest
  <1>4. ASSUME EndSession(r)
        PROVE  /\ auth[r].phase = "end" /\ ~SessionLocked(auth[r].session)
               /\ auth'[r].locks = Open(auth[r].session)
               /\ auth'[r].session = auth[r].session
               /\ auth'[r].late = auth[r].late
    BY <1>1, <1>4 DEF EndSession, At, AuthRequest
  <1>5. ASSUME ReadTokens(r)
        PROVE  /\ auth[r].phase = "tokens"
               /\ auth'[r].seen = {t \in Token :
                      token[auth[r].session][t] \in {"live", "used"}}
               /\ auth'[r].locks = auth[r].locks
               /\ auth'[r].session = auth[r].session
               /\ auth'[r].late = auth[r].late
    BY <1>1, <1>5 DEF ReadTokens, At, AuthRequest
  <1>6. QED
    BY <1>2, <1>3, <1>4, <1>5

LEMMA BeginsRefresh ==
    ASSUME AccountTypes, NEW r \in Request, NEW s \in Session, NEW t \in Token,
           ReceiveRefresh(r, s, t)
    PROVE  /\ auth'[r].session = s /\ auth'[r].token = t
           /\ auth'[r].late = ~Open(s) /\ auth'[r].phase = "refresh"
           /\ token[s][t] # "none"
  BY DEF AccountTypes, ReceiveRefresh, AuthStart, NoAuth

LEMMA BeginsLogout ==
    ASSUME AccountTypes, NEW r \in Request, NEW s \in Session, ReceiveLogout(r, s)
    PROVE  /\ auth'[r].session = s /\ auth'[r].late = FALSE
           /\ auth'[r].phase = "end" /\ Open(s)
  BY DEF AccountTypes, ReceiveLogout, AuthStart, NoAuth

\* Only ReceiveRefresh makes a request late, and a late one goes nowhere.
LEMMA LateMoves ==
    ASSUME AccountTypes, LateIsLate, NEW r \in Request, AccountStep(r),
           auth'[r].late
    PROVE  \E s \in Session, t \in Token : ReceiveRefresh(r, s, t)
  <1> SUFFICES ASSUME \A s \in Session, t \in Token : ~ReceiveRefresh(r, s, t)
               PROVE  FALSE
    OBVIOUS
  <1>1. auth \in [Request -> GoodAuth] /\ auth[r] \in AuthRequest
        /\ NoAuth.late = FALSE
    BY AuthAt DEF AccountTypes, NoAuth
  <1>2. CASE auth[r].late
    <2>1. auth[r].phase = "refresh" /\ ~Open(auth[r].session) /\ auth[r] # NoAuth
      BY <1>1, <1>2 DEF LateIsLate, Open
    <2>2. ReadToken(r) \/ AbortDeadlocked(r) \/ LoseAuth(r)
      BY <2>1
      DEF AccountStep, ReceiveLogin, ReadUser, RecordFailure, ClearFailures,
          OpenSession, ReceiveLogout, ConsumeToken, CommitRefresh, EndSession,
          ReadTokens, CommitEnd, ReceiveIssue, ReadLatest, Supersede,
          CommitIssue, Deliver, Withdraw, ReceiveConfirm, ReadChallenge,
          CountMiss, AcceptCode, CommitReset, At, AuthStart
    <2>3. auth'[r] = NoAuth
      BY <2>1, <2>2, Returned, ProceededTo DEF ReadToken, Usable, AbortDeadlocked, LoseAuth
    <2>4. QED
      BY <1>1, <2>3
  <1>3. CASE ~auth[r].late
    <2>1. ASSUME NEW p, auth'[r] = [auth[r] EXCEPT !.phase = p]
          PROVE  ~auth'[r].late
      BY <1>1, <1>3, <2>1 DEF AuthRequest
    <2>2. CASE \/ \E p \in Password : ReceiveLogin(r, p)
               \/ \E s \in Session : ReceiveLogout(r, s)
               \/ ReceiveIssue(r) \/ CommitReset(r)
               \/ \E h \in Challenge : CommitIssue(r, h)
               \/ \E h \in Challenge, c \in BOOLEAN : ReceiveConfirm(r, h, c)
      <3>1. ASSUME NEW p \in Password, ReceiveLogin(r, p)  PROVE  ~auth'[r].late
        BY <1>1, <3>1 DEF ReceiveLogin, AuthStart, NoAuth
      <3>2. CASE ReceiveIssue(r)
        BY <1>1, <3>2 DEF ReceiveIssue, AuthStart, NoAuth
      <3>3. CASE CommitReset(r)
        BY <1>1, <3>3 DEF CommitReset
      <3>4. ASSUME NEW h \in Challenge, CommitIssue(r, h)  PROVE  ~auth'[r].late
        BY <1>1, <3>4 DEF CommitIssue, NoAuth
      <3>5. ASSUME NEW h \in Challenge, NEW c \in BOOLEAN, ReceiveConfirm(r, h, c)
            PROVE  ~auth'[r].late
        BY <1>1, <3>5 DEF ReceiveConfirm, AuthStart, NoAuth
      <3>6. QED
        BY <2>2, <3>1, <3>2, <3>3, <3>4, <3>5, BeginsLogout
    <2>3. CASE \/ RecordFailure(r) \/ ClearFailures(r) \/ ReadToken(r)
               \/ \E s \in Session : OpenSession(r, s)
               \/ ConsumeToken(r) \/ CommitRefresh(r) \/ CommitEnd(r)
               \/ AbortDeadlocked(r) \/ ReadLatest(r) \/ Deliver(r)
               \/ Withdraw(r) \/ ReadChallenge(r) \/ CountMiss(r)
               \/ AcceptCode(r) \/ LoseAuth(r)
      <3>1. auth'[r] = NoAuth \/ \E p : auth'[r] = [auth[r] EXCEPT !.phase = p]
        <4>1. CASE ReadToken(r) \/ ConsumeToken(r) \/ ReadLatest(r) \/ ReadChallenge(r)
          BY <4>1, ProceededTo DEF ReadToken, ConsumeToken, ReadLatest, ReadChallenge
        <4>2. CASE ClearFailures(r) \/ AcceptCode(r) \/ Deliver(r)
          <5>1. \/ AuthReturn(r) \/ auth' = Moved(auth, r, "open")
                \/ auth' = Moved(auth, r, "reset") \/ auth' = Moved(auth, r, "withdraw")
            BY <4>2 DEF ClearFailures, AcceptCode, Deliver
          <5>2. QED
            BY ZenonT(40), <5>1, Returned, AccountMovedTo
        <4>3. CASE \/ RecordFailure(r) \/ \E s \in Session : OpenSession(r, s)
                   \/ CommitRefresh(r) \/ CommitEnd(r) \/ AbortDeadlocked(r)
                   \/ Withdraw(r) \/ CountMiss(r) \/ LoseAuth(r)
          BY <4>3, Returned
          DEF RecordFailure, OpenSession, CommitRefresh, CommitEnd,
              AbortDeadlocked, Withdraw, CountMiss, LoseAuth
        <4>4. QED
          BY <2>3, <4>1, <4>2, <4>3
      <3>2. QED
        BY <1>1, <2>1, <3>1
    <2>4. CASE ReadUser(r)
      BY <1>1, <1>3, <2>4, Returned DEF ReadUser, AuthRequest
    <2>5. CASE EndSession(r) \/ ReadTokens(r)
      BY <1>3, <2>5, FieldsKept
    <2>6. CASE Supersede(r)
      BY <1>1, <1>3, <2>6 DEF Supersede, AuthRequest
    <2>7. QED
      BY <2>2, <2>3, <2>4, <2>5, <2>6 DEF AccountStep
  <1>4. QED
    BY <1>2, <1>3

LEMMA AccountOthersKeep ==
    ASSUME AccountTypes, NEW r \in Request, AccountStep(r),
           NEW q \in Request, q # r
    PROVE  /\ auth'[q].phase = auth[q].phase /\ auth'[q].session = auth[q].session
           /\ auth'[q].token = auth[q].token /\ auth'[q].late = auth[q].late
           /\ auth'[q].locks = auth[q].locks /\ auth'[q].seen = auth[q].seen
           /\ auth'[q].read = auth[q].read
           /\ auth'[q].challenge = auth[q].challenge
  <1>1. auth[q] \in AuthRequest
    BY AuthAt
  <1>2. CASE CommitReset(r)
    <2>1. auth'[q] = [auth[q] EXCEPT
              !.overtaken = (auth[q].overtaken \/ q \in Admitted)]
      BY <1>2 DEF CommitReset
    <2>2. QED
      BY <1>1, <2>1 DEF AuthRequest
  <1>3. CASE ~CommitReset(r)
    BY <1>3, AccountOthersStay
  <1>4. QED
    BY <1>2, <1>3

\* A request holds the row of a token once it has consumed it, and the row of
\* a session from its first statement on.
LEMMA HolderMoves ==
    ASSUME AccountTypes, NEW r \in Request, AccountStep(r),
           NEW s \in Session, NEW t \in Token
    PROVE  /\ \A q \in Request \ {r} :
                 /\ HoldsToken(q, s, t)' <=> HoldsToken(q, s, t)
                 /\ HoldsSession(q, s)' <=> HoldsSession(q, s)
           /\ HoldsToken(r, s, t)' =>
                 ConsumeToken(r) /\ Unspent(s, t) /\ ~TokenLocked(s, t)
           /\ HoldsSession(r, s)' =>
                 \/ EndSession(r) /\ Open(s) /\ ~SessionLocked(s)
                    /\ auth'[r].phase = "tokens"
                 \/ ReadTokens(r) /\ HoldsSession(r, s)
                    /\ auth'[r].phase = "revoke"
                    /\ auth'[r].seen = {u \in Token : token[s][u] \in {"live", "used"}}
  <1>1. \A q \in Request \ {r} :
           /\ HoldsToken(q, s, t)' <=> HoldsToken(q, s, t)
           /\ HoldsSession(q, s)' <=> HoldsSession(q, s)
    BY AccountOthersKeep DEF HoldsToken, HoldsSession, At
  <1>2. ASSUME HoldsToken(r, s, t)'
        PROVE  ConsumeToken(r) /\ Unspent(s, t) /\ ~TokenLocked(s, t)
    <2>1. ConsumeToken(r) /\ auth'[r].phase = "renew"
          /\ auth'[r].session = s /\ auth'[r].token = t
      BY <1>2, AccountEntered DEF HoldsToken, At
    <2>2. QED
      BY <2>1, FieldsKept
  <1>3. ASSUME HoldsSession(r, s)'
        PROVE  \/ EndSession(r) /\ Open(s) /\ ~SessionLocked(s)
                  /\ auth'[r].phase = "tokens"
               \/ ReadTokens(r) /\ HoldsSession(r, s)
                  /\ auth'[r].phase = "revoke"
                  /\ auth'[r].seen = {u \in Token : token[s][u] \in {"live", "used"}}
    <2>1. auth'[r].phase \in {"tokens", "revoke"}
          /\ auth'[r].session = s /\ auth'[r].locks
      BY <1>3 DEF HoldsSession
    <2>2. CASE auth'[r].phase = "tokens"
      BY <2>1, <2>2, AccountEntered, FieldsKept
    <2>3. CASE auth'[r].phase = "revoke"
      <3>1. ReadTokens(r)
        BY <2>3, AccountEntered
      <3>2. QED
        BY <2>1, <2>3, <3>1, FieldsKept DEF HoldsSession
    <2>4. QED
      BY <2>1, <2>2, <2>3
  <1>4. QED
    BY <1>1, <1>2, <1>3

\* A request under way names the session it named before; one that arrives
\* names a session that has a token or is open.
LEMMA NamesKept ==
    ASSUME AccountTypes, SessionsComeFirst, NEW r \in Request, AccountStep(r),
           NEW q \in Request, auth'[q].phase \in Refreshing \cup Ending
    PROVE  auth'[q].session \in Session
           /\ session[auth'[q].session].state # "none"
  <1>1. CASE q # r
    BY <1>1, AccountOthersKeep, AuthAt DEF SessionsComeFirst, AuthFilled
  <1>2. CASE q = r /\ \E s \in Session, t \in Token : ReceiveRefresh(r, s, t)
    BY <1>2, BeginsRefresh DEF SessionsComeFirst
  <1>3. CASE q = r /\ \E s \in Session : ReceiveLogout(r, s)
    BY <1>3, BeginsLogout DEF Open
  <1>4. CASE q = r /\ (ReadToken(r) \/ ConsumeToken(r) \/ EndSession(r) \/ ReadTokens(r))
    <2>1. auth'[r].phase # "idle" /\ auth[r].phase \in Refreshing \cup Ending
          /\ auth'[r].session = auth[r].session
      BY <1>4, FieldsKept DEF Refreshing, Ending
    <2>2. QED
      BY <1>4, <2>1, AuthAt DEF SessionsComeFirst, AuthFilled
  <1>5. QED
    BY <1>1, <1>2, <1>3, <1>4, AccountEntered DEF Refreshing, Ending

\* A request that was late before the step, or found its session revoked.
LEMMA LateKept ==
    ASSUME AccountTypes, SessionsComeFirst, LateIsLate, NEW r \in Request,
           AccountStep(r), NEW q \in Request, auth'[q].late
    PROVE  auth'[q].phase = "refresh" /\ auth'[q].session \in Session
           /\ session[auth'[q].session].state \in {"ended", "reset"}
  <1>1. CASE q # r
    BY <1>1, AccountOthersKeep, AuthAt DEF LateIsLate, AuthFilled, Refreshing
  <1>2. CASE q = r
    <2>1. PICK s \in Session, t \in Token : ReceiveRefresh(r, s, t)
      BY <1>2, LateMoves
    <2>2. auth'[r].phase = "refresh" /\ auth'[r].session = s /\ ~Open(s)
          /\ token[s][t] # "none"
      BY <1>2, <2>1, BeginsRefresh
    <2>3. session[s].state \in {"none", "open", "ended", "reset"}
      BY DEF AccountTypes, AccountTypeOK
    <2>4. QED
      BY <1>2, <2>2, <2>3 DEF Open, SessionsComeFirst
  <1>3. QED
    BY <1>1, <1>2

\* The steps that write neither a session nor a token.
LEMMA QuietKeepsSessionInv ==
    ASSUME AccountTypes, SessionInv, NEW r \in Request, AccountStep(r),
           session' = session, token' = token
    PROVE  SessionInv'
  <1> USE DEF SessionInv
  <1>1. SessionsComeFirst'
    BY NamesKept DEF SessionsComeFirst
  <1>2. TokenIsHeld'
    BY HolderMoves DEF TokenIsHeld, TokenLocked, Unspent
  <1>3. SessionIsHeld'
    <2>1. \A s \in Session : Live(s)' = Live(s) /\ (Open(s)' <=> Open(s))
      BY DEF Live, Open
    <2>2. \A q \in Request, s \in Session : HoldsSession(q, s)' => Open(s)'
      <3> SUFFICES ASSUME NEW q \in Request, NEW s \in Session, HoldsSession(q, s)'
                   PROVE  Open(s)
        BY <2>1
      <3>1. 1 \in Token
        BY AccountAssumption DEF Token
      <3>2. QED
        BY <3>1, HolderMoves DEF SessionIsHeld
    <2>3. \A p, q \in Request, s \in Session :
             HoldsSession(p, s)' /\ HoldsSession(q, s)' => p = q
      <3> SUFFICES ASSUME NEW p \in Request, NEW q \in Request, NEW s \in Session,
                          HoldsSession(p, s)', HoldsSession(q, s)'
                   PROVE  p = q
        OBVIOUS
      <3>1. 1 \in Token
        BY AccountAssumption DEF Token
      <3>2. QED
        BY <3>1, HolderMoves DEF SessionIsHeld, SessionLocked
    <2>4. \A q \in Request, s \in Session :
             HoldsSession(q, s)' /\ auth'[q].phase = "revoke"
                 => Live(s) \subseteq auth'[q].seen
      <3> SUFFICES ASSUME NEW q \in Request, NEW s \in Session,
                          HoldsSession(q, s)', auth'[q].phase = "revoke"
                   PROVE  Live(s) \subseteq auth'[q].seen
        OBVIOUS
      <3>1. 1 \in Token
        BY AccountAssumption DEF Token
      <3>2. CASE q = r
        <4>1. auth'[r].seen = {u \in Token : token[s][u] \in {"live", "used"}}
          BY <3>1, <3>2, HolderMoves
        <4>2. QED
          BY <3>2, <4>1 DEF Live
      <3>3. CASE q # r
        BY <3>1, <3>3, HolderMoves, AccountOthersKeep DEF SessionIsHeld
      <3>4. QED
        BY <3>2, <3>3
    <2>5. QED
      BY <2>1, <2>2, <2>3, <2>4 DEF SessionIsHeld
  <1>4. LiveIsOne' /\ NoneAfterLogout'
    BY DEF LiveIsOne, NoneAfterLogout, Live
  <1>5. LateIsLate'
    BY LateKept DEF LateIsLate
  <1>6. QED
    BY <1>1, <1>2, <1>3, <1>4, <1>5

\* A step after which its request is gone: the others hold what they held.
LEMMA HoldersAfterReturn ==
    ASSUME AccountTypes, NEW r \in Request, AccountStep(r),
           auth'[r].phase = "idle", NEW s \in Session, NEW t \in Token,
           NEW q \in Request
    PROVE  /\ HoldsToken(q, s, t)' => q # r /\ HoldsToken(q, s, t)
           /\ HoldsSession(q, s)' => q # r /\ HoldsSession(q, s)
                                     /\ auth'[q].phase = auth[q].phase
                                     /\ auth'[q].seen = auth[q].seen
  BY HolderMoves, AccountOthersKeep DEF HoldsToken, HoldsSession, At

LEMMA OpenKeepsSessionInv ==
    ASSUME AccountTypes, SessionInv, NEW r \in Request, NEW z \in Session,
           OpenSession(r, z)
    PROVE  SessionInv'
  <1> USE DEF SessionInv
  <1>1. AccountStep(r) /\ auth'[r].phase = "idle"
    BY LoginPhases DEF AccountStep
  <1>2. 1 \in Token
    BY AccountAssumption DEF Token
  <1>3. /\ session[z].state = "none" /\ session'[z].state = "open"
        /\ \A s \in Session \ {z} : session'[s] = session[s] /\ token'[s] = token[s]
    BY DEF OpenSession, AccountTypes, AccountTypeOK
  <1>4. \A t \in Token : token[z][t] = "none"
    BY <1>3 DEF SessionsComeFirst
  <1>5. \A t \in Token : token'[z][t] = IF t = 1 THEN "live" ELSE "none"
    BY <1>4 DEF OpenSession, AccountTypes, AccountTypeOK
  <1>6. \A s \in Session : s # z => Live(s)' = Live(s) /\ (Open(s)' <=> Open(s))
    BY <1>3 DEF Live, Open
  <1>7. Live(z)' = {1} /\ Live(z) = {}
    BY <1>2, <1>4, <1>5 DEF Live
  <1>8. SessionsComeFirst'
    BY <1>1, <1>3, NamesKept DEF SessionsComeFirst
  <1>9. \A q \in Request, t \in Token :
           ~HoldsToken(q, z, t)' /\ ~HoldsSession(q, z)'
    BY <1>1, <1>3, <1>4, HoldersAfterReturn DEF TokenIsHeld, SessionIsHeld, Open
  <1>10. TokenIsHeld'
    BY <1>1, <1>3, <1>9, HoldersAfterReturn DEF TokenIsHeld
  <1>11. SessionIsHeld'
    BY <1>1, <1>2, <1>6, <1>9, HoldersAfterReturn DEF SessionIsHeld
  <1>12. LiveIsOne' /\ NoneAfterLogout'
    BY <1>3, <1>6, <1>7 DEF LiveIsOne, NoneAfterLogout
  <1>13. LateIsLate'
    BY <1>1, <1>3, LateKept DEF LateIsLate
  <1>14. QED
    BY <1>8, <1>10, <1>11, <1>12, <1>13

\* The new token replaces the one that the refresh has held.
LEMMA RefreshKeepsSessionInv ==
    ASSUME AccountTypes, SessionInv, NEW r \in Request, CommitRefresh(r)
    PROVE  SessionInv'
  <1> USE DEF SessionInv
  <1>1. AccountStep(r) /\ auth'[r].phase = "idle"
    BY SessionPhases DEF AccountStep
  <1>2. PICK z \in Session, x \in Token :
            /\ z = auth[r].session /\ x = auth[r].token
            /\ HoldsToken(r, z, x)
    BY AuthAt DEF CommitRefresh, At, AuthFilled, Refreshing, HoldsToken
  <1>3. token[z][x] = "live" /\ Live(z) = {x}
    BY <1>2 DEF TokenIsHeld, LiveIsOne, Live
  <1>4. PICK n \in Token :
            /\ token[z][n] = "none"
            /\ token' = [token EXCEPT ![z][x] = "used", ![z][n] = "live"]
    BY <1>2 DEF CommitRefresh, Unissued
  <1>5. session' = session /\ ~SessionLocked(z)
    BY <1>2 DEF CommitRefresh
  <1>6. \A s \in Session \ {z} : token'[s] = token[s]
    BY <1>4 DEF AccountTypes, AccountTypeOK
  <1>7. \A t \in Token : token'[z][t] = IF t = n THEN "live"
                                        ELSE IF t = x THEN "used" ELSE token[z][t]
    BY <1>2, <1>4 DEF AccountTypes, AccountTypeOK
  <1>8. Live(z)' = {n}
    <2>1. \A t \in Token : token[z][t] = "live" => t = x
      BY <1>3 DEF Live
    <2>2. \A t \in Token : token'[z][t] = "live" <=> t = n
      BY <1>7, <2>1
    <2>3. QED
      BY <2>2 DEF Live
  <1>9. \A s \in Session : s # z => Live(s)' = Live(s)
    BY <1>6 DEF Live
  <1>10. \A s \in Session : Open(s)' <=> Open(s)
    BY <1>5 DEF Open
  <1>11. session[z].state \notin {"none", "ended"}
    BY <1>2, <1>3 DEF SessionsComeFirst, NoneAfterLogout
  <1>12. SessionsComeFirst'
    BY <1>1, <1>5, <1>6, <1>11, NamesKept DEF SessionsComeFirst
  <1>13. \A q \in Request, t \in Token : ~HoldsToken(q, z, t)'
    <2> SUFFICES ASSUME NEW q \in Request, NEW t \in Token, HoldsToken(q, z, t)'
                 PROVE  FALSE
      OBVIOUS
    <2>1. q # r /\ HoldsToken(q, z, t)
      BY <1>1, <1>2, HoldersAfterReturn
    <2>2. t \in Live(z)
      BY <1>2, <2>1 DEF TokenIsHeld, Live
    <2>3. QED
      BY <1>2, <1>3, <2>1, <2>2 DEF TokenIsHeld
  <1>14. TokenIsHeld'
    BY <1>1, <1>6, <1>13, HoldersAfterReturn DEF TokenIsHeld
  <1>15. \A q \in Request : ~HoldsSession(q, z)'
    BY <1>1, <1>2, <1>5, HoldersAfterReturn DEF SessionLocked
  <1>16. SessionIsHeld'
    BY <1>1, <1>2, <1>9, <1>10, <1>15, HoldersAfterReturn DEF SessionIsHeld
  <1>17. LiveIsOne' /\ NoneAfterLogout'
    BY <1>5, <1>8, <1>9, <1>11 DEF LiveIsOne, NoneAfterLogout
  <1>18. LateIsLate'
    BY <1>1, <1>5, LateKept DEF LateIsLate
  <1>19. QED
    BY <1>12, <1>14, <1>16, <1>17, <1>18

\* Whoever ends the session has seen every token that works, and no refresh
\* holds one of them.
LEMMA EndKeepsSessionInv ==
    ASSUME AccountTypes, SessionInv, NEW r \in Request, CommitEnd(r)
    PROVE  SessionInv'
  <1> USE DEF SessionInv
  <1>1. AccountStep(r) /\ auth'[r].phase = "idle"
    BY SessionPhases DEF AccountStep
  <1>2. PICK z \in Session, seen \in SUBSET Token, locks \in BOOLEAN :
            /\ z = auth[r].session /\ seen = auth[r].seen
            /\ locks = auth[r].locks /\ auth[r].phase = "revoke"
    BY AuthAt DEF CommitEnd, At, AuthFilled, Ending, AuthRequest
  <1>3. \A t \in seen : ~TokenLocked(z, t)
    BY <1>2 DEF CommitEnd
  <1>4. /\ session' = IF locks THEN [session EXCEPT ![z].state = "ended"] ELSE session
        /\ token' = [token EXCEPT ![z] = [t \in Token |->
               IF t \in seen THEN "revoked" ELSE token[z][t]]]
    BY <1>2 DEF CommitEnd, AccountTypes, AccountTypeOK
  <1>5. locks => HoldsSession(r, z)
    BY <1>2 DEF HoldsSession
  <1>6. \A s \in Session \ {z} : session'[s] = session[s] /\ token'[s] = token[s]
    BY <1>4 DEF AccountTypes, AccountTypeOK
  <1>7. \A t \in Token : token'[z][t] = IF t \in seen THEN "revoked" ELSE token[z][t]
    BY <1>2, <1>4 DEF AccountTypes, AccountTypeOK
  <1>8. session'[z].state = IF locks THEN "ended" ELSE session[z].state
    BY <1>2, <1>4 DEF AccountTypes, AccountTypeOK
  <1>9. Live(z)' \subseteq Live(z) /\ (locks => Live(z)' = {})
    BY <1>2, <1>5, <1>7 DEF Live, SessionIsHeld
  <1>10. \A s \in Session : s # z => Live(s)' = Live(s) /\ (Open(s)' <=> Open(s))
    BY <1>6 DEF Live, Open
  <1>11. ~locks => (Open(z)' <=> Open(z))
    BY <1>8 DEF Open
  <1>12. session[z].state # "none"
    BY <1>2 DEF SessionsComeFirst, Ending
  <1>13. SessionsComeFirst'
    BY <1>1, <1>6, <1>8, <1>12, NamesKept DEF SessionsComeFirst
  <1>14. TokenIsHeld'
    <2>1. ASSUME NEW q \in Request, NEW s \in Session, NEW t \in Token,
                 HoldsToken(q, s, t)'
          PROVE  token'[s][t] = "live"
      <3>1. HoldsToken(q, s, t) /\ token[s][t] = "live"
        BY <1>1, <2>1, HoldersAfterReturn DEF TokenIsHeld
      <3>2. s = z => t \notin seen
        BY <1>3, <3>1 DEF TokenLocked
      <3>3. QED
        BY <1>6, <1>7, <3>1, <3>2
    <2>2. QED
      BY <1>1, <2>1, HoldersAfterReturn DEF TokenIsHeld
  <1>15. SessionIsHeld'
    <2>1. 1 \in Token
      BY AccountAssumption DEF Token
    <2>2. locks => \A q \in Request : ~HoldsSession(q, z)'
      BY <1>1, <1>2, <1>5, <2>1, HoldersAfterReturn DEF SessionIsHeld
    <2>3. \A q \in Request, s \in Session :
             HoldsSession(q, s)' => /\ HoldsSession(q, s) /\ Open(s)'
                                    /\ Live(s)' \subseteq Live(s)
      BY <1>1, <1>9, <1>10, <1>11, <2>1, <2>2, HoldersAfterReturn DEF SessionIsHeld
    <2>4. \A p, q \in Request, s \in Session :
             HoldsSession(p, s)' /\ HoldsSession(q, s)' => p = q
      BY <2>3 DEF SessionIsHeld
    <2>5. ASSUME NEW q \in Request, NEW s \in Session, HoldsSession(q, s)',
                 auth'[q].phase = "revoke"
          PROVE  Live(s)' \subseteq auth'[q].seen
      <3>1. auth[q].phase = "revoke" /\ auth'[q].seen = auth[q].seen
        BY <1>1, <2>1, <2>5, HoldersAfterReturn
      <3>2. Live(s) \subseteq auth[q].seen
        BY <2>3, <2>5, <3>1 DEF SessionIsHeld
      <3>3. QED
        BY <2>3, <2>5, <3>1, <3>2
    <2>6. QED
      BY <2>3, <2>4, <2>5 DEF SessionIsHeld
  <1>16. LiveIsOne' /\ NoneAfterLogout'
    BY <1>6, <1>8, <1>9, <1>10 DEF LiveIsOne, NoneAfterLogout
  <1>17. LateIsLate'
    BY <1>1, <1>6, <1>8, LateKept DEF LateIsLate
  <1>18. QED
    BY <1>13, <1>14, <1>15, <1>16, <1>17

\* A reset waits for whoever ends a session, and leaves the tokens alone.
LEMMA ResetKeepsSessionInv ==
    ASSUME AccountTypes, SessionInv, NEW r \in Request, CommitReset(r)
    PROVE  SessionInv'
  <1> USE DEF SessionInv
  <1>1. AccountStep(r) /\ auth'[r].phase = "idle"
    BY CodePhases DEF AccountStep
  <1>2. 1 \in Token
    BY AccountAssumption DEF Token
  <1>3. token' = token /\ \A s \in Session : ~SessionLocked(s)
    BY DEF CommitReset
  <1>4. \A s \in Session :
           session'[s].state = IF session[s].state = "open" THEN "reset"
                               ELSE session[s].state
    BY DEF CommitReset, AfterReset, Open, AccountTypes, AccountTypeOK
  <1>5. \A q \in Request, s \in Session : ~HoldsSession(q, s)'
    BY <1>1, <1>2, <1>3, HoldersAfterReturn DEF SessionLocked
  <1>6. SessionsComeFirst'
    BY <1>1, <1>3, <1>4, NamesKept DEF SessionsComeFirst
  <1>7. TokenIsHeld'
    BY <1>1, <1>3, HoldersAfterReturn DEF TokenIsHeld
  <1>8. SessionIsHeld'
    BY <1>5 DEF SessionIsHeld
  <1>9. \A s \in Session : Live(s)' = Live(s)
    BY <1>3 DEF Live
  <1>10. LiveIsOne' /\ NoneAfterLogout'
    BY <1>4, <1>9 DEF LiveIsOne, NoneAfterLogout
  <1>11. LateIsLate'
    BY <1>1, <1>4, LateKept DEF LateIsLate
  <1>12. QED
    BY <1>6, <1>7, <1>8, <1>10, <1>11

\* Tokens are written with a session, by a refresh and by whoever ends one.
LEMMA TokenWriters ==
    ASSUME AccountTypes, NEW r \in Request, AccountStep(r), ~CommitReset(r),
           \A s \in Session : ~OpenSession(r, s), ~CommitRefresh(r), ~CommitEnd(r)
    PROVE  session' = session /\ token' = token
  BY DEF AccountStep, ReceiveLogin, ReadUser, RecordFailure, ClearFailures,
         ReceiveLogout, ReceiveRefresh, ReadToken, ConsumeToken,
         EndSession, ReadTokens, AbortDeadlocked,
         ReceiveIssue, ReadLatest, Supersede, CommitIssue, Deliver, Withdraw,
         ReceiveConfirm, ReadChallenge, CountMiss, AcceptCode, LoseAuth, tokens

LEMMA SessionInvariant == AccountSpec => []SessionInv
  <1>1. AccountInit => SessionInv
    <2> SUFFICES ASSUME AccountInit
                 PROVE  SessionInv
      OBVIOUS
    <2>1. \A r \in Request : auth[r].phase = "idle" /\ ~auth[r].late
      BY DEF AccountInit, NoAuth
    <2>2. /\ \A s \in Session : session[s].state = "none"
          /\ \A s \in Session, t \in Token : token[s][t] = "none"
      BY DEF AccountInit, NoSession
    <2>3. \A r \in Request, s \in Session, t \in Token :
             ~HoldsToken(r, s, t) /\ ~HoldsSession(r, s)
      BY <2>1 DEF HoldsToken, HoldsSession, At
    <2>4. \A r \in Request, s \in Session : ~HoldsSession(r, s)
      BY <2>1 DEF HoldsSession
    <2>5. \A s \in Session : Live(s) = {}
      BY <2>2 DEF Live
    <2>6. QED
      BY <2>1, <2>2, <2>3, <2>4, <2>5
      DEF SessionInv, SessionsComeFirst, TokenIsHeld, SessionIsHeld, LiveIsOne,
          NoneAfterLogout, LateIsLate, Refreshing, Ending
  <1>2. AccountTypes /\ SessionInv /\ [AccountNext]_accountVars => SessionInv'
    <2> SUFFICES ASSUME AccountTypes, SessionInv, [AccountNext]_accountVars
                 PROVE  SessionInv'
      OBVIOUS
    <2>1. CASE UNCHANGED <<session, token, auth>>
      BY <2>1
      DEF SessionInv, SessionsComeFirst, TokenIsHeld, SessionIsHeld, LiveIsOne,
          NoneAfterLogout, LateIsLate, HoldsToken, HoldsSession, At, Live, Open
    <2>2. ASSUME NEW r \in Request, AccountStep(r)
          PROVE  SessionInv'
      BY <2>2, TokenWriters, QuietKeepsSessionInv, OpenKeepsSessionInv,
         RefreshKeepsSessionInv, EndKeepsSessionInv, ResetKeepsSessionInv
    <2>3. CASE LockExpires \/ CooldownEnds \/ \E h \in Challenge : ChallengeExpires(h)
      BY <2>1, <2>3 DEF LockExpires, CooldownEnds, ChallengeExpires, tokens
    <2>4. QED
      BY <2>1, <2>2, <2>3 DEF AccountNext, accountVars
  <1>3. QED
    BY <1>1, <1>2, AccountTypesInvariant, PTL DEF AccountSpec

LEMMA OneIsCounted ==
    ASSUME LiveIsOne, NEW s \in Session
    PROVE  Cardinality(Live(s)) <= 1
  <1>1. CASE Live(s) = {}
    BY <1>1, FS_EmptySet
  <1>2. CASE Live(s) # {}
    <2>1. PICK t \in Live(s) : TRUE
      BY <1>2
    <2>2. Live(s) = {t}
      BY <2>1 DEF LiveIsOne
    <2>3. Cardinality({t}) = 1
      BY FS_Singleton
    <2>4. QED
      BY <2>2, <2>3
  <1>3. QED
    BY <1>1, <1>2

\* However refreshes, logouts, the detection of a reused token and password
\* resets overlap: one refresh token of a session works at most, none after a
\* logout, and a refresh that begins once its session is revoked is refused.
THEOREM EndedSessionsStayEnded == AccountSpec => []SessionsStayEnded
  <1>1. SessionInv => SessionsStayEnded
    <2> SUFFICES ASSUME SessionInv
                 PROVE  SessionsStayEnded
      OBVIOUS
    <2>1. OneLiveToken
      BY OneIsCounted DEF SessionInv, OneLiveToken
    <2>2. NoneAfterLogout /\ LateRefreshRefused
      BY DEF SessionInv, LateIsLate, LateRefreshRefused
    <2>3. QED
      BY <2>1, <2>2 DEF SessionsStayEnded
  <1>2. QED
    BY <1>1, SessionInvariant, PTL

-----------------------------------------------------------------------------
(* Neither a code nor a password can be guessed at without end *)

\* As long as logins do not overlap, the one under way has read the count as
\* it is.
CountInv ==
    /\ ~uncounted => /\ \A q, r \in Counting : q = r
                     /\ \A r \in Counting : auth[r].read = failures
    /\ FailuresCount

\* Requests leave the count to ReadUser, RecordFailure, ClearFailures and
\* CommitReset.
LEMMA LoginWriters ==
    ASSUME AccountTypes, NEW r \in Request, AccountStep(r),
           ~ReadUser(r), ~RecordFailure(r), ~ClearFailures(r), ~CommitReset(r)
    PROVE  UNCHANGED login
  BY DEF AccountStep, ReceiveLogin, OpenSession,
         ReceiveLogout, ReceiveRefresh, ReadToken, ConsumeToken, CommitRefresh,
         CommitEnd, EndSession, ReadTokens, AbortDeadlocked,
         ReceiveIssue, ReadLatest, Supersede, CommitIssue, Deliver, Withdraw,
         ReceiveConfirm, ReadChallenge, CountMiss, AcceptCode, LoseAuth

\* No other action lets a login begin to count.
LEMMA CountingShrinks ==
    ASSUME AccountTypes, NEW r \in Request, AccountStep(r), ~ReadUser(r)
    PROVE  /\ Counting' \subseteq Counting \ {r}
           /\ \A q \in Counting' : auth'[q].read = auth[q].read
  BY AccountOthersKeep, AccountEntered DEF Counting

LEMMA StepKeepsCountInv ==
    ASSUME AccountTypes, CountInv, NEW r \in Request, AccountStep(r)
    PROVE  CountInv'
  <1> USE AccountAssumption
  <1>1. failures \in 0..MaxFailures /\ streak \in 0..MaxFailures
    BY DEF AccountTypes, AccountTypeOK
  <1>2. CASE ReadUser(r)
    <2>1. FailuresCount'
      BY <1>2 DEF ReadUser, CountInv, FailuresCount
    <2>2. CASE lock = "future"
      <3>1. Counting' \subseteq Counting /\ \A q \in Counting' : auth'[q].read = auth[q].read
        BY <1>2, <2>2, Returned, AccountOthersKeep DEF Counting, ReadUser
      <3>2. QED
        BY <1>2, <2>1, <2>2, <3>1 DEF ReadUser, CountInv
    <2>3. CASE lock # "future"
      <3>1. auth'[r].read = failures
        <4>1. auth[r] \in AuthRequest /\ auth \in [Request -> GoodAuth]
          BY AuthAt DEF AccountTypes
        <4>2. QED
          BY <1>2, <2>3, <4>1 DEF ReadUser, AuthRequest
      <3>2. Counting' \subseteq Counting \cup {r}
        BY AccountOthersKeep DEF Counting
      <3>3. ~uncounted' => Counting = {} /\ failures' = failures
        BY <1>2, <2>3 DEF ReadUser
      <3>4. QED
        BY <2>1, <3>1, <3>2, <3>3 DEF CountInv
    <2>4. QED
      BY <2>2, <2>3
  <1>3. CASE RecordFailure(r)
    <2>1. r \in Counting /\ auth[r].read \in 0..MaxFailures
      BY <1>3, AuthAt DEF RecordFailure, At, Counting, AuthRequest
    <2>2. ~uncounted' => Counting' = {}
      BY <1>3, <2>1, CountingShrinks DEF CountInv, RecordFailure, ReadUser, At
    <2>3. ASSUME ~uncounted', streak' < MaxFailures
          PROVE  failures' = streak' /\ (streak' >= LockAfter => lock' # "none")
      <3>1. streak < MaxFailures /\ streak' = streak + 1
        BY <1>1, <1>3, <2>3 DEF RecordFailure
      <3>2. failures = streak /\ auth[r].read = failures
        BY <1>3, <2>1, <2>3, <3>1 DEF CountInv, FailuresCount, RecordFailure
      <3>3. failures' = streak'
        BY <1>1, <1>3, <3>1, <3>2 DEF RecordFailure, Counted
      <3>4. streak' >= LockAfter => lock' = "future"
        BY <1>3, <3>3 DEF RecordFailure, Locks
      <3>5. QED
        BY <3>3, <3>4
    <2>4. QED
      BY <2>2, <2>3 DEF CountInv, FailuresCount
  <1>4. CASE ClearFailures(r) \/ CommitReset(r)
    <2>1. ~ReadUser(r)
      BY <1>4 DEF ReadUser, ClearFailures, CommitReset, At
    <2>2. ~uncounted' => Counting' = {}
      BY <1>4, <2>1, CountingShrinks DEF ClearFailures, CommitReset
    <2>3. failures' = 0 /\ streak' = 0
      BY <1>4 DEF ClearFailures, CommitReset
    <2>4. QED
      BY <2>2, <2>3 DEF CountInv, FailuresCount
  <1>5. CASE ~ReadUser(r) /\ ~RecordFailure(r) /\ ~ClearFailures(r) /\ ~CommitReset(r)
    <2>1. UNCHANGED login
      BY <1>5, LoginWriters
    <2>2. QED
      BY <1>5, <2>1, CountingShrinks DEF CountInv, FailuresCount, login
  <1>6. QED
    BY <1>2, <1>3, <1>4, <1>5

LEMMA CountInvariant == AccountSpec => []CountInv
  <1>1. AccountInit => CountInv
    <2> SUFFICES ASSUME AccountInit
                 PROVE  CountInv
      OBVIOUS
    <2>1. Counting = {}
      BY DEF AccountInit, NoAuth, Counting
    <2>2. QED
      BY <2>1, AccountAssumption DEF AccountInit, CountInv, FailuresCount
  <1>2. AccountTypes /\ CountInv /\ [AccountNext]_accountVars => CountInv'
    <2> SUFFICES ASSUME AccountTypes, CountInv, [AccountNext]_accountVars
                 PROVE  CountInv'
      OBVIOUS
    <2>1. CASE UNCHANGED <<failures, streak, uncounted, auth>>
               /\ (lock' = lock \/ lock' = "past")
      BY <2>1 DEF CountInv, FailuresCount, Counting
    <2>2. CASE LockExpires \/ CooldownEnds \/ \E h \in Challenge : ChallengeExpires(h)
      BY <2>1, <2>2 DEF LockExpires, CooldownEnds, ChallengeExpires, login
    <2>3. QED
      BY <2>1, <2>2, StepKeepsCountInv DEF AccountNext, accountVars
  <1>3. QED
    BY <1>1, <1>2, AccountTypesInvariant, PTL DEF AccountSpec

\* Wrong guesses of code h that have passed the check and are not counted yet.
Missing(h) == {r \in Request : auth[r].phase = "miss" /\ auth[r].challenge = h}

CodeInv ==
    \A h \in Challenge :
        /\ challenge[h].accepted <= 1
        /\ challenge[h].state # "spent" => challenge[h].accepted = 0
        /\ challenge[h].attempts + Cardinality(Missing(h))
               < MaxAttempts + Cardinality(Request)

LEMMA RequestsAreFinite ==
    \A S \in SUBSET Request :
        IsFiniteSet(S) /\ Cardinality(S) \in Nat
            /\ Cardinality(S) <= Cardinality(Request)
  BY AccountAssumption, FS_Subset, FS_CardinalityType

\* A request comes to count a miss by ReadChallenge only, which has seen an
\* attempt left.
LEMMA MissingMoves ==
    ASSUME AccountTypes, NEW r \in Request, AccountStep(r), NEW h \in Challenge
    PROVE  \/ Missing(h)' \subseteq Missing(h) \ {r}
           \/ ReadChallenge(r) /\ challenge[h].attempts < MaxAttempts
  <1>1. Missing(h)' \subseteq Missing(h) \cup {r}
    BY AccountOthersKeep DEF Missing
  <1>2. CASE r \notin Missing(h)'
    <2>1. Missing(h)' \subseteq Missing(h) \ {r}
      BY <1>1, <1>2
    <2>2. QED
      BY <2>1
  <1>3. CASE r \in Missing(h)'
    <2>1. auth'[r].phase = "miss" /\ auth'[r].challenge = h
      BY <1>3 DEF Missing
    <2>2. ReadChallenge(r)
      BY <2>1, AccountEntered
    <2>3. Guessable(auth[r].challenge)
          /\ \E p : auth'[r] = [auth[r] EXCEPT !.phase = p]
      BY <2>1, <2>2, ProceededTo DEF ReadChallenge
    <2>4. auth[r].challenge = h
      BY <2>1, <2>3, AuthAt DEF AuthRequest
    <2>5. QED
      BY <2>2, <2>3, <2>4 DEF Guessable
  <1>4. QED
    BY <1>2, <1>3

\* A step that leaves code h with the attempts it had, or fresh.
LEMMA MissesStayFew ==
    ASSUME AccountTypes, CodeInv, NEW r \in Request, AccountStep(r),
           NEW h \in Challenge,
           challenge'[h].attempts \in {0, challenge[h].attempts}
    PROVE  challenge'[h].attempts + Cardinality(Missing(h)')
               < MaxAttempts + Cardinality(Request)
  <1> DEFINE was == Cardinality(Missing(h))
             is == Cardinality(Missing(h)')
             all == Cardinality(Request)
  <1>1. Missing(h) \subseteq Request /\ Missing(h)' \subseteq Request
    BY DEF Missing
  <1>2. was \in Nat /\ is \in Nat /\ all \in Nat /\ is <= all
    BY <1>1, RequestsAreFinite
  <1>3. challenge[h].attempts \in Nat
    BY DEF AccountTypes, AccountTypeOK
  <1>4. challenge[h].attempts + was < MaxAttempts + all
    BY DEF CodeInv
  <1>5. CASE challenge'[h].attempts = 0 \/ challenge[h].attempts < MaxAttempts
    <2>1. challenge'[h].attempts < MaxAttempts
      BY <1>5, AccountAssumption
    <2> HIDE DEF was, is, all
    <2>2. challenge'[h].attempts + is < MaxAttempts + all
      BY <1>2, <1>3, <2>1, AccountAssumption
    <2>3. QED
      BY <2>2 DEF is, all
  <1>6. CASE Missing(h)' \subseteq Missing(h)
    <2>1. is <= was
      BY <1>1, <1>6, RequestsAreFinite, FS_Subset
    <2> HIDE DEF was, is, all
    <2>2. challenge'[h].attempts + is < MaxAttempts + all
      BY <1>2, <1>3, <1>4, <2>1, AccountAssumption
    <2>3. QED
      BY <2>2 DEF is, all
  <1>7. QED
    BY <1>5, <1>6, MissingMoves

\* The steps of requests that touch no code.
LEMMA CodeWriters ==
    ASSUME AccountTypes, NEW r \in Request, AccountStep(r),
           \A h \in Challenge : ~CommitIssue(r, h),
           ~Withdraw(r), ~CountMiss(r), ~AcceptCode(r)
    PROVE  challenge' = challenge
  BY DEF AccountStep, ReceiveLogin, ReadUser, RecordFailure, ClearFailures,
         OpenSession, ReceiveLogout, ReceiveRefresh, ReadToken, ConsumeToken,
         CommitRefresh, CommitEnd, EndSession, ReadTokens, AbortDeadlocked,
         ReceiveIssue, ReadLatest, Supersede, Deliver,
         ReceiveConfirm, ReadChallenge, CommitReset, LoseAuth, codes

LEMMA StepKeepsCodeInv ==
    ASSUME AccountTypes, CodeInv, NEW r \in Request, AccountStep(r)
    PROVE  CodeInv'
  <1>0. challenge \in [Challenge -> [state : {"none", "valid", "spent"},
                                     attempts : Nat, accepted : Nat]]
    BY DEF AccountTypes, AccountTypeOK
  <1>1. SUFFICES ASSUME NEW h \in Challenge
                 PROVE  /\ challenge'[h].accepted <= 1
                        /\ challenge'[h].state # "spent" => challenge'[h].accepted = 0
                        /\ challenge'[h].attempts + Cardinality(Missing(h)')
                               < MaxAttempts + Cardinality(Request)
    BY DEF CodeInv
  <1>2. /\ challenge[h].accepted <= 1
        /\ challenge[h].state # "spent" => challenge[h].accepted = 0
    BY DEF CodeInv
  <1>3. ASSUME NEW k \in Challenge, CommitIssue(r, k)
        PROVE  /\ challenge'[h].accepted <= 1
               /\ challenge'[h].state # "spent" => challenge'[h].accepted = 0
               /\ challenge'[h].attempts \in {0, challenge[h].attempts}
    BY <1>0, <1>2, <1>3 DEF CommitIssue, NoChallenge
  <1>4. CASE Withdraw(r) \/ AcceptCode(r)
    <2>1. auth[r].challenge \in Challenge
      BY <1>4, AuthAt DEF Withdraw, AcceptCode, At, AuthFilled, Confirming
    <2>2. CASE Withdraw(r)
      BY <1>0, <1>2, <2>1, <2>2, MissesStayFew DEF Withdraw
    <2>3. CASE AcceptCode(r)
      <3>1. challenge' = challenge
            \/ /\ challenge[auth[r].challenge].state = "valid"
               /\ challenge' = [challenge EXCEPT
                      ![auth[r].challenge].state = "spent",
                      ![auth[r].challenge].accepted = @ + 1]
        BY <2>3 DEF AcceptCode, Acceptable, Valid
      <3>2. QED
        BY <1>0, <1>2, <2>1, <3>1, MissesStayFew
    <2>4. QED
      BY <1>4, <2>2, <2>3
  <1>5. CASE CountMiss(r)
    <2>1. PICK k \in Challenge : k = auth[r].challenge
      BY <1>5, AuthAt DEF CountMiss, At, AuthFilled, Confirming
    <2>2. challenge' = [challenge EXCEPT ![k].attempts = @ + 1]
      BY <1>5, <2>1 DEF CountMiss
    <2>3. CASE h # k
      BY <1>0, <1>2, <2>2, <2>3, MissesStayFew
    <2>4. CASE h = k
      <3>1. challenge'[h].attempts = challenge[h].attempts + 1
            /\ challenge'[h].accepted = challenge[h].accepted
            /\ challenge'[h].state = challenge[h].state
            /\ challenge[h].attempts \in Nat
        BY <1>0, <2>2, <2>4
      <3>2. r \in Missing(h) /\ Missing(h)' \subseteq Missing(h) \ {r}
        BY <1>5, <2>1, <2>4, MissingMoves
        DEF Missing, CountMiss, ReadChallenge, At
      <3>3. Missing(h) \subseteq Request
        BY DEF Missing
      <3>4. Cardinality(Missing(h) \ {r}) = Cardinality(Missing(h)) - 1
            /\ Cardinality(Missing(h)') <= Cardinality(Missing(h) \ {r})
        BY <3>2, <3>3, RequestsAreFinite, FS_RemoveElement, FS_Subset
      <3>5. Cardinality(Missing(h)) \in Nat /\ Cardinality(Missing(h)') \in Nat
            /\ Cardinality(Missing(h) \ {r}) \in Nat /\ Cardinality(Request) \in Nat
        BY <3>2, <3>3, RequestsAreFinite
      <3>6. challenge[h].attempts + Cardinality(Missing(h))
                < MaxAttempts + Cardinality(Request)
        BY DEF CodeInv
      <3>7. QED
        BY <1>2, <3>1, <3>4, <3>5, <3>6, AccountAssumption
    <2>5. QED
      BY <2>3, <2>4
  <1>6. CASE challenge' = challenge
    BY <1>2, <1>6, MissesStayFew
  <1>7. QED
    BY <1>3, <1>4, <1>5, <1>6, CodeWriters, MissesStayFew

LEMMA CodeInvariant == AccountSpec => []CodeInv
  <1>1. AccountInit => CodeInv
    <2> SUFFICES ASSUME AccountInit, NEW h \in Challenge
                 PROVE  /\ challenge[h].accepted = 0 /\ challenge[h].attempts = 0
                        /\ Missing(h) = {}
      BY AccountAssumption, FS_EmptySet, RequestsAreFinite DEF CodeInv
    <2>1. QED
      BY DEF AccountInit, NoChallenge, NoAuth, Missing
  <1>2. AccountTypes /\ CodeInv /\ [AccountNext]_accountVars => CodeInv'
    <2> SUFFICES ASSUME AccountTypes, CodeInv, [AccountNext]_accountVars
                 PROVE  CodeInv'
      OBVIOUS
    <2>1. CASE UNCHANGED <<challenge, auth>>
      BY <2>1 DEF CodeInv, Missing
    <2>2. CASE LockExpires \/ CooldownEnds
      BY <2>1, <2>2 DEF LockExpires, CooldownEnds, codes
    <2>3. ASSUME NEW h \in Challenge, ChallengeExpires(h)
          PROVE  CodeInv'
      <3>1. \A k \in Challenge :
               /\ challenge'[k].accepted = challenge[k].accepted
               /\ challenge'[k].attempts = challenge[k].attempts
               /\ challenge'[k].state \in {challenge[k].state, "spent"}
               /\ Missing(k)' = Missing(k)
        BY <2>3 DEF ChallengeExpires, AccountTypes, AccountTypeOK, Missing
      <3>2. QED
        BY <3>1 DEF CodeInv
    <2>4. QED
      BY <2>1, <2>2, <2>3, StepKeepsCodeInv DEF AccountNext, accountVars
  <1>3. QED
    BY <1>1, <1>2, AccountTypesInvariant, PTL DEF AccountSpec

\* A mailed code is accepted once, compared with few more wrong guesses than
\* MAX_ATTEMPTS however many requests try it at once, and failed logins that
\* do not overlap are all counted and lock the account.
THEOREM GuessesStayBounded == AccountSpec => []GuessesAreBounded
  <1>1. AccountTypes /\ CodeInv /\ CountInv => GuessesAreBounded
    <2> SUFFICES ASSUME AccountTypes, CodeInv, CountInv
                 PROVE  GuessesAreBounded
      OBVIOUS
    <2>1. ASSUME NEW h \in Challenge
          PROVE  challenge[h].attempts < MaxAttempts + Cardinality(Request)
      <3>1. Cardinality(Missing(h)) \in Nat /\ Cardinality(Request) \in Nat
            /\ challenge[h].attempts \in Nat
        BY RequestsAreFinite DEF Missing, AccountTypes, AccountTypeOK
      <3>2. challenge[h].attempts + Cardinality(Missing(h))
                < MaxAttempts + Cardinality(Request)
        BY DEF CodeInv
      <3>3. QED
        BY <3>1, <3>2, AccountAssumption
    <2>2. QED
      BY <2>1 DEF GuessesAreBounded, CodesAreSpent, CodeInv, CountInv
  <1>2. QED
    BY <1>1, CodeInvariant, CountInvariant, AccountTypesInvariant, PTL

=============================================================================

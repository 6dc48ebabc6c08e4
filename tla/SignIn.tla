------------------------------- MODULE SignIn -------------------------------
(***************************************************************************)
(* One account signing in: src/lib/auth/login.ts, throttle.ts, sessions.ts,*)
(* two-factor.ts, changePassword of users.ts, and the server actions of    *)
(* src/app/actions/session.ts that call them.                              *)
(*                                                                         *)
(* Every request reads, works (a password hash takes a fifth of a second)  *)
(* and writes later; other requests run in between.  Time is a clock of    *)
(* abstract units.  Passwords are numbered versions, recovery codes are    *)
(* one per batch, and a second-factor secret is numbered by its setup.     *)
(***************************************************************************)
EXTENDS Naturals, FiniteSets, FiniteSetsExt

CONSTANTS
    Requests,                      \* requests the server runs at once
    LOGIN_MAX_FAILURES_PER_EMAIL, LOGIN_WINDOW,
    SESSION_IDLE, SESSION_ABSOLUTE, SESSION_REFRESH_INTERVAL, PURGE_AFTER,
    TOTP_CHALLENGE_TTL, TOTP_MAX_CHALLENGE_ATTEMPTS,
    MaxClock, MaxStarts            \* bounds: the clock, requests started

ASSUME LimitAssumption ==
    /\ {LOGIN_MAX_FAILURES_PER_EMAIL, LOGIN_WINDOW, SESSION_IDLE, SESSION_ABSOLUTE,
        TOTP_CHALLENGE_TTL, TOTP_MAX_CHALLENGE_ATTEMPTS, PURGE_AFTER} \subseteq Nat \ {0}
    /\ {SESSION_REFRESH_INTERVAL, MaxClock} \subseteq Nat
    /\ MaxStarts \in Nat \ {0}
    /\ IsFiniteSet(Requests)

VARIABLES
    now,        \* the clock
    password,   \* [version, weak]: the stored hash, weak when made with old parameters
    secret,     \* totpSecretEnc: 0 when there is none
    enabled,    \* totpEnabledAt is set
    codes,      \* recovery codes stored
    spent,      \* those with usedAt set
    failures,   \* failed attempts recorded
    session,    \* every session row, by its id
    challenge,  \* every second-factor challenge, by its id
    started,    \* requests so far; also numbers what they create
    req         \* what each request has read and where it stands

account == <<password, secret, enabled, codes, spent>>
vars == <<now, password, secret, enabled, codes, spent, failures, session, challenge,
          started, req>>

Ids == 1..MaxStarts
Times == 0..MaxClock

Session == [state : {"none", "live", "revoked", "purged"}, last : Nat, expires : Nat,
            absolute : Nat, via : 0..MaxStarts]
Challenge == [state : {"none", "live", "gone"}, expires : Nat,
              attempts : 0..(TOTP_MAX_CHALLENGE_ATTEMPTS - 1)]
Request == [pc : {"idle", "checked", "failing", "verified", "cleared", "updated",
                  "proven", "replacing", "passing", "refusing", "refreshing"},
            op : {"none", "signin", "password", "disable", "regenerate", "confirm",
                  "verify", "validate"},
            at : Times,              \* the request's `now`
            n  : 0..MaxStarts,       \* its number
            id : 0..MaxStarts,       \* session or challenge it concerns
            guess : 0..MaxStarts,    \* password tried, or recovery code entered
            seen : [weak : BOOLEAN, enabled : BOOLEAN, attempts : Nat],
            rows : SUBSET (0..MaxStarts)]   \* recovery codes its DELETE found

Unseen == [weak |-> FALSE, enabled |-> FALSE, attempts |-> 0]
Idle == [pc |-> "idle", op |-> "none", at |-> 0, n |-> 0, id |-> 0, guess |-> 0,
         seen |-> Unseen, rows |-> {}]
Attempt == [n : 0..MaxStarts, at : Times]   \* the request that failed, and its time
NoSession == [state |-> "none", last |-> 0, expires |-> 0, absolute |-> 0, via |-> 0]
NoChallenge == [state |-> "none", expires |-> 0, attempts |-> 0]

TypeOK ==
    /\ now \in Times
    /\ password \in [version : 0..MaxStarts, weak : BOOLEAN]
    /\ secret \in 0..MaxStarts + 1 /\ enabled \in BOOLEAN
    /\ codes \subseteq 0..MaxStarts /\ spent \subseteq codes
    /\ failures \subseteq Attempt
    /\ session \in [Ids -> Session]
    /\ challenge \in [Ids -> Challenge]
    /\ started \in 0..MaxStarts
    /\ req \in [Requests -> Request]

createSession(at, via) ==
    [state |-> "live", last |-> at, via |-> via,
     expires |-> Min({at + SESSION_IDLE, at + SESSION_ABSOLUTE}),
     absolute |-> at + SESSION_ABSOLUTE]

\* A signed-in account whose hash may predate today's parameters, with
\* two-factor set up or not.
Init ==
    /\ now = 0
    /\ \E weak \in BOOLEAN : password = [version |-> 0, weak |-> weak]
    /\ enabled \in BOOLEAN
    /\ secret = (IF enabled THEN MaxStarts + 1 ELSE 0)
    /\ codes = (IF enabled THEN {0} ELSE {}) /\ spent = {}
    /\ failures = {}
    /\ session = [i \in Ids |-> IF i = 1 THEN createSession(0, 0) ELSE NoSession]
    /\ challenge = [i \in Ids |-> NoChallenge]
    /\ started = 1
    /\ req = [r \in Requests |-> Idle]

Tick == now < MaxClock /\ now' = now + 1
        /\ UNCHANGED <<account, failures, session, challenge, started, req>>

-----------------------------------------------------------------------------
(* throttle.ts *)

InWindow(t) == {f \in failures : f.at + LOGIN_WINDOW >= t}
FailuresAt(t) == Cardinality(InWindow(t))

\* The time of failure number k, counted from the newest one.
NewestFailure(k) ==
    Max({u \in Times : Cardinality({f \in failures : f.at >= u}) >= k})

secondsUntilUnblocked_FromOldest ==
    IF FailuresAt(now) < LOGIN_MAX_FAILURES_PER_EMAIL THEN 0
    ELSE LET pivot == Min({f.at : f \in InWindow(now)})
         IN  Max({1, pivot + LOGIN_WINDOW - now})

secondsUntilUnblocked ==
    IF FailuresAt(now) < LOGIN_MAX_FAILURES_PER_EMAIL THEN 0
    ELSE LET pivot == NewestFailure(LOGIN_MAX_FAILURES_PER_EMAIL)
         IN  Max({1, pivot + LOGIN_WINDOW - now})

checkLoginThrottle == secondsUntilUnblocked = 0

\* recordLoginAttempt with success = false; the request ends with an error.
recordLoginAttempt(r) ==
    /\ req[r].pc = "failing"
    /\ failures' = failures \cup {[n |-> req[r].n, at |-> req[r].at]}
    /\ req' = [req EXCEPT ![r] = Idle]
    /\ UNCHANGED <<now, account, session, challenge, started>>

-----------------------------------------------------------------------------
(* Requests start *)

Start(r, fields) ==
    /\ req[r].pc = "idle" /\ started < MaxStarts
    /\ started' = started + 1
    /\ req' = [req EXCEPT ![r] = [fields EXCEPT !.at = now, !.n = started + 1]]
    /\ UNCHANGED <<now, account, failures, session, challenge>>

\* validateSession accepts the session at this moment.
Valid(i) == session[i].state = "live" /\ session[i].expires > now /\ session[i].absolute > now
SignedIn(i) == i \in Ids /\ Valid(i)

-----------------------------------------------------------------------------
(* signIn *)

\* loginAction: a throttled attempt ends at once.
loginAction(r, guess) ==
    /\ checkLoginThrottle
    /\ Start(r, [Idle EXCEPT !.pc = "checked", !.op = "signin", !.guess = guess])

\* The account is read and the password compared with the hash that was read.
VerifyPassword(r) ==
    /\ req[r].pc = "checked"
    /\ req' = [req EXCEPT ![r] =
          IF req[r].guess = password.version
          THEN [req[r] EXCEPT !.pc = "verified",
                   !.seen = [Unseen EXCEPT !.weak = password.weak, !.enabled = enabled]]
          ELSE [req[r] EXCEPT !.pc = "failing"]]
    /\ UNCHANGED <<now, account, failures, session, challenge, started>>

clearEmailFailures(r) ==
    /\ req[r].pc = "verified" /\ req[r].op = "signin"
    /\ failures' = {}
    /\ req' = [req EXCEPT ![r].pc = "cleared"]
    /\ UNCHANGED <<now, account, session, challenge, started>>

\* lastLoginAt, and a new hash of the password that was typed when the one
\* read was weak.
UpdateUser(r) ==
    /\ req[r].pc = "cleared"
    /\ password' = IF req[r].seen.weak THEN [version |-> req[r].guess, weak |-> FALSE]
                   ELSE password
    /\ req' = [req EXCEPT ![r].pc = "updated"]
    /\ UNCHANGED <<now, secret, enabled, codes, spent, failures, session, challenge, started>>

\* Housekeeping after one sign-in in twenty. A revocation time is not kept
\* here: a revoked row may already be old enough.
purgeDeadSessions(rows, at) ==
    [i \in Ids |-> IF \/ rows[i].state \in {"live", "revoked"}
                         /\ rows[i].absolute + PURGE_AFTER < at
                      \/ rows[i].state = "revoked"
                   THEN [rows[i] EXCEPT !.state = "purged"] ELSE rows[i]]

purgeOldAttempts(at) == {f \in failures : ~ (f.at + PURGE_AFTER < at)}

\* Two-factor accounts get a challenge, the others a session.
createTotpChallenge(r) ==
    /\ req[r].pc = "updated" /\ req[r].seen.enabled
    /\ challenge' = [challenge EXCEPT ![req[r].n] =
          [state |-> "live", expires |-> req[r].at + TOTP_CHALLENGE_TTL, attempts |-> 0]]
    /\ req' = [req EXCEPT ![r] = Idle]
    /\ UNCHANGED <<now, account, failures, session, started>>

signIn(r) ==
    /\ req[r].pc = "updated" /\ ~ req[r].seen.enabled
    /\ LET opened == [session EXCEPT ![req[r].n] = createSession(req[r].at, 0)]
       IN  \/ session' = opened /\ UNCHANGED failures
           \/ /\ session' = purgeDeadSessions(opened, req[r].at)
              /\ failures' = purgeOldAttempts(req[r].at)
    /\ req' = [req EXCEPT ![r] = Idle]
    /\ UNCHANGED <<now, account, challenge, started>>

-----------------------------------------------------------------------------
(* sessions.ts *)

\* A page is opened: the session is accepted and, when idle for a while, its
\* expiry is moved by a later write.
validateSession(r, i) ==
    /\ SignedIn(i)
    /\ now > session[i].last + SESSION_REFRESH_INTERVAL
    /\ Start(r, [Idle EXCEPT !.pc = "refreshing", !.op = "validate", !.id = i])

RefreshedExpiry_IdleOnly(at, absolute) == at + SESSION_IDLE

RefreshedExpiry(at, absolute) == Min({at + SESSION_IDLE, absolute})

RefreshSession(r) ==
    /\ req[r].pc = "refreshing"
    /\ session' = [session EXCEPT ![req[r].id] =
          IF session[req[r].id].state = "purged" THEN session[req[r].id]
          ELSE [session[req[r].id] EXCEPT !.last = req[r].at,
                   !.expires = RefreshedExpiry(req[r].at, session[req[r].id].absolute)]]
    /\ req' = [req EXCEPT ![r] = Idle]
    /\ UNCHANGED <<now, account, failures, challenge, started>>

\* revokeSessionByToken, from logoutAction.
logoutAction(i) ==
    /\ session[i].state = "live"
    /\ session' = [session EXCEPT ![i].state = "revoked"]
    /\ UNCHANGED <<now, account, failures, challenge, started, req>>

revokeAllSessions(except) ==
    [i \in Ids |-> IF i # except /\ session[i].state = "live"
                   THEN [session[i] EXCEPT !.state = "revoked"] ELSE session[i]]

-----------------------------------------------------------------------------
(* What needs the current password: changePassword, disableTotp and
   regenerateRecoveryCodes, from the settings page of a valid session *)

verifyCurrentPassword(r, i, op, guess) ==
    /\ SignedIn(i)
    /\ checkLoginThrottle
    /\ Start(r, [Idle EXCEPT !.op = op, !.id = i, !.guess = guess,
                    !.pc = IF guess = password.version THEN "proven" ELSE "failing"])

\* One transaction: the new hash, and every other session revoked.
changePassword(r) ==
    /\ req[r].pc = "proven" /\ req[r].op = "password"
    /\ password' = [version |-> req[r].n, weak |-> FALSE]
    /\ session' = revokeAllSessions(req[r].id)
    /\ req' = [req EXCEPT ![r] = Idle]
    /\ UNCHANGED <<now, secret, enabled, codes, spent, failures, challenge, started>>

deleteChallenges ==
    [i \in Ids |-> IF challenge[i].state = "live" THEN [challenge[i] EXCEPT !.state = "gone"]
                   ELSE challenge[i]]

\* One transaction: secret, codes and pending challenges go together.
disableTotp(r) ==
    /\ req[r].pc = "proven" /\ req[r].op = "disable"
    /\ req' = [req EXCEPT ![r] = Idle]
    /\ IF enabled
       THEN /\ secret' = 0 /\ enabled' = FALSE /\ codes' = {} /\ spent' = {}
            /\ challenge' = deleteChallenges
       ELSE UNCHANGED <<secret, enabled, codes, spent, challenge>>
    /\ UNCHANGED <<now, password, failures, session, started>>

\* The DELETE of the old codes finds the rows committed so far.
regenerateRecoveryCodes(r) ==
    /\ req[r].pc = "proven" /\ req[r].op = "regenerate"
    /\ req' = [req EXCEPT ![r] = IF enabled THEN [req[r] EXCEPT !.pc = "replacing", !.rows = codes]
                                 ELSE Idle]
    /\ UNCHANGED <<now, account, failures, session, challenge, started>>

-----------------------------------------------------------------------------
(* Setting two-factor up *)

startTotpSetup(r, i) ==
    /\ SignedIn(i)
    /\ req[r].pc = "idle" /\ started < MaxStarts
    /\ started' = started + 1
    /\ secret' = started + 1
    /\ UNCHANGED <<now, password, enabled, codes, spent, failures, session, challenge, req>>

\* The right code for the secret stored now.
confirmTotpSetup(r, i) ==
    /\ SignedIn(i)
    /\ secret # 0
    /\ Start(r, [Idle EXCEPT !.pc = "replacing", !.op = "confirm", !.id = i, !.rows = codes])

\* The new codes are inserted and the transaction commits; the old ones went
\* with their usedAt.
RecoveryCodesReplaced(r) ==
    /\ req[r].pc = "replacing"
    /\ codes' = (codes \ req[r].rows) \cup {req[r].n}
    /\ spent' = spent \ req[r].rows
    /\ enabled' = (enabled \/ req[r].op = "confirm")
    /\ req' = [req EXCEPT ![r] = Idle]
    /\ UNCHANGED <<now, password, secret, failures, session, challenge, started>>

-----------------------------------------------------------------------------
(* The second factor at sign-in *)

\* The challenge and what the code is compared with are read; `entered` is
\* "totp" for a code the stored secret accepts.
verifyTotpAction(r, c, entered, k) ==
    /\ challenge[c].state = "live" /\ challenge[c].expires > now
    /\ LET valid == \/ entered = "totp" /\ secret # 0
                    \/ entered = "recovery" /\ k \in codes \ spent
       IN  Start(r, [Idle EXCEPT !.op = "verify", !.id = c,
                        !.pc = IF valid THEN "passing" ELSE "refusing",
                        !.guess = IF valid /\ entered = "recovery" THEN k ELSE 0,
                        !.rows = IF valid /\ entered = "recovery" THEN {k} ELSE {},
                        !.seen = [Unseen EXCEPT !.attempts = challenge[c].attempts]])

\* With `read` failed attempts in the row that was read, this one is the last.
LastAttempt_OffByOne(read) == read >= TOTP_MAX_CHALLENGE_ATTEMPTS

LastAttempt(read) == read + 1 >= TOTP_MAX_CHALLENGE_ATTEMPTS

\* A wrong code is counted from the value read; the last one ends the
\* challenge. An update of a row that is gone fails.
CodeRefused(r) ==
    /\ req[r].pc = "refusing"
    /\ challenge' = [challenge EXCEPT ![req[r].id] =
          IF @.state # "live" THEN @
          ELSE IF LastAttempt(req[r].seen.attempts)
          THEN [@ EXCEPT !.state = "gone"]
          ELSE [@ EXCEPT !.attempts = req[r].seen.attempts + 1]]
    /\ req' = [req EXCEPT ![r] = Idle]
    /\ UNCHANGED <<now, account, failures, session, started>>

\* The DELETE of the challenge and the UPDATE of the code fail when the row is
\* gone, and the transaction with them.
TransactionFails_DeleteMany(q) == ~ (q.rows \subseteq codes)

TransactionFails(q) == challenge[q.id].state # "live" \/ ~ (q.rows \subseteq codes)

verifyTotpChallenge(r) ==
    /\ req[r].pc = "passing"
    /\ IF TransactionFails(req[r])
       THEN UNCHANGED <<challenge, session, spent>>
       ELSE /\ challenge' = [challenge EXCEPT ![req[r].id].state = "gone"]
            /\ spent' = spent \cup req[r].rows
            /\ session' = [session EXCEPT ![req[r].n] =
                  createSession(req[r].at, req[r].id)]
    /\ req' = [req EXCEPT ![r] = Idle]
    /\ UNCHANGED <<now, password, secret, enabled, codes, failures, started>>

-----------------------------------------------------------------------------
\* The right password, or a wrong one.
Guesses == {password.version, MaxStarts}

\* The forms of the profile page, each with the session of its request.
accountActions(r, i) ==
    \/ startTotpSetup(r, i) \/ confirmTotpSetup(r, i)
    \/ \E op \in {"password", "disable", "regenerate"}, g \in Guesses :
          verifyCurrentPassword(r, i, op, g)

Next ==
    \/ Tick
    \/ \E i \in Ids : logoutAction(i)
    \/ \E r \in Requests :
          \/ \E g \in Guesses : loginAction(r, g)
          \/ VerifyPassword(r) \/ recordLoginAttempt(r) \/ clearEmailFailures(r)
          \/ UpdateUser(r) \/ createTotpChallenge(r) \/ signIn(r)
          \/ RefreshSession(r)
          \/ \E i \in Ids : validateSession(r, i) \/ accountActions(r, i)
          \/ changePassword(r) \/ disableTotp(r) \/ regenerateRecoveryCodes(r)
          \/ RecoveryCodesReplaced(r)
          \/ \E c \in Ids :
                \/ \E entered \in {"totp", "wrong"} : verifyTotpAction(r, c, entered, 0)
                \/ \E k \in codes : verifyTotpAction(r, c, "recovery", k)
          \/ CodeRefused(r) \/ verifyTotpChallenge(r)

Spec == Init /\ [][Next]_vars

-----------------------------------------------------------------------------
(* Properties *)

\* The throttle: failures of the account within one window exceed the limit by no
\* more than the requests that were checked together (checkLoginThrottle counts
\* before recordLoginAttempt records), and what a blocked user is told is exact:
\* blocked until then, and let in one unit later at most when nothing else fails
\* (secondsUntilUnblocked).
ThrottleIsExact ==
    LET free == now + secondsUntilUnblocked
    IN  /\ FailuresAt(now) <= LOGIN_MAX_FAILURES_PER_EMAIL + Cardinality(Requests) - 1
        /\ free > now =>
              /\ \A t \in now..(free - 1) : FailuresAt(t) >= LOGIN_MAX_FAILURES_PER_EMAIL
              /\ FailuresAt(free + 1) < LOGIN_MAX_FAILURES_PER_EMAIL

\* However refreshes overlap, a session never outlives its absolute end nor
\* the idle period after its last recorded use, and what was revoked stays
\* revoked (validateSession's late write, revokeAllSessions).
SessionsEnd ==
    [][\A i \in Ids :
          /\ session'[i].state = "live" =>
                /\ session'[i].expires <= session'[i].absolute
                /\ session'[i].expires <= session'[i].last + SESSION_IDLE
                /\ session[i].state \in {"none", "live"}
          /\ session[i].state # "none" => session'[i].absolute = session[i].absolute]_vars

\* A challenge opens at most one session, however often its form is submitted, and
\* none once the account has no second factor left
\* (verifyTotpChallenge deletes the challenge in its transaction, and disableTotp
\* removes the challenges with the factors).
ChallengesPassedOnce ==
    [][\A i \in Ids : session[i].state = "none" /\ session'[i].via # 0 =>
          /\ \A j \in Ids : session[j].via # session'[i].via
          /\ secret # 0 \/ codes # {}]_vars

=============================================================================

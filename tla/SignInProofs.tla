---------------------------- MODULE SignInProofs ----------------------------
(***************************************************************************)
(* For any number of concurrent requests and every setting of the limits:  *)
(* the state is well typed, sessions end when they must and what was       *)
(* revoked stays revoked, a second-factor challenge opens at most one      *)
(* session, against factors that are still there, and the throttle bounds  *)
(* the failures and tells a blocked user the exact time.                   *)
(*                                                                         *)
(* None is inductive.  The strengthening says what makes late writes       *)
(* harmless: a request creates rows under a number no other request has    *)
(* and nothing was stored under before; the rows it will update exist; a   *)
(* challenge that opened a session is gone for good; and a challenge that  *)
(* is still there was never separated from the secret it was passed with.  *)
(***************************************************************************)
EXTENDS SignIn, FunctionTheorems, FiniteSetTheorems, TLAPS

Pending(q) == q.pc # "idle"

\* The rows a request will create are not there yet, the ones it will update are.
Context(q) ==
    /\ Pending(q) => /\ q.n \in 1..started
                     /\ session[q.n].state = "none" /\ challenge[q.n].state = "none"
    /\ q.pc = "refreshing" => q.id \in Ids /\ session[q.id].state # "none"
    /\ q.pc \in {"passing", "refusing"} => q.id \in Ids /\ challenge[q.id].state # "none"
    /\ q.pc = "passing" /\ q.rows = {} /\ challenge[q.id].state = "live" => secret # 0

NumbersDistinct ==
    \A r, s \in Requests : Pending(req[r]) /\ Pending(req[s]) /\ req[r].n = req[s].n => r = s

RequestsInOrder == \A r \in Requests : Context(req[r])

\* Numbers not given out yet are unused.
Unused == \A i \in Ids : i > started => session[i].state = "none" /\ challenge[i].state = "none"

\* A session's end is bounded, and the challenge it came from is gone.
Sound(s) ==
    /\ s.state = "none" => s.via = 0
    /\ s.state # "none" => s.expires <= s.absolute /\ s.expires <= s.last + SESSION_IDLE
    /\ s.via # 0 => challenge[s.via].state = "gone"

SessionsSound == \A i \in Ids : Sound(session[i])

SignInInv == TypeOK /\ RequestsInOrder /\ NumbersDistinct /\ Unused /\ SessionsSound

-----------------------------------------------------------------------------
(* Numbers, minima and requests *)

LEMMA Limits ==
    /\ MaxStarts \in Nat \ {0} /\ MaxClock \in Nat /\ SESSION_IDLE \in Nat \ {0}
    /\ SESSION_ABSOLUTE \in Nat \ {0} /\ TOTP_CHALLENGE_TTL \in Nat \ {0}
    /\ TOTP_MAX_CHALLENGE_ATTEMPTS \in Nat \ {0} /\ PURGE_AFTER \in Nat \ {0}
BY LimitAssumption

LEMMA Minimum ==
    ASSUME NEW a \in Nat, NEW b \in Nat
    PROVE  Min({a, b}) \in Nat /\ Min({a, b}) <= a /\ Min({a, b}) <= b
<1>1. \E x \in {a, b} : \A y \in {a, b} : x <= y
  <2>1. CASE a <= b
    BY <2>1
  <2>2. CASE b <= a
    BY <2>2
  <2> QED
    BY <2>1, <2>2
<1>2. Min({a, b}) \in {a, b} /\ \A y \in {a, b} : Min({a, b}) <= y
  BY <1>1 DEF Min
<1> QED
  BY <1>2

\* A new session ends in time.
LEMMA NewSession ==
    ASSUME NEW at \in Times, NEW via \in 0..MaxStarts
    PROVE  /\ createSession(at, via) \in Session
           /\ createSession(at, via).state = "live" /\ createSession(at, via).via = via
           /\ createSession(at, via).expires <= createSession(at, via).absolute
           /\ createSession(at, via).expires <= createSession(at, via).last + SESSION_IDLE
<1>1. at \in Nat /\ at + SESSION_IDLE \in Nat /\ at + SESSION_ABSOLUTE \in Nat
  BY Limits DEF Times
<1>2. PICK e : e = Min({at + SESSION_IDLE, at + SESSION_ABSOLUTE})
  OBVIOUS
<1>3. e \in Nat /\ e <= at + SESSION_IDLE /\ e <= at + SESSION_ABSOLUTE
  BY <1>1, <1>2, Minimum
<1>4. createSession(at, via) = [state |-> "live", last |-> at, via |-> via, expires |-> e,
                                absolute |-> at + SESSION_ABSOLUTE]
  BY <1>2 DEF createSession
<1> QED
  BY <1>1, <1>3, <1>4 DEF Session

LEMMA IdleRequest ==
    Idle \in Request /\ Idle.pc = "idle" /\ Idle.rows = {} /\ Idle.id = 0 /\ ~ Pending(Idle)
BY Limits DEF Idle, Request, Unseen, Times, Pending

\* A request that starts takes the next number.
LEMMA Starts ==
    ASSUME TypeOK, NEW r \in Requests, NEW fields \in Request, Start(r, fields)
    PROVE  /\ ~ Pending(req[r]) /\ started + 1 \in Ids /\ started' = started + 1
           /\ UNCHANGED <<now, account, failures, session, challenge>>
           /\ \E x \in Request :
                 /\ req' = [req EXCEPT ![r] = x]
                 /\ x.n = started + 1 /\ x.pc = fields.pc /\ x.id = fields.id
                 /\ x.rows = fields.rows
<1>1. PICK x : x = [fields EXCEPT !.at = now, !.n = started + 1]
  OBVIOUS
<1>2. started \in 0..MaxStarts /\ started < MaxStarts /\ now \in Times
  BY DEF TypeOK, Start
<1>3. started + 1 \in Ids /\ started + 1 \in 0..MaxStarts
  BY <1>2, Limits DEF Ids
<1>4. /\ x \in Request /\ x.n = started + 1 /\ x.pc = fields.pc /\ x.id = fields.id
      /\ x.rows = fields.rows
  BY <1>1, <1>2, <1>3 DEF Request
<1> QED
  BY <1>1, <1>3, <1>4 DEF Start, Pending

-----------------------------------------------------------------------------
(* The initial states *)

LEMMA InitInv == Init => SignInInv
<1> SUFFICES ASSUME Init PROVE SignInInv
  OBVIOUS
<1>1. 0 \in Times /\ 1 \in Ids /\ 0 \in 0..MaxStarts /\ 1 \in 0..MaxStarts
  BY Limits DEF Times, Ids
<1>2. /\ createSession(0, 0) \in Session
      /\ createSession(0, 0).state = "live" /\ createSession(0, 0).via = 0
      /\ createSession(0, 0).expires <= createSession(0, 0).absolute
      /\ createSession(0, 0).expires <= createSession(0, 0).last + SESSION_IDLE
  BY <1>1, NewSession
<1>3. NoSession \in Session /\ NoSession.state = "none" /\ NoSession.via = 0
  BY Limits DEF NoSession, Session
<1>4. NoChallenge \in Challenge /\ NoChallenge.state = "none"
  BY Limits DEF NoChallenge, Challenge
<1>5. \A i \in Ids : session[i] = IF i = 1 THEN createSession(0, 0) ELSE NoSession
  BY DEF Init
<1>6. \A i \in Ids : challenge[i] = NoChallenge
  BY DEF Init
<1>7. TypeOK
  <2>1. session \in [Ids -> Session]
    BY <1>2, <1>3 DEF Init
  <2>2. challenge \in [Ids -> Challenge]
    BY <1>4 DEF Init
  <2>3. req \in [Requests -> Request]
    BY IdleRequest DEF Init
  <2>4. failures \subseteq Attempt
    BY DEF Init
  <2>5. now \in Times /\ started \in 0..MaxStarts
    BY <1>1 DEF Init
  <2>6. PICK w \in BOOLEAN : password = [version |-> 0, weak |-> w]
    BY DEF Init
  <2>7. password \in [version : 0..MaxStarts, weak : BOOLEAN]
    BY <1>1, <2>6
  <2>8. secret \in 0..MaxStarts + 1 /\ enabled \in BOOLEAN
    BY Limits DEF Init
  <2>9. codes \subseteq 0..MaxStarts /\ spent \subseteq codes
    BY <1>1 DEF Init
  <2> QED
    BY <2>1, <2>2, <2>3, <2>4, <2>5, <2>7, <2>8, <2>9 DEF TypeOK
<1>8. RequestsInOrder /\ NumbersDistinct
  <2>1. \A r \in Requests : req[r] = Idle
    BY DEF Init
  <2> QED
    BY <2>1, IdleRequest DEF RequestsInOrder, NumbersDistinct, Context, Pending
<1>9. Unused
  BY <1>3, <1>4, <1>5, <1>6 DEF Unused, Init, Ids
<1>10. SessionsSound
  BY <1>2, <1>3, <1>5 DEF SessionsSound, Sound
<1> QED
  BY <1>7, <1>8, <1>9, <1>10 DEF SignInInv

-----------------------------------------------------------------------------
(* Steps *)

\* Rows appear under number n only, and challenges that are gone stay gone.
RowsGrow(n) ==
    /\ \A i \in Ids :
          /\ session[i].state # "none" => session'[i].state # "none"
          /\ challenge[i].state = "live" => challenge'[i].state \in {"live", "gone"}
          /\ challenge[i].state = "gone" => challenge'[i].state = "gone"
          /\ i # n /\ session[i].state = "none" => session'[i].state = "none"
          /\ i # n /\ challenge[i].state = "none" => challenge'[i].state = "none"
    /\ secret' = 0 => secret = 0 \/ \A i \in Ids : challenge'[i].state # "live"

LEMMA RowsStay ==
    ASSUME TypeOK, UNCHANGED <<session, challenge>>, secret' # 0 \/ secret' = secret, NEW n
    PROVE  RowsGrow(n)
<1>1. \A i \in Ids : challenge[i].state \in {"none", "live", "gone"}
  BY DEF TypeOK, Challenge
<1> QED
  BY <1>1 DEF RowsGrow

\* A request that goes on or waits keeps its context when another one writes.
LEMMA ContextStays ==
    ASSUME SignInInv, NEW q \in Request, Context(q), NEW n, RowsGrow(n),
           started' \in {started, started + 1}, Pending(q) => q.n # n
    PROVE  Context(q)'
<1>1. /\ started \in Nat /\ started <= MaxStarts
      /\ \A i \in Ids : challenge[i].state \in {"none", "live", "gone"}
  BY Limits DEF SignInInv, TypeOK, Challenge
<1>2. Pending(q) => q.n \in Ids /\ q.n \in 1..started'
  BY <1>1, Limits DEF Context, Ids
<1>3. Pending(q) => session'[q.n].state = "none" /\ challenge'[q.n].state = "none"
  BY <1>2 DEF Context, RowsGrow
<1>4. q.pc = "refreshing" => session'[q.id].state # "none"
  BY DEF Context, RowsGrow
<1>5. q.pc \in {"passing", "refusing"} => challenge'[q.id].state # "none"
  BY <1>1 DEF Context, RowsGrow
<1>6. q.pc = "passing" /\ q.rows = {} /\ challenge'[q.id].state = "live" => secret' # 0
  BY <1>1 DEF Context, RowsGrow
<1> QED
  BY <1>2, <1>3, <1>4, <1>5, <1>6 DEF Context, Pending

\* One request moves on, ends or starts, and writes rows under its number only.
LEMMA OneMoves ==
    ASSUME SignInInv, TypeOK', NEW r \in Requests, NEW x \in Request,
           req' = [req EXCEPT ![r] = x],
           NEW n, RowsGrow(n), n = 0 \/ (Pending(req[r]) /\ n = req[r].n),
           \/ started' = started /\ (Pending(x) => Pending(req[r]) /\ x.n = req[r].n)
           \/ started' = started + 1 /\ x.n = started + 1,
           Context(x)', SessionsSound'
    PROVE  SignInInv'
<1>1. /\ started \in Nat /\ req \in [Requests -> Request] /\ RequestsInOrder
      /\ NumbersDistinct /\ Unused
  BY Limits DEF SignInInv, TypeOK
<1>2. n \in 0..started
  BY <1>1 DEF RequestsInOrder, Context
<1>3. \A s \in Requests : req'[s] = IF s = r THEN x ELSE req[s]
  BY <1>1
<1>4. \A s \in Requests : Pending(req[s]) => req[s].n \in 1..started
  BY <1>1 DEF RequestsInOrder, Context
<1>5. ASSUME NEW s \in Requests \ {r}
      PROVE  Context(req[s])'
  <2>1. PICK q \in Request : q = req[s]
    BY <1>1
  <2>2. Context(q)
    BY <1>1, <2>1 DEF RequestsInOrder
  <2>3. Pending(q) => q.n # n
    BY <1>1, <1>2, <1>4, <2>1 DEF NumbersDistinct
  <2>4. Context(q)'
    BY <1>2, <2>2, <2>3, ContextStays
  <2> QED
    BY <1>3, <2>1, <2>4
<1>6. RequestsInOrder'
  BY <1>3, <1>5 DEF RequestsInOrder
<1>7. NumbersDistinct'
  BY <1>1, <1>3, <1>4 DEF NumbersDistinct, Pending
<1>8. Unused'
  <2> SUFFICES ASSUME NEW i \in Ids, i > started'
               PROVE  session'[i].state = "none" /\ challenge'[i].state = "none"
    BY DEF Unused
  <2>1. i > started /\ i # n /\ i \in Nat
    BY <1>1, <1>2, Limits DEF Ids
  <2> QED
    BY <1>1, <1>2, <2>1 DEF Unused, RowsGrow
<1> QED
  BY <1>6, <1>7, <1>8 DEF SignInInv

\* A request writes nothing that others depend on.
LEMMA QuietMove ==
    ASSUME SignInInv, TypeOK', NEW r \in Requests, NEW x \in Request,
           req' = [req EXCEPT ![r] = x], UNCHANGED <<session, challenge, secret>>,
           \/ started' = started /\ (Pending(x) => Pending(req[r]) /\ x.n = req[r].n)
           \/ started' = started + 1 /\ x.n = started + 1,
           x.pc \notin {"refreshing", "passing", "refusing"} \/ Context(x)'
    PROVE  SignInInv'
<1>1. TypeOK /\ SessionsSound /\ RequestsInOrder /\ Unused /\ started \in Nat
  BY Limits DEF SignInInv, TypeOK
<1>2. RowsGrow(0)
  BY <1>1, RowsStay
<1>3. SessionsSound'
  BY <1>1 DEF SessionsSound, Sound
<1>4. CASE Context(x)'
  BY <1>2, <1>3, <1>4, OneMoves
<1>5. CASE x.pc \notin {"refreshing", "passing", "refusing"}
  <2>1. Pending(x) => /\ x.n \in 1..started'
                      /\ session[x.n].state = "none" /\ challenge[x.n].state = "none"
    <3>1. CASE started' = started /\ (Pending(x) => Pending(req[r]) /\ x.n = req[r].n)
      BY <1>1, <3>1 DEF RequestsInOrder, Context
    <3>2. CASE started' = started + 1 /\ x.n = started + 1
      <4>1. x.n \in Ids
        BY <1>1, <3>2 DEF TypeOK, Ids
      <4> QED
        BY <1>1, <3>2, <4>1 DEF Unused
    <3> QED
      BY <3>1, <3>2
  <2>2. Context(x)'
    BY <1>5, <2>1 DEF Context, Pending
  <2> QED
    BY <1>2, <1>3, <2>2, OneMoves
<1> QED
  BY <1>4, <1>5

\* The throttle, the password check and the housekeeping of one sign-in.
LEMMA SignInSteps ==
    ASSUME SignInInv, NEW r \in Requests,
           \/ VerifyPassword(r) \/ recordLoginAttempt(r) \/ clearEmailFailures(r)
           \/ UpdateUser(r) \/ regenerateRecoveryCodes(r) \/ RecoveryCodesReplaced(r)
    PROVE  SignInInv'
<1>1. TypeOK
  BY DEF SignInInv
<1>2. /\ req \in [Requests -> Request] /\ req[r] \in Request
      /\ password \in [version : 0..MaxStarts, weak : BOOLEAN] /\ enabled \in BOOLEAN
      /\ codes \subseteq 0..MaxStarts /\ spent \subseteq codes
      /\ failures \subseteq Attempt
  BY <1>1 DEF TypeOK
<1>3. ASSUME NEW x \in Request, req' = [req EXCEPT ![r] = x], x.n = req[r].n \/ ~ Pending(x),
             Pending(req[r]), x.pc \notin {"refreshing", "passing", "refusing"},
             UNCHANGED <<now, secret, session, challenge, started>>,
             failures' \subseteq Attempt, enabled' \in BOOLEAN,
             password' \in [version : 0..MaxStarts, weak : BOOLEAN],
             codes' \subseteq 0..MaxStarts, spent' \subseteq codes'
      PROVE  SignInInv'
  <2>1. req' \in [Requests -> Request]
    BY <1>2, <1>3
  <2>2. TypeOK'
    BY <1>1, <1>3, <2>1 DEF TypeOK
  <2> QED
    BY <1>3, <2>2, QuietMove
<1>4. CASE VerifyPassword(r)
  <2>1. PICK x : x = IF req[r].guess = password.version
                     THEN [req[r] EXCEPT !.pc = "verified",
                              !.seen = [Unseen EXCEPT !.weak = password.weak, !.enabled = enabled]]
                     ELSE [req[r] EXCEPT !.pc = "failing"]
    OBVIOUS
  <2>2. [Unseen EXCEPT !.weak = password.weak, !.enabled = enabled]
           \in [weak : BOOLEAN, enabled : BOOLEAN, attempts : Nat]
    BY <1>2 DEF Unseen
  <2>3. x \in Request /\ x.n = req[r].n /\ x.pc \in {"verified", "failing"}
    BY <1>2, <2>1, <2>2 DEF Request
  <2>4. req' = [req EXCEPT ![r] = x]
    BY <1>4, <2>1 DEF VerifyPassword
  <2> QED
    BY <1>2, <1>3, <1>4, <2>3, <2>4 DEF VerifyPassword, account, Pending
<1>5. CASE recordLoginAttempt(r)
  <2>1. req[r].at \in Times /\ req[r].n \in 0..MaxStarts
    BY <1>2 DEF Request
  <2>2. failures' \subseteq Attempt
    BY <1>2, <1>5, <2>1 DEF recordLoginAttempt, Attempt
  <2> QED
    BY <1>2, <1>3, <1>5, <2>2, IdleRequest DEF recordLoginAttempt, account, Pending
<1>6. CASE clearEmailFailures(r) \/ UpdateUser(r)
  <2>1. PICK pc \in {"cleared", "updated"} : req' = [req EXCEPT ![r].pc = pc]
    BY <1>6 DEF clearEmailFailures, UpdateUser
  <2>2. PICK x : x = [req[r] EXCEPT !.pc = pc]
    OBVIOUS
  <2>3. x \in Request /\ x.n = req[r].n /\ x.pc = pc
    BY <1>2, <2>2 DEF Request
  <2>4. req' = [req EXCEPT ![r] = x]
    BY <1>2, <2>1, <2>2
  <2>5. failures' \subseteq Attempt
    BY <1>2, <1>6 DEF clearEmailFailures, UpdateUser
  <2>6. password' \in [version : 0..MaxStarts, weak : BOOLEAN]
    <3>1. req[r].guess \in 0..MaxStarts
      BY <1>2 DEF Request
    <3>2. password' = password \/ password' = [version |-> req[r].guess, weak |-> FALSE]
      BY <1>6 DEF clearEmailFailures, UpdateUser, account
    <3>3. [version |-> req[r].guess, weak |-> FALSE] \in [version : 0..MaxStarts, weak : BOOLEAN]
      BY <3>1
    <3> QED
      BY <1>2, <3>2, <3>3
  <2> QED
    BY <1>2, <1>3, <1>6, <2>3, <2>4, <2>5, <2>6 DEF clearEmailFailures, UpdateUser, account, Pending
<1>7. CASE regenerateRecoveryCodes(r)
  <2>1. PICK x : x = IF enabled THEN [req[r] EXCEPT !.pc = "replacing", !.rows = codes] ELSE Idle
    OBVIOUS
  <2>2. x \in Request /\ (x.n = req[r].n \/ ~ Pending(x)) /\ x.pc \in {"replacing", "idle"}
    BY <1>2, <2>1, IdleRequest DEF Request
  <2>3. req' = [req EXCEPT ![r] = x]
    BY <1>7, <2>1 DEF regenerateRecoveryCodes
  <2> QED
    BY <1>2, <1>3, <1>7, <2>2, <2>3 DEF regenerateRecoveryCodes, account, Pending
<1>8. CASE RecoveryCodesReplaced(r)
  <2>1. req[r].n \in 0..MaxStarts
    BY <1>2 DEF Request
  <2>2. codes' \subseteq 0..MaxStarts /\ spent' \subseteq codes'
    BY <1>2, <1>8, <2>1 DEF RecoveryCodesReplaced
  <2>3. enabled' \in BOOLEAN
    BY <1>8 DEF RecoveryCodesReplaced
  <2> QED
    BY <1>2, <1>3, <1>8, <2>2, <2>3, IdleRequest DEF RecoveryCodesReplaced, Pending
<1> QED
  BY <1>4, <1>5, <1>6, <1>7, <1>8

\* Requests that start.
LEMMA StartSteps ==
    ASSUME SignInInv, NEW r \in Requests, NEW fields \in Request, Start(r, fields),
           fields.pc = "refreshing" => fields.id \in Ids /\ session[fields.id].state # "none",
           fields.pc \in {"passing", "refusing"} =>
              fields.id \in Ids /\ challenge[fields.id].state # "none",
           fields.pc = "passing" /\ fields.rows = {} => secret # 0
    PROVE  SignInInv'
<1>1. TypeOK /\ Unused /\ started \in Nat
  BY Limits DEF SignInInv, TypeOK
<1>2. /\ started + 1 \in Ids /\ started' = started + 1
      /\ UNCHANGED <<now, account, failures, session, challenge>>
  BY <1>1, Starts
<1>3. PICK x \in Request :
         /\ req' = [req EXCEPT ![r] = x]
         /\ x.n = started + 1 /\ x.pc = fields.pc /\ x.id = fields.id /\ x.rows = fields.rows
  BY <1>1, Starts
<1>4. req' \in [Requests -> Request] /\ started' \in 0..MaxStarts
  BY <1>1, <1>2, <1>3, Limits DEF TypeOK, Ids
<1>5. TypeOK'
  BY <1>1, <1>2, <1>4 DEF TypeOK, account
<1>6. session[x.n].state = "none" /\ challenge[x.n].state = "none"
  BY <1>1, <1>2, <1>3 DEF Unused
<1>7. x.n \in 1..started'
  BY <1>1, <1>2, <1>3
<1>8. Context(x)'
  BY <1>2, <1>3, <1>6, <1>7 DEF Context, account
<1> QED
  BY <1>2, <1>3, <1>5, <1>8, QuietMove DEF account

LEMMA Opening ==
    ASSUME SignInInv, NEW r \in Requests,
           \/ \E g \in Guesses : loginAction(r, g)
           \/ \E i \in Ids :
                 \/ validateSession(r, i) \/ confirmTotpSetup(r, i)
                 \/ \E op \in {"password", "disable", "regenerate"}, g \in Guesses :
                       verifyCurrentPassword(r, i, op, g)
           \/ \E c \in Ids :
                 \/ \E entered \in {"totp", "wrong"} : verifyTotpAction(r, c, entered, 0)
                 \/ \E k \in codes : verifyTotpAction(r, c, "recovery", k)
    PROVE  SignInInv'
<1>1. TypeOK
  BY DEF SignInInv
<1>2. /\ codes \subseteq 0..MaxStarts /\ Guesses \subseteq 0..MaxStarts /\ Ids \subseteq 0..MaxStarts
      /\ 0 \in 0..MaxStarts /\ MaxStarts \in Nat
  <2>1. password.version \in 0..MaxStarts
    BY <1>1 DEF TypeOK
  <2> QED
    BY <1>1, <2>1, Limits DEF TypeOK, Guesses, Ids
<1>3. Idle \in Request
  BY IdleRequest
<1>4. ASSUME NEW g \in Guesses, loginAction(r, g)
      PROVE  SignInInv'
  <2>1. PICK f : f = [Idle EXCEPT !.pc = "checked", !.op = "signin", !.guess = g]
    OBVIOUS
  <2>2. f \in Request /\ f.pc = "checked"
    BY <1>2, <1>3, <2>1 DEF Request
  <2>3. Start(r, f)
    BY <1>4, <2>1 DEF loginAction
  <2> QED
    BY <2>2, <2>3, StartSteps
<1>5. ASSUME NEW i \in Ids, validateSession(r, i)
      PROVE  SignInInv'
  <2>1. PICK f : f = [Idle EXCEPT !.pc = "refreshing", !.op = "validate", !.id = i]
    OBVIOUS
  <2>2. f \in Request /\ f.pc = "refreshing" /\ f.id = i
    BY <1>2, <1>3, <2>1 DEF Request
  <2>3. Start(r, f) /\ session[i].state = "live"
    BY <1>5, <2>1 DEF validateSession, SignedIn, Valid
  <2> QED
    BY <2>2, <2>3, StartSteps
<1>6. ASSUME NEW i \in Ids, confirmTotpSetup(r, i)
      PROVE  SignInInv'
  <2>1. PICK f : f = [Idle EXCEPT !.pc = "replacing", !.op = "confirm", !.id = i, !.rows = codes]
    OBVIOUS
  <2>2. f \in Request /\ f.pc = "replacing"
    BY <1>2, <1>3, <2>1 DEF Request
  <2>3. Start(r, f)
    BY <1>6, <2>1 DEF confirmTotpSetup
  <2> QED
    BY <2>2, <2>3, StartSteps
<1>7. ASSUME NEW i \in Ids, NEW op \in {"password", "disable", "regenerate"},
             NEW g \in Guesses, verifyCurrentPassword(r, i, op, g)
      PROVE  SignInInv'
  <2>1. PICK f : f = [Idle EXCEPT !.op = op, !.id = i, !.guess = g,
                         !.pc = IF g = password.version THEN "proven" ELSE "failing"]
    OBVIOUS
  <2>2. f \in Request /\ f.pc \in {"proven", "failing"}
    BY <1>2, <1>3, <2>1 DEF Request
  <2>3. Start(r, f)
    BY <1>7, <2>1 DEF verifyCurrentPassword
  <2> QED
    BY <2>2, <2>3, StartSteps
<1>8. ASSUME NEW c \in Ids, NEW entered, NEW k \in 0..MaxStarts, verifyTotpAction(r, c, entered, k)
      PROVE  SignInInv'
  <2>1. PICK valid \in BOOLEAN : valid = (\/ entered = "totp" /\ secret # 0
                                          \/ entered = "recovery" /\ k \in codes \ spent)
    OBVIOUS
  <2>2. PICK seen : seen = [Unseen EXCEPT !.attempts = challenge[c].attempts]
    OBVIOUS
  <2>3. PICK f : f = [Idle EXCEPT !.op = "verify", !.id = c,
                         !.pc = IF valid THEN "passing" ELSE "refusing",
                         !.guess = IF valid /\ entered = "recovery" THEN k ELSE 0,
                         !.rows = IF valid /\ entered = "recovery" THEN {k} ELSE {},
                         !.seen = seen]
    OBVIOUS
  <2>4. challenge[c].attempts \in Nat
    BY <1>1, Limits DEF TypeOK, Challenge
  <2>5. seen \in [weak : BOOLEAN, enabled : BOOLEAN, attempts : Nat]
    BY <2>2, <2>4 DEF Unseen
  <2>6. f \in Request
    BY <1>2, <1>3, <2>3, <2>5 DEF Request
  <2>7. f.id = c /\ f.pc = (IF valid THEN "passing" ELSE "refusing")
           /\ f.rows = (IF valid /\ entered = "recovery" THEN {k} ELSE {})
    BY <1>3, <2>3 DEF Request
  <2>8. f.pc = "passing" /\ f.rows = {} => secret # 0
    BY <2>1, <2>7
  <2>9. Start(r, f) /\ challenge[c].state = "live"
    BY <1>8, <2>1, <2>2, <2>3 DEF verifyTotpAction
  <2> QED
    BY <2>6, <2>7, <2>8, <2>9, StartSteps
<1> QED
  BY <1>2, <1>4, <1>5, <1>6, <1>7, <1>8

\* Time passes, a user signs out, or a secret is drawn for the setup page.
LEMMA PlainSteps ==
    ASSUME SignInInv,
           \/ Tick \/ \E i \in Ids : logoutAction(i)
           \/ \E r \in Requests, i \in Ids : startTotpSetup(r, i)
    PROVE  SignInInv'
<1>1. TypeOK /\ RequestsInOrder /\ NumbersDistinct /\ Unused /\ SessionsSound
  BY DEF SignInInv
<1>2. /\ started \in 0..MaxStarts /\ started \in Nat /\ req \in [Requests -> Request]
      /\ session \in [Ids -> Session] /\ challenge \in [Ids -> Challenge]
      /\ \A i \in Ids : challenge[i].state \in {"none", "live", "gone"}
  BY <1>1, Limits DEF TypeOK, Challenge
<1>3. UNCHANGED <<req, challenge>> /\ started' \in {started, started + 1}
  BY DEF Tick, logoutAction, startTotpSetup
<1>4. \A i \in Ids : \/ session'[i] = session[i]
                     \/ /\ session[i].state = "live"
                        /\ session'[i] = [session[i] EXCEPT !.state = "revoked"]
  BY <1>2 DEF Tick, logoutAction, startTotpSetup
<1>5. TypeOK'
  <2>1. CASE Tick
    <3>1. now' \in Times
      BY <1>1, <2>1, Limits DEF Tick, TypeOK, Times
    <3> QED
      BY <1>1, <2>1, <3>1 DEF Tick, TypeOK, account
  <2>2. ASSUME NEW i \in Ids, logoutAction(i)
        PROVE  TypeOK'
    <3>1. PICK x : x = [session[i] EXCEPT !.state = "revoked"]
      OBVIOUS
    <3>2. x \in Session
      BY <1>2, <3>1 DEF Session
    <3>3. session' = [session EXCEPT ![i] = x]
      BY <1>2, <2>2, <3>1 DEF logoutAction
    <3>4. session' \in [Ids -> Session]
      BY <1>2, <3>2, <3>3
    <3> QED
      BY <1>1, <2>2, <3>4 DEF logoutAction, TypeOK, account
  <2>3. ASSUME NEW r \in Requests, NEW i \in Ids, startTotpSetup(r, i)
        PROVE  TypeOK'
    <3>1. started' \in 0..MaxStarts /\ secret' \in 0..MaxStarts + 1
      BY <1>2, <2>3, Limits DEF startTotpSetup
    <3> QED
      BY <1>1, <2>3, <3>1 DEF startTotpSetup, TypeOK
  <2> QED
    BY <2>1, <2>2, <2>3
<1>6. RowsGrow(0)
  <2>1. secret' = secret \/ secret' # 0
    BY <1>2 DEF Tick, logoutAction, startTotpSetup, account
  <2>2. \A i \in Ids : session'[i].state = session[i].state
                          \/ (session[i].state = "live" /\ session'[i].state = "revoked")
    BY <1>2, <1>4 DEF Session
  <2> QED
    BY <1>2, <1>3, <2>1, <2>2 DEF RowsGrow
<1>7. RequestsInOrder'
  <2> SUFFICES ASSUME NEW r \in Requests PROVE Context(req[r])'
    BY DEF RequestsInOrder
  <2>1. PICK q \in Request : q = req[r]
    BY <1>2
  <2>2. Context(q) /\ (Pending(q) => q.n # 0)
    BY <1>1, <2>1 DEF RequestsInOrder, Context
  <2>3. Context(q)'
    BY <1>3, <1>6, <2>2, ContextStays
  <2> QED
    BY <1>3, <2>1, <2>3
<1>8. NumbersDistinct'
  BY <1>1, <1>3 DEF NumbersDistinct
<1>9. Unused'
  <2> SUFFICES ASSUME NEW i \in Ids, i > started'
               PROVE  session'[i].state = "none" /\ challenge'[i].state = "none"
    BY DEF Unused
  <2>1. i > started /\ i # 0
    BY <1>2, <1>3, Limits DEF Ids
  <2> QED
    BY <1>1, <1>6, <2>1 DEF Unused, RowsGrow
<1>10. SessionsSound'
  <2> SUFFICES ASSUME NEW i \in Ids PROVE Sound(session[i])'
    BY DEF SessionsSound
  <2>1. PICK s, t : s = session[i] /\ t = session'[i]
    OBVIOUS
  <2>2. Sound(s) /\ s \in Session
    BY <1>1, <1>2, <2>1 DEF SessionsSound
  <2>3. Sound(t)
    BY <1>4, <2>1, <2>2 DEF Sound, Session
  <2> QED
    BY <1>3, <2>1, <2>3 DEF Sound
<1> QED
  BY <1>5, <1>7, <1>8, <1>9, <1>10 DEF SignInInv

-----------------------------------------------------------------------------
(* Steps that write sessions and challenges *)

\* What a step may do to a session: it never comes back to life, keeps its
\* absolute end, and comes from a challenge that is still there, passed with a
\* factor that is still there.
SessionMoves ==
    \A i \in Ids :
        /\ session'[i].state = "live" => session[i].state \in {"none", "live"}
        /\ session[i].state # "none" => session'[i].absolute = session[i].absolute
        /\ session[i].state = "none" /\ session'[i].via # 0 =>
              /\ challenge[session'[i].via].state = "live"
              /\ secret # 0 \/ codes # {}

LEMMA SessionsStay ==
    ASSUME SignInInv, UNCHANGED session
    PROVE  SessionMoves
BY DEF SignInInv, SessionsSound, Sound, SessionMoves

\* A request ends with its write.
LEMMA Ends ==
    ASSUME SignInInv, NEW r \in Requests, Pending(req[r]),
           req' = [req EXCEPT ![r] = Idle], RowsGrow(req[r].n),
           UNCHANGED <<now, started>>, session' \in [Ids -> Session],
           challenge' \in [Ids -> Challenge], failures' \subseteq Attempt,
           password' \in [version : 0..MaxStarts, weak : BOOLEAN],
           secret' \in 0..MaxStarts + 1, enabled' \in BOOLEAN,
           codes' \subseteq 0..MaxStarts, spent' \subseteq codes', SessionsSound'
    PROVE  SignInInv'
<1>1. TypeOK
  BY DEF SignInInv
<1>2. req' \in [Requests -> Request]
  BY <1>1, IdleRequest DEF TypeOK
<1>3. TypeOK'
  BY <1>1, <1>2 DEF TypeOK
<1>4. Context(Idle)'
  BY IdleRequest DEF Context, Pending
<1> QED
  BY <1>3, <1>4, IdleRequest, OneMoves

\* Sessions stay sound when they keep their bounds and challenges that are gone
\* stay gone.
LEMMA SoundKept ==
    ASSUME SignInInv, NEW s \in Session, Sound(s), NEW t \in Session, NEW n, RowsGrow(n),
           t.via = s.via, t.state = "none" <=> s.state = "none",
           t.state # "none" => t.expires <= t.absolute /\ t.expires <= t.last + SESSION_IDLE
    PROVE  Sound(t)'
<1>1. t.via # 0 => t.via \in Ids
  BY Limits DEF Session, Ids
<1>2. t.via # 0 => challenge'[t.via].state = "gone"
  BY <1>1 DEF Sound, RowsGrow
<1> QED
  BY <1>2 DEF Sound

LEMMA WriteFacts ==
    ASSUME SignInInv, NEW r \in Requests
    PROVE  /\ TypeOK /\ req[r] \in Request /\ session \in [Ids -> Session]
           /\ challenge \in [Ids -> Challenge] /\ failures \subseteq Attempt
           /\ password \in [version : 0..MaxStarts, weak : BOOLEAN]
           /\ secret \in 0..MaxStarts + 1 /\ enabled \in BOOLEAN
           /\ codes \subseteq 0..MaxStarts /\ spent \subseteq codes
           /\ \A i \in Ids : /\ Sound(session[i])
                             /\ challenge[i].state \in {"none", "live", "gone"}
           /\ req[r].at \in Times /\ Context(req[r])
           /\ Pending(req[r]) => /\ req[r].n \in Ids /\ req[r].n \in 0..MaxStarts
                                 /\ session[req[r].n].state = "none"
                                 /\ challenge[req[r].n].state = "none"
<1>1. /\ TypeOK /\ req[r] \in Request /\ session \in [Ids -> Session]
      /\ challenge \in [Ids -> Challenge] /\ failures \subseteq Attempt
      /\ password \in [version : 0..MaxStarts, weak : BOOLEAN]
      /\ secret \in 0..MaxStarts + 1 /\ enabled \in BOOLEAN
      /\ codes \subseteq 0..MaxStarts /\ spent \subseteq codes
      /\ started \in 0..MaxStarts
  BY DEF SignInInv, TypeOK
<1>2. req[r].at \in Times
  BY <1>1 DEF Request
<1>3. Context(req[r])
  BY DEF SignInInv, RequestsInOrder
<1>4. Pending(req[r]) => req[r].n \in Ids /\ req[r].n \in 0..MaxStarts
  BY <1>1, <1>3, Limits DEF Context, Ids
<1>5. \A i \in Ids : /\ Sound(session[i])
                     /\ challenge[i].state \in {"none", "live", "gone"}
  BY <1>1 DEF SignInInv, SessionsSound, Challenge
<1> QED
  BY <1>1, <1>2, <1>3, <1>4, <1>5 DEF Context

LEMMA ChallengeSteps ==
    ASSUME SignInInv, NEW r \in Requests,
           createTotpChallenge(r) \/ CodeRefused(r) \/ disableTotp(r)
    PROVE  SignInInv' /\ SessionMoves
<1>1. /\ TypeOK /\ req[r] \in Request /\ session \in [Ids -> Session]
      /\ challenge \in [Ids -> Challenge] /\ failures \subseteq Attempt
      /\ password \in [version : 0..MaxStarts, weak : BOOLEAN]
      /\ secret \in 0..MaxStarts + 1 /\ enabled \in BOOLEAN
      /\ codes \subseteq 0..MaxStarts /\ spent \subseteq codes
      /\ \A i \in Ids : /\ Sound(session[i])
                        /\ challenge[i].state \in {"none", "live", "gone"}
      /\ req[r].at \in Times /\ Context(req[r])
      /\ Pending(req[r]) => /\ req[r].n \in Ids /\ req[r].n \in 0..MaxStarts
                            /\ session[req[r].n].state = "none"
                            /\ challenge[req[r].n].state = "none"
  BY WriteFacts
<1>2. /\ Pending(req[r]) /\ req' = [req EXCEPT ![r] = Idle]
      /\ UNCHANGED <<now, started, session, failures, password>>
  BY DEF createTotpChallenge, CodeRefused, disableTotp, Pending, account
<1>3. ASSUME RowsGrow(req[r].n)
      PROVE  SessionsSound'
  <2> SUFFICES ASSUME NEW i \in Ids PROVE Sound(session[i])'
    BY DEF SessionsSound
  <2>1. PICK s \in Session : s = session[i]
    BY <1>1
  <2>2. Sound(s)
    BY <1>1, <2>1
  <2>3. s.state # "none" => s.expires <= s.absolute /\ s.expires <= s.last + SESSION_IDLE
    BY <2>2 DEF Sound
  <2>4. Sound(s)'
    BY <1>3, <2>2, <2>3, SoundKept
  <2> QED
    BY <1>2, <2>1, <2>4
<1>4. CASE createTotpChallenge(r)
  <2>1. PICK x : x = [state |-> "live", expires |-> req[r].at + TOTP_CHALLENGE_TTL, attempts |-> 0]
    OBVIOUS
  <2>2. x \in Challenge
    <3>1. req[r].at + TOTP_CHALLENGE_TTL \in Nat /\ 0 \in 0..(TOTP_MAX_CHALLENGE_ATTEMPTS - 1)
      BY <1>1, Limits DEF Times
    <3> QED
      BY <2>1, <3>1 DEF Challenge
  <2>3. challenge' = [challenge EXCEPT ![req[r].n] = x] /\ UNCHANGED account
    BY <1>4, <2>1 DEF createTotpChallenge
  <2>4. challenge' \in [Ids -> Challenge]
    BY <1>1, <2>2, <2>3
  <2>5. RowsGrow(req[r].n)
    BY <1>1, <1>2, <2>3 DEF RowsGrow, account
  <2> QED
    BY <1>1, <1>2, <1>3, <2>3, <2>4, <2>5, Ends, SessionsStay DEF account
<1>5. CASE CodeRefused(r)
  <2>1. req[r].pc = "refusing" /\ req[r].id \in Ids
    BY <1>1, <1>5 DEF CodeRefused, Context
  <2>2. PICK c \in Challenge : c = challenge[req[r].id]
    BY <1>1, <2>1
  <2>3. PICK k : k = req[r].seen.attempts + 1
    OBVIOUS
  <2>4. k \in Nat
    BY <1>1, <2>3 DEF Request
  <2>5. PICK x : x = IF c.state # "live" THEN c
                     ELSE IF k >= TOTP_MAX_CHALLENGE_ATTEMPTS
                     THEN [c EXCEPT !.state = "gone"] ELSE [c EXCEPT !.attempts = k]
    OBVIOUS
  <2>6. /\ x \in Challenge
        /\ x.state = c.state \/ (c.state = "live" /\ x.state = "gone")
    <3>1. ~ k >= TOTP_MAX_CHALLENGE_ATTEMPTS => k \in 0..(TOTP_MAX_CHALLENGE_ATTEMPTS - 1)
      BY <2>4, Limits
    <3> QED
      BY <2>5, <3>1 DEF Challenge
  <2>7. challenge' = [challenge EXCEPT ![req[r].id] = x] /\ UNCHANGED account
    BY <1>1, <1>5, <2>1, <2>2, <2>3, <2>5 DEF CodeRefused, LastAttempt
  <2>8. challenge' \in [Ids -> Challenge]
    BY <1>1, <2>6, <2>7
  <2>9. RowsGrow(req[r].n)
    BY <1>1, <1>2, <2>1, <2>2, <2>6, <2>7 DEF RowsGrow, account
  <2> QED
    BY <1>1, <1>2, <1>3, <2>7, <2>8, <2>9, Ends, SessionsStay DEF account
<1>6. CASE disableTotp(r) /\ ~ enabled
  <2>1. UNCHANGED <<secret, enabled, codes, spent, challenge>>
    BY <1>6 DEF disableTotp
  <2>2. RowsGrow(req[r].n)
    BY <1>1, <1>2, <2>1, RowsStay
  <2> QED
    BY <1>1, <1>2, <1>3, <2>1, <2>2, Ends, SessionsStay
<1>7. CASE disableTotp(r) /\ enabled
  <2>1. /\ secret' = 0 /\ enabled' = FALSE /\ codes' = {} /\ spent' = {}
        /\ challenge' = deleteChallenges
    BY <1>7 DEF disableTotp
  <2>2. ASSUME NEW i \in Ids
        PROVE  /\ challenge'[i] \in Challenge
               /\ challenge[i].state = "none" => challenge'[i].state = "none"
               /\ challenge[i].state # "none" => challenge'[i].state = "gone"
    <3>1. PICK c \in Challenge : c = challenge[i]
      BY <1>1
    <3>2. challenge'[i] = IF c.state = "live" THEN [c EXCEPT !.state = "gone"] ELSE c
      BY <2>1, <3>1 DEF deleteChallenges
    <3> QED
      BY <1>1, <3>1, <3>2 DEF Challenge
  <2>3. challenge' \in [Ids -> Challenge]
    BY <2>1, <2>2 DEF deleteChallenges
  <2>4. \A i \in Ids : challenge'[i].state # "live"
    BY <1>1, <2>2
  <2>5. RowsGrow(req[r].n)
    BY <1>1, <1>2, <2>2, <2>4 DEF RowsGrow
  <2>6. secret' \in 0..MaxStarts + 1
    BY <2>1, Limits
  <2> QED
    BY <1>1, <1>2, <1>3, <2>1, <2>3, <2>5, <2>6, Ends, SessionsStay
<1> QED
  BY <1>4, <1>5, <1>6, <1>7

\* The housekeeping only moves sessions that are over to "purged".
LEMMA Purges ==
    ASSUME NEW rows \in [Ids -> Session], NEW at
    PROVE  /\ purgeDeadSessions(rows, at) \in [Ids -> Session]
           /\ \A i \in Ids :
                 \/ purgeDeadSessions(rows, at)[i] = rows[i]
                 \/ /\ rows[i].state # "none"
                    /\ purgeDeadSessions(rows, at)[i] = [rows[i] EXCEPT !.state = "purged"]
<1>1. \A j \in Ids : [rows[j] EXCEPT !.state = "purged"] \in Session
  BY DEF Session
<1>2. \A j \in Ids : \/ purgeDeadSessions(rows, at)[j] = rows[j]
                     \/ /\ rows[j].state # "none"
                        /\ purgeDeadSessions(rows, at)[j] = [rows[j] EXCEPT !.state = "purged"]
  BY DEF purgeDeadSessions
<1>3. \A j \in Ids : purgeDeadSessions(rows, at)[j] \in Session
  BY <1>1, <1>2
<1>4. purgeDeadSessions(rows, at) = [j \in Ids |-> purgeDeadSessions(rows, at)[j]]
  BY DEF purgeDeadSessions
<1>5. purgeDeadSessions(rows, at) \in [Ids -> Session]
  BY <1>3, <1>4
<1> QED
  BY <1>2, <1>5

LEMMA SessionSteps ==
    ASSUME SignInInv, NEW r \in Requests,
           signIn(r) \/ RefreshSession(r) \/ changePassword(r) \/ verifyTotpChallenge(r)
    PROVE  SignInInv' /\ SessionMoves
<1>1. /\ TypeOK /\ req[r] \in Request /\ session \in [Ids -> Session]
      /\ challenge \in [Ids -> Challenge] /\ failures \subseteq Attempt
      /\ password \in [version : 0..MaxStarts, weak : BOOLEAN]
      /\ secret \in 0..MaxStarts + 1 /\ enabled \in BOOLEAN
      /\ codes \subseteq 0..MaxStarts /\ spent \subseteq codes
      /\ \A i \in Ids : /\ Sound(session[i])
                        /\ challenge[i].state \in {"none", "live", "gone"}
      /\ req[r].at \in Times /\ Context(req[r])
      /\ Pending(req[r]) => /\ req[r].n \in Ids /\ req[r].n \in 0..MaxStarts
                            /\ session[req[r].n].state = "none"
                            /\ challenge[req[r].n].state = "none"
  BY WriteFacts
<1>2. /\ Pending(req[r]) /\ req' = [req EXCEPT ![r] = Idle]
      /\ UNCHANGED <<now, started, secret, enabled, codes>>
  BY DEF signIn, RefreshSession, changePassword, verifyTotpChallenge, Pending, account
<1> DEFINE Held(s, t) ==
              /\ t \in Session /\ t.via = s.via /\ t.absolute = s.absolute
              /\ t.state = "none" <=> s.state = "none"
              /\ t.state = "live" => s.state = "live"
              /\ s.state # "none" =>
                    t.expires <= t.absolute /\ t.expires <= t.last + SESSION_IDLE
<1>3. \A i \in Ids : Held(session[i], session[i])
  BY <1>1 DEF Sound
<1>4. ASSUME NEW s \in Session, s.state # "none", s.expires <= s.absolute,
             s.expires <= s.last + SESSION_IDLE, NEW state \in {"revoked", "purged"}
      PROVE  Held(s, [s EXCEPT !.state = state])
  BY <1>4 DEF Session
<1>5. CASE signIn(r)
  <2>1. PICK x : x = createSession(req[r].at, 0)
    OBVIOUS
  <2>2. /\ x \in Session /\ x.state = "live" /\ x.via = 0 /\ x.expires <= x.absolute
        /\ x.expires <= x.last + SESSION_IDLE
    BY <1>1, <2>1, NewSession, Limits
  <2>3. PICK opened : opened = [session EXCEPT ![req[r].n] = x]
    OBVIOUS
  <2>4. opened \in [Ids -> Session] /\ \A i \in Ids : opened[i] = IF i = req[r].n THEN x ELSE session[i]
    BY <1>1, <1>2, <2>2, <2>3
  <2>5. \/ session' = opened /\ UNCHANGED failures
        \/ /\ session' = purgeDeadSessions(opened, req[r].at)
           /\ failures' = purgeOldAttempts(req[r].at)
    BY <1>5, <2>1, <2>3 DEF signIn
  <2>6. session' \in [Ids -> Session]
    BY <1>1, <2>4, <2>5, Purges
  <2>7. failures' \subseteq Attempt
    BY <1>1, <2>5 DEF purgeOldAttempts
  <2>8. \A i \in Ids : \/ session'[i] = opened[i]
                       \/ /\ opened[i].state # "none"
                          /\ session'[i] = [opened[i] EXCEPT !.state = "purged"]
    BY <2>4, <2>5, Purges
  <2>9. ASSUME NEW i \in Ids, i # req[r].n PROVE Held(session[i], session'[i])
    <3>1. PICK s \in Session : s = session[i] /\ opened[i] = s
      BY <1>1, <2>4, <2>9
    <3>2. s.state # "none" => s.expires <= s.absolute /\ s.expires <= s.last + SESSION_IDLE
      BY <1>1, <3>1 DEF Sound
    <3>3. CASE session'[i] = s
      BY <1>3, <3>1, <3>3
    <3>4. CASE s.state # "none" /\ session'[i] = [s EXCEPT !.state = "purged"]
      BY <1>4, <3>1, <3>2, <3>4
    <3> QED
      BY <2>8, <3>1, <3>3, <3>4
  <2>10. PICK t \in Session : t = session'[req[r].n]
    BY <1>1, <1>2, <2>6
  <2>11. Held(x, t)
    <3>1. opened[req[r].n] = x
      BY <1>1, <1>2, <2>4
    <3>2. t = x \/ t = [x EXCEPT !.state = "purged"]
      BY <1>1, <1>2, <2>8, <2>10, <3>1
    <3> QED
      BY <1>4, <2>2, <3>2
  <2>12. UNCHANGED <<challenge, password, secret, codes, enabled, spent>>
    BY <1>5 DEF signIn, account
  <2>13. RowsGrow(req[r].n)
    BY <1>1, <2>2, <2>9, <2>10, <2>11, <2>12 DEF RowsGrow
  <2>14. SessionsSound'
    <3> SUFFICES ASSUME NEW i \in Ids PROVE Sound(session[i])'
      BY DEF SessionsSound
    <3>1. CASE i = req[r].n
      BY <2>2, <2>10, <2>11, <3>1 DEF Sound
    <3>2. CASE i # req[r].n
      <4>1. PICK s \in Session, y \in Session : s = session[i] /\ y = session'[i]
        BY <1>1, <2>6
      <4>2. Held(s, y)
        BY <2>9, <3>2, <4>1
      <4>3. Sound(s)
        BY <1>1, <4>1
      <4>4. Sound(y)'
        BY <2>13, <4>2, <4>3, SoundKept
      <4> QED
        BY <4>1, <4>4
    <3> QED
      BY <3>1, <3>2
  <2>15. SessionMoves
    <3> SUFFICES ASSUME NEW i \in Ids
                 PROVE  /\ session'[i].state = "live" => session[i].state \in {"none", "live"}
                        /\ session[i].state # "none" => session'[i].absolute = session[i].absolute
                        /\ session[i].state = "none" => session'[i].via = 0
      BY DEF SessionMoves
    <3>1. CASE i = req[r].n
      BY <1>1, <1>2, <2>2, <2>10, <2>11, <3>1
    <3>2. CASE i # req[r].n
      BY <1>1, <2>9, <3>2 DEF Sound
    <3> QED
      BY <3>1, <3>2
  <2> QED
    BY <1>1, <1>2, <2>6, <2>7, <2>12, <2>13, <2>14, <2>15, Ends
<1>6. ASSUME UNCHANGED <<challenge, failures, spent>>, session' \in [Ids -> Session],
             password' \in [version : 0..MaxStarts, weak : BOOLEAN],
             \A i \in Ids : Held(session[i], session'[i])
      PROVE  SignInInv' /\ SessionMoves
  <2>1. RowsGrow(req[r].n)
    BY <1>1, <1>2, <1>6 DEF RowsGrow
  <2>2. SessionsSound'
    <3> SUFFICES ASSUME NEW i \in Ids PROVE Sound(session[i])'
      BY DEF SessionsSound
    <3>1. PICK s \in Session, y \in Session : s = session[i] /\ y = session'[i]
      BY <1>1, <1>6
    <3>2. Held(s, y) /\ Sound(s)
      BY <1>1, <1>6, <3>1
    <3>3. Sound(y)'
      BY <2>1, <3>2, SoundKept
    <3> QED
      BY <3>1, <3>3
  <2>3. SessionMoves
    BY <1>1, <1>6 DEF SessionMoves, Sound
  <2> QED
    BY <1>1, <1>2, <1>6, <2>1, <2>2, <2>3, Ends
<1>7. CASE RefreshSession(r)
  <2>1. req[r].id \in Ids /\ session[req[r].id].state # "none"
    BY <1>1, <1>7 DEF RefreshSession, Context
  <2>2. PICK s \in Session : s = session[req[r].id]
    BY <1>1, <2>1
  <2>3. PICK e : e = RefreshedExpiry(req[r].at, s.absolute)
    OBVIOUS
  <2>4. /\ req[r].at \in Nat /\ s.absolute \in Nat /\ e \in Nat
        /\ e <= req[r].at + SESSION_IDLE /\ e <= s.absolute
    <3>1. req[r].at \in Nat /\ s.absolute \in Nat /\ req[r].at + SESSION_IDLE \in Nat
      BY <1>1, Limits DEF Times, Session
    <3> QED
      BY <2>3, <3>1, Minimum DEF RefreshedExpiry
  <2>5. PICK x : x = IF s.state = "purged" THEN s ELSE [s EXCEPT !.last = req[r].at, !.expires = e]
    OBVIOUS
  <2>6. session' = [session EXCEPT ![req[r].id] = x]
    BY <1>7, <2>2, <2>3, <2>5 DEF RefreshSession
  <2>7. Held(s, x)
    <3>1. CASE s.state = "purged"
      BY <1>3, <2>1, <2>2, <2>5, <3>1
    <3>2. CASE s.state # "purged"
      BY <2>4, <2>5, <3>2 DEF Session
    <3> QED
      BY <3>1, <3>2
  <2>8. session' \in [Ids -> Session]
    BY <1>1, <2>6, <2>7
  <2>9. \A i \in Ids : Held(session[i], session'[i])
    <3> SUFFICES ASSUME NEW i \in Ids PROVE Held(session[i], session'[i])
      OBVIOUS
    <3>1. CASE i = req[r].id
      BY <1>1, <2>2, <2>6, <2>7, <3>1
    <3>2. CASE i # req[r].id
      BY <1>1, <1>3, <2>6, <3>2
    <3> QED
      BY <3>1, <3>2
  <2>10. UNCHANGED <<challenge, failures, spent, password>>
    BY <1>7 DEF RefreshSession, account
  <2> QED
    BY <1>1, <1>6, <2>8, <2>9, <2>10
<1>8. CASE changePassword(r)
  <2>1. /\ session' = revokeAllSessions(req[r].id) /\ UNCHANGED <<challenge, failures, spent>>
        /\ password' = [version |-> req[r].n, weak |-> FALSE]
    BY <1>8 DEF changePassword
  <2>2. password' \in [version : 0..MaxStarts, weak : BOOLEAN]
    BY <1>1, <1>2, <2>1
  <2>3. ASSUME NEW i \in Ids PROVE Held(session[i], session'[i])
    <3>1. PICK s \in Session : s = session[i]
      BY <1>1
    <3>2. session'[i] = s \/ (s.state = "live" /\ session'[i] = [s EXCEPT !.state = "revoked"])
      BY <2>1, <3>1 DEF revokeAllSessions
    <3>3. s.state # "none" => s.expires <= s.absolute /\ s.expires <= s.last + SESSION_IDLE
      BY <1>1, <3>1 DEF Sound
    <3> QED
      BY <1>3, <1>4, <3>1, <3>2, <3>3
  <2>4. session' \in [Ids -> Session]
    BY <2>1, <2>3 DEF revokeAllSessions
  <2> QED
    BY <1>6, <2>1, <2>2, <2>3, <2>4
<1>9. CASE verifyTotpChallenge(r) /\ TransactionFails(req[r])
  <2>1. UNCHANGED <<challenge, session, spent, failures, password>>
    BY <1>9 DEF verifyTotpChallenge
  <2> QED
    BY <1>1, <1>3, <1>6, <2>1
<1>10. CASE verifyTotpChallenge(r) /\ ~ TransactionFails(req[r])
  <2>1. /\ req[r].pc = "passing"
        /\ challenge' = [challenge EXCEPT ![req[r].id].state = "gone"]
        /\ spent' = spent \cup req[r].rows
        /\ session' = [session EXCEPT ![req[r].n] = createSession(req[r].at, req[r].id)]
        /\ UNCHANGED <<failures, password>>
    BY <1>10 DEF verifyTotpChallenge
  <2>2. PICK c : c = req[r].id
    OBVIOUS
  <2>3. c \in Ids /\ challenge[c].state = "live" /\ req[r].rows \subseteq codes
    BY <1>1, <1>10, <2>1, <2>2 DEF TransactionFails, Context
  <2>4. secret # 0 \/ codes # {}
    BY <1>1, <2>1, <2>2, <2>3 DEF Context
  <2>5. c \in 0..MaxStarts /\ c # 0
    BY <2>3, Limits DEF Ids
  <2>6. PICK x : x = createSession(req[r].at, c)
    OBVIOUS
  <2>7. /\ x \in Session /\ x.state = "live" /\ x.via = c /\ x.expires <= x.absolute
        /\ x.expires <= x.last + SESSION_IDLE
    BY <1>1, <2>5, <2>6, NewSession
  <2>8. PICK y : y = [challenge[c] EXCEPT !.state = "gone"]
    OBVIOUS
  <2>9. y \in Challenge /\ y.state = "gone"
    BY <1>1, <2>3, <2>8 DEF Challenge
  <2>10. challenge' = [challenge EXCEPT ![c] = y] /\ challenge' \in [Ids -> Challenge]
    BY <1>1, <2>1, <2>2, <2>3, <2>8, <2>9
  <2>11. session' = [session EXCEPT ![req[r].n] = x] /\ session' \in [Ids -> Session]
    BY <1>1, <2>1, <2>2, <2>6, <2>7
  <2>12. \A i \in Ids : session'[i] = IF i = req[r].n THEN x ELSE session[i]
    BY <1>1, <2>11
  <2>13. \A i \in Ids : challenge'[i] = IF i = c THEN y ELSE challenge[i]
    BY <1>1, <2>10
  <2>14. RowsGrow(req[r].n)
    BY <1>1, <1>2, <2>3, <2>7, <2>9, <2>12, <2>13 DEF RowsGrow
  <2>15. SessionsSound'
    <3> SUFFICES ASSUME NEW i \in Ids PROVE Sound(session[i])'
      BY DEF SessionsSound
    <3>1. CASE i = req[r].n
      BY <2>3, <2>7, <2>9, <2>12, <2>13, <3>1 DEF Sound
    <3>2. CASE i # req[r].n
      <4>1. PICK s \in Session : s = session[i] /\ s = session'[i]
        BY <1>1, <2>12, <3>2
      <4>2. Sound(s)
        BY <1>1, <4>1
      <4>3. Sound(s)'
        BY <2>14, <4>2, SoundKept DEF Sound
      <4> QED
        BY <4>1, <4>3
    <3> QED
      BY <3>1, <3>2
  <2>16. SessionMoves
    BY <1>1, <1>2, <2>3, <2>4, <2>7, <2>12 DEF SessionMoves, Sound
  <2>17. spent' \subseteq codes'
    BY <1>1, <1>2, <2>1, <2>3
  <2> QED
    BY <1>1, <1>2, <2>1, <2>10, <2>11, <2>14, <2>15, <2>16, <2>17, Ends
<1> QED
  BY <1>5, <1>7, <1>8, <1>9, <1>10

-----------------------------------------------------------------------------
(* The theorems *)

LEMMA NextInv ==
    ASSUME SignInInv, [Next]_vars
    PROVE  SignInInv' /\ SessionMoves
<1>1. CASE UNCHANGED vars
  <2>1. SignInInv'
    BY <1>1 DEF vars, SignInInv, TypeOK, RequestsInOrder, NumbersDistinct, Unused, SessionsSound,
                Context, Sound
  <2> QED
    BY <1>1, <2>1, SessionsStay DEF vars
<1>2. CASE \/ Tick \/ \E i \in Ids : logoutAction(i)
           \/ \E r \in Requests, i \in Ids : startTotpSetup(r, i)
  <2>1. SessionMoves
    <3>1. session \in [Ids -> Session] /\ \A i \in Ids : Sound(session[i])
      BY DEF SignInInv, TypeOK, SessionsSound
    <3>2. CASE UNCHANGED session
      BY <3>2, SessionsStay
    <3>3. ASSUME NEW i \in Ids, logoutAction(i) PROVE SessionMoves
      <4>1. PICK s \in Session : s = session[i]
        BY <3>1
      <4>2. PICK t : t = [s EXCEPT !.state = "revoked"]
        OBVIOUS
      <4>3. t.state = "revoked" /\ t.absolute = s.absolute /\ s.state = "live"
        BY <3>3, <4>1, <4>2 DEF Session, logoutAction
      <4>4. \A j \in Ids : session'[j] = IF j = i THEN t ELSE session[j]
        BY <3>1, <3>3, <4>1, <4>2 DEF logoutAction
      <4> QED
        BY <3>1, <4>1, <4>3, <4>4 DEF SessionMoves, Sound
    <3> QED
      BY <1>2, <3>2, <3>3 DEF Tick, startTotpSetup
  <2> QED
    BY <1>2, <2>1, PlainSteps
<1>3. ASSUME NEW r \in Requests,
             \/ VerifyPassword(r) \/ recordLoginAttempt(r) \/ clearEmailFailures(r)
             \/ UpdateUser(r) \/ regenerateRecoveryCodes(r) \/ RecoveryCodesReplaced(r)
      PROVE  SignInInv' /\ SessionMoves
  <2>1. UNCHANGED session
    BY <1>3 DEF VerifyPassword, recordLoginAttempt, clearEmailFailures, UpdateUser,
                regenerateRecoveryCodes, RecoveryCodesReplaced
  <2> QED
    BY <1>3, <2>1, SignInSteps, SessionsStay
<1>4. ASSUME NEW r \in Requests,
             \/ \E g \in Guesses : loginAction(r, g)
             \/ \E i \in Ids :
                   \/ validateSession(r, i) \/ confirmTotpSetup(r, i)
                   \/ \E op \in {"password", "disable", "regenerate"}, g \in Guesses :
                         verifyCurrentPassword(r, i, op, g)
             \/ \E c \in Ids :
                   \/ \E entered \in {"totp", "wrong"} : verifyTotpAction(r, c, entered, 0)
                   \/ \E k \in codes : verifyTotpAction(r, c, "recovery", k)
      PROVE  SignInInv' /\ SessionMoves
  <2>1. UNCHANGED session
    BY <1>4 DEF loginAction, validateSession, confirmTotpSetup, verifyCurrentPassword,
                verifyTotpAction, Start
  <2>2. SignInInv'
    BY <1>4, Opening
  <2> QED
    BY <2>1, <2>2, SessionsStay
<1>5. ASSUME NEW r \in Requests, createTotpChallenge(r) \/ CodeRefused(r) \/ disableTotp(r)
      PROVE  SignInInv' /\ SessionMoves
  BY <1>5, ChallengeSteps
<1>6. ASSUME NEW r \in Requests,
             signIn(r) \/ RefreshSession(r) \/ changePassword(r) \/ verifyTotpChallenge(r)
      PROVE  SignInInv' /\ SessionMoves
  BY <1>6, SessionSteps
<1> QED
  BY <1>1, <1>2, <1>3, <1>4, <1>5, <1>6 DEF Next, accountActions

LEMMA Invariance == Spec => []SignInInv
<1>1. SignInInv /\ [Next]_vars => SignInInv'
  BY NextInv
<1> QED
  BY <1>1, InitInv, PTL DEF Spec

\* The account, its sessions, challenges and recovery codes and every request
\* in progress keep their types; spent codes are codes.
THEOREM Typing == Spec => []TypeOK
<1>1. SignInInv => TypeOK
  BY DEF SignInInv
<1> QED
  BY <1>1, Invariance, PTL

\* However refreshes, sign-outs, password changes and housekeeping overlap, a
\* session ends in time and what was revoked stays revoked (validateSession,
\* revokeAllSessions, purgeDeadSessions).
THEOREM SessionsEndInTime == Spec => SessionsEnd
<1> DEFINE Ended ==
              \A i \in Ids :
                 /\ session'[i].state = "live" =>
                       /\ session'[i].expires <= session'[i].absolute
                       /\ session'[i].expires <= session'[i].last + SESSION_IDLE
                       /\ session[i].state \in {"none", "live"}
                 /\ session[i].state # "none" => session'[i].absolute = session[i].absolute
<1>1. ASSUME SignInInv, [Next]_vars PROVE Ended
  <2>1. SessionMoves /\ SignInInv'
    BY <1>1, NextInv
  <2> QED
    BY <2>1 DEF SessionMoves, SignInInv, SessionsSound, Sound
<1>2. SignInInv /\ [Next]_vars => [Ended]_vars
  BY <1>1
<1> QED
  BY <1>2, Invariance, PTL DEF Spec, SessionsEnd

\* However often its form is submitted at once, a challenge opens at most one
\* session, and none once the factors were removed (verifyTotpChallenge,
\* disableTotp).
THEOREM ChallengesOnce == Spec => ChallengesPassedOnce
<1> DEFINE Once ==
              \A i \in Ids : session[i].state = "none" /\ session'[i].via # 0 =>
                 /\ \A j \in Ids : session[j].via # session'[i].via
                 /\ secret # 0 \/ codes # {}
<1>1. ASSUME SignInInv, [Next]_vars PROVE Once
  <2>1. SessionMoves
    BY <1>1, NextInv
  <2>2. \A j \in Ids : session[j].via # 0 => challenge[session[j].via].state = "gone"
    BY <1>1 DEF SignInInv, SessionsSound, Sound
  <2> QED
    BY <2>1, <2>2 DEF SessionMoves
<1>2. SignInInv /\ [Next]_vars => [Once]_vars
  BY <1>1
<1> QED
  BY <1>2, Invariance, PTL DEF Spec, ChallengesPassedOnce

-----------------------------------------------------------------------------
(* The throttle. What a blocked user is told follows from the failures as they *)
(* are. That they stay bounded needs an invariant: each request that passed    *)
(* the check may add one, and the check counts before it adds.                 *)

FailuresSince(u) == {f \in failures : f.at >= u}

LEMMA FailuresFinite ==
    ASSUME TypeOK, NEW S \in SUBSET failures
    PROVE  /\ IsFiniteSet(S) /\ Cardinality(S) \in Nat
           /\ \A T \in SUBSET S : Cardinality(T) \in Nat /\ Cardinality(T) <= Cardinality(S)
<1> DEFINE P == (0..MaxStarts) \X Times
           pair == [f \in failures |-> <<f.n, f.at>>]
<1>1. IsFiniteSet(P)
  <2>1. 0 \in Int /\ MaxStarts \in Int /\ MaxClock \in Int
    BY Limits
  <2>2. IsFiniteSet(0..MaxStarts) /\ IsFiniteSet(Times)
    BY <2>1, FS_Interval DEF Times
  <2> QED
    BY <2>2, FS_Product
<1>2. \A f \in failures : /\ f.n \in 0..MaxStarts /\ f.at \in Times
                          /\ f = [n |-> f.n, at |-> f.at]
  BY DEF TypeOK, Attempt
<1>3. pair \in [failures -> P] /\ \A f, g \in failures : pair[f] = pair[g] => f = g
  BY <1>2
<1>4. pair \in Injection(failures, P)
  <2> HIDE DEF pair, P
  <2> QED
    BY <1>3, Fun_IsInj
<1>5. IsFiniteSet(failures)
  <2> HIDE DEF pair, P
  <2> QED
    BY <1>1, <1>4, FS_Injection
<1>6. IsFiniteSet(S)
  BY <1>5, FS_Subset
<1> QED
  BY <1>6, FS_Subset, FS_CardinalityType

\* A set of times has a latest one.
LEMMA Latest ==
    ASSUME NEW S \in SUBSET Times, S # {}
    PROVE  Max(S) \in S /\ \A y \in S : y <= Max(S)
<1>1. MaxClock \in Nat
  BY Limits
<1> DEFINE T == {MaxClock - u : u \in S}
<1>2. T \subseteq Nat /\ T # {}
  <2>1. \A u \in S : MaxClock - u \in Nat
    BY <1>1 DEF Times
  <2> QED
    BY <2>1
<1>3. PICK x \in T : \A y \in T : ~ (<<y, x>> \in OpToRel(<, Nat))
  <2> HIDE DEF T
  <2> QED
    BY <1>2, NatLessThanWellFounded, WFMin
<1>4. \A y \in T : ~ (y < x)
  BY <1>2, <1>3 DEF OpToRel
<1>5. PICK u \in S : x = MaxClock - u
  OBVIOUS
<1>6. \A y \in S : y <= u
  <2> SUFFICES ASSUME NEW y \in S PROVE y <= u
    OBVIOUS
  <2>1. ~ (MaxClock - y < MaxClock - u)
    BY <1>4, <1>5
  <2>2. y \in Nat /\ u \in Nat
    BY DEF Times
  <2> QED
    BY <1>1, <2>1, <2>2
<1>7. \A y \in S : u >= y
  BY <1>6 DEF Times
<1>8. Max(S) \in S /\ \A y \in S : Max(S) >= y
  BY <1>7 DEF Max
<1> QED
  BY <1>8 DEF Times

\* The failure the waiting time is counted from: as many as the limit are at
\* least as recent, and fewer are more recent.
LEMMA Pivot ==
    ASSUME TypeOK, ~ (FailuresAt(now) < LOGIN_MAX_FAILURES_PER_EMAIL)
    PROVE  /\ NewestFailure(LOGIN_MAX_FAILURES_PER_EMAIL) \in Times
           /\ Cardinality(FailuresSince(NewestFailure(LOGIN_MAX_FAILURES_PER_EMAIL)))
                 >= LOGIN_MAX_FAILURES_PER_EMAIL
           /\ Cardinality(FailuresSince(NewestFailure(LOGIN_MAX_FAILURES_PER_EMAIL) + 1))
                 < LOGIN_MAX_FAILURES_PER_EMAIL
<1>0. PICK k \in Nat \ {0} : k = LOGIN_MAX_FAILURES_PER_EMAIL
  BY LimitAssumption
<1> DEFINE S == {u \in Times : Cardinality(FailuresSince(u)) >= k}
           p == Max(S)
<1>1. p = NewestFailure(LOGIN_MAX_FAILURES_PER_EMAIL)
  BY <1>0 DEF NewestFailure, FailuresSince
<1>2. \A f \in failures : f.at \in Times /\ f.at \in Nat
  BY DEF TypeOK, Attempt, Times
<1>3. FailuresSince(0) = failures
  BY <1>2 DEF FailuresSince
<1>4. 0 \in S
  <2>1. InWindow(now) \in SUBSET failures
    BY DEF InWindow
  <2>2. /\ Cardinality(InWindow(now)) <= Cardinality(failures)
        /\ Cardinality(InWindow(now)) \in Nat /\ Cardinality(failures) \in Nat
    BY <2>1, FailuresFinite
  <2>3. Cardinality(failures) >= k
    BY <1>0, <2>2 DEF FailuresAt
  <2>4. 0 \in Times
    BY Limits DEF Times
  <2> QED
    BY <1>3, <2>3, <2>4
<1>5. p \in S /\ \A u \in S : u <= p
  <2>1. S \in SUBSET Times /\ S # {}
    BY <1>4
  <2> HIDE DEF S
  <2> QED
    BY <2>1, Latest
<1>6. p \in Times /\ Cardinality(FailuresSince(p)) >= k /\ p \in Nat /\ p + 1 \in Nat
  BY <1>5 DEF Times
<1>7. Cardinality(FailuresSince(p + 1)) < k
  <2> HIDE DEF p
  <2>1. Cardinality(FailuresSince(p + 1)) \in Nat
    BY FailuresFinite DEF FailuresSince
  <2>2. CASE p + 1 \in Times
    <3>1. p + 1 \notin S
      BY <1>5, <1>6
    <3> QED
      BY <1>0, <2>1, <2>2, <3>1
  <2>3. CASE p + 1 \notin Times
    <3>1. FailuresSince(p + 1) = {}
      BY <1>2, <1>6, <2>3, Limits DEF FailuresSince, Times
    <3> QED
      BY <3>1, FS_EmptySet
  <2> QED
    BY <2>2, <2>3
<1> HIDE DEF p
<1> QED
  BY <1>0, <1>1, <1>6, <1>7

LEMMA Maximum ==
    ASSUME NEW a \in Int, NEW b \in Int
    PROVE  /\ Max({a, b}) \in {a, b} /\ Max({a, b}) \in Int
           /\ Max({a, b}) >= a /\ Max({a, b}) >= b
<1>1. \E x \in {a, b} : \A y \in {a, b} : x >= y
  <2>1. CASE a >= b
    BY <2>1
  <2>2. CASE b >= a
    BY <2>2
  <2> QED
    BY <2>1, <2>2
<1>2. Max({a, b}) \in {a, b} /\ \A y \in {a, b} : Max({a, b}) >= y
  BY <1>1 DEF Max
<1> QED
  BY <1>2

\* The waiting time of a blocked user, and when there is none.
LEMMA Waiting ==
    ASSUME TypeOK
    PROVE  /\ FailuresAt(now) < LOGIN_MAX_FAILURES_PER_EMAIL => secondsUntilUnblocked = 0
           /\ ~ (FailuresAt(now) < LOGIN_MAX_FAILURES_PER_EMAIL) =>
                 \E p \in Nat :
                    /\ p = NewestFailure(LOGIN_MAX_FAILURES_PER_EMAIL)
                    /\ secondsUntilUnblocked \in {1, p + LOGIN_WINDOW - now}
                    /\ secondsUntilUnblocked \in Nat /\ secondsUntilUnblocked >= 1
                    /\ secondsUntilUnblocked >= p + LOGIN_WINDOW - now
<1>1. ASSUME ~ (FailuresAt(now) < LOGIN_MAX_FAILURES_PER_EMAIL)
      PROVE  \E p \in Nat :
                /\ p = NewestFailure(LOGIN_MAX_FAILURES_PER_EMAIL)
                /\ secondsUntilUnblocked \in {1, p + LOGIN_WINDOW - now}
                /\ secondsUntilUnblocked \in Nat /\ secondsUntilUnblocked >= 1
                /\ secondsUntilUnblocked >= p + LOGIN_WINDOW - now
  <2>1. PICK p \in Nat : p = NewestFailure(LOGIN_MAX_FAILURES_PER_EMAIL)
    BY <1>1, Pivot DEF Times
  <2>2. secondsUntilUnblocked = Max({1, p + LOGIN_WINDOW - now})
    BY <1>1, <2>1 DEF secondsUntilUnblocked
  <2>3. now \in Nat /\ LOGIN_WINDOW \in Nat
    BY LimitAssumption DEF TypeOK, Times
  <2>4. PICK d \in Int : d = p + LOGIN_WINDOW - now
    BY <2>3
  <2>5. /\ Max({1, d}) \in {1, d} /\ Max({1, d}) \in Int
        /\ Max({1, d}) >= 1 /\ Max({1, d}) >= d
    BY Maximum
  <2>6. secondsUntilUnblocked = Max({1, d})
    BY <2>2, <2>4
  <2> QED
    BY <2>1, <2>4, <2>5, <2>6
<1> QED
  BY <1>1 DEF secondsUntilUnblocked

\* What a blocked user is told is exact.
LEMMA WaitingExact ==
    ASSUME TypeOK, NEW free, free = now + secondsUntilUnblocked, free > now
    PROVE  /\ \A t \in now..(free - 1) : FailuresAt(t) >= LOGIN_MAX_FAILURES_PER_EMAIL
           /\ FailuresAt(free + 1) < LOGIN_MAX_FAILURES_PER_EMAIL
<1>0. PICK k \in Nat \ {0} : k = LOGIN_MAX_FAILURES_PER_EMAIL
  BY LimitAssumption
<1>1. /\ now \in Nat /\ LOGIN_WINDOW \in Nat
      /\ \A f \in failures : f.at \in Nat
  BY LimitAssumption DEF TypeOK, Times, Attempt
<1>2. ~ (FailuresAt(now) < k)
  BY <1>0, <1>1, Waiting
<1>3. PICK p \in Nat :
         /\ p = NewestFailure(k)
         /\ secondsUntilUnblocked \in {1, p + LOGIN_WINDOW - now}
         /\ secondsUntilUnblocked \in Nat /\ secondsUntilUnblocked >= 1
         /\ secondsUntilUnblocked >= p + LOGIN_WINDOW - now
  BY <1>0, <1>2, Waiting
<1>4. Cardinality(FailuresSince(p)) >= k /\ Cardinality(FailuresSince(p + 1)) < k
  BY <1>0, <1>2, <1>3, Pivot
<1>5. ASSUME NEW t \in now..(free - 1) PROVE FailuresAt(t) >= k
  <2>1. CASE t = now
    <3>1. FailuresAt(now) \in Nat
      BY FailuresFinite DEF FailuresAt, InWindow
    <3> QED
      BY <1>0, <1>2, <2>1, <3>1
  <2>2. CASE t # now
    <3>1. t <= p + LOGIN_WINDOW /\ t \in Nat
      BY <1>1, <1>3, <2>2
    <3>2. FailuresSince(p) \in SUBSET InWindow(t)
      BY <1>1, <3>1 DEF FailuresSince, InWindow
    <3>3. InWindow(t) \in SUBSET failures
      BY DEF InWindow
    <3>4. /\ Cardinality(FailuresSince(p)) <= Cardinality(InWindow(t))
          /\ Cardinality(FailuresSince(p)) \in Nat /\ Cardinality(InWindow(t)) \in Nat
      BY <3>2, <3>3, FailuresFinite
    <3> QED
      BY <1>0, <1>4, <3>4 DEF FailuresAt
  <2> QED
    BY <2>1, <2>2
<1>6. FailuresAt(free + 1) < k
  <2>1. free + 1 \in Nat /\ free + 1 >= p + 1 + LOGIN_WINDOW
    BY <1>1, <1>3
  <2>2. InWindow(free + 1) \in SUBSET FailuresSince(p + 1)
    BY <1>1, <2>1 DEF FailuresSince, InWindow
  <2>3. FailuresSince(p + 1) \in SUBSET failures
    BY DEF FailuresSince
  <2>4. /\ Cardinality(InWindow(free + 1)) <= Cardinality(FailuresSince(p + 1))
        /\ Cardinality(FailuresSince(p + 1)) \in Nat /\ Cardinality(InWindow(free + 1)) \in Nat
    BY <2>2, <2>3, FailuresFinite
  <2> QED
    BY <1>0, <1>4, <2>4 DEF FailuresAt
<1> QED
  BY <1>0, <1>5, <1>6


\* Requests that passed the check and whose failure is not recorded yet.
Tries == {r \in Requests : req[r].pc \in {"checked", "failing"}}

ThrottleInv ==
    FailuresAt(now) + Cardinality(Tries)
        < LOGIN_MAX_FAILURES_PER_EMAIL + Cardinality(Requests)

LEMMA SomeRequests ==
    ASSUME NEW T \in SUBSET Requests
    PROVE  /\ IsFiniteSet(T) /\ Cardinality(T) \in Nat /\ Cardinality(Requests) \in Nat
           /\ Cardinality(T) <= Cardinality(Requests)
           /\ \A U \in SUBSET T : Cardinality(U) \in Nat /\ Cardinality(U) <= Cardinality(T)
<1>1. IsFiniteSet(Requests)
  BY LimitAssumption
<1>2. IsFiniteSet(T) /\ Cardinality(T) <= Cardinality(Requests)
  BY <1>1, FS_Subset
<1>3. \A U \in SUBSET T : IsFiniteSet(U) /\ Cardinality(U) <= Cardinality(T)
  BY <1>2, FS_Subset
<1> QED
  BY <1>1, <1>2, <1>3, FS_CardinalityType

\* Time passes, failures are forgotten, requests are over: the count only falls.
LEMMA ThrottleEases ==
    ASSUME TypeOK, ThrottleInv, now' \in {now, now + 1}, failures' \subseteq failures,
           Tries' \subseteq Tries
    PROVE  ThrottleInv'
<1>1. /\ now \in Nat /\ LOGIN_WINDOW \in Nat /\ LOGIN_MAX_FAILURES_PER_EMAIL \in Nat
      /\ \A f \in failures : f.at \in Nat
  BY LimitAssumption DEF TypeOK, Times, Attempt
<1>2. PICK W : W = {f \in failures' : f.at + LOGIN_WINDOW >= now'}
  OBVIOUS
<1>3. PICK V \in SUBSET failures : V = InWindow(now)
  BY DEF InWindow
<1>4. W \in SUBSET V
  BY <1>1, <1>2, <1>3 DEF InWindow
<1>5. Cardinality(W) \in Nat /\ Cardinality(V) \in Nat /\ Cardinality(W) <= Cardinality(V)
  BY <1>4, FailuresFinite
<1>6. PICK T \in SUBSET Requests : T = Tries
  BY DEF Tries
<1>7. PICK U \in SUBSET T : U = Tries'
  BY <1>6
<1>8. /\ Cardinality(U) \in Nat /\ Cardinality(T) \in Nat /\ Cardinality(Requests) \in Nat
      /\ Cardinality(U) <= Cardinality(T)
  BY SomeRequests
<1>9. Cardinality(V) + Cardinality(T) < LOGIN_MAX_FAILURES_PER_EMAIL + Cardinality(Requests)
  BY <1>3, <1>6 DEF ThrottleInv, FailuresAt
<1>10. Cardinality(W) + Cardinality(U) < LOGIN_MAX_FAILURES_PER_EMAIL + Cardinality(Requests)
  BY <1>1, <1>5, <1>8, <1>9
<1> QED
  BY <1>2, <1>7, <1>10 DEF ThrottleInv, FailuresAt, InWindow

\* A recorded failure is one request less that may still fail.
LEMMA ThrottleRecords ==
    ASSUME TypeOK, ThrottleInv, NEW r \in Requests, recordLoginAttempt(r)
    PROVE  ThrottleInv'
<1>1. LOGIN_MAX_FAILURES_PER_EMAIL \in Nat
  BY LimitAssumption
<1>2. PICK x : x = [n |-> req[r].n, at |-> req[r].at]
  OBVIOUS
<1>3. PICK W : W = {f \in failures' : f.at + LOGIN_WINDOW >= now}
  OBVIOUS
<1>4. PICK V \in SUBSET failures : V = InWindow(now)
  BY DEF InWindow
<1>5. W \in SUBSET (V \cup {x})
  BY <1>2, <1>3, <1>4 DEF InWindow, recordLoginAttempt
<1>6. IsFiniteSet(V) /\ Cardinality(V) \in Nat
  BY FailuresFinite
<1>7. /\ IsFiniteSet(V \cup {x})
      /\ Cardinality(V \cup {x}) = IF x \in V THEN Cardinality(V) ELSE Cardinality(V) + 1
  BY <1>6, FS_AddElement
<1>8. IsFiniteSet(W) /\ Cardinality(W) <= Cardinality(V \cup {x})
  BY <1>5, <1>7, FS_Subset
<1>9. Cardinality(W) \in Nat
  BY <1>8, FS_CardinalityType
<1>10. Cardinality(W) <= Cardinality(V) + 1
  BY <1>6, <1>7, <1>8, <1>9
<1>11. PICK T \in SUBSET Requests : T = Tries
  BY DEF Tries
<1>12. IsFiniteSet(T) /\ Cardinality(T) \in Nat /\ Cardinality(Requests) \in Nat
  BY SomeRequests
<1>13. r \in T
  BY <1>11 DEF Tries, recordLoginAttempt
<1>14. Tries' = T \ {r}
  BY <1>11, IdleRequest DEF Tries, recordLoginAttempt, TypeOK
<1>15. Cardinality(T \ {r}) = Cardinality(T) - 1
  BY <1>12, <1>13, FS_RemoveElement
<1>16. Cardinality(V) + Cardinality(T) < LOGIN_MAX_FAILURES_PER_EMAIL + Cardinality(Requests)
  BY <1>4, <1>11 DEF ThrottleInv, FailuresAt
<1>17. Cardinality(W) + Cardinality(T \ {r})
          < LOGIN_MAX_FAILURES_PER_EMAIL + Cardinality(Requests)
  BY <1>1, <1>6, <1>9, <1>10, <1>12, <1>15, <1>16
<1>18. now' = now
  BY DEF recordLoginAttempt
<1> QED
  BY <1>3, <1>14, <1>17, <1>18 DEF ThrottleInv, FailuresAt, InWindow

\* Who passes the check finds room: even if every request fails, the last of
\* them was let in below the limit.
LEMMA ThrottleAdmits ==
    ASSUME TypeOK, checkLoginThrottle, UNCHANGED <<now, failures>>
    PROVE  ThrottleInv'
<1>1. LOGIN_MAX_FAILURES_PER_EMAIL \in Nat
  BY LimitAssumption
<1>2. FailuresAt(now) \in Nat
  BY FailuresFinite DEF FailuresAt, InWindow
<1>3. FailuresAt(now) < LOGIN_MAX_FAILURES_PER_EMAIL
  BY Waiting DEF checkLoginThrottle
<1>4. PICK U \in SUBSET Requests : U = Tries'
  BY DEF Tries
<1>5. /\ Cardinality(U) \in Nat /\ Cardinality(Requests) \in Nat
      /\ Cardinality(U) <= Cardinality(Requests)
  BY SomeRequests
<1>6. FailuresAt(now)' = FailuresAt(now)
  BY DEF FailuresAt, InWindow
<1>7. FailuresAt(now) + Cardinality(U) < LOGIN_MAX_FAILURES_PER_EMAIL + Cardinality(Requests)
  BY <1>1, <1>2, <1>3, <1>5
<1> QED
  BY <1>4, <1>6, <1>7 DEF ThrottleInv

LEMMA TriesFewer ==
    ASSUME TypeOK, NEW r \in Requests, NEW x, req' = [req EXCEPT ![r] = x],
           x.pc \in {"checked", "failing"} => req[r].pc \in {"checked", "failing"}
    PROVE  Tries' \subseteq Tries
BY DEF TypeOK, Tries

\* Requests that start without a password to try.
LEMMA OtherStarts ==
    ASSUME TypeOK, NEW r \in Requests,
           \/ \E i \in Ids : validateSession(r, i) \/ confirmTotpSetup(r, i)
           \/ \E c \in Ids :
                 \/ \E entered \in {"totp", "wrong"} : verifyTotpAction(r, c, entered, 0)
                 \/ \E k \in codes : verifyTotpAction(r, c, "recovery", k)
    PROVE  Tries' \subseteq Tries
<1>1. Idle \in Request /\ 0 \in 0..MaxStarts
  BY IdleRequest, Limits
<1>2. codes \subseteq 0..MaxStarts /\ Ids \subseteq 0..MaxStarts
  BY Limits DEF TypeOK, Ids
<1>3. ASSUME NEW f \in Request, f.pc \notin {"checked", "failing"}, Start(r, f)
      PROVE  Tries' \subseteq Tries
  BY <1>3, Starts, TriesFewer
<1>4. ASSUME NEW i \in Ids, validateSession(r, i)
      PROVE  Tries' \subseteq Tries
  <2>1. PICK f : f = [Idle EXCEPT !.pc = "refreshing", !.op = "validate", !.id = i]
    OBVIOUS
  <2>2. f \in Request /\ f.pc = "refreshing"
    BY <1>1, <1>2, <2>1 DEF Request
  <2>3. Start(r, f)
    BY <1>4, <2>1 DEF validateSession
  <2> QED
    BY <1>3, <2>2, <2>3
<1>5. ASSUME NEW i \in Ids, confirmTotpSetup(r, i)
      PROVE  Tries' \subseteq Tries
  <2>1. PICK f : f = [Idle EXCEPT !.pc = "replacing", !.op = "confirm", !.id = i, !.rows = codes]
    OBVIOUS
  <2>2. f \in Request /\ f.pc = "replacing"
    BY <1>1, <1>2, <2>1 DEF Request
  <2>3. Start(r, f)
    BY <1>5, <2>1 DEF confirmTotpSetup
  <2> QED
    BY <1>3, <2>2, <2>3
<1>6. ASSUME NEW c \in Ids, NEW entered, NEW k \in 0..MaxStarts, verifyTotpAction(r, c, entered, k)
      PROVE  Tries' \subseteq Tries
  <2>1. PICK valid \in BOOLEAN : valid = (\/ entered = "totp" /\ secret # 0
                                          \/ entered = "recovery" /\ k \in codes \ spent)
    OBVIOUS
  <2>2. PICK seen : seen = [Unseen EXCEPT !.attempts = challenge[c].attempts]
    OBVIOUS
  <2>3. PICK f : f = [Idle EXCEPT !.op = "verify", !.id = c,
                         !.pc = IF valid THEN "passing" ELSE "refusing",
                         !.guess = IF valid /\ entered = "recovery" THEN k ELSE 0,
                         !.rows = IF valid /\ entered = "recovery" THEN {k} ELSE {},
                         !.seen = seen]
    OBVIOUS
  <2>4. challenge[c].attempts \in Nat
    BY Limits DEF TypeOK, Challenge
  <2>5. seen \in [weak : BOOLEAN, enabled : BOOLEAN, attempts : Nat]
    BY <2>2, <2>4 DEF Unseen
  <2>6. f \in Request
    BY <1>1, <1>2, <2>3, <2>5 DEF Request
  <2>7. f.pc \in {"passing", "refusing"}
    BY <1>1, <2>3 DEF Request
  <2>8. Start(r, f)
    BY <1>6, <2>1, <2>2, <2>3 DEF verifyTotpAction
  <2> QED
    BY <1>3, <2>6, <2>7, <2>8
<1> QED
  BY <1>1, <1>2, <1>4, <1>5, <1>6

LEMMA ThrottleStep ==
    ASSUME TypeOK, ThrottleInv, [Next]_vars
    PROVE  ThrottleInv'
<1>1. CASE \/ UNCHANGED vars \/ Tick \/ \E i \in Ids : logoutAction(i)
           \/ \E r \in Requests, i \in Ids : startTotpSetup(r, i)
  <2>1. now' \in {now, now + 1} /\ UNCHANGED <<failures, req>>
    BY <1>1 DEF vars, Tick, logoutAction, startTotpSetup
  <2>2. Tries' \subseteq Tries
    BY <2>1 DEF Tries
  <2> QED
    BY <2>1, <2>2, ThrottleEases
<1>2. ASSUME NEW r \in Requests, recordLoginAttempt(r) PROVE ThrottleInv'
  BY <1>2, ThrottleRecords
<1>3. ASSUME NEW r \in Requests,
             \/ \E g \in Guesses : loginAction(r, g)
             \/ \E i \in Ids, op \in {"password", "disable", "regenerate"}, g \in Guesses :
                   verifyCurrentPassword(r, i, op, g)
      PROVE  ThrottleInv'
  <2>1. checkLoginThrottle /\ UNCHANGED <<now, failures>>
    BY <1>3 DEF loginAction, verifyCurrentPassword, Start
  <2> QED
    BY <2>1, ThrottleAdmits
<1>4. ASSUME NEW r \in Requests,
             \/ \E i \in Ids : validateSession(r, i) \/ confirmTotpSetup(r, i)
             \/ \E c \in Ids :
                   \/ \E entered \in {"totp", "wrong"} : verifyTotpAction(r, c, entered, 0)
                   \/ \E k \in codes : verifyTotpAction(r, c, "recovery", k)
      PROVE  ThrottleInv'
  <2>1. UNCHANGED <<now, failures>>
    BY <1>4 DEF validateSession, confirmTotpSetup, verifyTotpAction, Start
  <2>2. Tries' \subseteq Tries
    BY <1>4, OtherStarts
  <2> QED
    BY <2>1, <2>2, ThrottleEases
<1>5. ASSUME NEW r \in Requests,
             \/ VerifyPassword(r) \/ clearEmailFailures(r) \/ UpdateUser(r)
             \/ createTotpChallenge(r) \/ signIn(r) \/ RefreshSession(r)
             \/ changePassword(r) \/ disableTotp(r) \/ regenerateRecoveryCodes(r)
             \/ RecoveryCodesReplaced(r) \/ CodeRefused(r) \/ verifyTotpChallenge(r)
      PROVE  ThrottleInv'
  <2>1. now' = now /\ failures' \subseteq failures
    BY <1>5 DEF VerifyPassword, clearEmailFailures, UpdateUser, createTotpChallenge, signIn,
                RefreshSession, changePassword, disableTotp, regenerateRecoveryCodes,
                RecoveryCodesReplaced, CodeRefused, verifyTotpChallenge, purgeOldAttempts
  <2>2. req \in [Requests -> Request] /\ req[r] \in Request
    BY DEF TypeOK
  <2>3. Tries' \subseteq Tries
    <3>1. CASE req' = [req EXCEPT ![r] = Idle]
      BY <3>1, IdleRequest, TriesFewer
    <3>2. CASE VerifyPassword(r)
      <4>1. \A q \in Requests \ {r} : req'[q] = req[q]
        BY <2>2, <3>2 DEF VerifyPassword
      <4>2. r \in Tries
        BY <3>2 DEF VerifyPassword, Tries
      <4> QED
        BY <4>1, <4>2 DEF Tries
    <3>3. CASE clearEmailFailures(r) \/ UpdateUser(r)
      <4>1. PICK pc \in {"cleared", "updated"} : req' = [req EXCEPT ![r].pc = pc]
        BY <3>3 DEF clearEmailFailures, UpdateUser
      <4>2. PICK x : x = [req[r] EXCEPT !.pc = pc]
        OBVIOUS
      <4>3. x.pc = pc /\ req' = [req EXCEPT ![r] = x]
        BY <2>2, <4>1, <4>2 DEF Request
      <4> QED
        BY <4>3, TriesFewer
    <3>4. CASE regenerateRecoveryCodes(r)
      <4>1. PICK x : x = IF enabled THEN [req[r] EXCEPT !.pc = "replacing", !.rows = codes]
                         ELSE Idle
        OBVIOUS
      <4>2. x.pc \in {"replacing", "idle"}
        BY <2>2, <4>1, IdleRequest DEF Request
      <4>3. req' = [req EXCEPT ![r] = x]
        BY <3>4, <4>1 DEF regenerateRecoveryCodes
      <4> QED
        BY <4>2, <4>3, TriesFewer
    <3> QED
      BY <1>5, <3>1, <3>2, <3>3, <3>4
         DEF createTotpChallenge, signIn, RefreshSession, changePassword, disableTotp,
             RecoveryCodesReplaced, CodeRefused, verifyTotpChallenge
  <2> QED
    BY <2>1, <2>3, ThrottleEases
<1> QED
  BY <1>1, <1>2, <1>3, <1>4, <1>5 DEF Next, accountActions

\* Before anyone tries, nothing has failed, and a first request may.
LEMMA ThrottleInit == Init => ThrottleInv
<1> SUFFICES ASSUME Init PROVE ThrottleInv
  OBVIOUS
<1>1. InWindow(now) = {}
  BY DEF Init, InWindow
<1>2. Tries = {}
  BY IdleRequest DEF Init, Tries
<1>3. LOGIN_MAX_FAILURES_PER_EMAIL \in Nat \ {0} /\ Cardinality(Requests) \in Nat
  BY LimitAssumption, FS_CardinalityType
<1>4. Cardinality({}) = 0
  BY FS_EmptySet
<1> QED
  BY <1>1, <1>2, <1>3, <1>4 DEF ThrottleInv, FailuresAt

\* For any number of requests at once, failures within a window exceed the limit
\* by fewer than there are requests, and what a blocked user is told to wait is
\* exact (checkLoginThrottle, recordLoginAttempt, secondsUntilUnblocked).
THEOREM ThrottleExact == Spec => []ThrottleIsExact
<1>1. SignInInv /\ ThrottleInv /\ [Next]_vars => ThrottleInv'
  BY ThrottleStep DEF SignInInv
<1>2. ASSUME SignInInv, ThrottleInv PROVE ThrottleIsExact
  <2>1. TypeOK
    BY <1>2 DEF SignInInv
  <2>2. FailuresAt(now) \in Nat
    BY <2>1, FailuresFinite DEF FailuresAt, InWindow
  <2>3. Cardinality(Tries) \in Nat /\ Cardinality(Requests) \in Nat
    BY SomeRequests DEF Tries
  <2>4. LOGIN_MAX_FAILURES_PER_EMAIL \in Nat
    BY LimitAssumption
  <2>5. FailuresAt(now) <= LOGIN_MAX_FAILURES_PER_EMAIL + Cardinality(Requests) - 1
    BY <1>2, <2>2, <2>3, <2>4 DEF ThrottleInv
  <2>6. PICK free : free = now + secondsUntilUnblocked
    OBVIOUS
  <2>7. free > now =>
           /\ \A t \in now..(free - 1) : FailuresAt(t) >= LOGIN_MAX_FAILURES_PER_EMAIL
           /\ FailuresAt(free + 1) < LOGIN_MAX_FAILURES_PER_EMAIL
    BY <2>1, <2>6, WaitingExact
  <2> QED
    BY <2>5, <2>6, <2>7 DEF ThrottleIsExact
<1>3. SignInInv /\ ThrottleInv => ThrottleIsExact
  BY <1>2
<1> QED
  BY <1>1, <1>3, Invariance, ThrottleInit, PTL DEF Spec

=============================================================================

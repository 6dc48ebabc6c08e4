---------------------------- MODULE ChecksProofs ----------------------------
(***************************************************************************)
(* For any endpoints, runners and slots: the state is well typed, no       *)
(* request carries credentials or a body where they were not configured to *)
(* go or connects to an address that was not vetted, a check's status      *)
(* counts its failures, and claims keep to the interval.                   *)
(*                                                                         *)
(* The status is not inductive: a task writes the count its claim read.    *)
(* The strengthening is that, where no two probes of a check overlapped,   *)
(* it has one task at most and that task still has the row's own count; a  *)
(* check nobody created has neither tasks nor results.                     *)
(***************************************************************************)
EXTENDS Checks, TLAPS

\* What a probe that is about to send a request goes by.
Keeps(p, s) ==
    /\ p.headers => p.url.origin = s.url.origin
    /\ p.body => p.method = s.method
    /\ allowPrivateTargets \/ p.addresses \subseteq PublicAddresses
    /\ assertLiteralTargetAllowed(p.url)

ProbesKeep ==
    \A r \in Runners, i \in Slots :
        tasks[r][i].stage # "idle" /\ tasks[r][i].probe.phase = "requesting"
            => tasks[r][i].stage = "probing" /\ Keeps(tasks[r][i].probe, tasks[r][i].settings)

On(t, c) == t.stage # "idle" /\ t.check = c

\* What the row says after so many failed results in a row.
Matches(row, failures) ==
    \/ failures = NoResult /\ row.status = "UNKNOWN" /\ row.consecutiveFailures = 0
    \/ failures = 0 /\ row.status = "UP" /\ row.consecutiveFailures = 0
    \/ failures = 1 /\ row.status = "DEGRADED" /\ row.consecutiveFailures = 1
    \/ failures = 2 /\ row.status = "DOWN" /\ row.consecutiveFailures >= 2

OneTask(c) ==
    \A r, q \in Runners, i, j \in Slots :
        On(tasks[r][i], c) /\ On(tasks[q][j], c) => r = q /\ i = j

TasksCount(c) ==
    \A r \in Runners, i \in Slots :
        On(tasks[r][i], c) /\ tasks[r][i].stage = "probing"
            => tasks[r][i].failures = checks[c].consecutiveFailures

Counted(c) ==
    Live(c) /\ ~ history[c].overlapped =>
        Matches(checks[c], history[c].failures) /\ OneTask(c) /\ TasksCount(c)

Untouched(c) ==
    checks[c].state = "fresh" =>
        /\ checks[c].status = "UNKNOWN" /\ checks[c].consecutiveFailures = 0
        /\ history[c].failures = NoResult /\ ~ history[c].overlapped
        /\ \A r \in Runners, i \in Slots : ~ On(tasks[r][i], c)

\* The interval the last claim began is not over before the row is due.
Paced(c) == Live(c) => history[c].wait = 0 \/ history[c].wait <= checks[c].nextRunAt

ChecksInv ==
    /\ TypeOK /\ ProbesKeep
    /\ \A c \in EndpointIds : Counted(c) /\ Untouched(c) /\ Paced(c)
-----------------------------------------------------------------------------
(* Constants and probes *)

LEMMA Bounds ==
    /\ concurrency \in Nat /\ intervalSec \in Nat /\ intervalSec > 0 /\ MaxFailures \in Nat
    /\ MaxFailures >= 2 /\ MaxLate \in Nat /\ MaxEdits \in Nat /\ MaxFaults \in Nat
    /\ MAX_REDIRECTS \in Nat
BY CheckAssumption, ProbeAssumption DEF FAILURES_BEFORE_DOWN

LEMMA FinishedProbe ==
    ASSUME NEW passed \in BOOLEAN
    PROVE  /\ Finished(passed) \in ProbeState /\ Finished(passed).phase # "requesting"
           /\ Finished(passed).addresses = {}
BY Bounds DEF Finished, ProbeState

LEMMA IdleTask == Idle \in Task /\ Idle.stage = "idle"
<1>1. Anyone \in EndpointIds /\ AnySettings \in Configs
  BY CheckAssumption DEF Anyone, AnySettings
<1>2. Finished(FALSE) \in ProbeState
  BY FinishedProbe
<1>3. 0 \in 0..MaxFailures
  BY Bounds
<1> HIDE DEF ProbeState
<1> QED
  BY <1>1, <1>2, <1>3 DEF Idle, Task

\* The head of the loop lets a hop go on only to a target it has vetted.
LEMMA HopBegins ==
    ASSUME NEW p \in ProbeState, NEW s \in Settings,
           p.headers => p.url.origin = s.url.origin, p.body => p.method = s.method,
           allowPrivateTargets \/ p.addresses \subseteq PublicAddresses
    PROVE  /\ BeginHop(p) \in ProbeState
           /\ BeginHop(p).phase = "requesting" => Keeps(BeginHop(p), s)
<1>1. CASE httpScheme(p.url) /\ assertLiteralTargetAllowed(p.url)
  <2>1. PICK x : x = [p EXCEPT !.phase = "requesting"]
    OBVIOUS
  <2>2. /\ x \in ProbeState /\ x.url = p.url /\ x.headers = p.headers /\ x.body = p.body
        /\ x.method = p.method /\ x.addresses = p.addresses
    BY <2>1 DEF ProbeState
  <2>3. BeginHop(p) = x
    BY <1>1, <2>1 DEF BeginHop
  <2> QED
    BY <1>1, <2>2, <2>3 DEF Keeps
<1>2. CASE ~ (httpScheme(p.url) /\ assertLiteralTargetAllowed(p.url))
  <2>1. BeginHop(p) = Finished(FALSE)
    BY <1>2 DEF BeginHop
  <2> QED
    BY <2>1, FinishedProbe
<1> QED
  BY <1>1, <1>2

LEMMA ProbeBegins ==
    ASSUME NEW s \in Settings
    PROVE  /\ BeginProbe(s) \in ProbeState
           /\ BeginProbe(s).phase = "requesting" => Keeps(BeginProbe(s), s)
<1>1. PICK body \in BOOLEAN : body <=> s.method = "POST"
  <2>1. CASE s.method = "POST"
    <3> WITNESS TRUE \in BOOLEAN
    <3> QED BY <2>1
  <2>2. CASE s.method # "POST"
    <3> WITNESS FALSE \in BOOLEAN
    <3> QED BY <2>2
  <2> QED BY <2>1, <2>2
<1>2. PICK x : x = [Finished(FALSE) EXCEPT
        !.url = s.url, !.method = s.method, !.body = body, !.headers = TRUE]
  OBVIOUS
<1>3. /\ x \in ProbeState /\ x.url = s.url /\ x.method = s.method /\ x.addresses = {}
      /\ x.body = body
  <2>1. s.url \in Urls /\ s.method \in {"GET", "HEAD", "POST"}
    BY DEF Settings
  <2> QED
    BY <1>2, <2>1, FinishedProbe DEF ProbeState
<1>4. BeginProbe(s) = BeginHop(x)
  BY <1>1, <1>2 DEF BeginProbe
<1> QED
  BY <1>3, <1>4, HopBegins

\* After a redirect the headers are still for the configured origin, and the body
\* for the configured method.
LEMMA ProbeResponds ==
    ASSUME NEW p \in ProbeState, NEW s \in Settings, NEW response \in HopResponse, Keeps(p, s)
    PROVE  /\ Respond(p, s, response) \in ProbeState
           /\ Respond(p, s, response).phase = "requesting"
                 => Keeps(Respond(p, s, response), s)
<1>0. ASSUME NEW passed \in BOOLEAN, Respond(p, s, response) = Finished(passed)
      PROVE  /\ Respond(p, s, response) \in ProbeState
             /\ Respond(p, s, response).phase # "requesting"
  BY <1>0, FinishedProbe
<1>1. CASE /\ s.followRedirects /\ isRedirect(response.statusCode)
           /\ response.location # NoUrl
  <2>0. Respond(p, s, response) = Redirect(p, response)
    BY <1>1 DEF Respond
  <2> DEFINE asGet == \/ response.statusCode = 303
                      \/ response.statusCode = 301 /\ p.method \notin {"GET", "HEAD"}
  <2>1. CASE tooManyRedirects(p)
    BY <1>0, <2>0, <2>1 DEF Redirect
  <2>2. CASE ~ tooManyRedirects(p)
    <3>1. PICK headers \in BOOLEAN : headers <=> carriedHeaders(p, response.location)
      <4>1. CASE carriedHeaders(p, response.location)
        <5> WITNESS TRUE \in BOOLEAN
        <5> QED BY <4>1
      <4>2. CASE ~ carriedHeaders(p, response.location)
        <5> WITNESS FALSE \in BOOLEAN
        <5> QED BY <4>2
      <4> QED BY <4>1, <4>2
    <3>2. PICK body \in BOOLEAN : body <=> (p.body /\ ~ asGet)
      <4>1. CASE p.body /\ ~ asGet
        <5> WITNESS TRUE \in BOOLEAN
        <5> QED BY <4>1
      <4>2. CASE ~ (p.body /\ ~ asGet)
        <5> WITNESS FALSE \in BOOLEAN
        <5> QED BY <4>2
      <4> QED BY <4>1, <4>2
    <3>3. PICK method : method = IF asGet /\ p.method # "HEAD" THEN "GET" ELSE p.method
      OBVIOUS
    <3>4. method \in {"GET", "HEAD", "POST"} /\ (~ asGet => method = p.method)
      BY <3>3 DEF ProbeState
    <3>5. p.hop + 1 \in 0..MAX_REDIRECTS /\ response.location \in Urls
      BY <1>1, <2>2, Bounds DEF tooManyRedirects, ProbeState, HopResponse
    <3>6. PICK x : x = [p EXCEPT !.hop = p.hop + 1, !.headers = headers,
              !.url = response.location, !.method = method, !.body = body]
      OBVIOUS
    <3>7. /\ x \in ProbeState /\ x.headers = headers /\ x.url = response.location
          /\ x.method = method /\ x.body = body /\ x.addresses = p.addresses
      BY <3>4, <3>5, <3>6 DEF ProbeState
    <3>8. Redirect(p, response) = BeginHop(x)
      <4>1. /\ headers = carriedHeaders(p, response.location) /\ body = (p.body /\ ~ asGet)
        BY <3>1, <3>2 DEF carriedHeaders, ProbeState
      <4>2. x = [p EXCEPT !.hop = @ + 1, !.headers = carriedHeaders(p, response.location),
              !.url = response.location,
              !.method = IF asGet /\ @ # "HEAD" THEN "GET" ELSE @, !.body = @ /\ ~ asGet]
        BY <3>3, <3>6, <4>1 DEF ProbeState
      <4> QED
        BY <2>2, <4>2 DEF Redirect
    <3>9. /\ x.headers => x.url.origin = s.url.origin
          /\ x.body => x.method = s.method
          /\ allowPrivateTargets \/ x.addresses \subseteq PublicAddresses
      BY <3>1, <3>2, <3>4, <3>7 DEF Keeps, carriedHeaders
    <3> QED
      BY <2>0, <3>7, <3>8, <3>9, HopBegins
  <2> QED
    BY <2>1, <2>2
<1>2. CASE ~ (/\ s.followRedirects /\ isRedirect(response.statusCode)
              /\ response.location # NoUrl)
  <2> DEFINE ok == /\ response.statusCode = s.expectedStatus
                   /\ needBody(s) => response.contains
  <2>1. Respond(p, s, response) = Finished(ok)
    BY <1>2 DEF Respond
  <2>2. Finished(ok) = IF ok THEN Finished(TRUE) ELSE Finished(FALSE)
    BY DEF Finished
  <2> QED
    BY <1>0, <2>1, <2>2
<1> QED
  BY <1>1, <1>2

-----------------------------------------------------------------------------
(* What members do *)

\* A row that is edited, or appears, or goes: its count and status stay as they
\* are, and it is asked for, or keeps its turn.
LEMMA RowEdited ==
    ASSUME ChecksInv, NEW c \in EndpointIds, NEW row \in Row, edits' \in 0..MaxEdits,
           checks' = [checks EXCEPT ![c] = row], UNCHANGED <<runner, tasks, series, faults>>,
           history' = history \/ history' = [history EXCEPT ![c].wait = 0],
           \/ row.state = "deleted"
           \/ /\ row.state = "live" /\ row.status = checks[c].status
              /\ row.consecutiveFailures = checks[c].consecutiveFailures
              /\ checks[c].state \in {"fresh", "live"}
              /\ \/ history'[c].wait = 0
                 \/ checks[c].state = "live" /\ row.nextRunAt = checks[c].nextRunAt
    PROVE  ChecksInv'
<1>0. /\ checks \in [EndpointIds -> Row] /\ history \in [EndpointIds -> History]
      /\ history[c] \in History
  BY DEF ChecksInv, TypeOK
<1>1. /\ \A d \in EndpointIds : checks'[d] = IF d = c THEN row ELSE checks[d]
      /\ checks' \in [EndpointIds -> Row]
  BY <1>0
<1>2. /\ history' \in [EndpointIds -> History]
      /\ \A d \in EndpointIds : /\ history'[d].failures = history[d].failures
                                /\ history'[d].overlapped = history[d].overlapped
                                /\ d # c => history'[d] = history[d]
                                /\ history'[d].wait \in {history[d].wait, 0}
  <2>1. CASE history' = history
    BY <1>0, <2>1
  <2>2. CASE history' = [history EXCEPT ![c].wait = 0]
    <3>1. PICK x : x = [history[c] EXCEPT !.wait = 0]
      OBVIOUS
    <3>2. 0 \in 0..intervalSec
      BY Bounds
    <3>3. /\ x \in History /\ x.failures = history[c].failures
          /\ x.overlapped = history[c].overlapped /\ x.wait = 0
      BY <1>0, <3>1, <3>2 DEF History
    <3>4. history' = [history EXCEPT ![c] = x]
      BY <2>2, <3>1
    <3> QED
      BY <1>0, <3>3, <3>4
  <2> QED
    BY <2>1, <2>2
<1>3. TypeOK' /\ ProbesKeep'
  BY <1>1, <1>2 DEF ChecksInv, TypeOK, ProbesKeep
<1>4. ASSUME NEW d \in EndpointIds
      PROVE  Counted(d)' /\ Untouched(d)' /\ Paced(d)'
  <2>0. Counted(d) /\ Untouched(d) /\ Paced(d)
    BY DEF ChecksInv
  <2>1. CASE d # c
    <3>1. checks'[d] = checks[d] /\ history'[d] = history[d]
      BY <1>1, <1>2, <2>1
    <3> QED
      BY <2>0, <3>1 DEF Counted, Untouched, Paced, Live, OneTask, TasksCount
  <2>2. CASE d = c
    <3>1. checks'[c] = row
      BY <1>1
    <3>2. Untouched(c)' /\ Paced(c)'
      BY <1>2, <2>0, <2>2, <3>1 DEF Untouched, Paced, Live
    <3>3. Counted(c)'
      <4> SUFFICES ASSUME row.state = "live", ~ history'[c].overlapped
                   PROVE  /\ Matches(row, history'[c].failures)
                          /\ OneTask(c)' /\ TasksCount(c)'
        BY <3>1 DEF Counted, Live
      <4>1. Matches(checks[c], history[c].failures) /\ OneTask(c) /\ TasksCount(c)
        BY <1>2, <2>0, <2>2
           DEF Counted, Untouched, Live, OneTask, TasksCount, Matches
      <4>2. OneTask(c)' /\ TasksCount(c)'
        BY <3>1, <4>1 DEF OneTask, TasksCount
      <4>3. Matches(row, history'[c].failures)
        BY <1>2, <4>1 DEF Matches
      <4> QED
        BY <4>2, <4>3
    <3> QED
      BY <2>2, <3>2, <3>3
  <2> QED
    BY <2>1, <2>2
<1> QED
  BY <1>3, <1>4 DEF ChecksInv

LEMMA MembersKeep ==
    ASSUME ChecksInv, NEW c \in EndpointIds, Member(c)
    PROVE  ChecksInv'
<1>0. /\ checks[c] \in Row /\ history[c] \in History /\ Null \in Null..intervalSec
      /\ edits \in 0..MaxEdits /\ history \in [EndpointIds -> History]
      /\ checks \in [EndpointIds -> Row]
  BY Bounds DEF ChecksInv, TypeOK, Null
<1>1. ASSUME NEW row \in Row, row.state = "live", row.status = checks[c].status,
             row.consecutiveFailures = checks[c].consecutiveFailures,
             checks[c].state \in {"fresh", "live"}, Edit, Asked(c, row)
      PROVE  ChecksInv'
  <2>1. PICK x : x = [row EXCEPT !.nextRunAt = Null]
    OBVIOUS
  <2>2. /\ x \in Row /\ x.state = "live" /\ x.status = checks[c].status
        /\ x.consecutiveFailures = checks[c].consecutiveFailures
    BY <1>0, <1>1, <2>1 DEF Row
  <2>3. /\ checks' = [checks EXCEPT ![c] = x] /\ history' = [history EXCEPT ![c].wait = 0]
        /\ UNCHANGED <<runner, tasks, series, faults>>
    BY <1>1, <2>1 DEF Asked
  <2>4. history'[c].wait = 0
    BY <1>0, <2>3 DEF History
  <2>5. edits' \in 0..MaxEdits
    BY <1>0, <1>1, Bounds DEF Edit
  <2> QED
    BY <1>1, <2>2, <2>3, <2>4, <2>5, RowEdited
<1>2. ASSUME NEW s \in Configs, createEndpoint(c, s) PROVE ChecksInv'
  <2>1. PICK row : row = [checks[c] EXCEPT !.state = "live", !.settings = s]
    OBVIOUS
  <2>2. /\ row \in Row /\ row.state = "live" /\ row.status = checks[c].status
        /\ row.consecutiveFailures = checks[c].consecutiveFailures
    BY <1>0, <2>1 DEF Row
  <2> QED
    BY <1>1, <1>2, <2>1, <2>2 DEF createEndpoint
<1>3. ASSUME NEW s \in Configs, updateEndpoint(c, s) PROVE ChecksInv'
  <2>1. PICK row : row = [checks[c] EXCEPT !.settings = s]
    OBVIOUS
  <2>2. /\ row \in Row /\ row.state = checks[c].state /\ row.status = checks[c].status
        /\ row.consecutiveFailures = checks[c].consecutiveFailures
    BY <1>0, <2>1 DEF Row
  <2> QED
    BY <1>1, <1>3, <2>1, <2>2 DEF updateEndpoint, Live
<1>4. ASSUME NEW enabled \in BOOLEAN, setEndpointEnabled(c, enabled) PROVE ChecksInv'
  <2>1. PICK row : row = [checks[c] EXCEPT !.enabled = enabled]
    OBVIOUS
  <2>2. /\ row \in Row /\ row.state = checks[c].state /\ row.status = checks[c].status
        /\ row.consecutiveFailures = checks[c].consecutiveFailures
        /\ row.nextRunAt = checks[c].nextRunAt
    BY <1>0, <2>1 DEF Row
  <2>3. CASE enabled
    <3>1. row = [checks[c] EXCEPT !.enabled = TRUE]
      BY <2>1, <2>3
    <3> QED
      BY <1>1, <1>4, <2>2, <2>3, <3>1 DEF setEndpointEnabled, Live
  <2>4. CASE ~ enabled
    <3>1. row = [checks[c] EXCEPT !.enabled = FALSE]
      BY <2>1, <2>4
    <3>2. checks' = [checks EXCEPT ![c] = row] /\ UNCHANGED <<runner, tasks, series, history, faults>>
      BY <1>0, <1>4, <2>4, <3>1 DEF setEndpointEnabled
    <3>3. edits' \in 0..MaxEdits
      BY <1>0, <1>4, Bounds DEF setEndpointEnabled, Edit
    <3> QED
      BY <1>4, <2>2, <3>2, <3>3, RowEdited DEF setEndpointEnabled, Live
  <2> QED
    BY <2>3, <2>4
<1>5. ASSUME requestEndpointCheck(c) PROVE ChecksInv'
  BY <1>0, <1>1, <1>5 DEF requestEndpointCheck, Live
<1>6. ASSUME deleteEndpoint(c) PROVE ChecksInv'
  <2>1. PICK row : row = Blank("deleted")
    OBVIOUS
  <2>2. AnySettings \in Configs /\ 0 \in 0..MaxFailures
    BY CheckAssumption, Bounds DEF AnySettings
  <2>3. row \in Row /\ row.state = "deleted"
    BY <1>0, <2>1, <2>2 DEF Blank, Row, Health
  <2>4. edits' \in 0..MaxEdits
    BY <1>0, <1>6, Bounds DEF deleteEndpoint, Edit
  <2> QED
    BY <1>6, <2>1, <2>3, <2>4, RowEdited DEF deleteEndpoint
<1> QED
  BY <1>2, <1>3, <1>4, <1>5, <1>6 DEF Member

\* Time brings every row and every interval closer by the same amount.
LEMMA TickKeeps ==
    ASSUME ChecksInv, Tick
    PROVE  ChecksInv'
<1>0. checks \in [EndpointIds -> Row] /\ history \in [EndpointIds -> History]
  BY DEF ChecksInv, TypeOK
<1>1. ASSUME NEW c \in EndpointIds
      PROVE  /\ checks'[c] \in Row /\ history'[c] \in History
             /\ checks'[c].state = checks[c].state /\ checks'[c].status = checks[c].status
             /\ checks'[c].consecutiveFailures = checks[c].consecutiveFailures
             /\ history'[c].failures = history[c].failures
             /\ history'[c].overlapped = history[c].overlapped
             /\ Paced(c)'
  <2>0. checks[c] \in Row /\ history[c] \in History /\ Paced(c)
    BY <1>0 DEF ChecksInv
  <2> DEFINE at == checks[c].nextRunAt
             left == history[c].wait
  <2>1. PICK x : x = [checks[c] EXCEPT !.nextRunAt = IF at > -MaxLate THEN at - 1 ELSE at]
    OBVIOUS
  <2>2. PICK y : y = [history[c] EXCEPT !.wait = IF left = 0 THEN left ELSE left - 1]
    OBVIOUS
  <2>3. at \in Null..intervalSec /\ left \in 0..intervalSec
    BY <2>0 DEF Row, History
  <2>4. /\ (IF at > -MaxLate THEN at - 1 ELSE at) \in Null..intervalSec
        /\ (IF left = 0 THEN left ELSE left - 1) \in 0..intervalSec
    BY <2>3, Bounds DEF Null
  <2>5. /\ x \in Row /\ x.state = checks[c].state /\ x.status = checks[c].status
        /\ x.consecutiveFailures = checks[c].consecutiveFailures
        /\ x.nextRunAt = IF at > -MaxLate THEN at - 1 ELSE at
    BY <2>0, <2>1, <2>4 DEF Row
  <2>6. /\ y \in History /\ y.failures = history[c].failures
        /\ y.overlapped = history[c].overlapped
        /\ y.wait = IF left = 0 THEN left ELSE left - 1
    BY <2>0, <2>2, <2>4 DEF History
  <2>7. checks'[c] = x /\ history'[c] = y
    BY <2>1, <2>2 DEF Tick
  <2>8. Paced(c)'
    <3>1. Live(c) => left = 0 \/ left <= at
      BY <2>0 DEF Paced
    <3>2. x.state = "live" => y.wait = 0 \/ y.wait <= x.nextRunAt
      BY <2>3, <2>5, <2>6, <3>1, Bounds DEF Live, Null
    <3> QED
      BY <2>7, <3>2 DEF Paced, Live
  <2> QED
    BY <2>5, <2>6, <2>7, <2>8
<1>2. UNCHANGED <<runner, tasks, series, edits, faults>>
  BY DEF Tick
<1>3. TypeOK' /\ ProbesKeep'
  <2>1. checks' \in [EndpointIds -> Row] /\ history' \in [EndpointIds -> History]
    BY <1>1 DEF Tick
  <2> QED
    BY <1>2, <2>1 DEF ChecksInv, TypeOK, ProbesKeep
<1>4. ASSUME NEW c \in EndpointIds
      PROVE  Counted(c)' /\ Untouched(c)'
  <2>0. Counted(c) /\ Untouched(c)
    BY DEF ChecksInv
  <2> QED
    BY <1>1, <1>2, <2>0 DEF Counted, Untouched, Live, OneTask, TasksCount, Matches
<1> QED
  BY <1>1, <1>3, <1>4 DEF ChecksInv

-----------------------------------------------------------------------------
(* Claims *)

\* A claim gives each check it took one slot, and leaves the tasks of the others.
LEMMA ClaimKeeps ==
    ASSUME ChecksInv, NEW r \in Runners, NEW S \in SUBSET EndpointIds, claimDueChecks(r, S)
    PROVE  /\ ChecksInv'
           /\ \A q \in Runners, i \in Slots :
                 \/ tasks'[q][i] = tasks[q][i]
                 \/ \E c \in S : Due(c) /\ tasks'[q][i].check = c
<1>0. /\ checks \in [EndpointIds -> Row] /\ history \in [EndpointIds -> History]
      /\ tasks \in [Runners -> [Slots -> Task]]
      /\ \A c \in EndpointIds : Counted(c) /\ Untouched(c) /\ Paced(c)
  BY DEF ChecksInv, TypeOK
<1> DEFINE slot == CHOOSE f \in Injection(S, Slots \ Busy(r)) : TRUE
           task(c) == [stage |-> "probing", check |-> c, settings |-> checks[c].settings,
                       failures |-> checks[c].consecutiveFailures,
                       probe |-> BeginProbe(checks[c].settings)]
           New(i) == \E c \in S : slot[c] = i
           who(i) == CHOOSE c \in S : slot[c] = i
<1>1. /\ tasks' = [tasks EXCEPT ![r] = [i \in Slots |->
                      IF New(i) THEN task(who(i)) ELSE @[i]]]
      /\ \A c \in S : Due(c) /\ c \in EndpointIds
      /\ UNCHANGED <<runner, series, edits, faults>>
  BY DEF claimDueChecks, OldestDue
<1>2. \A i \in Slots : New(i) => who(i) \in S /\ slot[who(i)] = i
  OBVIOUS
<1>3. ASSUME NEW c \in EndpointIds
      PROVE  /\ task(c) \in Task /\ task(c).stage = "probing" /\ task(c).check = c
             /\ task(c).failures = checks[c].consecutiveFailures
             /\ task(c).probe.phase = "requesting" => Keeps(task(c).probe, task(c).settings)
  <2>1. /\ checks[c].settings \in Settings /\ checks[c].settings \in Configs
        /\ checks[c].consecutiveFailures \in 0..MaxFailures
    BY <1>0, CheckAssumption DEF Row
  <2>2. PICK p : p = BeginProbe(checks[c].settings)
    OBVIOUS
  <2>3. p \in ProbeState /\ (p.phase = "requesting" => Keeps(p, checks[c].settings))
    BY <2>1, <2>2, ProbeBegins
  <2> HIDE DEF ProbeState
  <2> QED
    BY <2>1, <2>2, <2>3 DEF Task
<1> HIDE DEF slot, task
<1>4. \A q \in Runners, i \in Slots :
         tasks'[q][i] = IF q = r /\ New(i) THEN task(who(i)) ELSE tasks[q][i]
  BY <1>0, <1>1
<1>5. tasks' \in [Runners -> [Slots -> Task]]
  <2>1. \A i \in Slots : (IF New(i) THEN task(who(i)) ELSE tasks[r][i]) \in Task
    BY <1>0, <1>1, <1>2, <1>3
  <2> QED
    BY <1>0, <1>1, <2>1
<1> HIDE DEF New, who
<1>6. ASSUME NEW c \in EndpointIds
      PROVE  /\ checks'[c] \in Row /\ history'[c] \in History
             /\ checks'[c].state = checks[c].state /\ checks'[c].status = checks[c].status
             /\ checks'[c].consecutiveFailures = checks[c].consecutiveFailures
             /\ history'[c].failures = history[c].failures
             /\ ~ history'[c].overlapped =>
                   /\ ~ history[c].overlapped
                   /\ c \in S => \A q \in Runners, i \in Slots : ~ On(tasks[q][i], c)
             /\ c \notin S => history'[c] = history[c]
             /\ Paced(c)'
  <2>1. CASE c \notin S
    <3>1. checks'[c] = checks[c] /\ history'[c] = history[c]
      BY <2>1 DEF claimDueChecks
    <3> QED
      BY <1>0, <2>1, <3>1 DEF Paced, Live
  <2>2. CASE c \in S
    <3>0. checks[c] \in Row /\ history[c] \in History
      BY <1>0
    <3>1. PICK x : x = [checks[c] EXCEPT !.nextRunAt = intervalSec]
      OBVIOUS
    <3>2. PICK o \in BOOLEAN : o <=> (history[c].overlapped \/ Probing(c) # {})
      <4>1. CASE history[c].overlapped \/ Probing(c) # {}
        <5> WITNESS TRUE \in BOOLEAN
        <5> QED BY <4>1
      <4>2. CASE ~ (history[c].overlapped \/ Probing(c) # {})
        <5> WITNESS FALSE \in BOOLEAN
        <5> QED BY <4>2
      <4> QED BY <4>1, <4>2
    <3>3. PICK y : y = [history[c] EXCEPT !.overlapped = o, !.wait = intervalSec]
      OBVIOUS
    <3>4. intervalSec \in Null..intervalSec /\ intervalSec \in 0..intervalSec
      BY Bounds DEF Null
    <3>5. /\ x \in Row /\ x.state = checks[c].state /\ x.status = checks[c].status
          /\ x.consecutiveFailures = checks[c].consecutiveFailures /\ x.nextRunAt = intervalSec
      BY <3>0, <3>1, <3>4 DEF Row
    <3>6. /\ y \in History /\ y.failures = history[c].failures /\ y.overlapped = o
          /\ y.wait = intervalSec
      BY <3>0, <3>3, <3>4 DEF History
    <3>7. checks'[c] = x
      BY <2>2, <3>1 DEF claimDueChecks, Claimed
    <3>8. history'[c] = y
      <4>1. o = (history[c].overlapped \/ Probing(c) # {})
        BY <3>0, <3>2 DEF History
      <4> QED
        BY <2>2, <3>3, <4>1 DEF claimDueChecks
    <3>9. ~ o => \A q \in Runners, i \in Slots : ~ On(tasks[q][i], c)
      <4> SUFFICES ASSUME Probing(c) = {}, NEW q \in Runners, NEW i \in Slots
                   PROVE  ~ On(tasks[q][i], c)
        BY <3>2
      <4>1. <<q, i>> \notin Probing(c)
        OBVIOUS
      <4> QED
        BY <4>1 DEF Probing, On
    <3>10. intervalSec <= intervalSec
      BY Bounds
    <3>11. Paced(c)'
      BY <3>5, <3>6, <3>7, <3>8, <3>10 DEF Paced
    <3> QED
      BY <2>2, <3>2, <3>5, <3>6, <3>7, <3>8, <3>9, <3>11
  <2> QED
    BY <2>1, <2>2
<1>7. TypeOK'
  <2>1. checks' \in [EndpointIds -> Row] /\ history' \in [EndpointIds -> History]
    BY <1>6 DEF claimDueChecks
  <2> QED
    BY <1>1, <1>5, <2>1 DEF ChecksInv, TypeOK
<1>8. ProbesKeep'
  BY <1>1, <1>2, <1>3, <1>4 DEF ChecksInv, ProbesKeep
<1>9. ASSUME NEW c \in EndpointIds
      PROVE  Counted(c)' /\ Untouched(c)'
  <2>1. CASE c \notin S
    <3>1. ASSUME NEW q \in Runners, NEW i \in Slots, On(tasks'[q][i], c)
          PROVE  tasks'[q][i] = tasks[q][i]
      BY <1>1, <1>2, <1>3, <1>4, <2>1, <3>1 DEF On
    <3>2. Untouched(c)'
      BY <1>0, <1>6, <2>1, <3>1 DEF Untouched
    <3>3. OneTask(c) => OneTask(c)'
      BY <3>1 DEF OneTask
    <3>4. TasksCount(c) => TasksCount(c)'
      BY <1>6, <3>1 DEF TasksCount
    <3>5. Counted(c)'
      BY <1>0, <1>6, <2>1, <3>3, <3>4 DEF Counted, Live, Matches
    <3> QED
      BY <3>2, <3>5
  <2>2. CASE c \in S
    <3>1. Live(c)
      BY <1>1, <2>2 DEF Due
    <3>2. Untouched(c)'
      BY <1>6, <3>1 DEF Untouched, Live
    <3>3. ASSUME ~ history'[c].overlapped
          PROVE  Matches(checks[c], history[c].failures)' /\ OneTask(c)' /\ TasksCount(c)'
      <4>1. \A q \in Runners, i \in Slots : ~ On(tasks[q][i], c)
        BY <1>6, <2>2, <3>3
      <4>2. ASSUME NEW q \in Runners, NEW i \in Slots, On(tasks'[q][i], c)
            PROVE  /\ q = r /\ slot[c] = i
                   /\ tasks'[q][i].failures = checks'[c].consecutiveFailures
        <5>1. q = r /\ New(i)
          BY <1>4, <4>1, <4>2
        <5>2. who(i) \in S /\ slot[who(i)] = i /\ who(i) \in EndpointIds
          BY <1>1, <1>2, <5>1
        <5>3. tasks'[q][i] = task(who(i))
          BY <1>4, <5>1
        <5>4. who(i) = c
          BY <1>3, <4>2, <5>2, <5>3 DEF On
        <5> QED
          BY <1>3, <1>6, <5>1, <5>2, <5>3, <5>4
      <4>3. OneTask(c)'
        BY <4>2 DEF OneTask
      <4>4. TasksCount(c)'
        BY <4>2 DEF TasksCount
      <4>5. Matches(checks[c], history[c].failures)
        BY <1>0, <1>6, <3>1, <3>3 DEF Counted
      <4>6. Matches(checks[c], history[c].failures)'
        BY <1>6, <4>5 DEF Matches
      <4> QED
        BY <4>3, <4>4, <4>6
    <3> QED
      BY <3>2, <3>3 DEF Counted
  <2> QED
    BY <2>1, <2>2
<1>10. \A q \in Runners, i \in Slots :
         \/ tasks'[q][i] = tasks[q][i]
         \/ \E c \in S : Due(c) /\ tasks'[q][i].check = c
  BY <1>1, <1>2, <1>3, <1>4
<1> QED
  BY <1>6, <1>7, <1>8, <1>9, <1>10 DEF ChecksInv

-----------------------------------------------------------------------------
(* Tasks *)

\* A task that moves on, or ends, beside rows and histories that stay.
LEMMA TaskMoves ==
    ASSUME ChecksInv, NEW r \in Runners, NEW i \in Slots, NEW x \in Task,
           tasks' = [tasks EXCEPT ![r] = [tasks[r] EXCEPT ![i] = x]],
           UNCHANGED <<checks, runner, history, edits>>, faults' \in 0..MaxFaults,
           series' \in [EndpointIds -> {"none", "passed", "failed"}],
           \/ x.stage = "idle"
           \/ /\ tasks[r][i].stage = "probing" /\ x.check = tasks[r][i].check
              /\ x.failures = tasks[r][i].failures,
           x.stage # "idle" /\ x.probe.phase = "requesting"
               => x.stage = "probing" /\ Keeps(x.probe, x.settings)
    PROVE  ChecksInv'
<1>0. tasks \in [Runners -> [Slots -> Task]]
  BY DEF ChecksInv, TypeOK
<1>1. /\ \A q \in Runners, k \in Slots :
            tasks'[q][k] = IF q = r /\ k = i THEN x ELSE tasks[q][k]
      /\ tasks' \in [Runners -> [Slots -> Task]]
  BY <1>0
<1>2. TypeOK' /\ ProbesKeep'
  BY <1>1 DEF ChecksInv, TypeOK, ProbesKeep
<1>3. ASSUME NEW c \in EndpointIds
      PROVE  Counted(c)' /\ Untouched(c)' /\ Paced(c)'
  <2>0. Counted(c) /\ Untouched(c) /\ Paced(c)
    BY DEF ChecksInv
  <2>1. \A q \in Runners, k \in Slots : On(tasks'[q][k], c) =>
           /\ On(tasks[q][k], c) /\ tasks'[q][k].failures = tasks[q][k].failures
           /\ tasks'[q][k].stage = "probing" => tasks[q][k].stage = "probing"
    BY <1>1 DEF On
  <2>2. OneTask(c) => OneTask(c)'
    BY <2>1 DEF OneTask
  <2>3. TasksCount(c) => TasksCount(c)'
    BY <2>1 DEF TasksCount
  <2>4. Counted(c)'
    BY <2>0, <2>2, <2>3 DEF Counted, Live, Matches
  <2>5. Untouched(c)' /\ Paced(c)'
    BY <2>0, <2>1 DEF Untouched, Paced, Live
  <2> QED
    BY <2>4, <2>5
<1> QED
  BY <1>2, <1>3 DEF ChecksInv

LEMMA TaskEnds ==
    ASSUME ChecksInv, NEW r \in Runners, NEW i \in Slots, tasks' = [tasks EXCEPT ![r][i] = Idle],
           UNCHANGED <<checks, runner, history, edits>>, faults' \in 0..MaxFaults,
           series' \in [EndpointIds -> {"none", "passed", "failed"}]
    PROVE  ChecksInv'
BY IdleTask, TaskMoves

LEMMA ProbeMoves ==
    ASSUME ChecksInv, NEW r \in Runners, NEW i \in Slots, NEW p \in ProbeState,
           tasks[r][i].stage = "probing", StepProbe(r, i, p),
           p.phase = "requesting" => Keeps(p, tasks[r][i].settings)
    PROVE  ChecksInv'
<1>0. /\ tasks[r][i] \in Task /\ faults \in 0..MaxFaults
      /\ series \in [EndpointIds -> {"none", "passed", "failed"}]
      /\ tasks \in [Runners -> [Slots -> Task]]
  BY DEF ChecksInv, TypeOK
<1>1. PICK x : x = [tasks[r][i] EXCEPT !.probe = p]
  OBVIOUS
<1> HIDE DEF ProbeState
<1>2. /\ x \in Task /\ x.stage = tasks[r][i].stage /\ x.check = tasks[r][i].check
      /\ x.failures = tasks[r][i].failures /\ x.settings = tasks[r][i].settings /\ x.probe = p
  BY <1>0, <1>1 DEF Task
<1>3. tasks' = [tasks EXCEPT ![r] = [tasks[r] EXCEPT ![i] = x]]
  BY <1>0, <1>1 DEF StepProbe
<1>4. UNCHANGED <<checks, runner, series, history, edits, faults>>
  BY DEF StepProbe
<1> QED
  BY <1>0, <1>2, <1>3, <1>4, TaskMoves

\* The addresses a request may connect to were vetted: by the lookup, or before.
LEMMA Vetted ==
    ASSUME NEW url, assertLiteralTargetAllowed(url), NEW addresses \in Reachable(url)
    PROVE  allowPrivateTargets \/ addresses \subseteq PublicAddresses
<1>1. CASE url.host = "name"
  BY <1>1 DEF Reachable, guardedLookup, isPublicAddress
<1>2. CASE url.host # "name"
  BY <1>2 DEF Reachable, assertLiteralTargetAllowed, isPublicAddress
<1> QED
  BY <1>1, <1>2

LEMMA RequestKeeps ==
    ASSUME ChecksInv, NEW r \in Runners, NEW i \in Slots, requestOnce(r, i)
    PROVE  ChecksInv'
<1>0. /\ tasks[r][i] \in Task /\ tasks[r][i].stage = "probing"
      /\ Keeps(tasks[r][i].probe, tasks[r][i].settings)
      /\ tasks[r][i].probe \in ProbeState /\ tasks[r][i].settings \in Settings
      /\ tasks[r][i].probe.phase = "requesting"
  BY CheckAssumption DEF ChecksInv, TypeOK, ProbesKeep, requestOnce, InPhase, Task
<1>1. PICK addresses \in Reachable(tasks[r][i].probe.url), response \in Responses :
         StepProbe(r, i, Respond([tasks[r][i].probe EXCEPT !.addresses = addresses],
                                 tasks[r][i].settings, response))
  BY DEF requestOnce
<1>2. allowPrivateTargets \/ addresses \subseteq PublicAddresses
  BY <1>0, Vetted DEF Keeps
<1>3. addresses \subseteq Addresses
  <2>1. tasks[r][i].probe.url \in Urls \cup {NoUrl}
    BY <1>0 DEF ProbeState
  <2>2. tasks[r][i].probe.url.host \in Addresses \cup {"name"}
    BY <2>1, ProbeAssumption DEF NoUrl
  <2> QED
    BY <2>2 DEF Reachable
<1>4. PICK p : p = [tasks[r][i].probe EXCEPT !.addresses = addresses]
  OBVIOUS
<1>5. /\ p \in ProbeState /\ p.url = tasks[r][i].probe.url /\ p.body = tasks[r][i].probe.body
      /\ p.headers = tasks[r][i].probe.headers /\ p.method = tasks[r][i].probe.method
      /\ p.addresses = addresses
  BY <1>0, <1>3, <1>4 DEF ProbeState
<1>6. Keeps(p, tasks[r][i].settings)
  BY <1>0, <1>2, <1>5 DEF Keeps
<1>7. response \in HopResponse
  BY CheckAssumption
<1>8. PICK x : x = Respond(p, tasks[r][i].settings, response)
  OBVIOUS
<1>9. x \in ProbeState /\ (x.phase = "requesting" => Keeps(x, tasks[r][i].settings))
  BY <1>0, <1>5, <1>6, <1>7, <1>8, ProbeResponds
<1>10. StepProbe(r, i, x)
  BY <1>1, <1>4, <1>8
<1> QED
  BY <1>0, <1>9, <1>10, ProbeMoves

\* nextHealth and the count of failures in a row agree about the next row.
LEMMA HealthMatches ==
    ASSUME NEW row \in Row, NEW failures \in NoResult..FAILURES_BEFORE_DOWN, NEW next \in Row,
           NEW passed \in BOOLEAN, NEW counted \in 0..MaxFailures,
           next.status = nextHealth(passed, counted).status,
           next.consecutiveFailures = nextHealth(passed, counted).consecutiveFailures,
           passed \/ (Matches(row, failures) /\ counted = row.consecutiveFailures)
    PROVE  Matches(next, InARow(failures, passed))
<1>1. failures \in {-1, 0, 1, 2}
  BY DEF NoResult, FAILURES_BEFORE_DOWN
<1>2. CASE passed
  BY <1>2 DEF nextHealth, InARow, Matches
<1>3. CASE ~ passed
  <2>1. counted \in Nat /\ counted <= MaxFailures
    BY Bounds
  <2> DEFINE n == IF counted < MaxFailures THEN counted + 1 ELSE MaxFailures
  <2>2. /\ next.consecutiveFailures = n
        /\ next.status = IF n >= 2 THEN "DOWN" ELSE "DEGRADED"
    BY <1>3 DEF nextHealth, FAILURES_BEFORE_DOWN
  <2>3. CASE failures \in {-1, 0}
    <3>1. counted = 0
      BY <1>3, <2>3 DEF Matches, NoResult
    <3>2. n = 1
      BY <3>1, Bounds
    <3>3. InARow(failures, passed) = 1
      BY <1>3, <2>3 DEF InARow, NoResult, FAILURES_BEFORE_DOWN
    <3> HIDE DEF n
    <3> QED
      BY <2>2, <3>2, <3>3 DEF Matches
  <2>4. CASE failures = 1
    <3>1. counted = 1
      BY <1>3, <2>4 DEF Matches, NoResult
    <3>2. n = 2
      BY <3>1, Bounds
    <3>3. InARow(failures, passed) = 2
      BY <1>3, <2>4 DEF InARow, NoResult, FAILURES_BEFORE_DOWN
    <3> HIDE DEF n
    <3> QED
      BY <2>2, <3>2, <3>3 DEF Matches
  <2>5. CASE failures = 2
    <3>1. counted >= 2
      BY <1>3, <2>5 DEF Matches, NoResult
    <3>2. n >= 2
      BY <2>1, <3>1, Bounds
    <3>3. InARow(failures, passed) = 2
      BY <1>3, <2>5 DEF InARow, NoResult, FAILURES_BEFORE_DOWN
    <3> HIDE DEF n
    <3> QED
      BY <2>2, <3>2, <3>3 DEF Matches
  <2> QED
    BY <1>1, <2>3, <2>4, <2>5
<1> QED
  BY <1>2, <1>3

LEMMA HealthTyped ==
    ASSUME NEW passed \in BOOLEAN, NEW counted \in 0..MaxFailures
    PROVE  /\ nextHealth(passed, counted).status \in Health
           /\ nextHealth(passed, counted).consecutiveFailures \in 0..MaxFailures
BY Bounds DEF nextHealth, Health

LEMMA InARowTyped ==
    ASSUME NEW passed \in BOOLEAN, NEW failures \in NoResult..FAILURES_BEFORE_DOWN
    PROVE  InARow(failures, passed) \in NoResult..FAILURES_BEFORE_DOWN
BY DEF InARow, NoResult, FAILURES_BEFORE_DOWN

LEMMA ResultRecorded ==
    ASSUME ChecksInv, NEW r \in Runners, NEW i \in Slots, recordResult(r, i)
    PROVE  ChecksInv'
<1>a. /\ tasks \in [Runners -> [Slots -> Task]]
      /\ checks \in [EndpointIds -> Row] /\ history \in [EndpointIds -> History]
      /\ faults \in 0..MaxFaults /\ series \in [EndpointIds -> {"none", "passed", "failed"}]
  BY DEF ChecksInv, TypeOK
<1>b. /\ tasks[r][i].stage = "probing" /\ tasks[r][i].probe.phase # "requesting"
      /\ UNCHANGED <<runner, series, edits, faults>>
  BY DEF recordResult, InPhase
<1>c. PICK t \in Task : t = tasks[r][i]
  BY <1>a
<1>d. PICK c \in EndpointIds : c = t.check
  BY DEF Task
<1> DEFINE health == nextHealth(Passed(r, i), t.failures)
<1>0. /\ tasks \in [Runners -> [Slots -> Task]] /\ t \in Task /\ t.stage = "probing"
      /\ c \in EndpointIds /\ t.failures \in 0..MaxFailures /\ t.settings \in Configs
      /\ checks \in [EndpointIds -> Row] /\ history \in [EndpointIds -> History]
      /\ checks[c] \in Row /\ history[c] \in History
      /\ faults \in 0..MaxFaults /\ series \in [EndpointIds -> {"none", "passed", "failed"}]
      /\ UNCHANGED <<runner, series, edits, faults>>
      /\ tasks[r][i] = t /\ tasks[r][i].check = c /\ t.probe.phase # "requesting"
  BY <1>a, <1>b, <1>c, <1>d DEF Task
<1>1. CASE ~ updated(c)
  <2>1. tasks' = [tasks EXCEPT ![r][i] = Idle] /\ UNCHANGED <<checks, history>>
    BY <1>0, <1>1 DEF recordResult
  <2> QED
    BY <1>0, <2>1, TaskEnds
<1>2. CASE updated(c)
  <2>1. PICK passed \in BOOLEAN : passed = Passed(r, i)
    <3>1. CASE Passed(r, i)
      <4> WITNESS TRUE \in BOOLEAN
      <4> QED BY <3>1 DEF Passed
    <3>2. CASE ~ Passed(r, i)
      <4> WITNESS FALSE \in BOOLEAN
      <4> QED BY <3>2 DEF Passed
    <3> QED BY <3>1, <3>2
  <2>2. PICK overlapped \in BOOLEAN :
           overlapped = (history[c].overlapped /\ ~ (passed /\ Probing(c) = {<<r, i>>}))
    <3>1. CASE history[c].overlapped /\ ~ (passed /\ Probing(c) = {<<r, i>>})
      <4> WITNESS TRUE \in BOOLEAN
      <4> QED BY <3>1
    <3>2. CASE ~ (history[c].overlapped /\ ~ (passed /\ Probing(c) = {<<r, i>>}))
      <4> WITNESS FALSE \in BOOLEAN
      <4> QED BY <3>2
    <3> QED BY <3>1, <3>2
  <2>3. PICK row : row = [checks[c] EXCEPT !.status = health.status,
                             !.consecutiveFailures = health.consecutiveFailures]
    OBVIOUS
  <2>4. PICK h : h = [history[c] EXCEPT !.failures = InARow(history[c].failures, passed),
                         !.overlapped = overlapped, !.probed = {t.settings}]
    OBVIOUS
  <2>5. PICK x : x = [t EXCEPT !.stage = "storing"]
    OBVIOUS
  <2>6. /\ row \in Row /\ row.state = checks[c].state /\ row.nextRunAt = checks[c].nextRunAt
        /\ row.status = health.status /\ row.consecutiveFailures = health.consecutiveFailures
    <3>1. health.status \in Health /\ health.consecutiveFailures \in 0..MaxFailures
      BY <1>0, <2>1, HealthTyped
    <3> HIDE DEF health
    <3> QED
      BY <1>0, <2>3, <3>1 DEF Row
  <2>7. /\ h \in History /\ h.failures = InARow(history[c].failures, passed)
        /\ h.overlapped = overlapped /\ h.wait = history[c].wait
    <3>1. InARow(history[c].failures, passed) \in NoResult..FAILURES_BEFORE_DOWN
      BY <1>0, InARowTyped DEF History
    <3> QED
      BY <1>0, <2>4, <3>1 DEF History
  <2>7a. health = nextHealth(passed, t.failures)
    BY <2>1
  <2> HIDE DEF health
  <2>8. x \in Task /\ x.stage = "storing" /\ x.check = c /\ x.probe.phase # "requesting"
    BY <1>0, <2>5 DEF Task
  <2>9. checks' = [checks EXCEPT ![c] = row]
    <3>1. checks' = [checks EXCEPT ![c].status = health.status,
                        ![c].consecutiveFailures = health.consecutiveFailures]
      BY <1>0, <1>2 DEF recordResult, health
    <3> QED
      BY <1>0, <2>3, <3>1
  <2>10. history' = [history EXCEPT ![c] = h]
    <3>1. history' = [history EXCEPT ![c].failures = InARow(@, passed),
             ![c].overlapped = @ /\ ~ (passed /\ Probing(c) = {<<r, i>>}),
             ![c].probed = {t.settings}]
      BY <1>0, <1>2, <2>1 DEF recordResult
    <3>2. history' = [history EXCEPT ![c].failures = InARow(history[c].failures, passed),
             ![c].overlapped = overlapped, ![c].probed = {t.settings}]
      BY <1>0, <2>2, <3>1 DEF History
    <3> QED
      BY <1>0, <2>4, <3>2
  <2>11. tasks' = [tasks EXCEPT ![r] = [tasks[r] EXCEPT ![i] = x]]
    <3>1. tasks' = [tasks EXCEPT ![r][i].stage = "storing"]
      BY <1>0, <1>2 DEF recordResult
    <3> QED
      BY <1>0, <2>5, <3>1
  <2>12. /\ \A d \in EndpointIds : /\ checks'[d] = IF d = c THEN row ELSE checks[d]
                                   /\ history'[d] = IF d = c THEN h ELSE history[d]
         /\ \A q \in Runners, k \in Slots :
               tasks'[q][k] = IF q = r /\ k = i THEN x ELSE tasks[q][k]
         /\ checks' \in [EndpointIds -> Row] /\ history' \in [EndpointIds -> History]
         /\ tasks' \in [Runners -> [Slots -> Task]]
    BY <1>0, <2>6, <2>7, <2>8, <2>9, <2>10, <2>11
  <2>13. TypeOK'
    BY <1>0, <2>12 DEF ChecksInv, TypeOK
  <2>14. ProbesKeep'
    BY <2>8, <2>12 DEF ChecksInv, ProbesKeep
  <2>15. \A q \in Runners, k \in Slots, d \in EndpointIds :
           /\ On(tasks'[q][k], d) <=> On(tasks[q][k], d)
           /\ tasks'[q][k].stage = "probing" => tasks'[q][k] = tasks[q][k] /\ ~ (q = r /\ k = i)
    BY <1>0, <2>8, <2>12 DEF On
  <2>16. On(tasks[r][i], c)
    BY <1>0 DEF On
  <2>17. ASSUME NEW d \in EndpointIds
         PROVE  Counted(d)' /\ Untouched(d)' /\ Paced(d)'
    <3>0. Counted(d) /\ Untouched(d) /\ Paced(d)
      BY DEF ChecksInv
    <3>1. CASE d # c
      <4>1. checks'[d] = checks[d] /\ history'[d] = history[d]
        BY <2>12, <3>1
      <4>2. (OneTask(d) => OneTask(d)') /\ (TasksCount(d) => TasksCount(d)')
        BY <2>15, <4>1 DEF OneTask, TasksCount
      <4>3. Counted(d)'
        BY <3>0, <4>1, <4>2 DEF Counted, Live
      <4>4. Untouched(d)' /\ Paced(d)'
        BY <2>15, <3>0, <4>1 DEF Untouched, Paced, Live
      <4> QED
        BY <4>3, <4>4
    <3>2. CASE d = c
      <4>1. checks'[c] = row /\ history'[c] = h /\ checks[c].state = "live"
        BY <1>2, <2>12 DEF updated, Live
      <4>2. Untouched(c)' /\ Paced(c)'
        BY <2>6, <2>7, <3>0, <3>2, <4>1 DEF Untouched, Paced, Live
      <4>3. ASSUME ~ overlapped
            PROVE  Matches(row, h.failures) /\ OneTask(c)' /\ TasksCount(c)'
        <5>1. CASE ~ history[c].overlapped
          <6>1. Matches(checks[c], history[c].failures) /\ OneTask(c) /\ TasksCount(c)
            BY <3>0, <3>2, <4>1, <5>1 DEF Counted, Live
          <6>2. t.failures = checks[c].consecutiveFailures
            BY <1>0, <2>16, <6>1 DEF TasksCount
          <6>3. Matches(row, h.failures)
            <7>1. history[c].failures \in NoResult..FAILURES_BEFORE_DOWN
              BY <1>0 DEF History
            <7> QED
              BY <1>0, <2>1, <2>6, <2>7, <2>7a, <6>1, <6>2, <7>1, HealthMatches
          <6>4. OneTask(c)'
            BY <2>15, <6>1 DEF OneTask
          <6>5. TasksCount(c)'
            BY <2>15, <2>16, <6>1 DEF TasksCount, OneTask
          <6> QED
            BY <6>3, <6>4, <6>5
        <5>2. CASE history[c].overlapped
          <6>1. passed /\ Probing(c) = {<<r, i>>}
            BY <2>2, <4>3, <5>2
          <6>2. ASSUME NEW q \in Runners, NEW k \in Slots, On(tasks[q][k], c)
                PROVE  q = r /\ k = i
            <7>1. <<q, k>> \in Probing(c)
              BY <6>2 DEF Probing, On
            <7> QED
              BY <6>1, <7>1
          <6>3. OneTask(c)' /\ TasksCount(c)'
            BY <2>15, <6>2 DEF OneTask, TasksCount
          <6>4. Matches(row, h.failures)
            <7>1. history[c].failures \in NoResult..FAILURES_BEFORE_DOWN
              BY <1>0 DEF History
            <7>2. row.status = "UP" /\ row.consecutiveFailures = 0
              BY <2>6, <2>7a, <6>1 DEF nextHealth
            <7>3. h.failures = 0
              BY <2>7, <6>1 DEF InARow
            <7> QED
              BY <7>2, <7>3 DEF Matches
          <6> QED
            BY <6>3, <6>4
        <5> QED
          BY <5>1, <5>2
      <4>4. Counted(c)'
        BY <2>7, <4>1, <4>3 DEF Counted
      <4> QED
        BY <3>2, <4>2, <4>4
    <3> QED
      BY <3>1, <3>2
  <2> QED
    BY <2>13, <2>14, <2>17 DEF ChecksInv
<1> QED
  BY <1>1, <1>2

-----------------------------------------------------------------------------
(* The theorems *)

LEMMA ChecksInit == Init => ChecksInv
<1> SUFFICES ASSUME Init PROVE ChecksInv
  OBVIOUS
<1>1. AnySettings \in Configs /\ 0 \in 0..MaxFailures /\ Null \in Null..intervalSec
      /\ 0 \in 0..intervalSec /\ 0 \in 0..MaxEdits /\ 0 \in 0..MaxFaults
  BY CheckAssumption, Bounds DEF AnySettings, Null
<1>2. PICK row : row = Blank("fresh")
  OBVIOUS
<1>3. row \in Row /\ row.state = "fresh" /\ row.status = "UNKNOWN" /\ row.consecutiveFailures = 0
  BY <1>1, <1>2 DEF Blank, Row, Health
<1>4. PICK h : h = [failures |-> NoResult, overlapped |-> FALSE, wait |-> 0, probed |-> {}]
  OBVIOUS
<1>5. NoResult \in NoResult..FAILURES_BEFORE_DOWN
  BY DEF NoResult, FAILURES_BEFORE_DOWN
<1>6. h \in History /\ h.failures = NoResult /\ h.overlapped = FALSE
  BY <1>1, <1>4, <1>5 DEF History
<1>7. /\ checks = [c \in EndpointIds |-> row] /\ history = [c \in EndpointIds |-> h]
      /\ tasks = [r \in Runners |-> [i \in Slots |-> Idle]]
      /\ runner = [r \in Runners |-> "up"] /\ series = [c \in EndpointIds |-> "none"]
      /\ edits = 0 /\ faults = 0
  BY <1>2, <1>4 DEF Init
<1>8. TypeOK
  BY <1>1, <1>3, <1>6, <1>7, IdleTask DEF TypeOK
<1>9. ProbesKeep
  BY <1>7, IdleTask DEF ProbesKeep
<1>10. ASSUME NEW c \in EndpointIds
       PROVE  Counted(c) /\ Untouched(c) /\ Paced(c)
  BY <1>3, <1>6, <1>7, IdleTask DEF Counted, Untouched, Paced, Live, On
<1> QED
  BY <1>8, <1>9, <1>10 DEF ChecksInv

\* What leaves rows, tasks and histories as they are keeps the invariant.
LEMMA RunnersKeep ==
    ASSUME ChecksInv, UNCHANGED <<checks, tasks, series, history, edits>>,
           runner' \in [Runners -> {"up", "stopping", "down"}], faults' \in 0..MaxFaults
    PROVE  ChecksInv'
<1>1. TypeOK' /\ ProbesKeep'
  BY DEF ChecksInv, TypeOK, ProbesKeep
<1>2. ASSUME NEW c \in EndpointIds PROVE Counted(c)' /\ Untouched(c)' /\ Paced(c)'
  <2>1. Counted(c) /\ Untouched(c) /\ Paced(c)
    BY DEF ChecksInv
  <2> QED
    BY <2>1 DEF Counted, Untouched, Paced, Live, OneTask, TasksCount, Matches
<1> QED
  BY <1>1, <1>2 DEF ChecksInv

LEMMA CrashKeeps ==
    ASSUME ChecksInv, NEW r \in Runners, Crash(r)
    PROVE  ChecksInv'
<1>0. /\ tasks \in [Runners -> [Slots -> Task]] /\ faults \in 0..MaxFaults
      /\ runner \in [Runners -> {"up", "stopping", "down"}]
  BY DEF ChecksInv, TypeOK
<1>1. /\ \A q \in Runners, k \in Slots : tasks'[q][k] = IF q = r THEN Idle ELSE tasks[q][k]
      /\ tasks' \in [Runners -> [Slots -> Task]]
  BY <1>0, IdleTask DEF Crash
<1>2. faults' \in 0..MaxFaults
  BY <1>0, Bounds DEF Crash, Fault
<1>3. TypeOK' /\ ProbesKeep'
  BY <1>0, <1>1, <1>2, IdleTask DEF Crash, ChecksInv, TypeOK, ProbesKeep
<1>4. UNCHANGED <<checks, history>>
  BY DEF Crash
<1>5. ASSUME NEW c \in EndpointIds PROVE Counted(c)' /\ Untouched(c)' /\ Paced(c)'
  <2>0. Counted(c) /\ Untouched(c) /\ Paced(c)
    BY DEF ChecksInv
  <2>1. \A q \in Runners, k \in Slots :
           On(tasks'[q][k], c) => tasks'[q][k] = tasks[q][k]
    BY <1>1, IdleTask DEF On
  <2>2. (OneTask(c) => OneTask(c)') /\ (TasksCount(c) => TasksCount(c)')
    BY <1>4, <2>1 DEF OneTask, TasksCount
  <2> QED
    BY <1>4, <2>0, <2>1, <2>2 DEF Counted, Untouched, Paced, Live, Matches
<1> QED
  BY <1>3, <1>5 DEF ChecksInv

LEMMA ProgressKeeps ==
    ASSUME ChecksInv, NEW r \in Runners, NEW i \in Slots, Progress(r, i) \/ StatementFails(r, i)
    PROVE  ChecksInv'
<1>0. /\ faults \in 0..MaxFaults /\ series \in [EndpointIds -> {"none", "passed", "failed"}]
      /\ tasks[r][i] \in Task
  BY DEF ChecksInv, TypeOK
<1>1. CASE requestOnce(r, i)
  BY <1>1, RequestKeeps
<1>2. CASE FailRequest(r, i)
  BY <1>2, FinishedProbe, ProbeMoves DEF FailRequest, InPhase
<1>3. CASE recordResult(r, i)
  BY <1>3, ResultRecorded
<1>4. CASE storePoints(r, i)
  <2>1. tasks[r][i].probe.phase \in {"passed", "failed"}
    BY <1>0, <1>4 DEF storePoints, ChecksInv, ProbesKeep, Task, ProbeState
  <2>2. series' \in [EndpointIds -> {"none", "passed", "failed"}]
    BY <1>0, <1>4, <2>1 DEF storePoints
  <2> QED
    BY <1>0, <1>4, <2>2, TaskEnds DEF storePoints
<1>5. CASE StatementFails(r, i)
  <2>1. faults' \in 0..MaxFaults
    BY <1>0, <1>5, Bounds DEF StatementFails, Fault
  <2> QED
    BY <1>0, <1>5, <2>1, TaskEnds DEF StatementFails
<1> QED
  BY <1>1, <1>2, <1>3, <1>4, <1>5 DEF Progress

LEMMA ChecksNext == ChecksInv /\ [Next]_vars => ChecksInv'
<1> SUFFICES ASSUME ChecksInv, [Next]_vars PROVE ChecksInv'
  OBVIOUS
<1>0. runner \in [Runners -> {"up", "stopping", "down"}] /\ faults \in 0..MaxFaults
  BY DEF ChecksInv, TypeOK
<1>1. CASE Tick
  BY <1>1, TickKeeps
<1>2. ASSUME NEW c \in EndpointIds, Member(c) PROVE ChecksInv'
  BY <1>2, MembersKeep
<1>3. ASSUME NEW r \in Runners, Process(r) PROVE ChecksInv'
  <2>1. CASE Claim(r)
    BY <2>1, ClaimKeeps DEF Claim
  <2>2. CASE Exit(r) \/ Start(r)
    BY <1>0, <2>2, RunnersKeep DEF Exit, Start
  <2> QED
    BY <1>3, <2>1, <2>2 DEF Process
<1>4. ASSUME NEW r \in Runners, Stop(r) PROVE ChecksInv'
  <2>1. faults' \in 0..MaxFaults
    BY <1>0, <1>4, Bounds DEF Stop, Fault
  <2> QED
    BY <1>0, <1>4, <2>1, RunnersKeep DEF Stop
<1>5. ASSUME NEW r \in Runners, Crash(r) PROVE ChecksInv'
  BY <1>5, CrashKeeps
<1>6. ASSUME NEW r \in Runners, NEW i \in Slots, Progress(r, i) \/ StatementFails(r, i)
      PROVE  ChecksInv'
  BY <1>6, ProgressKeeps
<1>7. CASE UNCHANGED vars
  BY <1>0, <1>7, RunnersKeep DEF vars
<1> QED
  BY <1>1, <1>2, <1>3, <1>4, <1>5, <1>6, <1>7 DEF Next

LEMMA ChecksInductive == Spec => []ChecksInv
BY ChecksInit, ChecksNext, PTL DEF Spec

\* Rows, runners and their tasks, the series and the history keep their types.
THEOREM Typing == Spec => []TypeOK
<1>1. ChecksInv => TypeOK
  BY DEF ChecksInv
<1> QED
  BY <1>1, ChecksInductive, PTL

\* However long the chain of redirects: no request carries the configured headers
\* to another origin or the configured body under another method, and none
\* connects to an address that was not vetted (probe.ts, target-guard.ts).
THEOREM RequestsKeep == Spec => []RequestsKeepToConfig
<1>1. ChecksInv => RequestsKeepToConfig
  BY DEF ChecksInv, ProbesKeep, Keeps, RequestsKeepToConfig
<1> QED
  BY <1>1, ChecksInductive, PTL

\* Whatever runners crash, statements fail and members edit, the status says
\* what the last results were where no probes of the check overlapped
\* (nextHealth and recordResult, runner.ts).
THEOREM StatusCounts == Spec => []DownAfterTwoFailures
<1>1. ChecksInv => DownAfterTwoFailures
  <2> SUFFICES ASSUME ChecksInv, NEW c \in EndpointIds, Live(c), ~ history[c].overlapped
               PROVE  checks[c].status = CASE history[c].failures = NoResult -> "UNKNOWN"
                                           [] history[c].failures = 0 -> "UP"
                                           [] history[c].failures = 1 -> "DEGRADED"
                                           [] OTHER -> "DOWN"
    BY DEF DownAfterTwoFailures
  <2>1. Matches(checks[c], history[c].failures)
    BY DEF ChecksInv, Counted
  <2> QED
    BY <2>1 DEF Matches, NoResult
<1> QED
  BY <1>1, ChecksInductive, PTL

\* However many runners look for due checks: a check is claimed only once the
\* interval of its last claim is over, or a member asked (claimDueChecks).
THEOREM ClaimsPaced == Spec => ClaimsArePaced
<1> DEFINE Body == \A c \in EndpointIds :
          (\E r \in Runners, i \in Slots :
              tasks[r][i].stage = "idle" /\ tasks'[r][i].stage # "idle"
                  /\ tasks'[r][i].check = c)
          => history[c].wait = 0
<1>1. ChecksInv /\ [Next]_vars => Body
  <2> SUFFICES ASSUME ChecksInv, [Next]_vars, NEW c \in EndpointIds,
                      NEW q \in Runners, NEW k \in Slots,
                      tasks[q][k].stage = "idle", tasks'[q][k].stage # "idle",
                      tasks'[q][k].check = c
               PROVE  history[c].wait = 0
    OBVIOUS
  <2>0. /\ tasks \in [Runners -> [Slots -> Task]] /\ checks[c] \in Row
        /\ history[c] \in History /\ Paced(c)
    BY DEF ChecksInv, TypeOK
  <2>1. tasks' # tasks
    OBVIOUS
  <2>2. ASSUME NEW r \in Runners, NEW i \in Slots, Progress(r, i) \/ StatementFails(r, i)
        PROVE  FALSE
    <3>1. tasks[r][i].stage # "idle"
      BY <2>2 DEF Progress, StatementFails, requestOnce, FailRequest, recordResult, storePoints,
                  InPhase
    <3>2. ~ (q = r /\ k = i)
      BY <3>1
    <3>3. \E x : tasks' = [tasks EXCEPT ![r] = [tasks[r] EXCEPT ![i] = x]]
      <4>1. ASSUME NEW p, StepProbe(r, i, p)
            PROVE  \E x : tasks' = [tasks EXCEPT ![r] = [tasks[r] EXCEPT ![i] = x]]
        BY <2>0, <4>1 DEF StepProbe
      <4>2. CASE requestOnce(r, i) \/ FailRequest(r, i)
        BY <4>1, <4>2 DEF requestOnce, FailRequest
      <4>3. CASE recordResult(r, i)
        BY <2>0, <4>3 DEF recordResult
      <4>4. CASE storePoints(r, i) \/ StatementFails(r, i)
        BY <2>0, <4>4 DEF storePoints, StatementFails
      <4> QED
        BY <2>2, <4>2, <4>3, <4>4 DEF Progress
    <3>4. tasks'[q][k] = tasks[q][k]
      BY <2>0, <3>2, <3>3
    <3> QED
      BY <3>4
  <2>3. ASSUME NEW r \in Runners, Crash(r) PROVE FALSE
    BY <2>0, <2>3, IdleTask DEF Crash
  <2>4. PICK r \in Runners : Claim(r)
    BY <2>1, <2>2, <2>3 DEF Next, vars, Tick, Member, createEndpoint, updateEndpoint,
       setEndpointEnabled, requestEndpointCheck, deleteEndpoint, Asked, Process, Exit, Start, Stop
  <2>5. Due(c)
    <3>1. PICK S \in SUBSET EndpointIds : claimDueChecks(r, S)
      BY <2>4 DEF Claim
    <3>2. tasks'[q][k] # tasks[q][k]
      OBVIOUS
    <3> QED
      BY <3>1, <3>2, ClaimKeeps
  <2>6. /\ history[c].wait = 0 \/ history[c].wait <= checks[c].nextRunAt
        /\ checks[c].nextRunAt <= 0 /\ history[c].wait \in 0..intervalSec
        /\ checks[c].nextRunAt \in Null..intervalSec
    BY <2>0, <2>5 DEF Paced, Due, Row, History
  <2> QED
    BY <2>6, Bounds DEF Null
<1>2. ChecksInv /\ [Next]_vars => [Body]_vars
  BY <1>1
<1> QED
  BY <1>2, ChecksInductive, PTL DEF Spec, ClaimsArePaced
=============================================================================

------------------------------- MODULE Checks -------------------------------
(***************************************************************************)
(* The endpoint checks: what members do to them (modules/saas/endpoints.ts *)
(* behind app/actions/endpoints.ts) and the runners that probe them        *)
(* (modules/saas/runner/runner.ts, started by scripts/worker.ts), several  *)
(* of which may run at once.                                               *)
(*                                                                         *)
(* A claim is one SQL statement; the probe, the update of the check's row  *)
(* and the insertion of the time series each come later, with anything in  *)
(* between.  nextRunAt is kept relative to now, so time needs no bound:    *)
(* every Tick brings it closer.  Attempts that the code refuses (not       *)
(* permitted, no such check, not an http(s) URL) change nothing and are    *)
(* left out.  Storing the points evaluates the alert rules on them, which  *)
(* is the business of module AlertEngine and never fails the task.         *)
(***************************************************************************)
EXTENDS Probe, Integers, FiniteSets, Functions

CONSTANTS
    EndpointIds,     \* ids of checks; one is used once
    Runners,         \* worker processes
    Configs,         \* settings members choose from
    Responses,       \* what endpoints answer
    concurrency,     \* CHECK_RUNNER_CONCURRENCY
    intervalSec,     \* ticks between two runs of a check
    MaxLate,         \* bound: ticks of lateness told apart
    MaxFailures,     \* bound: consecutive failures told apart
    MaxEdits,        \* bound: changes by members
    MaxFaults        \* bound: stops and crashes of runners, failed statements

FAILURES_BEFORE_DOWN == 2

ASSUME CheckAssumption ==
    /\ EndpointIds # {} /\ Configs # {}
    /\ Configs \subseteq Settings /\ Responses \subseteq HopResponse
    /\ {concurrency, intervalSec} \subseteq Nat \ {0}
    /\ MaxFailures \in Nat /\ MaxFailures >= FAILURES_BEFORE_DOWN
    /\ {MaxLate, MaxEdits, MaxFaults} \subseteq Nat

VARIABLES
    checks,   \* endpoint_checks rows
    runner,   \* the state of each worker process
    tasks,    \* inFlight: what each of a runner's slots is doing
    series,   \* the last ENDPOINT_AVAILABLE point of each check
    history,  \* what happened to each check, for the properties
    edits, faults

vars == <<checks, runner, tasks, series, history, edits, faults>>

Null == -MaxLate - 1                   \* nextRunAt IS NULL
Health == {"UNKNOWN", "UP", "DEGRADED", "DOWN"}
Row == [state : {"fresh", "live", "deleted"}, settings : Configs, enabled : BOOLEAN,
        nextRunAt : Null..intervalSec, status : Health,
        consecutiveFailures : 0..MaxFailures]
Slots == 1..concurrency
Anyone == CHOOSE c \in EndpointIds : TRUE
AnySettings == CHOOSE s \in Configs : TRUE
Task == [stage : {"idle", "probing", "storing"}, check : EndpointIds, settings : Configs,
         failures : 0..MaxFailures, probe : ProbeState]
Idle == [stage |-> "idle", check |-> Anyone, settings |-> AnySettings, failures |-> 0,
         probe |-> Finished(FALSE)]

\* failures: how many of the last results recorded in a row failed (NoResult: none
\* was recorded).  overlapped: a probe was begun beside another of the same check
\* since the last quiet success.  wait: ticks left of the interval that the last
\* claim began, none once a member asked for a run.  probed: the settings of the
\* last result recorded.
NoResult == -1
History == [failures : NoResult..FAILURES_BEFORE_DOWN, overlapped : BOOLEAN,
            wait : 0..intervalSec, probed : SUBSET Configs]

TypeOK ==
    /\ checks \in [EndpointIds -> Row]
    /\ runner \in [Runners -> {"up", "stopping", "down"}]
    /\ tasks \in [Runners -> [Slots -> Task]]
    /\ series \in [EndpointIds -> {"none", "passed", "failed"}]
    /\ history \in [EndpointIds -> History]
    /\ edits \in 0..MaxEdits /\ faults \in 0..MaxFaults

Live(c) == checks[c].state = "live"
Busy(r) == {i \in Slots : tasks[r][i].stage # "idle"}
Probing(c) == {ri \in Runners \X Slots :
                  /\ tasks[ri[1]][ri[2]].stage # "idle"
                  /\ tasks[ri[1]][ri[2]].check = c}

\* The defaults of a new row; a row that does not exist has them too.
Blank(state) ==
    [state |-> state, settings |-> AnySettings, enabled |-> TRUE, nextRunAt |-> Null,
     status |-> "UNKNOWN", consecutiveFailures |-> 0]

Init ==
    /\ checks = [c \in EndpointIds |-> Blank("fresh")]
    /\ runner = [r \in Runners |-> "up"]
    /\ tasks = [r \in Runners |-> [i \in Slots |-> Idle]]
    /\ series = [c \in EndpointIds |-> "none"]
    /\ history = [c \in EndpointIds |->
          [failures |-> NoResult, overlapped |-> FALSE, wait |-> 0, probed |-> {}]]
    /\ edits = 0 /\ faults = 0

-----------------------------------------------------------------------------
(* What members do *)

Edit == edits < MaxEdits /\ edits' = edits + 1

\* A new check, an edited one and an enabled one run at the next opportunity.
Asked(c, row) ==
    /\ checks' = [checks EXCEPT ![c] = [row EXCEPT !.nextRunAt = Null]]
    /\ history' = [history EXCEPT ![c].wait = 0]
    /\ UNCHANGED <<runner, tasks, series, faults>>

createEndpoint(c, s) ==
    /\ Edit /\ checks[c].state = "fresh" /\ normalizeUrl(s.url)
    /\ Asked(c, [checks[c] EXCEPT !.state = "live", !.settings = s])

\* Neither the status nor the failures counted so far are reset.
updateEndpoint(c, s) ==
    /\ Edit /\ Live(c) /\ normalizeUrl(s.url)
    /\ Asked(c, [checks[c] EXCEPT !.settings = s])

setEndpointEnabled(c, enabled) ==
    /\ Edit /\ Live(c)
    /\ IF enabled
       THEN Asked(c, [checks[c] EXCEPT !.enabled = TRUE])
       ELSE /\ checks' = [checks EXCEPT ![c].enabled = FALSE]
            /\ UNCHANGED <<runner, tasks, series, history, faults>>

requestEndpointCheck(c) ==
    /\ Edit /\ Live(c) /\ checks[c].enabled
    /\ Asked(c, checks[c])

deleteEndpoint(c) ==
    /\ Edit /\ Live(c)
    /\ checks' = [checks EXCEPT ![c] = Blank("deleted")]
    /\ UNCHANGED <<runner, tasks, series, history, faults>>

-----------------------------------------------------------------------------
(* The runner *)

\* runCheckLoop looks every tickMs, far more often than any interval: time does
\* not pass a check that has been due for long while a runner could take it.
Due(c) == Live(c) /\ checks[c].enabled /\ checks[c].nextRunAt <= 0
Free(r) == runner[r] = "up" /\ Busy(r) # Slots

Tick ==
    /\ ~ \E r \in Runners, c \in EndpointIds :
           Free(r) /\ Due(c) /\ checks[c].nextRunAt <= -MaxLate
    /\ checks' = [c \in EndpointIds |->
          [checks[c] EXCEPT !.nextRunAt = IF @ > -MaxLate THEN @ - 1 ELSE @]]
    /\ history' = [c \in EndpointIds |->
          [history[c] EXCEPT !.wait = IF @ = 0 THEN @ ELSE @ - 1]]
    /\ UNCHANGED <<runner, tasks, series, edits, faults>>

\* ORDER BY nextRunAt ASC NULLS FIRST LIMIT n: which sets may be claimed.
OldestDue(n) ==
    LET due == {c \in EndpointIds : Due(c)}
    IN  {S \in SUBSET due :
            /\ Cardinality(S) = IF Cardinality(due) < n THEN Cardinality(due) ELSE n
            /\ \A c \in S, d \in due \ S : checks[c].nextRunAt <= checks[d].nextRunAt}

Claimed_InPlace(c) == checks[c]

\* Take the due checks and push their next run one interval ahead.  The settings
\* and the failures counted so far are those the statement returned.
Claimed(c) == [checks[c] EXCEPT !.nextRunAt = intervalSec]

claimDueChecks(r, S) ==
    /\ Free(r) /\ S # {} /\ S \in OldestDue(Cardinality(Slots \ Busy(r)))
    /\ checks' = [c \in EndpointIds |-> IF c \in S THEN Claimed(c) ELSE checks[c]]
    /\ LET slot == CHOOSE f \in Injection(S, Slots \ Busy(r)) : TRUE
           task(c) == [stage |-> "probing", check |-> c, settings |-> checks[c].settings,
                       failures |-> checks[c].consecutiveFailures,
                       probe |-> BeginProbe(checks[c].settings)]
       IN  tasks' = [tasks EXCEPT ![r] = [i \in Slots |->
                IF \E c \in S : slot[c] = i THEN task(CHOOSE c \in S : slot[c] = i) ELSE @[i]]]
    /\ history' = [c \in EndpointIds |->
          IF c \in S
          THEN [history[c] EXCEPT !.overlapped = @ \/ Probing(c) # {},
                                  !.wait = intervalSec]
          ELSE history[c]]
    /\ UNCHANGED <<runner, series, edits, faults>>

InPhase(r, i, phase) == tasks[r][i].stage = "probing" /\ tasks[r][i].probe.phase = phase

StepProbe(r, i, p) ==
    /\ tasks' = [tasks EXCEPT ![r][i].probe = p]
    /\ UNCHANGED <<checks, runner, series, history, edits, faults>>

requestOnce(r, i) ==
    /\ InPhase(r, i, "requesting")
    /\ \E addresses \in Reachable(tasks[r][i].probe.url), response \in Responses :
          StepProbe(r, i, Respond([tasks[r][i].probe EXCEPT !.addresses = addresses],
                                  tasks[r][i].settings, response))

\* The lookup is refused, the connection fails, or timeoutMs have passed since
\* the probe began.
FailRequest(r, i) ==
    /\ InPhase(r, i, "requesting")
    /\ StepProbe(r, i, Finished(FALSE))

nextHealth_NoReset(passed, previousFailures) ==
    LET failures == IF previousFailures < MaxFailures THEN previousFailures + 1
                                                      ELSE MaxFailures
    IN  IF passed THEN [status |-> "UP", consecutiveFailures |-> previousFailures]
        ELSE [status |-> IF failures >= FAILURES_BEFORE_DOWN THEN "DOWN" ELSE "DEGRADED",
              consecutiveFailures |-> failures]

nextHealth(passed, previousFailures) ==
    LET failures == IF previousFailures < MaxFailures THEN previousFailures + 1
                                                      ELSE MaxFailures
    IN  IF passed THEN [status |-> "UP", consecutiveFailures |-> 0]
        ELSE [status |-> IF failures >= FAILURES_BEFORE_DOWN THEN "DOWN" ELSE "DEGRADED",
              consecutiveFailures |-> failures]

Passed(r, i) == tasks[r][i].probe.phase = "passed"

InARow(failures, passed) ==
    IF passed THEN 0
    ELSE IF failures = NoResult THEN 1
    ELSE IF failures < FAILURES_BEFORE_DOWN THEN failures + 1 ELSE failures

\* updateMany found the row.
updated(c) == Live(c)

\* recordResult, first statement: nothing more happens if the row is gone.
recordResult(r, i) ==
    LET t == tasks[r][i]
        c == t.check
        health == nextHealth(Passed(r, i), t.failures)
    IN  /\ InPhase(r, i, "passed") \/ InPhase(r, i, "failed")
        /\ IF updated(c)
           THEN /\ checks' = [checks EXCEPT
                      ![c].status = health.status,
                      ![c].consecutiveFailures = health.consecutiveFailures]
                /\ tasks' = [tasks EXCEPT ![r][i].stage = "storing"]
                /\ history' = [history EXCEPT
                      ![c].failures = InARow(@, Passed(r, i)),
                      ![c].overlapped = @ /\ ~ (Passed(r, i) /\ Probing(c) = {<<r, i>>}),
                      ![c].probed = {t.settings}]
           ELSE /\ tasks' = [tasks EXCEPT ![r][i] = Idle]
                /\ UNCHANGED <<checks, history>>
        /\ UNCHANGED <<runner, series, edits, faults>>

storePoints_SuccessesOnly(r, i) ==
    /\ tasks[r][i].stage = "storing"
    /\ series' = [series EXCEPT ![tasks[r][i].check] = IF Passed(r, i) THEN "passed" ELSE @]
    /\ tasks' = [tasks EXCEPT ![r][i] = Idle]
    /\ UNCHANGED <<checks, runner, history, edits, faults>>

\* recordResult, second statement; the point's time is the result's.
storePoints(r, i) ==
    /\ tasks[r][i].stage = "storing"
    /\ series' = [series EXCEPT ![tasks[r][i].check] = tasks[r][i].probe.phase]
    /\ tasks' = [tasks EXCEPT ![r][i] = Idle]
    /\ UNCHANGED <<checks, runner, history, edits, faults>>

Fault == faults < MaxFaults /\ faults' = faults + 1

\* Either statement fails: "could not store result", and the task is over.
StatementFails(r, i) ==
    /\ Fault
    /\ InPhase(r, i, "passed") \/ InPhase(r, i, "failed") \/ tasks[r][i].stage = "storing"
    /\ tasks' = [tasks EXCEPT ![r][i] = Idle]
    /\ UNCHANGED <<checks, runner, series, history, edits>>

\* SIGTERM: no more claims; the tasks in flight end and are stored.
Stop(r) ==
    /\ Fault /\ runner[r] = "up"
    /\ runner' = [runner EXCEPT ![r] = "stopping"]
    /\ UNCHANGED <<checks, tasks, series, history, edits>>

Exit(r) ==
    /\ runner[r] = "stopping" /\ Busy(r) = {}
    /\ runner' = [runner EXCEPT ![r] = "down"]
    /\ UNCHANGED <<checks, tasks, series, history, edits, faults>>

Crash(r) ==
    /\ Fault /\ runner[r] # "down"
    /\ runner' = [runner EXCEPT ![r] = "down"]
    /\ tasks' = [tasks EXCEPT ![r] = [i \in Slots |-> Idle]]
    /\ UNCHANGED <<checks, series, history, edits>>

Start(r) ==
    /\ runner[r] = "down"
    /\ runner' = [runner EXCEPT ![r] = "up"]
    /\ UNCHANGED <<checks, tasks, series, history, edits, faults>>

Member(c) ==
    \/ \E s \in Configs : createEndpoint(c, s) \/ updateEndpoint(c, s)
    \/ \E enabled \in BOOLEAN : setEndpointEnabled(c, enabled)
    \/ requestEndpointCheck(c) \/ deleteEndpoint(c)

Progress(r, i) ==
    requestOnce(r, i) \/ FailRequest(r, i) \/ recordResult(r, i) \/ storePoints(r, i)

Claim(r) == \E S \in SUBSET EndpointIds : claimDueChecks(r, S)

\* What a worker process and its supervisor do; one of them at a time is enabled.
Process(r) == Claim(r) \/ Exit(r) \/ Start(r)

Next ==
    \/ Tick
    \/ \E c \in EndpointIds : Member(c)
    \/ \E r \in Runners :
          \/ Process(r) \/ Stop(r) \/ Crash(r)
          \/ \E i \in Slots : Progress(r, i) \/ StatementFails(r, i)

Fairness ==
    /\ WF_vars(Tick)
    /\ \A r \in Runners : WF_vars(Process(r))
    /\ \A r \in Runners, i \in Slots : WF_vars(Progress(r, i))

Spec == Init /\ [][Next]_vars
FairSpec == Spec /\ Fairness

-----------------------------------------------------------------------------
(* Properties *)

\* A request carrying the configured headers, which may hold credentials, goes
\* to the origin they were configured for, however many redirects came before;
\* one carrying the configured body uses the configured method; and only
\* addresses that were vetted are connected to (probe.ts, target-guard.ts).
RequestsKeepToConfig ==
    \A r \in Runners, i \in Slots :
        LET t == tasks[r][i] IN
        t.stage = "probing" /\ t.probe.phase = "requesting" =>
            /\ t.probe.headers => t.probe.url.origin = t.settings.url.origin
            /\ t.probe.body => t.probe.method = t.settings.method
            /\ allowPrivateTargets \/ t.probe.addresses \subseteq PublicAddresses

\* The status of a check says what its last results were: DEGRADED after one
\* failure, DOWN after two in a row (FAILURES_BEFORE_DOWN), whatever crashed,
\* failed to be stored or was edited in between.  Probes of one check that
\* overlap count from the same value, so it is claimed only where none did
\* since the last success.
DownAfterTwoFailures ==
    \A c \in EndpointIds : Live(c) /\ ~ history[c].overlapped =>
        checks[c].status = CASE history[c].failures = NoResult -> "UNKNOWN"
                             [] history[c].failures = 0 -> "UP"
                             [] history[c].failures = 1 -> "DEGRADED"
                             [] OTHER -> "DOWN"

\* A check claimed by one runner is not due again for the others until its
\* interval has elapsed (claimDueChecks), unless a member asked for a run.
ClaimsArePaced ==
    [][\A c \in EndpointIds :
          (\E r \in Runners, i \in Slots :
              tasks[r][i].stage = "idle" /\ tasks'[r][i].stage # "idle"
                  /\ tasks'[r][i].check = c)
          => history[c].wait = 0]_vars

\* An enabled check is eventually probed with the settings it has, and its row and
\* its time series agree about the result, whatever runners stop or crash on the
\* way: a crash loses one run, an edit made while the old settings are probed is
\* not lost, and when one of the two statements that record a result fails, alert
\* rules and availability still come to see what the page shows.
ResultsCatchUp ==
    \A c \in EndpointIds :
        []<>(Live(c) /\ checks[c].enabled =>
                /\ history[c].probed = {checks[c].settings}
                /\ series[c] = IF checks[c].status = "UP" THEN "passed" ELSE "failed")
=============================================================================

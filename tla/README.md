# A TLA+ verification project for IkelyaneMonitor

IkelyaneMonitor is an infrastructure-monitoring platform: a Next.js server with a
PostgreSQL/TimescaleDB database, a background worker, and a Go agent on every monitored
host. This directory models the parts of it that run concurrently or fail independently,
checks them with TLC on small instances, and proves the central properties with TLAPS for
every instance.

Paths below are relative to the repository root. `exec.ts` is short for
`src/modules/remediation/executions.ts`, `evaluate.ts` for `src/modules/alerts/evaluate.ts`.

## 1. The system

| Component | State | Operations | Interacts with |
|---|---|---|---|
| Remediation, server side (`src/modules/remediation`, `/api/v1/remediation/*`) | `remediation_actions`, `remediation_executions` | create (manual, alert), approve, cancel, deliver, record result; create, edit, toggle, delete an action | alert engine, agents, worker, incident timeline |
| Remediation, agent side (`agent/internal/remediation`, `main.go`) | one job at a time, local policy | poll, refuse, run, kill at the deadline, report with retries | `/next`, `/result`, heartbeat |
| Worker (`scripts/worker.ts`) | none | expire queued and unapproved executions, time out lost ones; run checks; serve narratives | executions, endpoints, incidents |
| Telemetry ingestion (`/api/v1/telemetry`, `src/lib/telemetry`) | metric samples, host snapshot and heartbeat | authenticate (signed body, clock skew), store a batch idempotently, evaluate rules | agent buffer, alert engine |
| Agent delivery (`agent/internal/buffer`, `telemetry`) | on-disk queue of signed-later batches, capped in number and age | collect, send, buffer on failure, flush in order, drop what is refused | ingestion |
| Alert engine (`src/modules/alerts/evaluate.ts`) | incidents, their events, last notification | streaks over stored samples, open, update, renotify, auto-resolve; trigger remediation | ingestion, incidents, notifications, remediation, RCA |
| Incidents (`src/modules/incidents/service.ts`) | incident status and timeline | acknowledge, resolve, reopen, re-analyse | alert engine, RCA |
| RCA and narratives (`src/modules/aiops`) | cause, confidence, narrative request with attempts and a lease | analyse, request, claim, serve, give up | incidents, worker |
| Endpoint checks (`src/modules/saas`) | next run, health, consecutive failures | claim due checks, probe, record, edit, check now | worker |
| Identity (`src/lib/auth`) | users, sessions, memberships, invitations, throttles, two-factor secrets and recovery codes | login, second factor, sessions, invite, accept, change role, remove | every server action |
| Hosts (`src/modules/servers/hosts.ts`) | agent secret and its predecessor with a grace period, enabled flag | register, rotate, enable | ingestion, remediation |
| Topology (`src/modules/topology`) | dependency graph | edit edges, blast radius, root-cause candidates, layout | RCA |
| Network devices (`src/modules/network`, `agent/internal/snmp`) | device and interface rows, counters | configure, poll, ingest | ingestion |
| Databases (`src/modules/databases`, `agent/internal/dbmetrics`) | instance rows, slow queries | collect, ingest | ingestion |
| Notifications (`src/lib/notify`) | none | e-mail, webhooks | alert engine |
| Energy and cost (`src/modules/finops`) | none | formulas | pages |
| UI, i18n, deployment | none | rendering | everything |

Behaviours that are hard to test, and where they are:

* **Interleaving.** A creation is a multi-statement transaction at READ COMMITTED; the
  advisory lock is taken half-way, after the action and the host were read. Claims,
  cancellations, sweeps and reports meet on one row. Rule evaluations of overlapping
  batches have no lock at all. Role changes race with removals.
* **Lost and repeated messages.** An execution is RUNNING before the answer that carries
  it leaves the server. A report is retried after its answer was lost. A batch that was
  stored but not acknowledged is sent again from the buffer.
* **Timeouts.** Three times-to-live with different origins; a result that arrives after
  the execution was declared lost; a lease on narrative requests.
* **Crashes.** Between a commit and the event that follows it; of an agent in the middle
  of a script; of the worker between claiming and answering.
* **Limits.** Attempts, buffer entries, rate windows, the last owner of an organization.

What makes each component correct, in one sentence each: remediation runs a script at most
once, only when allowed, and every execution gets one outcome; the buffer loses only what
it must, and drains; the alert engine's incidents agree with the conditions of its
rules, without piling up; narratives are requested a bounded number of times and never stay
pending; a check runs once per due time; an organization always keeps an owner; a rotated
secret stays usable for its grace period; the graph algorithms compute reachability.

## 2. Plan

The plan is complete: every component has its proofs, and every safety property that a run
checks is a theorem. Liveness stays with TLC (section 10).

| Order | Modules | Status |
|---|---|---|
| 1 | `ExecutionLifecycle` (abstract), `Remediation` (server + agent + worker), `MCRemediation`, `RemediationProofs`, `RemediationDeliveryProofs` | done, proved |
| 2 | `AlertEngine` (evaluation, incidents, rules, notifications, with concurrent batches), `MCAlertEngine`, `AlertEngineProofs` | done, proved |
| 3 | `Membership` (roles, removal, invitations), `MCMembership`, `MembershipProofs` | done, proved |
| 4 | `SignIn` (throttle, sessions, password, second factor), `MCSignIn`, `SignInProofs` | done, proved |
| 5 | `Telemetry` (agent cycle, buffer, transport, ingestion, host secrets, devices, databases), `MCTelemetry`, `TelemetryProofs` | done, proved |
| 6 | `Probe` (one HTTP check), `Checks` (scheduling, runners, members), `MCChecks`, `ChecksProofs` | done, proved |
| 7 | `DependencyGraph` (algorithms), `Topology` (the map), `Rca` (analyses, narratives, workers), `MCRca`, `RcaProofs` | done, proved |

How modules fit together: `Checks` extends `Probe`; `Rca` extends `Topology`, which extends
`DependencyGraph`. Between the others the seam is an action: what a batch of `Telemetry`
stores is what `Ingest` of `AlertEngine` evaluates; an incident that `AlertEngine` opens is
analysed by `Evaluate`/`Open` of `Rca` and triggers `StartAlert` of `Remediation`; points
that `Checks` stores are evaluated like a batch. Each of the modules covers the other side of
its seam by leaving it unconstrained (any batch, at any time, any number of times; any
incident may open), so that what is checked does not depend on the other module.

One run answers one question about one component. Disagreements between code and comments
that a reader sees at once, without a state space, are described in the section of their
component instead of being given a run.

## 3. Remediation

### The model

`Remediation` has one variable per table or per set of processes:

| Variable | Code |
|---|---|
| `actions`, `exec` | the rows of `RemediationAction` and `RemediationExecution` (`prisma/schema.prisma`) |
| `hosts` | the columns of the host row that the guard-rails read |
| `req` | the local variables of `createExecution` and `approveExecution` between two statements |
| `claim` | the local variables of `claimNextExecution` and the answer of `/next` |
| `agent` | the agent's loop in `main.go` with the job it holds |
| `sweep` | the `now` of `sweepExecutions` between its statements |
| `clock`, `nextExec`, `edits` | time in ticks, row allocation, and a bound |
| `log` | history: what no column records and the properties need |

An action is one database statement together with the code up to the next one, because
that is where READ COMMITTED lets other transactions in. The steps of a creation are
`StartRun`/`StartAlert`, `ReadAction`, `ReadHost`, `LockAndScan` (the advisory lock and the
query under it), `Insert` (which commits and releases the lock) and `LogStarted`. The
guard-rails are one operator, `GuardrailViolation`, in the order of `guard.ts`.
`RequestDies`, `ClaimDies`, `PollFails`, `ReportFails`, `AgentStop` and `AgentStart` are
the failures: a process may stop between any two statements, an answer or a report may be
lost before or after it took effect.

Abstractions: a script stands for the whole frozen snapshot and is identified with its
SHA-256; audit rows are append-only and read by nothing here; output text, forms and
labels are left out; the creation time is any time between the request's `now` and the
insert, since it is a column default. The `429`/`5xx` answers of a poll and a refused
signature are all `PollFails`. A heartbeat carries the policy of the agent that is running:
batches buffered by an earlier run with another policy and replayed later, which overwrite
it until the next fresh sample, are left out (section 7). The abstraction of the agent's
process handling is that a script ends by itself before its deadline or is killed at it.

`ExecutionLifecycle` is what the subsystem promises: the state diagram in the header of
`exec.ts`, one live execution per action and host, and a script that starts at most once
after it was handed out. `Lifecycle` maps the table to it.

### The runs

| Run | Question | Result |
|---|---|---|
| `remediation_guard` | Do concurrent creations, with deliveries and reports in between, respect one-live, cooldown and hourly limit? | holds |
| `remediation_delivery` | Around one execution, with two handlers, lost answers, repeated reports, restarts, cancellations and sweeps: does it run once, never after a cancellation, and keep its first outcome? | holds |
| `remediation_settles` | Does every execution get an outcome if only the worker and time make progress? | holds |
| `remediation_approval` | Does a script that requires an approval ever run without one? | it can: finding |

Bounds, and why they are enough to reach the interesting cases: `guard` has two requests
(a race needs two), three executions (so that an hourly limit of two is exceeded by a
third), a cooldown longer than the rate window and one without cooldown, and two ticks past
the window. `delivery` has two handlers for one host (an agent that gave up on one poll and
sends the next), two claim attempts and two report attempts (a retry after success), and a
zero time-to-live, so that the sweep competes with the claim at once. `settles` has a fixed
target with an operating-system filter, a trigger without host, and approvals nobody gives.
Administrators' edits are bounded by `MaxEdits`; after `Horizon` nothing new is asked, so
that what was asked can settle before `MaxClock`. Requests are interchangeable, so `guard`
uses their permutations as symmetry; the liveness run uses no symmetry.

Deadlock checking stays on: the sweep always has a next step where there is a worker, and
time or a heartbeat elsewhere.

Fairness is weak fairness of the clock and of each worker's sweep. `every` in
`scripts/worker.ts` repeats the sweep every 30 s and survives its errors; a service manager
restarts the process. Nothing is assumed of people, web requests, agents or the network.

### Findings

* `remediation_approval`: `triggerForIncident` reads `requiresApproval` in a query of its
  own, and `createExecution` reads the action again to freeze the script. An edit in
  between that changes the script and makes it require approval produces a PENDING
  execution of the new script that nobody approved.

Also met while modelling, without a run: the PENDING time-to-live (`exec.ts:25`: "Queued executions
no agent collected are cancelled after this long") is measured from `createdAt` (`exec.ts:284`),
which for an approved execution is when the alert fired. One approved after more than an
hour is cancelled by the next sweep, before an agent could pick it up.

### The proofs

All theorems are about `Spec` with arbitrary constants satisfying `RemediationConstants`
(types of the settings, positive attempt counts, `None` different from every identifier).

* `RemediationProofs`: `Typing`. `TypeOK` is not inductive, because fields that are `None`
  at rest are used to index tables; `Contexts` says which are present at which program
  counter. The module also summarises what a step can do to the table (`StepEffect`): it
  inserts the row `nextExec` (`InsertEffect`) or it moves rows along the life cycle
  (`Moves`). The later proofs only use this summary. `Fresh` is the invariant that rows from
  `nextExec` on are blank.
  In the same module, `OneLive` and `Cooldown`. The inductive invariant adds that holders of
  the advisory lock have different keys (`LockExclusive`) and that a holder the guard-rails
  let through is still clear (`Scanned`): no live execution of its key, every
  counted one a cooldown old. It stays true because moves never revive an execution and
  only a holder of the same key could insert one. `PassedGuard` is the lemma about the pure
  part: rows the query leaves out cannot violate the cooldown.
  `RateLimit` has an invariant of its own (`RateInv`): a holder the guard-rails let through
  has room, fewer counted executions of its key in the last hour than the limit it read
  (`RoomLeft`). `PassedRate` shows that the limit is counted over enough rows, and the same
  summary of a step that no other request uses the room up before the holder inserts.
* `RemediationDeliveryProofs`: `StartsOnce`, `CancelledIsNeverRun`, `FinishedEvent`,
  `OutcomeFinal` and `Refinement`. The inductive invariant follows the right to start a
  script: at most one handler or agent holds it (`HolderExclusive`), a holder's execution
  was handed out and has not run (`HolderUnused`), and whatever an agent works on or ran was
  handed out (`WorkHanded`). A PENDING row has no holder, so the compare-and-set creates the
  only one. `Refinement` combines this with `OneLive`.

Only model-checked: `EveryExecutionSettles` (liveness). The finding is a counterexample.

## 4. Alert engine and incidents

### The model

| Variable | Code |
|---|---|
| `sample`, `stored` | what each agent measured at each time, and which of those batches are in `metric_entries` |
| `rules`, `incident` | the rows of `AlertRule` and `Incident`, with the time of the newest NOTIFIED event |
| `eval` | the local variables of one `evaluateIngestedMetrics` per concurrent request |
| `user` | an acknowledge, resolve or reopen between its read and its update |
| `clock`, `nextIncident`, `used` | time in ticks, row allocation, and bounds |

`Ingest` is the commit of a batch in `ingestTelemetry` and the start of its evaluation. It
takes any batch up to now, any number of times, which covers a resend after a timeout and a
replay from the agent's buffer. The evaluation that follows is one action per query:
`LoadRules`, then per series and rule `ReadHistory` (baseline, history, decision),
`FindOpen`, and one of `OpenIncident`, `UpdateOpen` with `Renotify`, or `ResolveOpen`, then
`Notify`. `Abort` is an error or a crash at any of these awaits. What people do comes in
through the forms: `incidentActions` and `ruleActions`. The pure part
(`ConditionHolds`, `Streak`, `IsSustained`, `WorstFor`, `ShouldRenotify`) is translated as
operators on sets of times.

Abstractions: of the timeline only NOTIFIED is kept, because no code reads the other
events. The analysis and the remediation that follow an opening write other tables or
columns; the second is `StartAlert` of `Remediation`. A baseline is any member of
`Baselines`, a median with a band, or none: its statistics over past days are not computed.
All sources are of one kind. When `MaxIncidents` rows exist an insert fails, like on any
database error.

### The runs

| Run | Question | Result |
|---|---|---|
| `alert_races` | With two overlapping evaluations, how many duplicates of an incident can there be, and can a stale peak fall below the current value? | never more than evaluations; no |
| `alert_serial` | Without overlap, does a peak ever improve, with two series, filters, anomaly conditions, edits and people? | no |
| `alert_tracks` | When inputs are quiet, do incidents and the condition of a one-series rule agree for good, with duplicates, an aborted evaluation and every operation of people on the way? | yes |

Bounds: two evaluations are what a race needs, and three incidents leave room for one more
than the two duplicates. Two points in time are enough for a batch to arrive after a newer
one, for a condition to begin and to end, and, with a duration of one, to be sustained.
Three values give a peak that is neither the first nor the last value. One edit covers a rule changed, disabled or deleted under a running evaluation. In
`alert_races` evaluations are interchangeable and used as symmetry; `alert_tracks` uses none.
Deadlock checking stays on: an idle evaluator can always receive a batch.

Fairness, only in `alert_tracks`: time passes; each evaluator gets some batch again and
again, because agents send one every interval and the route evaluates inside the request;
an evaluation and an operation of a person, once started, take their next step, because
they are server-side requests that run to their end (the exception is `Abort`, which is
bounded). The property is about a rule whose scope is one series: for others it is false,
see the first point below.

### Where code and comments differ

Met while modelling, without a run:

* `evaluate.ts:190-191` says instances share an incident "until ALL of
  them clear"; an instance that is fine resolves it, and the next breaching one of the same
  batch opens another.
* `prisma/schema.prisma:945` says `cooldownSec` separates "two
  notifications for the same rule + source"; it only separates reminders of one incident.
* `evaluate.ts:98-99` says a long duration takes "a little longer"; the
  streak is measured on 500 points, so one beyond what they span never fires.
* `src/modules/incidents/service.ts` checks the status on a row read without lock and updates
  without condition, so an acknowledgement overwrites an automatic resolution;
  `tests/integration/alerts.test.ts:290` expects `invalid_status`.
* An open incident is resolved when its condition is not sustained for the duration of the
  rule as it is now. A longer duration entered meanwhile resolves an incident whose newest
  point still breaches, and the notification (`notify.ts:39`) says that "the condition no
  longer breaches the threshold".

### The proofs

`AlertEngineProofs` is about `Spec` with arbitrary constants satisfying `AlertConstants`
(settings have the fields' types and a condition, a finite set of evaluators, `None`
different from every identifier).

* `Typing`: as for `Remediation`, `TypeOK` needs `Contexts`: an evaluation with a pair in
  hand has a series, a rule and its settings; one with an incident in hand has its
  identifier; every time up to now was sampled; a person's operation is one of `UserOps`.
* `PeakCovers`: `PeakCoversTrigger` is inductive with `Typing`. `ValuesKept` shows that only
  `OpenIncident` and `UpdateOpen` write peaks, and `UpdatedValues` that the latter writes
  the maximum of the new value and whatever peak was read.
* `PeaksNeverDrop`: that an update never lowers a peak is false of an arbitrary state, where
  the peak an evaluation read need not be the row's. `PeakInv` adds that it is when no two
  evaluations overlap (`PeakInHand`), which rests on two facts about rows: an incident in
  somebody's hands exists (`InHandExists`), and identifiers from `nextIncident` on are free
  (`RowsInOrder`), so that opening one touches no incident that is in hand.
* `DuplicatesAreBounded`: the invariant counts unresolved incidents together with the
  evaluations about to open one. Every step shrinks both sets (`Quiet`), except two:
  `OpenIncident` moves one unit from the second to the first, and `FindOpen` adds an
  evaluation only when it saw no unresolved incident, so the first set is empty and the
  second is a set of evaluators.

Only model-checked: `IncidentsTrackCondition` (liveness).

## 5. Membership and invitations

### The model

`Membership` is one organization (`src/lib/auth/members.ts`, `invitations.ts`,
`permissions.ts` and the server actions that call them).

| Variable | Code |
|---|---|
| `membership`, `made` | the `Membership` rows of the organization; row ids are not reused |
| `account` | the e-mail addresses that have a `User` row |
| `invitation` | every `Invitation` row ever inserted; expiry, acceptance and revocation are its state |
| `req` | a request: what `authorize()` read, the rows its statement selected, where it stands |
| `started` | bound on administrative requests |

The database runs at READ COMMITTED, and that is what the module is about. A role read by
`authorize()` serves the whole request. `lockOrganizationMemberships` is the start of the
`SELECT ... FOR UPDATE`, which fixes the rows it is going to lock; `LocksGranted` is its
return, when no other transaction holds one of them. A row inserted in between is neither
seen by the statement nor locked. `Decide` reads under the lock, `changeMemberRole` and
`removeMember` write and commit. `createInvitation` takes three steps in the same way, and
`acceptInvitation` is its check before the transaction (`acceptInvitationAction`) and the
transaction. `RollBack` is any failure of a transaction. `revokeInvitation` is a single
conditional `UPDATE` and one step.

Abstractions: tokens, passwords, audit rows and e-mails; an invitation is identified with its
link, which anyone may hold. Of the permissions only those that members and invitations need
are told apart, by the lowest rank that has them.

### The run

`membership` asks whether owners who demote, remove and invite each other at the same moment
can leave the organization without an owner (`AlwaysAnOwner`); whether someone can join twice,
without using up a link for that address and role, or with an account whose owner was not
signed in, whatever links are accepted together, revoked or replaced (`JoinsAreInvited`); and
whether ADMIN or OWNER is ever given or taken by someone other than an owner, over all steps
of stale authorizations (`PrivilegeMovesByOwners`). All of them hold.

Bounds: two requests at once are what a race needs; three persons are two owners who act on
each other and a third who joins meanwhile; of three administrative requests one invites the
second owner and two race. Acceptances,
revocations, expiries and registrations are not bounded by `MaxStarts`. OPERATOR has no rule
of its own and is not asked for. The invited persons and the requests are symmetric. The
organization may rest when its bounded requests are over, so deadlock is not checked.

Met while modelling, without a property: registration commits the account and the
organization separately (`src/app/actions/onboarding.ts:40`), so a failure in between leaves
an account that belongs to nothing; two invitations of one address at once both see no
earlier link to revoke and leave two live links (`JoinsAreInvited` is checked with them).

### The proofs

`MembershipProofs` assumes only what the constants are: the founder is a person, `None` is no
person and no role, and the bound is a number.

* `Typing`, `OwnerRemains`. That an owner is left is not inductive: two requests that both
  passed the `last_owner` check would remove the last two. `MembershipInv` says what
  `SELECT ... FOR UPDATE` buys although rows inserted after the statement began are not
  locked. The rows a request selected are all there were up to some id, its target among them
  (`Snapshot`). Of two requests whose targets still exist, the one with the later target has
  therefore selected the earlier target too, so they cannot both hold their locks
  (`LocksExclusive`), and what one decided stays true until it writes (`Justified`).
* `JoinersInvited` and `OwnersMovePrivilege` are action properties that follow from the same
  invariant: an acceptance in progress knows its invitation and, where the account existed,
  acts for its owner (`Context`); and invitations to ADMIN and OWNER were sent by owners
  (`InvitedByOwners`), which `RoleTable` and `OwnersPrivilege` derive from the tables of
  `permissions.ts`.

## 6. Login, sessions and two-factor

### The model

`SignIn` is one account (`src/lib/auth/login.ts`, `throttle.ts`, `sessions.ts`,
`two-factor.ts`, `changePassword` of `users.ts`, `src/app/actions/session.ts`).

| Variable | Code |
|---|---|
| `password`, `secret`, `enabled` | the hash (a version, and whether its parameters are old), the TOTP secret, `totpEnabledAt` |
| `codes`, `spent` | recovery codes, one for each batch, and those with `usedAt` |
| `failures` | failed `LoginAttempt` rows: the number of the request and its time |
| `session`, `challenge` | rows of `Session` and `TotpChallenge` |
| `req` | a request with its `now`, what it read, and where it stands |

A request reads, hashes for a fifth of a second, and writes. So a sign-in is `loginAction`
(the throttle), `VerifyPassword`, then `recordLoginAttempt` or `clearEmailFailures`,
`UpdateUser` (with the re-hash) and `createTotpChallenge` or `signIn`. `validateSession` and
`RefreshSession` are the read and the late write of the sliding expiry. The operations that
need the current password and the setup of the second factor (`accountActions`, the forms of
the profile page) and the verification of a code are split at the same places.

Abstractions: the limit per source address is the same code as the one per e-mail and is left
out, as are the active organization, the language, and the bytes of hashes and codes.
`purgeDeadSessions` may purge any revoked row, since the time of revocation is not kept.

### The run

`sign_in` asks how far overlapping requests exceed the throttle (by no more than the requests
checked together) and whether the time a blocked user is told is exact (`ThrottleIsExact`);
whether a session outlives its limits or comes back after revocation because of a late refresh
(`SessionsEnd`); and whether one challenge opens two sessions, or one after its factors were
removed and none is left (`ChallengesPassedOnce`). All hold. The type invariant includes that
a challenge which is still there has counted fewer wrong codes than end it.

Bounds: two requests, four of them in all (the number also allots row ids), a clock of three
units with a window and an idle time of two and an absolute session time of three, so that
each limit is crossed; a limit of one failure and of two wrong codes, so that both are
reached by racing requests. Deadlock is not checked: nothing has to happen.

Met while modelling, without a run. The code promises two things that hold only for requests
that do not overlap. `two-factor.ts:177-178` caps wrong guesses at
`TOTP_MAX_CHALLENGE_ATTEMPTS`, but each is counted from the number read with the challenge
(`:215`), so wrong codes sent together count as one. `two-factor.ts:225` says that "a matched
recovery code cannot be reused", but `usedAt` is checked before the transaction (`:208`) and
set without condition (`:227`), so two challenges verified together both pass with one code.
The model has both behaviours; `ChallengesPassedOnce` is about one challenge, which is used
once although a code may not be. Also, two confirmations at once leave two batches of
recovery codes, and a sign-in that re-hashes an old hash overwrites a password change
committed meanwhile.

### The proofs

`SignInProofs` assumes that limits and durations are positive and that the set of requests is
finite (the throttle counts them).

* `Typing`, `SessionsEndInTime`, `ChallengesOnce`. None of the properties is inductive: a late
  write could revive a row, or two requests could insert under one number. `SignInInv` says
  what makes late writes harmless. A request creates rows under a number that no other
  request has (`NumbersDistinct`) and under which nothing is stored (`Context`, `Unused`); the
  rows it will update exist (`Context`); a session's end is bounded and the challenge it came
  from is gone for good (`SessionsSound`); and a challenge that is still there was not
  separated from the secret its code was checked against, because `disableTotp` removes both
  in one transaction.

* `ThrottleExact`. That the time a blocked user is told is exact follows from the failures as
  they are: as many as the limit are at least as recent as the pivot and fewer are more
  recent (`Pivot`, `WaitingExact`). That failures stay bounded needs `ThrottleInv`: the
  failures in the window and the requests that passed the check but have recorded nothing
  yet (`Tries`) are together fewer than the limit plus the requests. A check that passes
  establishes it, recording a failure moves one from the second count to the first, and
  everything else lowers them.

Nothing of this module is only model-checked.

## 7. Telemetry: agent, transport and ingestion

### The model

`Telemetry` composes one agent (`agent/cmd/ikelyane-agent/main.go`, `internal/buffer`,
`internal/telemetry`, the poller's device list) with the server's routes
(`/api/v1/telemetry`, `/api/v1/poller-config`), the ingestion of hosts, devices and
databases, and what administrators do to these.

| Variable | Code |
|---|---|
| `clock`, `skew` | the server's clock, and how far the agent's is ahead |
| `agent`, `poll` | the local variables of a cycle; `snmpState` |
| `buffer`, `diskFails` | the files of the buffer directory, and whether the disk fails; their names sort by the time they were saved (`Oldest`), and files of one time in any order |
| `requests`, `answer` | requests on their way or inside the server, also those the agent gave up on |
| `host`, `device`, `database` | the rows, with the columns that decide something |
| `rows` | how many `metric_entries` rows there are of each primary key |
| `sampled`, `refused`, `replacedAt`, `retiredAt`, `faults`, `edits` | history and bounds |

A cycle is `runCycle` (which reads the buffer), `Replay` for each buffered batch, `Collect`
and `Receive`. The server takes `POST` (authentication) and `ingestTelemetry` (one
transaction). `GiveUp` is a timeout or a lost answer, after which the server may still serve
the request; `Restart` loses everything but the buffer; `Outage`, `DiskFault`, `ClockStep`
and `InternalError` are the other faults. While the disk fails, `Push` may return an error
before or after it evicted the oldest file (`buffer.go:44-58`), upon which `sendOrBuffer` logs
"could not buffer" and drops the batch (`main.go:343-345`), and the buffer may not be
readable, upon which a cycle replays nothing (`main.go:305-309`).

Abstractions: a batch is its time, the devices polled, and who answered; measured values,
inventory and the host's latest-known columns are not kept. A batch replayed late overwrites
those columns with older values, remediation policy included, until the next fresh sample.
Of a failing disk three things are left out: the truncated file of a write that failed
half-way, which the server refuses; a file that cannot be deleted, which is sent again
(`StoredWholeAndOnce` is about batches sent again) or stays beyond the capacity, since
`evictIfFull` ignores the error; and a single file that cannot be read, which is skipped
until it can.
Validation of payloads is left out: the agent's batches are well formed, except that a poller
with more than 200 devices is refused by the schema and its batches are dropped. Interface
and slow-query rows follow the same unique-key rule as metric rows. A unit of time is a
collection interval, so a cycle collects at most one batch in it.

### The run

`telemetry` checks that a batch is stored whole and once however often it is sent
(`StoredWholeAndOnce`), that it leaves the agent's hands only because it was stored or refused, too old, the oldest of
a full buffer, or nowhere but in the memory of an agent that stops or cannot write, and never
because of an outage, a time-out, a lost answer or a server error (`BatchesAccounted`),
that a replaced secret opens the door only during its own grace period
(`OldSecretsExpire`), that a device taken away stops being polled (`RetiredDevicesLeave`), and
that the backlog drains after any outage (`BacklogDrains`). All hold.

Bounds: a buffer of two and a replay of one batch per cycle, so that the buffer fills, evicts
and lags behind; three points in time with an age limit and a backfill limit of two, a
tolerated skew of one and clocks off by nothing or two, so that every refusal happens; two
faults or edits in any combination, which is a lost answer with a restart, two rotations, or
a device deleted under a replayed batch. Deadlock checking stays on: an agent always has a
next cycle.

Fairness: weak fairness of the agent's loop (`main.go` runs a cycle at every tick of its
timer and survives every error), of the server's handlers, and of the end of an outage and of
a disk fault, which is an assumption on the environment: nothing drains while there is no
server or no readable buffer. An
agent step includes the choice of who answers, so nothing is assumed of devices. Faults are
bounded, which is the "once failures stop" of `BacklogDrains`.

Met while modelling, without a property: a batch replayed after its device was deleted
creates it again, enabled and without credentials; every report overwrites the slow-query
threshold (`src/modules/databases/ingest.ts:46`) that `instances.ts:9-11` lets an
administrator set; and `docs/telemetry.md:242-243` advise senders to try again where the agent
drops the batch.

### The proofs

`TelemetryProofs` assumes that the capacity of the buffer, the batches replayed per cycle and
the grace period are positive, and nothing of the clocks but that the agent's may be right.

* `Typing` includes that the buffer never exceeds its capacity (`Evicts` is the lemma about
  `evictIfFull`); it needs `EventsCounted`, since secrets and device ids are numbered by the
  edits that make them.
* `StoredOnce`: rows belong to times of sampled batches (`RowsOfSamples`) and each time is
  sampled once (`OnlySamples`), so a fresh batch meets no row and a repeated one meets all of
  its own.
* `SecretsExpire`: `SecretsInOrder` says that the previous secret is the last one replaced and
  that its expiry counts from then, so the renewed expiry date is never that of an older one.
* `DevicesLeave`: a device on the agent's list that is not assigned any more was retired after
  the list was fetched (`ListWasRight`).
* `BatchesKept`: the invariant follows a batch through the cycle. A batch that is replayed is
  still on disk (`CycleInOrder`), one request at most is waited for and carries the batch in
  hand (`OneAwaited`), and the answer to it is true of that batch (`AnswerTrue`). `Saves` says
  what a `Push` that works and one that fails leave, `Cycles` what reading the buffer does.

Only model-checked: `BacklogDrains` (liveness).

## 8. Endpoint checks

### The model

`Probe` is one check as operators on the state of a probe: the target guard on literal
addresses and on every address DNS returns, redirects with their limit, and what is carried
to the next hop. `Checks` is the table, the members' operations and the runners.

| Variable | Code |
|---|---|
| `checks` | `EndpointCheck` rows; `nextRunAt` relative to now |
| `runner`, `tasks` | each worker process and its `inFlight` probes, with the row the claim returned |
| `series` | the last availability point of each check |
| `history` | results in a row, overlaps, and the pace of claims, for the properties |

`claimDueChecks` is one statement and one action; `requestOnce` is a hop; `recordResult` and
`storePoints` are the two statements that follow, either of which may fail
(`StatementFails`). `Stop` and `Exit` are SIGTERM, `Crash` and `Start` the rest.

Abstractions: error codes, timings, the certificate and the arithmetic of availability; header
validation; refused attempts. All checks have one interval. Since `nextRunAt` is relative,
time has no bound.

### The run

`endpoint_checks` asks whether configured headers or a body ever go to another origin or
method, or a connection to an address that was not vetted, over any redirects
(`RequestsKeepToConfig`); whether the status says what the last results were
(`DownAfterTwoFailures`); whether runners probe a check twice in an interval
(`ClaimsArePaced`); and whether an edit made under a running probe takes effect, and the row
and the series agree again after one of the two writes is lost (`ResultsCatchUp`). All hold.

Bounds: one check and two runners with one slot each (a race over one check); two redirects,
so that the limit is passed; two settings that differ in everything a probe looks at; two
edits and one fault. Deadlock checking stays on, and time always passes.

Fairness: time; each probe's next step, because a request has a timeout and ends; and each
worker's claim, exit and restart, because `runCheckLoop` repeats every two seconds and
`deploy/systemd` restarts the worker (`Restart=always`). `Tick` does not overtake a due check
that an idle runner could take: the loop's two seconds are far below the shortest interval
(10 s).

Met while modelling: two probes of one check overlap when a member asks for a run while one is
in progress; both count from the failures read at their claim, so two failures leave the
check DEGRADED. `DownAfterTwoFailures` excepts exactly these, until the next success that
does not overlap. The certificate's expiry is kept after the URL was edited.

### The proofs

`ChecksProofs` assumes that there is a check and a setting to give it, positive intervals and
slots, and a cap on the failure count that is not below `FAILURES_BEFORE_DOWN`.

* `Typing`, and `RequestsKeep` for any map of redirects: `Keeps` is what holds of a probe
  whenever it is about to send, and the lemmas on `BeginHop` and `Redirect` show that a hop
  keeps it: headers dropped once stay dropped, and the next target is vetted again.
* `StatusCounts`: the status is not inductive, because a task writes the count its claim read.
  Where no two probes overlapped, the check has one task at most (`OneTask`) and that task
  still has the row's own count (`TasksCount`); a check nobody created has neither tasks nor
  results (`Untouched`).
* `ClaimsPaced`: the interval the last claim began is not over before the row is due
  (`Paced`).

Only model-checked: `ResultsCatchUp` (liveness).

## 9. Topology, root-cause analysis and narratives

### The model

`DependencyGraph` translates the algorithms of `src/modules/topology/graph.ts`: reachability,
root-cause candidates, back edges by depth-first search, layers by Kahn's order. Walks are
functions of the number of steps taken. `Topology` is the map and its edits; a drawn map
(`DrawnMaps`) has dependencies between its own nodes only and a monitored entity once, which
are the foreign keys and the unique index of the schema. Dependencies are unique per kind, so
two nodes may have several; they are one edge here, which is all the algorithms look at. `Rca` adds
`src/modules/aiops`:

| Variable | Code |
|---|---|
| `node`, `edges` | `TopologyNode` and `ServiceDependency` rows |
| `incident` | status, start, `rcaFindings`, `rcaGeneratedAt`, the narrative and its request |
| `analysis` | the local variables of `analyzeAfterOpen` and `refreshIncidentRca` per request |
| `worker` | the narrative worker: leased, claimed, being served, and what Claude was asked about |
| `scenario`, `requests`, `edits`, `faults` | what there is, and bounds |
| `history` | what the properties except, see below |

An analysis reads its context in one step (`ReadContext`) and writes findings in another
(`refreshIncidentRca`), one incident after the other; a batch of metrics may open several.
A claim is a compare-and-set that counts the attempt (`claimNarrativeRequests`) and a second
read (`ReadClaimed`); `Serve` reads the findings, `serveNarrative` writes the outcome if
`rcaGeneratedAt` is still what was claimed. `Interrupt` is a crash, `Abort` SIGTERM.
Requests are numbered in the order in which they begin, and the number is the time they
stamp rows with; so no two begin in the same millisecond.

Abstractions: texts, confidence, list lengths, the cap on calls per hour (it delays claims),
batches of three claims, canvas positions, and how statuses are merged into a colour. A
narrative is identified with the findings it was written about.

### The run

`rca` checks on the algorithms, for every map of four nodes (`MapAnalysesCorrect`): walks
compute reachability, against a definition by closed sets; arrows of the layout point down
unless they close a cycle; and every unhealthy node of a map without cycles is a root-cause
candidate or depends on one. And on the processes: a stored narrative is about the findings beside it (`NarrativeMatchesFindings`);
one worker at a time asks about given findings, and none about findings that have a
narrative (`ServedOnce`); when analyses are
over, all active incidents have the findings an analysis would give them now
(`FindingsCurrent`); requests do not stay pending (`RequestsSettle`). All hold, with the
exceptions they state, each of which is something the code does:

* `restamped`: one batch that opens two incidents writes the first one's findings twice with
  the same `rcaGeneratedAt`; a worker that read in between stores its narrative beside
  findings it does not describe. Settling for a minute hides it unless the batch takes longer.
* `late`: when a lease expires before the answer, a second worker asks too, and a late
  failure of the first re-queues a request whose attempts may be used up.
* `unrecorded`: the event that records a narrative is inserted inside the same `try`
  (`rca-llm.ts:187`); when that fails after the narrative was stored, the `catch` puts the
  request back, and Claude is asked again about findings that have a narrative. It is still
  one worker at a time, and attempts still run out.
* `lost`: the attempt is counted when it is claimed, so a crash during the last one leaves
  `rcaLlmRequestedAt` set for good, which the page shows as "queued or being written"
  (`src/modules/incidents/service.ts:39`).
* `disturbed`: overlapping analyses overwrite findings they did not see, and nothing analyses
  again after an edit of the map or a resolution.

Bounds: two incidents, on a chain with a service between them or on a cycle; two overlapping
requests with an edit; one incident with a request, its re-analysis and two workers; two
attempts, a lease of one tick and no settling time, so that leases expire and attempts run
out. They are separate scenarios (`MCScenarios`) of one run, each with the actors its races
need. Deadlock checking stays on, and time always passes.

Fairness: time, and each worker's loop: `runNarrativeLoop` repeats every five seconds and
catches its errors. Nothing is assumed of analyses, people or Claude, whose answer may be
stored, refused or fail each time.

Met while modelling: nodes that fail in a cycle are no candidates, so all failing dependencies
are listed, unless there is a candidate elsewhere, which then hides the cycle; the criticality
of a dependency is described as a weight for the analysis (`prisma/schema.prisma`,
`ServiceDependency`) and read by no code; `requestFreshNarrative`
(`src/modules/aiops/rca-llm.ts:205`) has no caller.

### The proofs

`RcaProofs` assumes that there are incidents, finitely many and each with a source, finitely
many nodes, that scenarios start from drawn maps, and positive attempts and leases.

* `Typing`, for any map: what an analysis computes is taken as findings whatever the walks
  return.
* `NarrativesMatch`: a worker compares stamps, not findings, so the invariant is about stamps.
  Requests in progress have times of their own (`StampsInOrder`), what a request has not
  written does not carry its time (`StampsFresh`), and where the stamp a worker holds is still
  the row's, the findings it asked about are the row's too (`Asked`), unless the same request
  wrote them twice.
* `NarrativesServedOnce`: a request that can be claimed or is held has no narrative, unless the
  narrative could not be recorded, and it is held by one worker, in one place, while its lease
  runs (`HeldOnce`).
* `FindingsUpToDate`: undisturbed, one request analyses at a time, and what it has still to do
  is what it holds (`FindingsInv`, `Progress`): all active incidents but the one in hand and
  the neighbours it listed are as an analysis would leave them now. `AllNeighbours` is where
  the limit of `MAX_REFRESH` counts: with no more active incidents than that, one refresh
  lists them all.
* `WalksAreComplete`, `CandidatesExplain`, `LayoutPointsDown`: the parts of
  `MapAnalysesCorrect`, on any set of nodes and any dependencies between them (for the layout,
  between different nodes, as `createDependency` has it). `StoredMapAnalysed` says that all
  hold of the stored map at all times, edits included, and `MapAnalyses` is what the run
  checks. Each walk repeats a step, and that such a walk exists is shown once
  (`Iteration`), by induction over the number of steps; induction is stated for sets of
  numbers (`Induction`), which needs no schema.
* Of the breadth-first walk no round leaves what can be reached, and while a round is not
  closed the next one is larger, so as many rounds as there are nodes are enough
  (`WalkCloses`). For the candidates, an unhealthy node with the fewest dependencies among
  those that could explain another must be a candidate, or one of its dependencies would have
  fewer.
* The depth-first walk (`Walked`): the stack is a path of the map, so an edge to an open node
  closes a cycle; every other edge taken leads to a node that is done or higher on the stack,
  so when a node is done all its edges lead to nodes done before it, and the order in which
  nodes are done ranks them (`Ranked`). Each step leaves fewer edges to take and nodes to open
  and close (`ToVisitShrinks`), so the steps counted are enough, and in the end every edge but
  those set aside leads to a lower rank (`BackEdgesBreakCycles`).
* Kahn's order (`Layered`): the indegree of a node counts its edges from nodes not yet taken,
  nodes without any are taken or queued, and an edge from a node taken points down already;
  a node's layer does not change once it is taken. A node never taken would have a parent
  never taken, and so on up; the ranks rule that out (`LongestPathsPointDown`).
* Which root, edge or queued node comes first is an arbitrary choice in the model and the
  order of lists in the code; the invariants do not depend on it.

Only model-checked: `RequestsSettle` (liveness).

## 10. Proved, and only model-checked

Proved for all constants: the theorems of sections 3 to 9, which state every safety property
that a passing run checks. The inductive invariant of each was first checked by TLC on the
constants of a run of its component, those of the layout's walks on all maps of three nodes
(`Walked`) and four (`Layered`).

| Component | Proved | Only model-checked, and why |
|---|---|---|
| Remediation | `TypeOK`, `AtMostOneLive`, `CooldownRespected`, `RateLimitRespected`, `StartedAtMostOnce`, `CancelledNeverRuns`, `FinishedEventIsTheReport`, `OutcomeIsFinal`, `ImplementsLifecycle` | `EveryExecutionSettles`: liveness |
| Alert engine | `TypeOK`, `PeakCoversTrigger`, `DuplicatesBounded`, `PeakNeverDrops` | `IncidentsTrackCondition`: liveness |
| Membership | `TypeOK`, `AlwaysAnOwner`, `JoinsAreInvited`, `PrivilegeMovesByOwners` | |
| Login | `TypeOK`, `ThrottleIsExact`, `SessionsEnd`, `ChallengesPassedOnce` | |
| Telemetry | `TypeOK`, `StoredWholeAndOnce`, `OldSecretsExpire`, `RetiredDevicesLeave`, `BatchesAccounted` | `BacklogDrains`: liveness |
| Endpoint checks | `TypeOK`, `RequestsKeepToConfig`, `DownAfterTwoFailures`, `ClaimsArePaced` | `ResultsCatchUp`: liveness |
| RCA | `TypeOK`, `NarrativeMatchesFindings`, `ServedOnce`, `FindingsCurrent`, `MapAnalysesCorrect` | `RequestsSettle`: liveness |

Liveness under fairness is outside what the proof system handles. Induction over data needs an
instance of a schema that the provers cannot find; over numbers it is replaced by the least
counterexample (`Induction`, `Latest`), which is why walks are written as functions of the
number of steps taken.

`PROJECT.json` lists hazards at their lines, each with the properties that cover it; where a
property excepts part of the hazard or none covers it, a note says so. Others without a
property, because the code does the hazardous thing and promises nothing else or because the
model leaves the data out, are described in the section of their component. Three more:
guard-rails are evaluated on the action and host rows read before the advisory lock was
obtained (`exec.ts:105`), so an edit made while a creation waits for it does not count yet,
and `CooldownRespected` compares with the settings that were read; outputs of
64 KiB can exceed the 256 KiB limit of a report once escaped
(`src/app/api/v1/remediation/result/route.ts:21`), which the model shows as a report that
never gets through; and a check deleted while it is probed gets no result, because the update
finds no row.

## 11. Not modelled

Pages, components and translations (no state of their own); deployment files; SQL migrations
beyond the columns used; the parsing and validation of requests and of the agent's
configuration; collectors, which only read the operating system, an SNMP device or a database
server; notification transports (whether and when they are called is in `AlertEngine`, their
failures too); the formulas of energy, cost and availability, which are floating-point
arithmetic on a period; the statistics of baselines. Notes on incidents append to a timeline
that no code reads back.

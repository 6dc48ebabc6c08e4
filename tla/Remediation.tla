---------------------------- MODULE Remediation ----------------------------
(***************************************************************************)
(* Auto-remediation: the executions table and every party that writes it.  *)
(*                                                                         *)
(*   - web requests and the alert engine create and approve executions     *)
(*     (src/modules/remediation/executions.ts); a creation is a database   *)
(*     transaction of several statements at READ COMMITTED, serialized per *)
(*     (action, host) by an advisory lock taken half-way;                  *)
(*   - administrators edit, toggle and delete the actions (actions.ts);    *)
(*   - agents poll /api/v1/remediation/next, run scripts one at a time     *)
(*     under their local policy and report to /api/v1/remediation/result   *)
(*     (agent/internal/remediation); requests and replies may be lost, and *)
(*     the agent may stop at any point;                                    *)
(*   - the worker sweeps stale executions (scripts/worker.ts).             *)
(*                                                                         *)
(* A script stands for the whole frozen snapshot (runtime, body, arguments)*)
(* and is identified with its SHA-256. Audit rows are append-only, read by *)
(* no code modelled here, and left out. Time is a global clock in ticks.   *)
(***************************************************************************)
EXTENDS Integers, FiniteSets

CONSTANTS
    ActionIds, HostIds,   \* remediation actions and monitored hosts
    Requests,             \* web-request / alert-evaluation contexts
    Claims,               \* handlers of GET /remediation/next
    Workers,              \* worker processes running the sweep
    Scripts,              \* script snapshots
    OsFamilies,
    HostOs,               \* [HostIds -> OsFamilies \cup {None}]
    ActionSettings,       \* what an administrator may enter for an action
    AgentPolicies,        \* what a host owner may configure locally
    Triggers,             \* who asks for an execution, and on which host
    ClaimAttempts,        \* attempts of claimNextExecution (3)
    ReportAttempts,       \* attempts of the agent's report (3)
    RateWindow,           \* the 3600 s of maxRunsPerHour
    PendingTTL,           \* PENDING_TTL_MS
    ApprovalTTL,          \* APPROVAL_TTL_MS
    ResultGrace,          \* RESULT_GRACE_MS
    MaxExecs,             \* bound: executions ever created
    MaxEdits,             \* bound: administrator edits and agent restarts
    Horizon,              \* bound: clock after which there is no new input or row
    MaxClock,             \* bound: end of time
    None

ExecIds == 1..MaxExecs

LiveStatuses == {"AWAITING_APPROVAL", "PENDING", "RUNNING"}
TerminalStatuses == {"SUCCEEDED", "FAILED", "TIMED_OUT", "SKIPPED", "CANCELLED"}
\* ABSENT: not created yet. DELETED: removed with its action.
Statuses == LiveStatuses \cup TerminalStatuses \cup {"ABSENT", "DELETED"}

Settings ==
    [requiresApproval : BOOLEAN, script : Scripts, timeout : Nat, cooldown : Nat,
     maxRuns : Nat, target : HostIds \cup {None}, os : SUBSET OsFamilies]
TriggerInputs ==
    [trigger : {"MANUAL", "ALERT"}, host : HostIds \cup {None}, auto : BOOLEAN]
Policies == [mode : {"disabled", "allowlist", "any"}, allow : SUBSET Scripts]

ASSUME RemediationConstants ==
    /\ ActionSettings \subseteq Settings
    /\ AgentPolicies \subseteq Policies
    /\ AgentPolicies # {}
    /\ HostOs \in [HostIds -> OsFamilies \cup {None}]
    /\ Triggers \subseteq TriggerInputs
    /\ {RateWindow, PendingTTL, ApprovalTTL, ResultGrace, MaxExecs, MaxEdits,
        Horizon, MaxClock} \subseteq Nat
    /\ {ClaimAttempts, ReportAttempts} \subseteq Nat \ {0}
    /\ None \notin ActionIds \cup HostIds \cup Requests \cup Claims \cup Workers
                   \cup Scripts \cup OsFamilies \cup Nat

VARIABLES
    clock,
    actions,  \* remediation_actions rows
    hosts,    \* monitored_hosts rows: what the platform knows of a host
    exec,     \* remediation_executions rows
    nextExec, \* id of the next row
    req,      \* per request: the creation or approval it is executing
    claim,    \* per handler of /next: the claim it is executing
    agent,    \* per host: the agent process
    sweep,    \* per worker: the sweep it is executing
    edits,    \* edits so far (bound)
    log       \* history: facts about each execution no column records

vars == <<clock, actions, hosts, exec, nextExec, req, claim, agent, sweep, edits, log>>

-----------------------------------------------------------------------------
(* Rows and contexts *)

NoSettings ==
    [requiresApproval |-> FALSE, script |-> None, timeout |-> 0, cooldown |-> 0,
     maxRuns |-> 0, target |-> None, os |-> {}]

\* state: "absent" before creation, "row", "deleted"
NoAction == [state |-> "absent", enabled |-> FALSE, set |-> NoSettings]
ActionRow ==
    [state : {"absent", "row", "deleted"}, enabled : BOOLEAN,
     set : Settings \cup {NoSettings}]

\* mode "null": no agent of this host has reported a policy yet
HostRow ==
    [enabled : BOOLEAN, mode : {"null", "disabled", "allowlist", "any"},
     allow : SUBSET Scripts]

NoExec ==
    [status |-> "ABSENT", reason |-> "none", action |-> None, host |-> None,
     trigger |-> "MANUAL", script |-> None, timeout |-> 0, createdAt |-> 0,
     startedAt |-> 0, approved |-> FALSE]

Reasons ==
    {"none", "action_disabled", "no_target_host", "host_disabled",
     "host_not_accepting", "not_in_allowlist", "os_not_allowed",
     "already_queued", "cooldown", "rate_limited", "cancelled", "expired",
     "agent_lost", "reported"}

ExecRow ==
    [status : Statuses, reason : Reasons,
     action : ActionIds \cup {None}, host : HostIds \cup {None},
     trigger : {"MANUAL", "ALERT"}, script : Scripts \cup {None}, timeout : Nat,
     createdAt : Nat, startedAt : Nat, approved : BOOLEAN]

\* What a history entry remembers: the guard-rail settings the creation was
\* checked against (cooldown, maxRuns), whether the action then required an
\* approval (requires) and the rule ran automatically (auto), when the
\* execution became PENDING, how often its script was started and how many
\* REMEDIATION_FINISHED events name it.
NoLog ==
    [cooldown |-> 0, maxRuns |-> 0, requires |-> FALSE, auto |-> FALSE,
     queuedAt |-> 0, runs |-> 0, started |-> 0, finished |-> 0]
LogRow ==
    [cooldown : Nat, maxRuns : Nat, requires : BOOLEAN, auto : BOOLEAN,
     queuedAt : Nat, runs : Nat, started : Nat, finished : Nat]

IdleRequest ==
    [pc |-> "idle", trigger |-> "MANUAL", action |-> None, host |-> None,
     auto |-> FALSE, needsApproval |-> FALSE, now |-> 0, act |-> NoAction,
     row |-> [enabled |-> FALSE, mode |-> "null", allow |-> {}],
     id |-> None, violation |-> "none"]
RequestRow ==
    [pc : {"idle", "create", "host", "lock", "insert", "event", "approve"},
     trigger : {"MANUAL", "ALERT"}, action : ActionIds \cup {None},
     host : HostIds \cup {None}, auto : BOOLEAN, needsApproval : BOOLEAN,
     now : Nat, act : ActionRow, row : HostRow, id : ExecIds \cup {None},
     violation : Reasons]

IdleClaim == [pc |-> "idle", host |-> None, now |-> 0, tries |-> 0, job |-> None]
ClaimRow ==
    [pc : {"idle", "find", "cas", "reply"}, host : HostIds \cup {None}, now : Nat,
     tries : 0..ClaimAttempts, job : ExecIds \cup {None}]

IdleSweep == [pc |-> "idle", now |-> 0]
SweepRow == [pc : {"idle", "approval", "running"}, now : Nat]

\* pc "off", "idle", "polling", "start" (job received), "running", "reporting"
Agent(policy) ==
    [pc |-> "idle", policy |-> policy, via |-> None, job |-> None, since |-> 0,
     result |-> "none", tries |-> 0]
AgentRow ==
    [pc : {"off", "idle", "polling", "start", "running", "reporting"},
     policy : Policies, via : Claims \cup {None}, job : ExecIds \cup {None},
     since : Nat, result : {"none", "SUCCEEDED", "FAILED", "TIMED_OUT", "SKIPPED"},
     tries : 0..(ReportAttempts - 1)]

Init ==
    /\ clock = 0
    /\ actions = [a \in ActionIds |-> NoAction]
    /\ hosts = [h \in HostIds |-> [enabled |-> TRUE, mode |-> "null", allow |-> {}]]
    /\ exec = [e \in ExecIds |-> NoExec]
    /\ nextExec = 1
    /\ req = [r \in Requests |-> IdleRequest]
    /\ claim = [c \in Claims |-> IdleClaim]
    /\ agent \in [HostIds -> {Agent(p) : p \in AgentPolicies}]
    /\ sweep = [w \in Workers |-> IdleSweep]
    /\ edits = 0
    /\ log = [e \in ExecIds |-> NoLog]

-----------------------------------------------------------------------------
(* Guard-rails (guard.ts) *)

Max2(x, y) == IF x < y THEN y ELSE x

\* The hourly limit: executions counted in the last hour against the maximum.
TooManyRuns_Off(runs, max) == Cardinality(runs) > max
TooManyRuns(runs, max) == Cardinality(runs) >= max

\* First violated guard-rail, in the order of the code, or "none".
GuardrailViolation(act, h, row, script, recent, now) ==
    LET counted == {x \in recent : x.status \notin {"SKIPPED", "CANCELLED"}}
        within(d) == {x \in counted : now - x.createdAt < d}
    IN  IF ~act.enabled THEN "action_disabled"
        ELSE IF ~row.enabled THEN "host_disabled"
        ELSE IF row.mode \notin {"allowlist", "any"} THEN "host_not_accepting"
        ELSE IF row.mode = "allowlist" /\ script \notin row.allow THEN "not_in_allowlist"
        ELSE IF act.set.os # {} /\ HostOs[h] \notin act.set.os THEN "os_not_allowed"
        ELSE IF \E x \in counted : x.status \in LiveStatuses THEN "already_queued"
        ELSE IF within(act.set.cooldown) # {} THEN "cooldown"
        ELSE IF TooManyRuns(within(RateWindow), act.set.maxRuns) THEN "rate_limited"
        ELSE "none"

\* The rows createExecution hands to the guard: those of the last hour or
\* cooldown, whichever is longer, and every live one.
RecentIn(ids) ==
    {[id |-> e, status |-> exec[e].status, createdAt |-> exec[e].createdAt] : e \in ids}
RowsOf(a, h) ==
    {e \in ExecIds : /\ exec[e].status \in LiveStatuses \cup TerminalStatuses
                     /\ exec[e].action = a /\ exec[e].host = h}
Recent_LiveOnly(a, h, cooldown, now) ==
    RecentIn({e \in RowsOf(a, h) : exec[e].status \in LiveStatuses})
Recent(a, h, cooldown, now) ==
    RecentIn({e \in RowsOf(a, h) :
                \/ exec[e].createdAt >= now - Max2(RateWindow, cooldown)
                \/ exec[e].status \in LiveStatuses})

-----------------------------------------------------------------------------
(* Creating an execution (createExecution, requestRun, triggerForIncident) *)

\* Bounds: a row can be created, and a creation can start that will get one.
HasCapacity == nextExec <= MaxExecs /\ clock <= Horizon
Creating == {r \in Requests : req[r].pc \in {"create", "host", "lock", "insert"}}
MayStart(r) ==
    /\ req[r].pc = "idle" /\ clock <= Horizon
    /\ nextExec + Cardinality(Creating) <= MaxExecs

\* requestRun: the person who asks is the human decision.
StartRun(r, a, t) ==
    /\ MayStart(r)
    /\ t.trigger = "MANUAL"
    /\ req' = [req EXCEPT ![r] =
                 [IdleRequest EXCEPT !.pc = "create", !.action = a, !.host = t.host,
                                     !.now = clock]]
    /\ UNCHANGED <<clock, actions, hosts, exec, nextExec, claim, agent, sweep, edits, log>>

\* triggerForIncident: requiresApproval is read here, before the transaction
\* that creates the execution; the host is None when the incident is not about
\* a host, auto is the rule's autoRemediate.
StartAlert(r, a, t) ==
    /\ MayStart(r)
    /\ t.trigger = "ALERT"
    /\ actions[a].state = "row"
    /\ req' = [req EXCEPT ![r] =
                 [IdleRequest EXCEPT !.pc = "create", !.trigger = "ALERT",
                    !.action = a, !.host = t.host, !.auto = t.auto, !.now = clock,
                    !.needsApproval = ~t.auto \/ actions[a].set.requiresApproval]]
    /\ UNCHANGED <<clock, actions, hosts, exec, nextExec, claim, agent, sweep, edits, log>>

\* First statement of the transaction: the action, or return null.
ReadAction(r) ==
    /\ req[r].pc = "create"
    /\ LET act == actions[req[r].action]
           target == IF req[r].host # None THEN req[r].host ELSE act.set.target
       IN req' = [req EXCEPT ![r] =
                    IF act.state = "row"
                    THEN [@ EXCEPT !.pc = "host", !.act = act, !.host = target]
                    ELSE IdleRequest]
    /\ UNCHANGED <<clock, actions, hosts, exec, nextExec, claim, agent, sweep, edits, log>>

\* The row createExecution inserts for request r, in status st.
NewRow(r, h, st, reason, createdAt) ==
    [NoExec EXCEPT !.status = st, !.reason = reason, !.action = req[r].action,
                   !.host = h, !.trigger = req[r].trigger,
                   !.script = req[r].act.set.script,
                   !.timeout = req[r].act.set.timeout, !.createdAt = createdAt]

\* The column default of createdAt is the time of the statement or of its
\* transaction: anything from the request's "now" to the present.
InsertRow(r, h, st, reason) ==
    /\ HasCapacity
    /\ \E createdAt \in req[r].now..clock :
        /\ exec' = [exec EXCEPT ![nextExec] = NewRow(r, h, st, reason, createdAt)]
        /\ log' = [log EXCEPT ![nextExec] =
                     [NoLog EXCEPT !.cooldown = req[r].act.set.cooldown,
                                   !.maxRuns = req[r].act.set.maxRuns,
                                   !.requires = req[r].act.set.requiresApproval,
                                   !.auto = req[r].auto,
                                   !.queuedAt = createdAt]]
        /\ nextExec' = nextExec + 1

\* After the commit a manual run is done; an alert still logs its event.
AfterInsert(r) ==
    req' = [req EXCEPT ![r] =
              IF @.trigger = "ALERT"
              THEN [IdleRequest EXCEPT !.pc = "event", !.id = nextExec]
              ELSE IdleRequest]

\* An insert whose action was deleted meanwhile breaks the foreign key: the
\* transaction rolls back and the request fails.
ActionGone(r) ==
    /\ actions[req[r].action].state # "row"
    /\ req' = [req EXCEPT ![r] = IdleRequest]
    /\ UNCHANGED <<exec, log, nextExec>>

\* Second statement: the host row, or a SKIPPED execution with no target.
ReadHost(r) ==
    /\ req[r].pc = "host"
    /\ \/ /\ req[r].host # None
          /\ req' = [req EXCEPT ![r].pc = "lock", ![r].row = hosts[req[r].host]]
          /\ UNCHANGED <<exec, log, nextExec>>
       \/ /\ req[r].host = None
          /\ actions[req[r].action].state = "row"
          /\ InsertRow(r, None, "SKIPPED", "no_target_host")
          /\ AfterInsert(r)
       \/ /\ req[r].host = None
          /\ ActionGone(r)
    /\ UNCHANGED <<clock, actions, hosts, claim, agent, sweep, edits>>

\* pg_advisory_xact_lock on (action, host): held until the insert commits.
LockFree_Never(r) == TRUE
LockFree(r) ==
    \A q \in Requests \ {r} :
        ~(/\ req[q].pc = "insert"
          /\ req[q].action = req[r].action /\ req[q].host = req[r].host)

\* Take the lock, then read the recent executions and evaluate the guard-rails
\* on the action and host rows read before the lock.
LockAndScan(r) ==
    /\ req[r].pc = "lock"
    /\ LockFree(r)
    /\ LET q == req[r]
           recent == Recent(q.action, q.host, q.act.set.cooldown, q.now)
       IN req' = [req EXCEPT ![r] =
                    [@ EXCEPT !.pc = "insert", !.row = IdleRequest.row,
                       !.violation = GuardrailViolation(q.act, q.host, q.row,
                                        q.act.set.script, recent, q.now)]]
    /\ UNCHANGED <<clock, actions, hosts, exec, nextExec, claim, agent, sweep, edits, log>>

\* Insert in the status the guard-rails decided, commit, release the lock.
Insert(r) ==
    /\ req[r].pc = "insert"
    /\ \/ /\ actions[req[r].action].state = "row"
          /\ LET q == req[r] IN
             InsertRow(r, q.host,
                       IF q.violation # "none" THEN "SKIPPED"
                       ELSE IF q.needsApproval THEN "AWAITING_APPROVAL" ELSE "PENDING",
                       q.violation)
          /\ AfterInsert(r)
       \/ ActionGone(r)
    /\ UNCHANGED <<clock, actions, hosts, claim, agent, sweep, edits>>

\* REMEDIATION_STARTED on the incident's timeline, outside the transaction.
LogStarted(r) ==
    /\ req[r].pc = "event"
    /\ log' = [log EXCEPT ![req[r].id].started = @ + 1]
    /\ req' = [req EXCEPT ![r] = IdleRequest]
    /\ UNCHANGED <<clock, actions, hosts, exec, nextExec, claim, agent, sweep, edits>>

\* The server process stops, or the transaction fails or times out: it rolls
\* back, and the statements that would have followed are never executed.
RequestDies(r) ==
    /\ req[r].pc # "idle"
    /\ req' = [req EXCEPT ![r] = IdleRequest]
    /\ UNCHANGED <<clock, actions, hosts, exec, nextExec, claim, agent, sweep, edits, log>>

-----------------------------------------------------------------------------
(* Approval and cancellation *)

\* approveExecution reads the execution with its host and action and evaluates
\* the guard-rails that do not depend on other executions ...
ReadForApproval(r, e) ==
    /\ req[r].pc = "idle" /\ clock <= Horizon
    /\ exec[e].status = "AWAITING_APPROVAL"
    /\ LET act == actions[exec[e].action]
           h == exec[e].host
           relaxed == [act EXCEPT !.set.cooldown = 0, !.set.maxRuns = 1000]
       IN req' = [req EXCEPT ![r] =
                    [IdleRequest EXCEPT !.pc = "approve", !.id = e,
                       !.violation = IF h = None THEN "no_target_host"
                                     ELSE GuardrailViolation(relaxed, h, hosts[h],
                                            exec[e].script, {}, clock)]]
    /\ UNCHANGED <<clock, actions, hosts, exec, nextExec, claim, agent, sweep, edits, log>>

\* ... then compare-and-set on AWAITING_APPROVAL.
Approve(r) ==
    /\ req[r].pc = "approve"
    /\ LET e == req[r].id
           v == req[r].violation
       IN IF exec[e].status = "AWAITING_APPROVAL"
          THEN /\ exec' = [exec EXCEPT ![e] =
                             [@ EXCEPT !.status = IF v = "none" THEN "PENDING" ELSE "SKIPPED",
                                       !.reason = v, !.approved = TRUE]]
               /\ log' = [log EXCEPT ![e].queuedAt = clock]
          ELSE UNCHANGED <<exec, log>>
    /\ req' = [req EXCEPT ![r] = IdleRequest]
    /\ UNCHANGED <<clock, actions, hosts, nextExec, claim, agent, sweep, edits>>

Cancel_Live(e) ==
    /\ clock <= Horizon
    /\ exec[e].status \in LiveStatuses
    /\ exec' = [exec EXCEPT ![e].status = "CANCELLED", ![e].reason = "cancelled"]
    /\ UNCHANGED <<clock, actions, hosts, nextExec, req, claim, agent, sweep, edits, log>>

Cancel(e) ==
    /\ clock <= Horizon
    /\ exec[e].status \in {"AWAITING_APPROVAL", "PENDING"}
    /\ exec' = [exec EXCEPT ![e].status = "CANCELLED", ![e].reason = "cancelled"]
    /\ UNCHANGED <<clock, actions, hosts, nextExec, req, claim, agent, sweep, edits, log>>

-----------------------------------------------------------------------------
(* Administrators: actions.ts, hosts.ts *)

\* enabled defaults to true; targetHostId must be a host of the organization.
CreateAction(a, s) ==
    /\ clock <= Horizon
    /\ actions[a].state = "absent"
    /\ actions' = [actions EXCEPT ![a] = [state |-> "row", enabled |-> TRUE, set |-> s]]
    /\ UNCHANGED <<clock, hosts, exec, nextExec, req, claim, agent, sweep, edits, log>>

Edit == clock <= Horizon /\ edits < MaxEdits /\ edits' = edits + 1

UpdateAction(a, s) ==
    /\ Edit
    /\ actions[a].state = "row"
    /\ actions' = [actions EXCEPT ![a].set = s]
    /\ UNCHANGED <<clock, hosts, exec, nextExec, req, claim, agent, sweep, log>>

SetActionEnabled(a, b) ==
    /\ Edit
    /\ actions[a].state = "row"
    /\ actions' = [actions EXCEPT ![a].enabled = b]
    /\ UNCHANGED <<clock, hosts, exec, nextExec, req, claim, agent, sweep, log>>

\* The foreign key of the executions cascades.
DeleteAction(a) ==
    /\ Edit
    /\ actions[a].state = "row"
    /\ actions' = [actions EXCEPT ![a] = [@ EXCEPT !.state = "deleted"]]
    /\ exec' = [e \in ExecIds |->
                  IF exec[e].action = a THEN [exec[e] EXCEPT !.status = "DELETED"]
                  ELSE exec[e]]
    /\ UNCHANGED <<clock, hosts, nextExec, req, claim, agent, sweep, log>>

SetHostEnabled(h, b) ==
    /\ Edit
    /\ hosts[h].enabled # b
    /\ hosts' = [hosts EXCEPT ![h].enabled = b]
    /\ UNCHANGED <<clock, actions, exec, nextExec, req, claim, agent, sweep, log>>

-----------------------------------------------------------------------------
(* GET /remediation/next: claimNextExecution *)

\* The agent's request arrives at a handler; a disabled host gets a 403, which
\* changes nothing. The loop only exists when the local mode is not "disabled".
Poll(h, c) ==
    /\ clock <= Horizon
    /\ agent[h].pc = "idle" /\ agent[h].policy.mode # "disabled"
    /\ claim[c].pc = "idle"
    /\ hosts[h].enabled
    /\ agent' = [agent EXCEPT ![h].pc = "polling", ![h].via = c]
    /\ claim' = [claim EXCEPT ![c] =
                   [IdleClaim EXCEPT !.pc = "find", !.host = h, !.now = clock]]
    /\ UNCHANGED <<clock, actions, hosts, exec, nextExec, req, sweep, edits, log>>

PendingOf(h) == {e \in ExecIds : exec[e].status = "PENDING" /\ exec[e].host = h}
OldestPending(h) ==
    {e \in PendingOf(h) : \A f \in PendingOf(h) : exec[e].createdAt <= exec[f].createdAt}

\* Read the oldest PENDING execution; after ClaimAttempts lost races, or with nothing
\* pending, answer with no job.
ClaimFind(c) ==
    /\ claim[c].pc = "find"
    /\ \/ /\ claim[c].tries < ClaimAttempts
          /\ \E e \in OldestPending(claim[c].host) :
                claim' = [claim EXCEPT ![c].pc = "cas", ![c].job = e]
       \/ /\ claim[c].tries = ClaimAttempts \/ PendingOf(claim[c].host) = {}
          /\ claim' = [claim EXCEPT ![c].pc = "reply", ![c].job = None]
    /\ UNCHANGED <<clock, actions, hosts, exec, nextExec, req, agent, sweep, edits, log>>

\* Compare-and-set PENDING -> RUNNING on the row just read, or start over.
ClaimCas(c) ==
    /\ claim[c].pc = "cas"
    /\ LET e == claim[c].job IN
       \/ /\ exec[e].status = "PENDING"
          /\ exec' = [exec EXCEPT ![e].status = "RUNNING", ![e].startedAt = claim[c].now]
          /\ claim' = [claim EXCEPT ![c].pc = "reply"]
       \/ /\ exec[e].status # "PENDING"
          /\ claim' = [claim EXCEPT ![c].pc = "find", ![c].job = None, ![c].tries = @ + 1]
          /\ UNCHANGED exec
    /\ UNCHANGED <<clock, actions, hosts, nextExec, req, agent, sweep, edits, log>>

\* The signed answer reaches the agent that is still waiting for it, or nobody.
Reply(c) ==
    /\ claim[c].pc = "reply"
    /\ LET h == claim[c].host
           e == claim[c].job
       IN agent' = IF agent[h].pc = "polling" /\ agent[h].via = c
                   THEN [agent EXCEPT ![h] =
                           [@ EXCEPT !.via = None, !.job = e,
                                     !.pc = IF e = None THEN "idle" ELSE "start"]]
                   ELSE agent
    /\ claim' = [claim EXCEPT ![c] = IdleClaim]
    /\ UNCHANGED <<clock, actions, hosts, exec, nextExec, req, sweep, edits, log>>

\* The server stops while handling the claim; nobody is answered.
ClaimDies(c) ==
    /\ claim[c].pc # "idle"
    /\ claim' = [claim EXCEPT ![c] = IdleClaim]
    /\ UNCHANGED <<clock, actions, hosts, exec, nextExec, req, agent, sweep, edits, log>>

\* Time-out, transport error or unverifiable answer: the agent stops waiting,
\* the handler does not notice.
PollFails(h) ==
    /\ agent[h].pc = "polling"
    /\ agent' = [agent EXCEPT ![h].pc = "idle", ![h].via = None]
    /\ UNCHANGED <<clock, actions, hosts, exec, nextExec, req, claim, sweep, edits, log>>

-----------------------------------------------------------------------------
(* The agent: remediation.Run, runRemediationLoop *)

\* Refusal: the local policy, whatever the platform believes it to be.
Refused(policy, e) ==
    \/ policy.mode = "disabled"
    \/ policy.mode = "allowlist" /\ exec[e].script \notin policy.allow

Skip(h) == agent' = [agent EXCEPT ![h].pc = "reporting", ![h].result = "SKIPPED", ![h].tries = 0]

\* Refuse, fail to start (no interpreter, work directory, fork), or start.
RunJob(h) ==
    /\ agent[h].pc = "start"
    /\ LET e == agent[h].job IN
       \/ Skip(h) /\ UNCHANGED log
       \/ /\ ~Refused(agent[h].policy, e)
          /\ agent' = [agent EXCEPT ![h].pc = "running", ![h].since = clock]
          /\ log' = [log EXCEPT ![e].runs = @ + 1]
    /\ UNCHANGED <<clock, actions, hosts, exec, nextExec, req, claim, sweep, edits>>

\* The script ends by itself before its deadline or is killed at it.
FinishJob(h) ==
    /\ agent[h].pc = "running"
    /\ \E result \in {"SUCCEEDED", "FAILED", "TIMED_OUT"} :
          /\ (result = "TIMED_OUT") <=> (clock - agent[h].since >= exec[agent[h].job].timeout)
          /\ agent' = [agent EXCEPT ![h].pc = "reporting", ![h].result = result, ![h].tries = 0]
    /\ UNCHANGED <<clock, actions, hosts, exec, nextExec, req, claim, sweep, edits, log>>

\* recordExecutionResult: compare-and-set on (id, host, RUNNING), then, unless
\* the server stops in between, the REMEDIATION_FINISHED event of an execution
\* with an incident. Anything else is a 409, which the agent takes as done.
StoreResult_Blind(h, e, result) ==
    /\ exec' = [exec EXCEPT ![e].status = result, ![e].reason = "reported"]
    /\ \/ UNCHANGED log
       \/ log' = [log EXCEPT ![e].finished = @ + 1]

StoreResult(h, e, result) ==
    IF exec[e].status = "RUNNING" /\ exec[e].host = h
    THEN /\ exec' = [exec EXCEPT ![e].status = result, ![e].reason = "reported"]
         /\ \/ UNCHANGED log
            \/ /\ exec[e].trigger = "ALERT"
               /\ log' = [log EXCEPT ![e].finished = @ + 1]
    ELSE UNCHANGED <<exec, log>>

AgentDone(h) ==
    agent' = [agent EXCEPT ![h] = Agent(@.policy)]

\* A failed attempt: up to ReportAttempts, then the agent gives up.
AgentRetry_Forever(h) == agent' = [agent EXCEPT ![h].tries = @ + 1]

AgentRetry(h) ==
    IF agent[h].tries + 1 < ReportAttempts THEN agent' = [agent EXCEPT ![h].tries = @ + 1] ELSE AgentDone(h)

\* The report is stored (or refused with 409) and the agent hears of it, or the
\* answer is lost after the fact.
Report(h) ==
    /\ agent[h].pc = "reporting"
    /\ hosts[h].enabled
    /\ StoreResult(h, agent[h].job, agent[h].result)
    /\ AgentDone(h) \/ AgentRetry(h)
    /\ UNCHANGED <<clock, actions, hosts, nextExec, req, claim, sweep, edits>>

\* The report does not get through: transport error, 403 for a disabled host,
\* 413 for an output that outgrew the body limit, 5xx.
ReportFails(h) ==
    /\ agent[h].pc = "reporting"
    /\ AgentRetry(h)
    /\ UNCHANGED <<clock, actions, hosts, exec, nextExec, req, claim, sweep, edits, log>>

\* The process stops; a script in progress is killed with it and never reported.
AgentStop(h) ==
    /\ Edit
    /\ agent[h].pc # "off"
    /\ agent' = [agent EXCEPT ![h] = [Agent(@.policy) EXCEPT !.pc = "off"]]
    /\ UNCHANGED <<clock, actions, hosts, exec, nextExec, req, claim, sweep, log>>

\* The configuration, read once at start-up, may have changed.
AgentStart(h, p) ==
    /\ clock <= Horizon
    /\ agent[h].pc = "off"
    /\ agent' = [agent EXCEPT ![h] = Agent(p)]
    /\ UNCHANGED <<clock, actions, hosts, exec, nextExec, req, claim, sweep, edits, log>>

\* recordHeartbeat: telemetry carries the agent's policy to the host row.
Heartbeat(h) ==
    /\ agent[h].pc # "off" /\ hosts[h].enabled
    /\ LET p == agent[h].policy IN
       hosts' = [hosts EXCEPT ![h] =
                   [@ EXCEPT !.mode = p.mode,
                             !.allow = IF p.mode = "allowlist" THEN p.allow ELSE {}]]
    /\ UNCHANGED <<clock, actions, exec, nextExec, req, claim, agent, sweep, edits, log>>

-----------------------------------------------------------------------------
(* The worker: sweepExecutions, three statements with one "now" *)

Expire(e) == [exec[e] EXCEPT !.status = "CANCELLED", !.reason = "expired"]

SweepPending_Delivered(w) ==
    /\ sweep[w].pc = "idle"
    /\ sweep' = [sweep EXCEPT ![w] = [pc |-> "approval", now |-> clock]]
    /\ exec' = [e \in ExecIds |->
                  IF exec[e].status \in {"PENDING", "RUNNING"} /\ exec[e].createdAt < clock - PendingTTL
                  THEN Expire(e) ELSE exec[e]]
    /\ UNCHANGED <<clock, actions, hosts, nextExec, req, claim, agent, edits, log>>

SweepPending(w) ==
    /\ sweep[w].pc = "idle"
    /\ sweep' = [sweep EXCEPT ![w] = [pc |-> "approval", now |-> clock]]
    /\ exec' = [e \in ExecIds |->
                  IF exec[e].status = "PENDING" /\ exec[e].createdAt < clock - PendingTTL
                  THEN Expire(e) ELSE exec[e]]
    /\ UNCHANGED <<clock, actions, hosts, nextExec, req, claim, agent, edits, log>>

SweepApproval_Skips(w) ==
    /\ sweep[w].pc = "approval"
    /\ sweep' = [sweep EXCEPT ![w].pc = "running"]
    /\ UNCHANGED <<clock, actions, hosts, exec, nextExec, req, claim, agent, edits, log>>

SweepApproval(w) ==
    /\ sweep[w].pc = "approval"
    /\ sweep' = [sweep EXCEPT ![w].pc = "running"]
    /\ exec' = [e \in ExecIds |->
                  IF /\ exec[e].status = "AWAITING_APPROVAL"
                     /\ exec[e].createdAt < sweep[w].now - ApprovalTTL
                  THEN Expire(e) ELSE exec[e]]
    /\ UNCHANGED <<clock, actions, hosts, nextExec, req, claim, agent, edits, log>>

SweepLost_Requeue(w) ==
    /\ sweep[w].pc = "running"
    /\ sweep' = [sweep EXCEPT ![w] = IdleSweep]
    /\ exec' = [e \in ExecIds |->
                  IF /\ exec[e].status = "RUNNING"
                     /\ exec[e].startedAt + exec[e].timeout + ResultGrace < sweep[w].now
                  THEN [exec[e] EXCEPT !.status = "PENDING"]
                  ELSE exec[e]]
    /\ UNCHANGED <<clock, actions, hosts, nextExec, req, claim, agent, edits, log>>

SweepLost(w) ==
    /\ sweep[w].pc = "running"
    /\ sweep' = [sweep EXCEPT ![w] = IdleSweep]
    /\ exec' = [e \in ExecIds |->
                  IF /\ exec[e].status = "RUNNING"
                     /\ exec[e].startedAt + exec[e].timeout + ResultGrace < sweep[w].now
                  THEN [exec[e] EXCEPT !.status = "TIMED_OUT", !.reason = "agent_lost"]
                  ELSE exec[e]]
    /\ UNCHANGED <<clock, actions, hosts, nextExec, req, claim, agent, edits, log>>

Tick ==
    /\ clock < MaxClock
    /\ clock' = clock + 1
    /\ UNCHANGED <<actions, hosts, exec, nextExec, req, claim, agent, sweep, edits, log>>

-----------------------------------------------------------------------------
RequestStep(r) ==
    \/ ReadAction(r) \/ ReadHost(r) \/ LockAndScan(r) \/ Insert(r) \/ LogStarted(r)
    \/ Approve(r) \/ RequestDies(r)
    \/ \E a \in ActionIds, t \in Triggers : StartRun(r, a, t) \/ StartAlert(r, a, t)
    \/ \E e \in ExecIds : ReadForApproval(r, e)

AdminStep ==
    \/ \E a \in ActionIds :
          \/ \E s \in ActionSettings : CreateAction(a, s) \/ UpdateAction(a, s)
          \/ \E b \in BOOLEAN : SetActionEnabled(a, b)
          \/ DeleteAction(a)
    \/ \E h \in HostIds, b \in BOOLEAN : SetHostEnabled(h, b)
    \/ \E e \in ExecIds : Cancel(e)

ClaimStep(c) == ClaimFind(c) \/ ClaimCas(c) \/ Reply(c) \/ ClaimDies(c)

AgentStep(h) ==
    \/ \E c \in Claims : Poll(h, c)
    \/ PollFails(h) \/ RunJob(h) \/ FinishJob(h) \/ Report(h) \/ ReportFails(h)
    \/ AgentStop(h) \/ Heartbeat(h)
    \/ \E p \in AgentPolicies : AgentStart(h, p)

SweepStep(w) == SweepPending(w) \/ SweepApproval(w) \/ SweepLost(w)

Next ==
    \/ \E r \in Requests : RequestStep(r)
    \/ AdminStep
    \/ \E c \in Claims : ClaimStep(c)
    \/ \E h \in HostIds : AgentStep(h)
    \/ \E w \in Workers : SweepStep(w)
    \/ Tick

Spec == Init /\ [][Next]_vars

-----------------------------------------------------------------------------
(* Fairness: time passes and the worker loop, which sweeps every 30 s and      *)
(* survives errors, keeps sweeping. No user, administrator, request or agent   *)
(* is assumed to act, and no message is assumed to arrive.                     *)
Fairness ==
    /\ WF_vars(Tick)
    /\ \A w \in Workers : WF_vars(SweepStep(w))

FairSpec == Spec /\ Fairness

-----------------------------------------------------------------------------
(* Properties *)

TypeOK ==
    /\ clock \in 0..MaxClock
    /\ actions \in [ActionIds -> ActionRow]
    /\ hosts \in [HostIds -> HostRow]
    /\ exec \in [ExecIds -> ExecRow]
    /\ nextExec \in 1..(MaxExecs + 1)
    /\ req \in [Requests -> RequestRow]
    /\ claim \in [Claims -> ClaimRow]
    /\ agent \in [HostIds -> AgentRow]
    /\ sweep \in [Workers -> SweepRow]
    /\ edits \in 0..MaxEdits
    /\ log \in [ExecIds -> LogRow]

SameKey(e, f) == exec[e].action = exec[f].action /\ exec[e].host = exec[f].host

\* Two simultaneous triggers never leave two live executions of one action on
\* one host (the advisory lock and "already_queued" of createExecution).
AtMostOneLive ==
    \A e, f \in ExecIds :
        (/\ e # f /\ exec[e].host # None
         /\ exec[e].status \in LiveStatuses /\ exec[f].status \in LiveStatuses)
        => ~SameKey(e, f)

\* An execution the guard-rails count: created, neither skipped nor cancelled.
Counted(e) ==
    exec[e].status \in LiveStatuses \cup (TerminalStatuses \ {"SKIPPED", "CANCELLED"})

\* "so two simultaneous triggers cannot both slip under a cooldown": a counted
\* execution was created at least the cooldown it was checked against after
\* every earlier counted execution of the same action and host.
CooldownRespected ==
    \A e, f \in ExecIds :
        (/\ e < f /\ SameKey(e, f) /\ exec[f].host # None
         /\ Counted(e) /\ Counted(f))
        => exec[f].createdAt - exec[e].createdAt >= log[f].cooldown

\* "... or rate limit": in the hour that ends with a counted execution, at most
\* maxRunsPerHour counted executions of its action and host were created.
RateLimitRespected ==
    \A f \in ExecIds :
        (Counted(f) /\ exec[f].host # None) =>
            Cardinality({e \in ExecIds :
                /\ e <= f /\ SameKey(e, f) /\ Counted(e)
                /\ exec[f].createdAt - exec[e].createdAt < RateWindow}) <= log[f].maxRuns

\* A script is started at most once per execution, whatever polls overlap and
\* whatever answers or reports are lost or repeated (claimNextExecution).
StartedAtMostOnce == \A e \in ExecIds : log[e].runs <= 1

\* An execution that was cancelled or expired, by a person or by the worker,
\* while an agent was asking for work, has not run and will not run.
CancelledNeverRuns ==
    \A e \in ExecIds :
        exec[e].status = "CANCELLED" =>
            /\ log[e].runs = 0
            /\ \A h \in HostIds : agent[h].job # e

\* The incident timeline says at most once that a remediation finished, and
\* only of an execution whose stored outcome is the agent's report: a late
\* report of an execution the worker declared lost leaves no event.
FinishedEventIsTheReport ==
    \A e \in ExecIds :
        /\ log[e].finished <= 1
        /\ log[e].finished = 1 =>
              exec[e].reason = "reported" /\ exec[e].status \in TerminalStatuses \cup {"DELETED"}

\* Once an execution has an outcome, no late report, sweep, approval or
\* cancellation changes it; it can only be deleted with its action.
OutcomeIsFinal ==
    [][\A e \in ExecIds :
          exec[e].status \in TerminalStatuses =>
              \/ exec'[e] = exec[e]
              \/ exec'[e].status = "DELETED"]_vars

\* Every execution that is waiting, queued or delivered eventually gets an
\* outcome, whatever the agent does (sweepExecutions).
EveryExecutionSettles ==
    \A e \in ExecIds :
        (exec[e].status \in LiveStatuses) ~> (exec[e].status \notin LiveStatuses)

\* The executions table implements the documented life cycle.
Lifecycle ==
    INSTANCE ExecutionLifecycle WITH
        NoHost <- None,
        status <- [e \in ExecIds |-> exec[e].status],
        key <- [e \in ExecIds |-> [action |-> exec[e].action, host |-> exec[e].host]],
        runs <- [e \in ExecIds |-> log[e].runs]

\* Every step of requests, agents and workers follows the state diagram of
\* executions.ts, keeps one live execution per (action, host), and starts a
\* script once, after the execution was handed out.
ImplementsLifecycle == Lifecycle!AbsSpec

\* executions.ts:181 "It runs without a human only if the rule says 'run
\* automatically' AND the action does not require approval": judged on the
\* version of the action whose script the execution carries.
NoUnattendedRun ==
    \A e \in ExecIds :
        (/\ exec[e].status \in {"PENDING", "RUNNING"}
         /\ exec[e].trigger = "ALERT" /\ ~exec[e].approved)
        => log[e].auto /\ ~log[e].requires
=============================================================================

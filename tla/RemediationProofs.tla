------------------------- MODULE RemediationProofs -------------------------
(***************************************************************************)
(* For every number of actions, hosts, requests, handlers, workers and     *)
(* executions and every setting of the guard-rails: the state is well      *)
(* typed, an action has one live execution per host, and executions that   *)
(* count keep the cooldown and the hourly limit.                           *)
(***************************************************************************)
EXTENDS Remediation, FunctionTheorems, FiniteSetTheorems, TLAPS

USE DEF ExecIds, LiveStatuses, TerminalStatuses, Statuses

\* The rows and contexts the actions build have their types.
LEMMA IdleTypes ==
    /\ IdleRequest \in RequestRow
    /\ IdleClaim \in ClaimRow
    /\ IdleSweep \in SweepRow
    /\ NoExec \in ExecRow
    /\ NoLog \in LogRow
    /\ NoAction \in ActionRow
    /\ \A p \in AgentPolicies : Agent(p) \in AgentRow
BY RemediationConstants
DEF RemediationConstants, IdleRequest, RequestRow, IdleClaim, ClaimRow, IdleSweep, SweepRow, NoExec,
    ExecRow, NoLog, LogRow, NoAction, ActionRow, NoSettings, Agent, AgentRow, HostRow, Reasons

\* The guard-rails answer with one of the platform's reasons, or with none.
LEMMA GuardReason ==
    ASSUME NEW act, NEW h, NEW row, NEW script, NEW recent, NEW now
    PROVE  GuardrailViolation(act, h, row, script, recent, now) \in Reasons
BY DEF GuardrailViolation, Reasons

LEMMA ReasonFacts == {"cancelled", "expired", "agent_lost", "reported"} \subseteq Reasons
BY DEF Reasons

-----------------------------------------------------------------------------
(* TypeOK is not inductive: a field that is None at rest must be an identifier *)
(* where a step uses it to index a table. The contexts a process can be in:    *)

RequestContext ==
    {q \in RequestRow :
        /\ q.pc \in {"create", "host", "lock", "insert"} => q.action \in ActionIds
        /\ q.pc \in {"lock", "insert"} => q.host \in HostIds
        /\ q.pc \in {"event", "approve"} => q.id \in ExecIds}

ClaimContext ==
    {c \in ClaimRow :
        /\ c.pc # "idle" => c.host \in HostIds
        /\ c.pc = "cas" => c.job \in ExecIds /\ c.tries < ClaimAttempts}

AgentContext ==
    {a \in AgentRow :
        /\ a.pc \in {"start", "running", "reporting"} => a.job \in ExecIds
        /\ a.pc = "reporting" => a.result # "none"}

Contexts ==
    /\ req \in [Requests -> RequestContext]
    /\ claim \in [Claims -> ClaimContext]
    /\ agent \in [HostIds -> AgentContext]

LEMMA InitTypes == Init => TypeOK /\ Contexts
<1> SUFFICES ASSUME Init PROVE TypeOK /\ Contexts
  OBVIOUS
<1>1. IdleRequest \in RequestContext /\ IdleClaim \in ClaimContext
  BY IdleTypes DEF RequestContext, IdleRequest, ClaimContext, IdleClaim
<1>2. \A p \in AgentPolicies : Agent(p) \in AgentContext
  BY IdleTypes DEF AgentContext, Agent
<1>3. Contexts
  BY <1>1, <1>2 DEF Init, Contexts
<1>4. TypeOK
  BY IdleTypes, RemediationConstants DEF Init, TypeOK, HostRow, RemediationConstants
<1> QED
  BY <1>3, <1>4

\* What an insertion does to the executions, their history and the counter.
LEMMA InsertTypes ==
    ASSUME TypeOK, NEW r \in Requests, NEW h \in HostIds \cup {None},
           NEW st \in Statuses, NEW reason \in Reasons, InsertRow(r, h, st, reason)
    PROVE  /\ exec' \in [ExecIds -> ExecRow]
           /\ log' \in [ExecIds -> LogRow]
           /\ nextExec' \in 1..(MaxExecs + 1)
<1>1. PICK createdAt \in req[r].now..clock :
        /\ exec' = [exec EXCEPT ![nextExec] = NewRow(r, h, st, reason, createdAt)]
        /\ log' = [log EXCEPT ![nextExec] =
                     [NoLog EXCEPT !.cooldown = req[r].act.set.cooldown,
                                   !.maxRuns = req[r].act.set.maxRuns,
                                   !.requires = req[r].act.set.requiresApproval,
                                   !.auto = req[r].auto,
                                   !.queuedAt = createdAt]]
        /\ nextExec' = nextExec + 1
  BY DEF InsertRow
<1>2. createdAt \in Nat
  BY <1>1, RemediationConstants DEF TypeOK, RequestRow, RemediationConstants
<1>a. /\ req[r].action \in ActionIds \cup {None}
      /\ req[r].trigger \in {"MANUAL", "ALERT"}
      /\ req[r].auto \in BOOLEAN
      /\ req[r].act.set \in Settings \cup {NoSettings}
  BY DEF TypeOK, RequestRow, ActionRow
<1>b. /\ req[r].act.set.script \in Scripts \cup {None}
      /\ req[r].act.set.timeout \in Nat
      /\ req[r].act.set.cooldown \in Nat
      /\ req[r].act.set.maxRuns \in Nat
      /\ req[r].act.set.requiresApproval \in BOOLEAN
  <2>1. CASE req[r].act.set \in Settings
    BY <2>1 DEF Settings
  <2>2. CASE req[r].act.set = NoSettings
    BY <2>2 DEF NoSettings
  <2> QED
    BY <1>a, <2>1, <2>2
<1>3. NewRow(r, h, st, reason, createdAt) \in ExecRow
  BY <1>2, <1>a, <1>b DEF NewRow, NoExec, ExecRow
<1>4. [NoLog EXCEPT !.cooldown = req[r].act.set.cooldown,
                    !.maxRuns = req[r].act.set.maxRuns,
                    !.requires = req[r].act.set.requiresApproval,
                    !.auto = req[r].auto,
                    !.queuedAt = createdAt] \in LogRow
  BY <1>2, <1>a, <1>b DEF NoLog, LogRow
<1>5. nextExec + 1 \in 1..(MaxExecs + 1)
  <2>1. MaxExecs \in Nat
    BY RemediationConstants DEF RemediationConstants
  <2>2. nextExec \in 1..(MaxExecs + 1)
    BY DEF TypeOK
  <2>3. nextExec <= MaxExecs
    BY DEF InsertRow, HasCapacity
  <2> QED BY <2>1, <2>2, <2>3
<1> QED
  BY <1>1, <1>3, <1>4, <1>5 DEF TypeOK

\* After an insertion the request is idle or about to log the new execution.
LEMMA AfterInsertTypes ==
    ASSUME TypeOK, Contexts, NEW r \in Requests, HasCapacity, AfterInsert(r)
    PROVE  req' \in [Requests -> RequestContext]
<1>1. nextExec \in ExecIds
  BY RemediationConstants DEF HasCapacity, TypeOK, RemediationConstants
<1>2. [IdleRequest EXCEPT !.pc = "event", !.id = nextExec] \in RequestContext
  BY IdleTypes, <1>1 DEF RequestContext, RequestRow, IdleRequest
<1>3. IdleRequest \in RequestContext
  BY IdleTypes DEF RequestContext, IdleRequest
<1> QED
  BY <1>2, <1>3 DEF AfterInsert, Contexts

\* The only tables a request changes are its own context and the executions.
LEMMA RequestTypes ==
    ASSUME TypeOK, Contexts, NEW r \in Requests, RequestStep(r)
    PROVE  TypeOK' /\ Contexts'
<1> DEFINE q == req[r]
           Frame == /\ req' \in [Requests -> RequestContext]
                    /\ exec' \in [ExecIds -> ExecRow]
                    /\ log' \in [ExecIds -> LogRow]
                    /\ nextExec' \in 1..(MaxExecs + 1)
                    /\ UNCHANGED <<clock, actions, hosts, claim, agent, sweep, edits>>
<1>a. q \in RequestContext /\ q \in RequestRow
  BY DEF Contexts, RequestContext
<1>b. IdleRequest \in RequestContext
  BY IdleTypes DEF RequestContext, IdleRequest
<1>c. Frame => TypeOK' /\ Contexts'
  <2>1. (req' \in [Requests -> RequestContext]) => (req' \in [Requests -> RequestRow])
    BY DEF RequestContext
  <2> QED
    BY <2>1 DEF TypeOK, Contexts
<1>d. ASSUME NEW q1 \in RequestContext, req' = [req EXCEPT ![r] = q1]
      PROVE  req' \in [Requests -> RequestContext]
  BY <1>d DEF Contexts
<1>1. CASE ReadAction(r)
  <2> DEFINE act == actions[q.action]
  <2>1. CASE act.state = "row"
    <3>1. q.pc = "create" /\ q.action \in ActionIds
      BY <1>a, <1>1 DEF ReadAction, RequestContext
    <3>2. act \in ActionRow
      BY <3>1 DEF TypeOK
    <3>3. act.set \in Settings \/ act.set = NoSettings
      BY <3>2 DEF ActionRow
    <3>4. act.set.target \in HostIds \cup {None}
      BY <3>3 DEF Settings, NoSettings
    <3>5. ASSUME NEW t \in HostIds \cup {None}
          PROVE  [q EXCEPT !.pc = "host", !.act = act, !.host = t] \in RequestContext
      BY <1>a, <3>1, <3>2 DEF RequestContext, RequestRow
    <3>6. (IF q.host # None THEN q.host ELSE act.set.target) \in HostIds \cup {None}
      BY <1>a, <3>4 DEF RequestRow
    <3>7. req' = [req EXCEPT ![r] = [q EXCEPT !.pc = "host", !.act = act,
                      !.host = IF q.host # None THEN q.host ELSE act.set.target]]
      BY <1>1, <2>1, Zenon DEF ReadAction
    <3> QED
      BY <1>1, <1>c, <1>d, <3>5, <3>6, <3>7 DEF ReadAction, TypeOK
  <2>2. CASE act.state # "row"
    BY <1>1, <1>b, <1>c, <1>d, <2>2 DEF ReadAction, TypeOK
  <2> QED
    BY <2>1, <2>2
<1>2. CASE ReadHost(r)
  <2>1. ASSUME q.host # None,
               req' = [req EXCEPT ![r].pc = "lock", ![r].row = hosts[req[r].host]],
               UNCHANGED <<exec, log, nextExec>>
        PROVE  TypeOK' /\ Contexts'
    <3>1. q.host \in HostIds /\ hosts[q.host] \in HostRow
      BY <1>a, <2>1 DEF RequestRow, TypeOK
    <3>2. [q EXCEPT !.pc = "lock", !.row = hosts[q.host]] \in RequestContext
      BY <1>a, <1>2, <3>1 DEF RequestContext, RequestRow, ReadHost
    <3>3. req' = [req EXCEPT ![r] = [q EXCEPT !.pc = "lock", !.row = hosts[q.host]]]
      BY <2>1 DEF Contexts
    <3> QED
      BY <1>2, <1>c, <1>d, <2>1, <3>2, <3>3 DEF ReadHost, TypeOK
  <2>2. ASSUME InsertRow(r, None, "SKIPPED", "no_target_host"), AfterInsert(r)
        PROVE  TypeOK' /\ Contexts'
    <3>1. HasCapacity
      BY <2>2 DEF InsertRow
    <3>2. "no_target_host" \in Reasons
      BY DEF Reasons
    <3> QED
      BY <1>2, <1>c, <2>2, <3>1, <3>2, InsertTypes, AfterInsertTypes DEF ReadHost
  <2>3. CASE ActionGone(r)
    BY <1>2, <1>b, <1>c, <1>d, <2>3 DEF ReadHost, ActionGone, TypeOK
  <2> QED
    BY <1>2, <2>1, <2>2, <2>3 DEF ReadHost
<1>3. CASE LockAndScan(r)
  <2>1. PICK v \in Reasons :
          req' = [req EXCEPT ![r] = [q EXCEPT !.pc = "insert", !.row = IdleRequest.row,
                                              !.violation = v]]
    BY <1>3, GuardReason DEF LockAndScan
  <2>2. IdleRequest.row \in HostRow
    BY DEF IdleRequest, HostRow
  <2>3. [q EXCEPT !.pc = "insert", !.row = IdleRequest.row, !.violation = v]
            \in RequestContext
    BY <1>a, <1>3, <2>2 DEF LockAndScan, RequestContext, RequestRow
  <2> QED
    BY <1>3, <1>c, <1>d, <2>1, <2>3 DEF LockAndScan, TypeOK
<1>4. CASE Insert(r)
  <2>1. CASE ActionGone(r)
    BY <1>4, <1>b, <1>c, <1>d, <2>1 DEF Insert, ActionGone, TypeOK
  <2>2. ASSUME NEW st \in Statuses, InsertRow(r, q.host, st, q.violation), AfterInsert(r)
        PROVE  TypeOK' /\ Contexts'
    <3>1. HasCapacity
      BY <2>2 DEF InsertRow
    <3>2. q.violation \in Reasons /\ q.host \in HostIds \cup {None}
      BY <1>a DEF RequestRow
    <3> QED
      BY <1>4, <1>c, <2>2, <3>1, <3>2, InsertTypes, AfterInsertTypes DEF Insert
  <2> QED
    BY <1>4, <2>1, <2>2 DEF Insert
<1>5. CASE LogStarted(r)
  <2>1. q.id \in ExecIds
    BY <1>a, <1>5 DEF LogStarted, RequestContext
  <2>2. log' \in [ExecIds -> LogRow]
    <3>1. [log[q.id] EXCEPT !.started = @ + 1] \in LogRow
      <4>1. log[q.id] \in LogRow
        BY <2>1 DEF TypeOK
      <4> QED
        BY <4>1 DEF LogRow
    <3> QED
      BY <1>5, <2>1, <3>1 DEF LogStarted, TypeOK
  <2> QED
    BY <1>5, <1>b, <1>c, <1>d, <2>2 DEF LogStarted, TypeOK
<1>6. CASE Approve(r)
  <2>1. q.id \in ExecIds /\ q.violation \in Reasons
    BY <1>a, <1>6 DEF Approve, RequestContext, RequestRow
  <2>2. exec' \in [ExecIds -> ExecRow]
    <3>1. ASSUME NEW st \in Statuses
          PROVE  [exec[q.id] EXCEPT !.status = st, !.reason = q.violation,
                                    !.approved = TRUE] \in ExecRow
      <4>1. exec[q.id] \in ExecRow
        BY <2>1 DEF TypeOK
      <4> QED
        BY <2>1, <4>1 DEF ExecRow
    <3>2. CASE exec[q.id].status = "AWAITING_APPROVAL"
      <4> DEFINE st == IF q.violation = "none" THEN "PENDING" ELSE "SKIPPED"
      <4>1. exec' = [exec EXCEPT ![q.id] = [exec[q.id] EXCEPT !.status = st,
                              !.reason = q.violation, !.approved = TRUE]]
        BY <1>6, <3>2, Zenon DEF Approve
      <4>2. st \in Statuses
        OBVIOUS
      <4> QED
        BY <2>1, <3>1, <4>1, <4>2 DEF TypeOK
    <3>3. CASE exec[q.id].status # "AWAITING_APPROVAL"
      BY <1>6, <3>3 DEF Approve, TypeOK
    <3> QED
      BY <3>2, <3>3
  <2>3. log' \in [ExecIds -> LogRow]
    <3>1. [log[q.id] EXCEPT !.queuedAt = clock] \in LogRow
      <4>1. log[q.id] \in LogRow /\ clock \in Nat
        BY <2>1, RemediationConstants DEF TypeOK, RemediationConstants
      <4> QED
        BY <4>1 DEF LogRow
    <3> QED
      BY <1>6, <2>1, <3>1 DEF Approve, TypeOK
  <2> QED
    BY <1>6, <1>b, <1>c, <1>d, <2>2, <2>3 DEF Approve, TypeOK
<1>7. CASE RequestDies(r)
  BY <1>7, <1>b, <1>c, <1>d DEF RequestDies, TypeOK
<1>8. ASSUME NEW a \in ActionIds, NEW t \in Triggers, StartRun(r, a, t)
      PROVE  TypeOK' /\ Contexts'
  <2>1. t.host \in HostIds \cup {None} /\ clock \in Nat
    BY RemediationConstants DEF RemediationConstants, TriggerInputs, TypeOK
  <2>2. [IdleRequest EXCEPT !.pc = "create", !.action = a, !.host = t.host, !.now = clock]
            \in RequestContext
    BY <2>1, IdleTypes DEF RequestContext, RequestRow, IdleRequest
  <2> QED
    BY <1>8, <1>c, <1>d, <2>2 DEF StartRun, TypeOK
<1>9. ASSUME NEW a \in ActionIds, NEW t \in Triggers, StartAlert(r, a, t)
      PROVE  TypeOK' /\ Contexts'
  <2>1. t.host \in HostIds \cup {None} /\ clock \in Nat /\ t.auto \in BOOLEAN
    BY RemediationConstants DEF RemediationConstants, TriggerInputs, TypeOK
  <2>2. ASSUME NEW b \in BOOLEAN
        PROVE  [IdleRequest EXCEPT !.pc = "create", !.trigger = "ALERT",
                  !.action = a, !.host = t.host, !.auto = t.auto, !.now = clock,
                  !.needsApproval = b] \in RequestContext
    BY <2>1, IdleTypes DEF RequestContext, RequestRow, IdleRequest
  <2>3. (~t.auto \/ actions[a].set.requiresApproval) \in BOOLEAN
    OBVIOUS
  <2> QED
    BY <1>9, <1>c, <1>d, <2>2, <2>3 DEF StartAlert, TypeOK
<1>10. ASSUME NEW e \in ExecIds, ReadForApproval(r, e)
       PROVE  TypeOK' /\ Contexts'
  <2>1. PICK v \in Reasons :
          req' = [req EXCEPT ![r] = [IdleRequest EXCEPT !.pc = "approve", !.id = e, !.violation = v]]
    <3>1. "no_target_host" \in Reasons
      BY DEF Reasons
    <3> QED
      BY <1>10, <3>1, GuardReason DEF ReadForApproval
  <2>2. [IdleRequest EXCEPT !.pc = "approve", !.id = e, !.violation = v] \in RequestContext
    BY IdleTypes DEF RequestContext, RequestRow, IdleRequest
  <2> QED
    BY <1>10, <1>c, <1>d, <2>1, <2>2 DEF ReadForApproval, TypeOK
<1> QED
  BY <1>1, <1>2, <1>3, <1>4, <1>5, <1>6, <1>7, <1>8, <1>9, <1>10 DEF RequestStep

\* Administrators write actions, hosts, executions and the edit counter.
LEMMA AdminTypes ==
    ASSUME TypeOK, Contexts, AdminStep
    PROVE  TypeOK' /\ Contexts'
<1>1. Edit => edits' \in 0..MaxEdits
  BY RemediationConstants DEF Edit, TypeOK, RemediationConstants
<1>2. ASSUME NEW a \in ActionIds, NEW s \in ActionSettings, CreateAction(a, s)
      PROVE  TypeOK' /\ Contexts'
  <2>1. [state |-> "row", enabled |-> TRUE, set |-> s] \in ActionRow
    BY RemediationConstants DEF RemediationConstants, ActionRow
  <2> QED
    BY <1>2, <2>1 DEF CreateAction, TypeOK, Contexts
<1>3. ASSUME NEW a \in ActionIds, NEW s \in ActionSettings, UpdateAction(a, s)
      PROVE  TypeOK' /\ Contexts'
  <2>1. [actions[a] EXCEPT !.set = s] \in ActionRow
    BY RemediationConstants DEF RemediationConstants, ActionRow, TypeOK
  <2> QED
    BY <1>1, <1>3, <2>1 DEF UpdateAction, TypeOK, Contexts
<1>4. ASSUME NEW a \in ActionIds, NEW b \in BOOLEAN, SetActionEnabled(a, b)
      PROVE  TypeOK' /\ Contexts'
  <2>1. [actions[a] EXCEPT !.enabled = b] \in ActionRow
    BY DEF ActionRow, TypeOK
  <2> QED
    BY <1>1, <1>4, <2>1 DEF SetActionEnabled, TypeOK, Contexts
<1>5. ASSUME NEW a \in ActionIds, DeleteAction(a)
      PROVE  TypeOK' /\ Contexts'
  <2>1. [actions[a] EXCEPT !.state = "deleted"] \in ActionRow
    BY DEF ActionRow, TypeOK
  <2>2. \A e \in ExecIds : [exec[e] EXCEPT !.status = "DELETED"] \in ExecRow
    BY DEF ExecRow, TypeOK
  <2>3. actions' \in [ActionIds -> ActionRow] /\ exec' \in [ExecIds -> ExecRow]
    BY <1>5, <2>1, <2>2 DEF DeleteAction, TypeOK
  <2> QED
    BY <1>1, <1>5, <2>3 DEF DeleteAction, TypeOK, Contexts
<1>6. ASSUME NEW h \in HostIds, NEW b \in BOOLEAN, SetHostEnabled(h, b)
      PROVE  TypeOK' /\ Contexts'
  <2>1. [hosts[h] EXCEPT !.enabled = b] \in HostRow
    BY DEF HostRow, TypeOK
  <2> QED
    BY <1>1, <1>6, <2>1 DEF SetHostEnabled, TypeOK, Contexts
<1>7. ASSUME NEW e \in ExecIds, Cancel(e)
      PROVE  TypeOK' /\ Contexts'
  <2>1. [exec[e] EXCEPT !.status = "CANCELLED", !.reason = "cancelled"] \in ExecRow
    <3>1. exec[e] \in ExecRow
      BY DEF TypeOK
    <3> QED
      BY <3>1, ReasonFacts DEF ExecRow
  <2>2. exec' = [exec EXCEPT ![e] = [exec[e] EXCEPT !.status = "CANCELLED",
                                                    !.reason = "cancelled"]]
    BY <1>7 DEF Cancel, TypeOK
  <2> QED
    BY <1>7, <2>1, <2>2 DEF Cancel, TypeOK, Contexts
<1> QED
  BY <1>2, <1>3, <1>4, <1>5, <1>6, <1>7 DEF AdminStep

\* A handler of /next writes its own context, one execution and one agent.
LEMMA ClaimTypes ==
    ASSUME TypeOK, Contexts, NEW c \in Claims, ClaimStep(c)
    PROVE  TypeOK' /\ Contexts'
<1> DEFINE k == claim[c]
           Frame == /\ claim' \in [Claims -> ClaimContext]
                    /\ exec' \in [ExecIds -> ExecRow]
                    /\ agent' \in [HostIds -> AgentContext]
                    /\ UNCHANGED <<clock, actions, hosts, nextExec, req, sweep, edits, log>>
<1>a. k \in ClaimContext /\ k \in ClaimRow
  BY DEF Contexts, ClaimContext
<1>b. IdleClaim \in ClaimContext
  BY IdleTypes DEF ClaimContext, IdleClaim
<1>c. Frame => TypeOK' /\ Contexts'
  <2>1. /\ (claim' \in [Claims -> ClaimContext]) => (claim' \in [Claims -> ClaimRow])
        /\ (agent' \in [HostIds -> AgentContext]) => (agent' \in [HostIds -> AgentRow])
    BY DEF ClaimContext, AgentContext
  <2> QED
    BY <2>1 DEF TypeOK, Contexts
<1>d. ASSUME NEW k1 \in ClaimContext, claim' = [claim EXCEPT ![c] = k1]
      PROVE  claim' \in [Claims -> ClaimContext]
  BY <1>d DEF Contexts
<1>1. CASE ClaimFind(c)
  <2>1. ASSUME k.tries < ClaimAttempts, NEW e \in OldestPending(k.host),
               claim' = [claim EXCEPT ![c].pc = "cas", ![c].job = e]
        PROVE  claim' \in [Claims -> ClaimContext]
    <3>1. e \in ExecIds
      BY DEF OldestPending, PendingOf
    <3>2. [k EXCEPT !.pc = "cas", !.job = e] \in ClaimContext
      BY <1>1, <1>a, <2>1, <3>1 DEF ClaimContext, ClaimRow, ClaimFind
    <3> QED
      BY <1>d, <2>1, <3>2 DEF Contexts
  <2>2. ASSUME claim' = [claim EXCEPT ![c].pc = "reply", ![c].job = None]
        PROVE  claim' \in [Claims -> ClaimContext]
    <3>1. [k EXCEPT !.pc = "reply", !.job = None] \in ClaimContext
      BY <1>1, <1>a DEF ClaimContext, ClaimRow, ClaimFind
    <3> QED
      BY <1>d, <2>2, <3>1 DEF Contexts
  <2> QED
    BY <1>1, <1>c, <2>1, <2>2 DEF ClaimFind, TypeOK, Contexts
<1>2. CASE ClaimCas(c)
  <2>0. k.job \in ExecIds /\ k.pc = "cas" /\ k.now \in Nat
    BY <1>2, <1>a DEF ClaimCas, ClaimContext, ClaimRow
  <2>1. ASSUME exec' = [exec EXCEPT ![k.job].status = "RUNNING", ![k.job].startedAt = k.now],
               claim' = [claim EXCEPT ![c].pc = "reply"]
        PROVE  /\ claim' \in [Claims -> ClaimContext]
               /\ exec' \in [ExecIds -> ExecRow]
    <3>1. [k EXCEPT !.pc = "reply"] \in ClaimContext
      BY <1>a, <2>0 DEF ClaimContext, ClaimRow
    <3>2. exec[k.job] \in ExecRow
      BY <2>0 DEF TypeOK
    <3>3. [exec[k.job] EXCEPT !.status = "RUNNING", !.startedAt = k.now] \in ExecRow
      BY <2>0, <3>2 DEF ExecRow
    <3>4. exec' = [exec EXCEPT ![k.job] =
                     [exec[k.job] EXCEPT !.status = "RUNNING", !.startedAt = k.now]]
      BY <2>0, <2>1 DEF TypeOK
    <3> QED
      BY <1>d, <2>0, <2>1, <3>1, <3>3, <3>4 DEF TypeOK
  <2>2. ASSUME claim' = [claim EXCEPT ![c].pc = "find", ![c].job = None, ![c].tries = @ + 1]
        PROVE  claim' \in [Claims -> ClaimContext]
    <3>1. k.tries + 1 \in 0..ClaimAttempts
      BY <1>a, <2>0, RemediationConstants DEF ClaimContext, ClaimRow, RemediationConstants
    <3>2. [k EXCEPT !.pc = "find", !.job = None, !.tries = k.tries + 1] \in ClaimContext
      BY <1>a, <2>0, <3>1 DEF ClaimContext, ClaimRow
    <3>3. claim' = [claim EXCEPT ![c] =
                      [k EXCEPT !.pc = "find", !.job = None, !.tries = k.tries + 1]]
      BY <1>a, <2>2 DEF TypeOK, ClaimRow
    <3> QED
      BY <1>d, <3>2, <3>3
  <2> QED
    BY <1>2, <1>c, <2>1, <2>2 DEF ClaimCas, TypeOK, Contexts
<1>3. CASE Reply(c)
  <2>1. k.host \in HostIds
    BY <1>3, <1>a DEF Reply, ClaimContext
  <2>2. agent[k.host] \in AgentContext /\ agent[k.host] \in AgentRow
    BY <2>1 DEF TypeOK, Contexts
  <2>3. ASSUME NEW j \in ExecIds
        PROVE  [agent[k.host] EXCEPT !.via = None, !.job = j, !.pc = "start"] \in AgentContext
    BY <2>2 DEF AgentContext, AgentRow
  <2>4. [agent[k.host] EXCEPT !.via = None, !.job = None, !.pc = "idle"] \in AgentContext
    BY <2>2 DEF AgentContext, AgentRow
  <2>5. k.job = None \/ k.job \in ExecIds
    BY <1>a DEF ClaimRow
  <2>6. agent' \in [HostIds -> AgentContext]
    <3>1. CASE ~(agent[k.host].pc = "polling" /\ agent[k.host].via = c)
      BY <1>3, <3>1 DEF Reply, Contexts
    <3>2. CASE (agent[k.host].pc = "polling" /\ agent[k.host].via = c) /\ k.job = None
      BY <1>3, <2>1, <2>4, <3>2 DEF Reply, Contexts
    <3>3. CASE (agent[k.host].pc = "polling" /\ agent[k.host].via = c) /\ k.job # None
      BY <1>3, <2>1, <2>3, <2>5, <3>3 DEF Reply, Contexts
    <3> QED
      BY <3>1, <3>2, <3>3
  <2> QED
    BY <1>3, <1>b, <1>c, <1>d, <2>6 DEF Reply, TypeOK
<1>4. CASE ClaimDies(c)
  BY <1>4, <1>b, <1>c, <1>d DEF ClaimDies, TypeOK, Contexts
<1> QED
  BY <1>1, <1>2, <1>3, <1>4 DEF ClaimStep

\* An agent writes its own row, the execution it reports, and its host's row.
LEMMA AgentTypes ==
    ASSUME TypeOK, Contexts, NEW h \in HostIds, AgentStep(h)
    PROVE  TypeOK' /\ Contexts'
<1> DEFINE g == agent[h]
           Frame == /\ agent' \in [HostIds -> AgentContext]
                    /\ exec' \in [ExecIds -> ExecRow]
                    /\ log' \in [ExecIds -> LogRow]
                    /\ edits' \in 0..MaxEdits
                    /\ UNCHANGED <<clock, actions, hosts, nextExec, req, claim, sweep>>
<1>a. g \in AgentContext /\ g \in AgentRow
  BY DEF Contexts, AgentContext
<1>b. \A p \in Policies : Agent(p) \in AgentContext
  BY RemediationConstants DEF RemediationConstants, AgentContext, Agent, AgentRow
<1>c. Frame => TypeOK' /\ Contexts'
  <2>1. (agent' \in [HostIds -> AgentContext]) => (agent' \in [HostIds -> AgentRow])
    BY DEF AgentContext
  <2> QED
    BY <2>1 DEF TypeOK, Contexts
<1>d. ASSUME NEW g1 \in AgentContext, agent' = [agent EXCEPT ![h] = g1]
      PROVE  agent' \in [HostIds -> AgentContext]
  BY <1>d DEF Contexts
<1>e. g.policy \in Policies
  BY <1>a DEF AgentRow
<1>f. AgentDone(h) => agent' \in [HostIds -> AgentContext]
  BY <1>b, <1>d, <1>e DEF AgentDone
<1>g. g.pc = "reporting" /\ AgentRetry(h) => agent' \in [HostIds -> AgentContext]
  <2>1. ASSUME g.pc = "reporting", g.tries + 1 < ReportAttempts
        PROVE  [g EXCEPT !.tries = g.tries + 1] \in AgentContext
    <3>1. g.tries + 1 \in 0..(ReportAttempts - 1)
      BY <1>a, <2>1, RemediationConstants DEF AgentRow, RemediationConstants
    <3> QED
      BY <1>a, <2>1, <3>1 DEF AgentContext, AgentRow
  <2>2. (agent' = [agent EXCEPT ![h].tries = @ + 1])
            => agent' = [agent EXCEPT ![h] = [g EXCEPT !.tries = g.tries + 1]]
    BY DEF TypeOK
  <2> QED
    BY <1>d, <1>f, <2>1, <2>2 DEF AgentRetry
<1>h. 0 \in 0..(ReportAttempts - 1) /\ clock \in Nat
  BY RemediationConstants DEF RemediationConstants, TypeOK
<1>1. ASSUME NEW c \in Claims, Poll(h, c)
      PROVE  TypeOK' /\ Contexts'
  <2>1. [g EXCEPT !.pc = "polling", !.via = c] \in AgentContext
    BY <1>a DEF AgentContext, AgentRow
  <2>2. agent' = [agent EXCEPT ![h] = [g EXCEPT !.pc = "polling", !.via = c]]
    BY <1>1 DEF Poll, TypeOK
  <2>3. [IdleClaim EXCEPT !.pc = "find", !.host = h, !.now = clock] \in ClaimContext
    BY <1>h, IdleTypes DEF ClaimContext, ClaimRow, IdleClaim
  <2>4. claim' \in [Claims -> ClaimContext] /\ claim' \in [Claims -> ClaimRow]
    BY <1>1, <2>3 DEF Poll, Contexts, ClaimContext
  <2>5. agent' \in [HostIds -> AgentContext] /\ agent' \in [HostIds -> AgentRow]
    BY <1>d, <2>1, <2>2 DEF AgentContext
  <2> QED
    BY <1>1, <2>4, <2>5 DEF Poll, TypeOK, Contexts
<1>2. CASE PollFails(h)
  <2>1. [g EXCEPT !.pc = "idle", !.via = None] \in AgentContext
    BY <1>a DEF AgentContext, AgentRow
  <2>2. agent' = [agent EXCEPT ![h] = [g EXCEPT !.pc = "idle", !.via = None]]
    BY <1>2 DEF PollFails, TypeOK
  <2> QED
    BY <1>2, <1>c, <1>d, <2>1, <2>2 DEF PollFails, TypeOK
<1>3. CASE RunJob(h)
  <2>0. g.pc = "start" /\ g.job \in ExecIds
    BY <1>3, <1>a DEF RunJob, AgentContext
  <2>1. CASE Skip(h) /\ UNCHANGED log
    <3>1. [g EXCEPT !.pc = "reporting", !.result = "SKIPPED", !.tries = 0] \in AgentContext
      BY <1>a, <1>h, <2>0 DEF AgentContext, AgentRow
    <3>2. agent' = [agent EXCEPT ![h] =
                      [g EXCEPT !.pc = "reporting", !.result = "SKIPPED", !.tries = 0]]
      BY <2>1 DEF Skip, TypeOK
    <3> QED
      BY <1>3, <1>c, <1>d, <2>1, <3>1, <3>2 DEF RunJob, TypeOK
  <2>2. ASSUME agent' = [agent EXCEPT ![h].pc = "running", ![h].since = clock],
               log' = [log EXCEPT ![g.job].runs = @ + 1]
        PROVE  TypeOK' /\ Contexts'
    <3>1. [g EXCEPT !.pc = "running", !.since = clock] \in AgentContext
      BY <1>a, <1>h, <2>0 DEF AgentContext, AgentRow
    <3>2. agent' = [agent EXCEPT ![h] = [g EXCEPT !.pc = "running", !.since = clock]]
      BY <2>2 DEF TypeOK
    <3>3. log[g.job] \in LogRow
      BY <2>0 DEF TypeOK
    <3>4. [log[g.job] EXCEPT !.runs = @ + 1] \in LogRow
      BY <3>3 DEF LogRow
    <3>5. log' \in [ExecIds -> LogRow]
      BY <2>0, <2>2, <3>4 DEF TypeOK
    <3> QED
      BY <1>3, <1>c, <1>d, <3>1, <3>2, <3>5 DEF RunJob, TypeOK
  <2> QED
    BY <1>3, <2>1, <2>2 DEF RunJob
<1>4. CASE FinishJob(h)
  <2>1. PICK result \in {"SUCCEEDED", "FAILED", "TIMED_OUT"} :
          agent' = [agent EXCEPT ![h].pc = "reporting", ![h].result = result, ![h].tries = 0]
    BY <1>4 DEF FinishJob
  <2>2. [g EXCEPT !.pc = "reporting", !.result = result, !.tries = 0] \in AgentContext
    BY <1>4, <1>a, <1>h DEF AgentContext, AgentRow, FinishJob
  <2>3. agent' = [agent EXCEPT ![h] =
                    [g EXCEPT !.pc = "reporting", !.result = result, !.tries = 0]]
    BY <2>1 DEF TypeOK
  <2> QED
    BY <1>4, <1>c, <1>d, <2>2, <2>3 DEF FinishJob, TypeOK
<1>5. CASE Report(h)
  <2>0. g.pc = "reporting" /\ g.job \in ExecIds /\ g.result \in Statuses
    BY <1>5, <1>a DEF Report, AgentContext, AgentRow
  <2>1. agent' \in [HostIds -> AgentContext]
    BY <1>5, <1>f, <1>g, <2>0 DEF Report
  <2>2. exec[g.job] \in ExecRow /\ log[g.job] \in LogRow
    BY <2>0 DEF TypeOK
  <2>3. [exec[g.job] EXCEPT !.status = g.result, !.reason = "reported"] \in ExecRow
    BY <2>0, <2>2, ReasonFacts DEF ExecRow
  <2>4. [log[g.job] EXCEPT !.finished = @ + 1] \in LogRow
    BY <2>2 DEF LogRow
  <2>5. (exec' = [exec EXCEPT ![g.job].status = g.result, ![g.job].reason = "reported"])
            => exec' = [exec EXCEPT ![g.job] =
                          [exec[g.job] EXCEPT !.status = g.result, !.reason = "reported"]]
    BY <2>0 DEF TypeOK
  <2>6. exec' \in [ExecIds -> ExecRow] /\ log' \in [ExecIds -> LogRow]
    BY <1>5, <2>0, <2>3, <2>4, <2>5 DEF Report, StoreResult, TypeOK
  <2> QED
    BY <1>5, <1>c, <2>1, <2>6 DEF Report, TypeOK
<1>6. CASE ReportFails(h)
  BY <1>6, <1>c, <1>g DEF ReportFails, TypeOK
<1>7. CASE AgentStop(h)
  <2>1. [Agent(g.policy) EXCEPT !.pc = "off"] \in AgentContext
    BY <1>b, <1>e DEF AgentContext, AgentRow
  <2>2. edits' \in 0..MaxEdits
    BY <1>7, RemediationConstants DEF AgentStop, Edit, TypeOK, RemediationConstants
  <2> QED
    BY <1>7, <1>c, <1>d, <2>1, <2>2 DEF AgentStop, TypeOK
<1>8. CASE Heartbeat(h)
  <2>1. hosts[h] \in HostRow
    BY DEF TypeOK
  <2>2. /\ g.policy.mode \in {"null", "disabled", "allowlist", "any"}
        /\ (IF g.policy.mode = "allowlist" THEN g.policy.allow ELSE {}) \in SUBSET Scripts
    BY <1>e DEF Policies
  <2>3. [hosts[h] EXCEPT !.mode = g.policy.mode,
                         !.allow = IF g.policy.mode = "allowlist" THEN g.policy.allow ELSE {}]
            \in HostRow
    BY <2>1, <2>2 DEF HostRow
  <2>4. hosts' \in [HostIds -> HostRow]
    BY <1>8, <2>3 DEF Heartbeat, TypeOK
  <2> QED
    BY <1>8, <2>4 DEF Heartbeat, TypeOK, Contexts
<1>9. ASSUME NEW p \in AgentPolicies, AgentStart(h, p)
      PROVE  TypeOK' /\ Contexts'
  <2>1. p \in Policies
    BY RemediationConstants DEF RemediationConstants
  <2> QED
    BY <1>9, <1>b, <1>c, <1>d, <2>1 DEF AgentStart, TypeOK
<1> QED
  BY <1>1, <1>2, <1>3, <1>4, <1>5, <1>6, <1>7, <1>8, <1>9 DEF AgentStep

\* A sweep writes its own context and the executions.
LEMMA SweepTypes ==
    ASSUME TypeOK, Contexts, NEW w \in Workers, SweepStep(w)
    PROVE  TypeOK' /\ Contexts'
<1>1. sweep' \in [Workers -> SweepRow]
  <2>1. [pc |-> "approval", now |-> clock] \in SweepRow
    BY RemediationConstants DEF TypeOK, SweepRow, RemediationConstants
  <2>2. [sweep[w] EXCEPT !.pc = "running"] \in SweepRow
    BY DEF TypeOK, SweepRow
  <2> QED
    BY <2>1, <2>2, IdleTypes DEF SweepStep, SweepPending, SweepApproval, SweepLost, TypeOK
<1>2. \A e \in ExecIds :
        /\ Expire(e) \in ExecRow
        /\ [exec[e] EXCEPT !.status = "TIMED_OUT", !.reason = "agent_lost"] \in ExecRow
  <2> SUFFICES ASSUME NEW e \in ExecIds
               PROVE  /\ Expire(e) \in ExecRow
                      /\ [exec[e] EXCEPT !.status = "TIMED_OUT", !.reason = "agent_lost"] \in ExecRow
    OBVIOUS
  <2>1. exec[e] \in ExecRow
    BY DEF TypeOK
  <2> QED
    BY <2>1, ReasonFacts DEF ExecRow, Expire
<1>3. exec' \in [ExecIds -> ExecRow]
  <2>1. \A e \in ExecIds : exec[e] \in ExecRow
    BY DEF TypeOK
  <2>2. CASE SweepPending(w)
    BY <1>2, <2>1, <2>2 DEF SweepPending
  <2>3. CASE SweepApproval(w)
    BY <1>2, <2>1, <2>3 DEF SweepApproval
  <2>4. CASE SweepLost(w)
    BY <1>2, <2>1, <2>4 DEF SweepLost
  <2> QED
    BY <2>2, <2>3, <2>4 DEF SweepStep
<1>4. UNCHANGED <<clock, actions, hosts, nextExec, req, claim, agent, edits, log>>
  BY DEF SweepStep, SweepPending, SweepApproval, SweepLost
<1> QED
  BY <1>1, <1>3, <1>4 DEF TypeOK, Contexts

LEMMA TypesStep ==
    ASSUME TypeOK, Contexts, [Next]_vars
    PROVE  TypeOK' /\ Contexts'
<1>1. CASE \E r \in Requests : RequestStep(r)
  BY <1>1, RequestTypes
<1>2. CASE AdminStep
  BY <1>2, AdminTypes
<1>3. CASE \E c \in Claims : ClaimStep(c)
  BY <1>3, ClaimTypes
<1>4. CASE \E h \in HostIds : AgentStep(h)
  BY <1>4, AgentTypes
<1>5. CASE \E w \in Workers : SweepStep(w)
  BY <1>5, SweepTypes
<1>6. CASE Tick
  BY <1>6, RemediationConstants DEF Tick, TypeOK, Contexts, RemediationConstants
<1>7. CASE UNCHANGED vars
  BY <1>7 DEF vars, TypeOK, Contexts
<1> QED
  BY <1>1, <1>2, <1>3, <1>4, <1>5, <1>6, <1>7 DEF Next

\* Every value any process stores or holds has its type: no step indexes a
\* table with a missing identifier, no counter leaves its bounds, and no status
\* outside the enumeration is written by a creation, claim, report or sweep.
THEOREM Typing == Spec => []TypeOK
<1>1. Init => TypeOK /\ Contexts
  BY InitTypes
<1>2. TypeOK /\ Contexts /\ [Next]_vars => TypeOK' /\ Contexts'
  BY TypesStep
<1> QED
  BY <1>1, <1>2, PTL DEF Spec

-----------------------------------------------------------------------------
(* What a step does to the executions: it inserts one row, or it moves rows    *)
(* along the life cycle. Every later proof starts from this.                   *)

\* The rows created so far are those below nextExec; the others are blank.
Fresh ==
    \A e \in ExecIds :
        IF e < nextExec THEN exec[e].status # "ABSENT" ELSE exec[e] = NoExec

Moves(e) ==
    \/ exec'[e] = exec[e]
    \/ /\ exec[e].status # "ABSENT"
       /\ Lifecycle!Edge(exec[e].status, exec'[e].status)
       /\ exec'[e].action = exec[e].action
       /\ exec'[e].host = exec[e].host
       /\ exec'[e].createdAt = exec[e].createdAt
       /\ exec'[e].status = "DELETED" => exec'[e].reason = exec[e].reason

\* What the history recorded of the guard-rails it was created under stays.
GuardLogKept(e) ==
    log'[e].cooldown = log[e].cooldown /\ log'[e].maxRuns = log[e].maxRuns

USE DEF GuardLogKept

MovesOnly ==
    /\ nextExec' = nextExec
    /\ \A e \in ExecIds : Moves(e)
    /\ \A e \in ExecIds : GuardLogKept(e)

\* The two insertions: a skipped execution without host, and the decided one.
Inserts(r) ==
    \/ ReadHost(r) /\ InsertRow(r, None, "SKIPPED", "no_target_host")
    \/ /\ Insert(r)
       /\ InsertRow(r, req[r].host,
                    IF req[r].violation # "none" THEN "SKIPPED"
                    ELSE IF req[r].needsApproval THEN "AWAITING_APPROVAL" ELSE "PENDING",
                    req[r].violation)

LEMMA IdleRowsStay ==
    ASSUME UNCHANGED <<exec, log, nextExec>>
    PROVE  MovesOnly
BY DEF MovesOnly, Moves

\* One row moves, in its status, reason and an irrelevant field.
LEMMA OneRowMoves ==
    ASSUME TypeOK, NEW x \in ExecIds, NEW row,
           exec' = [exec EXCEPT ![x] = row],
           exec[x].status # "ABSENT", row.status # "DELETED",
           Lifecycle!Edge(exec[x].status, row.status),
           row.action = exec[x].action, row.host = exec[x].host,
           row.createdAt = exec[x].createdAt
    PROVE  \A e \in ExecIds : Moves(e)
<1> SUFFICES ASSUME NEW e \in ExecIds PROVE Moves(e)
  OBVIOUS
<1>1. CASE e = x
  <2>1. exec'[e] = row
    BY <1>1 DEF TypeOK
  <2> QED
    BY <1>1, <2>1 DEF Moves
<1>2. CASE e # x
  BY <1>2 DEF TypeOK, Moves
<1> QED
  BY <1>1, <1>2

\* The history fields that count do not touch the guard-rails an entry recorded.
LEMMA GuardLogUntouched ==
    ASSUME TypeOK, NEW x \in ExecIds, NEW v,
           \/ log' = log
           \/ log' = [log EXCEPT ![x].queuedAt = v]
           \/ log' = [log EXCEPT ![x].runs = v]
           \/ log' = [log EXCEPT ![x].finished = v]
    PROVE  \A e \in ExecIds : GuardLogKept(e)
<1>1. log \in [ExecIds -> LogRow]
  BY DEF TypeOK
<1>2. CASE log' = [log EXCEPT ![x].queuedAt = v]
  BY <1>1, <1>2 DEF LogRow
<1>3. CASE log' = [log EXCEPT ![x].runs = v]
  BY <1>1, <1>3 DEF LogRow
<1>4. CASE log' = [log EXCEPT ![x].finished = v]
  BY <1>1, <1>4 DEF LogRow
<1> QED
  BY <1>2, <1>3, <1>4

\* A request inserts one row, approves one execution or leaves them alone.
LEMMA RequestEffect ==
    ASSUME TypeOK, Contexts, NEW r \in Requests, RequestStep(r)
    PROVE  MovesOnly \/ Inserts(r)
<1>1. CASE ReadHost(r)
  BY <1>1, IdleRowsStay DEF ReadHost, ActionGone, Inserts
<1>2. CASE Insert(r)
  BY <1>2, IdleRowsStay DEF Insert, ActionGone, Inserts
<1>3. CASE LogStarted(r)
  <2>1. req[r].id \in ExecIds
    BY <1>3 DEF LogStarted, Contexts, RequestContext
  <2>2. \A e \in ExecIds : GuardLogKept(e)
    BY <1>3, <2>1 DEF LogStarted, TypeOK, LogRow
  <2> QED
    BY <1>3, <2>2 DEF LogStarted, MovesOnly, Moves
<1>4. CASE Approve(r)
  <2>1. req[r].id \in ExecIds
    BY <1>4 DEF Approve, Contexts, RequestContext
  <2>2. \A e \in ExecIds : GuardLogKept(e)
    BY <1>4, <2>1, GuardLogUntouched DEF Approve
  <2>3. \A e \in ExecIds : Moves(e)
    <3> DEFINE e == req[r].id
               st == IF req[r].violation = "none" THEN "PENDING" ELSE "SKIPPED"
               row == [exec[e] EXCEPT !.status = st, !.reason = req[r].violation,
                                      !.approved = TRUE]
    <3>1. CASE exec[e].status = "AWAITING_APPROVAL"
      <4>1. exec' = [exec EXCEPT ![e] = row]
        BY <1>4, <3>1, Zenon DEF Approve
      <4>2. exec[e] \in ExecRow
        BY <2>1 DEF TypeOK
      <4>3. /\ row.status = st /\ row.action = exec[e].action
            /\ row.host = exec[e].host /\ row.createdAt = exec[e].createdAt
        BY <4>2 DEF ExecRow
      <4>4. Lifecycle!Edge(exec[e].status, st) /\ st # "DELETED"
        BY <3>1 DEF Lifecycle!Edge
      <4> HIDE DEF row, st, e
      <4> QED
        BY <2>1, <3>1, <4>1, <4>3, <4>4, OneRowMoves DEF e
    <3>2. CASE exec[e].status # "AWAITING_APPROVAL"
      BY <1>4, <3>2 DEF Approve, Moves
    <3> QED
      BY <3>1, <3>2
  <2> QED
    BY <1>4, <2>2, <2>3 DEF Approve, MovesOnly
<1>5. CASE ~(ReadHost(r) \/ Insert(r) \/ LogStarted(r) \/ Approve(r))
  <2>1. UNCHANGED <<exec, log, nextExec>>
    BY <1>5 DEF RequestStep, ReadAction, LockAndScan, RequestDies, StartRun, StartAlert,
                ReadForApproval
  <2> QED
    BY <2>1, IdleRowsStay
<1> QED
  BY <1>1, <1>2, <1>3, <1>4, <1>5

\* Cancellation and deletion are the administrators' moves.
LEMMA AdminEffect ==
    ASSUME TypeOK, Contexts, Fresh, AdminStep
    PROVE  MovesOnly
<1>1. ASSUME NEW e \in ExecIds, Cancel(e)
      PROVE  MovesOnly
  <2>1. \A f \in ExecIds : Moves(f)
    BY <1>1 DEF Cancel, TypeOK, ExecRow, Moves, Lifecycle!Edge
  <2> QED
    BY <1>1, <2>1 DEF Cancel, MovesOnly
<1>2. ASSUME NEW a \in ActionIds, DeleteAction(a)
      PROVE  MovesOnly
  <2>1. ASSUME NEW e \in ExecIds, exec[e].action = a
        PROVE  exec[e].status # "ABSENT"
    BY <2>1, RemediationConstants DEF Fresh, NoExec, RemediationConstants
  <2>2. \A e \in ExecIds : Moves(e)
    BY <1>2, <2>1 DEF DeleteAction, TypeOK, ExecRow, Moves, Lifecycle!Edge
  <2> QED
    BY <1>2, <2>2 DEF DeleteAction, MovesOnly
<1>3. CASE ~((\E e \in ExecIds : Cancel(e)) \/ (\E a \in ActionIds : DeleteAction(a)))
  <2>1. UNCHANGED <<exec, log, nextExec>>
    BY <1>3 DEF AdminStep, CreateAction, UpdateAction, SetActionEnabled, SetHostEnabled
  <2> QED
    BY <2>1, IdleRowsStay
<1> QED
  BY <1>1, <1>2, <1>3

\* A handler of /next moves the execution it claims to RUNNING.
LEMMA ClaimEffect ==
    ASSUME TypeOK, Contexts, NEW c \in Claims, ClaimStep(c)
    PROVE  MovesOnly
<1>1. CASE ClaimCas(c)
  <2>1. claim[c].job \in ExecIds
    BY <1>1 DEF ClaimCas, Contexts, ClaimContext
  <2>2. \A e \in ExecIds : Moves(e)
    <3> DEFINE e == claim[c].job
               row == [exec[e] EXCEPT !.status = "RUNNING", !.startedAt = claim[c].now]
    <3>1. CASE exec[e].status = "PENDING"
      <4>1. exec' = [exec EXCEPT ![e] = row]
        BY <1>1, <2>1, <3>1 DEF ClaimCas, TypeOK
      <4>2. exec[e] \in ExecRow
        BY <2>1 DEF TypeOK
      <4>3. /\ row.status = "RUNNING" /\ row.action = exec[e].action
            /\ row.host = exec[e].host /\ row.createdAt = exec[e].createdAt
        BY <4>2 DEF ExecRow
      <4>4. Lifecycle!Edge(exec[e].status, "RUNNING")
        BY <3>1 DEF Lifecycle!Edge
      <4> HIDE DEF row, e
      <4> QED
        BY <2>1, <3>1, <4>1, <4>3, <4>4, OneRowMoves DEF e
    <3>2. CASE exec[e].status # "PENDING"
      BY <1>1, <3>2 DEF ClaimCas, Moves
    <3> QED
      BY <3>1, <3>2
  <2> QED
    BY <1>1, <2>2 DEF ClaimCas, MovesOnly
<1>2. CASE ~ClaimCas(c)
  <2>1. UNCHANGED <<exec, log, nextExec>>
    BY <1>2 DEF ClaimStep, ClaimFind, Reply, ClaimDies
  <2> QED
    BY <2>1, IdleRowsStay
<1> QED
  BY <1>1, <1>2

\* A report ends the RUNNING execution it names, or nothing.
LEMMA AgentEffect ==
    ASSUME TypeOK, Contexts, NEW h \in HostIds, AgentStep(h)
    PROVE  MovesOnly
<1>1. CASE RunJob(h)
  <2>1. agent[h].job \in ExecIds
    BY <1>1 DEF RunJob, Contexts, AgentContext
  <2>2. \A e \in ExecIds : GuardLogKept(e)
    BY <1>1, <2>1, GuardLogUntouched DEF RunJob
  <2> QED
    BY <1>1, <2>2 DEF RunJob, MovesOnly, Moves
<1>2. CASE Report(h)
  <2>1. /\ agent[h].job \in ExecIds
        /\ agent[h].result \in {"SUCCEEDED", "FAILED", "TIMED_OUT", "SKIPPED"}
    BY <1>2 DEF Report, Contexts, AgentContext, AgentRow
  <2>2. \A e \in ExecIds : GuardLogKept(e)
    BY <1>2, <2>1, GuardLogUntouched DEF Report, StoreResult
  <2>3. \A e \in ExecIds : Moves(e)
    <3> DEFINE e == agent[h].job
               row == [exec[e] EXCEPT !.status = agent[h].result, !.reason = "reported"]
    <3>1. CASE exec[e].status = "RUNNING" /\ exec[e].host = h
      <4>1. exec' = [exec EXCEPT ![e] = row]
        BY <1>2, <2>1, <3>1 DEF Report, StoreResult, TypeOK
      <4>2. exec[e] \in ExecRow
        BY <2>1 DEF TypeOK
      <4>3. /\ row.status = agent[h].result /\ row.action = exec[e].action
            /\ row.host = exec[e].host /\ row.createdAt = exec[e].createdAt
        BY <4>2 DEF ExecRow
      <4>4. Lifecycle!Edge(exec[e].status, agent[h].result) /\ agent[h].result # "DELETED"
        BY <2>1, <3>1 DEF Lifecycle!Edge
      <4> HIDE DEF row, e
      <4> QED
        BY <2>1, <3>1, <4>1, <4>3, <4>4, OneRowMoves DEF e
    <3>2. CASE ~(exec[e].status = "RUNNING" /\ exec[e].host = h)
      BY <1>2, <3>2 DEF Report, StoreResult, Moves
    <3> QED
      BY <3>1, <3>2
  <2> QED
    BY <1>2, <2>2, <2>3 DEF Report, MovesOnly
<1>3. CASE ~(RunJob(h) \/ Report(h))
  <2>1. UNCHANGED <<exec, log, nextExec>>
    BY <1>3 DEF AgentStep, Poll, PollFails, FinishJob, ReportFails, AgentStop, Heartbeat, AgentStart
  <2> QED
    BY <2>1, IdleRowsStay
<1> QED
  BY <1>1, <1>2, <1>3

\* The sweep cancels or times out what it selects.
LEMMA SweepEffect ==
    ASSUME TypeOK, NEW w \in Workers, SweepStep(w)
    PROVE  MovesOnly
<1>1. CASE SweepPending(w)
  BY <1>1 DEF SweepPending, TypeOK, ExecRow, MovesOnly, Moves, Expire, Lifecycle!Edge
<1>2. CASE SweepApproval(w)
  BY <1>2 DEF SweepApproval, TypeOK, ExecRow, MovesOnly, Moves, Expire, Lifecycle!Edge
<1>3. CASE SweepLost(w)
  BY <1>3 DEF SweepLost, TypeOK, ExecRow, MovesOnly, Moves, Lifecycle!Edge
<1> QED
  BY <1>1, <1>2, <1>3 DEF SweepStep

LEMMA StepEffect ==
    ASSUME TypeOK, Contexts, Fresh, [Next]_vars
    PROVE  MovesOnly \/ \E r \in Requests : Inserts(r)
<1>1. CASE \E r \in Requests : RequestStep(r)
  BY <1>1, RequestEffect
<1>2. CASE AdminStep
  BY <1>2, AdminEffect
<1>3. CASE \E c \in Claims : ClaimStep(c)
  BY <1>3, ClaimEffect
<1>4. CASE \E h \in HostIds : AgentStep(h)
  BY <1>4, AgentEffect
<1>5. CASE \E w \in Workers : SweepStep(w)
  BY <1>5, SweepEffect
<1>6. CASE Tick
  BY <1>6, IdleRowsStay DEF Tick
<1>7. CASE UNCHANGED vars
  BY <1>7, IdleRowsStay DEF vars
<1> QED
  BY <1>1, <1>2, <1>3, <1>4, <1>5, <1>6, <1>7 DEF Next

\* An insertion writes the row nextExec and advances nextExec.
LEMMA InsertEffect ==
    ASSUME TypeOK, Contexts, NEW r \in Requests, Inserts(r)
    PROVE  /\ nextExec \in ExecIds /\ nextExec' = nextExec + 1
           /\ \A e \in ExecIds : e # nextExec => exec'[e] = exec[e] /\ log'[e] = log[e]
           /\ exec'[nextExec].action = req[r].action
           /\ exec'[nextExec].createdAt \in Nat /\ exec'[nextExec].createdAt >= req[r].now
           /\ log'[nextExec].cooldown = req[r].act.set.cooldown
           /\ log'[nextExec].maxRuns = req[r].act.set.maxRuns
           /\ log'[nextExec].runs = 0 /\ log'[nextExec].finished = 0
           /\ \/ exec'[nextExec].status = "SKIPPED"
              \/ /\ req[r].pc = "insert" /\ req[r].violation = "none"
                 /\ exec'[nextExec].host = req[r].host
                 /\ exec'[nextExec].status \in {"AWAITING_APPROVAL", "PENDING"}
<1>1. PICK h, st, reason :
        /\ InsertRow(r, h, st, reason)
        /\ \/ st = "SKIPPED"
           \/ /\ req[r].pc = "insert" /\ req[r].violation = "none" /\ h = req[r].host
              /\ st \in {"AWAITING_APPROVAL", "PENDING"}
  BY DEF Inserts, Insert
<1>2. PICK createdAt \in req[r].now..clock :
        /\ exec' = [exec EXCEPT ![nextExec] = NewRow(r, h, st, reason, createdAt)]
        /\ log' = [log EXCEPT ![nextExec] =
                     [NoLog EXCEPT !.cooldown = req[r].act.set.cooldown,
                                   !.maxRuns = req[r].act.set.maxRuns,
                                   !.requires = req[r].act.set.requiresApproval,
                                   !.auto = req[r].auto,
                                   !.queuedAt = createdAt]]
        /\ nextExec' = nextExec + 1
  BY <1>1 DEF InsertRow
<1>3. nextExec \in ExecIds
  BY <1>1, RemediationConstants DEF InsertRow, HasCapacity, TypeOK, RemediationConstants
<1>4. createdAt \in Nat /\ createdAt >= req[r].now
  BY <1>2, RemediationConstants DEF TypeOK, RequestRow, RemediationConstants
<1>5. exec'[nextExec] = NewRow(r, h, st, reason, createdAt)
  BY <1>2, <1>3 DEF TypeOK
<1>6. /\ log'[nextExec].cooldown = req[r].act.set.cooldown
      /\ log'[nextExec].maxRuns = req[r].act.set.maxRuns
      /\ log'[nextExec].runs = 0 /\ log'[nextExec].finished = 0
  BY <1>2, <1>3 DEF TypeOK, NoLog
<1>7. \A e \in ExecIds : e # nextExec => exec'[e] = exec[e] /\ log'[e] = log[e]
  BY <1>2, <1>3 DEF TypeOK
<1>8. /\ exec'[nextExec].status = st /\ exec'[nextExec].host = h
      /\ exec'[nextExec].action = req[r].action /\ exec'[nextExec].createdAt = createdAt
  BY <1>5 DEF NewRow, NoExec
<1> QED
  BY <1>1, <1>2, <1>3, <1>4, <1>6, <1>7, <1>8

\* Rows are created in order: inductive.
LEMMA FreshStep ==
    ASSUME TypeOK, Contexts, Fresh, [Next]_vars
    PROVE  Fresh'
<1>1. CASE MovesOnly
  <2> SUFFICES ASSUME NEW e \in ExecIds
               PROVE  IF e < nextExec THEN exec'[e].status # "ABSENT" ELSE exec'[e] = NoExec
    BY <1>1 DEF MovesOnly, Fresh
  <2>1. CASE exec'[e] = exec[e]
    BY <2>1 DEF Fresh
  <2>2. CASE exec'[e] # exec[e]
    <3>1. exec[e].status # "ABSENT" /\ exec'[e].status # "ABSENT"
      BY <1>1, <2>2 DEF MovesOnly, Moves, Lifecycle!Edge
    <3> QED
      BY <3>1 DEF Fresh, NoExec
  <2> QED
    BY <2>1, <2>2
<1>2. ASSUME NEW r \in Requests, Inserts(r)
      PROVE  Fresh'
  BY <1>2, InsertEffect DEF Fresh, TypeOK
<1> QED
  BY <1>1, <1>2, StepEffect

-----------------------------------------------------------------------------
(* The guard-rails: one live execution per action and host, and the cooldown  *)
(* between counted ones, over the executions actually created. Neither is     *)
(* inductive. The strengthening says what the advisory lock buys: its holders *)
(* have different keys, and what a holder read when it evaluated the          *)
(* guard-rails stays true until it inserts.                                   *)

HoldsLock(r) == req[r].pc = "insert"

\* Two holders of the advisory lock hold it for different keys.
LockExclusive ==
    \A r, q \in Requests :
        (r # q /\ HoldsLock(r) /\ HoldsLock(q))
        => ~(req[r].action = req[q].action /\ req[r].host = req[q].host)

\* A holder the guard-rails let through: no live execution of its key, and
\* every counted one is a cooldown old.
Clear(r) ==
    \A e \in ExecIds :
        (Counted(e) /\ exec[e].action = req[r].action /\ exec[e].host = req[r].host)
        => /\ exec[e].status \notin LiveStatuses
           /\ req[r].now - exec[e].createdAt >= req[r].act.set.cooldown

Scanned ==
    \A r \in Requests : (HoldsLock(r) /\ req[r].violation = "none") => Clear(r)

GuardInv == LockExclusive /\ Scanned /\ AtMostOneLive /\ CooldownRespected

\* What a passed evaluation of the guard-rails says of the executions: the
\* rows the query leaves out are not live and older than the cooldown.
LEMMA PassedGuard ==
    ASSUME TypeOK, NEW act, NEW h, NEW row, NEW script, NEW a, NEW now \in Nat,
           act.set.cooldown \in Nat,
           GuardrailViolation(act, h, row, script, Recent(a, h, act.set.cooldown, now), now)
               = "none",
           NEW e \in ExecIds, Counted(e), exec[e].action = a, exec[e].host = h
    PROVE  /\ exec[e].status \notin LiveStatuses
           /\ now - exec[e].createdAt >= act.set.cooldown
<1> DEFINE x == [id |-> e, status |-> exec[e].status, createdAt |-> exec[e].createdAt]
           recent == Recent(a, h, act.set.cooldown, now)
<1>1. exec[e].createdAt \in Nat /\ RateWindow \in Nat
  BY RemediationConstants DEF TypeOK, ExecRow, RemediationConstants
<1>2. x \in recent => /\ exec[e].status \notin LiveStatuses
                      /\ ~(now - exec[e].createdAt < act.set.cooldown)
  <2> SUFFICES ASSUME x \in recent
               PROVE  /\ exec[e].status \notin LiveStatuses
                      /\ ~(now - exec[e].createdAt < act.set.cooldown)
    OBVIOUS
  <2>1. x.status = exec[e].status /\ x.createdAt = exec[e].createdAt
    OBVIOUS
  <2>2. x.status \notin {"SKIPPED", "CANCELLED"}
    BY <2>1 DEF Counted
  <2> HIDE DEF x, recent
  <2>3. ~(\E y \in {z \in recent : z.status \notin {"SKIPPED", "CANCELLED"}} :
            y.status \in LiveStatuses)
    BY DEF GuardrailViolation, recent
  <2>4. {y \in {z \in recent : z.status \notin {"SKIPPED", "CANCELLED"}} :
            now - y.createdAt < act.set.cooldown} = {}
    BY DEF GuardrailViolation, recent
  <2> QED
    BY <2>1, <2>2, <2>3, <2>4
<1>3. e \in RowsOf(a, h)
  BY DEF RowsOf, Counted
<1>4. CASE \/ exec[e].createdAt >= now - Max2(RateWindow, act.set.cooldown)
           \/ exec[e].status \in LiveStatuses
  <2>1. x \in recent
    BY <1>3, <1>4 DEF Recent, RecentIn
  <2> QED
    BY <1>1, <1>2, <2>1
<1>5. CASE ~(\/ exec[e].createdAt >= now - Max2(RateWindow, act.set.cooldown)
             \/ exec[e].status \in LiveStatuses)
  BY <1>1, <1>5 DEF Max2
<1> QED
  BY <1>4, <1>5

\* Only LockAndScan takes a lock; a holder's context changes when it is done.
NoNewLock == \A r \in Requests : req'[r].pc = "insert" => req'[r] = req[r]

LEMMA LockFrame ==
    ASSUME TypeOK, Contexts, [Next]_vars
    PROVE  NoNewLock \/ \E r \in Requests : LockAndScan(r)
<1>1. ASSUME NEW r \in Requests, NEW q, q.pc # "insert", req' = [req EXCEPT ![r] = q]
      PROVE  NoNewLock
  BY <1>1 DEF NoNewLock, TypeOK
<1>2. ASSUME req' = req PROVE NoNewLock
  BY <1>2 DEF NoNewLock
<1>3. IdleRequest.pc # "insert"
  BY DEF IdleRequest
<1>4. ASSUME NEW r \in Requests, RequestStep(r), ~LockAndScan(r)
      PROVE  NoNewLock
  <2>0. req[r] \in RequestRow
    BY DEF TypeOK
  <2>1. CASE ReadAction(r)
    <3> DEFINE act == actions[req[r].action]
               target == IF req[r].host # None THEN req[r].host ELSE act.set.target
    <3>1. CASE act.state = "row"
      <4>1. req' = [req EXCEPT ![r] = [req[r] EXCEPT !.pc = "host", !.act = act, !.host = target]]
        BY <2>1, <3>1, Zenon DEF ReadAction
      <4>2. [req[r] EXCEPT !.pc = "host", !.act = act, !.host = target].pc = "host"
        BY <2>0 DEF RequestRow
      <4> QED
        BY <1>1, <4>1, <4>2
    <3>2. CASE act.state # "row"
      BY <1>1, <1>3, <2>1, <3>2 DEF ReadAction
    <3> QED
      BY <3>1, <3>2
  <2>2. CASE ReadHost(r)
    <3>1. CASE req' = [req EXCEPT ![r].pc = "lock", ![r].row = hosts[req[r].host]]
      <4>1. req' = [req EXCEPT ![r] = [req[r] EXCEPT !.pc = "lock", !.row = hosts[req[r].host]]]
        BY <3>1 DEF TypeOK
      <4>2. [req[r] EXCEPT !.pc = "lock", !.row = hosts[req[r].host]].pc = "lock"
        BY <2>0 DEF RequestRow
      <4> QED
        BY <1>1, <4>1, <4>2
    <3>2. CASE AfterInsert(r)
      <4>1. [IdleRequest EXCEPT !.pc = "event", !.id = nextExec].pc = "event"
        BY DEF IdleRequest
      <4> QED
        BY <1>1, <1>3, <3>2, <4>1 DEF AfterInsert
    <3>3. CASE ActionGone(r)
      BY <1>1, <1>3, <3>3 DEF ActionGone
    <3> QED
      BY <2>2, <3>1, <3>2, <3>3 DEF ReadHost
  <2>3. CASE Insert(r)
    <3>1. [IdleRequest EXCEPT !.pc = "event", !.id = nextExec].pc = "event"
      BY DEF IdleRequest
    <3> QED
      BY <1>1, <1>3, <2>3, <3>1 DEF Insert, AfterInsert, ActionGone
  <2>4. CASE LogStarted(r) \/ Approve(r) \/ RequestDies(r)
    BY <1>1, <1>3, <2>4 DEF LogStarted, Approve, RequestDies
  <2>5. ASSUME NEW a \in ActionIds, NEW t \in Triggers, StartRun(r, a, t) \/ StartAlert(r, a, t)
        PROVE  NoNewLock
    <3>1. req' = [req EXCEPT ![r] = req'[r]] /\ req'[r].pc = "create"
      <4>1. CASE StartRun(r, a, t)
        BY <4>1 DEF StartRun, IdleRequest, TypeOK
      <4>2. CASE StartAlert(r, a, t)
        BY <4>2 DEF StartAlert, IdleRequest, TypeOK
      <4> QED
        BY <2>5, <4>1, <4>2
    <3> QED
      BY <1>1, <3>1
  <2>6. ASSUME NEW e \in ExecIds, ReadForApproval(r, e)
        PROVE  NoNewLock
    <3>1. req' = [req EXCEPT ![r] = req'[r]] /\ req'[r].pc = "approve"
      BY <2>6 DEF ReadForApproval, IdleRequest, TypeOK
    <3> QED
      BY <1>1, <3>1
  <2> QED
    BY <1>4, <2>1, <2>2, <2>3, <2>4, <2>5, <2>6 DEF RequestStep
<1>5. CASE AdminStep
  BY <1>2, <1>5 DEF AdminStep, CreateAction, UpdateAction, SetActionEnabled, DeleteAction,
     SetHostEnabled, Cancel
<1>6. ASSUME NEW c \in Claims, ClaimStep(c) PROVE NoNewLock
  BY <1>2, <1>6 DEF ClaimStep, ClaimFind, ClaimCas, Reply, ClaimDies
<1>7. ASSUME NEW h \in HostIds, AgentStep(h) PROVE NoNewLock
  BY <1>2, <1>7 DEF AgentStep, Poll, PollFails, RunJob, FinishJob, Report, ReportFails,
     AgentStop, Heartbeat, AgentStart
<1>8. ASSUME NEW w \in Workers, SweepStep(w) PROVE NoNewLock
  BY <1>2, <1>8 DEF SweepStep, SweepPending, SweepApproval, SweepLost
<1>9. CASE Tick \/ UNCHANGED vars
  BY <1>2, <1>9 DEF Tick, vars
<1> QED
  BY <1>4, <1>5, <1>6, <1>7, <1>8, <1>9 DEF Next

\* Moves along the life cycle neither revive nor re-date an execution.
LEMMA MovesKeepCounted ==
    ASSUME TypeOK, MovesOnly, NEW e \in ExecIds
    PROVE  /\ exec'[e].status \in LiveStatuses => exec[e].status \in LiveStatuses
           /\ Counted(e)' => Counted(e)
           /\ exec'[e].action = exec[e].action /\ exec'[e].host = exec[e].host
              /\ exec'[e].createdAt = exec[e].createdAt
           /\ GuardLogKept(e)
<1>1. CASE exec'[e] = exec[e]
  BY <1>1 DEF MovesOnly, Counted
<1>2. CASE exec'[e] # exec[e]
  BY <1>2 DEF MovesOnly, Moves, Counted, Lifecycle!Edge
<1> QED
  BY <1>1, <1>2

\* Taking the lock: it was free, and the holder is clear if it was let through.
LEMMA LockStep ==
    ASSUME TypeOK, Contexts, GuardInv, NEW r \in Requests, LockAndScan(r)
    PROVE  GuardInv'
<1> DEFINE q == req[r]
<1>0. q \in RequestRow
  BY DEF TypeOK
<1>1. UNCHANGED <<exec, log>> /\ \A p \in Requests \ {r} : req'[p] = req[p]
  BY DEF LockAndScan, TypeOK
<1>2. /\ req'[r].pc = "insert"
      /\ req'[r].action = q.action /\ req'[r].host = q.host /\ req'[r].now = q.now
      /\ req'[r].act = q.act
      /\ req'[r].violation =
            GuardrailViolation(q.act, q.host, q.row, q.act.set.script,
                Recent(q.action, q.host, q.act.set.cooldown, q.now), q.now)
  BY <1>0 DEF LockAndScan, TypeOK, RequestRow
<1>3. q.now \in Nat /\ q.act.set \in Settings \cup {NoSettings}
  BY <1>0 DEF RequestRow, ActionRow
<1>4. q.act.set.cooldown \in Nat
  <2>1. CASE q.act.set \in Settings
    BY <2>1 DEF Settings
  <2>2. CASE q.act.set = NoSettings
    BY <2>2 DEF NoSettings
  <2> QED
    BY <1>3, <2>1, <2>2
<1>5. LockExclusive'
  BY <1>1, <1>2 DEF GuardInv, LockExclusive, HoldsLock, LockAndScan, LockFree
<1>6. (req'[r].violation = "none") => Clear(r)'
  <2> SUFFICES ASSUME req'[r].violation = "none", NEW e \in ExecIds, Counted(e),
                      exec[e].action = q.action, exec[e].host = q.host
               PROVE  /\ exec[e].status \notin LiveStatuses
                      /\ q.now - exec[e].createdAt >= q.act.set.cooldown
    BY <1>1, <1>2 DEF Clear, Counted
  <2> QED
    BY <1>2, <1>3, <1>4, PassedGuard
<1>7. \A p \in Requests \ {r} : (HoldsLock(p) /\ req[p].violation = "none")' => Clear(p)'
  BY <1>1 DEF GuardInv, Scanned, HoldsLock, Clear, Counted
<1>8. Scanned'
  BY <1>6, <1>7 DEF Scanned
<1>9. AtMostOneLive' /\ CooldownRespected'
  BY <1>1 DEF GuardInv, AtMostOneLive, CooldownRespected, SameKey, Counted
<1> QED
  BY <1>5, <1>8, <1>9 DEF GuardInv

\* Moves preserve everything the lock holders rely on.
LEMMA MoveStep ==
    ASSUME TypeOK, GuardInv, MovesOnly, NoNewLock
    PROVE  GuardInv'
<1>1. LockExclusive'
  BY DEF GuardInv, LockExclusive, HoldsLock, NoNewLock
<1>2. Scanned'
  BY MovesKeepCounted DEF GuardInv, Scanned, HoldsLock, Clear, NoNewLock
<1>3. AtMostOneLive'
  BY MovesKeepCounted DEF GuardInv, AtMostOneLive, SameKey
<1>4. CooldownRespected'
  BY MovesKeepCounted DEF GuardInv, CooldownRespected, SameKey
<1> QED
  BY <1>1, <1>2, <1>3, <1>4 DEF GuardInv

\* The holder inserts: no other holder has its key, and it is clear.
LEMMA InsertStep ==
    ASSUME TypeOK, Contexts, Fresh, GuardInv, NEW r \in Requests, Inserts(r), NoNewLock,
           req'[r].pc # "insert"
    PROVE  GuardInv'
<1> DEFINE n == nextExec
<1>1. LockExclusive'
  BY DEF GuardInv, LockExclusive, HoldsLock, NoNewLock
<1>2. /\ n \in ExecIds
      /\ \A e \in ExecIds : e # n => exec'[e] = exec[e] /\ log'[e] = log[e]
      /\ \A e \in ExecIds : e > n => exec[e].status = "ABSENT"
  BY InsertEffect DEF Fresh, NoExec, TypeOK
<1>3. CASE exec'[n].status = "SKIPPED"
  <2>1. \A e \in ExecIds :
          /\ exec'[e].status \in LiveStatuses => e # n /\ exec[e].status \in LiveStatuses
          /\ Counted(e)' => e # n /\ Counted(e)
    BY <1>2, <1>3 DEF Counted
  <2>2. Scanned'
    BY <1>2, <2>1 DEF GuardInv, Scanned, HoldsLock, Clear, NoNewLock
  <2>3. AtMostOneLive' /\ CooldownRespected'
    BY <1>2, <2>1 DEF GuardInv, AtMostOneLive, CooldownRespected, SameKey
  <2> QED
    BY <1>1, <2>2, <2>3 DEF GuardInv
<1>4. CASE /\ req[r].pc = "insert" /\ req[r].violation = "none"
           /\ exec'[n].host = req[r].host
  <2>1. Clear(r)
    BY <1>4 DEF GuardInv, Scanned, HoldsLock
  <2>2. /\ exec'[n].action = req[r].action
        /\ exec'[n].createdAt \in Nat /\ exec'[n].createdAt >= req[r].now
        /\ log'[n].cooldown = req[r].act.set.cooldown
    BY InsertEffect
  <2>3. \A e \in ExecIds : e # n /\ Counted(e)' => Counted(e)
    BY <1>2 DEF Counted
  <2>4. \A p \in Requests : HoldsLock(p)' =>
            /\ req'[p] = req[p]
            /\ ~(exec'[n].action = req[p].action /\ exec'[n].host = req[p].host)
    BY <1>4, <2>2 DEF GuardInv, LockExclusive, HoldsLock, NoNewLock
  <2>5. Scanned'
    BY <1>2, <2>3, <2>4 DEF GuardInv, Scanned, HoldsLock, Clear
  <2>6. \A e \in ExecIds :
          (e # n /\ Counted(e)' /\ exec'[e].action = exec'[n].action
           /\ exec'[e].host = exec'[n].host)
          => /\ exec'[e].status \notin LiveStatuses
             /\ exec'[n].createdAt - exec'[e].createdAt >= log'[n].cooldown
    <3> SUFFICES ASSUME NEW e \in ExecIds, e # n, Counted(e)',
                        exec'[e].action = exec'[n].action, exec'[e].host = exec'[n].host
                 PROVE  /\ exec'[e].status \notin LiveStatuses
                        /\ exec'[n].createdAt - exec'[e].createdAt >= log'[n].cooldown
      OBVIOUS
    <3>1. /\ exec[e].status \notin LiveStatuses
          /\ req[r].now - exec[e].createdAt >= req[r].act.set.cooldown
      BY <1>2, <1>4, <2>1, <2>2, <2>3 DEF Clear
    <3>2. /\ exec[e].createdAt \in Nat /\ req[r].now \in Nat
      BY DEF TypeOK, ExecRow, RequestRow
    <3>3. req[r].act.set.cooldown \in Nat
      <4>1. req[r].act.set \in Settings \/ req[r].act.set = NoSettings
        BY DEF TypeOK, RequestRow, ActionRow
      <4> QED
        BY <4>1 DEF Settings, NoSettings
    <3> QED
      BY <1>2, <2>2, <3>1, <3>2, <3>3
  <2>7. AtMostOneLive'
    BY <1>2, <2>6 DEF GuardInv, AtMostOneLive, SameKey, Counted
  <2>8. CooldownRespected'
    BY <1>2, <2>3, <2>6 DEF GuardInv, CooldownRespected, SameKey, Counted
  <2> QED
    BY <1>1, <2>5, <2>7, <2>8 DEF GuardInv
<1> QED
  BY <1>3, <1>4, InsertEffect

\* The insertion commits: the lock is released and nobody else has taken one.
LEMMA InsertUnlocks ==
    ASSUME TypeOK, Contexts, NEW r \in Requests, Inserts(r)
    PROVE  req'[r].pc # "insert" /\ NoNewLock
<1>1. nextExec' # nextExec
  BY InsertEffect DEF TypeOK
<1>2. AfterInsert(r)
  BY <1>1 DEF Inserts, ReadHost, Insert, ActionGone
<1>3. [IdleRequest EXCEPT !.pc = "event", !.id = nextExec].pc # "insert"
      /\ IdleRequest.pc # "insert"
  BY DEF IdleRequest
<1> QED
  BY <1>2, <1>3 DEF AfterInsert, NoNewLock, TypeOK

LEMMA GuardInit == Init => Fresh /\ GuardInv
BY RemediationConstants DEF Init, Fresh, NoExec, GuardInv, LockExclusive, Scanned, HoldsLock, IdleRequest,
   AtMostOneLive, CooldownRespected, Counted, RemediationConstants

LEMMA GuardStep ==
    ASSUME TypeOK, Contexts, Fresh, GuardInv, [Next]_vars
    PROVE  GuardInv'
<1>1. ASSUME NEW r \in Requests, Inserts(r)
      PROVE  GuardInv'
  BY <1>1, InsertUnlocks, InsertStep
<1>2. ASSUME NEW r \in Requests, LockAndScan(r)
      PROVE  GuardInv'
  BY <1>2, LockStep
<1>3. CASE MovesOnly /\ NoNewLock
  BY <1>3, MoveStep
<1> QED
  BY <1>1, <1>2, <1>3, StepEffect, LockFrame

\* Two triggers that race for one action and host never leave two live
\* executions, whatever other requests, agents, sweeps and administrators do.
THEOREM OneLive == Spec => []AtMostOneLive
<1>1. Init => TypeOK /\ Contexts /\ Fresh /\ GuardInv
  BY InitTypes, GuardInit
<1>2. TypeOK /\ Contexts /\ Fresh /\ GuardInv /\ [Next]_vars
      => TypeOK' /\ Contexts' /\ Fresh' /\ GuardInv'
  BY TypesStep, FreshStep, GuardStep
<1>3. GuardInv => AtMostOneLive
  BY DEF GuardInv
<1> QED
  BY <1>1, <1>2, <1>3, PTL DEF Spec

\* No two counted executions of one action and host are closer than the
\* cooldown the later one was checked against.
THEOREM Cooldown == Spec => []CooldownRespected
<1>1. Init => TypeOK /\ Contexts /\ Fresh /\ GuardInv
  BY InitTypes, GuardInit
<1>2. TypeOK /\ Contexts /\ Fresh /\ GuardInv /\ [Next]_vars
      => TypeOK' /\ Contexts' /\ Fresh' /\ GuardInv'
  BY TypesStep, FreshStep, GuardStep
<1>3. GuardInv => CooldownRespected
  BY DEF GuardInv
<1> QED
  BY <1>1, <1>2, <1>3, PTL DEF Spec

-----------------------------------------------------------------------------
(* The hourly limit. A lock holder the guard-rails let through has counted    *)
(* fewer than maxRunsPerHour executions of its key, and the lock keeps that   *)
(* count from growing until the holder has inserted its own.                  *)

\* The counted executions of a key in the hour that ends now, and those of the
\* key and the "now" of request r.
HourBefore(a, h, now) ==
    {e \in ExecIds : /\ Counted(e) /\ exec[e].action = a /\ exec[e].host = h
                     /\ now - exec[e].createdAt < RateWindow}
Within(r) == HourBefore(req[r].action, req[r].host, req[r].now)

\* There is room for one more.
Roomy(r) == Cardinality(Within(r)) < req[r].act.set.maxRuns

RoomLeft == \A r \in Requests : (HoldsLock(r) /\ req[r].violation = "none") => Roomy(r)

\* The executions the hourly limit counts against execution f.
InHour(f) ==
    {e \in ExecIds :
        /\ e <= f /\ SameKey(e, f) /\ Counted(e)
        /\ exec[f].createdAt - exec[e].createdAt < RateWindow}

RateInv == RoomLeft /\ RateLimitRespected

LEMMA FiniteIds ==
    ASSUME NEW S \in SUBSET ExecIds
    PROVE  IsFiniteSet(S) /\ Cardinality(S) \in Nat
<1>1. MaxExecs \in Int
  BY RemediationConstants DEF RemediationConstants
<1>2. IsFiniteSet(1..MaxExecs)
  BY <1>1, FS_Interval
<1>3. IsFiniteSet(S)
  BY <1>2, FS_Subset
<1> QED
  BY <1>3, FS_CardinalityType

LEMMA FewerIds ==
    ASSUME NEW T \in SUBSET ExecIds, NEW S \in SUBSET T
    PROVE  Cardinality(S) <= Cardinality(T)
BY FiniteIds, FS_Subset

\* The rows the guard-rails count are as many as the executions they describe:
\* a passed evaluation says there is room for one more.
LEMMA PassedRate ==
    ASSUME TypeOK, NEW act, NEW h, NEW row, NEW script, NEW a, NEW now \in Nat,
           act.set.cooldown \in Nat, act.set.maxRuns \in Nat,
           GuardrailViolation(act, h, row, script, Recent(a, h, act.set.cooldown, now), now)
               = "none"
    PROVE  Cardinality(HourBefore(a, h, now)) < act.set.maxRuns
<1> DEFINE S == {e \in ExecIds : /\ Counted(e) /\ exec[e].action = a /\ exec[e].host = h
                                 /\ now - exec[e].createdAt < RateWindow}
           recent == Recent(a, h, act.set.cooldown, now)
           counted == {x \in recent : x.status \notin {"SKIPPED", "CANCELLED"}}
           hour == {x \in counted : now - x.createdAt < RateWindow}
           view(e) == [id |-> e, status |-> exec[e].status, createdAt |-> exec[e].createdAt]
           back == [x \in hour |-> x.id]
           onto == [e \in S |-> view(e)]
<1>1. ~TooManyRuns(hour, act.set.maxRuns)
  BY DEF GuardrailViolation
<1>2. \A x \in recent : x.id \in ExecIds /\ x = view(x.id)
  BY DEF Recent, RecentIn, RowsOf
<1>3. IsFiniteSet(hour) /\ Cardinality(hour) \in Nat
  <2>1. back \in [hour -> ExecIds] /\ \A x, y \in hour : back[x] = back[y] => x = y
    BY <1>2
  <2>2. back \in Injection(hour, ExecIds)
    <3> HIDE DEF back, hour
    <3> QED
      BY <2>1, Fun_IsInj
  <2>3. IsFiniteSet(ExecIds)
    BY FiniteIds
  <2>4. IsFiniteSet(hour)
    <3> HIDE DEF back, hour
    <3> QED
      BY <2>2, <2>3, FS_Injection
  <2> HIDE DEF hour
  <2> QED
    BY <2>4, FS_CardinalityType
<1>4. \A e \in S : view(e) \in hour
  <2> SUFFICES ASSUME NEW e \in S PROVE view(e) \in hour
    OBVIOUS
  <2>1. /\ view(e).status = exec[e].status /\ view(e).createdAt = exec[e].createdAt
        /\ view(e).status \notin {"SKIPPED", "CANCELLED"}
        /\ now - view(e).createdAt < RateWindow
    BY DEF Counted
  <2>2. exec[e].createdAt \in Nat /\ RateWindow \in Nat
    BY RemediationConstants DEF TypeOK, ExecRow, RemediationConstants
  <2>3. exec[e].createdAt >= now - Max2(RateWindow, act.set.cooldown)
    BY <2>1, <2>2 DEF Max2
  <2>4. e \in RowsOf(a, h)
    BY DEF RowsOf, Counted
  <2>5. view(e) \in recent
    BY <2>3, <2>4 DEF Recent, RecentIn
  <2> QED
    BY <2>1, <2>5
<1>5. onto \in [S -> hour] /\ \A e, f \in S : onto[e] = onto[f] => e = f
  <2>1. \A e, f : view(e) = view(f) => e = f
    <3> SUFFICES ASSUME NEW e, NEW f, view(e) = view(f) PROVE e = f
      OBVIOUS
    <3>1. view(e).id = e /\ view(f).id = f
      OBVIOUS
    <3> HIDE DEF view
    <3> QED
      BY <3>1
  <2> HIDE DEF view, S, hour
  <2> QED
    BY <1>4, <2>1
<1>6. Cardinality(S) <= Cardinality(hour)
  <2> HIDE DEF onto, S, hour
  <2>1. onto \in Injection(S, hour)
    BY <1>5, Fun_IsInj
  <2> QED
    BY <1>3, <2>1, FS_Injection
<1>7. Cardinality(S) \in Nat
  BY FiniteIds
<1> HIDE DEF S, hour
<1>8. Cardinality(hour) < act.set.maxRuns
  BY <1>1, <1>3 DEF TooManyRuns
<1>9. Cardinality(S) < act.set.maxRuns
  BY <1>3, <1>6, <1>7, <1>8
<1> QED
  BY <1>9 DEF S, HourBefore

\* The snapshot of the action a request holds has natural limits.
LEMMA SnapshotLimits ==
    ASSUME TypeOK, NEW r \in Requests
    PROVE  req[r].act.set.cooldown \in Nat /\ req[r].act.set.maxRuns \in Nat
<1>1. req[r].act.set \in Settings \/ req[r].act.set = NoSettings
  BY DEF TypeOK, RequestRow, ActionRow
<1> QED
  BY <1>1 DEF Settings, NoSettings


\* Taking the lock: the count the guard-rails made is the holder's room.
LEMMA RateLockStep ==
    ASSUME TypeOK, Contexts, RateInv, NEW r \in Requests, LockAndScan(r)
    PROVE  RateInv'
<1> DEFINE q == req[r]
<1>0. q \in RequestRow
  BY DEF TypeOK
<1>1. UNCHANGED <<exec, log>> /\ \A p \in Requests \ {r} : req'[p] = req[p]
  BY DEF LockAndScan, TypeOK
<1>2. /\ req'[r].action = q.action /\ req'[r].host = q.host /\ req'[r].now = q.now
      /\ req'[r].act = q.act
      /\ req'[r].violation =
            GuardrailViolation(q.act, q.host, q.row, q.act.set.script,
                Recent(q.action, q.host, q.act.set.cooldown, q.now), q.now)
  BY <1>0 DEF LockAndScan, TypeOK, RequestRow
<1>3. q.now \in Nat
  BY <1>0 DEF RequestRow
<1>4. (req'[r].violation = "none") => Roomy(r)'
  <2> SUFFICES ASSUME req'[r].violation = "none" PROVE Roomy(r)'
    OBVIOUS
  <2>1. Cardinality(HourBefore(q.action, q.host, q.now)) < q.act.set.maxRuns
    BY <1>2, <1>3, SnapshotLimits, PassedRate
  <2>2. Within(r)' = HourBefore(q.action, q.host, q.now)
    BY <1>1, <1>2 DEF Within, HourBefore, Counted
  <2> QED
    BY <1>2, <2>1, <2>2 DEF Roomy
<1>5. \A p \in Requests \ {r} : (HoldsLock(p) /\ req[p].violation = "none")' => Roomy(p)'
  <2> SUFFICES ASSUME NEW p \in Requests \ {r}, (HoldsLock(p) /\ req[p].violation = "none")'
               PROVE  Roomy(p)'
    OBVIOUS
  <2>1. Within(p)' = Within(p)
    BY <1>1 DEF Within, HourBefore, Counted
  <2> QED
    BY <1>1, <2>1 DEF RateInv, RoomLeft, HoldsLock, Roomy
<1>6. RateLimitRespected'
  BY <1>1 DEF RateInv, RateLimitRespected, SameKey, Counted
<1> QED
  BY <1>4, <1>5, <1>6 DEF RateInv, RoomLeft

\* A holder that keeps its context keeps its room when nothing of its key is
\* added to the counted executions.
LEMMA RoomKept ==
    ASSUME TypeOK, NEW p \in Requests, Roomy(p), req'[p] = req[p], Within(p)' \subseteq Within(p)
    PROVE  Roomy(p)'
<1> DEFINE S == Within(p)
           T == Within(p)'
<1>1. S \in SUBSET ExecIds /\ T \in SUBSET S
  BY DEF Within, HourBefore
<1>2. Cardinality(T) <= Cardinality(S) /\ Cardinality(S) \in Nat /\ Cardinality(T) \in Nat
  <2> HIDE DEF S, T
  <2> QED
    BY <1>1, FewerIds, FiniteIds
<1>3. Cardinality(S) < req[p].act.set.maxRuns /\ req[p].act.set.maxRuns \in Nat
  BY SnapshotLimits DEF Roomy
<1>4. Cardinality(T) < req[p].act.set.maxRuns
  <2> HIDE DEF S, T
  <2> QED
    BY <1>2, <1>3
<1> QED
  BY <1>4 DEF Roomy

\* The hourly limit over the sets InHour names.
LEMMA RateByHour ==
    RateLimitRespected <=>
        \A f \in ExecIds : (Counted(f) /\ exec[f].host # None)
                           => Cardinality(InHour(f)) <= log[f].maxRuns
BY DEF RateLimitRespected, InHour

\* An execution whose hour does not grow keeps its limit.
LEMMA HourKept ==
    ASSUME TypeOK, RateLimitRespected, NEW f \in ExecIds, Counted(f), exec[f].host # None,
           InHour(f)' \subseteq InHour(f), log'[f].maxRuns = log[f].maxRuns
    PROVE  Cardinality(InHour(f)') <= log'[f].maxRuns
<1> DEFINE S == InHour(f)
           T == InHour(f)'
<1>1. S \in SUBSET ExecIds /\ T \in SUBSET S
  BY DEF InHour
<1>2. Cardinality(T) <= Cardinality(S) /\ Cardinality(S) \in Nat /\ Cardinality(T) \in Nat
  <2> HIDE DEF S, T
  <2> QED
    BY <1>1, FewerIds, FiniteIds
<1>3. Cardinality(S) <= log[f].maxRuns /\ log[f].maxRuns \in Nat
  BY RateByHour DEF TypeOK, LogRow
<1>4. Cardinality(T) <= log[f].maxRuns
  <2> HIDE DEF S, T
  <2> QED
    BY <1>2, <1>3
<1> QED
  BY <1>4

\* Moves along the life cycle only shrink what the limit counts.
LEMMA RateMoveStep ==
    ASSUME TypeOK, RateInv, MovesOnly, NoNewLock
    PROVE  RateInv'
<1>1. ASSUME NEW r \in Requests, HoldsLock(r)', req'[r].violation = "none"
      PROVE  Roomy(r)'
  <2>1. req'[r] = req[r] /\ Roomy(r)
    BY <1>1 DEF HoldsLock, NoNewLock, RateInv, RoomLeft
  <2>2. Within(r)' \subseteq Within(r)
    BY <2>1, MovesKeepCounted DEF Within, HourBefore
  <2> QED
    BY <2>1, <2>2, RoomKept
<1>2. ASSUME NEW f \in ExecIds, Counted(f)', exec'[f].host # None
      PROVE  Cardinality(InHour(f)') <= log'[f].maxRuns
  <2>1. Counted(f) /\ exec[f].host # None /\ log'[f].maxRuns = log[f].maxRuns
    BY <1>2, MovesKeepCounted
  <2>2. InHour(f)' \subseteq InHour(f)
    BY MovesKeepCounted DEF InHour, SameKey
  <2> QED
    BY <2>1, <2>2, HourKept DEF RateInv
<1>3. RateLimitRespected'
  BY <1>2 DEF RateLimitRespected, InHour
<1> QED
  BY <1>1, <1>3 DEF RateInv, RoomLeft

\* The holder inserts: its row takes the room the guard-rails found, the hours
\* of earlier executions do not hold it, and no other holder has its key.
LEMMA RateInsertStep ==
    ASSUME TypeOK, Contexts, Fresh, GuardInv, RateInv, NEW r \in Requests, Inserts(r), NoNewLock,
           req'[r].pc # "insert"
    PROVE  RateInv'
<1>0. PICK n : n = nextExec
  OBVIOUS
<1>1. /\ n \in ExecIds
      /\ \A e \in ExecIds : e # n => exec'[e] = exec[e] /\ log'[e] = log[e]
      /\ \A e \in ExecIds : e > n => exec[e].status = "ABSENT"
      /\ exec[n].status = "ABSENT"
  BY <1>0, InsertEffect DEF Fresh, NoExec, TypeOK
<1>2. \A e \in ExecIds : e # n => (Counted(e)' <=> Counted(e))
  BY <1>1 DEF Counted
<1>3. ASSUME NEW f \in ExecIds, f # n, Counted(f)', exec'[f].host # None
      PROVE  Cardinality(InHour(f)') <= log'[f].maxRuns
  <2>1. Counted(f) /\ exec[f].host # None /\ log'[f].maxRuns = log[f].maxRuns
    BY <1>1, <1>2, <1>3
  <2>2. f < n
    BY <1>1, <2>1 DEF Counted
  <2>3. InHour(f)' \subseteq InHour(f)
    BY <1>1, <1>2, <2>2 DEF InHour, SameKey
  <2> QED
    BY <2>1, <2>3, HourKept DEF RateInv
<1>4. ASSUME NEW p \in Requests, HoldsLock(p)', req'[p].violation = "none",
             ~Counted(n)' \/ ~(exec'[n].action = req[p].action /\ exec'[n].host = req[p].host)
      PROVE  Roomy(p)'
  <2>1. req'[p] = req[p] /\ Roomy(p)
    BY <1>4 DEF HoldsLock, NoNewLock, RateInv, RoomLeft
  <2>2. Within(p)' \subseteq Within(p)
    BY <1>1, <1>2, <1>4, <2>1 DEF Within, HourBefore
  <2> QED
    BY <2>1, <2>2, RoomKept
<1>5. CASE exec'[n].status = "SKIPPED"
  <2>1. ~Counted(n)'
    BY <1>5 DEF Counted
  <2>2. RateLimitRespected'
    BY <1>3, <2>1 DEF RateLimitRespected, InHour
  <2> QED
    BY <1>4, <2>1, <2>2 DEF RateInv, RoomLeft
<1>6. CASE /\ req[r].pc = "insert" /\ req[r].violation = "none"
           /\ exec'[n].host = req[r].host
  <2>1. /\ exec'[n].action = req[r].action
        /\ exec'[n].createdAt \in Nat /\ exec'[n].createdAt >= req[r].now
        /\ log'[n].maxRuns = req[r].act.set.maxRuns
    BY <1>0, InsertEffect
  <2>2. \A p \in Requests : HoldsLock(p)' =>
            ~(exec'[n].action = req[p].action /\ exec'[n].host = req[p].host)
    BY <1>6, <2>1 DEF GuardInv, LockExclusive, HoldsLock, NoNewLock
  <2>3. Roomy(r)
    BY <1>6 DEF RateInv, RoomLeft, HoldsLock
  <2>4. InHour(n)' \subseteq Within(r) \cup {n}
    <3> SUFFICES ASSUME NEW e \in InHour(n)', e # n PROVE e \in Within(r)
      OBVIOUS
    <3>1. /\ e \in ExecIds /\ Counted(e)
          /\ exec[e].action = req[r].action /\ exec[e].host = req[r].host
          /\ exec'[n].createdAt - exec[e].createdAt < RateWindow
      BY <1>1, <1>2, <1>6, <2>1 DEF InHour, SameKey
    <3>2. exec[e].createdAt \in Nat /\ req[r].now \in Nat /\ RateWindow \in Nat
      BY <3>1, RemediationConstants DEF TypeOK, ExecRow, RequestRow, RemediationConstants
    <3>3. req[r].now - exec[e].createdAt < RateWindow
      BY <2>1, <3>1, <3>2
    <3> QED
      BY <3>1, <3>3 DEF Within, HourBefore
  <2>5. Cardinality(InHour(n)') <= log'[n].maxRuns
    <3> DEFINE S == Within(r)
               T == InHour(n)'
    <3>1. S \in SUBSET ExecIds /\ n \notin S /\ T \in SUBSET (S \cup {n})
      BY <1>1, <2>4 DEF Within, HourBefore, Counted
    <3>2. /\ Cardinality(S) < req[r].act.set.maxRuns /\ req[r].act.set.maxRuns \in Nat
          /\ log'[n].maxRuns = req[r].act.set.maxRuns
      BY <2>1, <2>3, SnapshotLimits DEF Roomy
    <3> HIDE DEF S, T
    <3>3. IsFiniteSet(S) /\ Cardinality(S) \in Nat
      BY <3>1, FiniteIds
    <3>4. Cardinality(S \cup {n}) = Cardinality(S) + 1
      BY <3>1, <3>3, FS_AddElement
    <3>5. S \cup {n} \in SUBSET ExecIds
      BY <1>1, <3>1
    <3>6. Cardinality(T) <= Cardinality(S \cup {n}) /\ Cardinality(T) \in Nat
      BY <3>1, <3>5, FewerIds, FiniteIds
    <3>7. Cardinality(T) <= req[r].act.set.maxRuns
      BY <3>2, <3>3, <3>4, <3>6
    <3> QED
      BY <3>2, <3>7 DEF T
  <2>6. RateLimitRespected'
    BY <1>3, <2>5 DEF RateLimitRespected, InHour
  <2> QED
    BY <1>4, <2>2, <2>6 DEF RateInv, RoomLeft, HoldsLock, NoNewLock
<1> QED
  BY <1>0, <1>5, <1>6, InsertEffect

LEMMA RateInit == Init => RateInv
BY RemediationConstants DEF Init, NoExec, RateInv, RoomLeft, RateLimitRespected, HoldsLock,
   IdleRequest, Counted, RemediationConstants

LEMMA RateStep ==
    ASSUME TypeOK, Contexts, Fresh, GuardInv, RateInv, [Next]_vars
    PROVE  RateInv'
<1>1. ASSUME NEW r \in Requests, Inserts(r)
      PROVE  RateInv'
  BY <1>1, InsertUnlocks, RateInsertStep
<1>2. ASSUME NEW r \in Requests, LockAndScan(r)
      PROVE  RateInv'
  BY <1>2, RateLockStep
<1>3. CASE MovesOnly /\ NoNewLock
  BY <1>3, RateMoveStep
<1> QED
  BY <1>1, <1>2, <1>3, StepEffect, LockFrame

\* In the hour that ends with a counted execution, its action ran on its host
\* at most as often as the limit it was checked against allows, however many
\* triggers raced for it.
THEOREM RateLimit == Spec => []RateLimitRespected
<1>1. Init => TypeOK /\ Contexts /\ Fresh /\ GuardInv /\ RateInv
  BY InitTypes, GuardInit, RateInit
<1>2. TypeOK /\ Contexts /\ Fresh /\ GuardInv /\ RateInv /\ [Next]_vars
      => TypeOK' /\ Contexts' /\ Fresh' /\ GuardInv' /\ RateInv'
  BY TypesStep, FreshStep, GuardStep, RateStep
<1>3. RateInv => RateLimitRespected
  BY DEF RateInv
<1> QED
  BY <1>1, <1>2, <1>3, PTL DEF Spec
=============================================================================

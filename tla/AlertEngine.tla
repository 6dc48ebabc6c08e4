---------------------------- MODULE AlertEngine ----------------------------
(***************************************************************************)
(* Alert rules, their evaluation and the incidents it opens and resolves.  *)
(*                                                                         *)
(*   - agents sample their series and send batches to the telemetry route, *)
(*     which stores the points idempotently and then evaluates every rule  *)
(*     on them inside the request (evaluateIngestedMetrics). A batch may   *)
(*     be sent again after a timeout, or much later from the agent's       *)
(*     buffer, so evaluations of one source overlap and come out of order; *)
(*   - an evaluation is a chain of separate queries, without transaction   *)
(*     or lock, and may be cut short by an error or a crash at any await;  *)
(*   - people acknowledge, resolve and reopen incidents                    *)
(*     (incidents/service.ts): a read, then an update by primary key;      *)
(*   - administrators create, edit, toggle and delete rules (rules.ts).    *)
(*                                                                         *)
(* Of the incident timeline only NOTIFIED is kept: no code reads the other *)
(* events. Root-cause analysis and the remediation trigger, which follow   *)
(* an opening, write other tables or columns and are left out here. All    *)
(* sources are of one kind. Time is a global clock in ticks.               *)
(***************************************************************************)
EXTENDS Integers, FiniteSets

CONSTANTS
    RuleIds, Sources,
    Series,         \* the series of a source, records [metric, instance]
    Evaluators,     \* requests that can be evaluating at the same time
    Users,          \* people acting on incidents
    UserOps,        \* what they do: a subset of {"acknowledge", "resolve", "reopen"}
    RuleSettings,   \* what an administrator may enter for a rule
    Values,         \* measured values, integers
    Baselines,      \* what loadBaseline may compute
    Lookback,       \* HISTORY_LOOKBACK_POINTS
    MaxIncidents,   \* bound: incidents ever opened
    MaxEdits,       \* bound: administrator edits after a rule's creation
    MaxUserOps,     \* bound: operations of people
    MaxAborts,      \* bound: evaluations cut short
    MaxClock,       \* bound: end of time
    None

IncidentIds == 1..MaxIncidents
Times == 0..MaxClock
Metrics == {s.metric : s \in Series}
InstanceNames == {s.instance : s \in Series}
Operators == {"GT", "GTE", "LT", "LTE", "EQ", "NEQ"}

\* op = "none": no static threshold. notifies: some channel has a target.
Settings ==
    [metric : Metrics, source : Sources \cup {None}, instance : InstanceNames \cup {None},
     op : Operators \cup {"none"}, threshold : Int, anomaly : BOOLEAN,
     duration : Nat, cooldown : Nat, notifies : BOOLEAN]

\* A baseline calls a value anomalous from a distance of band around its
\* median: the scale multiplied by the z threshold of the sensitivity.
BaselineRow == [median : Int, band : Nat \ {0}]

ASSUME AlertConstants ==
    /\ RuleSettings \subseteq Settings
    /\ \A set \in RuleSettings : set.op # "none" \/ set.anomaly
    /\ UserOps \subseteq {"acknowledge", "resolve", "reopen"}
    /\ Values \subseteq Int
    /\ Values # {}
    /\ Baselines \subseteq BaselineRow
    /\ Lookback \in Nat \ {0}
    /\ {MaxIncidents, MaxEdits, MaxUserOps, MaxAborts, MaxClock} \subseteq Nat
    /\ IsFiniteSet(Evaluators)
    /\ None \notin RuleIds \cup Sources \cup Series \cup Metrics \cup InstanceNames
                   \cup Int \cup BaselineRow

VARIABLES
    clock,
    sample,       \* per source and time: the batch the agent collected, or None
    stored,       \* per source: times of the batches in metric_entries
    rules,        \* alert_rules rows
    incident,     \* incidents rows
    nextIncident, \* id of the next row
    eval,         \* per evaluator: the evaluation it is executing
    user,         \* per person: the operation they are executing
    used          \* edits, user operations and aborts so far (bounds)

vars == <<clock, sample, stored, rules, incident, nextIncident, eval, user, used>>

-----------------------------------------------------------------------------
(* Rows and contexts *)

Batches == [Series -> Values]

NoSettings ==
    [metric |-> None, source |-> None, instance |-> None, op |-> "none",
     threshold |-> 0, anomaly |-> FALSE, duration |-> 0, cooldown |-> 0, notifies |-> FALSE]

\* state: "absent" before creation, "row", "deleted"
NoRule == [state |-> "absent", enabled |-> FALSE, set |-> NoSettings]
RuleRow ==
    [state : {"absent", "row", "deleted"}, enabled : BOOLEAN,
     set : RuleSettings \cup {NoSettings}]

\* resolved: resolvedAt and resolvedBy, "no" when they are null; notified: time
\* of the newest NOTIFIED event; rule None: the rule was deleted (SET NULL).
NoIncident ==
    [status |-> "ABSENT", rule |-> None, source |-> None, metric |-> None,
     trigger |-> 0, peak |-> 0, resolved |-> "no", notified |-> None]
IncidentRow ==
    [status : {"ABSENT", "OPEN", "ACKNOWLEDGED", "RESOLVED"},
     rule : RuleIds \cup {None}, source : Sources \cup {None},
     metric : Metrics \cup {None}, trigger : Int, peak : Int,
     resolved : {"no", "auto", "user"}, notified : Times \cup {None}]

\* An evaluation: the batch and time it is about, the rules it read, the
\* (series, rule) pairs left, the one in hand, and what was read for it.
Idle ==
    [pc |-> "idle", source |-> None, time |-> 0, now |-> 0,
     rules |-> [r \in RuleIds |-> NoSettings], todo |-> {},
     series |-> None, rule |-> None, base |-> None, sustained |-> FALSE,
     open |-> None, peak |-> 0]
EvalPcs ==
    {"idle", "rules", "next", "find", "open", "update", "renotify", "resolve", "notify"}
EvalRow ==
    [pc : EvalPcs, source : Sources \cup {None}, time : Times, now : Times,
     rules : [RuleIds -> RuleSettings \cup {NoSettings}], todo : SUBSET (Series \X RuleIds),
     series : Series \cup {None}, rule : RuleIds \cup {None},
     base : Baselines \cup {None}, sustained : BOOLEAN,
     open : IncidentIds \cup {None}, peak : Int]

IdleUser == [op |-> "none", id |-> None]
UserRow ==
    [op : {"none", "acknowledge", "resolve", "reopen"}, id : IncidentIds \cup {None}]

Init ==
    /\ clock = 0
    /\ \E first \in [Sources -> Batches] :
          sample = [s \in Sources |-> [t \in Times |-> IF t = 0 THEN first[s] ELSE None]]
    /\ stored = [s \in Sources |-> {}]
    /\ rules = [r \in RuleIds |-> NoRule]
    /\ incident = [i \in IncidentIds |-> NoIncident]
    /\ nextIncident = 1
    /\ eval = [e \in Evaluators |-> Idle]
    /\ user = [u \in Users |-> IdleUser]
    /\ used = [edits |-> 0, ops |-> 0, aborts |-> 0]

-----------------------------------------------------------------------------
(* Conditions (evaluate.ts, pure part) *)

Max2(x, y) == IF x < y THEN y ELSE x
Min2(x, y) == IF x < y THEN x ELSE y

Breaches(op, value, threshold) ==
    CASE op = "GT"  -> value > threshold
      [] op = "GTE" -> value >= threshold
      [] op = "LT"  -> value < threshold
      [] op = "LTE" -> value <= threshold
      [] op = "EQ"  -> value = threshold
      [] op = "NEQ" -> value # threshold

Anomalous(value, base) ==
    \/ value - base.median >= base.band
    \/ base.median - value >= base.band

\* Both conditions must hold where both are set; no baseline, no anomaly.
ConditionHolds(set, base, value) ==
    /\ set.op # "none" => Breaches(set.op, value, set.threshold)
    /\ set.anomaly => base # None /\ Anomalous(value, base)
    /\ set.op # "none" \/ set.anomaly

WorstValue_Reversed(op, a, b) ==
    IF op \in {"GT", "GTE"} THEN Min2(a, b)
    ELSE IF op \in {"LT", "LTE"} THEN Max2(a, b) ELSE b
WorstValue_Latest(op, a, b) == b
WorstValue(op, a, b) ==
    IF op \in {"GT", "GTE"} THEN Max2(a, b)
    ELSE IF op \in {"LT", "LTE"} THEN Min2(a, b) ELSE b

\* The direction of the threshold, or of the anomaly of the point at hand.
WorstFor(set, base, value, a, b) ==
    IF set.op # "none" THEN WorstValue(set.op, a, b)
    ELSE IF base = None THEN b
    ELSE IF value >= base.median THEN Max2(a, b) ELSE Min2(a, b)

\* The newest Lookback points of a source's series at time now.
History(s, now) ==
    {t \in stored[s] :
        /\ t <= now
        /\ Cardinality({u \in stored[s] : t < u /\ u <= now}) < Lookback}

\* Times of the unbroken run of points, newest first, on which the condition
\* holds (streakSince); times is the history looked at.
Streak(s, x, set, base, times) ==
    {t \in times : \A u \in times : u >= t => ConditionHolds(set, base, sample[s][u][x])}

\* isSustained: the oldest point of the streak is at least duration old.
IsSustained(streak, duration, now) == \E t \in streak : now - t >= duration

ShouldRenotify(notified, cooldown, now) == notified = None \/ now - notified >= cooldown

-----------------------------------------------------------------------------
(* Time, and the agents' samples *)

Tick ==
    /\ clock < MaxClock
    /\ clock' = clock + 1
    /\ \E batch \in [Sources -> Batches] :
          sample' = [s \in Sources |-> [sample[s] EXCEPT ![clock + 1] = batch[s]]]
    /\ UNCHANGED <<stored, rules, incident, nextIncident, eval, user, used>>

-----------------------------------------------------------------------------
(* Evaluation of one stored batch (evaluateIngestedMetrics) *)

\* The route stores the batch of time t (again: ON CONFLICT DO NOTHING) and,
\* after the commit, starts to evaluate it with the time of the request.
Ingest_NextBucket(e, s, t) ==
    /\ eval[e].pc = "idle"
    /\ t <= clock
    /\ stored' = [stored EXCEPT ![s] = @ \cup {t + 1}]
    /\ eval' = [eval EXCEPT ![e] = [Idle EXCEPT !.pc = "rules", !.source = s,
                                                !.time = t, !.now = clock]]
    /\ UNCHANGED <<clock, sample, rules, incident, nextIncident, user, used>>
Ingest(e, s, t) ==
    /\ eval[e].pc = "idle"
    /\ t <= clock
    /\ stored' = [stored EXCEPT ![s] = @ \cup {t}]
    /\ eval' = [eval EXCEPT ![e] = [Idle EXCEPT !.pc = "rules", !.source = s,
                                                !.time = t, !.now = clock]]
    /\ UNCHANGED <<clock, sample, rules, incident, nextIncident, user, used>>

Matches(set, s, x) ==
    /\ set.metric = x.metric
    /\ set.source \in {None, s}
    /\ set.instance \in {None, x.instance}

\* The enabled rules, read once for the whole batch.
LoadRules(e) ==
    /\ eval[e].pc = "rules"
    /\ LET enabled == {r \in RuleIds : rules[r].state = "row" /\ rules[r].enabled}
           todo == {p \in Series \X enabled : Matches(rules[p[2]].set, eval[e].source, p[1])}
       IN eval' = [eval EXCEPT ![e] =
                     IF todo = {} THEN Idle
                     ELSE [@ EXCEPT !.pc = "next", !.todo = todo,
                             !.rules = [r \in RuleIds |-> IF r \in enabled THEN rules[r].set
                                                       ELSE NoSettings]]]
    /\ UNCHANGED <<clock, sample, stored, rules, incident, nextIncident, user, used>>

\* The settings evaluation e read for its current rule.
RuleOf(e) == eval[e].rules[eval[e].rule]

\* The value of the point at hand: the batch's, not the newest in the table.
PointValue(e) == sample[eval[e].source][eval[e].time][eval[e].series]

\* Every rule of one point before the next point; nothing left: done.
Upcoming(e) ==
    LET same == {p \in eval[e].todo : p[1] = eval[e].series}
    IN IF same # {} THEN same ELSE eval[e].todo

\* The evaluation x with pair p in hand.
Take(x, p, base, sustained) ==
    [x EXCEPT !.pc = "find", !.todo = x.todo \ {p}, !.series = p[1], !.rule = p[2],
              !.base = base, !.sustained = sustained]

\* Take the next (point, rule): load the baseline, read the history, decide
\* whether the condition is sustained.
ReadHistory(e) ==
    /\ eval[e].pc = "next"
    /\ \E p \in Upcoming(e) :
        LET set == eval[e].rules[p[2]]
            s == eval[e].source
            now == eval[e].now
        IN \E base \in IF set.anomaly THEN Baselines \cup {None} ELSE {None} :
             eval' = [eval EXCEPT ![e] = Take(eval[e], p, base,
               IsSustained(Streak(s, p[1], set, base, History(s, now)), set.duration, now))]
    /\ UNCHANGED <<clock, sample, stored, rules, incident, nextIncident, user, used>>

\* The batch is evaluated.
EvalDone(e) ==
    /\ eval[e].pc = "next"
    /\ eval[e].todo = {}
    /\ eval' = [eval EXCEPT ![e] = Idle]
    /\ UNCHANGED <<clock, sample, stored, rules, incident, nextIncident, user, used>>

\* Unresolved incidents of a rule, source and metric; the instance is not a column.
Findable_NotAcknowledged(r, s, m) ==
    {i \in IncidentIds :
        /\ incident[i].status = "OPEN"
        /\ incident[i].rule = r /\ incident[i].source = s /\ incident[i].metric = m}
Findable(r, s, m) ==
    {i \in IncidentIds :
        /\ incident[i].status \notin {"ABSENT", "RESOLVED"}
        /\ incident[i].rule = r /\ incident[i].source = s /\ incident[i].metric = m}

\* What is left of an evaluation after one pair: the per-pair fields are dead.
Forget(row, pc) == [row EXCEPT !.pc = pc, !.base = None, !.sustained = FALSE,
                               !.open = None, !.peak = 0]

FindOpen_NoGuard(e) ==
    /\ eval[e].pc = "find"
    /\ eval' = [eval EXCEPT ![e] =
                  IF eval[e].sustained THEN [@ EXCEPT !.pc = "open"] ELSE Forget(@, "next")]
    /\ UNCHANGED <<clock, sample, stored, rules, incident, nextIncident, user, used>>

\* Any one of them (no ORDER BY), with its peak; then one of four branches.
FindOpen(e) ==
    /\ eval[e].pc = "find"
    /\ LET found == Findable(eval[e].rule, eval[e].source, eval[e].series.metric)
           yes == eval[e].sustained
       IN \/ /\ found = {}
             /\ eval' = [eval EXCEPT ![e] =
                            IF yes THEN [@ EXCEPT !.pc = "open"] ELSE Forget(@, "next")]
          \/ \E i \in found :
               eval' = [eval EXCEPT ![e].pc = IF yes THEN "update" ELSE "resolve",
                                    ![e].open = i, ![e].peak = incident[i].peak]
    /\ UNCHANGED <<clock, sample, stored, rules, incident, nextIncident, user, used>>

\* notify() is called only for its effect when some channel has a target.
ThenNotify(e, i) ==
    IF RuleOf(e).notifies THEN [Forget(eval[e], "notify") EXCEPT !.open = i]
    ELSE Forget(eval[e], "next")

\* Sustained and none open: a new incident. A rule deleted meanwhile breaks
\* the foreign key and with it the rest of the evaluation; at the bound the
\* insert fails like on any other database error.
OpenIncident(e) ==
    /\ eval[e].pc = "open"
    /\ \/ /\ rules[eval[e].rule].state = "row"
          /\ nextIncident <= MaxIncidents
          /\ incident' = [incident EXCEPT ![nextIncident] =
                [NoIncident EXCEPT !.status = "OPEN", !.rule = eval[e].rule,
                    !.source = eval[e].source, !.metric = eval[e].series.metric,
                    !.trigger = PointValue(e), !.peak = PointValue(e)]]
          /\ nextIncident' = nextIncident + 1
          /\ eval' = [eval EXCEPT ![e] = ThenNotify(e, nextIncident)]
       \/ /\ rules[eval[e].rule].state # "row" \/ nextIncident > MaxIncidents
          /\ eval' = [eval EXCEPT ![e] = Idle]
          /\ UNCHANGED <<incident, nextIncident>>
    /\ UNCHANGED <<clock, sample, stored, rules, user, used>>

\* Sustained and open: the new value, and the worst of it and the peak read
\* before, written by primary key whatever happened to the row in between.
UpdateOpen(e) ==
    /\ eval[e].pc = "update"
    /\ LET v == PointValue(e) IN
       incident' = [incident EXCEPT ![eval[e].open] =
         [@ EXCEPT !.trigger = v,
                   !.peak = WorstFor(RuleOf(e), eval[e].base, v, eval[e].peak, v)]]
    /\ eval' = [eval EXCEPT ![e].pc = "renotify"]
    /\ UNCHANGED <<clock, sample, stored, rules, nextIncident, user, used>>

\* Notify again once the cooldown since the newest NOTIFIED event has passed.
Renotify(e) ==
    /\ eval[e].pc = "renotify"
    /\ LET i == eval[e].open IN
       eval' = [eval EXCEPT ![e] =
         IF ShouldRenotify(incident[i].notified, RuleOf(e).cooldown, eval[e].now)
         THEN ThenNotify(e, i) ELSE Forget(eval[e], "next")]
    /\ UNCHANGED <<clock, sample, stored, rules, incident, nextIncident, user, used>>

\* Not sustained and open: resolved, on the word of this one series.
ResolveOpen(e) ==
    /\ eval[e].pc = "resolve"
    /\ incident' = [incident EXCEPT ![eval[e].open] =
                      [@ EXCEPT !.status = "RESOLVED", !.resolved = "auto"]]
    /\ eval' = [eval EXCEPT ![e] = ThenNotify(e, eval[e].open)]
    /\ UNCHANGED <<clock, sample, stored, rules, nextIncident, user, used>>

\* Dispatch to the channels, succeed or fail, and record a NOTIFIED event.
Notify(e) ==
    /\ eval[e].pc = "notify"
    /\ incident' = [incident EXCEPT ![eval[e].open].notified = clock]
    /\ eval' = [eval EXCEPT ![e] = Forget(eval[e], "next")]
    /\ UNCHANGED <<clock, sample, stored, rules, nextIncident, user, used>>

\* An error or a crash at any await: the route logs it and the rest is lost.
Abort(e) ==
    /\ eval[e].pc # "idle"
    /\ used.aborts < MaxAborts
    /\ used' = [used EXCEPT !.aborts = @ + 1]
    /\ eval' = [eval EXCEPT ![e] = Idle]
    /\ UNCHANGED <<clock, sample, stored, rules, incident, nextIncident, user>>

EvalStep(e) ==
    \/ LoadRules(e) \/ ReadHistory(e) \/ EvalDone(e) \/ FindOpen(e)
    \/ OpenIncident(e) \/ UpdateOpen(e) \/ Renotify(e) \/ ResolveOpen(e) \/ Notify(e)

-----------------------------------------------------------------------------
(* People (incidents/service.ts) *)

\* The status an operation requires of the row it reads; "invalid_status" otherwise.
Allowed(op, status) ==
    \/ op = "acknowledge" /\ status = "OPEN"
    \/ op = "resolve" /\ status \in {"OPEN", "ACKNOWLEDGED"}
    \/ op = "reopen" /\ status = "RESOLVED"

\* First statement of the transaction: read the row, check its status.
UserRead(u, op, i) ==
    /\ user[u].op = "none"
    /\ used.ops < MaxUserOps
    /\ Allowed(op, incident[i].status)
    /\ user' = [user EXCEPT ![u] = [op |-> op, id |-> i]]
    /\ used' = [used EXCEPT !.ops = @ + 1]
    /\ UNCHANGED <<clock, sample, stored, rules, incident, nextIncident, eval>>

\* The row the update leaves; at READ COMMITTED it is applied to the row as it
\* is now, not as it was read.
Written(op, row) ==
    CASE op = "acknowledge" -> [row EXCEPT !.status = "ACKNOWLEDGED"]
      [] op = "resolve" -> [row EXCEPT !.status = "RESOLVED", !.resolved = "user"]
      [] op = "reopen" -> [row EXCEPT !.status = "OPEN", !.resolved = "no"]

\* Second statement, and commit.
UserWrite(u) ==
    /\ user[u].op # "none"
    /\ incident' = [incident EXCEPT ![user[u].id] = Written(user[u].op, @)]
    /\ user' = [user EXCEPT ![u] = IdleUser]
    /\ UNCHANGED <<clock, sample, stored, rules, nextIncident, eval, used>>

-----------------------------------------------------------------------------
(* Administrators (rules.ts) *)

CreateRule(r, set) ==
    /\ rules[r].state = "absent"
    /\ rules' = [rules EXCEPT ![r] = [state |-> "row", enabled |-> TRUE, set |-> set]]
    /\ UNCHANGED <<clock, sample, stored, incident, nextIncident, eval, user, used>>

Edit(r) ==
    /\ rules[r].state = "row"
    /\ used.edits < MaxEdits
    /\ used' = [used EXCEPT !.edits = @ + 1]
    /\ UNCHANGED <<clock, sample, stored, nextIncident, eval, user>>

UpdateRule(r, set) ==
    /\ Edit(r)
    /\ rules[r].set # set
    /\ rules' = [rules EXCEPT ![r].set = set]
    /\ UNCHANGED incident

SetRuleEnabled(r) ==
    /\ Edit(r)
    /\ rules' = [rules EXCEPT ![r].enabled = ~@]
    /\ UNCHANGED incident

\* The incidents of a deleted rule stay, without it (ON DELETE SET NULL).
DeleteRule(r) ==
    /\ Edit(r)
    /\ rules' = [rules EXCEPT ![r] = [NoRule EXCEPT !.state = "deleted"]]
    /\ incident' = [i \in IncidentIds |->
                      IF incident[i].rule = r THEN [incident[i] EXCEPT !.rule = None]
                      ELSE incident[i]]

-----------------------------------------------------------------------------

\* A person's form: acknowledge, resolve or reopen an incident.
incidentActions(u) ==
    \/ \E op \in UserOps, i \in IncidentIds : UserRead(u, op, i)
    \/ UserWrite(u)

\* A person's form: create, edit, switch or delete a rule.
ruleActions(r) ==
    \/ \E set \in RuleSettings : CreateRule(r, set) \/ UpdateRule(r, set)
    \/ SetRuleEnabled(r)
    \/ DeleteRule(r)

Next ==
    \/ Tick
    \/ \E e \in Evaluators :
          \/ \E s \in Sources, t \in Times : Ingest(e, s, t)
          \/ LoadRules(e) \/ ReadHistory(e) \/ EvalDone(e) \/ FindOpen(e)
          \/ OpenIncident(e) \/ UpdateOpen(e) \/ Renotify(e) \/ ResolveOpen(e)
          \/ Notify(e) \/ Abort(e)
    \/ \E u \in Users : incidentActions(u)
    \/ \E r \in RuleIds : ruleActions(r)

Spec == Init /\ [][Next]_vars

\* Time passes, agents send a batch at every tick of their interval, requests
\* and transactions that were started run to their end.
Fairness ==
    /\ WF_vars(Tick)
    /\ \A e \in Evaluators :
          /\ WF_vars(\E s \in Sources, t \in Times : Ingest(e, s, t))
          /\ WF_vars(EvalStep(e))
    /\ \A u \in Users : WF_vars(UserWrite(u))

FairSpec == Spec /\ Fairness

-----------------------------------------------------------------------------
(* Properties *)

TypeOK ==
    /\ clock \in Times
    /\ sample \in [Sources -> [Times -> Batches \cup {None}]]
    /\ stored \in [Sources -> SUBSET Times]
    /\ rules \in [RuleIds -> RuleRow]
    /\ incident \in [IncidentIds -> IncidentRow]
    /\ nextIncident \in 1..(MaxIncidents + 1)
    /\ eval \in [Evaluators -> EvalRow]
    /\ user \in [Users -> UserRow]
    /\ used \in [edits : 0..MaxEdits, ops : 0..MaxUserOps, aborts : 0..MaxAborts]

\* Incidents of rule r on metric m of source s that nobody and nothing resolved.
OpenIncidents(r, s, m) ==
    {i \in IncidentIds :
        /\ incident[i].status \in {"OPEN", "ACKNOWLEDGED"}
        /\ incident[i].rule = r /\ incident[i].source = s /\ incident[i].metric = m}

\* The evaluations that found no open incident of r, s, m and will open one.
Openers(r, s, m) ==
    {e \in Evaluators : /\ eval[e].pc = "open"
                        /\ eval[e].rule = r /\ eval[e].source = s
                        /\ eval[e].series.metric = m}

\* Without a lock or a unique index, concurrent evaluations open duplicates
\* (evaluate.ts:192-214), but never more unresolved incidents of one rule,
\* source and metric than evaluations that can overlap, and exactly one when
\* they do not. Of the operations of people only a resolution is considered.
DuplicatesBounded ==
    UserOps \subseteq {"resolve"} =>
      \A r \in RuleIds, s \in Sources, m \in Metrics :
          Cardinality(OpenIncidents(r, s, m)) + Cardinality(Openers(r, s, m))
              <= Cardinality(Evaluators)

\* All rules alert on high values.
Upward == \A set \in RuleSettings : set.op \in {"GT", "GTE"}

\* However stale the peak an evaluation read, the row never shows a current
\* value worse than its peak (worstFor, evaluate.ts:248-255).
PeakCoversTrigger ==
    Upward => \A i \in IncidentIds : incident[i].peak >= incident[i].trigger

\* While evaluations do not overlap, the peak of an incident never improves,
\* whatever people do to it and in whatever order batches arrive.
PeakNeverDrops ==
    [][(Upward /\ \A e, f \in Evaluators : e = f) =>
          \A i \in IncidentIds :
              incident[i].status # "ABSENT" => incident'[i].peak >= incident[i].peak]_vars

\* One series of source s is in the scope of rule r, which has no anomaly part.
OneSeries(r, s) ==
    /\ ~rules[r].set.anomaly
    /\ \A x, y \in Series :
          Matches(rules[r].set, s, x) /\ Matches(rules[r].set, s, y) => x = y

\* The condition of a rule on source s, on everything stored until now.
ConditionNow(r, s) ==
    \E x \in Series :
        /\ Matches(rules[r].set, s, x)
        /\ IsSustained(Streak(s, x, rules[r].set, None, History(s, clock)),
                       rules[r].set.duration, clock)

\* Once samples, rules and people are quiet, the incidents of an enabled
\* threshold rule about one series agree with its condition for good: breaching means one is
\* open, clear means every one is resolved, duplicates of racing evaluations
\* and incidents reopened or acknowledged on the way included.
IncidentsTrackCondition ==
    \A r \in RuleIds, s \in Sources :
        <>[](rules[r].state = "row" /\ rules[r].enabled /\ OneSeries(r, s) =>
               ((OpenIncidents(r, s, rules[r].set.metric) # {}) <=> ConditionNow(r, s)))
=============================================================================

------------------------- MODULE AlertEngineProofs -------------------------
(***************************************************************************)
(* Theorems about AlertEngine for every number of rules, sources, series,  *)
(* overlapping evaluations, people and incidents.                          *)
(***************************************************************************)
EXTENDS AlertEngine, FiniteSetTheorems, TLAPS

USE DEF IncidentIds, Times

\* The program counters at which an evaluation has a (series, rule) in hand,
\* and those at which it also has an incident.
PairPcs == {"find", "open", "update", "renotify", "resolve", "notify"}
IncidentPcs == {"update", "renotify", "resolve", "notify"}

\* What an evaluation x knows at each point beyond its type: its batch was
\* sampled, the settings of the rules it still has to look at are settings an
\* administrator entered, and it indexes tables by identifiers.
Sound(x) ==
    /\ x.pc # "idle" => x.source \in Sources /\ x.time <= clock
    /\ \A p \in x.todo : x.rules[p[2]] \in RuleSettings
    /\ x.pc \in PairPcs => /\ x.series \in Series /\ x.rule \in RuleIds
                           /\ x.rules[x.rule] \in RuleSettings
    /\ x.pc \in IncidentPcs => x.open \in IncidentIds

Contexts ==
    /\ \A s \in Sources, t \in Times : t <= clock => sample[s][t] \in Batches
    /\ \A r \in RuleIds : rules[r].state = "row" => rules[r].set \in RuleSettings
    /\ \A e \in Evaluators : Sound(eval[e])
    /\ \A u \in Users : user[u].op # "none" => user[u].op \in UserOps /\ user[u].id \in IncidentIds

LEMMA IdleTypes ==
    /\ Idle \in EvalRow /\ Sound(Idle)
    /\ IdleUser \in UserRow
    /\ NoIncident \in IncidentRow
    /\ NoRule \in RuleRow
<1>1. Idle \in EvalRow
  BY AlertConstants DEF AlertConstants, Idle, EvalRow, EvalPcs
<1>2. Sound(Idle)
  BY DEF Sound, Idle, PairPcs, IncidentPcs
<1>3. IdleUser \in UserRow
  BY DEF IdleUser, UserRow
<1>4. NoIncident \in IncidentRow
  BY DEF NoIncident, IncidentRow
<1>5. NoRule \in RuleRow
  BY DEF NoRule, RuleRow
<1> QED
  BY <1>1, <1>2, <1>3, <1>4, <1>5

LEMMA InitTypes == Init => TypeOK /\ Contexts
<1> SUFFICES ASSUME Init PROVE TypeOK /\ Contexts
  OBVIOUS
<1>1. PICK first \in [Sources -> Batches] :
        sample = [s \in Sources |-> [t \in Times |-> IF t = 0 THEN first[s] ELSE None]]
  BY DEF Init
<1>2. sample \in [Sources -> [Times -> Batches \cup {None}]]
  BY <1>1
<1>3. \A s \in Sources, t \in Times : t <= clock => sample[s][t] \in Batches
  BY <1>1 DEF Init
<1>4. Contexts
  BY <1>3, IdleTypes DEF Init, Contexts, NoRule, IdleUser
<1>5. TypeOK
  BY <1>2, IdleTypes, AlertConstants DEF Init, TypeOK, AlertConstants
<1> QED
  BY <1>4, <1>5

\* One evaluation moves to a sound row, and nothing else it depends on moves.
LEMMA EvalMove ==
    ASSUME TypeOK, Contexts, NEW e \in Evaluators, NEW x \in EvalRow, Sound(x),
           eval' = [eval EXCEPT ![e] = x], clock' = clock
    PROVE  eval' \in [Evaluators -> EvalRow] /\ \A f \in Evaluators : Sound(eval[f])'
<1>1. eval' \in [Evaluators -> EvalRow]
  BY DEF TypeOK
<1>2. ASSUME NEW f \in Evaluators PROVE Sound(eval[f])'
  <2>1. eval'[f] = x \/ eval'[f] = eval[f]
    BY DEF TypeOK
  <2>2. Sound(eval'[f])
    BY <2>1 DEF Contexts
  <2> QED
    BY <2>2 DEF Sound
<1> QED
  BY <1>1, <1>2

LEMMA ForgetTypes ==
    ASSUME NEW x \in EvalRow, NEW pc \in EvalPcs, NEW i \in IncidentIds \cup {None}
    PROVE  [Forget(x, pc) EXCEPT !.open = i] \in EvalRow /\ Forget(x, pc) \in EvalRow
<1>1. [x EXCEPT !.pc = pc, !.base = None, !.sustained = FALSE, !.open = None, !.peak = 0]
        \in EvalRow
  <2>1. ASSUME NEW b \in BOOLEAN, NEW j \in IncidentIds \cup {None},
               NEW base \in Baselines \cup {None}, NEW k \in Int
        PROVE  [x EXCEPT !.pc = pc, !.base = base, !.sustained = b, !.open = j, !.peak = k]
                 \in EvalRow
    BY DEF EvalRow
  <2>2. None \in IncidentIds \cup {None} /\ None \in Baselines \cup {None} /\ FALSE \in BOOLEAN
    OBVIOUS
  <2>3. 0 \in Int
    OBVIOUS
  <2> HIDE DEF IncidentIds
  <2> QED BY <2>1, <2>2, <2>3, Zenon
<1>2. Forget(x, pc) \in EvalRow
  BY <1>1, Zenon DEF Forget
<1>3. \A y \in EvalRow : [y EXCEPT !.open = i] \in EvalRow
  BY DEF EvalRow
<1> QED
  BY <1>2, <1>3, Zenon

\* The rows with which an evaluation leaves a pair, or goes on to notify.
LEMMA LeavesPair ==
    ASSUME TypeOK, Contexts, NEW e \in Evaluators, eval[e].pc \in PairPcs
    PROVE  /\ Forget(eval[e], "next") \in EvalRow /\ Sound(Forget(eval[e], "next"))
           /\ \A i \in IncidentIds : ThenNotify(e, i) \in EvalRow /\ Sound(ThenNotify(e, i))
<1> DEFINE x == eval[e]
<1>0. x \in EvalRow
  BY DEF TypeOK
<1>1. Forget(x, "next") \in EvalRow
  BY <1>0, ForgetTypes DEF EvalPcs
<1>2. Sound(x) /\ x.pc # "idle"
  BY DEF Contexts, PairPcs
<1>3. Sound(Forget(x, "next"))
  BY <1>0, <1>2 DEF Sound, Forget, EvalRow, PairPcs, IncidentPcs
<1>4. ASSUME NEW i \in IncidentIds
      PROVE  ThenNotify(e, i) \in EvalRow /\ Sound(ThenNotify(e, i))
  <2> DEFINE y == [Forget(x, "notify") EXCEPT !.open = i]
  <2>1. y \in EvalRow
    BY <1>0, ForgetTypes DEF EvalPcs
  <2>2. Sound(y)
    BY <1>0, <1>2 DEF Sound, Forget, EvalRow, PairPcs, IncidentPcs
  <2> QED
    BY <1>1, <1>3, <2>1, <2>2 DEF ThenNotify
<1> QED
  BY <1>1, <1>3, <1>4

\* The steps of an evaluation that write nothing but its own context.
LEMMA ReadingSteps ==
    ASSUME TypeOK, Contexts, NEW e \in Evaluators,
           LoadRules(e) \/ ReadHistory(e) \/ EvalDone(e) \/ FindOpen(e) \/ Renotify(e)
    PROVE  \E x \in EvalRow : Sound(x) /\ eval' = [eval EXCEPT ![e] = x]
<1>0. eval[e] \in EvalRow /\ Sound(eval[e])
  BY DEF TypeOK, Contexts
<1>1. CASE LoadRules(e)
  <2> DEFINE enabled == {r \in RuleIds : rules[r].state = "row" /\ rules[r].enabled}
             todo == {p \in Series \X enabled : Matches(rules[p[2]].set, eval[e].source, p[1])}
             read == [r \in RuleIds |-> IF r \in enabled THEN rules[r].set ELSE NoSettings]
             x == [eval[e] EXCEPT !.pc = "next", !.todo = todo, !.rules = read]
  <2>1. eval' = [eval EXCEPT ![e] = IF todo = {} THEN Idle ELSE x]
    BY <1>1 DEF LoadRules
  <2>2. \A r \in enabled : rules[r].set \in RuleSettings
    BY DEF Contexts
  <2>3. read \in [RuleIds -> RuleSettings \cup {NoSettings}] /\ todo \in SUBSET (Series \X RuleIds)
    BY <2>2
  <2>4. x \in EvalRow
    <3> HIDE DEF todo, read
    <3> QED BY <1>0, <2>3 DEF EvalRow, EvalPcs
  <2>5. \A p \in todo : read[p[2]] \in RuleSettings
    BY <2>2
  <2>6. Sound(x)
    <3>1. eval[e].source \in Sources /\ eval[e].time <= clock
      BY <1>0, <1>1 DEF LoadRules, Sound
    <3> HIDE DEF todo, read
    <3> QED BY <1>0, <2>5, <3>1 DEF Sound, EvalRow, PairPcs, IncidentPcs
  <2> QED
    BY <2>1, <2>4, <2>6, IdleTypes
<1>2. CASE ReadHistory(e)
  <2> DEFINE holds(p, base) ==
               IsSustained(Streak(eval[e].source, p[1], eval[e].rules[p[2]], base,
                                  History(eval[e].source, eval[e].now)),
                           eval[e].rules[p[2]].duration, eval[e].now)
  <2>0. PICK p \in Upcoming(e) :
          \E base \in IF eval[e].rules[p[2]].anomaly THEN Baselines \cup {None} ELSE {None} :
            eval' = [eval EXCEPT ![e] = Take(eval[e], p, base, holds(p, base))]
    BY <1>2, Zenon DEF ReadHistory
  <2>1. PICK base \in Baselines \cup {None} :
            eval' = [eval EXCEPT ![e] = Take(eval[e], p, base, holds(p, base))]
    BY <2>0
  <2>2. PICK b \in BOOLEAN : b = holds(p, base)
    BY DEF IsSustained
  <2> DEFINE x == Take(eval[e], p, base, b)
  <2>3. p \in eval[e].todo /\ p[1] \in Series /\ p[2] \in RuleIds
    BY <1>0 DEF Upcoming, EvalRow
  <2>4. x \in EvalRow
    BY <1>0, <2>3 DEF EvalRow, EvalPcs, Take
  <2>5. Sound(x)
    <3>1. eval[e].source \in Sources /\ eval[e].time <= clock
      BY <1>0, <1>2 DEF ReadHistory, Sound
    <3> QED BY <1>0, <2>3, <3>1 DEF Sound, EvalRow, PairPcs, IncidentPcs, Take
  <2>6. eval' = [eval EXCEPT ![e] = x]
    BY <2>1, <2>2, Zenon
  <2> QED
    BY <2>4, <2>5, <2>6
<1>3. CASE EvalDone(e)
  BY <1>3, IdleTypes DEF EvalDone
<1>4. CASE FindOpen(e)
  <2> DEFINE found == Findable(eval[e].rule, eval[e].source, eval[e].series.metric)
  <2>0. eval[e].pc = "find"
    BY <1>4 DEF FindOpen
  <2>1. CASE /\ found = {}
             /\ eval' = [eval EXCEPT ![e] =
                           IF eval[e].sustained THEN [@ EXCEPT !.pc = "open"] ELSE Forget(@, "next")]
    <3> DEFINE x == [eval[e] EXCEPT !.pc = "open"]
    <3>1. x \in EvalRow
      BY <1>0 DEF EvalRow, EvalPcs
    <3>2. Sound(x)
      BY <1>0, <2>0 DEF Sound, EvalRow, PairPcs, IncidentPcs
    <3>3. eval' = [eval EXCEPT ![e] = IF eval[e].sustained THEN x ELSE Forget(eval[e], "next")]
      BY <2>1 DEF TypeOK
    <3> QED
      BY <3>1, <3>2, <3>3, <2>0, LeavesPair DEF PairPcs
  <2>2. ASSUME NEW i \in found,
               eval' = [eval EXCEPT ![e].pc = IF eval[e].sustained THEN "update" ELSE "resolve",
                                    ![e].open = i, ![e].peak = incident[i].peak]
        PROVE  \E x \in EvalRow : Sound(x) /\ eval' = [eval EXCEPT ![e] = x]
    <3> DEFINE x == [eval[e] EXCEPT !.pc = IF eval[e].sustained THEN "update" ELSE "resolve",
                                    !.open = i, !.peak = incident[i].peak]
    <3>1. i \in IncidentIds /\ incident[i] \in IncidentRow
      BY DEF Findable, TypeOK
    <3>2. incident[i].peak \in Int
      BY <3>1 DEF IncidentRow
    <3>3. x \in EvalRow
      BY <1>0, <3>1, <3>2 DEF EvalRow, EvalPcs
    <3>4. Sound(x)
      BY <1>0, <2>0, <3>1 DEF Sound, EvalRow, PairPcs, IncidentPcs
    <3>5. eval' = [eval EXCEPT ![e] = x]
      BY <2>2 DEF TypeOK
    <3> QED
      BY <3>3, <3>4, <3>5
  <2> QED
    BY <1>4, <2>1, <2>2 DEF FindOpen
<1>5. CASE Renotify(e)
  <2>1. eval[e].pc \in PairPcs /\ eval[e].open \in IncidentIds
    BY <1>0, <1>5 DEF Renotify, Sound, PairPcs, IncidentPcs
  <2>2. \/ eval' = [eval EXCEPT ![e] = ThenNotify(e, eval[e].open)]
        \/ eval' = [eval EXCEPT ![e] = Forget(eval[e], "next")]
    BY <1>5 DEF Renotify
  <2> QED
    BY <2>1, <2>2, LeavesPair
<1> QED
  BY <1>1, <1>2, <1>3, <1>4, <1>5

\* The value an evaluation with a pair in hand writes, and the worst of two.
LEMMA PointTyped ==
    ASSUME TypeOK, Contexts, NEW e \in Evaluators, eval[e].pc \in PairPcs
    PROVE  PointValue(e) \in Int
<1>1. /\ eval[e].source \in Sources /\ eval[e].series \in Series
      /\ eval[e].time \in Times /\ eval[e].time <= clock
  <2>1. eval[e] \in EvalRow /\ Sound(eval[e])
    BY DEF TypeOK, Contexts
  <2> QED
    BY <2>1 DEF Sound, EvalRow, PairPcs
<1>2. sample[eval[e].source][eval[e].time] \in Batches
  BY <1>1 DEF Contexts
<1> QED
  BY <1>1, <1>2, AlertConstants DEF PointValue, Batches, AlertConstants

LEMMA WorstTyped ==
    ASSUME NEW set, NEW base, NEW v \in Int, NEW a \in Int, NEW b \in Int
    PROVE  WorstFor(set, base, v, a, b) \in Int
BY DEF WorstFor, WorstValue, Max2, Min2

LEMMA IncidentMove ==
    ASSUME TypeOK, NEW i \in IncidentIds, NEW y \in IncidentRow,
           incident' = [incident EXCEPT ![i] = y]
    PROVE  incident' \in [IncidentIds -> IncidentRow]
BY DEF TypeOK

\* The row an evaluation writes and the one it leaves behind, for each of the
\* four steps that write an incident.
LEMMA WritingSteps ==
    ASSUME TypeOK, Contexts, NEW e \in Evaluators,
           OpenIncident(e) \/ UpdateOpen(e) \/ ResolveOpen(e) \/ Notify(e)
    PROVE  /\ \E x \in EvalRow : Sound(x) /\ eval' = [eval EXCEPT ![e] = x]
           /\ incident' \in [IncidentIds -> IncidentRow]
           /\ nextIncident' \in 1..(MaxIncidents + 1)
<1>0. eval[e] \in EvalRow /\ Sound(eval[e]) /\ eval[e].pc \in PairPcs
  BY DEF TypeOK, Contexts, PairPcs, OpenIncident, UpdateOpen, ResolveOpen, Notify
<1>1. /\ eval[e].source \in Sources /\ eval[e].series \in Series /\ eval[e].rule \in RuleIds
      /\ eval[e].peak \in Int
      /\ eval[e].pc \in IncidentPcs => eval[e].open \in IncidentIds
  BY <1>0 DEF Sound, EvalRow, PairPcs
<1>2. PICK v \in Int : v = PointValue(e)
  BY <1>0, PointTyped
<1>3. nextIncident \in 1..(MaxIncidents + 1) /\ MaxIncidents \in Nat
  BY AlertConstants DEF TypeOK, AlertConstants
<1>4. CASE OpenIncident(e)
  <2>1. CASE /\ nextIncident <= MaxIncidents
             /\ incident' = [incident EXCEPT ![nextIncident] =
                   [NoIncident EXCEPT !.status = "OPEN", !.rule = eval[e].rule,
                       !.source = eval[e].source, !.metric = eval[e].series.metric,
                       !.trigger = PointValue(e), !.peak = PointValue(e)]]
             /\ nextIncident' = nextIncident + 1
             /\ eval' = [eval EXCEPT ![e] = ThenNotify(e, nextIncident)]
    <3>1. nextIncident \in IncidentIds /\ nextIncident' \in 1..(MaxIncidents + 1)
      BY <1>3, <2>1
    <3>2. \E x \in EvalRow : Sound(x) /\ eval' = [eval EXCEPT ![e] = x]
      BY <1>0, <2>1, <3>1, LeavesPair
    <3>3. PICK y : y = [NoIncident EXCEPT !.status = "OPEN", !.rule = eval[e].rule,
                         !.source = eval[e].source, !.metric = eval[e].series.metric,
                         !.trigger = v, !.peak = v]
      OBVIOUS
    <3>4. eval[e].series.metric \in Metrics
      BY <1>1 DEF Metrics
    <3>5. y \in IncidentRow
      BY <1>1, <3>3, <3>4 DEF NoIncident, IncidentRow
    <3>6. incident' = [incident EXCEPT ![nextIncident] = y]
      BY <1>2, <2>1, <3>3, Zenon
    <3> QED
      BY <3>1, <3>2, <3>5, <3>6, IncidentMove
  <2>2. CASE eval' = [eval EXCEPT ![e] = Idle] /\ UNCHANGED <<incident, nextIncident>>
    BY <2>2, IdleTypes DEF TypeOK
  <2> QED
    BY <1>4, <2>1, <2>2, Zenon DEF OpenIncident
<1>5. CASE UpdateOpen(e)
  <2>1. eval[e].open \in IncidentIds /\ eval[e].pc = "update"
    BY <1>1, <1>5 DEF UpdateOpen, IncidentPcs
  <2>2. PICK w \in Int : w = WorstFor(RuleOf(e), eval[e].base, v, eval[e].peak, v)
    BY <1>1, WorstTyped
  <2>3. PICK x : x = [eval[e] EXCEPT !.pc = "renotify"]
    OBVIOUS
  <2>4. x \in EvalRow /\ Sound(x)
    BY <1>0, <2>1, <2>3 DEF Sound, EvalRow, EvalPcs, PairPcs, IncidentPcs
  <2>5. eval' = [eval EXCEPT ![e] = x]
    BY <1>5, <2>3 DEF UpdateOpen
  <2>6. PICK y : y = [incident[eval[e].open] EXCEPT !.trigger = v, !.peak = w]
    OBVIOUS
  <2>7. incident[eval[e].open] \in IncidentRow
    BY <2>1 DEF TypeOK
  <2>8. y \in IncidentRow
    BY <2>6, <2>7 DEF IncidentRow
  <2>9. incident' = [incident EXCEPT ![eval[e].open] = y]
    BY <1>2, <1>5, <2>2, <2>6 DEF UpdateOpen
  <2> QED
    BY <1>3, <1>5, <2>1, <2>4, <2>5, <2>8, <2>9, IncidentMove DEF UpdateOpen
<1>6. CASE ResolveOpen(e)
  <2>1. eval[e].open \in IncidentIds
    BY <1>1, <1>6 DEF ResolveOpen, IncidentPcs
  <2>2. \E x \in EvalRow : Sound(x) /\ eval' = [eval EXCEPT ![e] = x]
    BY <1>0, <1>6, <2>1, LeavesPair DEF ResolveOpen
  <2>3. PICK y : y = [incident[eval[e].open] EXCEPT !.status = "RESOLVED", !.resolved = "auto"]
    OBVIOUS
  <2>4. incident[eval[e].open] \in IncidentRow
    BY <2>1 DEF TypeOK
  <2>5. y \in IncidentRow
    BY <2>3, <2>4 DEF IncidentRow
  <2>6. incident' = [incident EXCEPT ![eval[e].open] = y]
    BY <1>6, <2>3 DEF ResolveOpen
  <2> QED
    BY <1>3, <1>6, <2>1, <2>2, <2>5, <2>6, IncidentMove DEF ResolveOpen
<1>7. CASE Notify(e)
  <2>1. eval[e].open \in IncidentIds
    BY <1>1, <1>7 DEF Notify, IncidentPcs
  <2>2. \E x \in EvalRow : Sound(x) /\ eval' = [eval EXCEPT ![e] = x]
    BY <1>0, <1>7, LeavesPair DEF Notify
  <2>3. PICK y : y = [incident[eval[e].open] EXCEPT !.notified = clock]
    OBVIOUS
  <2>4. incident[eval[e].open] \in IncidentRow /\ clock \in Times
    BY <2>1 DEF TypeOK
  <2>5. y \in IncidentRow
    BY <2>3, <2>4 DEF IncidentRow
  <2>6. incident' = [incident EXCEPT ![eval[e].open] = y]
    BY <1>7, <2>3 DEF Notify
  <2> QED
    BY <1>3, <1>7, <2>1, <2>2, <2>5, <2>6, IncidentMove DEF Notify
<1> QED
  BY <1>4, <1>5, <1>6, <1>7

\* The steps of evaluations preserve types and contexts.
LEMMA EvaluationTypes ==
    ASSUME TypeOK, Contexts, NEW e \in Evaluators,
           \/ EvalStep(e) \/ Abort(e)
           \/ \E s \in Sources, t \in Times : Ingest(e, s, t)
    PROVE  TypeOK' /\ Contexts'
<1>1. CASE LoadRules(e) \/ ReadHistory(e) \/ EvalDone(e) \/ FindOpen(e) \/ Renotify(e)
  <2>1. UNCHANGED <<clock, sample, stored, rules, incident, nextIncident, user, used>>
    BY <1>1, Zenon DEF LoadRules, ReadHistory, EvalDone, FindOpen, Renotify
  <2>2. eval' \in [Evaluators -> EvalRow] /\ \A f \in Evaluators : Sound(eval[f])'
    BY <1>1, <2>1, ReadingSteps, EvalMove
  <2> QED
    BY <2>1, <2>2 DEF TypeOK, Contexts
<1>2. CASE OpenIncident(e) \/ UpdateOpen(e) \/ ResolveOpen(e) \/ Notify(e)
  <2>1. UNCHANGED <<clock, sample, stored, rules, user, used>>
    BY <1>2, Zenon DEF OpenIncident, UpdateOpen, ResolveOpen, Notify
  <2>2. eval' \in [Evaluators -> EvalRow] /\ \A f \in Evaluators : Sound(eval[f])'
    BY <1>2, <2>1, WritingSteps, EvalMove
  <2> QED
    BY <1>2, <2>1, <2>2, WritingSteps DEF TypeOK, Contexts
<1>3. CASE Abort(e)
  <2>1. eval' \in [Evaluators -> EvalRow] /\ \A f \in Evaluators : Sound(eval[f])'
    BY <1>3, IdleTypes, EvalMove DEF Abort
  <2>2. used' \in [edits : 0..MaxEdits, ops : 0..MaxUserOps, aborts : 0..MaxAborts]
    <3>1. /\ used \in [edits : 0..MaxEdits, ops : 0..MaxUserOps, aborts : 0..MaxAborts]
          /\ used' = [used EXCEPT !.aborts = used.aborts + 1] /\ used.aborts < MaxAborts
      BY <1>3 DEF TypeOK, Abort
    <3>2. MaxAborts \in Nat
      BY AlertConstants DEF AlertConstants
    <3>3. used.aborts + 1 \in 0..MaxAborts
      BY <3>1, <3>2
    <3> QED BY <3>1, <3>3
  <2> QED
    BY <1>3, <2>1, <2>2 DEF Abort, TypeOK, Contexts
<1>4. ASSUME NEW s \in Sources, NEW t \in Times, Ingest(e, s, t) PROVE TypeOK' /\ Contexts'
  <2>1. PICK x : x = [Idle EXCEPT !.pc = "rules", !.source = s, !.time = t, !.now = clock]
    OBVIOUS
  <2>2. x \in EvalRow
    BY <2>1, IdleTypes DEF TypeOK, Idle, EvalRow, EvalPcs
  <2>3. Sound(x)
    BY <1>4, <2>1 DEF Ingest, Idle, Sound, PairPcs, IncidentPcs
  <2>4. eval' \in [Evaluators -> EvalRow] /\ \A f \in Evaluators : Sound(eval[f])'
    BY <1>4, <2>1, <2>2, <2>3, EvalMove DEF Ingest
  <2>5. stored' \in [Sources -> SUBSET Times]
    BY <1>4 DEF Ingest, TypeOK
  <2> QED
    BY <1>4, <2>4, <2>5 DEF Ingest, TypeOK, Contexts
<1> QED
  BY <1>1, <1>2, <1>3, <1>4 DEF EvalStep

LEMMA TickTypes ==
    ASSUME TypeOK, Contexts, Tick PROVE TypeOK' /\ Contexts'
<1>1. PICK batch \in [Sources -> Batches] :
        sample' = [s \in Sources |-> [sample[s] EXCEPT ![clock + 1] = batch[s]]]
  BY DEF Tick
<1>2. clock \in Int /\ clock' = clock + 1 /\ clock' \in Times
  BY AlertConstants DEF Tick, TypeOK, AlertConstants
<1>3. sample' \in [Sources -> [Times -> Batches \cup {None}]]
  BY <1>1, <1>2 DEF TypeOK
<1>4. ASSUME NEW s \in Sources, NEW t \in Times, t <= clock' PROVE sample'[s][t] \in Batches
  <2>1. CASE t = clock + 1
    BY <1>1, <1>2, <2>1 DEF TypeOK
  <2>2. CASE t # clock + 1
    <3>1. t <= clock
      BY <1>2, <1>4, <2>2
    <3>2. sample'[s][t] = sample[s][t]
      BY <1>1, <2>2 DEF TypeOK
    <3> QED BY <3>1, <3>2 DEF Contexts
  <2> QED BY <2>1, <2>2
<1>5. ASSUME NEW f \in Evaluators PROVE Sound(eval[f])'
  <2>1. eval' = eval /\ Sound(eval[f]) /\ eval[f] \in EvalRow
    BY DEF Tick, Contexts, TypeOK
  <2>2. eval[f].time \in Int
    BY <2>1 DEF EvalRow
  <2> QED BY <1>2, <2>1, <2>2 DEF Sound
<1> QED
  BY <1>2, <1>3, <1>4, <1>5 DEF Tick, TypeOK, Contexts

LEMMA UserTypes ==
    ASSUME TypeOK, Contexts, NEW u \in Users,
           UserWrite(u) \/ \E op \in UserOps, i \in IncidentIds : UserRead(u, op, i)
    PROVE  TypeOK' /\ Contexts'
<1>0. UserOps \subseteq {"acknowledge", "resolve", "reopen"}
  BY AlertConstants DEF AlertConstants
<1>1. CASE UserWrite(u)
  <2>1. user[u].id \in IncidentIds /\ user[u].op \in {"acknowledge", "resolve", "reopen"}
    BY <1>0, <1>1 DEF UserWrite, Contexts
  <2>2. PICK row \in IncidentRow : row = incident[user[u].id]
    BY <2>1 DEF TypeOK
  <2>3. Written(user[u].op, row) \in IncidentRow
    <3>1. CASE user[u].op = "acknowledge"
      BY <3>1 DEF Written, IncidentRow
    <3>2. CASE user[u].op = "resolve"
      BY <3>2 DEF Written, IncidentRow
    <3>3. CASE user[u].op = "reopen"
      BY <3>3 DEF Written, IncidentRow
    <3> QED BY <2>1, <3>1, <3>2, <3>3
  <2>4. incident' = [incident EXCEPT ![user[u].id] = Written(user[u].op, row)]
    BY <1>1, <2>2 DEF UserWrite
  <2>5. incident' \in [IncidentIds -> IncidentRow]
    BY <2>1, <2>3, <2>4, IncidentMove
  <2>6. user' \in [Users -> UserRow]
    BY <1>1, IdleTypes DEF UserWrite, TypeOK
  <2>7. \A w \in Users : user'[w] = IF w = u THEN IdleUser ELSE user[w]
    BY <1>1 DEF UserWrite, TypeOK
  <2>8. \A w \in Users : user'[w].op # "none" => user'[w].op \in UserOps /\ user'[w].id \in IncidentIds
    BY <2>7 DEF IdleUser, Contexts
  <2>9. \A f \in Evaluators : Sound(eval[f])'
    BY <1>1 DEF UserWrite, Contexts, Sound
  <2> QED
    BY <1>1, <2>5, <2>6, <2>8, <2>9 DEF UserWrite, TypeOK, Contexts
<1>2. ASSUME NEW op \in UserOps, NEW i \in IncidentIds, UserRead(u, op, i)
      PROVE  TypeOK' /\ Contexts'
  <2>1. [op |-> op, id |-> i] \in UserRow
    BY <1>0 DEF UserRow
  <2>2. user' = [user EXCEPT ![u] = [op |-> op, id |-> i]]
    BY <1>2 DEF UserRead
  <2>3. user' \in [Users -> UserRow]
    BY <2>1, <2>2 DEF TypeOK
  <2>4. \A w \in Users : user'[w].op # "none" => user'[w].op \in UserOps /\ user'[w].id \in IncidentIds
    BY <2>2 DEF TypeOK, Contexts
  <2>5. used' \in [edits : 0..MaxEdits, ops : 0..MaxUserOps, aborts : 0..MaxAborts]
    <3>1. /\ used \in [edits : 0..MaxEdits, ops : 0..MaxUserOps, aborts : 0..MaxAborts]
          /\ used' = [used EXCEPT !.ops = used.ops + 1] /\ used.ops < MaxUserOps
      BY <1>2 DEF TypeOK, UserRead
    <3>2. MaxUserOps \in Nat
      BY AlertConstants DEF AlertConstants
    <3>3. used.ops + 1 \in 0..MaxUserOps
      BY <3>1, <3>2
    <3> QED BY <3>1, <3>3
  <2>6. \A f \in Evaluators : Sound(eval[f])'
    BY <1>2 DEF UserRead, Contexts, Sound
  <2> QED
    BY <1>2, <2>3, <2>4, <2>5, <2>6 DEF UserRead, TypeOK, Contexts
<1> QED
  BY <1>1, <1>2

LEMMA RuleTypes ==
    ASSUME TypeOK, Contexts, NEW r \in RuleIds,
           \/ \E set \in RuleSettings : CreateRule(r, set) \/ UpdateRule(r, set)
           \/ SetRuleEnabled(r)
           \/ DeleteRule(r)
    PROVE  TypeOK' /\ Contexts'
<1>0. /\ UNCHANGED <<clock, sample, stored, nextIncident, eval, user>>
      /\ used' \in [edits : 0..MaxEdits, ops : 0..MaxUserOps, aborts : 0..MaxAborts]
  <2>1. used \in [edits : 0..MaxEdits, ops : 0..MaxUserOps, aborts : 0..MaxAborts]
    BY DEF TypeOK
  <2>2. \/ UNCHANGED <<clock, sample, stored, nextIncident, eval, user, used>>
        \/ Edit(r)
    BY DEF CreateRule, UpdateRule, SetRuleEnabled, DeleteRule
  <2>3. CASE UNCHANGED <<clock, sample, stored, nextIncident, eval, user, used>>
    BY <2>1, <2>3
  <2>4. CASE Edit(r)
    <3>1. MaxEdits \in Nat
      BY AlertConstants DEF AlertConstants
    <3>2. used.edits + 1 \in 0..MaxEdits
      BY <2>1, <2>4, <3>1 DEF Edit
    <3> QED BY <2>1, <2>4, <3>2 DEF Edit
  <2> QED BY <2>2, <2>3, <2>4
<1>1. \A f \in Evaluators : Sound(eval[f])'
  BY <1>0 DEF Contexts, Sound
<1>2. rules[r] \in RuleRow /\ incident \in [IncidentIds -> IncidentRow]
  BY DEF TypeOK
<1>3. SUFFICES /\ incident' \in [IncidentIds -> IncidentRow]
               /\ \E y \in RuleRow : /\ rules' = [rules EXCEPT ![r] = y]
                                     /\ y.state = "row" => y.set \in RuleSettings
  BY <1>0, <1>1 DEF TypeOK, Contexts
<1>4. ASSUME NEW set \in RuleSettings, CreateRule(r, set) \/ UpdateRule(r, set)
      PROVE  \E y \in RuleRow : /\ rules' = [rules EXCEPT ![r] = y]
                                /\ y.state = "row" => y.set \in RuleSettings
  <2>1. CASE CreateRule(r, set)
    <3>1. PICK y : y = [state |-> "row", enabled |-> TRUE, set |-> set]
      OBVIOUS
    <3>2. y \in RuleRow /\ y.set \in RuleSettings
      BY <3>1 DEF RuleRow
    <3> QED BY <2>1, <3>1, <3>2 DEF CreateRule
  <2>2. CASE UpdateRule(r, set)
    <3>1. PICK y : y = [rules[r] EXCEPT !.set = set]
      OBVIOUS
    <3>2. y \in RuleRow /\ y.set \in RuleSettings
      BY <1>2, <3>1 DEF RuleRow
    <3> QED BY <2>2, <3>1, <3>2 DEF UpdateRule
  <2> QED BY <1>4, <2>1, <2>2
<1>5. ASSUME SetRuleEnabled(r)
      PROVE  \E y \in RuleRow : /\ rules' = [rules EXCEPT ![r] = y]
                                /\ y.state = "row" => y.set \in RuleSettings
  <2>1. rules' = [rules EXCEPT ![r] = [rules[r] EXCEPT !.enabled = ~rules[r].enabled]]
    BY <1>5 DEF SetRuleEnabled
  <2>2. PICK b \in BOOLEAN : b = ~rules[r].enabled
    OBVIOUS
  <2>3. PICK y : y = [rules[r] EXCEPT !.enabled = b]
    OBVIOUS
  <2>4. y \in RuleRow /\ (y.state = "row" => y.set \in RuleSettings)
    BY <1>2, <2>3 DEF RuleRow, Contexts
  <2>5. rules' = [rules EXCEPT ![r] = y]
    BY <2>1, <2>2, <2>3, Zenon
  <2> QED BY <2>4, <2>5
<1>6. ASSUME DeleteRule(r)
      PROVE  /\ \E y \in RuleRow : /\ rules' = [rules EXCEPT ![r] = y]
                                   /\ y.state = "row" => y.set \in RuleSettings
             /\ incident' \in [IncidentIds -> IncidentRow]
  <2>1. PICK y : y = [NoRule EXCEPT !.state = "deleted"]
    OBVIOUS
  <2>2. y \in RuleRow /\ y.state # "row"
    BY <2>1 DEF NoRule, RuleRow
  <2>3. \A row \in IncidentRow : [row EXCEPT !.rule = None] \in IncidentRow
    BY DEF IncidentRow
  <2> QED BY <1>2, <1>6, <2>1, <2>2, <2>3 DEF DeleteRule
<1> QED
  BY <1>2, <1>4, <1>5, <1>6 DEF CreateRule, UpdateRule, SetRuleEnabled

LEMMA StepTypes == TypeOK /\ Contexts /\ [Next]_vars => TypeOK' /\ Contexts'
<1> SUFFICES ASSUME TypeOK, Contexts, [Next]_vars PROVE TypeOK' /\ Contexts'
  OBVIOUS
<1>1. CASE UNCHANGED vars
  BY <1>1 DEF vars, TypeOK, Contexts, Sound
<1>2. CASE Next
  BY <1>2, TickTypes, EvaluationTypes, UserTypes, RuleTypes, Zenon DEF Next, incidentActions, ruleActions, EvalStep
<1> QED
  BY <1>1, <1>2

\* Every table and every context of the alert engine keeps its type, and every
\* evaluation keeps what its next query relies on: an incident or a rule to
\* look up, a batch that was sampled.
THEOREM Typing == Spec => [](TypeOK /\ Contexts)
<1>1. Init => TypeOK /\ Contexts
  BY InitTypes
<1>2. TypeOK /\ Contexts /\ [Next]_vars => TypeOK' /\ Contexts'
  BY StepTypes
<1> QED
  BY <1>1, <1>2, PTL DEF Spec

-----------------------------------------------------------------------------
(* The peak of an incident *)

\* The incidents a step writes: none, or one by an evaluation or a person, or
\* the reference to a deleted rule. All but two steps leave every peak alone.
LEMMA ValuesKept ==
    ASSUME TypeOK, Contexts, [Next]_vars,
           \A e \in Evaluators : ~OpenIncident(e) /\ ~UpdateOpen(e),
           NEW i \in IncidentIds
    PROVE  incident'[i].peak = incident[i].peak /\ incident'[i].trigger = incident[i].trigger
<1>0. incident[i] \in IncidentRow
  BY DEF TypeOK
<1>1. CASE UNCHANGED incident
  BY <1>1
<1>2. ASSUME NEW e \in Evaluators, ResolveOpen(e) \/ Notify(e)
      PROVE  incident'[i].peak = incident[i].peak /\ incident'[i].trigger = incident[i].trigger
  <2>1. \/ incident'[i] = incident[i]
        \/ incident'[i] = [incident[i] EXCEPT !.status = "RESOLVED", !.resolved = "auto"]
        \/ incident'[i] = [incident[i] EXCEPT !.notified = clock]
    BY <1>2 DEF ResolveOpen, Notify, TypeOK
  <2> QED BY <1>0, <2>1 DEF IncidentRow
<1>3. ASSUME NEW u \in Users, UserWrite(u)
      PROVE  incident'[i].peak = incident[i].peak /\ incident'[i].trigger = incident[i].trigger
  <2>1. user[u].op \in {"acknowledge", "resolve", "reopen"}
    BY <1>3, AlertConstants DEF UserWrite, Contexts, AlertConstants
  <2>2. /\ Written(user[u].op, incident[i]).peak = incident[i].peak
        /\ Written(user[u].op, incident[i]).trigger = incident[i].trigger
    <3>1. CASE user[u].op = "acknowledge"
      BY <1>0, <3>1 DEF Written, IncidentRow
    <3>2. CASE user[u].op = "resolve"
      BY <1>0, <3>2 DEF Written, IncidentRow
    <3>3. CASE user[u].op = "reopen"
      BY <1>0, <3>3 DEF Written, IncidentRow
    <3> QED BY <2>1, <3>1, <3>2, <3>3
  <2>3. incident'[i] = incident[i] \/ incident'[i] = Written(user[u].op, incident[i])
    BY <1>3 DEF UserWrite, TypeOK
  <2> QED BY <2>2, <2>3
<1>4. ASSUME NEW r \in RuleIds, DeleteRule(r)
      PROVE  incident'[i].peak = incident[i].peak /\ incident'[i].trigger = incident[i].trigger
  BY <1>0, <1>4 DEF DeleteRule, IncidentRow
<1>5. \/ UNCHANGED incident
      \/ \E e \in Evaluators : ResolveOpen(e) \/ Notify(e)
      \/ \E u \in Users : UserWrite(u)
      \/ \E r \in RuleIds : DeleteRule(r)
  <2>1. CASE UNCHANGED vars
    BY <2>1 DEF vars
  <2>2. CASE Next
    BY <2>2 DEF Next, incidentActions, ruleActions, Tick, Ingest, LoadRules, ReadHistory, EvalDone, FindOpen, Renotify,
                Abort, UserRead, CreateRule, UpdateRule, SetRuleEnabled, Edit
  <2> QED BY <2>1, <2>2
<1> QED
  BY <1>1, <1>2, <1>3, <1>4, <1>5

\* What OpenIncident does to an incident: nothing, or the new row.
LEMMA OpenedValues ==
    ASSUME TypeOK, Contexts, NEW e \in Evaluators, OpenIncident(e), NEW i \in IncidentIds
    PROVE  \/ incident'[i] = incident[i]
           \/ i = nextIncident /\ incident'[i].peak = PointValue(e)
                               /\ incident'[i].trigger = PointValue(e)
<1>1. \/ incident'[i] = incident[i]
      \/ i = nextIncident /\ incident' = [incident EXCEPT ![nextIncident] =
           [NoIncident EXCEPT !.status = "OPEN", !.rule = eval[e].rule,
              !.source = eval[e].source, !.metric = eval[e].series.metric,
              !.trigger = PointValue(e), !.peak = PointValue(e)]]
  BY DEF OpenIncident, TypeOK
<1> QED
  BY <1>1 DEF TypeOK, NoIncident

\* What UpdateOpen does to one, when all rules alert on high values.
LEMMA UpdatedValues ==
    ASSUME TypeOK, Contexts, Upward, NEW e \in Evaluators, UpdateOpen(e), NEW i \in IncidentIds
    PROVE  \/ incident'[i] = incident[i]
           \/ /\ i = eval[e].open
              /\ incident'[i].trigger = PointValue(e)
              /\ incident'[i].peak = Max2(eval[e].peak, PointValue(e))
<1>1. RuleOf(e) \in RuleSettings
  BY DEF UpdateOpen, Contexts, Sound, PairPcs, RuleOf
<1>2. RuleOf(e).op \in {"GT", "GTE"}
  BY <1>1 DEF Upward
<1>3. WorstFor(RuleOf(e), eval[e].base, PointValue(e), eval[e].peak, PointValue(e))
        = Max2(eval[e].peak, PointValue(e))
  BY <1>2 DEF WorstFor, WorstValue
<1>4. incident[i] \in IncidentRow
  BY DEF TypeOK
<1> QED
  BY <1>3, <1>4 DEF UpdateOpen, TypeOK, IncidentRow

\* However stale the peak an evaluation read, and whatever it raced with, an
\* incident of rules on high values never shows a current value above its peak.
THEOREM PeakCovers == Spec => []PeakCoversTrigger
<1>1. Init => PeakCoversTrigger
  BY DEF Init, PeakCoversTrigger, NoIncident
<1>2. TypeOK /\ Contexts /\ PeakCoversTrigger /\ [Next]_vars => PeakCoversTrigger'
  <2> SUFFICES ASSUME TypeOK, Contexts, PeakCoversTrigger, [Next]_vars, Upward,
                      NEW i \in IncidentIds
               PROVE  incident'[i].peak >= incident'[i].trigger
    BY DEF PeakCoversTrigger, Upward
  <2>0. incident[i].peak >= incident[i].trigger
    BY DEF PeakCoversTrigger
  <2>1. ASSUME NEW e \in Evaluators, OpenIncident(e)
        PROVE  incident'[i].peak >= incident'[i].trigger
    <3>1. PointValue(e) \in Int
      BY <2>1, PointTyped DEF OpenIncident, PairPcs
    <3> QED BY <2>0, <2>1, <3>1, OpenedValues
  <2>2. ASSUME NEW e \in Evaluators, UpdateOpen(e)
        PROVE  incident'[i].peak >= incident'[i].trigger
    <3>1. PointValue(e) \in Int
      BY <2>2, PointTyped DEF UpdateOpen, PairPcs
    <3>2. eval[e].peak \in Int
      <4>1. eval[e] \in EvalRow
        BY DEF TypeOK
      <4> QED BY <4>1 DEF EvalRow
    <3> QED BY <2>0, <2>2, <3>1, <3>2, UpdatedValues DEF Max2
  <2> QED
    BY <2>0, <2>1, <2>2, ValuesKept
<1> QED
  BY <1>1, <1>2, Typing, PTL DEF Spec

\* Every step of an evaluation but FindOpen leaves it elsewhere than at "open"
\* or "update".
LEMMA NotOpening ==
    ASSUME TypeOK, NEW e \in Evaluators,
           \/ LoadRules(e) \/ ReadHistory(e) \/ EvalDone(e) \/ Renotify(e) \/ OpenIncident(e)
           \/ UpdateOpen(e) \/ ResolveOpen(e) \/ Notify(e) \/ Abort(e)
           \/ \E s \in Sources, t \in Times : Ingest(e, s, t)
    PROVE  eval'[e].pc \notin {"open", "update"} /\ \A f \in Evaluators : f # e => eval'[f] = eval[f]
<1>0. eval[e] \in EvalRow /\ eval \in [Evaluators -> EvalRow]
  BY DEF TypeOK
<1>1. Forget(eval[e], "next").pc = "next"
  BY <1>0 DEF Forget, EvalRow
<1>2. \A i : [Forget(eval[e], "notify") EXCEPT !.open = i].pc = "notify"
  BY <1>0 DEF Forget, EvalRow
<1>3. \A i : ThenNotify(e, i).pc \notin {"open", "update"}
  BY <1>1, <1>2 DEF ThenNotify
<1>4. \A p, base, b : Take(eval[e], p, base, b).pc = "find"
  BY <1>0 DEF Take, EvalRow
<1>5. Idle.pc = "idle"
  BY DEF Idle
<1>6. SUFFICES \E x : x.pc \notin {"open", "update"} /\ eval' = [eval EXCEPT ![e] = x]
  BY <1>0
<1>7. CASE LoadRules(e)
  BY <1>0, <1>5, <1>7 DEF LoadRules, EvalRow
<1>8. CASE ReadHistory(e)
  <2>1. \E p, base, b : eval' = [eval EXCEPT ![e] = Take(eval[e], p, base, b)]
    BY <1>8, Zenon DEF ReadHistory
  <2> QED BY <1>4, <2>1
<1>9. CASE EvalDone(e) \/ Abort(e)
  BY <1>5, <1>9 DEF EvalDone, Abort
<1>10. CASE Renotify(e) \/ ResolveOpen(e) \/ Notify(e)
  <2>1. \/ eval' = [eval EXCEPT ![e] = Forget(eval[e], "next")]
        \/ eval' = [eval EXCEPT ![e] = ThenNotify(e, eval[e].open)]
    BY <1>10 DEF Renotify, ResolveOpen, Notify
  <2> QED BY <1>1, <1>3, <2>1
<1>11. CASE OpenIncident(e)
  <2>1. \/ eval' = [eval EXCEPT ![e] = Idle]
        \/ eval' = [eval EXCEPT ![e] = ThenNotify(e, nextIncident)]
    BY <1>11 DEF OpenIncident
  <2> QED BY <1>3, <1>5, <2>1
<1>12. CASE UpdateOpen(e)
  <2>1. eval' = [eval EXCEPT ![e] = [eval[e] EXCEPT !.pc = "renotify"]]
    BY <1>12 DEF UpdateOpen
  <2>2. [eval[e] EXCEPT !.pc = "renotify"].pc = "renotify"
    BY <1>0 DEF EvalRow
  <2> QED BY <2>1, <2>2
<1>13. CASE \E s \in Sources, t \in Times : Ingest(e, s, t)
  BY <1>13 DEF Ingest, Idle
<1> QED
  BY <1>7, <1>8, <1>9, <1>10, <1>11, <1>12, <1>13

\* An incident in hand is a row of the table: an evaluation found or opened
\* it, or a person read it. Rows are given out in order, so the next one is
\* free. An evaluation that does not overlap another still has the peak.
RowsInOrder == \A i \in IncidentIds : incident[i].status # "ABSENT" => i < nextIncident
InHandExists ==
    /\ \A e \in Evaluators : eval[e].pc \in IncidentPcs => eval[e].open < nextIncident
    /\ \A u \in Users : user[u].op # "none" => user[u].id < nextIncident
PeakInHand ==
    (\A e, f \in Evaluators : e = f) =>
      \A e \in Evaluators : eval[e].pc = "update" => eval[e].peak = incident[eval[e].open].peak

PeakInv == TypeOK /\ Contexts /\ RowsInOrder /\ InHandExists /\ PeakInHand

\* The rows a step may take from free to used, and what it does to the counter.
LEMMA RowsStep == PeakInv /\ [Next]_vars => RowsInOrder' /\ nextIncident' >= nextIncident
<1> SUFFICES ASSUME PeakInv, [Next]_vars
             PROVE  RowsInOrder' /\ nextIncident' >= nextIncident
  OBVIOUS
<1>0. TypeOK /\ Contexts /\ nextIncident \in Int
  BY DEF PeakInv, TypeOK
<1>1. nextIncident' = nextIncident \/ \E e \in Evaluators : OpenIncident(e)
  <2>1. CASE UNCHANGED vars
    BY <2>1 DEF vars
  <2>2. CASE Next
    BY <2>2 DEF Next, incidentActions, ruleActions, Tick, Ingest, LoadRules, ReadHistory, EvalDone, FindOpen, UpdateOpen,
                Renotify, ResolveOpen, Notify, Abort, UserRead, UserWrite, CreateRule,
                UpdateRule, SetRuleEnabled, DeleteRule, Edit
  <2> QED BY <2>1, <2>2
<1>2. nextIncident' = nextIncident \/ nextIncident' = nextIncident + 1
  BY <1>1 DEF OpenIncident
<1>3. ASSUME NEW i \in IncidentIds, incident'[i].status # "ABSENT" PROVE i < nextIncident'
  <2>0. incident[i] \in IncidentRow
    BY <1>0 DEF TypeOK
  <2>1. ASSUME NEW e \in Evaluators, OpenIncident(e) PROVE i < nextIncident'
    <3>1. CASE incident'[i] = incident[i]
      BY <1>0, <1>2, <1>3, <3>1 DEF PeakInv, RowsInOrder
    <3>2. CASE incident'[i] # incident[i]
      <4>1. i = nextIncident /\ nextIncident' = nextIncident + 1
        BY <1>0, <2>1, <3>2 DEF OpenIncident, TypeOK
      <4> QED BY <1>0, <4>1
    <3> QED BY <3>1, <3>2
  <2>2. ASSUME NEW e \in Evaluators, UpdateOpen(e) \/ ResolveOpen(e) \/ Notify(e)
        PROVE  i < nextIncident
    <3>1. CASE incident'[i] = incident[i]
      BY <1>3, <3>1 DEF PeakInv, RowsInOrder
    <3>2. CASE incident'[i] # incident[i]
      <4>1. i = eval[e].open /\ eval[e].pc \in IncidentPcs
        BY <1>0, <2>2, <3>2 DEF UpdateOpen, ResolveOpen, Notify, TypeOK, IncidentPcs
      <4> QED BY <4>1 DEF PeakInv, InHandExists
    <3> QED BY <3>1, <3>2
  <2>3. ASSUME NEW u \in Users, UserWrite(u) PROVE i < nextIncident
    <3>1. CASE incident'[i] = incident[i]
      BY <1>3, <3>1 DEF PeakInv, RowsInOrder
    <3>2. CASE incident'[i] # incident[i]
      BY <1>0, <2>3, <3>2 DEF UserWrite, TypeOK, PeakInv, InHandExists
    <3> QED BY <3>1, <3>2
  <2>4. ASSUME NEW r \in RuleIds, DeleteRule(r) PROVE i < nextIncident
    <3>1. incident'[i].status = incident[i].status
      BY <2>0, <2>4 DEF DeleteRule, IncidentRow
    <3> QED BY <1>3, <3>1 DEF PeakInv, RowsInOrder
  <2>5. \/ UNCHANGED incident
        \/ \E e \in Evaluators : OpenIncident(e)
        \/ \E e \in Evaluators : UpdateOpen(e) \/ ResolveOpen(e) \/ Notify(e)
        \/ \E u \in Users : UserWrite(u)
        \/ \E r \in RuleIds : DeleteRule(r)
    <3>1. CASE UNCHANGED vars
      BY <3>1 DEF vars
    <3>2. CASE Next
      BY <3>2 DEF Next, incidentActions, ruleActions, Tick, Ingest, LoadRules, ReadHistory, EvalDone, FindOpen, Renotify,
                  Abort, UserRead, CreateRule, UpdateRule, SetRuleEnabled, Edit
    <3> QED BY <3>1, <3>2
  <2>6. CASE UNCHANGED incident
    <3>1. i < nextIncident
      BY <1>3, <2>6 DEF PeakInv, RowsInOrder
    <3> QED BY <1>0, <1>2, <3>1
  <2>7. i < nextIncident \/ i < nextIncident'
    BY <2>1, <2>2, <2>3, <2>4, <2>5, <2>6
  <2> QED BY <1>0, <1>2, <2>7
<1> QED
  BY <1>0, <1>2, <1>3 DEF RowsInOrder

\* What the search for an open incident leaves in hand.
LEMMA FoundRow ==
    ASSUME TypeOK, NEW e \in Evaluators, FindOpen(e)
    PROVE  \/ eval'[e].pc \in {"open", "next"}
           \/ \E i \in IncidentIds : /\ incident[i].status # "ABSENT"
                                     /\ eval'[e].open = i /\ eval'[e].peak = incident[i].peak
<1> DEFINE found == Findable(eval[e].rule, eval[e].source, eval[e].series.metric)
<1>0. eval \in [Evaluators -> EvalRow] /\ eval[e] \in EvalRow
  BY DEF TypeOK
<1>1. CASE eval' = [eval EXCEPT ![e] =
                      IF eval[e].sustained THEN [@ EXCEPT !.pc = "open"] ELSE Forget(@, "next")]
  <2>1. [eval[e] EXCEPT !.pc = "open"].pc = "open" /\ Forget(eval[e], "next").pc = "next"
    BY <1>0 DEF Forget, EvalRow
  <2>2. eval'[e] = IF eval[e].sustained THEN [eval[e] EXCEPT !.pc = "open"]
                   ELSE Forget(eval[e], "next")
    BY <1>0, <1>1
  <2> QED BY <2>1, <2>2
<1>2. ASSUME NEW i \in found,
             eval' = [eval EXCEPT ![e].pc = IF eval[e].sustained THEN "update" ELSE "resolve",
                                  ![e].open = i, ![e].peak = incident[i].peak]
      PROVE  /\ i \in IncidentIds /\ incident[i].status # "ABSENT"
             /\ eval'[e].open = i /\ eval'[e].peak = incident[i].peak
  <2>1. i \in IncidentIds /\ incident[i].status # "ABSENT"
    BY DEF Findable
  <2>2. eval'[e].open = i /\ eval'[e].peak = incident[i].peak
    BY <1>0, <1>2 DEF EvalRow
  <2> QED BY <2>1, <2>2
<1> QED
  BY <1>1, <1>2 DEF FindOpen

\* The step that puts an incident into an evaluation's hands: the search finds
\* it, or the insert gives it its id; every other step keeps it or lets it go.
LEMMA HeldStep ==
    ASSUME PeakInv, [Next]_vars, NEW e \in Evaluators, eval'[e].pc \in IncidentPcs
    PROVE  eval'[e].open < nextIncident'
<1>0. /\ TypeOK /\ Contexts /\ nextIncident \in Int /\ nextIncident' >= nextIncident
      /\ eval \in [Evaluators -> EvalRow] /\ eval[e] \in EvalRow
  BY RowsStep DEF PeakInv, TypeOK
<1>1. \A i : ThenNotify(e, i).pc \in IncidentPcs => ThenNotify(e, i).open = i
  BY <1>0 DEF ThenNotify, Forget, EvalRow, IncidentPcs
<1>2. Forget(eval[e], "next").pc \notin IncidentPcs /\ Idle.pc \notin IncidentPcs
  BY <1>0 DEF Forget, EvalRow, IncidentPcs, Idle
<1>3. CASE eval'[e] = eval[e]
  <2>1. eval[e].open < nextIncident
    BY <1>3 DEF PeakInv, InHandExists
  <2>2. eval[e].open \in Int \/ eval[e].open = None
    BY <1>0 DEF EvalRow
  <2>3. eval[e].open \in IncidentIds /\ MaxIncidents \in Int
    BY <1>0, <1>3, AlertConstants DEF Contexts, Sound, AlertConstants
  <2>4. nextIncident' \in Int
    BY <1>0, StepTypes DEF TypeOK
  <2> QED BY <1>0, <1>3, <2>1, <2>3, <2>4
<1>4. CASE \E i \in IncidentIds : eval'[e].open = i /\ i < nextIncident
  <2>4. nextIncident' \in Int
    BY <1>0, StepTypes DEF TypeOK
  <2> QED BY <1>0, <1>4, <2>4
<1>5. CASE OpenIncident(e)
  <2>1. \/ eval'[e] = Idle
        \/ eval'[e] = ThenNotify(e, nextIncident) /\ nextIncident' = nextIncident + 1
    BY <1>0, <1>5 DEF OpenIncident
  <2> QED BY <1>0, <1>1, <1>2, <2>1
<1>6. CASE FindOpen(e)
  <2>1. \E i \in IncidentIds : incident[i].status # "ABSENT" /\ eval'[e].open = i
    BY <1>0, <1>6, FoundRow DEF IncidentPcs
  <2> QED BY <1>4, <2>1 DEF PeakInv, RowsInOrder
<1>7. CASE Renotify(e) \/ ResolveOpen(e) \/ Notify(e) \/ UpdateOpen(e)
  <2>1. eval[e].pc \in IncidentPcs /\ eval[e].open \in IncidentIds
    BY <1>0, <1>7 DEF Renotify, ResolveOpen, Notify, UpdateOpen, IncidentPcs, Contexts, Sound
  <2>2. eval[e].open < nextIncident
    BY <2>1 DEF PeakInv, InHandExists
  <2>3. \/ eval'[e] = Forget(eval[e], "next")
        \/ eval'[e] = ThenNotify(e, eval[e].open)
        \/ eval'[e] = [eval[e] EXCEPT !.pc = "renotify"]
    BY <1>0, <1>7 DEF Renotify, ResolveOpen, Notify, UpdateOpen
  <2>4. [eval[e] EXCEPT !.pc = "renotify"].open = eval[e].open
    BY <1>0 DEF EvalRow
  <2> QED BY <1>1, <1>2, <1>4, <2>1, <2>2, <2>3, <2>4
<1>8. CASE LoadRules(e) \/ ReadHistory(e) \/ EvalDone(e) \/ Abort(e)
           \/ \E s \in Sources, t \in Times : Ingest(e, s, t)
  <2>1. eval'[e].pc \in {"idle", "next", "find", "rules"}
    <3>1. CASE LoadRules(e)
      BY <1>0, <3>1 DEF LoadRules, Idle, EvalRow
    <3>2. CASE ReadHistory(e)
      <4>1. \E p, base, b : eval' = [eval EXCEPT ![e] = Take(eval[e], p, base, b)]
        BY <3>2, Zenon DEF ReadHistory
      <4>2. \A p, base, b : Take(eval[e], p, base, b).pc = "find"
        BY <1>0 DEF Take, EvalRow
      <4> QED BY <1>0, <4>1, <4>2
    <3>3. CASE EvalDone(e) \/ Abort(e)
      BY <1>0, <3>3 DEF EvalDone, Abort, Idle
    <3>4. CASE \E s \in Sources, t \in Times : Ingest(e, s, t)
      BY <1>0, <3>4 DEF Ingest, Idle
    <3> QED BY <1>8, <3>1, <3>2, <3>3, <3>4
  <2> QED BY <2>1 DEF IncidentPcs
<1>9. CASE UNCHANGED vars
  BY <1>3, <1>9 DEF vars
<1>10. CASE Next
  <2>1. \/ UNCHANGED eval
        \/ \E f \in Evaluators :
             \/ LoadRules(f) \/ ReadHistory(f) \/ EvalDone(f) \/ Abort(f) \/ FindOpen(f)
             \/ OpenIncident(f) \/ UpdateOpen(f) \/ Renotify(f) \/ ResolveOpen(f) \/ Notify(f)
             \/ \E s \in Sources, t \in Times : Ingest(f, s, t)
    BY <1>10 DEF Next, incidentActions, ruleActions, Tick, UserRead, UserWrite, CreateRule, UpdateRule, SetRuleEnabled,
                 DeleteRule, Edit
  <2>2. ASSUME NEW f \in Evaluators, f # e,
               \/ LoadRules(f) \/ ReadHistory(f) \/ EvalDone(f) \/ Abort(f) \/ FindOpen(f)
               \/ OpenIncident(f) \/ UpdateOpen(f) \/ Renotify(f) \/ ResolveOpen(f) \/ Notify(f)
               \/ \E s \in Sources, t \in Times : Ingest(f, s, t)
        PROVE  eval'[e] = eval[e]
    <3>1. CASE FindOpen(f)
      BY <1>0, <2>2, <3>1 DEF FindOpen
    <3> QED BY <1>0, <2>2, <3>1, NotOpening
  <2> QED BY <1>3, <1>5, <1>6, <1>7, <1>8, <2>1, <2>2
<1> QED
  BY <1>9, <1>10

\* A person's incident was read, and so is a row.
LEMMA UsersStep ==
    ASSUME PeakInv, [Next]_vars, NEW u \in Users, user'[u].op # "none"
    PROVE  user'[u].id < nextIncident'
<1>0. /\ TypeOK /\ Contexts /\ nextIncident \in Int /\ nextIncident' >= nextIncident
      /\ user \in [Users -> UserRow] /\ MaxIncidents \in Int
  BY RowsStep, AlertConstants DEF PeakInv, TypeOK, AlertConstants
<1>1. nextIncident' \in Int
  BY <1>0, StepTypes DEF TypeOK
<1>2. CASE user'[u] = user[u]
  <2>1. user[u].id < nextIncident /\ user[u].id \in IncidentIds
    BY <1>2 DEF PeakInv, InHandExists, Contexts
  <2> QED BY <1>0, <1>1, <1>2, <2>1
<1>3. ASSUME NEW w \in Users, NEW op \in UserOps, NEW i \in IncidentIds, UserRead(w, op, i)
      PROVE  user'[u].id < nextIncident'
  <2>1. i < nextIncident
    BY <1>3 DEF UserRead, Allowed, PeakInv, RowsInOrder
  <2>2. user'[u] = user[u] \/ user'[u].id = i
    BY <1>0, <1>3 DEF UserRead
  <2> QED BY <1>0, <1>1, <1>2, <2>1, <2>2
<1>4. ASSUME NEW w \in Users, UserWrite(w) PROVE user'[u].id < nextIncident'
  <2>1. user'[u] = user[u] \/ user'[u] = IdleUser
    BY <1>0, <1>4 DEF UserWrite
  <2> QED BY <1>2, <2>1 DEF IdleUser
<1>5. \/ UNCHANGED user
      \/ \E w \in Users : UserWrite(w)
      \/ \E w \in Users, op \in UserOps, i \in IncidentIds : UserRead(w, op, i)
  <2>1. CASE UNCHANGED vars
    BY <2>1 DEF vars
  <2>2. CASE Next
    BY <2>2 DEF Next, incidentActions, ruleActions, Tick, Ingest, LoadRules, ReadHistory, EvalDone, FindOpen, OpenIncident,
                UpdateOpen, Renotify, ResolveOpen, Notify, Abort, CreateRule, UpdateRule,
                SetRuleEnabled, DeleteRule, Edit
  <2> QED BY <2>1, <2>2
<1> QED
  BY <1>2, <1>3, <1>4, <1>5

\* An evaluation about to update has just read the peak; with no other one
\* at work nothing can have moved it since.
LEMMA InHandStep == PeakInv /\ [Next]_vars => PeakInHand'
<1> SUFFICES ASSUME PeakInv, [Next]_vars, \A g, h \in Evaluators : g = h,
                    NEW e \in Evaluators, eval'[e].pc = "update"
             PROVE  eval'[e].peak = incident'[eval'[e].open].peak
  BY DEF PeakInHand
<1>0. /\ TypeOK /\ Contexts
      /\ eval \in [Evaluators -> EvalRow] /\ eval[e] \in EvalRow
  BY DEF PeakInv, TypeOK
<1>1. CASE FindOpen(e)
  <2>1. incident' = incident
    BY <1>1 DEF FindOpen
  <2>2. \E i \in IncidentIds : eval'[e].open = i /\ eval'[e].peak = incident[i].peak
    BY <1>0, <1>1, FoundRow
  <2> QED BY <2>1, <2>2
<1>2. CASE eval'[e] = eval[e] /\ \A f \in Evaluators : ~OpenIncident(f) /\ ~UpdateOpen(f)
  <2>1. eval[e].open \in IncidentIds /\ eval[e].peak = incident[eval[e].open].peak
    BY <1>2 DEF PeakInv, PeakInHand, Contexts, Sound, IncidentPcs
  <2>2. incident'[eval[e].open].peak = incident[eval[e].open].peak
    BY <1>0, <1>2, <2>1, ValuesKept
  <2> QED BY <1>2, <2>1, <2>2
<1>3. CASE UNCHANGED vars
  <2>1. eval' = eval /\ incident' = incident
    BY <1>3 DEF vars
  <2> QED BY <2>1 DEF PeakInv, PeakInHand
<1>4. CASE Next
  <2>1. \/ UNCHANGED eval /\ \A f \in Evaluators : ~OpenIncident(f) /\ ~UpdateOpen(f)
        \/ \E f \in Evaluators :
             \/ LoadRules(f) \/ ReadHistory(f) \/ EvalDone(f) \/ Abort(f) \/ FindOpen(f)
             \/ OpenIncident(f) \/ UpdateOpen(f) \/ Renotify(f) \/ ResolveOpen(f) \/ Notify(f)
             \/ \E s \in Sources, t \in Times : Ingest(f, s, t)
    BY <1>4 DEF Next, incidentActions, ruleActions, Tick, UserRead, UserWrite, CreateRule, UpdateRule, SetRuleEnabled,
                DeleteRule, Edit
  <2>2. \A f \in Evaluators : f = e
    OBVIOUS
  <2>3. ASSUME \/ LoadRules(e) \/ ReadHistory(e) \/ EvalDone(e) \/ Abort(e)
               \/ OpenIncident(e) \/ UpdateOpen(e) \/ Renotify(e) \/ ResolveOpen(e) \/ Notify(e)
               \/ \E s \in Sources, t \in Times : Ingest(e, s, t)
        PROVE  FALSE
    BY <1>0, <2>3, NotOpening
  <2> QED BY <1>1, <1>2, <2>1, <2>2, <2>3
<1> QED
  BY <1>3, <1>4

\* While evaluations do not overlap, no step of theirs, of people or of
\* administrators lowers the peak of an incident of rules on high values.
THEOREM PeaksNeverDrop == Spec => PeakNeverDrops
<1> DEFINE Body ==
      (Upward /\ \A e, f \in Evaluators : e = f) =>
          \A i \in IncidentIds :
              incident[i].status # "ABSENT" => incident'[i].peak >= incident[i].peak
<1>1. Init => PeakInv
  <2>1. Init => RowsInOrder
    BY DEF Init, RowsInOrder, NoIncident
  <2>2. Init => InHandExists /\ PeakInHand
    BY DEF Init, InHandExists, PeakInHand, Idle, IdleUser, IncidentPcs
  <2> QED BY <2>1, <2>2, InitTypes DEF PeakInv
<1>2. PeakInv /\ [Next]_vars => PeakInv'
  <2>1. PeakInv /\ [Next]_vars => TypeOK' /\ Contexts'
    BY StepTypes DEF PeakInv
  <2>2. PeakInv /\ [Next]_vars => InHandExists'
    BY HeldStep, UsersStep DEF InHandExists
  <2> QED BY <2>1, <2>2, RowsStep, InHandStep DEF PeakInv
<1>3. PeakInv /\ [Next]_vars => Body
  <2> SUFFICES ASSUME PeakInv, [Next]_vars, Upward, \A e, f \in Evaluators : e = f,
                      NEW i \in IncidentIds, incident[i].status # "ABSENT"
               PROVE  incident'[i].peak >= incident[i].peak
    OBVIOUS
  <2>0. TypeOK /\ Contexts /\ incident[i].peak \in Int
    BY DEF PeakInv, TypeOK, IncidentRow
  <2>1. ASSUME NEW e \in Evaluators, OpenIncident(e) PROVE incident'[i].peak >= incident[i].peak
    <3>1. i # nextIncident
      BY <2>0 DEF PeakInv, RowsInOrder, TypeOK
    <3> QED BY <2>0, <2>1, <3>1, OpenedValues
  <2>2. ASSUME NEW e \in Evaluators, UpdateOpen(e) PROVE incident'[i].peak >= incident[i].peak
    <3>1. PointValue(e) \in Int
      BY <2>0, <2>2, PointTyped DEF UpdateOpen, PairPcs
    <3>2. eval[e].peak = incident[eval[e].open].peak
      BY <2>2 DEF UpdateOpen, PeakInv, PeakInHand
    <3>3. \/ incident'[i] = incident[i]
          \/ i = eval[e].open /\ incident'[i].peak = Max2(eval[e].peak, PointValue(e))
      BY <2>0, <2>2, UpdatedValues
    <3> QED BY <2>0, <3>1, <3>2, <3>3 DEF Max2
  <2> QED
    BY <2>0, <2>1, <2>2, ValuesKept
<1>4. PeakInv /\ [Next]_vars => [Body]_vars
  BY <1>3
<1>5. Spec => [][Body]_vars
  BY <1>1, <1>2, <1>4, PTL DEF Spec
<1> QED
  BY <1>5 DEF PeakNeverDrops

-----------------------------------------------------------------------------
(* Duplicates *)

\* The sets that incidents and evaluations come from are finite.
LEMMA BasesFinite == IsFiniteSet(1..MaxIncidents) /\ IsFiniteSet(Evaluators)
<1>1. 1 \in Int /\ MaxIncidents \in Int /\ IsFiniteSet(Evaluators)
  BY AlertConstants DEF AlertConstants
<1> QED
  BY <1>1, FS_Interval

\* One element more counts at most one more.
LEMMA OneMore ==
    ASSUME NEW A, IsFiniteSet(A), NEW x
    PROVE  IsFiniteSet(A \cup {x}) /\ Cardinality(A \cup {x}) <= Cardinality(A) + 1
<1>1. Cardinality(A) \in Nat
  BY FS_CardinalityType
<1>2. IsFiniteSet(A \cup {x})
      /\ (Cardinality(A \cup {x}) = Cardinality(A) \/ Cardinality(A \cup {x}) = Cardinality(A) + 1)
  BY FS_AddElement, Zenon
<1> QED
  BY <1>1, <1>2

\* The count does not grow when neither set does.
LEMMA Shrinking ==
    ASSUME NEW A, NEW B, IsFiniteSet(A), IsFiniteSet(B),
           NEW A2 \in SUBSET A, NEW B2 \in SUBSET B
    PROVE  Cardinality(A2) + Cardinality(B2) <= Cardinality(A) + Cardinality(B)
<1>1. Cardinality(A2) <= Cardinality(A) /\ IsFiniteSet(A2)
  BY FS_Subset
<1>2. Cardinality(B2) <= Cardinality(B) /\ IsFiniteSet(B2)
  BY FS_Subset
<1>3. {Cardinality(A), Cardinality(A2), Cardinality(B), Cardinality(B2)} \subseteq Nat
  BY <1>1, <1>2, FS_CardinalityType
<1> QED
  BY <1>1, <1>2, <1>3

\* The steps that create no unresolved incident and no evaluation about to
\* create one. Of the operations of people only a resolution is considered.
LEMMA Quiet ==
    ASSUME TypeOK, Contexts, [Next]_vars, UserOps \subseteq {"resolve"},
           \A e \in Evaluators : ~OpenIncident(e) /\ ~FindOpen(e),
           NEW r \in RuleIds, NEW s \in Sources, NEW m \in Metrics
    PROVE  /\ OpenIncidents(r, s, m)' \subseteq OpenIncidents(r, s, m)
           /\ Openers(r, s, m)' \subseteq Openers(r, s, m)
<1>1. Openers(r, s, m)' \subseteq Openers(r, s, m)
  <2>1. CASE UNCHANGED eval
    BY <2>1 DEF Openers
  <2>2. ASSUME NEW e \in Evaluators, eval'[e].pc # "open",
               \A f \in Evaluators : f # e => eval'[f] = eval[f]
        PROVE  Openers(r, s, m)' \subseteq Openers(r, s, m)
    BY <2>2 DEF Openers
  <2>3. \/ UNCHANGED eval
        \/ \E e \in Evaluators :
             eval'[e].pc # "open" /\ \A f \in Evaluators : f # e => eval'[f] = eval[f]
    <3>1. CASE UNCHANGED vars
      BY <3>1 DEF vars
    <3>2. CASE Next
      <4>1. \/ UNCHANGED eval
            \/ \E e \in Evaluators :
                 \/ LoadRules(e) \/ ReadHistory(e) \/ EvalDone(e) \/ Renotify(e)
                 \/ UpdateOpen(e) \/ ResolveOpen(e) \/ Notify(e) \/ Abort(e)
                 \/ \E t \in Sources, u \in Times : Ingest(e, t, u)
        BY <3>2 DEF Next, incidentActions, ruleActions, Tick, UserRead, UserWrite, CreateRule, UpdateRule, SetRuleEnabled,
                    DeleteRule, Edit
      <4> QED BY <4>1, NotOpening
    <3> QED BY <3>1, <3>2
  <2> QED BY <2>1, <2>2, <2>3
<1>2. ASSUME NEW i \in IncidentIds, i \in OpenIncidents(r, s, m)'
      PROVE  i \in OpenIncidents(r, s, m)
  <2>0. incident[i] \in IncidentRow /\ None \notin RuleIds
    BY AlertConstants DEF TypeOK, AlertConstants
  <2>1. /\ incident'[i].status \in {"OPEN", "ACKNOWLEDGED"}
        /\ incident'[i].rule = r /\ incident'[i].source = s /\ incident'[i].metric = m
    BY <1>2 DEF OpenIncidents
  <2>2. \/ incident'[i] = incident[i]
        \/ \E v, w : incident'[i] = [incident[i] EXCEPT !.trigger = v, !.peak = w]
        \/ incident'[i] = [incident[i] EXCEPT !.status = "RESOLVED", !.resolved = "auto"]
        \/ incident'[i] = [incident[i] EXCEPT !.notified = clock]
        \/ incident'[i] = [incident[i] EXCEPT !.status = "RESOLVED", !.resolved = "user"]
        \/ incident'[i] = [incident[i] EXCEPT !.rule = None]
    <3>1. CASE UNCHANGED incident
      BY <3>1
    <3>2. ASSUME NEW e \in Evaluators, UpdateOpen(e)
          PROVE  \/ incident'[i] = incident[i]
                 \/ \E v, w : incident'[i] = [incident[i] EXCEPT !.trigger = v, !.peak = w]
      BY <3>2 DEF UpdateOpen, TypeOK
    <3>3. ASSUME NEW e \in Evaluators, ResolveOpen(e) \/ Notify(e)
          PROVE  \/ incident'[i] = incident[i]
                 \/ incident'[i] = [incident[i] EXCEPT !.status = "RESOLVED", !.resolved = "auto"]
                 \/ incident'[i] = [incident[i] EXCEPT !.notified = clock]
      BY <3>3 DEF ResolveOpen, Notify, TypeOK
    <3>4. ASSUME NEW u \in Users, UserWrite(u)
          PROVE  \/ incident'[i] = incident[i]
                 \/ incident'[i] = [incident[i] EXCEPT !.status = "RESOLVED", !.resolved = "user"]
      <4>1. user[u].op = "resolve"
        BY <3>4 DEF UserWrite, Contexts
      <4> QED BY <3>4, <4>1 DEF UserWrite, Written, TypeOK
    <3>5. ASSUME NEW q \in RuleIds, DeleteRule(q)
          PROVE  \/ incident'[i] = incident[i]
                 \/ incident'[i] = [incident[i] EXCEPT !.rule = None]
      BY <3>5 DEF DeleteRule
    <3>6. \/ UNCHANGED incident
          \/ \E e \in Evaluators : UpdateOpen(e) \/ ResolveOpen(e) \/ Notify(e)
          \/ \E u \in Users : UserWrite(u)
          \/ \E q \in RuleIds : DeleteRule(q)
      <4>1. CASE UNCHANGED vars
        BY <4>1 DEF vars
      <4>2. CASE Next
        BY <4>2 DEF Next, incidentActions, ruleActions, Tick, Ingest, LoadRules, ReadHistory, EvalDone, Renotify,
                    Abort, UserRead, CreateRule, UpdateRule, SetRuleEnabled, Edit
      <4> QED BY <4>1, <4>2
    <3> QED
      BY <3>1, <3>2, <3>3, <3>4, <3>5, <3>6
  <2>3. /\ incident[i].status \in {"OPEN", "ACKNOWLEDGED"}
        /\ incident[i].rule = r /\ incident[i].source = s /\ incident[i].metric = m
    BY <2>0, <2>1, <2>2 DEF IncidentRow
  <2> QED BY <2>3 DEF OpenIncidents
<1> QED
  BY <1>1, <1>2 DEF OpenIncidents

\* No lock and no unique index keeps evaluations from opening duplicates, but
\* there are never more unresolved incidents of one rule, source and metric
\* than evaluations that can overlap: an evaluation opens one only after it
\* saw none, so all that do are still at work when the first of them commits.
THEOREM DuplicatesAreBounded == Spec => []DuplicatesBounded
<1>1. Init => DuplicatesBounded
  <2> SUFFICES ASSUME Init, NEW r \in RuleIds, NEW s \in Sources, NEW m \in Metrics
               PROVE  Cardinality(OpenIncidents(r, s, m)) + Cardinality(Openers(r, s, m))
                        <= Cardinality(Evaluators)
    BY DEF DuplicatesBounded
  <2>1. OpenIncidents(r, s, m) = {} /\ Openers(r, s, m) = {}
    BY DEF Init, OpenIncidents, Openers, NoIncident, Idle
  <2>2. Cardinality({}) = 0 /\ Cardinality(Evaluators) \in Nat
    BY FS_EmptySet, FS_CardinalityType, AlertConstants DEF AlertConstants
  <2> QED BY <2>1, <2>2
<1>2. TypeOK /\ Contexts /\ DuplicatesBounded /\ [Next]_vars => DuplicatesBounded'
  <2> SUFFICES ASSUME TypeOK, Contexts, DuplicatesBounded, [Next]_vars,
                      UserOps \subseteq {"resolve"},
                      NEW r \in RuleIds, NEW s \in Sources, NEW m \in Metrics
               PROVE  Cardinality(OpenIncidents(r, s, m)') + Cardinality(Openers(r, s, m)')
                        <= Cardinality(Evaluators)
    BY DEF DuplicatesBounded
  <2> DEFINE Opn == OpenIncidents(r, s, m)
             Ops == Openers(r, s, m)
  <2>0. /\ IsFiniteSet(Opn) /\ IsFiniteSet(Ops) /\ IsFiniteSet(Evaluators)
        /\ IsFiniteSet(Opn') /\ IsFiniteSet(Ops')
    <3>1. /\ Opn \subseteq 1..MaxIncidents /\ Ops \subseteq Evaluators
          /\ Opn' \subseteq 1..MaxIncidents /\ Ops' \subseteq Evaluators
      BY DEF OpenIncidents, Openers
    <3> QED BY <3>1, BasesFinite, FS_Subset
  <2>1. /\ Cardinality(Opn) \in Nat /\ Cardinality(Ops) \in Nat /\ Cardinality(Evaluators) \in Nat
        /\ Cardinality(Opn') \in Nat /\ Cardinality(Ops') \in Nat
    BY <2>0, FS_CardinalityType
  <2>2. Cardinality(Opn) + Cardinality(Ops) <= Cardinality(Evaluators)
    BY DEF DuplicatesBounded
  <2>3. CASE \A e \in Evaluators : ~OpenIncident(e) /\ ~FindOpen(e)
    <3>1. Opn' \subseteq Opn /\ Ops' \subseteq Ops
      BY <2>3, Quiet
    <3>2. Cardinality(Opn') + Cardinality(Ops') <= Cardinality(Opn) + Cardinality(Ops)
      BY <2>0, <3>1, Shrinking
    <3> QED BY <2>1, <2>2, <3>2
  <2>4. ASSUME NEW e \in Evaluators, FindOpen(e)
        PROVE  Cardinality(Opn') + Cardinality(Ops') <= Cardinality(Evaluators)
    <3>0. incident' = incident /\ Opn' = Opn
      BY <2>4 DEF FindOpen, OpenIncidents
    <3>1. eval \in [Evaluators -> EvalRow] /\ eval[e] \in EvalRow
      BY DEF TypeOK
    <3>2. CASE e \in Ops'
      <4>1. /\ eval'[e].pc = "open" /\ eval'[e].rule = r /\ eval'[e].source = s
            /\ eval'[e].series.metric = m
        BY <3>2 DEF Openers
      <4>2. Findable(eval[e].rule, eval[e].source, eval[e].series.metric) = {}
        <5>1. ASSUME NEW i, eval' = [eval EXCEPT
                        ![e].pc = IF eval[e].sustained THEN "update" ELSE "resolve",
                        ![e].open = i, ![e].peak = incident[i].peak]
              PROVE  FALSE
          <6>1. eval'[e].pc \in {"update", "resolve"}
            BY <3>1, <5>1 DEF EvalRow
          <6> QED BY <4>1, <6>1
        <5> QED BY <2>4, <5>1, Zenon DEF FindOpen
      <4>3. eval' = [eval EXCEPT ![e] = IF eval[e].sustained THEN [eval[e] EXCEPT !.pc = "open"]
                                        ELSE Forget(eval[e], "next")]
        BY <2>4, <4>2 DEF FindOpen
      <4>4. eval[e].rule = r /\ eval[e].source = s /\ eval[e].series.metric = m
        <5>1. CASE eval'[e] = [eval[e] EXCEPT !.pc = "open"]
          BY <3>1, <4>1, <5>1 DEF EvalRow
        <5>2. CASE eval'[e] = Forget(eval[e], "next")
          BY <3>1, <4>1, <5>2 DEF Forget, EvalRow
        <5> QED BY <3>1, <4>3, <5>1, <5>2
      <4>5. Opn = {}
        BY <4>2, <4>4 DEF Findable, OpenIncidents
      <4>6. Ops' \subseteq Evaluators
        BY DEF Openers
      <4>7. Cardinality(Opn') = 0 /\ Cardinality(Ops') <= Cardinality(Evaluators)
        BY <2>0, <3>0, <4>5, <4>6, FS_EmptySet, FS_Subset
      <4> QED BY <2>1, <4>7
    <3>3. CASE e \notin Ops'
      <4>1. \A f \in Evaluators : f # e => eval'[f] = eval[f]
        BY <2>4, <3>1 DEF FindOpen
      <4>2. Ops' \subseteq Ops
        BY <3>3, <4>1 DEF Openers
      <4>3. Cardinality(Opn') + Cardinality(Ops') <= Cardinality(Opn) + Cardinality(Ops)
        BY <2>0, <3>0, <4>2, Shrinking
      <4> QED BY <2>1, <2>2, <4>3
    <3> QED BY <3>2, <3>3
  <2>5. ASSUME NEW e \in Evaluators, OpenIncident(e)
        PROVE  Cardinality(Opn') + Cardinality(Ops') <= Cardinality(Evaluators)
    <3>1. eval'[e].pc # "open" /\ \A f \in Evaluators : f # e => eval'[f] = eval[f]
      BY <2>5, NotOpening
    <3>2. Ops' \subseteq Ops \ {e}
      BY <3>1 DEF Openers
    <3>3. CASE e \in Ops
      <4>1. Opn' \subseteq Opn \cup {nextIncident}
        BY <2>5 DEF OpenIncident, OpenIncidents, TypeOK
      <4>2. IsFiniteSet(Opn \cup {nextIncident})
            /\ Cardinality(Opn \cup {nextIncident}) <= Cardinality(Opn) + 1
        BY <2>0, OneMore
      <4>3. IsFiniteSet(Ops \ {e}) /\ Cardinality(Ops \ {e}) = Cardinality(Ops) - 1
        BY <2>0, <3>3, FS_RemoveElement
      <4>4. Cardinality(Opn') + Cardinality(Ops')
              <= Cardinality(Opn \cup {nextIncident}) + Cardinality(Ops \ {e})
        BY <3>2, <4>1, <4>2, <4>3, Shrinking
      <4>5. Cardinality(Opn \cup {nextIncident}) \in Nat /\ Cardinality(Ops \ {e}) \in Nat
        BY <4>2, <4>3, FS_CardinalityType
      <4> QED BY <2>1, <2>2, <4>2, <4>3, <4>4, <4>5
    <3>4. CASE e \notin Ops
      <4>1. eval[e].rule # r \/ eval[e].source # s \/ eval[e].series.metric # m
        BY <2>5, <3>4 DEF Openers, OpenIncident
      <4>2. Opn' \subseteq Opn
        <5>1. SUFFICES ASSUME NEW i \in IncidentIds, i \in Opn', i \notin Opn PROVE FALSE
          BY DEF OpenIncidents
        <5>2. incident'[i] # incident[i]
          BY <5>1 DEF OpenIncidents
        <5>3. i = nextIncident /\ incident' = [incident EXCEPT ![nextIncident] =
                [NoIncident EXCEPT !.status = "OPEN", !.rule = eval[e].rule,
                    !.source = eval[e].source, !.metric = eval[e].series.metric,
                    !.trigger = PointValue(e), !.peak = PointValue(e)]]
          BY <2>5, <5>2 DEF OpenIncident, TypeOK
        <5>4. /\ incident'[i].rule = eval[e].rule /\ incident'[i].source = eval[e].source
              /\ incident'[i].metric = eval[e].series.metric
          BY <5>3 DEF TypeOK, NoIncident
        <5> QED BY <4>1, <5>1, <5>4 DEF OpenIncidents
      <4>3. Ops' \subseteq Ops
        BY <3>2
      <4>4. Cardinality(Opn') + Cardinality(Ops') <= Cardinality(Opn) + Cardinality(Ops)
        BY <2>0, <4>2, <4>3, Shrinking
      <4> QED BY <2>1, <2>2, <4>4
    <3> QED BY <3>3, <3>4
  <2> QED
    BY <2>3, <2>4, <2>5
<1> QED
  BY <1>1, <1>2, Typing, PTL DEF Spec
=============================================================================

--------------------------------- MODULE Rca ---------------------------------
(***************************************************************************)
(* Root-cause analysis of incidents (src/modules/aiops/rca.ts) on the      *)
(* dependency map, and the narratives that background workers ask Claude   *)
(* for (src/modules/aiops/rca-llm.ts, started by scripts/worker.ts), with  *)
(* Claude enabled.                                                         *)
(*                                                                         *)
(* An analysis runs in the request that opened an incident, or in a        *)
(* member's re-analysis; it reads its context in one step and writes the   *)
(* findings in another, one incident after the other.  Analyses run beside *)
(* each other and beside the workers.  Requests are numbered in the order  *)
(* they begin: that number is the time a request stamps incidents and      *)
(* findings with, so no two begin in the same millisecond.  The time of a  *)
(* narrative request is kept relative to now, and Tick brings it closer.   *)
(* The cap on calls per hour only delays claims, and is left out with the  *)
(* texts, the recorded error, the confidence and the events.               *)
(***************************************************************************)
EXTENDS Topology, Integers

CONSTANTS
    Incidents,     \* ids of incidents; one is used once
    sourceOf,      \* the monitored entity each is about
    Window,        \* CORRELATION_WINDOW_MS
    MAX_REFRESH,
    Analyses,      \* requests that may be analysing at the same time
    Workers,
    Scenarios,     \* what there is and may happen: each a map, the incidents, what
                   \* runs, and bounds on requests, faults, edits of the map and of
                   \* the status of incidents
    MAX_ATTEMPTS, SettleTicks, LeaseTicks

ASSUME RcaAssumption ==
    /\ Incidents # {} /\ IsFiniteSet(Incidents)
    /\ sourceOf \in [Incidents -> Sources]
    /\ \A s \in Scenarios : s \in
          [map : DrawnMaps, incidents : SUBSET Incidents, workers : SUBSET Workers,
           analyses : SUBSET Analyses, requests : Nat, edits : Nat, faults : Nat]
    /\ {Window, MAX_REFRESH, SettleTicks} \subseteq Nat
    /\ {MAX_ATTEMPTS, LeaseTicks} \subseteq Nat \ {0}

VARIABLES
    scenario,   \* one of Scenarios
    incident,   \* incidents rows
    analysis,   \* the analyses in progress
    worker,     \* the workers' claimed requests, and the one being served
    requests,   \* requests begun
    history,    \* what happened, for the properties
    edits, faults

rca == <<incident, analysis, worker, requests, history, edits, faults, scenario>>
vars == <<topology, rca>>

MaxRequests == scenario.requests
None == -1                          \* rcaLlmRequestedAt IS NULL
Findings ==
    [verdict : {"symptom", "root_cause", "isolated", "not_mapped"},
     rootCauses : SUBSET (NodeIds \X SUBSET Incidents), impacted : SUBSET (NodeIds \X SUBSET Incidents),
     blastRadius : SUBSET NodeIds, sameSource : SUBSET Incidents, correlated : SUBSET Incidents,
     firstToStart : BOOLEAN]
NoFindings == [verdict |-> "none"]   \* rcaFindings IS NULL
Wait == None..(SettleTicks + LeaseTicks + 2 * MAX_ATTEMPTS)
Row == [status : {"none", "OPEN", "RESOLVED"}, startedAt : 0..MaxRequests,
        rcaFindings : Findings \cup {NoFindings}, rcaGeneratedAt : 0..MaxRequests,
        wait : Wait, rcaLlmAttempts : 0..MAX_ATTEMPTS,
        rcaSummary : Findings \cup {NoFindings}]   \* the findings it was written about
Analysis == [stage : {"idle", "batch", "read", "write", "neighbours"}, id : Incidents,
             findings : Findings \cup {NoFindings}, force : BOOLEAN, first : BOOLEAN,
             now : 0..MaxRequests, todo : SUBSET Incidents, wrote : SUBSET Incidents]
Claim == [id : Incidents, rcaGeneratedAt : 0..MaxRequests, rcaLlmAttempts : 0..MAX_ATTEMPTS]

TypeOK ==
    /\ TopologyTypeOK
    /\ scenario \in Scenarios
    /\ incident \in [Incidents -> Row]
    /\ analysis \in [Analyses -> Analysis]
    /\ worker \in [Workers -> [serves : BOOLEAN, leased : SUBSET Incidents,
          claimed : SUBSET Claim, serving : SUBSET Claim, asked : Findings \cup {NoFindings}]]
    /\ requests \in 0..MaxRequests
    /\ history \in [disturbed : BOOLEAN, lost : SUBSET Incidents, late : SUBSET Incidents,
                    restamped : SUBSET Incidents, unrecorded : SUBSET Incidents]
    /\ edits \in 0..scenario.edits /\ faults \in 0..scenario.faults

Idle == [stage |-> "idle", id |-> CHOOSE i \in Incidents : TRUE, findings |-> NoFindings,
         force |-> FALSE, first |-> FALSE, now |-> 0, todo |-> {}, wrote |-> {}]
AtRest == [serves |-> FALSE, leased |-> {}, claimed |-> {}, serving |-> {}, asked |-> NoFindings]

Init ==
    /\ scenario \in Scenarios /\ Draw(scenario.map)
    /\ incident = [i \in Incidents |->
          [status |-> "none", startedAt |-> 0, rcaFindings |-> NoFindings, rcaGeneratedAt |-> 0,
           wait |-> None, rcaLlmAttempts |-> 0, rcaSummary |-> NoFindings]]
    /\ analysis = [p \in Analyses |-> Idle]
    /\ worker = [w \in Workers |-> AtRest]
    /\ requests = 0 /\ edits = 0 /\ faults = 0
    /\ history = [disturbed |-> FALSE, lost |-> {}, late |-> {}, restamped |-> {},
                  unrecorded |-> {}]

-----------------------------------------------------------------------------
(* The analysis *)

Exists(i) == incident[i].status # "none"
Active(i) == incident[i].status = "OPEN"

inWindow(i, o) == incident[o].startedAt - incident[i].startedAt \in -Window..Window

\* loadContext: other incidents still active, or that began around this one.
Peers(i) == {o \in Incidents \ {i} : Exists(o) /\ (Active(o) \/ inWindow(i, o))}

NodesOf(S) == {n \in NodeIds : \E i \in S : node[n] = sourceOf[i]}

analyzeIncident(i) ==
    LET peers == Peers(i)
        self == NodesOf({i})
        unhealthy == NodesOf(peers) \cup self
        radius == UNION {blastRadius(edges, n) : n \in self}
        failingUpstream == (UNION {dependenciesOf(edges, n) : n \in self}) \cap unhealthy
        roots == rootCauseCandidates(edges, unhealthy) \cap failingUpstream
        failingDependents == radius \cap unhealthy
        sameSource == {o \in peers : sourceOf[o] = sourceOf[i]}
        linked == sameSource \cup
            {o \in peers : NodesOf({o}) \cap (failingUpstream \cup failingDependents) # {}}
        Listed(S) == {<<n, {o \in peers : node[n] = sourceOf[o]}>> : n \in S}
    IN  [verdict |-> CASE self = {} -> "not_mapped"
                       [] failingUpstream # {} -> "symptom"
                       [] failingDependents # {} -> "root_cause"
                       [] OTHER -> "isolated",
         rootCauses |-> Listed(IF roots # {} THEN roots ELSE failingUpstream),
         impacted |-> Listed(failingDependents),
         blastRadius |-> radius,
         sameSource |-> sameSource,
         correlated |-> {o \in peers : inWindow(i, o) /\ o \notin linked},
         firstToStart |-> \A o \in peers : inWindow(i, o) =>
                             incident[o].startedAt >= incident[i].startedAt]

\* Of the blast radius only the size makes findings new.
signature(findings) ==
    IF findings = NoFindings THEN <<>>
    ELSE <<[findings EXCEPT !.blastRadius = {}], Cardinality(findings.blastRadius)>>

Running == {p \in Analyses : analysis[p].stage # "idle"}

\* A request begins; beside another it may overwrite what it did not see.
Begin(p, request) ==
    /\ p \in scenario.analyses /\ analysis[p] = Idle /\ requests < MaxRequests
    /\ requests' = requests + 1
    /\ analysis' = [analysis EXCEPT ![p] = [request EXCEPT !.now = requests + 1]]
    /\ history' = [history EXCEPT !.disturbed = @ \/ Running # {}]

\* A batch that can open none is of no interest.
MayOpen == {i \in scenario.incidents : ~ Exists(i)}

\* A batch of metrics is evaluated (evaluateIngestedMetrics).
Evaluate(p) ==
    /\ MayOpen # {} /\ Begin(p, [Idle EXCEPT !.stage = "batch"])
    /\ UNCHANGED <<topology, incident, worker, edits, faults, scenario>>

\* It opens an incident, and goes on to analyse it.
Open(p, i) ==
    /\ analysis[p].stage = "batch" /\ i \in MayOpen
    /\ incident' = [incident EXCEPT ![i].status = "OPEN", ![i].startedAt = analysis[p].now]
    /\ analysis' = [analysis EXCEPT ![p].stage = "read", ![p].id = i, ![p].first = TRUE]
    /\ UNCHANGED <<topology, worker, requests, history, edits, faults, scenario>>

reanalyzeIncident(p, i) ==
    /\ Exists(i) /\ Begin(p, [Idle EXCEPT !.stage = "read", !.id = i, !.force = TRUE])
    /\ UNCHANGED <<topology, incident, worker, edits, faults, scenario>>

Edit == edits < scenario.edits /\ edits' = edits + 1

\* An incident is resolved, by a member or by the alert engine, or reopened.
SetStatus(i, status) ==
    /\ Edit /\ Exists(i) /\ incident[i].status # status
    /\ incident' = [incident EXCEPT ![i].status = status]
    /\ history' = [history EXCEPT !.disturbed = TRUE]
    /\ UNCHANGED <<topology, analysis, worker, requests, faults, scenario>>

ChangeMap ==
    /\ Edit /\ EditMap
    /\ history' = [history EXCEPT !.disturbed = TRUE]
    /\ UNCHANGED <<incident, analysis, worker, requests, faults, scenario>>

Neighbours_None(p) == {{}}

\* The other active incidents, the most recent MAX_REFRESH of them.
Neighbours(p) ==
    LET others == {o \in Incidents \ {analysis[p].id} : Active(o)}
    IN  {S \in SUBSET others :
            /\ Cardinality(S) = IF Cardinality(others) < MAX_REFRESH THEN Cardinality(others)
                                                                   ELSE MAX_REFRESH
            /\ \A i \in S, o \in others \ S : incident[i].startedAt >= incident[o].startedAt}

\* A re-analysis ends; a batch may open other incidents.
Ends(a) ==
    {Idle} \cup (IF a.force \/ MayOpen = {} THEN {}
                 ELSE {[Idle EXCEPT !.stage = "batch", !.now = a.now, !.wrote = a.wrote]})

\* How an analysis goes on: to the neighbours, with the next incident, or not.
Continue(a) ==
    IF a.first THEN {[a EXCEPT !.stage = "neighbours", !.first = FALSE, !.findings = NoFindings]}
    ELSE IF a.todo = {} THEN Ends(a)
    ELSE {[a EXCEPT !.stage = "read", !.id = i, !.todo = @ \ {i}, !.findings = NoFindings] :
             i \in a.todo}

\* analyzeAfterOpen lists the neighbours once its own incident is analysed.
analyzeAfterOpen(p) ==
    /\ analysis[p].stage = "neighbours"
    /\ \E S \in Neighbours(p) : \E a \in Continue([analysis[p] EXCEPT !.todo = S]) :
          analysis' = [analysis EXCEPT ![p] = a]
    /\ UNCHANGED <<topology, incident, worker, requests, history, edits, faults, scenario>>

\* refreshIncidentRca up to its write, which only findings that changed lead to.
ReadContext(p) ==
    LET a == analysis[p]
        findings == analyzeIncident(a.id)
    IN  /\ a.stage = "read"
        /\ IF ~ a.force /\ signature(incident[a.id].rcaFindings) = signature(findings)
           THEN \E next \in Continue(a) : analysis' = [analysis EXCEPT ![p] = next]
           ELSE analysis' = [analysis EXCEPT ![p].stage = "write", ![p].findings = findings]
        /\ UNCHANGED <<topology, incident, worker, requests, history, edits, faults, scenario>>

refreshed_KeepsSummary(row, a) ==
    [row EXCEPT !.rcaFindings = a.findings, !.rcaGeneratedAt = a.now,
                !.wait = SettleTicks, !.rcaLlmAttempts = 0]

\* A narrative written for the previous findings no longer matches them.
refreshed(row, a) ==
    [row EXCEPT !.rcaFindings = a.findings, !.rcaGeneratedAt = a.now, !.rcaSummary = NoFindings,
                !.wait = SettleTicks, !.rcaLlmAttempts = 0]

refreshIncidentRca(p) ==
    LET a == analysis[p] IN
    /\ a.stage = "write"
    /\ incident' = [incident EXCEPT ![a.id] = refreshed(@, a)]
    /\ \E next \in Continue([a EXCEPT !.wrote = @ \cup {a.id}]) :
          analysis' = [analysis EXCEPT ![p] = next]
    /\ history' = LET again == a.id \in a.wrote
                      leased == \E w \in Workers : a.id \in worker[w].leased
                  IN  [history EXCEPT
          !.lost = @ \ {a.id}, !.unrecorded = @ \ {a.id},
          !.restamped = IF again THEN @ \cup {a.id} ELSE @ \ {a.id},
          !.late = IF again \/ leased THEN @ \cup {a.id} ELSE @ \ {a.id}]
    /\ UNCHANGED <<topology, worker, requests, edits, faults, scenario>>

Fault == faults < scenario.faults /\ faults' = faults + 1

\* "root-cause analysis failed": the rest of it is not done.
AnalysisFails(p) ==
    /\ Fault /\ analysis[p].stage \notin {"idle", "batch"}
    /\ \E next \in Ends(analysis[p]) : analysis' = [analysis EXCEPT ![p] = next]
    /\ history' = [history EXCEPT !.disturbed = TRUE]
    /\ UNCHANGED <<topology, incident, worker, requests, edits, scenario>>

-----------------------------------------------------------------------------
(* The narratives *)

Holds(w) == worker[w].leased \cup {c.id : c \in worker[w].claimed \cup worker[w].serving}

Tick ==
    /\ incident' = [i \in Incidents |->
          [incident[i] EXCEPT !.wait = IF @ > 0 THEN @ - 1 ELSE @]]
    /\ history' = [history EXCEPT !.late =
          @ \cup {i \in UNION {Holds(w) : w \in Workers} : incident[i].wait = 1}]
    /\ UNCHANGED <<topology, analysis, worker, requests, edits, faults, scenario>>

Due_Leased(i) == incident[i].wait # None /\ incident[i].rcaLlmAttempts < MAX_ATTEMPTS

\* Requested, settled, not leased, and attempts left.
Due(i) == incident[i].wait = 0 /\ incident[i].rcaLlmAttempts < MAX_ATTEMPTS

\* The compare-and-set of a claim counts the attempt.
claimNarrativeRequests(w, i) ==
    /\ w \in scenario.workers /\ ~ worker[w].serves /\ worker[w].leased = {} /\ Due(i)
    /\ incident' = [incident EXCEPT ![i].wait = LeaseTicks + SettleTicks,
                                    ![i].rcaLlmAttempts = @ + 1]
    /\ worker' = [worker EXCEPT ![w].leased = {i}]
    /\ UNCHANGED <<topology, analysis, requests, history, edits, faults, scenario>>

\* The row is read again, in a statement of its own, once the lease is won.
ReadClaimed(w) ==
    /\ \E i \in worker[w].leased :
          worker' = [worker EXCEPT ![w].leased = {}, ![w].claimed = @ \cup
             {[id |-> i, rcaGeneratedAt |-> incident[i].rcaGeneratedAt,
               rcaLlmAttempts |-> incident[i].rcaLlmAttempts]}]
    /\ UNCHANGED <<topology, incident, analysis, requests, history, edits, faults, scenario>>

\* The claimed requests are served one after the other; buildNarrativeInput reads
\* the findings as they are by then.
Serve(w) ==
    /\ worker[w].leased = {} /\ worker[w].serving = {}
    /\ \E c \in worker[w].claimed :
          worker' = [worker EXCEPT ![w].serves = TRUE, ![w].claimed = @ \ {c},
                        ![w].serving = {c}, ![w].asked = incident[c.id].rcaFindings]
    /\ UNCHANGED <<topology, incident, analysis, requests, history, edits, faults, scenario>>

unchanged_Ignored(c) == TRUE

\* The findings did not change in the meantime.
unchanged(c) == incident[c.id].rcaGeneratedAt = c.rcaGeneratedAt

backOff_OnceMore(c) == IF c.rcaLlmAttempts > MAX_ATTEMPTS THEN None ELSE c.rcaLlmAttempts

\* When a request that failed is due again.
backOff(c) == IF c.rcaLlmAttempts >= MAX_ATTEMPTS THEN None ELSE c.rcaLlmAttempts

\* What each outcome writes.  The event that records a stored narrative is
\* inserted after it: when that fails, the narrative is asked for once more.
Outcome(row, c, asked, outcome) ==
    CASE outcome = "stored" -> [row EXCEPT !.rcaSummary = asked, !.wait = None]
      [] outcome = "unrecorded" -> [row EXCEPT !.rcaSummary = asked, !.wait = backOff(c)]
      [] outcome = "refused" -> [row EXCEPT !.wait = None]
      [] outcome = "failed" -> [row EXCEPT !.wait = backOff(c)]

Served(w) == [worker EXCEPT ![w] =
    [@ EXCEPT !.serving = {}, !.asked = NoFindings, !.serves = worker[w].claimed # {}]]

serveNarrative(w, outcome) ==
    \E c \in worker[w].serving :
        /\ worker' = Served(w)
        /\ incident' = IF unchanged(c)
                       THEN [incident EXCEPT ![c.id] = Outcome(@, c, worker[w].asked, outcome)]
                       ELSE incident
        /\ IF outcome = "unrecorded"
           THEN /\ Fault /\ unchanged(c)
                /\ history' = [history EXCEPT !.unrecorded = @ \cup {c.id}]
           ELSE UNCHANGED <<faults, history>>
        /\ UNCHANGED <<topology, analysis, requests, edits, scenario>>

\* A crash, or a failed statement in the loop: what was claimed is not served.
Interrupt(w) ==
    /\ Fault /\ Holds(w) # {}
    /\ worker' = [worker EXCEPT ![w] = AtRest]
    /\ history' = [history EXCEPT !.lost = @ \cup Holds(w)]
    /\ UNCHANGED <<topology, incident, analysis, requests, edits, scenario>>

\* SIGTERM: the request being served is finished, the others are not begun.
Abort(w) ==
    /\ Fault /\ worker[w].serving # {} /\ worker[w].claimed # {}
    /\ worker' = [worker EXCEPT ![w].claimed = {}]
    /\ history' = [history EXCEPT !.lost = @ \cup {c.id : c \in worker[w].claimed}]
    /\ UNCHANGED <<topology, incident, analysis, requests, edits, scenario>>

-----------------------------------------------------------------------------
Analyse(p) == analyzeAfterOpen(p) \/ ReadContext(p) \/ refreshIncidentRca(p)

Work(w) ==
    \/ \E i \in Incidents : claimNarrativeRequests(w, i)
    \/ ReadClaimed(w) \/ Serve(w)
    \/ \E outcome \in {"stored", "unrecorded", "refused", "failed"} : serveNarrative(w, outcome)

Next ==
    \/ Tick \/ ChangeMap
    \/ \E i \in Incidents, status \in {"OPEN", "RESOLVED"} : SetStatus(i, status)
    \/ \E p \in Analyses :
          \/ Analyse(p) \/ AnalysisFails(p)
          \/ Evaluate(p)
          \/ \E i \in Incidents : Open(p, i) \/ reanalyzeIncident(p, i)
    \/ \E w \in Workers : Work(w) \/ Interrupt(w) \/ Abort(w)

Spec == Init /\ [][Next]_vars

FairSpec ==
    /\ Spec /\ WF_vars(Tick)
    /\ \A w \in Workers : WF_vars(Work(w))

-----------------------------------------------------------------------------
(* Properties *)

\* A narrative stored beside findings was written about those findings, however
\* many analyses and workers were at work in between (serveNarrative); unless one
\* request wrote both the old and the new findings, with the same rcaGeneratedAt.
NarrativeMatchesFindings ==
    \A i \in Incidents :
        \/ incident[i].rcaSummary \in {NoFindings, incident[i].rcaFindings}
        \/ i \in history.restamped

\* The requests for the present findings of i that worker w has in hand.
InHand(w, i) ==
    {c \in worker[w].claimed \cup worker[w].serving :
        c.id = i /\ c.rcaGeneratedAt = incident[i].rcaGeneratedAt}

\* No two workers have a request for the same findings in hand, and none has once
\* their narrative is stored; unless a lease ran out, or an analysis put the request
\* back between the two statements of a claim (claimNarrativeRequests).  A stored
\* narrative is asked for again, still by one worker at a time, when the event that
\* records it could not be inserted (the catch of serveNarrative).
ServedOnce ==
    \A i \in Incidents \ history.late :
        /\ \A v, w \in Workers : \A c \in InHand(v, i), d \in InHand(w, i) : v = w /\ c = d
        /\ incident[i].rcaSummary # NoFindings /\ i \notin history.unrecorded =>
              \A w \in Workers : InHand(w, i) = {}

\* Once no analysis is running, every active incident has the findings that an
\* analysis would give now, those that opened before included (analyzeAfterOpen);
\* unless analyses overlapped or failed, the map was edited or an incident
\* resolved: nothing analyses again after that.
FindingsCurrent ==
    ~ history.disturbed /\ Running = {}
        /\ Cardinality({i \in Incidents : Active(i)}) <= MAX_REFRESH + 1
    => \A i \in Incidents : Active(i) =>
          signature(incident[i].rcaFindings) = signature(analyzeIncident(i))

\* On any map, cycles included: the blast radius of a node is what depends on it,
\* its dependencies what it depends on, the nodes shown as impacted are the healthy
\* ones that depend on an unhealthy one, and arrows point down in the layout except
\* those that close a cycle.  On any map without cycles every unhealthy node is a
\* root-cause candidate or depends on one, although only direct dependencies are
\* looked at (reach, impactedNodes, layeredLayout, rootCauseCandidates).  This is
\* about the map alone: the state before any request is enough.
MapAnalysesCorrect ==
    requests = 0 =>
        /\ WalksComplete(edges) /\ PointsDown(edges)
        /\ Acyclic(edges) => Explained(edges)

\* Where a worker runs, a requested narrative does not stay pending: it is stored,
\* refused or given up after MAX_ATTEMPTS; unless a worker was interrupted with it,
\* or still had it when its lease ran out: a late failure puts the request back
\* when the attempts may already be used up.
RequestsSettle ==
    \A i \in Incidents :
        []<>(incident[i].wait = None \/ i \in history.lost \cup history.late \/ scenario.workers = {})
=============================================================================

------------------------------ MODULE RcaProofs ------------------------------
(***************************************************************************)
(* For any map, incidents, analyses and workers: the state is well typed,  *)
(* a stored narrative is about the findings beside it, a request is in the *)
(* hands of one worker and of none once its narrative is stored,           *)
(* findings are up to date once no analysis runs, and what is read off the *)
(* dependency map is exact.                                                *)
(*                                                                         *)
(* The worker compares stamps, not findings, so the strengthening is about *)
(* stamps: no request has stamped an incident it did not write, and where  *)
(* the stamp a worker holds is still that of the row, the findings it      *)
(* asked about are those of the row (RcaInv).                              *)
(***************************************************************************)
EXTENDS Rca, FiniteSetTheorems, TLAPS

Claims(w) == worker[w].claimed \cup worker[w].serving
WorkerState == [serves : BOOLEAN, leased : SUBSET Incidents, claimed : SUBSET Claim,
                serving : SUBSET Claim, asked : Findings \cup {NoFindings}]
HistoryType == [disturbed : BOOLEAN, lost : SUBSET Incidents, late : SUBSET Incidents,
                restamped : SUBSET Incidents, unrecorded : SUBSET Incidents]

\* Requests in progress have times of their own, and no stamp is from the future.
StampsInOrder ==
    /\ \A p \in Running : analysis[p].now <= requests
    /\ \A p, q \in Running : analysis[p].now = analysis[q].now => p = q
    /\ \A i \in Incidents : incident[i].rcaGeneratedAt <= requests
    /\ \A w \in Workers : \A c \in Claims(w) : c.rcaGeneratedAt <= requests

\* What a request in progress has not written does not carry its time.
StampsFresh ==
    \A p \in Running : \A i \in Incidents \ analysis[p].wrote :
        /\ incident[i].rcaGeneratedAt # analysis[p].now
        /\ \A w \in Workers : \A c \in Claims(w) :
              c.id = i => c.rcaGeneratedAt # analysis[p].now

Matched(i) ==
    \/ incident[i].rcaSummary \in {NoFindings, incident[i].rcaFindings}
    \/ i \in history.restamped

\* A worker that may still store a narrative asked about the findings of the row.
Asked(w) ==
    \A c \in worker[w].serving :
        \/ ~ unchanged(c)
        \/ worker[w].asked = incident[c.id].rcaFindings
        \/ c.id \in history.restamped

\* A request that may still be claimed, or is held, has no narrative yet, or one
\* that was not recorded; it is held once, and while it is held its lease is not
\* over.
Unstored(i) == incident[i].rcaSummary = NoFindings \/ i \in history.unrecorded
Leases(w, i) == i \in worker[w].leased
Current(c, i) == c.id = i /\ unchanged(c)
HeldOnce(i) ==
    /\ incident[i].wait # None => Unstored(i)
    /\ \A w \in Workers :
          Leases(w, i) \/ (\E c \in Claims(w) : Current(c, i)) =>
              incident[i].wait > 0 /\ Unstored(i)
    /\ \A v, w \in Workers :
          /\ Leases(v, i) /\ Leases(w, i) => v = w
          /\ Leases(v, i) => \A c \in Claims(w) : ~ Current(c, i)
          /\ \A c \in Claims(v), d \in Claims(w) :
                Current(c, i) /\ Current(d, i) => v = w /\ c = d
    /\ \A w \in Workers :
          \A c \in worker[w].claimed, d \in worker[w].serving :
             ~ (Current(c, i) /\ Current(d, i))

\* What the narratives rest on.
Narratives ==
    /\ \A i \in Incidents : Matched(i) /\ (i \in history.late \/ HeldOnce(i))
    /\ \A w \in Workers : Asked(w)

RcaInv == TypeOK /\ StampsInOrder /\ StampsFresh /\ Narratives
-----------------------------------------------------------------------------
(* Types *)

LEMMA Counts ==
    ASSUME scenario \in Scenarios
    PROVE  /\ scenario.requests \in Nat /\ scenario.edits \in Nat /\ scenario.faults \in Nat
           /\ MaxRequests \in Nat /\ MAX_ATTEMPTS \in Nat /\ MAX_ATTEMPTS > 0
           /\ SettleTicks \in Nat /\ LeaseTicks \in Nat /\ LeaseTicks > 0
<1>1. scenario.requests \in Nat /\ scenario.edits \in Nat /\ scenario.faults \in Nat
  BY RcaAssumption
<1> QED
  BY <1>1, RcaAssumption DEF MaxRequests

\* The types change with the scenario alone, which never changes.
LEMMA SameTypes ==
    ASSUME UNCHANGED scenario
    PROVE  /\ Row' = Row /\ Analysis' = Analysis /\ Claim' = Claim
           /\ WorkerState' = WorkerState /\ MaxRequests' = MaxRequests
<1>1. MaxRequests' = MaxRequests
  BY DEF MaxRequests
<1>2. Claim' = Claim
  BY <1>1 DEF Claim
<1> QED
  BY <1>1, <1>2 DEF Row, Analysis, WorkerState

LEMMA Types ==
    TypeOK => /\ TopologyTypeOK /\ scenario \in Scenarios /\ incident \in [Incidents -> Row]
              /\ analysis \in [Analyses -> Analysis] /\ worker \in [Workers -> WorkerState]
              /\ requests \in 0..MaxRequests /\ history \in HistoryType
              /\ edits \in 0..scenario.edits /\ faults \in 0..scenario.faults
BY DEF TypeOK, WorkerState, HistoryType

LEMMA TypesStay ==
    ASSUME TypeOK, UNCHANGED scenario, TopologyTypeOK', incident' \in [Incidents -> Row],
           analysis' \in [Analyses -> Analysis], worker' \in [Workers -> WorkerState],
           requests' \in 0..MaxRequests, history' \in HistoryType,
           edits' \in 0..scenario.edits, faults' \in 0..scenario.faults
    PROVE  TypeOK'
<1>1. scenario' \in Scenarios
  BY DEF TypeOK
<1>2. incident' \in [Incidents -> Row'] /\ analysis' \in [Analyses -> Analysis']
      /\ worker' \in [Workers -> WorkerState'] /\ requests' \in 0..MaxRequests'
  BY SameTypes
<1> QED
  BY <1>1, <1>2 DEF TypeOK, WorkerState, HistoryType

LEMMA TopologyStays == TopologyTypeOK /\ UNCHANGED topology => TopologyTypeOK'
BY DEF TopologyTypeOK, topology, Present

LEMMA IdleTyped ==
    ASSUME TypeOK
    PROVE  Idle \in Analysis /\ Idle.stage = "idle"
<1>1. (CHOOSE i \in Incidents : TRUE) \in Incidents
  BY RcaAssumption
<1>2. 0 \in 0..MaxRequests
  BY Types, Counts
<1> QED
  BY <1>1, <1>2 DEF Idle, Analysis

LEMMA FindingsTyped ==
    ASSUME TypeOK, NEW i \in Incidents
    PROVE  analyzeIncident(i) \in Findings
<1> DEFINE
      peers == Peers(i)
      self == NodesOf({i})
      unhealthy == NodesOf(peers) \cup self
      radius == UNION {blastRadius(edges, n) : n \in self}
      upstream == UNION {dependenciesOf(edges, n) : n \in self}
      failingUpstream == upstream \cap unhealthy
      roots == rootCauseCandidates(edges, unhealthy) \cap failingUpstream
      failingDependents == radius \cap unhealthy
      sameSource == {o \in peers : sourceOf[o] = sourceOf[i]}
      linked == sameSource \cup
            {o \in peers : NodesOf({o}) \cap (failingUpstream \cup failingDependents) # {}}
      Listed(S) == {<<n, {o \in peers : node[n] = sourceOf[o]}>> : n \in S}
      verdict == CASE self = {} -> "not_mapped" [] failingUpstream # {} -> "symptom"
                   [] failingDependents # {} -> "root_cause" [] OTHER -> "isolated"
      correlated == {o \in peers : inWindow(i, o) /\ o \notin linked}
      first == \A o \in peers : inWindow(i, o) => incident[o].startedAt >= incident[i].startedAt
<1>1. analyzeIncident(i) =
         [verdict |-> verdict,
          rootCauses |-> Listed(IF roots # {} THEN roots ELSE failingUpstream),
          impacted |-> Listed(failingDependents), blastRadius |-> radius,
          sameSource |-> sameSource, correlated |-> correlated, firstToStart |-> first]
  BY DEF analyzeIncident
<1>2. peers \subseteq Incidents /\ self \subseteq NodeIds /\ unhealthy \subseteq NodeIds
  BY DEF Peers, NodesOf
<1>3. radius \subseteq NodeIds
  BY DEF blastRadius, reach
<1> HIDE DEF peers, self, unhealthy, radius, upstream
<1>4. failingUpstream \subseteq NodeIds /\ failingDependents \subseteq NodeIds
  BY <1>2
<1> HIDE DEF failingUpstream, failingDependents
<1>5. roots \subseteq NodeIds
  BY <1>4
<1> HIDE DEF roots
<1>6. ASSUME NEW S \in SUBSET NodeIds
      PROVE  Listed(S) \subseteq NodeIds \X SUBSET Incidents
  BY <1>2, <1>6
<1>7. /\ sameSource \subseteq Incidents /\ correlated \subseteq Incidents
  BY <1>2
<1>8. verdict \in {"symptom", "root_cause", "isolated", "not_mapped"}
  OBVIOUS
<1>9. PICK b \in BOOLEAN : b <=> first
  <2>1. CASE first
    <3> WITNESS TRUE \in BOOLEAN
    <3> QED BY <2>1
  <2>2. CASE ~ first
    <3> WITNESS FALSE \in BOOLEAN
    <3> QED BY <2>2
  <2> QED BY <2>1, <2>2
<1>10. b = first
  BY <1>9
<1>11. PICK x \in SUBSET NodeIds : x = IF roots # {} THEN roots ELSE failingUpstream
  BY <1>4, <1>5
<1>12. PICK y, z : y = Listed(x) /\ z = Listed(failingDependents)
  OBVIOUS
<1>13. y \in SUBSET (NodeIds \X SUBSET Incidents) /\ z \in SUBSET (NodeIds \X SUBSET Incidents)
  BY <1>4, <1>6, <1>12
<1>14. analyzeIncident(i) =
         [verdict |-> verdict, rootCauses |-> y, impacted |-> z, blastRadius |-> radius,
          sameSource |-> sameSource, correlated |-> correlated, firstToStart |-> b]
  BY <1>10, <1>11, <1>12, <1>1
<1> HIDE DEF verdict, sameSource, correlated
<1> QED
  BY <1>3, <1>7, <1>8, <1>13, <1>14 DEF Findings

LEMMA EndsTyped ==
    ASSUME TypeOK, NEW a \in Analysis, NEW b \in Ends(a)
    PROVE  b \in Analysis /\ (b.stage = "idle" \/ (b.now = a.now /\ b.wrote = a.wrote))
<1>1. CASE b = Idle
  BY <1>1, IdleTyped
<1>2. CASE b = [Idle EXCEPT !.stage = "batch", !.now = a.now, !.wrote = a.wrote]
  BY <1>2, IdleTyped DEF Analysis
<1> QED
  BY <1>1, <1>2 DEF Ends

LEMMA ContinueTyped ==
    ASSUME TypeOK, NEW a \in Analysis, NEW b \in Continue(a)
    PROVE  b \in Analysis /\ (b.stage = "idle" \/ (b.now = a.now /\ b.wrote = a.wrote))
<1>1. CASE a.first
  BY <1>1 DEF Continue, Analysis
<1>2. CASE ~ a.first /\ a.todo = {}
  BY <1>2, EndsTyped DEF Continue
<1>3. CASE ~ a.first /\ a.todo # {}
  <2>1. PICK i \in a.todo : b = [a EXCEPT !.stage = "read", !.id = i, !.todo = @ \ {i},
                                          !.findings = NoFindings]
    BY <1>3 DEF Continue
  <2>2. i \in Incidents
    BY DEF Analysis
  <2> QED
    BY <2>1, <2>2 DEF Analysis
<1> QED
  BY <1>1, <1>2, <1>3

-----------------------------------------------------------------------------
(* Steps that leave stamps, or narratives, as they are *)

LEMMA StampsStay ==
    ASSUME RcaInv, UNCHANGED requests,
           \A i \in Incidents : incident'[i].rcaGeneratedAt = incident[i].rcaGeneratedAt,
           \A w \in Workers : \A c \in Claims(w)' :
               \/ c \in Claims(w)
               \/ c.id \in Incidents /\ c.rcaGeneratedAt = incident[c.id].rcaGeneratedAt,
           \A p \in Analyses : \/ analysis'[p].stage = "idle"
                               \/ /\ analysis[p].stage # "idle"
                                  /\ analysis'[p].now = analysis[p].now
                                  /\ analysis'[p].wrote = analysis[p].wrote
    PROVE  StampsInOrder' /\ StampsFresh'
<1>1. \A p \in Running' : /\ p \in Running /\ analysis'[p].now = analysis[p].now
                          /\ analysis'[p].wrote = analysis[p].wrote
  BY DEF Running
<1>2. StampsInOrder'
  BY <1>1 DEF RcaInv, StampsInOrder
<1>3. StampsFresh'
  BY <1>1 DEF RcaInv, StampsFresh
<1> QED
  BY <1>2, <1>3

LEMMA NarrativesStay ==
    ASSUME RcaInv, UNCHANGED <<worker, history.late, history.restamped, history.unrecorded>>,
           \A i \in Incidents : /\ incident'[i].rcaGeneratedAt = incident[i].rcaGeneratedAt
                                /\ incident'[i].rcaFindings = incident[i].rcaFindings
                                /\ incident'[i].rcaSummary = incident[i].rcaSummary
                                /\ incident'[i].wait = incident[i].wait
    PROVE  Narratives'
<1>0. \A w \in Workers : worker[w].serving \subseteq Claim /\ worker[w].claimed \subseteq Claim
  BY Types DEF RcaInv, WorkerState
<1>1. \A c \in Claim : c.id \in Incidents
  BY DEF Claim
<1>2. \A w \in Workers : Asked(w)'
  BY <1>0, <1>1 DEF RcaInv, Narratives, Asked, unchanged
<1>3. ASSUME NEW i \in Incidents, HeldOnce(i) PROVE HeldOnce(i)'
  BY <1>3 DEF HeldOnce, Unstored, Leases, Current, Claims, unchanged
<1>4. \A i \in Incidents : Matched(i)' /\ (i \in history'.late \/ HeldOnce(i)')
  BY <1>3 DEF RcaInv, Narratives, Matched
<1> QED
  BY <1>2, <1>4 DEF Narratives

LEMMA Disturbed ==
    ASSUME history \in HistoryType, NEW d \in BOOLEAN, history' = [history EXCEPT !.disturbed = d]
    PROVE  history' \in HistoryType /\ UNCHANGED <<history.late, history.restamped, history.unrecorded>>
BY DEF HistoryType

LEMMA FaultCounted ==
    ASSUME TypeOK, Fault
    PROVE  faults' \in 0..scenario.faults
BY Types, Counts DEF Fault

LEMMA EditCounted ==
    ASSUME TypeOK, Edit
    PROVE  edits' \in 0..scenario.edits
BY Types, Counts DEF Edit

-----------------------------------------------------------------------------
(* Analyses *)

\* A request that begins has a time no stamp carries yet.
LEMMA BeginKeeps ==
    ASSUME RcaInv, NEW p \in Analyses, NEW a \in Analysis, a.stage # "idle", a.wrote = {},
           Begin(p, a), UNCHANGED <<topology, incident, worker, edits, faults, scenario>>
    PROVE  RcaInv'
<1>0. TypeOK /\ StampsInOrder /\ StampsFresh /\ Narratives
  BY DEF RcaInv
<1>1. /\ requests \in 0..MaxRequests /\ MaxRequests \in Nat /\ history \in HistoryType
      /\ analysis \in [Analyses -> Analysis] /\ incident \in [Incidents -> Row]
      /\ worker \in [Workers -> WorkerState] /\ TopologyTypeOK
      /\ edits \in 0..scenario.edits /\ faults \in 0..scenario.faults
  BY <1>0, Types, Counts
<1>2. requests' = requests + 1 /\ requests + 1 \in 0..MaxRequests
  BY <1>1 DEF Begin
<1>3. PICK x : x = [a EXCEPT !.now = requests + 1]
  OBVIOUS
<1>4. x \in Analysis /\ x.now = requests + 1 /\ x.wrote = {} /\ x.stage # "idle"
  BY <1>2, <1>3 DEF Analysis
<1>5. /\ \A q \in Analyses : analysis'[q] = IF q = p THEN x ELSE analysis[q]
      /\ analysis' \in [Analyses -> Analysis]
  BY <1>1, <1>3, <1>4 DEF Begin
<1>6. history' \in HistoryType /\ UNCHANGED <<history.late, history.restamped, history.unrecorded>>
  <2>1. PICK d \in BOOLEAN : d = (history.disturbed \/ Running # {})
    <3>1. CASE history.disturbed \/ Running # {}
      <4> WITNESS TRUE \in BOOLEAN
      <4> QED BY <3>1
    <3>2. CASE ~ (history.disturbed \/ Running # {})
      <4> WITNESS FALSE \in BOOLEAN
      <4> QED BY <3>2
    <3> QED BY <3>1, <3>2
  <2>2. history' = [history EXCEPT !.disturbed = d]
    BY <2>1 DEF Begin
  <2> QED
    BY <1>1, <2>2, Disturbed
<1>7. TypeOK'
  <2>1. UNCHANGED topology /\ UNCHANGED scenario
    OBVIOUS
  <2> QED
    BY <1>0, <1>1, <1>2, <1>5, <1>6, <2>1, TopologyStays, TypesStay
<1>8. \A q \in Running' : q \in Analyses /\ (q # p => q \in Running)
  BY <1>5 DEF Running
<1>9. /\ \A q \in Running : analysis[q].now < requests + 1
      /\ \A i \in Incidents : incident[i].rcaGeneratedAt < requests + 1
      /\ \A w \in Workers : \A c \in Claims(w) : c.rcaGeneratedAt < requests + 1
  <2>1. /\ \A q \in Running : analysis[q].now \in Nat
        /\ \A i \in Incidents : incident[i].rcaGeneratedAt \in Nat
        /\ \A w \in Workers : \A c \in Claims(w) : c.rcaGeneratedAt \in Nat
    BY <1>1 DEF Running, Row, Analysis, WorkerState, Claims, Claim
  <2> QED
    BY <1>0, <1>1, <2>1 DEF StampsInOrder
<1>10. StampsInOrder'
  <2>1. ASSUME NEW q \in Running' PROVE analysis'[q].now <= requests'
    BY <1>1, <1>2, <1>4, <1>5, <1>8, <1>9, <2>1 DEF Running, Analysis
  <2>2. ASSUME NEW q \in Running', NEW r \in Running', analysis'[q].now = analysis'[r].now
        PROVE  q = r
    BY <1>0, <1>1, <1>4, <1>5, <1>8, <1>9, <2>2 DEF StampsInOrder
  <2>3. \A i \in Incidents : incident'[i].rcaGeneratedAt <= requests'
    BY <1>1, <1>2, <1>9 DEF Row
  <2>4. ASSUME NEW w \in Workers, NEW c \in Claims(w)'
        PROVE  c.rcaGeneratedAt <= requests'
    <3>1. c \in Claims(w)
      BY DEF Claims
    <3>2. c.rcaGeneratedAt \in Nat
      BY <1>1, <3>1 DEF WorkerState, Claims, Claim
    <3> QED
      BY <1>1, <1>2, <1>9, <3>1, <3>2
  <2> QED
    BY <2>1, <2>2, <2>3, <2>4 DEF StampsInOrder
<1>11. StampsFresh'
  <2> SUFFICES ASSUME NEW q \in Running', NEW i \in Incidents \ analysis'[q].wrote
               PROVE  /\ incident[i].rcaGeneratedAt # analysis'[q].now
                      /\ \A w \in Workers : \A c \in Claims(w) :
                            c.id = i => c.rcaGeneratedAt # analysis'[q].now
    BY DEF StampsFresh, Claims
  <2>1. CASE q = p
    <3>1. analysis'[q].now = requests + 1
      BY <1>4, <1>5, <2>1
    <3> QED
      BY <1>1, <1>9, <3>1
  <2>2. CASE q # p
    <3>1. q \in Running /\ analysis'[q] = analysis[q]
      BY <1>5, <1>8, <2>2
    <3> QED
      BY <1>0, <3>1 DEF StampsFresh
  <2> QED
    BY <2>1, <2>2
<1>12. Narratives'
  BY <1>6, NarrativesStay
<1> QED
  BY <1>7, <1>10, <1>11, <1>12 DEF RcaInv

\* What an analysis does beside its write: it goes on, or ends.
LEMMA AnalysisMoves ==
    ASSUME RcaInv, NEW p \in Analyses, NEW a \in Analysis,
           analysis' = [analysis EXCEPT ![p] = a], analysis[p].stage # "idle",
           a.stage = "idle" \/ (a.now = analysis[p].now /\ a.wrote = analysis[p].wrote),
           UNCHANGED <<topology, incident, worker, requests, edits, scenario>>,
           history' = history \/ history' = [history EXCEPT !.disturbed = TRUE],
           faults' \in 0..scenario.faults
    PROVE  RcaInv'
<1>0. TypeOK /\ history \in HistoryType /\ analysis \in [Analyses -> Analysis]
  BY Types DEF RcaInv
<1>1. history' \in HistoryType /\ UNCHANGED <<history.late, history.restamped, history.unrecorded>>
  BY <1>0, Disturbed
<1>2. TypeOK'
  <2>1. analysis' \in [Analyses -> Analysis]
    BY <1>0
  <2>2. UNCHANGED topology /\ UNCHANGED scenario
    OBVIOUS
  <2> QED
    BY <1>0, <1>1, <2>1, <2>2, Types, TopologyStays, TypesStay
<1>3. StampsInOrder' /\ StampsFresh'
  <2>1. \A w \in Workers : Claims(w)' = Claims(w)
    BY DEF Claims
  <2>2. \A q \in Analyses : analysis'[q] = IF q = p THEN a ELSE analysis[q]
    BY <1>0
  <2> QED
    BY <2>1, <2>2, StampsStay
<1>4. Narratives'
  BY <1>1, NarrativesStay
<1> QED
  BY <1>2, <1>3, <1>4 DEF RcaInv

\* What happens to an incident beside its analysis and its narrative.
LEMMA RowMoves ==
    ASSUME RcaInv, NEW i \in Incidents, NEW row \in Row,
           incident' = [incident EXCEPT ![i] = row],
           row.rcaGeneratedAt = incident[i].rcaGeneratedAt, row.wait = incident[i].wait,
           row.rcaFindings = incident[i].rcaFindings, row.rcaSummary = incident[i].rcaSummary,
           UNCHANGED <<topology, worker, requests, faults, scenario>>,
           edits' \in 0..scenario.edits, analysis' \in [Analyses -> Analysis],
           \A p \in Analyses : \/ analysis'[p].stage = "idle"
                               \/ /\ analysis[p].stage # "idle"
                                  /\ analysis'[p].now = analysis[p].now
                                  /\ analysis'[p].wrote = analysis[p].wrote,
           history' = history \/ history' = [history EXCEPT !.disturbed = TRUE]
    PROVE  RcaInv'
<1>0. TypeOK /\ history \in HistoryType /\ incident \in [Incidents -> Row]
  BY Types DEF RcaInv
<1>1. history' \in HistoryType /\ UNCHANGED <<history.late, history.restamped, history.unrecorded>>
  BY <1>0, Disturbed
<1>2. /\ incident' \in [Incidents -> Row]
      /\ \A o \in Incidents : /\ incident'[o].rcaGeneratedAt = incident[o].rcaGeneratedAt
                              /\ incident'[o].rcaFindings = incident[o].rcaFindings
                              /\ incident'[o].rcaSummary = incident[o].rcaSummary
                              /\ incident'[o].wait = incident[o].wait
  BY <1>0
<1>3. TypeOK'
  <2>1. UNCHANGED topology /\ UNCHANGED scenario
    OBVIOUS
  <2> QED
    BY <1>0, <1>1, <1>2, <2>1, Types, TopologyStays, TypesStay
<1>4. StampsInOrder' /\ StampsFresh'
  <2>1. \A w \in Workers : Claims(w)' = Claims(w)
    BY DEF Claims
  <2> QED
    BY <1>2, <2>1, StampsStay
<1>5. Narratives'
  BY <1>1, <1>2, NarrativesStay
<1> QED
  BY <1>3, <1>4, <1>5 DEF RcaInv

LEMMA MapKeeps ==
    ASSUME RcaInv, ChangeMap
    PROVE  RcaInv'
<1>0. TypeOK /\ TopologyTypeOK /\ history \in HistoryType
  BY Types DEF RcaInv
<1>1. UNCHANGED <<incident, analysis, worker, requests, faults, scenario>>
  BY DEF ChangeMap
<1>2. history' \in HistoryType /\ UNCHANGED <<history.late, history.restamped, history.unrecorded>>
  BY <1>0, Disturbed DEF ChangeMap
<1>3. TopologyTypeOK'
  <2>1. ASSUME NEW n \in NodeIds, deleteNode(n) PROVE TopologyTypeOK'
    BY <1>0, <2>1, SourcesAssumption DEF deleteNode, TopologyTypeOK, Present
  <2>2. ASSUME NEW n \in NodeIds, NEW ref \in Sources \cup {Logical}, createNode(n, ref)
        PROVE  TopologyTypeOK'
    <3>1. node' \in [NodeIds -> Sources \cup {Absent, Logical}]
      BY <1>0, <2>2 DEF createNode, TopologyTypeOK
    <3>2. Present \subseteq Present' /\ edges' = edges
      BY <1>0, <2>2 DEF createNode, TopologyTypeOK, Present
    <3>3. \A a, b \in NodeIds : node'[a] = node'[b] /\ node'[a] \in Sources => a = b
      BY <1>0, <2>2, SourcesAssumption DEF createNode, TopologyTypeOK
    <3> QED
      BY <1>0, <3>1, <3>2, <3>3 DEF TopologyTypeOK
  <2>3. ASSUME NEW m \in NodeIds, NEW n \in NodeIds,
               createDependency(m, n) \/ deleteDependency(m, n)
        PROVE  TopologyTypeOK'
    BY <1>0, <2>3 DEF createDependency, deleteDependency, TopologyTypeOK, Present
  <2> QED
    BY <2>1, <2>2, <2>3 DEF ChangeMap, EditMap
<1>4. TypeOK'
  <2>1. edits' \in 0..scenario.edits
    BY <1>0, EditCounted DEF ChangeMap
  <2> QED
    BY <1>0, <1>1, <1>2, <1>3, <2>1, Types, TypesStay
<1>5. StampsInOrder' /\ StampsFresh'
  BY <1>1 DEF RcaInv, StampsInOrder, StampsFresh, Running, Claims
<1>6. Narratives'
  BY <1>1, <1>2, NarrativesStay
<1> QED
  BY <1>4, <1>5, <1>6 DEF RcaInv

LEMMA RequestsKeep ==
    ASSUME RcaInv, NEW p \in Analyses, NEW i \in Incidents,
           Evaluate(p) \/ Open(p, i) \/ reanalyzeIncident(p, i)
    PROVE  RcaInv'
<1>0. /\ TypeOK /\ analysis \in [Analyses -> Analysis] /\ incident \in [Incidents -> Row]
      /\ incident[i] \in Row /\ analysis[p] \in Analysis
      /\ edits \in 0..scenario.edits
  BY Types DEF RcaInv
<1>1. CASE Evaluate(p)
  <2>1. PICK a : a = [Idle EXCEPT !.stage = "batch"]
    OBVIOUS
  <2>2. a \in Analysis /\ a.stage # "idle" /\ a.wrote = {}
    BY <1>0, <2>1, IdleTyped DEF Idle, Analysis
  <2> QED
    BY <1>1, <2>1, <2>2, BeginKeeps DEF Evaluate
<1>2. CASE reanalyzeIncident(p, i)
  <2>1. PICK a : a = [Idle EXCEPT !.stage = "read", !.id = i, !.force = TRUE]
    OBVIOUS
  <2>2. a \in Analysis /\ a.stage # "idle" /\ a.wrote = {}
    BY <1>0, <2>1, IdleTyped DEF Idle, Analysis
  <2> QED
    BY <1>2, <2>1, <2>2, BeginKeeps DEF reanalyzeIncident
<1>3. CASE Open(p, i)
  <2>1. PICK row : row = [incident[i] EXCEPT !.status = "OPEN", !.startedAt = analysis[p].now]
    OBVIOUS
  <2>2. /\ row \in Row /\ row.rcaGeneratedAt = incident[i].rcaGeneratedAt
        /\ row.wait = incident[i].wait /\ row.rcaFindings = incident[i].rcaFindings
        /\ row.rcaSummary = incident[i].rcaSummary
    <3>1. analysis[p].now \in 0..MaxRequests
      BY <1>0 DEF Analysis
    <3> HIDE DEF Findings, Wait
    <3> QED
      BY <1>0, <2>1, <3>1 DEF Row
  <2>3. PICK a : a = [analysis[p] EXCEPT !.stage = "read", !.id = i, !.first = TRUE]
    OBVIOUS
  <2>4. a \in Analysis /\ a.now = analysis[p].now /\ a.wrote = analysis[p].wrote
    BY <1>0, <2>3 DEF Analysis
  <2>5. /\ incident' = [incident EXCEPT ![i] = row] /\ analysis' = [analysis EXCEPT ![p] = a]
        /\ analysis[p].stage = "batch"
        /\ UNCHANGED <<topology, worker, requests, history, edits, faults, scenario>>
    BY <1>0, <1>3, <2>1, <2>3 DEF Open
  <2>6. /\ analysis' \in [Analyses -> Analysis]
        /\ \A q \in Analyses : analysis'[q] = IF q = p THEN a ELSE analysis[q]
    BY <1>0, <2>4, <2>5
  <2>7. \A q \in Analyses : \/ analysis'[q].stage = "idle"
                            \/ /\ analysis[q].stage # "idle"
                               /\ analysis'[q].now = analysis[q].now
                               /\ analysis'[q].wrote = analysis[q].wrote
    BY <2>4, <2>5, <2>6
  <2> QED
    BY <1>0, <2>2, <2>5, <2>6, <2>7, RowMoves
<1> QED
  BY <1>1, <1>2, <1>3

LEMMA StatusKeeps ==
    ASSUME RcaInv, NEW i \in Incidents, NEW status \in {"OPEN", "RESOLVED"}, SetStatus(i, status)
    PROVE  RcaInv'
<1>0. /\ TypeOK /\ incident \in [Incidents -> Row] /\ incident[i] \in Row
      /\ analysis \in [Analyses -> Analysis]
  BY Types DEF RcaInv
<1>1. PICK row : row = [incident[i] EXCEPT !.status = status]
  OBVIOUS
<1>2. /\ row \in Row /\ row.rcaGeneratedAt = incident[i].rcaGeneratedAt
      /\ row.wait = incident[i].wait /\ row.rcaFindings = incident[i].rcaFindings
      /\ row.rcaSummary = incident[i].rcaSummary
  <2> HIDE DEF Findings, Wait
  <2> QED
    BY <1>0, <1>1 DEF Row
<1>3. /\ incident' = [incident EXCEPT ![i] = row]
      /\ UNCHANGED <<topology, analysis, worker, requests, faults, scenario>>
      /\ history' = [history EXCEPT !.disturbed = TRUE]
  BY <1>1 DEF SetStatus
<1>4. edits' \in 0..scenario.edits
  BY <1>0, EditCounted DEF SetStatus
<1> QED
  BY <1>0, <1>2, <1>3, <1>4, RowMoves

LEMMA AnalysesKeep ==
    ASSUME RcaInv, NEW p \in Analyses, analyzeAfterOpen(p) \/ ReadContext(p) \/ AnalysisFails(p)
    PROVE  RcaInv'
<1>0. /\ TypeOK /\ analysis \in [Analyses -> Analysis] /\ analysis[p] \in Analysis
      /\ faults \in 0..scenario.faults
  BY Types DEF RcaInv
<1>1. CASE analyzeAfterOpen(p)
  <2>1. PICK S \in Neighbours(p) : \E a \in Continue([analysis[p] EXCEPT !.todo = S]) :
           analysis' = [analysis EXCEPT ![p] = a]
    BY <1>1 DEF analyzeAfterOpen
  <2>2. S \subseteq Incidents
    BY <2>1 DEF Neighbours
  <2>3. PICK x : x = [analysis[p] EXCEPT !.todo = S]
    OBVIOUS
  <2>4. x \in Analysis /\ x.now = analysis[p].now /\ x.wrote = analysis[p].wrote
    BY <1>0, <2>2, <2>3 DEF Analysis
  <2>5. PICK a \in Continue(x) : analysis' = [analysis EXCEPT ![p] = a]
    BY <2>1, <2>3
  <2>6. a \in Analysis /\ (a.stage = "idle" \/ (a.now = x.now /\ a.wrote = x.wrote))
    BY <1>0, <2>4, ContinueTyped
  <2> QED
    BY <1>0, <1>1, <2>4, <2>5, <2>6, AnalysisMoves DEF analyzeAfterOpen
<1>2. CASE ReadContext(p)
  <2>0. /\ analysis[p].stage = "read" /\ analysis[p].id \in Incidents
        /\ UNCHANGED <<topology, incident, worker, requests, history, edits, faults, scenario>>
    BY <1>0, <1>2 DEF ReadContext, Analysis
  <2>1. CASE \E next \in Continue(analysis[p]) : analysis' = [analysis EXCEPT ![p] = next]
    <3>1. PICK a \in Continue(analysis[p]) : analysis' = [analysis EXCEPT ![p] = a]
      BY <2>1
    <3>2. /\ a \in Analysis
          /\ a.stage = "idle" \/ (a.now = analysis[p].now /\ a.wrote = analysis[p].wrote)
      BY <1>0, ContinueTyped
    <3> QED
      BY <1>0, <2>0, <3>1, <3>2, AnalysisMoves
  <2>2. CASE analysis' = [analysis EXCEPT ![p].stage = "write",
                                          ![p].findings = analyzeIncident(analysis[p].id)]
    <3>1. PICK f \in Findings : f = analyzeIncident(analysis[p].id)
      BY <1>0, <2>0, FindingsTyped
    <3>2. PICK a : a = [analysis[p] EXCEPT !.stage = "write", !.findings = f]
      OBVIOUS
    <3> HIDE DEF Findings
    <3>3. a \in Analysis /\ a.now = analysis[p].now /\ a.wrote = analysis[p].wrote
      BY <1>0, <3>1, <3>2 DEF Analysis
    <3>4. analysis' = [analysis EXCEPT ![p] = a]
      BY <1>0, <2>2, <3>1, <3>2
    <3> QED
      BY <1>0, <2>0, <3>3, <3>4, AnalysisMoves
  <2> QED
    BY <1>2, <2>1, <2>2 DEF ReadContext
<1>3. CASE AnalysisFails(p)
  <2>1. PICK a \in Ends(analysis[p]) : analysis' = [analysis EXCEPT ![p] = a]
    BY <1>3 DEF AnalysisFails
  <2>2. /\ a \in Analysis
        /\ a.stage = "idle" \/ (a.now = analysis[p].now /\ a.wrote = analysis[p].wrote)
    BY <1>0, EndsTyped
  <2>3. faults' \in 0..scenario.faults
    BY <1>0, <1>3, FaultCounted DEF AnalysisFails
  <2> QED
    BY <1>3, <2>1, <2>2, <2>3, AnalysisMoves DEF AnalysisFails
<1> QED
  BY <1>1, <1>2, <1>3

\* The write: the row takes the time of the request, which no claim on it has
\* unless the same request wrote it before.
LEMMA WriteKeeps ==
    ASSUME RcaInv, NEW p \in Analyses, refreshIncidentRca(p)
    PROVE  RcaInv'
<1>0. TypeOK /\ StampsInOrder /\ StampsFresh /\ Narratives
  BY DEF RcaInv
<1>1. /\ requests \in 0..MaxRequests /\ MaxRequests \in Nat /\ history \in HistoryType
      /\ analysis \in [Analyses -> Analysis] /\ incident \in [Incidents -> Row]
      /\ worker \in [Workers -> WorkerState] /\ TopologyTypeOK
      /\ edits \in 0..scenario.edits /\ faults \in 0..scenario.faults
      /\ MAX_ATTEMPTS \in Nat /\ SettleTicks \in Nat /\ LeaseTicks \in Nat
  BY <1>0, Types, Counts
<1>2. PICK a \in Analysis : a = analysis[p]
  BY <1>1
<1>3. PICK i \in Incidents : i = a.id
  BY DEF Analysis
<1>4. /\ a.stage = "write" /\ UNCHANGED <<topology, worker, requests, edits, faults, scenario>>
      /\ p \in Running
  BY <1>2 DEF refreshIncidentRca, Running
<1>5. PICK row : row = refreshed(incident[i], a)
  OBVIOUS
<1>6. /\ row \in Row /\ row.rcaGeneratedAt = a.now /\ row.rcaSummary = NoFindings
  <2>1. SettleTicks \in Wait /\ 0 \in 0..MAX_ATTEMPTS
    BY <1>1 DEF Wait, None
  <2>2. a.findings \in Findings \cup {NoFindings} /\ a.now \in 0..MaxRequests
    BY DEF Analysis
  <2> HIDE DEF Findings, Wait
  <2> QED
    BY <1>1, <1>5, <2>1, <2>2 DEF refreshed, Row
<1>7. /\ incident' \in [Incidents -> Row]
      /\ \A j \in Incidents : incident'[j] = IF j = i THEN row ELSE incident[j]
  BY <1>1, <1>2, <1>3, <1>5, <1>6 DEF refreshIncidentRca
<1>8. PICK x : x = [a EXCEPT !.wrote = a.wrote \cup {i}]
  OBVIOUS
<1>9. x \in Analysis /\ x.now = a.now /\ x.wrote = a.wrote \cup {i}
  BY <1>8 DEF Analysis
<1>10. PICK b \in Continue(x) : analysis' = [analysis EXCEPT ![p] = b]
  BY <1>2, <1>3, <1>8 DEF refreshIncidentRca
<1>11. b \in Analysis /\ (b.stage = "idle" \/ (b.now = a.now /\ b.wrote = a.wrote \cup {i}))
  BY <1>0, <1>9, ContinueTyped
<1>12. /\ analysis' \in [Analyses -> Analysis]
       /\ \A q \in Analyses : analysis'[q] = IF q = p THEN b ELSE analysis[q]
  BY <1>1, <1>10, <1>11
<1>13. /\ history' \in HistoryType
       /\ \A j \in Incidents \ {i} : /\ j \in history'.late <=> j \in history.late
                                     /\ j \in history'.restamped <=> j \in history.restamped
                                     /\ j \in history'.unrecorded <=> j \in history.unrecorded
       /\ i \in a.wrote => i \in history'.restamped /\ i \in history'.late
       /\ (\E w \in Workers : i \in worker[w].leased) => i \in history'.late
  <2> DEFINE again == i \in a.wrote
             leased == \E w \in Workers : i \in worker[w].leased
  <2>1. PICK L, U, R, T :
                       /\ L = history.lost \ {i} /\ U = history.unrecorded \ {i}
                       /\ R = IF again THEN history.restamped \cup {i} ELSE history.restamped \ {i}
                       /\ T = IF again \/ leased THEN history.late \cup {i} ELSE history.late \ {i}
    OBVIOUS
  <2>2. history' = [history EXCEPT !.lost = L, !.unrecorded = U, !.restamped = R, !.late = T]
    BY <1>2, <1>3, <2>1 DEF refreshIncidentRca
  <2> HIDE DEF leased
  <2>3. /\ L \subseteq Incidents /\ U \subseteq Incidents
        /\ R \subseteq Incidents /\ T \subseteq Incidents
    BY <1>1, <2>1 DEF HistoryType
  <2>4. history' \in HistoryType /\ history'.restamped = R /\ history'.late = T
           /\ history'.unrecorded = U
    BY <1>1, <2>2, <2>3 DEF HistoryType
  <2> QED
    BY <2>1, <2>4 DEF leased
<1>14. TypeOK'
  <2>1. UNCHANGED topology /\ UNCHANGED scenario
    BY <1>4
  <2> QED
    BY <1>0, <1>1, <1>4, <1>7, <1>12, <1>13, <2>1, TopologyStays, TypesStay
<1>15. \A q \in Running' : /\ q \in Running /\ analysis'[q].now = analysis[q].now
                           /\ analysis'[q].wrote = IF q = p THEN a.wrote \cup {i}
                                                            ELSE analysis[q].wrote
  BY <1>2, <1>4, <1>11, <1>12 DEF Running
<1>16. \A w \in Workers : Claims(w)' = Claims(w)
  BY <1>4 DEF Claims
<1>17. StampsInOrder'
  <2>1. a.now <= requests
    BY <1>0, <1>2, <1>4 DEF StampsInOrder
  <2> QED
    BY <1>0, <1>4, <1>6, <1>7, <1>15, <1>16, <2>1 DEF StampsInOrder
<1>18. StampsFresh'
  <2> SUFFICES ASSUME NEW q \in Running', NEW j \in Incidents \ analysis'[q].wrote
               PROVE  /\ incident'[j].rcaGeneratedAt # analysis[q].now
                      /\ \A w \in Workers : \A c \in Claims(w) :
                            c.id = j => c.rcaGeneratedAt # analysis[q].now
    BY <1>15, <1>16 DEF StampsFresh
  <2>1. q \in Running /\ j \in Incidents \ analysis[q].wrote
    BY <1>2, <1>15
  <2>2. /\ incident[j].rcaGeneratedAt # analysis[q].now
        /\ \A w \in Workers : \A c \in Claims(w) : c.id = j => c.rcaGeneratedAt # analysis[q].now
    BY <1>0, <2>1 DEF StampsFresh
  <2>3. CASE j = i
    <3>1. q # p
      BY <1>15, <2>3
    <3>2. a.now # analysis[q].now
      BY <1>0, <1>2, <1>4, <2>1, <3>1 DEF StampsInOrder
    <3> QED
      BY <1>6, <1>7, <2>2, <2>3, <3>2
  <2>4. CASE j # i
    BY <1>7, <2>2, <2>4
  <2> QED
    BY <2>3, <2>4
<1>19. ASSUME i \notin a.wrote, NEW w \in Workers, NEW c \in Claims(w), c.id = i
       PROVE  c.rcaGeneratedAt # a.now
  BY <1>0, <1>2, <1>4, <1>19 DEF StampsFresh
<1>20. Narratives'
  <2>0. \A w \in Workers : \A c \in Claims(w) : c.id \in Incidents
    BY <1>1 DEF Claims, WorkerState, Claim
  <2>1. ASSUME NEW j \in Incidents
        PROVE  Matched(j)' /\ (j \in history'.late \/ HeldOnce(j)')
    <3>1. CASE j = i
      <4>1. Matched(j)'
        BY <1>6, <1>7, <3>1 DEF Matched
      <4>2. ASSUME i \notin history'.late PROVE HeldOnce(i)'
        <5>1. i \notin a.wrote /\ \A w \in Workers : ~ Leases(w, i)'
          BY <1>4, <1>13, <4>2 DEF Leases
        <5>2. \A w \in Workers : \A c \in Claims(w)' : ~ Current(c, i)'
          BY <1>6, <1>7, <1>16, <1>19, <5>1 DEF Current, unchanged
        <5>3. \A w \in Workers : \A c \in worker'[w].claimed : ~ Current(c, i)'
          BY <5>2 DEF Claims
        <5>4. Unstored(i)'
          BY <1>6, <1>7 DEF Unstored
        <5> QED
          BY <5>1, <5>2, <5>3, <5>4 DEF HeldOnce
      <4> QED
        BY <3>1, <4>1, <4>2
    <3>2. CASE j # i
      <4>1. incident'[j] = incident[j]
        BY <1>7, <3>2
      <4>2. Matched(j)'
        BY <1>0, <1>13, <3>2, <4>1 DEF Narratives, Matched
      <4>3. HeldOnce(j) => HeldOnce(j)'
        <5>1. Unstored(j)' <=> Unstored(j)
          BY <1>13, <3>2, <4>1 DEF Unstored
        <5> QED
          BY <1>4, <4>1, <5>1 DEF HeldOnce, Leases, Current, Claims, unchanged
      <4> QED
        BY <1>0, <1>13, <3>2, <4>2, <4>3 DEF Narratives
    <3> QED
      BY <3>1, <3>2
  <2>2. ASSUME NEW w \in Workers, NEW c \in worker[w].serving
        PROVE  \/ incident'[c.id].rcaGeneratedAt # c.rcaGeneratedAt
               \/ worker[w].asked = incident'[c.id].rcaFindings
               \/ c.id \in history'.restamped
    <3>0. c \in Claims(w) /\ c.id \in Incidents
      BY <2>0 DEF Claims
    <3>1. CASE c.id = i
      BY <1>6, <1>7, <1>13, <1>19, <3>0, <3>1
    <3>2. CASE c.id # i
      <4>1. incident'[c.id] = incident[c.id]
        BY <1>7, <3>0, <3>2
      <4> QED
        BY <1>0, <1>13, <3>0, <3>2, <4>1 DEF Narratives, Asked, unchanged
    <3> QED
      BY <3>1, <3>2
  <2>3. ASSUME NEW w \in Workers PROVE Asked(w)'
    BY <1>4, <2>2 DEF Asked, unchanged
  <2> QED
    BY <2>1, <2>3 DEF Narratives
<1> QED
  BY <1>14, <1>17, <1>18, <1>20 DEF RcaInv

-----------------------------------------------------------------------------
(* Workers *)

LEMMA ClaimTyped ==
    ASSUME TypeOK
    PROVE  \A w \in Workers :
              /\ worker[w] \in WorkerState
              /\ \A c \in Claims(w) : c \in Claim /\ c.id \in Incidents
BY Types DEF WorkerState, Claims, Claim

\* What worker w does to its own state, the rows being as they were.
LEMMA WorkerMoves ==
    ASSUME RcaInv, NEW w \in Workers, NEW x \in WorkerState, worker' = [worker EXCEPT ![w] = x],
           UNCHANGED <<topology, analysis, requests, edits, scenario>>,
           faults' \in 0..scenario.faults, history' \in HistoryType,
           incident' \in [Incidents -> Row],
           \A i \in Incidents : incident'[i].rcaGeneratedAt = incident[i].rcaGeneratedAt,
           \A c \in x.claimed \cup x.serving :
               \/ c \in Claims(w)
               \/ c.id \in Incidents /\ c.rcaGeneratedAt = incident[c.id].rcaGeneratedAt
    PROVE  /\ TypeOK' /\ StampsInOrder' /\ StampsFresh'
           /\ \A v \in Workers : worker'[v] = IF v = w THEN x ELSE worker[v]
<1>0. TypeOK /\ worker \in [Workers -> WorkerState]
  BY Types DEF RcaInv
<1>1. /\ worker' \in [Workers -> WorkerState]
      /\ \A v \in Workers : worker'[v] = IF v = w THEN x ELSE worker[v]
  BY <1>0
<1>2. TypeOK'
  <2>1. UNCHANGED topology /\ UNCHANGED scenario
    OBVIOUS
  <2> QED
    BY <1>0, <1>1, <2>1, Types, TopologyStays, TypesStay
<1>3. \A v \in Workers : \A c \in Claims(v)' :
         \/ c \in Claims(v)
         \/ c.id \in Incidents /\ c.rcaGeneratedAt = incident[c.id].rcaGeneratedAt
  BY <1>1 DEF Claims
<1>4. StampsInOrder' /\ StampsFresh'
  <2>1. \A p \in Analyses : \/ analysis'[p].stage = "idle"
                            \/ /\ analysis[p].stage # "idle"
                               /\ analysis'[p].now = analysis[p].now
                               /\ analysis'[p].wrote = analysis[p].wrote
    OBVIOUS
  <2> QED
    BY <1>3, <2>1, StampsStay
<1> QED
  BY <1>1, <1>2, <1>4

\* Who holds less of an incident whose row stays.
LEMMA HeldLess ==
    ASSUME NEW i \in Incidents, HeldOnce(i), incident'[i] = incident[i],
           i \in history.unrecorded => i \in history'.unrecorded,
           \A w \in Workers : /\ worker'[w].claimed \subseteq worker[w].claimed
                              /\ worker'[w].serving \subseteq worker[w].serving
                              /\ worker'[w].leased \subseteq worker[w].leased
    PROVE  HeldOnce(i)'
<1>1. \A w \in Workers : Claims(w)' \subseteq Claims(w)
  BY DEF Claims
<1>2. \A c : Current(c, i)' <=> Current(c, i)
  BY DEF Current, unchanged
<1>3. \A w \in Workers : Leases(w, i)' => Leases(w, i)
  BY DEF Leases
<1>4. Unstored(i) => Unstored(i)'
  BY DEF Unstored
<1> QED
  BY <1>1, <1>2, <1>3, <1>4 DEF HeldOnce

\* A worker that lets go of claims, by a crash or because it is told to stop.
LEMMA Drops ==
    ASSUME RcaInv, NEW w \in Workers, NEW x \in WorkerState, worker' = [worker EXCEPT ![w] = x],
           UNCHANGED <<topology, incident, analysis, requests, edits, scenario>>,
           faults' \in 0..scenario.faults, history' \in HistoryType,
           UNCHANGED <<history.late, history.restamped, history.unrecorded>>,
           x.claimed \subseteq worker[w].claimed, x.leased \subseteq worker[w].leased,
           x.serving = {} \/ (x.serving = worker[w].serving /\ x.asked = worker[w].asked)
    PROVE  RcaInv'
<1>0. TypeOK /\ Narratives /\ incident \in [Incidents -> Row]
  BY Types DEF RcaInv
<1>1. /\ TypeOK' /\ StampsInOrder' /\ StampsFresh'
      /\ \A v \in Workers : worker'[v] = IF v = w THEN x ELSE worker[v]
  <2>1. \A c \in x.claimed \cup x.serving : c \in Claims(w)
    BY DEF Claims
  <2>2. UNCHANGED <<topology, analysis, requests, edits, scenario>>
    OBVIOUS
  <2> QED
    BY <1>0, <2>1, <2>2, WorkerMoves
<1>2. ASSUME NEW i \in Incidents PROVE Matched(i)' /\ (i \in history'.late \/ HeldOnce(i)')
  <2>1. HeldOnce(i) => HeldOnce(i)'
    BY <1>1, HeldLess
  <2> QED
    BY <1>0, <2>1 DEF Narratives, Matched
<1>3. ASSUME NEW v \in Workers PROVE Asked(v)'
  BY <1>0, <1>1 DEF Narratives, Asked, unchanged
<1> QED
  BY <1>1, <1>2, <1>3 DEF RcaInv, Narratives

LEMMA DropsKeep ==
    ASSUME RcaInv, NEW w \in Workers, Interrupt(w) \/ Abort(w)
    PROVE  RcaInv'
<1>0. TypeOK /\ worker[w] \in WorkerState /\ history \in HistoryType
  BY Types DEF RcaInv
<1>1. faults' \in 0..scenario.faults
  BY <1>0, FaultCounted DEF Interrupt, Abort
<1>2. Holds(w) \subseteq Incidents
  BY <1>0 DEF Holds, WorkerState, Claim
<1>3. ASSUME NEW S \in SUBSET Incidents, history' = [history EXCEPT !.lost = history.lost \cup S]
      PROVE  history' \in HistoryType /\ UNCHANGED <<history.late, history.restamped, history.unrecorded>>
  BY <1>0, <1>3 DEF HistoryType
<1>4. CASE Interrupt(w)
  <2>1. AtRest \in WorkerState /\ AtRest.claimed = {} /\ AtRest.leased = {} /\ AtRest.serving = {}
    BY DEF AtRest, WorkerState
  <2> QED
    BY <1>1, <1>2, <1>3, <1>4, <2>1, Drops DEF Interrupt
<1>5. CASE Abort(w)
  <2>1. PICK x : x = [worker[w] EXCEPT !.claimed = {}]
    OBVIOUS
  <2>2. /\ x \in WorkerState /\ x.claimed = {} /\ x.leased = worker[w].leased
        /\ x.serving = worker[w].serving /\ x.asked = worker[w].asked
    BY <1>0, <2>1 DEF WorkerState
  <2>3. worker' = [worker EXCEPT ![w] = x]
    BY <1>5, <2>1 DEF Abort
  <2>4. {c.id : c \in worker[w].claimed} \subseteq Incidents
    BY <1>0 DEF WorkerState, Claim
  <2>5. history' \in HistoryType /\ UNCHANGED <<history.late, history.restamped, history.unrecorded>>
    BY <1>3, <1>5, <2>4 DEF Abort
  <2> QED
    BY <1>1, <1>5, <2>2, <2>3, <2>5, Drops DEF Abort
<1> QED
  BY <1>4, <1>5

\* Time goes by: a lease that runs out while it is held is recorded as late.
LEMMA TickKeeps ==
    ASSUME RcaInv, Tick
    PROVE  RcaInv'
<1>0. /\ TypeOK /\ Narratives /\ incident \in [Incidents -> Row] /\ history \in HistoryType
      /\ SettleTicks \in Nat /\ LeaseTicks \in Nat /\ MAX_ATTEMPTS \in Nat
  BY Types, Counts DEF RcaInv
<1>1. UNCHANGED <<topology, analysis, worker, requests, edits, faults, scenario>>
  BY DEF Tick
<1>2. ASSUME NEW i \in Incidents
      PROVE  /\ incident'[i] \in Row
             /\ incident'[i].rcaGeneratedAt = incident[i].rcaGeneratedAt
             /\ incident'[i].rcaFindings = incident[i].rcaFindings
             /\ incident'[i].rcaSummary = incident[i].rcaSummary
             /\ incident'[i].wait # None => incident[i].wait # None
             /\ incident[i].wait > 0 /\ incident[i].wait # 1 => incident'[i].wait > 0
  <2> DEFINE t == incident[i].wait
  <2>1. PICK u : u = IF t > 0 THEN t - 1 ELSE t
    OBVIOUS
  <2>2. t \in Wait
    BY <1>0 DEF Row
  <2>3. u \in Wait /\ (u # None => t # None) /\ (t > 0 /\ t # 1 => u > 0)
    BY <1>0, <2>1, <2>2 DEF Wait, None
  <2>4. PICK row : row = [incident[i] EXCEPT !.wait = u]
    OBVIOUS
  <2> HIDE DEF Findings, Wait
  <2>5. /\ row \in Row /\ row.rcaGeneratedAt = incident[i].rcaGeneratedAt
        /\ row.rcaFindings = incident[i].rcaFindings /\ row.rcaSummary = incident[i].rcaSummary
        /\ row.wait = u
    BY <1>0, <2>3, <2>4 DEF Row
  <2>6. incident'[i] = row
    BY <2>1, <2>4 DEF Tick
  <2> QED
    BY <2>3, <2>5, <2>6
<1>3. incident' \in [Incidents -> Row]
  BY <1>2 DEF Tick
<1>4. /\ history' \in HistoryType /\ history'.restamped = history.restamped
      /\ history'.unrecorded = history.unrecorded
      /\ \A i \in Incidents : i \notin history'.late =>
            /\ i \notin history.late
            /\ \A w \in Workers : i \in Holds(w) => incident[i].wait # 1
  <2>1. PICK T : T = history.late \cup {i \in UNION {Holds(w) : w \in Workers} : incident[i].wait = 1}
    OBVIOUS
  <2>2. \A w \in Workers : Holds(w) \subseteq Incidents
    BY <1>0, ClaimTyped DEF Holds, WorkerState, Claims
  <2>3. T \subseteq Incidents
    BY <1>0, <2>1, <2>2 DEF HistoryType
  <2>4. history' = [history EXCEPT !.late = T]
    BY <2>1 DEF Tick
  <2>5. /\ history' \in HistoryType /\ history'.restamped = history.restamped
        /\ history'.late = T /\ history'.unrecorded = history.unrecorded
    BY <1>0, <2>3, <2>4 DEF HistoryType
  <2> QED
    BY <2>1, <2>5
<1>5. TypeOK'
  <2>1. UNCHANGED topology /\ UNCHANGED scenario
    BY <1>1
  <2> QED
    BY <1>0, <1>1, <1>3, <1>4, <2>1, Types, TopologyStays, TypesStay
<1>6. \A w \in Workers : Claims(w)' = Claims(w)
  BY <1>1 DEF Claims
<1>7. StampsInOrder' /\ StampsFresh'
  BY <1>1, <1>2, <1>6, StampsStay
<1>8. ASSUME NEW i \in Incidents PROVE Matched(i)' /\ (i \in history'.late \/ HeldOnce(i)')
  <2>1. Matched(i)'
    BY <1>0, <1>2, <1>4 DEF Narratives, Matched
  <2>2. ASSUME i \notin history'.late PROVE HeldOnce(i)'
    <3>1. HeldOnce(i)
      BY <1>0, <1>4, <2>2 DEF Narratives
    <3>2. \A c : Current(c, i)' <=> Current(c, i)
      BY <1>2 DEF Current, unchanged
    <3>3. \A w \in Workers : Leases(w, i)' <=> Leases(w, i)
      BY <1>1 DEF Leases
    <3>4. Unstored(i)' <=> Unstored(i)
      BY <1>2, <1>4 DEF Unstored
    <3>5. ASSUME NEW w \in Workers, Leases(w, i) \/ (\E c \in Claims(w) : Current(c, i))
          PROVE  incident'[i].wait > 0 /\ Unstored(i)'
      <4>1. i \in Holds(w)
        BY <3>5 DEF Holds, Leases, Current, Claims
      <4>2. incident[i].wait > 0 /\ Unstored(i)
        BY <3>1, <3>5 DEF HeldOnce
      <4> QED
        BY <1>2, <1>4, <2>2, <3>4, <4>1, <4>2
    <3>6. incident'[i].wait # None => Unstored(i)'
      BY <1>2, <3>1, <3>4 DEF HeldOnce
    <3> QED
      BY <1>1, <1>6, <3>1, <3>2, <3>3, <3>5, <3>6 DEF HeldOnce
  <2> QED
    BY <2>1, <2>2
<1>9. ASSUME NEW w \in Workers PROVE Asked(w)'
  <2>1. \A c \in worker[w].serving : c.id \in Incidents
    BY <1>0, ClaimTyped DEF Claims
  <2> QED
    BY <1>0, <1>1, <1>2, <1>4, <2>1 DEF Narratives, Asked, unchanged
<1> QED
  BY <1>5, <1>7, <1>8, <1>9 DEF RcaInv, Narratives

\* A claim: the request was due, so nobody holds it.
LEMMA ClaimKeeps ==
    ASSUME RcaInv, NEW w \in Workers, NEW i \in Incidents, claimNarrativeRequests(w, i)
    PROVE  RcaInv'
<1>0. /\ TypeOK /\ Narratives /\ incident \in [Incidents -> Row] /\ history \in HistoryType
      /\ worker \in [Workers -> WorkerState]
      /\ faults \in 0..scenario.faults /\ incident[i] \in Row /\ worker[w] \in WorkerState
      /\ SettleTicks \in Nat /\ LeaseTicks \in Nat /\ LeaseTicks > 0 /\ MAX_ATTEMPTS \in Nat
  BY Types, Counts DEF RcaInv
<1>1. /\ worker[w].leased = {} /\ incident[i].wait = 0
      /\ UNCHANGED <<topology, analysis, requests, history, edits, faults, scenario>>
  BY DEF claimNarrativeRequests, Due
<1>2. PICK row : row = [incident[i] EXCEPT !.wait = LeaseTicks + SettleTicks,
                           !.rcaLlmAttempts = incident[i].rcaLlmAttempts + 1]
  OBVIOUS
<1>3. /\ row \in Row /\ row.rcaGeneratedAt = incident[i].rcaGeneratedAt
      /\ row.rcaFindings = incident[i].rcaFindings /\ row.rcaSummary = incident[i].rcaSummary
      /\ row.wait > 0
  <2>1. LeaseTicks + SettleTicks \in Wait /\ LeaseTicks + SettleTicks > 0
    BY <1>0 DEF Wait, None
  <2>2. incident[i].rcaLlmAttempts + 1 \in 0..MAX_ATTEMPTS
    BY <1>0 DEF claimNarrativeRequests, Due, Row
  <2> HIDE DEF Findings, Wait
  <2> QED
    BY <1>0, <1>2, <2>1, <2>2 DEF Row
<1>4. /\ incident' \in [Incidents -> Row]
      /\ \A j \in Incidents : incident'[j] = IF j = i THEN row ELSE incident[j]
  <2>1. incident' = [incident EXCEPT ![i] = row]
    BY <1>0, <1>2 DEF claimNarrativeRequests
  <2> QED
    BY <1>0, <1>3, <2>1
<1>5. PICK x : x = [worker[w] EXCEPT !.leased = {i}]
  OBVIOUS
<1>6. /\ x \in WorkerState /\ x.leased = {i} /\ x.claimed = worker[w].claimed
      /\ x.serving = worker[w].serving /\ x.asked = worker[w].asked
  BY <1>0, <1>5 DEF WorkerState
<1>7. worker' = [worker EXCEPT ![w] = x]
  BY <1>0, <1>5 DEF claimNarrativeRequests
<1>8. /\ TypeOK' /\ StampsInOrder' /\ StampsFresh'
      /\ \A v \in Workers : worker'[v] = IF v = w THEN x ELSE worker[v]
  <2>1. \A c \in x.claimed \cup x.serving : c \in Claims(w)
    BY <1>6 DEF Claims
  <2>2. \A j \in Incidents : incident'[j].rcaGeneratedAt = incident[j].rcaGeneratedAt
    BY <1>3, <1>4
  <2> QED
    BY <1>0, <1>1, <1>4, <1>6, <1>7, <2>1, <2>2, WorkerMoves
<1>9. \A v \in Workers : /\ worker'[v].claimed = worker[v].claimed
                         /\ worker'[v].serving = worker[v].serving
                         /\ worker'[v].asked = worker[v].asked
                         /\ worker'[v].leased = IF v = w THEN {i} ELSE worker[v].leased
  BY <1>6, <1>8
<1>10. \A v \in Workers : Claims(v)' = Claims(v)
  BY <1>9 DEF Claims
<1>11. ASSUME NEW j \in Incidents PROVE Matched(j)' /\ (j \in history'.late \/ HeldOnce(j)')
  <2>1. Matched(j)'
    BY <1>0, <1>1, <1>3, <1>4 DEF Narratives, Matched
  <2>2. \A c : Current(c, j)' <=> Current(c, j)
    BY <1>3, <1>4 DEF Current, unchanged
  <2>3. ASSUME HeldOnce(j) PROVE HeldOnce(j)'
    <3>1. CASE j = i
      <4>1. /\ \A v \in Workers : ~ Leases(v, i)
            /\ \A v \in Workers : \A c \in Claims(v) : ~ Current(c, i)
        <5>1. ~ (incident[i].wait > 0)
          BY <1>1
        <5> QED
          BY <2>3, <3>1, <5>1 DEF HeldOnce
      <4>2. Unstored(i)
        BY <1>1, <2>3, <3>1 DEF HeldOnce, None
      <4>3. \A v \in Workers : \A c \in Claims(v)' : ~ Current(c, i)'
        BY <1>10, <2>2, <3>1, <4>1
      <4>4. \A v \in Workers : Leases(v, i)' => v = w
        BY <1>9, <4>1 DEF Leases
      <4>5. \A v \in Workers : \A c \in worker'[v].claimed : ~ Current(c, i)'
        BY <4>3 DEF Claims
      <4>6. incident'[i].wait > 0 /\ Unstored(i)'
        BY <1>1, <1>3, <1>4, <4>2 DEF Unstored
      <4> QED
        BY <3>1, <4>3, <4>4, <4>5, <4>6 DEF HeldOnce
    <3>2. CASE j # i
      <4>1. \A v \in Workers : Leases(v, j)' <=> Leases(v, j)
        BY <1>1, <1>9, <3>2 DEF Leases
      <4>2. incident'[j] = incident[j] /\ (Unstored(j)' <=> Unstored(j))
        BY <1>1, <1>4, <3>2 DEF Unstored
      <4> QED
        BY <1>9, <1>10, <2>2, <2>3, <4>1, <4>2 DEF HeldOnce
    <3> QED
      BY <3>1, <3>2
  <2> QED
    BY <1>0, <1>1, <2>1, <2>3 DEF Narratives
<1>12. ASSUME NEW v \in Workers PROVE Asked(v)'
  <2>1. \A c \in worker[v].serving : c.id \in Incidents
    BY <1>0, ClaimTyped DEF Claims
  <2>2. \A j \in Incidents : /\ incident'[j].rcaGeneratedAt = incident[j].rcaGeneratedAt
                             /\ incident'[j].rcaFindings = incident[j].rcaFindings
    BY <1>3, <1>4
  <2> QED
    BY <1>0, <1>1, <1>9, <2>1, <2>2 DEF Narratives, Asked, unchanged
<1> QED
  BY <1>8, <1>11, <1>12 DEF RcaInv, Narratives

\* The lease becomes a claim that carries the row's stamp.
LEMMA ReadKeeps ==
    ASSUME RcaInv, NEW w \in Workers, ReadClaimed(w)
    PROVE  RcaInv'
<1>0. /\ TypeOK /\ Narratives /\ incident \in [Incidents -> Row] /\ history \in HistoryType
      /\ worker \in [Workers -> WorkerState]
      /\ faults \in 0..scenario.faults /\ worker[w] \in WorkerState
  BY Types DEF RcaInv
<1>1. UNCHANGED <<topology, incident, analysis, requests, history, edits, faults, scenario>>
  BY DEF ReadClaimed
<1>2. PICK i \in worker[w].leased :
          worker' = [worker EXCEPT ![w].leased = {}, ![w].claimed = @ \cup
             {[id |-> i, rcaGeneratedAt |-> incident[i].rcaGeneratedAt,
               rcaLlmAttempts |-> incident[i].rcaLlmAttempts]}]
  BY DEF ReadClaimed
<1>3. PICK c : c = [id |-> i, rcaGeneratedAt |-> incident[i].rcaGeneratedAt,
                    rcaLlmAttempts |-> incident[i].rcaLlmAttempts]
  OBVIOUS
<1>4. i \in Incidents /\ c \in Claim /\ c.id = i /\ unchanged(c)
  <2>1. i \in Incidents
    BY <1>0 DEF WorkerState
  <2> QED
    BY <1>0, <1>3, <2>1 DEF Claim, Row, unchanged
<1>5. PICK x : x = [worker[w] EXCEPT !.leased = {}, !.claimed = worker[w].claimed \cup {c}]
  OBVIOUS
<1>6. /\ x \in WorkerState /\ x.leased = {} /\ x.claimed = worker[w].claimed \cup {c}
      /\ x.serving = worker[w].serving /\ x.asked = worker[w].asked
  BY <1>0, <1>4, <1>5 DEF WorkerState
<1>7. worker' = [worker EXCEPT ![w] = x]
  BY <1>0, <1>2, <1>3, <1>5
<1>8. /\ TypeOK' /\ StampsInOrder' /\ StampsFresh'
      /\ \A v \in Workers : worker'[v] = IF v = w THEN x ELSE worker[v]
  <2>1. \A d \in x.claimed \cup x.serving :
           \/ d \in Claims(w)
           \/ d.id \in Incidents /\ d.rcaGeneratedAt = incident[d.id].rcaGeneratedAt
    BY <1>4, <1>6 DEF Claims, unchanged
  <2> QED
    BY <1>0, <1>1, <1>6, <1>7, <2>1, WorkerMoves
<1>9. \A v \in Workers :
         /\ worker'[v].serving = worker[v].serving /\ worker'[v].asked = worker[v].asked
         /\ worker'[v].claimed = IF v = w THEN worker[v].claimed \cup {c} ELSE worker[v].claimed
         /\ worker'[v].leased = IF v = w THEN {} ELSE worker[v].leased
         /\ Claims(v)' = IF v = w THEN Claims(v) \cup {c} ELSE Claims(v)
  BY <1>6, <1>8 DEF Claims
<1>10. \A d, j : Current(d, j)' <=> Current(d, j)
  BY <1>1 DEF Current, unchanged
<1>11. ASSUME NEW j \in Incidents, HeldOnce(j) PROVE HeldOnce(j)'
  <2>1. CASE j = i
    <3>1. Leases(w, i) /\ Current(c, i)
      BY <1>2, <1>4 DEF Leases, Current
    <3>2. /\ incident[i].wait > 0 /\ Unstored(i)
          /\ \A v \in Workers : Leases(v, i) => v = w
          /\ \A v \in Workers : \A d \in Claims(v) : ~ Current(d, i)
      BY <1>11, <2>1, <3>1 DEF HeldOnce
    <3>3. \A v \in Workers : ~ Leases(v, i)'
      BY <1>9, <3>2 DEF Leases
    <3>4. \A v \in Workers : \A d \in Claims(v)' : Current(d, i)' => v = w /\ d = c
      BY <1>9, <1>10, <3>2
    <3>5. \A v \in Workers : \A d \in worker'[v].serving : ~ Current(d, i)'
      BY <1>9, <1>10, <3>2 DEF Claims
    <3>6. Unstored(i)'
      BY <1>1, <3>2 DEF Unstored
    <3> QED
      BY <1>1, <2>1, <3>2, <3>3, <3>4, <3>5, <3>6 DEF HeldOnce
  <2>2. CASE j # i
    <3>1. ~ Current(c, j)
      BY <1>4, <2>2 DEF Current
    <3>2. \A v \in Workers : Leases(v, j)' => Leases(v, j)
      BY <1>9 DEF Leases
    <3>3. /\ \A v \in Workers : \A d \in Claims(v)' : Current(d, j)' => Current(d, j) /\ d \in Claims(v)
          /\ \A v \in Workers : \A d \in worker'[v].claimed :
                Current(d, j)' => Current(d, j) /\ d \in worker[v].claimed
      BY <1>9, <1>10, <3>1
    <3>4. \A v \in Workers : worker'[v].serving = worker[v].serving
      BY <1>9
    <3>5. incident'[j] = incident[j] /\ (Unstored(j)' <=> Unstored(j))
      BY <1>1 DEF Unstored
    <3> QED
      BY <1>10, <1>11, <3>2, <3>3, <3>4, <3>5 DEF HeldOnce
  <2> QED
    BY <2>1, <2>2
<1>12. \A j \in Incidents : Matched(j)' /\ (j \in history'.late \/ HeldOnce(j)')
  BY <1>0, <1>1, <1>11 DEF Narratives, Matched
<1>13. ASSUME NEW v \in Workers PROVE Asked(v)'
  BY <1>0, <1>1, <1>9 DEF Narratives, Asked, unchanged
<1> QED
  BY <1>8, <1>12, <1>13 DEF RcaInv, Narratives

\* The worker turns to a claim, and reads the findings it will ask about.
LEMMA ServeKeeps ==
    ASSUME RcaInv, NEW w \in Workers, Serve(w)
    PROVE  RcaInv'
<1>0. /\ TypeOK /\ Narratives /\ incident \in [Incidents -> Row] /\ history \in HistoryType
      /\ worker \in [Workers -> WorkerState]
      /\ faults \in 0..scenario.faults /\ worker[w] \in WorkerState
  BY Types DEF RcaInv
<1>1. /\ UNCHANGED <<topology, incident, analysis, requests, history, edits, faults, scenario>>
      /\ worker[w].serving = {}
  BY DEF Serve
<1>2. PICK c \in worker[w].claimed :
          worker' = [worker EXCEPT ![w].serves = TRUE, ![w].claimed = @ \ {c},
                        ![w].serving = {c}, ![w].asked = incident[c.id].rcaFindings]
  BY DEF Serve
<1>3. PICK f : f = incident[c.id].rcaFindings
  OBVIOUS
<1> HIDE DEF Findings
<1>4. c \in Claim /\ c.id \in Incidents /\ f \in Findings \cup {NoFindings}
  <2>1. c \in Claim /\ c.id \in Incidents
    BY <1>0 DEF WorkerState, Claim
  <2> QED
    BY <1>0, <1>3, <2>1 DEF Row
<1>5. PICK x : x = [worker[w] EXCEPT !.serves = TRUE, !.claimed = worker[w].claimed \ {c},
                       !.serving = {c}, !.asked = f]
  OBVIOUS
<1>6. /\ x \in WorkerState /\ x.leased = worker[w].leased /\ x.claimed = worker[w].claimed \ {c}
      /\ x.serving = {c} /\ x.asked = f
  BY <1>0, <1>4, <1>5 DEF WorkerState
<1>7. worker' = [worker EXCEPT ![w] = x]
  BY <1>0, <1>2, <1>3, <1>5
<1>8. /\ TypeOK' /\ StampsInOrder' /\ StampsFresh'
      /\ \A v \in Workers : worker'[v] = IF v = w THEN x ELSE worker[v]
  <2>1. \A d \in x.claimed \cup x.serving : d \in Claims(w)
    BY <1>2, <1>6 DEF Claims
  <2> QED
    BY <1>0, <1>1, <1>6, <1>7, <2>1, WorkerMoves
<1>9. \A v \in Workers : Claims(v)' = Claims(v) /\ worker'[v].leased = worker[v].leased
  BY <1>1, <1>2, <1>6, <1>8 DEF Claims
<1>10. \A d, j : Current(d, j)' <=> Current(d, j)
  BY <1>1 DEF Current, unchanged
<1>11. ASSUME NEW j \in Incidents, HeldOnce(j) PROVE HeldOnce(j)'
  <2>1. ASSUME NEW v \in Workers, NEW d \in worker'[v].claimed, NEW e \in worker'[v].serving,
               Current(d, j)', Current(e, j)'
        PROVE  FALSE
    <3>1. CASE v = w
      <4>1. d \in Claims(w) /\ d # c /\ e = c /\ c \in Claims(w)
        BY <1>2, <1>6, <1>8, <2>1, <3>1 DEF Claims
      <4> QED
        BY <1>10, <1>11, <2>1, <4>1 DEF HeldOnce
    <3>2. CASE v # w
      BY <1>8, <1>10, <1>11, <2>1, <3>2 DEF HeldOnce
    <3> QED
      BY <3>1, <3>2
  <2>2. \A v \in Workers : Leases(v, j)' <=> Leases(v, j)
    BY <1>9 DEF Leases
  <2>3. incident'[j] = incident[j] /\ (Unstored(j)' <=> Unstored(j))
    BY <1>1 DEF Unstored
  <2> QED
    BY <1>9, <1>10, <1>11, <2>1, <2>2, <2>3 DEF HeldOnce
<1>12. \A j \in Incidents : Matched(j)' /\ (j \in history'.late \/ HeldOnce(j)')
  BY <1>0, <1>1, <1>11 DEF Narratives, Matched
<1>13. ASSUME NEW v \in Workers PROVE Asked(v)'
  <2>1. CASE v = w
    BY <1>1, <1>3, <1>6, <1>8, <2>1 DEF Asked
  <2>2. CASE v # w
    BY <1>0, <1>1, <1>8, <2>2 DEF Narratives, Asked, unchanged
  <2> QED
    BY <2>1, <2>2
<1> QED
  BY <1>8, <1>12, <1>13 DEF RcaInv, Narratives

\* The outcome is written only where the stamp is still that of the claim: then
\* the worker was the only one to hold the request, and holds it no longer.
LEMMA OutcomeKeeps ==
    ASSUME RcaInv, NEW w \in Workers, NEW outcome \in {"stored", "unrecorded", "refused", "failed"},
           serveNarrative(w, outcome)
    PROVE  RcaInv'
<1>0. /\ TypeOK /\ Narratives /\ incident \in [Incidents -> Row] /\ history \in HistoryType
      /\ worker \in [Workers -> WorkerState]
      /\ faults \in 0..scenario.faults /\ worker[w] \in WorkerState
      /\ SettleTicks \in Nat /\ LeaseTicks \in Nat /\ MAX_ATTEMPTS \in Nat
  BY Types, Counts DEF RcaInv
<1>1. PICK c \in worker[w].serving :
        /\ worker' = Served(w)
        /\ incident' = IF unchanged(c)
                       THEN [incident EXCEPT ![c.id] = Outcome(@, c, worker[w].asked, outcome)]
                       ELSE incident
        /\ IF outcome = "unrecorded"
           THEN /\ Fault /\ unchanged(c)
                /\ history' = [history EXCEPT !.unrecorded = @ \cup {c.id}]
           ELSE UNCHANGED <<faults, history>>
        /\ UNCHANGED <<topology, analysis, requests, edits, scenario>>
  BY DEF serveNarrative
<1>2. PICK i \in Incidents : i = c.id
  BY <1>0 DEF WorkerState, Claim
<1> HIDE DEF Findings
<1>3. PICK f \in Findings \cup {NoFindings} : f = worker[w].asked
  BY <1>0 DEF WorkerState
<1>4. PICK b \in BOOLEAN : b = (worker[w].claimed # {})
  <2>1. CASE worker[w].claimed # {}
    <3> WITNESS TRUE \in BOOLEAN
    <3> QED BY <2>1
  <2>2. CASE ~ (worker[w].claimed # {})
    <3> WITNESS FALSE \in BOOLEAN
    <3> QED BY <2>2
  <2> QED BY <2>1, <2>2
<1>5. PICK x : x = [worker[w] EXCEPT !.serving = {}, !.asked = NoFindings, !.serves = b]
  OBVIOUS
<1>6. /\ x \in WorkerState /\ x.leased = worker[w].leased /\ x.claimed = worker[w].claimed
      /\ x.serving = {}
  BY <1>0, <1>5 DEF WorkerState
<1>7. worker' = [worker EXCEPT ![w] = x]
  BY <1>0, <1>1, <1>4, <1>5 DEF Served
<1>8. CASE ~ unchanged(c)
  BY <1>0, <1>1, <1>6, <1>7, <1>8, Drops
<1>9. /\ faults' \in 0..scenario.faults /\ history' \in HistoryType
      /\ UNCHANGED <<history.late, history.restamped>>
      /\ history.unrecorded \subseteq history'.unrecorded
      /\ outcome = "unrecorded" => i \in history'.unrecorded
  <2>1. CASE outcome = "unrecorded"
    <3>1. PICK U : U = history.unrecorded \cup {i}
      OBVIOUS
    <3>2. history' = [history EXCEPT !.unrecorded = U]
      BY <1>1, <1>2, <2>1, <3>1
    <3>3. U \subseteq Incidents
      BY <1>0, <3>1 DEF HistoryType
    <3>4. /\ history' \in HistoryType /\ history'.unrecorded = U
          /\ history'.late = history.late /\ history'.restamped = history.restamped
      BY <1>0, <3>2, <3>3 DEF HistoryType
    <3>5. faults' \in 0..scenario.faults
      BY <1>0, <1>1, <2>1, FaultCounted
    <3> QED
      BY <3>1, <3>4, <3>5
  <2>2. CASE outcome # "unrecorded"
    BY <1>0, <1>1, <2>2
  <2> QED
    BY <2>1, <2>2
<1>10. CASE unchanged(c)
  <2>1. PICK row : row = Outcome(incident[i], c, f, outcome)
    OBVIOUS
  <2>2. /\ row \in Row /\ row.rcaGeneratedAt = incident[i].rcaGeneratedAt
        /\ row.rcaFindings = incident[i].rcaFindings
        /\ \/ row.rcaSummary = f /\ (row.wait = None \/ outcome = "unrecorded")
           \/ row.rcaSummary = incident[i].rcaSummary
    <3>1. c.rcaLlmAttempts \in Wait /\ None \in Wait
      BY <1>0 DEF WorkerState, Claim, Wait, None
    <3>2. PICK t \in Wait : t = backOff(c)
      BY <3>1 DEF backOff
    <3>3. incident[i] \in Row
      BY <1>0
    <3> HIDE DEF Wait
    <3>4. CASE outcome = "stored"
      <4>1. row = [incident[i] EXCEPT !.rcaSummary = f, !.wait = None]
        BY <2>1, <3>4 DEF Outcome
      <4> QED
        BY <3>1, <3>3, <4>1 DEF Row
    <3>5. CASE outcome = "refused"
      <4>1. row = [incident[i] EXCEPT !.wait = None]
        BY <2>1, <3>5 DEF Outcome
      <4> QED
        BY <3>1, <3>3, <4>1 DEF Row
    <3>6. CASE outcome = "failed"
      <4>1. row = [incident[i] EXCEPT !.wait = t]
        BY <2>1, <3>2, <3>6 DEF Outcome
      <4> QED
        BY <3>3, <4>1 DEF Row
    <3>7. CASE outcome = "unrecorded"
      <4>1. row = [incident[i] EXCEPT !.rcaSummary = f, !.wait = t]
        BY <2>1, <3>2, <3>7 DEF Outcome
      <4> QED
        BY <3>3, <3>7, <4>1 DEF Row
    <3> QED
      BY <3>4, <3>5, <3>6, <3>7
  <2>3. /\ incident' \in [Incidents -> Row]
        /\ \A j \in Incidents : incident'[j] = IF j = i THEN row ELSE incident[j]
    BY <1>0, <1>1, <1>2, <1>3, <1>10, <2>1, <2>2
  <2>4. /\ TypeOK' /\ StampsInOrder' /\ StampsFresh'
        /\ \A v \in Workers : worker'[v] = IF v = w THEN x ELSE worker[v]
    <3>1. \A d \in x.claimed \cup x.serving : d \in Claims(w)
      BY <1>6 DEF Claims
    <3>2. \A j \in Incidents : incident'[j].rcaGeneratedAt = incident[j].rcaGeneratedAt
      BY <2>2, <2>3
    <3> QED
      BY <1>0, <1>1, <1>6, <1>7, <1>9, <2>3, <3>1, <3>2, WorkerMoves
  <2>5. \A v \in Workers : /\ worker'[v].claimed = worker[v].claimed
                           /\ worker'[v].leased = worker[v].leased
                           /\ worker'[v].serving \subseteq worker[v].serving
                           /\ Claims(v)' \subseteq Claims(v)
                           /\ v = w => Claims(v)' = worker[w].claimed
    BY <1>6, <2>4 DEF Claims
  <2>6. \A j \in Incidents : Matched(j)'
    <3>1. f = incident[i].rcaFindings \/ i \in history.restamped
      BY <1>0, <1>1, <1>2, <1>3, <1>10 DEF Narratives, Asked
    <3> QED
      BY <1>0, <1>9, <2>2, <2>3, <3>1 DEF Narratives, Matched
  <2>7. ASSUME NEW j \in Incidents, HeldOnce(j) PROVE HeldOnce(j)'
    <3>1. CASE j # i
      <4>1. incident'[j] = incident[j]
        BY <2>3, <3>1
      <4> QED
        BY <1>9, <2>5, <2>7, <4>1, HeldLess
    <3>2. CASE j = i
      <4>1. c \in Claims(w) /\ Current(c, i)
        BY <1>2, <1>10 DEF Claims, Current
      <4>2. /\ Unstored(i)
            /\ \A v \in Workers : ~ Leases(v, i)
            /\ \A v \in Workers : \A d \in Claims(v) : Current(d, i) => v = w /\ d = c
            /\ ~ (\E d \in worker[w].claimed : Current(d, i))
        BY <1>1, <2>7, <3>2, <4>1 DEF HeldOnce
      <4>3. \A d : Current(d, i)' <=> Current(d, i)
        BY <2>2, <2>3 DEF Current, unchanged
      <4>4. \A v \in Workers : ~ Leases(v, i)'
        BY <2>5, <4>2 DEF Leases
      <4>5. \A v \in Workers : \A d \in Claims(v)' : ~ Current(d, i)'
        BY <2>5, <4>2, <4>3
      <4>6. \A v \in Workers : \A d \in worker'[v].claimed : ~ Current(d, i)'
        BY <4>5 DEF Claims
      <4>7. incident'[i].wait # None => Unstored(i)'
        BY <1>9, <2>2, <2>3, <4>2 DEF Unstored
      <4> QED
        BY <3>2, <4>4, <4>5, <4>6, <4>7 DEF HeldOnce
    <3> QED
      BY <3>1, <3>2
  <2>8. ASSUME NEW v \in Workers PROVE Asked(v)'
    <3>1. CASE v = w
      BY <1>6, <2>4, <3>1 DEF Asked
    <3>2. CASE v # w
      <4>1. \A d \in worker[v].serving : d.id \in Incidents
        BY <1>0, ClaimTyped DEF Claims
      <4>2. \A j \in Incidents : /\ incident'[j].rcaGeneratedAt = incident[j].rcaGeneratedAt
                                 /\ incident'[j].rcaFindings = incident[j].rcaFindings
        BY <2>2, <2>3
      <4> QED
        BY <1>0, <1>9, <2>4, <3>2, <4>1, <4>2 DEF Narratives, Asked, unchanged
    <3> QED
      BY <3>1, <3>2
  <2> QED
    BY <1>0, <1>9, <2>4, <2>6, <2>7, <2>8 DEF RcaInv, Narratives
<1> QED
  BY <1>8, <1>10

-----------------------------------------------------------------------------
(* The theorems *)

LEMMA RcaInit == Init => RcaInv
<1> SUFFICES ASSUME Init PROVE RcaInv
  OBVIOUS
<1>0. scenario \in Scenarios
  BY DEF Init
<1>1. /\ requests = 0 /\ edits = 0 /\ faults = 0 /\ worker = [w \in Workers |-> AtRest]
      /\ analysis = [p \in Analyses |-> Idle]
      /\ history = [disturbed |-> FALSE, lost |-> {}, late |-> {}, restamped |-> {},
                    unrecorded |-> {}]
  BY DEF Init
<1>2. PICK row : row = [status |-> "none", startedAt |-> 0, rcaFindings |-> NoFindings,
           rcaGeneratedAt |-> 0, wait |-> None, rcaLlmAttempts |-> 0, rcaSummary |-> NoFindings]
  OBVIOUS
<1>3. incident = [i \in Incidents |-> row]
  BY <1>2 DEF Init
<1>4. 0 \in 0..MaxRequests /\ 0 \in 0..scenario.edits /\ 0 \in 0..scenario.faults
      /\ 0 \in 0..MAX_ATTEMPTS /\ None \in Wait
  BY <1>0, Counts DEF Wait, None
<1>5. row \in Row /\ row.rcaGeneratedAt = 0 /\ row.rcaSummary = NoFindings
  <2> HIDE DEF Findings, Wait
  <2> QED
    BY <1>2, <1>4 DEF Row
<1>6. AtRest \in WorkerState /\ AtRest.claimed = {} /\ AtRest.leased = {} /\ AtRest.serving = {}
  BY DEF AtRest, WorkerState
<1>7. Idle \in Analysis /\ Idle.stage = "idle"
  <2>1. (CHOOSE i \in Incidents : TRUE) \in Incidents
    BY RcaAssumption
  <2> QED
    BY <1>4, <2>1 DEF Idle, Analysis
<1>8. TopologyTypeOK
  <2>1. scenario.map \in DrawnMaps
    BY <1>0, RcaAssumption
  <2>2. PICK m \in DrawnMaps : node = m.node /\ edges = m.edges
    BY <2>1 DEF Init, Draw
  <2> QED
    BY <2>2 DEF DrawnMaps, Maps, TopologyTypeOK, Present
<1>9. TypeOK
  BY <1>0, <1>1, <1>3, <1>4, <1>5, <1>6, <1>7, <1>8 DEF TypeOK, WorkerState
<1>10. StampsInOrder /\ StampsFresh
  BY <1>1, <1>3, <1>5, <1>6, <1>7 DEF StampsInOrder, StampsFresh, Running, Claims
<1>11. Narratives
  <2>1. \A i \in Incidents : Matched(i) /\ Unstored(i)
    BY <1>3, <1>5 DEF Matched, Unstored
  <2>2. \A w \in Workers : worker[w].claimed = {} /\ worker[w].serving = {} /\ worker[w].leased = {}
    BY <1>1, <1>6
  <2> QED
    BY <2>1, <2>2 DEF Narratives, HeldOnce, Asked, Claims, Leases
<1> QED
  BY <1>9, <1>10, <1>11 DEF RcaInv

LEMMA RcaNext == RcaInv /\ [Next]_vars => RcaInv'
<1> SUFFICES ASSUME RcaInv, [Next]_vars PROVE RcaInv'
  OBVIOUS
<1>1. CASE Tick \/ ChangeMap
  BY <1>1, TickKeeps, MapKeeps
<1>2. ASSUME NEW i \in Incidents, NEW status \in {"OPEN", "RESOLVED"}, SetStatus(i, status)
      PROVE  RcaInv'
  BY <1>2, StatusKeeps
<1>3. ASSUME NEW p \in Analyses, Analyse(p) \/ AnalysisFails(p) PROVE RcaInv'
  BY <1>3, AnalysesKeep, WriteKeeps DEF Analyse
<1>4. ASSUME NEW p \in Analyses, Evaluate(p) PROVE RcaInv'
  <2>1. PICK i : i \in Incidents
    BY RcaAssumption
  <2> QED
    BY <1>4, <2>1, RequestsKeep
<1>5. ASSUME NEW p \in Analyses, NEW i \in Incidents, Open(p, i) \/ reanalyzeIncident(p, i)
      PROVE  RcaInv'
  BY <1>5, RequestsKeep
<1>6. ASSUME NEW w \in Workers, Work(w) PROVE RcaInv'
  BY <1>6, ClaimKeeps, ReadKeeps, ServeKeeps, OutcomeKeeps DEF Work
<1>7. ASSUME NEW w \in Workers, Interrupt(w) \/ Abort(w) PROVE RcaInv'
  BY <1>7, DropsKeep
<1>8. CASE UNCHANGED vars
  <2>1. UNCHANGED <<topology, incident, analysis, worker, requests, history, edits, faults, scenario>>
    BY <1>8 DEF vars, rca
  <2>2. TypeOK'
    <3>1. UNCHANGED topology /\ UNCHANGED scenario
      BY <2>1
    <3> QED
      BY <2>1, <3>1, Types, TopologyStays, TypesStay DEF RcaInv
  <2>3. StampsInOrder' /\ StampsFresh'
    BY <2>1 DEF RcaInv, StampsInOrder, StampsFresh, Running, Claims
  <2>4. Narratives'
    BY <2>1, NarrativesStay
  <2> QED
    BY <2>2, <2>3, <2>4 DEF RcaInv
<1> QED
  BY <1>1, <1>2, <1>3, <1>4, <1>5, <1>6, <1>7, <1>8 DEF Next

LEMMA RcaInductive == Spec => []RcaInv
BY RcaInit, RcaNext, PTL DEF Spec

\* Rows, analyses, workers, the map and the history keep their types; findings
\* name nodes of the map and other incidents only (analyzeIncident, rca.ts).
THEOREM Typing == Spec => []TypeOK
<1>1. RcaInv => TypeOK
  BY DEF RcaInv
<1> QED
  BY <1>1, RcaInductive, PTL

\* However many analyses and workers are at work: a narrative stored beside
\* findings was written about those findings, unless one request wrote both the
\* old and the new ones (the compare-and-set of serveNarrative, rca-llm.ts).
THEOREM NarrativesMatch == Spec => []NarrativeMatchesFindings
<1>1. RcaInv => NarrativeMatchesFindings
  BY DEF RcaInv, Narratives, Matched, NarrativeMatchesFindings
<1> QED
  BY <1>1, RcaInductive, PTL

\* However many workers claim requests: a request for the present findings is in
\* the hands of one worker, and of none once their narrative is stored, unless a
\* lease ran out or an analysis put the request back inside a claim
\* (claimNarrativeRequests); a narrative whose event could not be inserted may be
\* asked for again, by one worker at a time (serveNarrative, rca-llm.ts).
THEOREM NarrativesServedOnce == Spec => []ServedOnce
<1>1. RcaInv => ServedOnce
  <2> SUFFICES ASSUME RcaInv, NEW i \in Incidents \ history.late
               PROVE  /\ \A v, w \in Workers : \A c \in InHand(v, i), d \in InHand(w, i) :
                            v = w /\ c = d
                      /\ incident[i].rcaSummary # NoFindings /\ i \notin history.unrecorded =>
                            \A w \in Workers : InHand(w, i) = {}
    BY DEF ServedOnce
  <2>1. HeldOnce(i)
    BY DEF RcaInv, Narratives
  <2>2. \A w \in Workers : \A c \in InHand(w, i) : c \in Claims(w) /\ Current(c, i)
    BY DEF InHand, Claims, Current, unchanged
  <2>3. \A v, w \in Workers : \A c \in InHand(v, i), d \in InHand(w, i) : v = w /\ c = d
    BY <2>1, <2>2 DEF HeldOnce
  <2>4. ASSUME ~ Unstored(i), NEW w \in Workers
        PROVE  InHand(w, i) = {}
    BY <2>1, <2>2, <2>4 DEF HeldOnce
  <2> QED
    BY <2>3, <2>4 DEF Unstored
<1> QED
  BY <1>1, RcaInductive, PTL


-----------------------------------------------------------------------------
(* The findings. Undisturbed, one request analyses at a time, and what it has *)
(* still to do is what it holds: after the incident it opened, the neighbours *)
(* it listed. All the others are as an analysis would leave them now.         *)

UpToDate(i) == signature(incident[i].rcaFindings) = signature(analyzeIncident(i))
Settled(rest) == \A i \in Incidents \ rest : Active(i) => UpToDate(i)

\* Few enough incidents are active for one refresh to reach them all.
ActiveOnes == {i \in Incidents : Active(i)}
Few == Cardinality(ActiveOnes) <= MAX_REFRESH + 1

\* How far an analysis in progress has come.
Progress(a) ==
    /\ a.first \/ a.stage = "neighbours" => Active(a.id)
    /\ a.stage = "batch" => Settled({})
    /\ a.stage \in {"read", "write"} /\ ~ a.first => Settled({a.id} \cup a.todo)
    /\ a.stage = "write" => a.findings = analyzeIncident(a.id)
    /\ a.stage = "neighbours" => ~ a.first /\ UpToDate(a.id)

FindingsInv ==
    ~ history.disturbed =>
        /\ \A p, q \in Running : p = q
        /\ Few => /\ Running = {} => Settled({})
                  /\ \A p \in Running : Progress(analysis[p])

\* The findings of an incident depend on the map and on when incidents began and
\* whether they are active.
LEMMA AnalysisFrame ==
    ASSUME UNCHANGED topology,
           \A o \in Incidents : /\ incident'[o].status = incident[o].status
                                /\ incident'[o].startedAt = incident[o].startedAt,
           NEW i \in Incidents
    PROVE  (Active(i)' <=> Active(i)) /\ analyzeIncident(i)' = analyzeIncident(i)
<1>1. node' = node /\ edges' = edges
  BY DEF topology
<1>2. \A o \in Incidents : (Active(o)' <=> Active(o)) /\ (Exists(o)' <=> Exists(o))
                           /\ (inWindow(i, o)' <=> inWindow(i, o))
  BY DEF Active, Exists, inWindow
<1>3. Peers(i)' = Peers(i)
  BY <1>2 DEF Peers
<1>4. \A S : NodesOf(S)' = NodesOf(S)
  BY <1>1 DEF NodesOf
<1>5. Peers(i) \subseteq Incidents
  BY DEF Peers
<1>6. analyzeIncident(i)' = analyzeIncident(i)
  <2> DEFINE
        peers == Peers(i)
        self == NodesOf({i})
        unhealthy == NodesOf(peers) \cup self
        radius == UNION {blastRadius(edges, n) : n \in self}
        failingUpstream == (UNION {dependenciesOf(edges, n) : n \in self}) \cap unhealthy
        roots == rootCauseCandidates(edges, unhealthy) \cap failingUpstream
        failingDependents == radius \cap unhealthy
        sameSource == {o \in peers : sourceOf[o] = sourceOf[i]}
        linked == sameSource \cup
            {o \in peers : NodesOf({o}) \cap (failingUpstream \cup failingDependents) # {}}
        Listed(S) == {<<n, {o \in peers : node[n] = sourceOf[o]}>> : n \in S}
        verdict == CASE self = {} -> "not_mapped" [] failingUpstream # {} -> "symptom"
                     [] failingDependents # {} -> "root_cause" [] OTHER -> "isolated"
        causes == IF roots # {} THEN roots ELSE failingUpstream
        correlated == {o \in peers : inWindow(i, o) /\ o \notin linked}
        first == \A o \in peers : inWindow(i, o) => incident[o].startedAt >= incident[i].startedAt
  <2>1. analyzeIncident(i) =
         [verdict |-> verdict, rootCauses |-> Listed(causes), impacted |-> Listed(failingDependents),
          blastRadius |-> radius, sameSource |-> sameSource, correlated |-> correlated,
          firstToStart |-> first]
    BY DEF analyzeIncident
  <2>2. peers' = peers /\ self' = self /\ unhealthy' = unhealthy
    BY <1>3, <1>4
  <2>3. radius' = radius
    BY <1>1, <2>2
  <2>4. failingUpstream' = failingUpstream
    BY <1>1, <2>2
  <2>5. failingDependents' = failingDependents
    BY <2>2, <2>3
  <2>6. roots' = roots
    BY <1>1, <2>2, <2>4
  <2>7. verdict' = verdict
    BY <2>2, <2>4, <2>5
  <2>8. causes' = causes
    BY <2>4, <2>6
  <2>9. sameSource' = sameSource
    BY <2>2
  <2>10. linked' = linked
    BY <1>4, <2>2, <2>4, <2>5, <2>9
  <2>11. correlated' = correlated
    BY <1>2, <1>5, <2>2, <2>10
  <2>12. first' = first
    BY <1>2, <1>5, <2>2
  <2>13. Listed(causes)' = Listed(causes) /\ Listed(failingDependents)' = Listed(failingDependents)
    <3> HIDE DEF causes, failingDependents, peers
    <3> QED
      BY <1>1, <2>2, <2>5, <2>8
  <2>14. analyzeIncident(i)' =
         [verdict |-> verdict', rootCauses |-> Listed(causes)',
          impacted |-> Listed(failingDependents)', blastRadius |-> radius',
          sameSource |-> sameSource', correlated |-> correlated', firstToStart |-> first']
    BY DEF analyzeIncident
  <2> HIDE DEF verdict, Listed, causes, failingDependents, radius, sameSource, correlated, first
  <2> QED
    BY <2>1, <2>3, <2>7, <2>9, <2>11, <2>12, <2>13, <2>14
<1> QED
  BY <1>2, <1>6

\* How an analysis goes on, by what it has left.
LEMMA ContinueCases ==
    ASSUME TypeOK, NEW a \in Analysis, NEW b \in Continue(a)
    PROVE  \/ a.first /\ b.stage = "neighbours" /\ ~ b.first /\ b.id = a.id
           \/ ~ a.first /\ a.todo = {} /\ b.stage \in {"idle", "batch"} /\ ~ b.first
           \/ /\ ~ a.first /\ b.stage = "read" /\ ~ b.first
              /\ {b.id} \cup b.todo = a.todo
<1>1. CASE a.first
  BY <1>1 DEF Continue, Analysis
<1>2. CASE ~ a.first /\ a.todo = {}
  <2>1. b = Idle \/ b = [Idle EXCEPT !.stage = "batch", !.now = a.now, !.wrote = a.wrote]
    BY <1>2 DEF Continue, Ends
  <2>2. Idle.first = FALSE /\ Idle.stage = "idle" /\ Idle \in Analysis
    BY IdleTyped DEF Idle
  <2>3. b.first = FALSE /\ b.stage \in {"idle", "batch"}
    BY <2>1, <2>2 DEF Analysis
  <2> QED
    BY <1>2, <2>3
<1>3. CASE ~ a.first /\ a.todo # {}
  <2>1. PICK i \in a.todo : b = [a EXCEPT !.stage = "read", !.id = i, !.todo = @ \ {i},
                                          !.findings = NoFindings]
    BY <1>3 DEF Continue
  <2>2. b.stage = "read" /\ b.first = a.first /\ b.id = i /\ b.todo = a.todo \ {i}
    BY <2>1 DEF Analysis
  <2> QED
    BY <1>3, <2>1, <2>2
<1> QED
  BY <1>1, <1>2, <1>3

LEMMA ActiveFinite ==
    /\ IsFiniteSet(ActiveOnes) /\ Cardinality(ActiveOnes) \in Nat
    /\ \A S \in SUBSET ActiveOnes :
          /\ IsFiniteSet(S) /\ Cardinality(S) \in Nat
          /\ Cardinality(S) <= Cardinality(ActiveOnes)
<1>1. IsFiniteSet(Incidents) /\ ActiveOnes \in SUBSET Incidents
  BY RcaAssumption DEF ActiveOnes
<1>2. IsFiniteSet(ActiveOnes)
  BY <1>1, FS_Subset
<1> QED
  BY <1>2, FS_Subset, FS_CardinalityType

\* With few incidents active, the neighbours listed are all the others.
LEMMA AllNeighbours ==
    ASSUME TypeOK, Few, NEW p \in Analyses, Active(analysis[p].id), NEW S \in Neighbours(p)
    PROVE  S = ActiveOnes \ {analysis[p].id}
<1> DEFINE others == ActiveOnes \ {analysis[p].id}
<1>1. analysis[p].id \in ActiveOnes
  BY Types DEF ActiveOnes, Analysis
<1>2. /\ Cardinality(others) = Cardinality(ActiveOnes) - 1
      /\ IsFiniteSet(others) /\ Cardinality(others) \in Nat
  BY <1>1, ActiveFinite, FS_RemoveElement
<1>3. Cardinality(others) <= MAX_REFRESH /\ MAX_REFRESH \in Nat
  <2>1. MAX_REFRESH \in Nat
    BY RcaAssumption
  <2> QED
    BY <1>2, <2>1, ActiveFinite DEF Few
<1>4. others = {o \in Incidents \ {analysis[p].id} : Active(o)}
  BY DEF ActiveOnes
<1>5. /\ S \in SUBSET others
      /\ Cardinality(S) = IF Cardinality(others) < MAX_REFRESH THEN Cardinality(others)
                                                              ELSE MAX_REFRESH
  BY <1>4 DEF Neighbours
<1> HIDE DEF others
<1>6. Cardinality(S) = Cardinality(others)
  BY <1>2, <1>3, <1>5
<1>7. S = others
  BY <1>2, <1>5, <1>6, FS_Subset
<1> QED
  BY <1>7 DEF others

\* A disturbance is not forgotten.
LEMMA DisturbedStays ==
    ASSUME TypeOK, [Next]_vars
    PROVE  history.disturbed => history'.disturbed
<1>1. history \in HistoryType
  BY Types
<1>2. ASSUME NEW p \in Analyses, NEW a, Begin(p, a)
      PROVE  history.disturbed => history'.disturbed
  BY <1>1, <1>2 DEF Begin, HistoryType
<1>3. CASE Tick
  BY <1>1, <1>3 DEF Tick, HistoryType
<1>4. CASE ChangeMap \/ \E i \in Incidents, status \in {"OPEN", "RESOLVED"} : SetStatus(i, status)
  BY <1>1, <1>4 DEF ChangeMap, SetStatus, HistoryType
<1>5. ASSUME NEW p \in Analyses, Analyse(p) \/ AnalysisFails(p)
      PROVE  history.disturbed => history'.disturbed
  BY <1>1, <1>5 DEF Analyse, analyzeAfterOpen, ReadContext, refreshIncidentRca, AnalysisFails,
     HistoryType
<1>6. ASSUME NEW p \in Analyses, NEW i \in Incidents,
             Evaluate(p) \/ Open(p, i) \/ reanalyzeIncident(p, i)
      PROVE  history.disturbed => history'.disturbed
  BY <1>2, <1>6 DEF Evaluate, Open, reanalyzeIncident
<1>7. ASSUME NEW w \in Workers, Work(w) \/ Interrupt(w) \/ Abort(w)
      PROVE  history.disturbed => history'.disturbed
  BY <1>1, <1>7 DEF Work, claimNarrativeRequests, ReadClaimed, Serve, serveNarrative, Interrupt,
     Abort, HistoryType
<1>8. CASE UNCHANGED vars
  BY <1>8 DEF vars, rca
<1>9. Incidents # {}
  BY RcaAssumption
<1> QED
  BY <1>3, <1>4, <1>5, <1>6, <1>7, <1>8, <1>9 DEF Next


\* A step after which at most one analysis runs.
LEMMA OneRuns ==
    ASSUME NEW p \in Analyses, ~ history'.disturbed => Running' \subseteq {p},
           (~ history'.disturbed /\ Few') =>
               IF analysis'[p].stage = "idle" THEN Settled({})' ELSE Progress(analysis[p])'
    PROVE  FindingsInv'
BY DEF FindingsInv, Running

\* Steps of workers, the clock and nobody: analyses and findings stay.
LEMMA FindingsStay ==
    ASSUME TypeOK, FindingsInv, UNCHANGED <<topology, analysis>>,
           history.disturbed => history'.disturbed,
           \A i \in Incidents : /\ incident'[i].status = incident[i].status
                                /\ incident'[i].startedAt = incident[i].startedAt
                                /\ incident'[i].rcaFindings = incident[i].rcaFindings
    PROVE  FindingsInv'
<1>1. \A i \in Incidents : /\ Active(i)' <=> Active(i)
                           /\ analyzeIncident(i)' = analyzeIncident(i)
                           /\ UpToDate(i)' <=> UpToDate(i)
  BY AnalysisFrame DEF UpToDate
<1>2. \A rest : Settled(rest)' <=> Settled(rest)
  BY <1>1 DEF Settled
<1>3. ActiveOnes' = ActiveOnes
  BY <1>1 DEF ActiveOnes
<1>4. ASSUME NEW p \in Analyses PROVE Progress(analysis[p])' <=> Progress(analysis[p])
  <2>1. PICK a : a = analysis[p]
    OBVIOUS
  <2>2. a.id \in Incidents /\ analysis'[p] = a
    BY <2>1, Types DEF Analysis
  <2> QED
    BY <1>1, <1>2, <2>1, <2>2 DEF Progress
<1>5. Running' = Running /\ Running \subseteq Analyses
  BY DEF Running
<1> QED
  BY <1>2, <1>3, <1>4, <1>5 DEF FindingsInv, Few

\* A request begins undisturbed when none is running: all findings are current.
LEMMA FindingsBegin ==
    ASSUME TypeOK, FindingsInv, NEW p \in Analyses, NEW i \in Incidents,
           Evaluate(p) \/ reanalyzeIncident(p, i)
    PROVE  FindingsInv'
<1>1. /\ analysis \in [Analyses -> Analysis] /\ history \in HistoryType
      /\ Idle \in Analysis /\ Idle.first = FALSE /\ Idle.todo = {}
  BY Types, IdleTyped DEF Idle
<1>2. PICK a : /\ Begin(p, a)
               /\ \/ a = [Idle EXCEPT !.stage = "batch"]
                  \/ a = [Idle EXCEPT !.stage = "read", !.id = i, !.force = TRUE]
  BY DEF Evaluate, reanalyzeIncident
<1>3. UNCHANGED <<topology, incident>>
  BY DEF Evaluate, reanalyzeIncident
<1>4. PICK b : b = [a EXCEPT !.now = requests + 1]
  OBVIOUS
<1>5. b.stage \in {"batch", "read"} /\ b.first = FALSE /\ b.todo = {}
  BY <1>1, <1>2, <1>4 DEF Analysis
<1>6. \A q \in Analyses : analysis'[q] = IF q = p THEN b ELSE analysis[q]
  BY <1>1, <1>2, <1>4 DEF Begin
<1>7. ~ history'.disturbed => ~ history.disturbed /\ Running = {}
  BY <1>1, <1>2 DEF Begin, HistoryType
<1>8. ~ history'.disturbed => Running' \subseteq {p}
  BY <1>6, <1>7 DEF Running
<1>9. ASSUME ~ history'.disturbed, Few'
      PROVE  Progress(analysis[p])' /\ analysis'[p].stage # "idle"
  <2>1. Few /\ (\A rest : Settled(rest)' <=> Settled(rest))
    <3>1. \A o \in Incidents : (Active(o)' <=> Active(o)) /\ (UpToDate(o)' <=> UpToDate(o))
      BY <1>3, AnalysisFrame DEF UpToDate
    <3>2. ActiveOnes' = ActiveOnes
      BY <3>1 DEF ActiveOnes
    <3> QED
      BY <1>9, <3>1, <3>2 DEF Few, Settled
  <2>2. Settled({})
    BY <1>7, <1>9, <2>1 DEF FindingsInv
  <2>3. \A rest : Settled(rest)'
    BY <2>1, <2>2 DEF Settled
  <2> QED
    BY <1>5, <1>6, <2>3 DEF Progress
<1> QED
  BY <1>8, <1>9, OneRuns

\* A batch opens an incident: everything about the others may have changed, and
\* they are not looked at before this one is analysed.
LEMMA FindingsOpen ==
    ASSUME TypeOK, FindingsInv, NEW p \in Analyses, NEW i \in Incidents, Open(p, i)
    PROVE  FindingsInv'
<1>1. analysis \in [Analyses -> Analysis] /\ incident \in [Incidents -> Row] /\ history' = history
  BY Types DEF Open
<1>2. PICK b : b = [analysis[p] EXCEPT !.stage = "read", !.id = i, !.first = TRUE]
  OBVIOUS
<1>3. b.stage = "read" /\ b.first = TRUE /\ b.id = i
  BY <1>1, <1>2 DEF Analysis
<1>4. \A q \in Analyses : analysis'[q] = IF q = p THEN b ELSE analysis[q]
  BY <1>1, <1>2 DEF Open
<1>5. p \in Running
  BY DEF Open, Running
<1>6. ~ history'.disturbed => Running' \subseteq {p}
  BY <1>1, <1>4, <1>5 DEF FindingsInv, Running
<1>7. Active(i)'
  BY <1>1 DEF Open, Active, Row
<1>8. Progress(analysis[p])' /\ analysis'[p].stage # "idle"
  BY <1>3, <1>4, <1>7 DEF Progress
<1> QED
  BY <1>6, <1>8, OneRuns

\* An analysis has come to the end of an incident, with the others of its list to
\* do: what it goes on to is as far as it says.
LEMMA FindingsContinue ==
    ASSUME TypeOK, NEW p \in Analyses, NEW a \in Analysis, NEW b \in Continue(a),
           analysis' = [analysis EXCEPT ![p] = b],
           ~ history'.disturbed => Running \subseteq {p},
           (~ history'.disturbed /\ Few') =>
               IF a.first THEN Active(a.id)' /\ UpToDate(a.id)' ELSE Settled(a.todo)'
    PROVE  FindingsInv'
<1>1. analysis'[p] = b /\ \A q \in Analyses \ {p} : analysis'[q] = analysis[q]
  BY Types
<1>2. ~ history'.disturbed => Running' \subseteq {p}
  BY <1>1 DEF Running
<1>3. ASSUME ~ history'.disturbed, Few'
      PROVE  IF analysis'[p].stage = "idle" THEN Settled({})' ELSE Progress(analysis[p])'
  <2>1. CASE a.first /\ b.stage = "neighbours" /\ ~ b.first /\ b.id = a.id
    BY <1>1, <1>3, <2>1 DEF Progress
  <2>2. CASE ~ a.first /\ a.todo = {} /\ b.stage \in {"idle", "batch"} /\ ~ b.first
    BY <1>1, <1>3, <2>2 DEF Progress
  <2>3. CASE ~ a.first /\ b.stage = "read" /\ ~ b.first /\ {b.id} \cup b.todo = a.todo
    BY <1>1, <1>3, <2>3 DEF Progress
  <2> QED
    BY <2>1, <2>2, <2>3, ContinueCases
<1> QED
  BY <1>2, <1>3, OneRuns


\* The neighbours are listed, or an incident is read.
LEMMA FindingsRead ==
    ASSUME TypeOK, FindingsInv, NEW p \in Analyses, analyzeAfterOpen(p) \/ ReadContext(p)
    PROVE  FindingsInv'
<1>1. /\ analysis \in [Analyses -> Analysis] /\ analysis[p] \in Analysis
      /\ UNCHANGED <<topology, incident, history>>
  BY Types DEF analyzeAfterOpen, ReadContext
<1>2. \A i \in Incidents : /\ Active(i)' <=> Active(i)
                           /\ analyzeIncident(i)' = analyzeIncident(i)
                           /\ UpToDate(i)' <=> UpToDate(i)
  BY <1>1, AnalysisFrame DEF UpToDate
<1>3. (\A rest : Settled(rest)' <=> Settled(rest)) /\ (Few' <=> Few)
  <2>1. ActiveOnes' = ActiveOnes
    BY <1>2 DEF ActiveOnes
  <2> QED
    BY <1>2, <2>1 DEF Settled, Few
<1>4. PICK a \in Analysis : a = analysis[p]
  BY <1>1
<1>5. p \in Running /\ a.id \in Incidents
  BY <1>4 DEF analyzeAfterOpen, ReadContext, Running, Analysis
<1>6. ~ history'.disturbed => Running \subseteq {p} /\ (Few' => Progress(a))
  BY <1>1, <1>3, <1>4, <1>5 DEF FindingsInv
<1>7. CASE analyzeAfterOpen(p)
  <2>1. PICK S \in Neighbours(p) : \E b \in Continue([a EXCEPT !.todo = S]) :
           analysis' = [analysis EXCEPT ![p] = b]
    BY <1>4, <1>7 DEF analyzeAfterOpen
  <2>2. PICK c : c = [a EXCEPT !.todo = S]
    OBVIOUS
  <2>3. c \in Analysis /\ c.first = a.first /\ c.todo = S
    <3>1. S \subseteq Incidents
      BY DEF Neighbours
    <3> QED
      BY <2>2, <3>1 DEF Analysis
  <2>4. PICK b \in Continue(c) : analysis' = [analysis EXCEPT ![p] = b]
    BY <2>1, <2>2
  <2>5. ASSUME ~ history'.disturbed, Few'
        PROVE  ~ c.first /\ Settled(c.todo)'
    <3>1. a.stage = "neighbours"
      BY <1>4, <1>7 DEF analyzeAfterOpen
    <3>2. ~ a.first /\ UpToDate(a.id) /\ Active(a.id)
      BY <1>6, <2>5, <3>1 DEF Progress
    <3>3. S = ActiveOnes \ {a.id}
      BY <1>3, <1>4, <2>5, <3>2, AllNeighbours
    <3>4. Settled(S)
      BY <3>2, <3>3 DEF Settled, ActiveOnes
    <3> QED
      BY <1>3, <2>3, <3>2, <3>4
  <2> QED
    BY <1>6, <2>3, <2>4, <2>5, FindingsContinue
<1>8. CASE ReadContext(p) /\ ~ a.force
           /\ signature(incident[a.id].rcaFindings) = signature(analyzeIncident(a.id))
  <2>1. PICK b \in Continue(a) : analysis' = [analysis EXCEPT ![p] = b]
    BY <1>4, <1>8 DEF ReadContext
  <2>2. a.stage = "read" /\ UpToDate(a.id)
    BY <1>4, <1>8 DEF ReadContext, UpToDate
  <2>3. ASSUME ~ history'.disturbed, Few'
        PROVE  IF a.first THEN Active(a.id)' /\ UpToDate(a.id)' ELSE Settled(a.todo)'
    <3>1. CASE a.first
      BY <1>2, <1>5, <1>6, <2>2, <2>3, <3>1 DEF Progress
    <3>2. CASE ~ a.first
      <4>1. Settled({a.id} \cup a.todo)
        BY <1>6, <2>2, <2>3, <3>2 DEF Progress
      <4>2. Settled(a.todo)
        BY <2>2, <4>1 DEF Settled
      <4> QED
        BY <1>3, <3>2, <4>2
    <3> QED
      BY <3>1, <3>2
  <2> QED
    BY <1>6, <2>1, <2>3, FindingsContinue
<1>9. CASE ReadContext(p) /\ ~ (~ a.force
           /\ signature(incident[a.id].rcaFindings) = signature(analyzeIncident(a.id)))
  <2>1. PICK f : f = analyzeIncident(a.id)
    OBVIOUS
  <2>2. PICK b : b = [a EXCEPT !.stage = "write", !.findings = f]
    OBVIOUS
  <2>3. /\ b.stage = "write" /\ b.findings = f /\ b.first = a.first /\ b.id = a.id
        /\ b.todo = a.todo
    BY <2>2 DEF Analysis
  <2>4. \A q \in Analyses : analysis'[q] = IF q = p THEN b ELSE analysis[q]
    BY <1>1, <1>4, <1>9, <2>1, <2>2 DEF ReadContext
  <2>5. ~ history'.disturbed => Running' \subseteq {p}
    BY <1>6, <2>4 DEF Running
  <2>6. a.stage = "read"
    BY <1>4, <1>9 DEF ReadContext
  <2>7. ASSUME ~ history'.disturbed, Few'
        PROVE  Progress(analysis[p])' /\ analysis'[p].stage # "idle"
    <3>1. Progress(a)
      BY <1>6, <2>7
    <3>2. /\ a.first => Active(a.id)
          /\ ~ a.first => Settled({a.id} \cup a.todo)
      BY <2>6, <3>1 DEF Progress
    <3>3. analysis'[p] = b
      BY <2>4
    <3> QED
      BY <1>2, <1>3, <1>5, <2>1, <2>3, <3>2, <3>3 DEF Progress
  <2> QED
    BY <2>5, <2>7, OneRuns
<1> QED
  BY <1>7, <1>8, <1>9

\* What was read is written: the map and the incidents are as they were read.
LEMMA FindingsWritten ==
    ASSUME TypeOK, FindingsInv, NEW p \in Analyses, refreshIncidentRca(p)
    PROVE  FindingsInv'
<1>1. /\ analysis \in [Analyses -> Analysis] /\ incident \in [Incidents -> Row]
      /\ history \in HistoryType
      /\ UNCHANGED topology
  BY Types DEF refreshIncidentRca
<1>2. PICK a \in Analysis : a = analysis[p] /\ a.id \in Incidents /\ a.stage = "write"
  BY <1>1 DEF Analysis, refreshIncidentRca
<1>3. /\ incident'[a.id].rcaFindings = a.findings
      /\ incident'[a.id].status = incident[a.id].status
      /\ incident'[a.id].startedAt = incident[a.id].startedAt
      /\ \A i \in Incidents \ {a.id} : incident'[i] = incident[i]
  BY <1>1, <1>2 DEF refreshIncidentRca, refreshed, Row
<1>4. \A i \in Incidents : /\ Active(i)' <=> Active(i)
                           /\ analyzeIncident(i)' = analyzeIncident(i)
                           /\ i # a.id => (UpToDate(i)' <=> UpToDate(i))
  BY <1>1, <1>3, AnalysisFrame DEF UpToDate
<1>5. Few' <=> Few
  <2>1. ActiveOnes' = ActiveOnes
    BY <1>4 DEF ActiveOnes
  <2> QED
    BY <2>1 DEF Few
<1>6. history'.disturbed = history.disturbed
  BY <1>1 DEF refreshIncidentRca, HistoryType
<1>7. p \in Running
  BY <1>2 DEF Running
<1>8. ~ history'.disturbed => Running \subseteq {p} /\ (Few' => Progress(a))
  BY <1>2, <1>5, <1>6, <1>7 DEF FindingsInv
<1>9. PICK c : c = [a EXCEPT !.wrote = @ \cup {a.id}]
  OBVIOUS
<1>10. c \in Analysis /\ c.first = a.first /\ c.todo = a.todo /\ c.id = a.id
  BY <1>2, <1>9 DEF Analysis
<1>11. PICK b \in Continue(c) : analysis' = [analysis EXCEPT ![p] = b]
  BY <1>2, <1>9 DEF refreshIncidentRca
<1>12. ASSUME ~ history'.disturbed, Few'
       PROVE  IF c.first THEN Active(c.id)' /\ UpToDate(c.id)' ELSE Settled(c.todo)'
  <2>1. a.findings = analyzeIncident(a.id)
    BY <1>2, <1>8, <1>12 DEF Progress
  <2>2. UpToDate(a.id)'
    BY <1>2, <1>3, <1>4, <2>1 DEF UpToDate
  <2>3. CASE a.first
    BY <1>2, <1>4, <1>8, <1>10, <1>12, <2>2, <2>3 DEF Progress
  <2>4. CASE ~ a.first
    <3>1. Settled({a.id} \cup a.todo)
      BY <1>2, <1>8, <1>12, <2>4 DEF Progress
    <3>2. Settled(a.todo)'
      BY <1>4, <2>2, <3>1 DEF Settled
    <3> QED
      BY <1>10, <2>4, <3>2
  <2> QED
    BY <2>3, <2>4
<1> QED
  BY <1>8, <1>10, <1>11, <1>12, FindingsContinue

\* Workers and the clock leave status, beginning and findings alone.
LEMMA WorkersKeepFindings ==
    ASSUME TypeOK, Tick \/ \E w \in Workers : Work(w) \/ Interrupt(w) \/ Abort(w)
    PROVE  /\ UNCHANGED <<topology, analysis>>
           /\ \A i \in Incidents : /\ incident'[i].status = incident[i].status
                                   /\ incident'[i].startedAt = incident[i].startedAt
                                   /\ incident'[i].rcaFindings = incident[i].rcaFindings
<1>1. incident \in [Incidents -> Row]
  BY Types
<1>2. CASE Tick
  BY <1>1, <1>2 DEF Tick, Row
<1>3. ASSUME NEW w \in Workers, NEW i \in Incidents, claimNarrativeRequests(w, i)
      PROVE  \A o \in Incidents : /\ incident'[o].status = incident[o].status
                                  /\ incident'[o].startedAt = incident[o].startedAt
                                  /\ incident'[o].rcaFindings = incident[o].rcaFindings
  BY <1>1, <1>3 DEF claimNarrativeRequests, Row
<1>4. ASSUME NEW w \in Workers, NEW outcome \in {"stored", "unrecorded", "refused", "failed"},
             serveNarrative(w, outcome)
      PROVE  \A o \in Incidents : /\ incident'[o].status = incident[o].status
                                  /\ incident'[o].startedAt = incident[o].startedAt
                                  /\ incident'[o].rcaFindings = incident[o].rcaFindings
  <2>1. PICK c \in worker[w].serving :
           incident' = IF unchanged(c)
                       THEN [incident EXCEPT ![c.id] =
                               Outcome(incident[c.id], c, worker[w].asked, outcome)]
                       ELSE incident
    BY <1>4 DEF serveNarrative
  <2>2. c.id \in Incidents
    BY ClaimTyped DEF Claims
  <2>3. PICK row : row = Outcome(incident[c.id], c, worker[w].asked, outcome)
    OBVIOUS
  <2>4. /\ row.status = incident[c.id].status /\ row.startedAt = incident[c.id].startedAt
        /\ row.rcaFindings = incident[c.id].rcaFindings
    BY <1>1, <2>2, <2>3 DEF Outcome, Row
  <2>5. incident' = incident \/ incident' = [incident EXCEPT ![c.id] = row]
    BY <2>1, <2>3
  <2> QED
    BY <1>1, <2>2, <2>4, <2>5
<1>5. ASSUME NEW w \in Workers, Work(w) \/ Interrupt(w) \/ Abort(w)
      PROVE  \A o \in Incidents : /\ incident'[o].status = incident[o].status
                                  /\ incident'[o].startedAt = incident[o].startedAt
                                  /\ incident'[o].rcaFindings = incident[o].rcaFindings
  BY <1>3, <1>4, <1>5 DEF Work, ReadClaimed, Serve, Interrupt, Abort
<1>6. UNCHANGED <<topology, analysis>>
  BY DEF Tick, Work, claimNarrativeRequests, ReadClaimed, Serve, serveNarrative, Interrupt, Abort
<1> QED
  BY <1>2, <1>5, <1>6

LEMMA FindingsInit == Init => FindingsInv
<1> SUFFICES ASSUME Init PROVE FindingsInv
  OBVIOUS
<1>1. Running = {}
  BY DEF Init, Running, Idle
<1>2. Settled({})
  BY DEF Init, Settled, Active
<1> QED
  BY <1>1, <1>2 DEF FindingsInv

LEMMA FindingsNext == TypeOK /\ FindingsInv /\ [Next]_vars => FindingsInv'
<1> SUFFICES ASSUME TypeOK, FindingsInv, [Next]_vars PROVE FindingsInv'
  OBVIOUS
<1>0. history \in HistoryType /\ Incidents # {}
  BY Types, RcaAssumption
<1>1. CASE Tick \/ \E w \in Workers : Work(w) \/ Interrupt(w) \/ Abort(w)
  BY <1>1, WorkersKeepFindings, DisturbedStays, FindingsStay
<1>2. CASE UNCHANGED vars
  BY <1>2, DisturbedStays, FindingsStay DEF vars, rca
<1>3. CASE ChangeMap \/ (\E i \in Incidents, status \in {"OPEN", "RESOLVED"} : SetStatus(i, status))
           \/ \E p \in Analyses : AnalysisFails(p)
  <2>1. history'.disturbed
    BY <1>0, <1>3 DEF ChangeMap, SetStatus, AnalysisFails, HistoryType
  <2> QED
    BY <2>1 DEF FindingsInv
<1>4. ASSUME NEW p \in Analyses, Analyse(p)
      PROVE  FindingsInv'
  BY <1>4, FindingsRead, FindingsWritten DEF Analyse
<1>5. ASSUME NEW p \in Analyses, NEW i \in Incidents,
             Evaluate(p) \/ Open(p, i) \/ reanalyzeIncident(p, i)
      PROVE  FindingsInv'
  BY <1>5, FindingsBegin, FindingsOpen
<1> QED
  BY <1>0, <1>1, <1>2, <1>3, <1>4, <1>5 DEF Next

\* For any map, cycles included, and any order of openings and re-analyses: when
\* none overlapped, failed or met an edit, and one refresh reaches all that are
\* active, the findings of every active incident are those an analysis would give
\* now (analyzeAfterOpen, refreshIncidentRca).
THEOREM FindingsUpToDate == Spec => []FindingsCurrent
<1>1. Init => FindingsInv
  BY FindingsInit
<1>2. TypeOK /\ FindingsInv /\ [Next]_vars => FindingsInv'
  BY FindingsNext
<1>3. FindingsInv => FindingsCurrent
  BY DEF FindingsInv, FindingsCurrent, Few, ActiveOnes, Settled, UpToDate
<1> QED
  BY <1>1, <1>2, <1>3, Typing, PTL DEF Spec

-----------------------------------------------------------------------------
(* The dependency map. What a walk computes is shown by induction over its  *)
(* rounds: the rounds exist and are the only ones, no round leaves what can *)
(* be reached, and while a round is not closed the next one is larger.      *)

\* Any dependencies between nodes, loops included.
Drawings == SUBSET (NodeIds \X NodeIds)

\* Induction over the numbers, stated for a set of them.
LEMMA Induction ==
    ASSUME NEW S \in SUBSET Nat, 0 \in S, \A k \in S : k + 1 \in S
    PROVE  S = Nat
<1> SUFFICES ASSUME Nat \ S # {} PROVE FALSE
  OBVIOUS
<1>1. PICK x \in Nat \ S : \A y \in Nat \ S : ~ (<<y, x>> \in OpToRel(<, Nat))
  BY NatLessThanWellFounded, WFMin
<1>2. \A y \in Nat \ S : ~ (y < x)
  BY <1>1 DEF OpToRel
<1>3. x \in Nat /\ x # 0
  OBVIOUS
<1>4. x - 1 \in Nat /\ x - 1 < x
  BY <1>3
<1>5. x - 1 \in S
  BY <1>2, <1>4
<1>6. (x - 1) + 1 \in S
  BY <1>5
<1> QED
  BY <1>3, <1>6

\* The first n steps of a process that starts in init.
Runs(S, init, step, n) ==
    {g \in [0..n -> S] : g[0] = init /\ \A k \in 0..n : k # 0 => g[k] = step[g[k - 1]]}

LEMMA RunsExist ==
    ASSUME NEW S, NEW init \in S, NEW step \in [S -> S], NEW n \in Nat
    PROVE  Runs(S, init, step, n) # {}
<1> DEFINE N == {k \in Nat : Runs(S, init, step, k) # {}}
<1>1. 0 \in N
  <2>1. PICK g : g = [k \in 0..0 |-> init]
    OBVIOUS
  <2>2. g \in Runs(S, init, step, 0)
    BY <2>1 DEF Runs
  <2> QED
    BY <2>2
<1>2. ASSUME NEW k \in N PROVE k + 1 \in N
  <2>1. PICK g : g \in Runs(S, init, step, k)
    BY <1>2
  <2>2. k \in Nat /\ g[k] \in S
    BY <1>2, <2>1 DEF Runs
  <2>3. PICK x \in S : x = step[g[k]]
    BY <2>2
  <2>4. PICK h : h = [j \in 0..(k + 1) |-> IF j = k + 1 THEN x ELSE g[j]]
    OBVIOUS
  <2>5. \A j \in 0..k : h[j] = g[j]
    BY <2>2, <2>4
  <2>6. h[k + 1] = x /\ h \in [0..(k + 1) -> S]
    BY <2>1, <2>2, <2>4 DEF Runs
  <2>7. h[0] = init
    BY <2>1, <2>2, <2>5 DEF Runs
  <2>8. ASSUME NEW j \in 0..(k + 1), j # 0 PROVE h[j] = step[h[j - 1]]
    <3>1. CASE j = k + 1
      <4>1. j - 1 = k /\ k \in 0..k
        BY <2>2, <3>1
      <4> QED
        BY <2>3, <2>5, <2>6, <3>1, <4>1
    <3>2. CASE j # k + 1
      <4>1. j \in 0..k /\ j - 1 \in 0..k
        BY <2>2, <2>8, <3>2
      <4>2. g[j] = step[g[j - 1]]
        BY <2>1, <2>8, <4>1 DEF Runs
      <4> QED
        BY <2>5, <4>1, <4>2
    <3> QED
      BY <3>1, <3>2
  <2>9. h \in Runs(S, init, step, k + 1)
    BY <2>6, <2>7, <2>8 DEF Runs
  <2> QED
    BY <2>2, <2>9
<1>3. N = Nat
  <2> HIDE DEF N
  <2>1. N \in SUBSET Nat
    BY DEF N
  <2> QED
    BY <1>1, <1>2, <2>1, Induction
<1> QED
  BY <1>3

LEMMA RunsAgree ==
    ASSUME NEW S, NEW init \in S, NEW step \in [S -> S], NEW n \in Nat, NEW m \in Nat,
           NEW g \in Runs(S, init, step, n), NEW h \in Runs(S, init, step, m)
    PROVE  \A k \in Nat : k <= n /\ k <= m => g[k] = h[k]
<1> DEFINE N == {k \in Nat : k <= n /\ k <= m => g[k] = h[k]}
<1>1. 0 \in N
  BY DEF Runs
<1>2. ASSUME NEW k \in N PROVE k + 1 \in N
  <2> SUFFICES ASSUME k + 1 <= n, k + 1 <= m PROVE g[k + 1] = h[k + 1]
    BY <1>2
  <2>1. /\ k + 1 \in 0..n /\ k + 1 \in 0..m /\ k + 1 # 0 /\ (k + 1) - 1 = k
        /\ k <= n /\ k <= m
    BY <1>2
  <2>2. g[k] = h[k]
    BY <1>2, <2>1
  <2>3. g[k + 1] = step[g[k]] /\ h[k + 1] = step[h[k]]
    BY <2>1 DEF Runs
  <2> QED
    BY <2>2, <2>3
<1>3. N = Nat
  <2> HIDE DEF N
  <2>1. N \in SUBSET Nat
    BY DEF N
  <2> QED
    BY <1>1, <1>2, <2>1, Induction
<1> QED
  BY <1>3

\* A process runs on for ever.
LEMMA Iteration ==
    ASSUME NEW S, NEW init \in S, NEW step \in [S -> S]
    PROVE  \E f \in [Nat -> S] : f[0] = init /\ \A k \in Nat : f[k + 1] = step[f[k]]
<1> DEFINE g(k) == CHOOSE h \in Runs(S, init, step, k) : TRUE
<1>1. \A k \in Nat : g(k) \in Runs(S, init, step, k)
  BY RunsExist
<1> HIDE DEF g
<1>2. \A k \in Nat : g(k)[k] \in S
  BY <1>1 DEF Runs
<1>3. PICK f \in [Nat -> S] : f = [k \in Nat |-> g(k)[k]]
  BY <1>2
<1>4. f[0] = init
  BY <1>1, <1>3 DEF Runs
<1>5. ASSUME NEW k \in Nat PROVE f[k + 1] = step[f[k]]
  <2>1. k + 1 \in Nat /\ k <= k /\ k <= k + 1 /\ k + 1 \in 0..(k + 1) /\ k + 1 # 0
        /\ (k + 1) - 1 = k
    OBVIOUS
  <2>2. g(k + 1)[k] = g(k)[k]
    BY <1>1, <2>1, RunsAgree
  <2>3. g(k + 1)[k + 1] = step[g(k + 1)[k]]
    BY <1>1, <2>1 DEF Runs
  <2> QED
    BY <1>3, <2>1, <2>2, <2>3
<1> QED
  BY <1>4, <1>5

\* What reach lists are the nodes of the last round, its start left out.
Round(W, next) == W \cup UNION {next[n] : n \in W}

LEMMA WalkRounds ==
    ASSUME NEW start \in NodeIds, NEW next \in [NodeIds -> SUBSET NodeIds]
    PROVE  \E w \in [Nat -> SUBSET NodeIds] :
              /\ w[0] = {start} /\ \A k \in Nat : w[k + 1] = Round(w[k], next)
              /\ reach(start, next) = w[Cardinality(NodeIds)] \ {start}
<1> DEFINE walk[k \in Nat] ==
              IF k = 0 THEN {start}
              ELSE walk[k - 1] \cup UNION {next[n] : n \in walk[k - 1]}
<1>1. reach(start, next) = {n \in NodeIds \ {start} : n \in walk[Cardinality(NodeIds)]}
  BY Zenon DEF reach
<1>2. ASSUME NEW f, f = [k \in Nat |-> IF k = 0 THEN {start}
                            ELSE f[k - 1] \cup UNION {next[n] : n \in f[k - 1]}]
      PROVE  walk = [k \in Nat |-> IF k = 0 THEN {start}
                            ELSE walk[k - 1] \cup UNION {next[n] : n \in walk[k - 1]}]
  BY <1>2, Zenon
<1> HIDE DEF walk
<1>3. PICK step : step = [W \in SUBSET NodeIds |-> Round(W, next)]
  OBVIOUS
<1>4. step \in [SUBSET NodeIds -> SUBSET NodeIds] /\ {start} \in SUBSET NodeIds
  BY <1>3 DEF Round
<1>5. PICK f \in [Nat -> SUBSET NodeIds] : f[0] = {start} /\ \A k \in Nat : f[k + 1] = step[f[k]]
  <2>1. PICK S, x : S = SUBSET NodeIds /\ x = {start}
    OBVIOUS
  <2>2. step \in [S -> S] /\ x \in S
    BY <1>4, <2>1
  <2>3. \E f \in [Nat -> S] : f[0] = x /\ \A k \in Nat : f[k + 1] = step[f[k]]
    BY <2>2, Iteration
  <2> QED
    BY <2>1, <2>3
<1>6. \A k \in Nat : f[k + 1] = Round(f[k], next)
  BY <1>3, <1>5
<1>7. f = [k \in Nat |-> IF k = 0 THEN {start}
                            ELSE f[k - 1] \cup UNION {next[n] : n \in f[k - 1]}]
  <2>1. ASSUME NEW k \in Nat, k # 0
        PROVE  f[k] = f[k - 1] \cup UNION {next[n] : n \in f[k - 1]}
    <3>1. k - 1 \in Nat /\ (k - 1) + 1 = k
      BY <2>1
    <3>2. f[k] = Round(f[k - 1], next)
      BY <1>6, <3>1
    <3> QED
      BY <3>2 DEF Round
  <2> QED
    BY <1>5, <2>1
<1>8. walk = [k \in Nat |-> IF k = 0 THEN {start}
                            ELSE walk[k - 1] \cup UNION {next[n] : n \in walk[k - 1]}]
  BY <1>2, <1>7
<1>9. walk[0] = {start}
  BY <1>8
<1>10. ASSUME NEW k \in Nat PROVE walk[k + 1] = Round(walk[k], next)
  <2>1. k + 1 \in Nat /\ k + 1 # 0 /\ (k + 1) - 1 = k
    OBVIOUS
  <2>2. walk[k + 1] = walk[k] \cup UNION {next[n] : n \in walk[k]}
    BY <1>8, <2>1
  <2> QED
    BY <2>2 DEF Round
<1>11. \A k \in Nat : walk[k] = f[k]
  <2> DEFINE N == {k \in Nat : walk[k] = f[k]}
  <2>1. 0 \in N
    BY <1>5, <1>9
  <2>2. ASSUME NEW k \in N PROVE k + 1 \in N
    BY <1>6, <1>10, <2>2
  <2>3. N = Nat
    <3> HIDE DEF N
    <3>1. N \in SUBSET Nat
      BY DEF N
    <3> QED
      BY <2>1, <2>2, <3>1, Induction
  <2> QED
    BY <2>3
<1>12. Cardinality(NodeIds) \in Nat
  BY NodeAssumption, FS_CardinalityType
<1>13. reach(start, next) = f[Cardinality(NodeIds)] \ {start}
  BY <1>1, <1>11, <1>12
<1> QED
  BY <1>5, <1>6, <1>13

\* As many rounds as there are nodes are enough: the last one is closed.
LEMMA WalkCloses ==
    ASSUME NEW start \in NodeIds, NEW next \in [NodeIds -> SUBSET NodeIds],
           NEW w \in [Nat -> SUBSET NodeIds], w[0] = {start},
           \A k \in Nat : w[k + 1] = Round(w[k], next)
    PROVE  Round(w[Cardinality(NodeIds)], next) = w[Cardinality(NodeIds)]
<1> DEFINE Closed(k) == Round(w[k], next) = w[k]
           S == {k \in Nat : Closed(k) \/ Cardinality(w[k]) > k}
<1>1. \A k \in Nat : IsFiniteSet(w[k]) /\ Cardinality(w[k]) \in Nat
                     /\ Cardinality(w[k]) <= Cardinality(NodeIds)
  BY NodeAssumption, FS_Subset, FS_CardinalityType
<1>2. 0 \in S
  <2>1. Cardinality(w[0]) = 1
    <3>1. Cardinality({start}) = 1
      BY FS_Singleton, Zenon
    <3> QED
      BY <3>1
  <2>2. Cardinality(w[0]) > 0
    BY <2>1
  <2> QED
    BY <2>2
<1>3. ASSUME NEW k \in S PROVE k + 1 \in S
  <2>1. k \in Nat /\ k + 1 \in Nat
    BY <1>3
  <2>2. CASE Closed(k)
    <3>1. w[k + 1] = w[k]
      BY <2>1, <2>2
    <3>2. Closed(k + 1)
      BY <2>2, <3>1
    <3> QED
      BY <2>1, <3>2
  <2>3. CASE ~ Closed(k) /\ Cardinality(w[k]) > k
    <3>1. PICK x \in w[k + 1] : x \notin w[k] /\ w[k] \subseteq w[k + 1]
      BY <2>1, <2>3 DEF Round
    <3>2. Cardinality(w[k] \cup {x}) = Cardinality(w[k]) + 1
      BY <1>1, <2>1, <3>1, FS_AddElement
    <3>3. w[k] \cup {x} \in SUBSET w[k + 1]
      BY <3>1
    <3>4. Cardinality(w[k] \cup {x}) <= Cardinality(w[k + 1])
      BY <1>1, <2>1, <3>3, FS_Subset
    <3>5. Cardinality(w[k + 1]) > k + 1
      <4>1. Cardinality(w[k]) \in Nat /\ Cardinality(w[k + 1]) \in Nat
        BY <1>1, <2>1
      <4> QED
        BY <2>1, <2>3, <3>2, <3>4, <4>1
    <3> QED
      BY <2>1, <3>5
  <2> QED
    BY <1>3, <2>2, <2>3
<1>4. S = Nat
  <2> HIDE DEF S
  <2>1. S \in SUBSET Nat
    BY DEF S
  <2> QED
    BY <1>2, <1>3, <2>1, Induction
<1>5. Cardinality(NodeIds) \in Nat
  BY NodeAssumption, FS_CardinalityType
<1>6. ~ (Cardinality(w[Cardinality(NodeIds)]) > Cardinality(NodeIds))
  BY <1>1, <1>5
<1> QED
  BY <1>4, <1>5, <1>6

\* reach lists the nodes that every closed set around the start holds: it holds
\* them all, and is itself the smallest.
LEMMA ReachIsLeast ==
    ASSUME NEW start \in NodeIds, NEW next \in [NodeIds -> SUBSET NodeIds]
    PROVE  /\ reach(start, next) \in SUBSET (NodeIds \ {start})
           /\ \A n \in reach(start, next) \cup {start} :
                 next[n] \subseteq reach(start, next) \cup {start}
           /\ \A C \in SUBSET NodeIds :
                 start \in C /\ (\A n \in C : next[n] \subseteq C) => reach(start, next) \subseteq C
<1>1. PICK w \in [Nat -> SUBSET NodeIds] :
         /\ w[0] = {start} /\ \A k \in Nat : w[k + 1] = Round(w[k], next)
         /\ reach(start, next) = w[Cardinality(NodeIds)] \ {start}
  BY WalkRounds
<1>2. PICK c \in Nat : c = Cardinality(NodeIds)
  BY NodeAssumption, FS_CardinalityType
<1>3. Round(w[c], next) = w[c]
  BY <1>1, <1>2, WalkCloses
<1>4. \A k \in Nat : start \in w[k]
  <2> DEFINE S == {k \in Nat : start \in w[k]}
  <2>1. 0 \in S
    BY <1>1
  <2>2. ASSUME NEW k \in S PROVE k + 1 \in S
    BY <1>1, <2>2 DEF Round
  <2>3. S = Nat
    <3> HIDE DEF S
    <3>1. S \in SUBSET Nat
      BY DEF S
    <3> QED
      BY <2>1, <2>2, <3>1, Induction
  <2> QED
    BY <2>3
<1>5. reach(start, next) \cup {start} = w[c]
  BY <1>1, <1>2, <1>4
<1>6. \A n \in w[c] : next[n] \subseteq w[c]
  BY <1>3 DEF Round
<1>7. ASSUME NEW C \in SUBSET NodeIds, start \in C, \A n \in C : next[n] \subseteq C
      PROVE  reach(start, next) \subseteq C
  <2> DEFINE S == {k \in Nat : w[k] \subseteq C}
  <2>1. 0 \in S
    BY <1>1, <1>7
  <2>2. ASSUME NEW k \in S PROVE k + 1 \in S
    BY <1>1, <1>7, <2>2 DEF Round
  <2>3. S = Nat
    <3> HIDE DEF S
    <3>1. S \in SUBSET Nat
      BY DEF S
    <3> QED
      BY <2>1, <2>2, <3>1, Induction
  <2> QED
    BY <1>2, <1>5, <2>3
<1>8. reach(start, next) \in SUBSET (NodeIds \ {start})
  BY <1>1, <1>2
<1> QED
  BY <1>5, <1>6, <1>7, <1>8

LEMMA Indexes ==
    ASSUME NEW es
    PROVE  /\ buildIndex(es, "parent") \in [NodeIds -> SUBSET NodeIds]
           /\ buildIndex(es, "child") \in [NodeIds -> SUBSET NodeIds]
           /\ \A n, m \in NodeIds : /\ m \in buildIndex(es, "parent")[n] <=> <<n, m>> \in es
                                    /\ m \in buildIndex(es, "child")[n] <=> <<m, n>> \in es
BY DEF buildIndex

LEMMA MapEdges ==
    ASSUME NEW es \in Drawings
    PROVE  \A e \in es : e = <<e[1], e[2]>> /\ e[1] \in NodeIds /\ e[2] \in NodeIds
BY DEF Drawings

\* A dependency of a dependency.
LEMMA DependsStep ==
    ASSUME NEW es \in Drawings, NEW a \in NodeIds, NEW b \in NodeIds, <<a, b>> \in es
    PROVE  Depends(es, a, b) /\ \A c \in NodeIds : Depends(es, b, c) => Depends(es, a, c)
<1>1. ASSUME NEW S \in SUBSET NodeIds, \A e \in es : e[1] = a \/ e[1] \in S => e[2] \in S
      PROVE  b \in S
  <2>1. <<a, b>>[1] = a /\ <<a, b>>[2] = b
    OBVIOUS
  <2> QED
    BY <1>1, <2>1
<1> QED
  BY <1>1 DEF Depends

LEMMA DependsThen ==
    ASSUME NEW es \in Drawings, NEW a \in NodeIds, NEW b \in NodeIds, NEW c \in NodeIds,
           Depends(es, a, b), <<b, c>> \in es
    PROVE  Depends(es, a, c)
<1>1. <<b, c>>[1] = b /\ <<b, c>>[2] = c
  OBVIOUS
<1> QED
  BY <1>1 DEF Depends

\* On any map, cycles included: the blast radius of a node is what depends on it,
\* its dependencies what it depends on, and the impacted nodes the healthy ones
\* that depend on an unhealthy one (reach, blastRadius, dependenciesOf,
\* impactedNodes).
THEOREM WalksAreComplete == \A es \in Drawings : WalksComplete(es)
<1> SUFFICES ASSUME NEW es \in Drawings PROVE WalksComplete(es)
  OBVIOUS
<1>1. ASSUME NEW n \in NodeIds
      PROVE  dependenciesOf(es, n) = {m \in NodeIds \ {n} : Depends(es, n, m)}
  <2>1. PICK next \in [NodeIds -> SUBSET NodeIds] : next = buildIndex(es, "parent")
    BY Indexes
  <2>2. \A a, b \in NodeIds : b \in next[a] <=> <<a, b>> \in es
    BY <2>1, Indexes
  <2>3. PICK R : R = reach(n, next) /\ dependenciesOf(es, n) = R
    BY <2>1 DEF dependenciesOf
  <2>4. /\ R \in SUBSET (NodeIds \ {n}) /\ \A a \in R \cup {n} : next[a] \subseteq R \cup {n}
        /\ \A C \in SUBSET NodeIds : n \in C /\ (\A a \in C : next[a] \subseteq C) => R \subseteq C
    BY <2>3, ReachIsLeast
  <2>5. ASSUME NEW m \in NodeIds \ {n}, Depends(es, n, m) PROVE m \in R
    <3>1. R \cup {n} \in SUBSET NodeIds
      BY <2>4
    <3>2. \A e \in es : e[1] = n \/ e[1] \in R \cup {n} => e[2] \in R \cup {n}
      BY <2>2, <2>4, MapEdges
    <3> QED
      BY <2>5, <3>1, <3>2 DEF Depends
  <2>6. R \subseteq {m \in NodeIds \ {n} : Depends(es, n, m)}
    <3> DEFINE C == {m \in NodeIds : m = n \/ Depends(es, n, m)}
    <3>1. \A a \in C : next[a] \subseteq C
      <4> SUFFICES ASSUME NEW a \in C, NEW b \in next[a] PROVE b \in C
        OBVIOUS
      <4>1. a \in NodeIds /\ b \in NodeIds /\ <<a, b>> \in es
        BY <2>2
      <4> QED
        BY <4>1, DependsStep, DependsThen
    <3>2. R \subseteq C
      <4>1. C \in SUBSET NodeIds /\ n \in C
        OBVIOUS
      <4> HIDE DEF C
      <4> QED
        BY <2>4, <3>1, <4>1
    <3> QED
      BY <2>4, <3>2
  <2> QED
    BY <2>3, <2>4, <2>5, <2>6
<1>2. ASSUME NEW n \in NodeIds
      PROVE  blastRadius(es, n) = {m \in NodeIds \ {n} : Depends(es, m, n)}
  <2>1. PICK next \in [NodeIds -> SUBSET NodeIds] : next = buildIndex(es, "child")
    BY Indexes
  <2>2. \A a, b \in NodeIds : b \in next[a] <=> <<b, a>> \in es
    BY <2>1, Indexes
  <2>3. PICK R : R = reach(n, next) /\ blastRadius(es, n) = R
    BY <2>1 DEF blastRadius
  <2>4. /\ R \in SUBSET (NodeIds \ {n}) /\ \A a \in R \cup {n} : next[a] \subseteq R \cup {n}
        /\ \A C \in SUBSET NodeIds : n \in C /\ (\A a \in C : next[a] \subseteq C) => R \subseteq C
    BY <2>3, ReachIsLeast
  <2>5. ASSUME NEW m \in NodeIds \ {n}, Depends(es, m, n), m \notin R PROVE FALSE
    <3> DEFINE S == NodeIds \ (R \cup {n})
    <3>1. \A e \in es : e[1] = m \/ e[1] \in S => e[2] \in S
      <4> SUFFICES ASSUME NEW e \in es, e[1] = m \/ e[1] \in S, e[2] \notin S PROVE FALSE
        OBVIOUS
      <4>1. e[1] \in NodeIds /\ e[2] \in R \cup {n} /\ <<e[1], e[2]>> \in es /\ e[1] \notin R \cup {n}
        BY <2>5, MapEdges
      <4>2. e[1] \in next[e[2]]
        BY <2>2, <2>4, <4>1
      <4> QED
        BY <2>4, <4>1, <4>2
    <3>2. n \in S
      BY <2>5, <3>1 DEF Depends
    <3> QED
      BY <3>2
  <2>6. R \subseteq {m \in NodeIds \ {n} : Depends(es, m, n)}
    <3> DEFINE C == {m \in NodeIds : m = n \/ Depends(es, m, n)}
    <3>1. \A a \in C : next[a] \subseteq C
      <4> SUFFICES ASSUME NEW a \in C, NEW b \in next[a] PROVE b \in C
        OBVIOUS
      <4>1. a \in NodeIds /\ b \in NodeIds /\ <<b, a>> \in es
        BY <2>2
      <4> QED
        BY <4>1, DependsStep
    <3>2. R \subseteq C
      <4>1. C \in SUBSET NodeIds /\ n \in C
        OBVIOUS
      <4> HIDE DEF C
      <4> QED
        BY <2>4, <3>1, <4>1
    <3> QED
      BY <2>4, <3>2
  <2> QED
    BY <2>3, <2>4, <2>5, <2>6
<1>3. ASSUME NEW bad \in SUBSET NodeIds
      PROVE  impactedNodes(es, bad) = {m \in NodeIds \ bad : \E n \in bad : Depends(es, m, n)}
  BY <1>2 DEF impactedNodes
<1> QED
  BY <1>1, <1>2, <1>3 DEF WalksComplete

\* On any map without cycles, every unhealthy node is a root-cause candidate or
\* depends on one, although only direct dependencies are looked at
\* (rootCauseCandidates).
THEOREM CandidatesExplain == \A es \in Drawings : Acyclic(es) => Explained(es)
<1> SUFFICES ASSUME NEW es \in Drawings, Acyclic(es), NEW bad \in SUBSET NodeIds, NEW n \in bad
             PROVE  \/ n \in rootCauseCandidates(es, bad)
                    \/ \E r \in rootCauseCandidates(es, bad) : Depends(es, n, r)
  BY DEF Explained
<1> DEFINE D == {m \in bad : m = n \/ Depends(es, n, m)}
           Below(m) == {x \in NodeIds : Depends(es, m, x)}
           Sizes == {Cardinality(Below(m)) : m \in D}
<1>1. \A m \in NodeIds : IsFiniteSet(Below(m)) /\ Cardinality(Below(m)) \in Nat
  <2>1. \A m \in NodeIds : Below(m) \in SUBSET NodeIds
    OBVIOUS
  <2> HIDE DEF Below
  <2> QED
    BY <2>1, NodeAssumption, FS_Subset, FS_CardinalityType
<1>2. D \in SUBSET NodeIds /\ n \in D
  OBVIOUS
<1>3. Sizes \in SUBSET Nat /\ Sizes # {}
  <2> HIDE DEF D, Below
  <2> QED
    BY <1>1, <1>2
<1>4. PICK k \in Sizes : \A j \in Sizes : ~ (j < k)
  <2> HIDE DEF Sizes
  <2>1. PICK k \in Sizes : \A j \in Sizes : ~ (<<j, k>> \in OpToRel(<, Nat))
    BY <1>3, NatLessThanWellFounded, WFMin
  <2> QED
    BY <1>3, <2>1 DEF OpToRel
<1>5. PICK m \in D : k = Cardinality(Below(m))
  OBVIOUS
<1>6. ASSUME m \notin rootCauseCandidates(es, bad) PROVE FALSE
  <2>1. PICK x \in bad : <<m, x>> \in es
    BY <1>2, <1>6, Indexes DEF rootCauseCandidates
  <2>2. m \in NodeIds /\ x \in NodeIds /\ n \in NodeIds
    BY <1>2
  <2>3. x \in D
    BY <2>1, <2>2, DependsStep, DependsThen
  <2>4. Below(x) \in SUBSET Below(m) /\ x \in Below(m)
    BY <2>1, <2>2, DependsStep
  <2>5. x \notin Below(x)
    BY <2>2 DEF Acyclic
  <2> HIDE DEF Below, D
  <2>6. Cardinality(Below(x)) <= Cardinality(Below(m) \ {x})
        /\ Cardinality(Below(m) \ {x}) = Cardinality(Below(m)) - 1
    <3>1. Below(x) \in SUBSET (Below(m) \ {x})
      BY <2>4, <2>5
    <3>2. IsFiniteSet(Below(m) \ {x}) /\ Cardinality(Below(m) \ {x}) = Cardinality(Below(m)) - 1
      BY <1>1, <2>2, <2>4, FS_RemoveElement
    <3> QED
      BY <3>1, <3>2, FS_Subset
  <2>7. Cardinality(Below(x)) < Cardinality(Below(m))
    BY <1>1, <2>2, <2>6
  <2>8. Cardinality(Below(x)) \in Sizes
    BY <2>3
  <2> QED
    BY <1>4, <1>5, <2>7, <2>8
<1> QED
  BY <1>5, <1>6

-----------------------------------------------------------------------------
(* The layout. The depth-first walk ends with every node done and every edge *)
(* taken; nodes are done after what they lead to, except along edges that    *)
(* close a cycle, so without those there is none.                            *)

LEMMA Push ==
    ASSUME NEW S, NEW s \in Seq(S), NEW x \in S
    PROVE  /\ <<x>> \o s \in Seq(S) /\ Len(<<x>> \o s) = Len(s) + 1 /\ (<<x>> \o s)[1] = x
           /\ \A i \in 1..Len(s) : (<<x>> \o s)[i + 1] = s[i]
OBVIOUS

LEMMA Pop ==
    ASSUME NEW S, NEW s \in Seq(S), s # <<>>
    PROVE  /\ Tail(s) \in Seq(S) /\ Len(s) \in Nat \ {0} /\ Len(Tail(s)) = Len(s) - 1
           /\ Head(s) = s[1] /\ s[1] \in S
           /\ \A i \in 1..Len(Tail(s)) : Tail(s)[i] = s[i + 1]
OBVIOUS

Walks(es) == [stack : Seq(NodeIds), left : SUBSET es, open : SUBSET NodeIds,
              done : SUBSET NodeIds, back : SUBSET es]
WalkStart(es) == [stack |-> <<>>, left |-> es, open |-> {}, done |-> {}, back |-> {}]

\* The steps of the walk: it is over, opens a root, closes the top of the stack,
\* or takes an edge to an open node, to a closed one or to a new one.
Over(s) == s.stack = <<>> /\ NodeIds \subseteq s.open \cup s.done
Pushes(s, t, n) ==
    /\ n \in NodeIds \ (s.open \cup s.done)
    /\ t.stack = <<n>> \o s.stack /\ t.open = s.open \cup {n}
    /\ t.done = s.done /\ t.back = s.back
Closes(s, t) ==
    /\ s.stack # <<>> /\ \A e \in s.left : e[1] # s.stack[1]
    /\ t.stack = Tail(s.stack) /\ t.left = s.left /\ t.back = s.back
    /\ t.open = s.open \ {s.stack[1]} /\ t.done = s.done \cup {s.stack[1]}
Takes(s, t, e) ==
    s.stack # <<>> /\ e \in s.left /\ e[1] = s.stack[1] /\ t.left = s.left \ {e}
Skips(s, t, e) ==
    /\ t.stack = s.stack /\ t.open = s.open /\ t.done = s.done
    /\ \/ e[2] \in s.open /\ t.back = s.back \cup {e}
       \/ e[2] \in s.done /\ t.back = s.back

LEMMA VisitCases ==
    ASSUME NEW es \in Drawings, NEW s \in Walks(es), NEW t, t = Visit(NodeIds, s)
    PROVE  /\ t \in Walks(es)
           /\ \/ Over(s) /\ t = s
              \/ s.stack = <<>> /\ t.left = s.left /\ \E n \in NodeIds : Pushes(s, t, n)
              \/ Closes(s, t)
              \/ \E e \in es : Takes(s, t, e) /\ (Skips(s, t, e) \/ Pushes(s, t, e[2]))
<1>1. /\ s.stack \in Seq(NodeIds) /\ s.left \in SUBSET es /\ s.open \in SUBSET NodeIds
      /\ s.done \in SUBSET NodeIds /\ s.back \in SUBSET es
      /\ s = [stack |-> s.stack, left |-> s.left, open |-> s.open, done |-> s.done,
              back |-> s.back]
  BY DEF Walks
<1>2. PICK roots : roots = NodeIds \ (s.open \cup s.done)
  OBVIOUS
<1>3. PICK top : top = Head(s.stack)
  OBVIOUS
<1>4. PICK out : out = {e \in s.left : e[1] = top}
  OBVIOUS
<1>5. PICK edge : edge = CHOOSE e \in out : TRUE
  OBVIOUS
<1>6. PICK root : root = CHOOSE n \in roots : TRUE
  OBVIOUS
<1>7. (out # {} => edge \in out) /\ (roots # {} => root \in roots)
  BY <1>5, <1>6
<1>8. PICK taken : taken = [s EXCEPT !.left = @ \ {edge}]
  OBVIOUS
<1>9. t = IF s.stack = <<>>
          THEN IF roots = {} THEN s
               ELSE [s EXCEPT !.stack = <<root>> \o @, !.open = @ \cup {root}]
          ELSE IF out = {}
          THEN [s EXCEPT !.stack = Tail(@), !.open = @ \ {top}, !.done = @ \cup {top}]
          ELSE IF edge[2] \in s.open THEN [taken EXCEPT !.back = @ \cup {edge}]
          ELSE IF edge[2] \in s.done THEN taken
          ELSE [taken EXCEPT !.stack = <<edge[2]>> \o @, !.open = @ \cup {edge[2]}]
  BY <1>2, <1>3, <1>4, <1>5, <1>6, <1>8 DEF Visit
<1>10. /\ taken.stack = s.stack /\ taken.left = s.left \ {edge} /\ taken.open = s.open
       /\ taken.done = s.done /\ taken.back = s.back
       /\ taken = [stack |-> s.stack, left |-> s.left \ {edge}, open |-> s.open,
                   done |-> s.done, back |-> s.back]
  BY <1>1, <1>8
<1>11. CASE s.stack = <<>> /\ roots = {}
  BY <1>2, <1>9, <1>11 DEF Over
<1>12. CASE s.stack = <<>> /\ roots # {}
  <2>1. root \in NodeIds \ (s.open \cup s.done)
    BY <1>2, <1>7, <1>12
  <2>2. t = [stack |-> <<root>> \o s.stack, left |-> s.left, open |-> s.open \cup {root},
             done |-> s.done, back |-> s.back]
    BY <1>1, <1>9, <1>12
  <2>3. <<root>> \o s.stack \in Seq(NodeIds)
    BY <1>1, <2>1, Push
  <2>4. Pushes(s, t, root)
    BY <2>1, <2>2 DEF Pushes
  <2> QED
    BY <1>1, <1>12, <2>1, <2>2, <2>3, <2>4 DEF Walks
<1>13. CASE s.stack # <<>> /\ out = {}
  <2>1. top = s.stack[1] /\ top \in NodeIds /\ Tail(s.stack) \in Seq(NodeIds)
    BY <1>1, <1>3, <1>13, Pop
  <2>2. t = [stack |-> Tail(s.stack), left |-> s.left, open |-> s.open \ {top},
             done |-> s.done \cup {top}, back |-> s.back]
    BY <1>1, <1>9, <1>13
  <2>3. Closes(s, t)
    BY <1>4, <1>13, <2>1, <2>2 DEF Closes
  <2> QED
    BY <1>1, <2>1, <2>2, <2>3 DEF Walks
<1>14. CASE s.stack # <<>> /\ out # {}
  <2>1. top = s.stack[1] /\ edge \in s.left /\ edge[1] = top /\ edge \in es
    BY <1>1, <1>3, <1>4, <1>7, <1>14, Pop
  <2>2. edge[2] \in NodeIds
    BY <2>1, MapEdges
  <2>3. CASE edge[2] \in s.open
    <3>1. t = [stack |-> s.stack, left |-> s.left \ {edge}, open |-> s.open,
               done |-> s.done, back |-> s.back \cup {edge}]
      BY <1>9, <1>10, <1>14, <2>3
    <3>2. Takes(s, t, edge) /\ Skips(s, t, edge)
      BY <1>14, <2>1, <2>3, <3>1 DEF Takes, Skips
    <3>3. t \in Walks(es)
      BY <1>1, <2>1, <3>1 DEF Walks
    <3> QED
      BY <2>1, <3>2, <3>3
  <2>4. CASE edge[2] \notin s.open /\ edge[2] \in s.done
    <3>1. t = taken
      BY <1>9, <1>14, <2>4
    <3>2. Takes(s, t, edge) /\ Skips(s, t, edge)
      BY <1>10, <1>14, <2>1, <2>4, <3>1 DEF Takes, Skips
    <3> QED
      BY <1>1, <1>10, <2>1, <3>1, <3>2 DEF Walks
  <2>5. CASE edge[2] \notin s.open /\ edge[2] \notin s.done
    <3>1. t = [stack |-> <<edge[2]>> \o s.stack, left |-> s.left \ {edge},
               open |-> s.open \cup {edge[2]}, done |-> s.done, back |-> s.back]
      BY <1>9, <1>10, <1>14, <2>5
    <3>2. Takes(s, t, edge) /\ Pushes(s, t, edge[2])
      BY <1>14, <2>1, <2>2, <2>5, <3>1 DEF Takes, Pushes
    <3>3. <<edge[2]>> \o s.stack \in Seq(NodeIds)
      BY <1>1, <2>2, Push
    <3>4. t \in Walks(es)
      BY <1>1, <2>2, <3>1, <3>3 DEF Walks
    <3> QED
      BY <2>1, <3>2, <3>4
  <2> QED
    BY <2>3, <2>4, <2>5
<1> QED
  BY <1>11, <1>12, <1>13, <1>14

\* The walk as it goes on.
LEMMA BackEdgesWalk ==
    ASSUME NEW es \in Drawings
    PROVE  \E w \in [Nat -> Walks(es)] :
              /\ w[0] = WalkStart(es) /\ \A k \in Nat : w[k + 1] = Visit(NodeIds, w[k])
              /\ backEdges(NodeIds, es) = w[Cardinality(es) + 2 * Cardinality(NodeIds)].back
<1> DEFINE start == [stack |-> <<>>, left |-> es, open |-> {}, done |-> {}, back |-> {}]
           walk[k \in Nat] == IF k = 0 THEN start ELSE Visit(NodeIds, walk[k - 1])
<1>1. backEdges(NodeIds, es) = walk[Cardinality(es) + 2 * Cardinality(NodeIds)].back
  BY Zenon DEF backEdges
<1> HIDE DEF start
<1>2. ASSUME NEW f, f = [k \in Nat |-> IF k = 0 THEN start ELSE Visit(NodeIds, f[k - 1])]
      PROVE  walk = [k \in Nat |-> IF k = 0 THEN start ELSE Visit(NodeIds, walk[k - 1])]
  BY <1>2, Zenon
<1> HIDE DEF walk
<1>3. start = WalkStart(es) /\ start \in Walks(es)
  BY DEF start, WalkStart, Walks
<1>4. PICK step : step = [s \in Walks(es) |-> Visit(NodeIds, s)]
  OBVIOUS
<1>5. step \in [Walks(es) -> Walks(es)]
  BY <1>4, VisitCases
<1>6. PICK f \in [Nat -> Walks(es)] : f[0] = start /\ \A k \in Nat : f[k + 1] = step[f[k]]
  BY <1>3, <1>5, Iteration
<1>7. \A k \in Nat : f[k + 1] = Visit(NodeIds, f[k])
  BY <1>4, <1>6
<1>8. f = [k \in Nat |-> IF k = 0 THEN start ELSE Visit(NodeIds, f[k - 1])]
  <2>1. \A k \in Nat : k # 0 => k - 1 \in Nat /\ (k - 1) + 1 = k
    OBVIOUS
  <2>2. \A k \in Nat : k # 0 => f[k] = Visit(NodeIds, f[k - 1])
    BY <1>7, <2>1
  <2> QED
    BY <1>6, <2>2
<1>9. walk = [k \in Nat |-> IF k = 0 THEN start ELSE Visit(NodeIds, walk[k - 1])]
  BY <1>2, <1>8
<1>10. walk[0] = start /\ \A k \in Nat : walk[k + 1] = Visit(NodeIds, walk[k])
  <2>1. \A k \in Nat : k + 1 \in Nat /\ k + 1 # 0 /\ (k + 1) - 1 = k
    OBVIOUS
  <2> QED
    BY <1>9, <2>1
<1>11. \A k \in Nat : walk[k] = f[k]
  <2> DEFINE N == {k \in Nat : walk[k] = f[k]}
  <2>1. 0 \in N
    BY <1>6, <1>10
  <2>2. ASSUME NEW k \in N PROVE k + 1 \in N
    BY <1>7, <1>10, <2>2
  <2>3. N = Nat
    <3> HIDE DEF N
    <3>1. N \in SUBSET Nat
      BY DEF N
    <3> QED
      BY <2>1, <2>2, <3>1, Induction
  <2> QED
    BY <2>3
<1>12. Cardinality(es) + 2 * Cardinality(NodeIds) \in Nat
  <2>1. IsFiniteSet(NodeIds \X NodeIds)
    BY NodeAssumption, FS_Product
  <2>2. IsFiniteSet(es)
    BY <2>1, FS_Subset DEF Drawings
  <2>3. Cardinality(es) \in Nat /\ Cardinality(NodeIds) \in Nat
    BY <2>2, NodeAssumption, FS_CardinalityType
  <2> QED
    BY <2>3
<1> QED
  BY <1>1, <1>3, <1>6, <1>7, <1>11, <1>12

\* What is left to do: edges to take, nodes to open and close.
ToVisit(s) ==
    Cardinality(s.left) + 2 * Cardinality(NodeIds \ (s.open \cup s.done)) + Len(s.stack)

LEMMA ToVisitSum ==
    ASSUME NEW es \in Drawings, NEW s \in Walks(es)
    PROVE  \E N \in SUBSET NodeIds, a, b, c, d \in Nat :
              /\ N = NodeIds \ (s.open \cup s.done) /\ IsFiniteSet(N) /\ IsFiniteSet(s.left)
              /\ a = Cardinality(s.left) /\ b = Cardinality(N) /\ c = Len(s.stack)
              /\ d = a + 2 * b + c /\ ToVisit(s) = d
<1>1. IsFiniteSet(es)
  <2>1. IsFiniteSet(NodeIds \X NodeIds)
    BY NodeAssumption, FS_Product
  <2> QED
    BY <2>1, FS_Subset DEF Drawings
<1>2. s.left \in SUBSET es /\ s.stack \in Seq(NodeIds)
  BY DEF Walks
<1>3. PICK N \in SUBSET NodeIds : N = NodeIds \ (s.open \cup s.done)
  OBVIOUS
<1>4. IsFiniteSet(s.left) /\ IsFiniteSet(N)
  BY <1>1, <1>2, NodeAssumption, FS_Subset
<1>5. PICK a \in Nat : a = Cardinality(s.left)
  BY <1>4, FS_CardinalityType
<1>6. PICK b \in Nat : b = Cardinality(N)
  BY <1>4, FS_CardinalityType
<1>7. PICK c \in Nat : c = Len(s.stack)
  BY <1>2
<1>8. PICK d \in Nat : d = a + 2 * b + c
  OBVIOUS
<1>9. ToVisit(s) = d
  BY <1>3, <1>5, <1>6, <1>7, <1>8 DEF ToVisit
<1> QED
  BY <1>3, <1>4, <1>5, <1>6, <1>7, <1>8, <1>9

LEMMA ToVisitShrinks ==
    ASSUME NEW es \in Drawings, NEW s \in Walks(es), NEW t, t = Visit(NodeIds, s)
    PROVE  ToVisit(s) \in Nat /\ ToVisit(t) \in Nat /\ ((Over(s) /\ t = s) \/ ToVisit(t) < ToVisit(s))
<1>1. t \in Walks(es)
  BY VisitCases
<1>2. PICK N \in SUBSET NodeIds, a, b, c, d \in Nat :
          /\ N = NodeIds \ (s.open \cup s.done) /\ IsFiniteSet(N) /\ IsFiniteSet(s.left)
          /\ a = Cardinality(s.left) /\ b = Cardinality(N) /\ c = Len(s.stack)
          /\ d = a + 2 * b + c /\ ToVisit(s) = d
  BY ToVisitSum
<1>3. PICK M \in SUBSET NodeIds, x, y, z, w \in Nat :
          /\ M = NodeIds \ (t.open \cup t.done) /\ IsFiniteSet(M) /\ IsFiniteSet(t.left)
          /\ x = Cardinality(t.left) /\ y = Cardinality(M) /\ z = Len(t.stack)
          /\ w = x + 2 * y + z /\ ToVisit(t) = w
  BY <1>1, ToVisitSum
<1>4. s.stack \in Seq(NodeIds)
  BY DEF Walks
<1>5. ASSUME NEW n, Pushes(s, t, n) PROVE y = b - 1 /\ z = c + 1
  <2>1. M = N \ {n} /\ n \in N /\ n \in NodeIds
    BY <1>2, <1>3, <1>5 DEF Pushes
  <2>2. Cardinality(N \ {n}) = Cardinality(N) - 1
    BY <1>2, <2>1, FS_RemoveElement, Zenon
  <2>3. Len(t.stack) = Len(s.stack) + 1
    BY <1>4, <1>5, <2>1, Push DEF Pushes
  <2> QED
    BY <1>2, <1>3, <2>1, <2>2, <2>3
<1>6. ASSUME NEW e, Takes(s, t, e) PROVE x = a - 1
  <2>1. Cardinality(s.left \ {e}) = Cardinality(s.left) - 1
    BY <1>2, <1>6, FS_RemoveElement DEF Takes
  <2> QED
    BY <1>2, <1>3, <1>6, <2>1 DEF Takes
<1>7. ASSUME (Over(s) /\ t = s) \/ w < d
      PROVE  ToVisit(s) \in Nat /\ ToVisit(t) \in Nat /\ ((Over(s) /\ t = s) \/ ToVisit(t) < ToVisit(s))
  BY <1>2, <1>3, <1>7
<1>8. w = x + 2 * y + z /\ d = a + 2 * b + c
  BY <1>2, <1>3
<1>9. CASE t.left = s.left /\ \E n \in NodeIds : Pushes(s, t, n)
  <2>1. x = a /\ y = b - 1 /\ z = c + 1
    BY <1>2, <1>3, <1>5, <1>9
  <2>2. w < d
    BY <1>8, <2>1
  <2> QED
    BY <1>7, <2>2
<1>10. CASE Closes(s, t)
  <2>1. M \in SUBSET N
    BY <1>2, <1>3, <1>10 DEF Closes
  <2>2. y <= b
    BY <1>2, <1>3, <2>1, FS_Subset
  <2>3. Len(t.stack) = Len(s.stack) - 1 /\ t.left = s.left
    BY <1>4, <1>10, Pop DEF Closes
  <2>4. z = c - 1 /\ x = a
    BY <1>2, <1>3, <2>3
  <2>5. w < d
    BY <1>8, <2>2, <2>4
  <2> QED
    BY <1>7, <2>5
<1>11. CASE \E e \in es : Takes(s, t, e) /\ (Skips(s, t, e) \/ Pushes(s, t, e[2]))
  <2>1. PICK e : Takes(s, t, e) /\ (Skips(s, t, e) \/ Pushes(s, t, e[2]))
    BY <1>11
  <2>2. x = a - 1
    BY <1>6, <2>1
  <2>3. (y = b /\ z = c) \/ (y = b - 1 /\ z = c + 1)
    BY <1>2, <1>3, <1>5, <2>1 DEF Skips
  <2>4. w < d
    BY <1>8, <2>2, <2>3
  <2> QED
    BY <1>7, <2>4
<1> QED
  BY <1>7, <1>9, <1>10, <1>11, VisitCases

\* The nodes of a stack, and those nearer to its top.
Elems(q) == {q[i] : i \in 1..Len(q)}
Before(q, a, b) == \E i, j \in 1..Len(q) : i < j /\ q[i] = a /\ q[j] = b

LEMMA PushBefore ==
    ASSUME NEW S, NEW q \in Seq(S), NEW x \in S
    PROVE  /\ Elems(<<x>> \o q) = Elems(q) \cup {x}
           /\ \A a, b : Before(<<x>> \o q, a, b) <=>
                           Before(q, a, b) \/ (a = x /\ b \in Elems(q))
<1>1. PICK p \in Seq(S) : p = <<x>> \o q
  BY Push
<1>2. PICK n \in Nat : Len(q) = n /\ Len(p) = n + 1
  BY <1>1, Push
<1>3. p[1] = x /\ \A i \in 1..n : p[i + 1] = q[i]
  BY <1>1, <1>2, Push
<1>4. \A i \in 1..n : i + 1 \in 1..(n + 1) /\ i + 1 # 1
  OBVIOUS
<1>5. \A i \in 1..(n + 1) : i # 1 => i - 1 \in 1..n /\ (i - 1) + 1 = i
  OBVIOUS
<1>6. 1 \in 1..(n + 1)
  OBVIOUS
<1>7. \A i \in 1..(n + 1) : i # 1 => p[i] = q[i - 1]
  BY <1>3, <1>5
<1>8. Elems(p) = Elems(q) \cup {x}
  <2>1. ASSUME NEW y \in Elems(p) PROVE y \in Elems(q) \cup {x}
    BY <1>2, <1>3, <1>5, <1>7 DEF Elems
  <2>2. ASSUME NEW y \in Elems(q) PROVE y \in Elems(p)
    BY <1>2, <1>3, <1>4 DEF Elems
  <2>3. x \in Elems(p)
    BY <1>2, <1>3, <1>6 DEF Elems
  <2> QED
    BY <2>1, <2>2, <2>3
<1>9. ASSUME NEW a, NEW b, Before(p, a, b) PROVE Before(q, a, b) \/ (a = x /\ b \in Elems(q))
  <2>1. PICK i, j \in 1..(n + 1) : i < j /\ p[i] = a /\ p[j] = b
    BY <1>2, <1>9 DEF Before
  <2>2. j # 1 /\ j - 1 \in 1..n /\ q[j - 1] = b
    BY <1>5, <1>7, <2>1
  <2>3. CASE i = 1
    BY <1>2, <1>3, <2>1, <2>2, <2>3 DEF Elems
  <2>4. CASE i # 1
    <3>1. i - 1 \in 1..n /\ q[i - 1] = a /\ i - 1 < j - 1
      BY <1>5, <1>7, <2>1, <2>4
    <3> QED
      BY <1>2, <2>2, <3>1 DEF Before
  <2> QED
    BY <2>3, <2>4
<1>10. ASSUME NEW a, NEW b, Before(q, a, b) PROVE Before(p, a, b)
  <2>1. PICK i, j \in 1..n : i < j /\ q[i] = a /\ q[j] = b
    BY <1>2, <1>10 DEF Before
  <2>2. i + 1 \in 1..(n + 1) /\ j + 1 \in 1..(n + 1) /\ i + 1 < j + 1
    BY <2>1
  <2>3. p[i + 1] = a /\ p[j + 1] = b
    BY <1>3, <2>1
  <2> QED
    BY <1>2, <2>2, <2>3 DEF Before
<1>11. ASSUME NEW b \in Elems(q) PROVE Before(p, x, b)
  <2>1. PICK i \in 1..n : q[i] = b
    BY <1>2 DEF Elems
  <2>2. i + 1 \in 1..(n + 1) /\ 1 < i + 1 /\ p[i + 1] = b
    BY <1>3, <2>1
  <2> QED
    BY <1>2, <1>3, <1>6, <2>2 DEF Before
<1> QED
  BY <1>1, <1>8, <1>9, <1>10, <1>11

LEMMA PopBefore ==
    ASSUME NEW S, NEW q \in Seq(S), q # <<>>, \A a \in S : ~ Before(q, a, a)
    PROVE  /\ q[1] \in Elems(q) /\ Elems(Tail(q)) = Elems(q) \ {q[1]}
           /\ \A a, b : Before(q, a, b) <=>
                           Before(Tail(q), a, b) \/ (a = q[1] /\ b \in Elems(Tail(q)))
<1>1. PICK p \in Seq(S), x \in S : p = Tail(q) /\ x = q[1]
  BY Pop
<1>2. q = <<x>> \o p
  <2>1. q = <<Head(q)>> \o Tail(q)
    OBVIOUS
  <2> QED
    BY <1>1, <2>1, Pop
<1>3. /\ Elems(q) = Elems(p) \cup {x}
      /\ \A a, b : Before(q, a, b) <=> Before(p, a, b) \/ (a = x /\ b \in Elems(p))
  <2>1. /\ Elems(<<x>> \o p) = Elems(p) \cup {x}
        /\ \A a, b : Before(<<x>> \o p, a, b) <=> Before(p, a, b) \/ (a = x /\ b \in Elems(p))
    BY PushBefore
  <2> QED
    BY <1>2, <2>1, Zenon
<1>4. x \notin Elems(p)
  BY <1>3
<1> QED
  BY <1>1, <1>3, <1>4

LEMMA BeforeElems ==
    ASSUME NEW q, NEW a, NEW b, Before(q, a, b)
    PROVE  a \in Elems(q) /\ b \in Elems(q)
BY DEF Before, Elems

\* The edges that led to a node, for the first or another time.
Taken(es, s) == es \ (s.left \cup s.back)

\* The nodes done are ranked by when they were: after what they lead to.
Ranked(es, s, r) ==
    /\ \A n \in s.done : r[n] < Cardinality(s.done)
    /\ \A e \in Taken(es, s) : e[1] \in s.done => e[2] \in s.done /\ r[e[2]] < r[e[1]]

\* The stack is a path of the map, every edge kept for the end closes a cycle, and
\* what is done is done for good.
Walked(es, s) ==
    /\ s.open = Elems(s.stack) /\ s.open \cap s.done = {}
    /\ \A a, b \in NodeIds : Before(s.stack, a, b) => a # b /\ Depends(es, b, a)
    /\ \A e \in s.back : Depends(es, e[2], e[1])
    /\ \A e \in s.left : e[1] \notin s.done
    /\ \A e \in Taken(es, s) : e[2] \in s.done \/ Before(s.stack, e[2], e[1])
    /\ \E r \in [NodeIds -> Nat] : Ranked(es, s, r)

LEMMA WalkedStart ==
    ASSUME NEW es \in Drawings
    PROVE  Walked(es, WalkStart(es))
<1>1. PICK s : s = WalkStart(es)
  OBVIOUS
<1>2. s.stack = <<>> /\ s.left = es /\ s.open = {} /\ s.done = {} /\ s.back = {}
  BY <1>1 DEF WalkStart
<1>3. Elems(s.stack) = {} /\ \A a, b : ~ Before(s.stack, a, b)
  BY <1>2 DEF Elems, Before
<1>4. Taken(es, s) = {}
  BY <1>2 DEF Taken
<1>5. PICK r \in [NodeIds -> Nat] : r = [n \in NodeIds |-> 0]
  OBVIOUS
<1>6. Ranked(es, s, r)
  BY <1>2, <1>4 DEF Ranked
<1>7. Walked(es, s)
  BY <1>2, <1>3, <1>4, <1>5, <1>6 DEF Walked
<1> QED
  BY <1>1, <1>7

\* The nodes on the stack depend on the one at its top.
LEMMA DependsOnTop ==
    ASSUME NEW es \in Drawings, NEW s \in Walks(es), Walked(es, s), s.stack # <<>>
    PROVE  /\ s.stack[1] \in NodeIds /\ s.stack[1] \in s.open
           /\ \A b \in s.open : b = s.stack[1] \/ Depends(es, b, s.stack[1])
           /\ \A b : ~ Before(s.stack, b, s.stack[1])
<1>1. PICK q \in Seq(NodeIds) : q = s.stack
  BY DEF Walks
<1>2. \A a, b \in NodeIds : Before(q, a, b) => a # b /\ Depends(es, b, a)
  BY <1>1 DEF Walked
<1>3. PICK x \in NodeIds : x = q[1]
  BY <1>1, Pop
<1>4. /\ x \in Elems(q) /\ Elems(Tail(q)) = Elems(q) \ {x}
      /\ \A a, b : Before(q, a, b) <=> Before(Tail(q), a, b) \/ (a = x /\ b \in Elems(Tail(q)))
  BY <1>1, <1>2, <1>3, PopBefore
<1>5. s.open = Elems(q) /\ s.open \in SUBSET NodeIds
  BY <1>1 DEF Walked, Walks
<1>6. \A b \in s.open : b = x \/ Depends(es, b, x)
  BY <1>2, <1>4, <1>5
<1>7. ASSUME NEW b, Before(q, b, x) PROVE FALSE
  <2>1. b # x
    <3>1. ~ Before(q, x, x)
      BY <1>2
    <3> QED
      BY <1>7, <3>1
  <2>2. Before(Tail(q), b, x)
    BY <1>4, <1>7, <2>1
  <2>3. x \in Elems(Tail(q))
    BY <2>2, BeforeElems
  <2> QED
    BY <1>4, <2>3
<1> QED
  BY <1>1, <1>3, <1>4, <1>5, <1>6, <1>7

\* A new node is put on the stack: a root, or the end of an edge from its top.
LEMMA WalkedPush ==
    ASSUME NEW es \in Drawings, NEW s \in Walks(es), NEW t \in Walks(es), Walked(es, s),
           NEW n \in NodeIds, Pushes(s, t, n), t.left \in SUBSET s.left,
           \A b \in s.open : Depends(es, b, n),
           \A e \in Taken(es, t) : \/ e \in Taken(es, s)
                                   \/ e[1] \in s.open /\ e[2] = n
    PROVE  Walked(es, t)
<1>1. PICK q \in Seq(NodeIds) : q = s.stack
  BY DEF Walks
<1>2. /\ t.stack = <<n>> \o q /\ t.open = s.open \cup {n} /\ t.done = s.done
      /\ t.back = s.back /\ n \notin s.open /\ n \notin s.done
  BY <1>1 DEF Pushes
<1>3. /\ Elems(t.stack) = Elems(q) \cup {n}
      /\ \A a, b : Before(t.stack, a, b) <=> Before(q, a, b) \/ (a = n /\ b \in Elems(q))
  <2>1. /\ Elems(<<n>> \o q) = Elems(q) \cup {n}
        /\ \A a, b : Before(<<n>> \o q, a, b) <=> Before(q, a, b) \/ (a = n /\ b \in Elems(q))
    BY PushBefore
  <2>2. t.stack = <<n>> \o q
    BY <1>2
  <2> QED
    BY <2>1, <2>2, Zenon
<1>4. /\ s.open = Elems(q) /\ s.open \cap s.done = {}
      /\ \A a, b \in NodeIds : Before(q, a, b) => a # b /\ Depends(es, b, a)
      /\ \A e \in s.back : Depends(es, e[2], e[1])
      /\ \A e \in s.left : e[1] \notin s.done
      /\ \A e \in Taken(es, s) : e[2] \in s.done \/ Before(q, e[2], e[1])
  BY <1>1 DEF Walked
<1>5. PICK r \in [NodeIds -> Nat] : Ranked(es, s, r)
  BY DEF Walked
<1>6. Ranked(es, t, r)
  BY <1>2, <1>4, <1>5 DEF Ranked
<1>7. t.open = Elems(t.stack) /\ t.open \cap t.done = {}
  BY <1>2, <1>3, <1>4
<1>8. \A a, b \in NodeIds : Before(t.stack, a, b) => a # b /\ Depends(es, b, a)
  BY <1>2, <1>3, <1>4
<1>9. \A e \in Taken(es, t) : e[2] \in t.done \/ Before(t.stack, e[2], e[1])
  BY <1>2, <1>3, <1>4
<1>10. (\A e \in t.back : Depends(es, e[2], e[1])) /\ \A e \in t.left : e[1] \notin t.done
  BY <1>2, <1>4
<1> QED
  BY <1>5, <1>6, <1>7, <1>8, <1>9, <1>10 DEF Walked

\* The top of the stack is done: it ranks above every other node done.
LEMMA WalkedClose ==
    ASSUME NEW es \in Drawings, NEW s \in Walks(es), NEW t \in Walks(es), Walked(es, s),
           Closes(s, t)
    PROVE  Walked(es, t)
<1>1. PICK q \in Seq(NodeIds) : q = s.stack
  BY DEF Walks
<1>2. PICK x \in NodeIds : x = q[1] /\ x \in s.open /\ \A b : ~ Before(q, b, x)
  BY <1>1, DependsOnTop DEF Closes
<1>3. /\ q # <<>> /\ (\A e \in s.left : e[1] # x) /\ t.stack = Tail(q) /\ t.left = s.left
      /\ t.back = s.back /\ t.open = s.open \ {x} /\ t.done = s.done \cup {x}
  BY <1>1, <1>2 DEF Closes
<1>4. /\ s.open = Elems(q) /\ s.open \cap s.done = {}
      /\ \A a, b \in NodeIds : Before(q, a, b) => a # b /\ Depends(es, b, a)
      /\ \A e \in s.back : Depends(es, e[2], e[1])
      /\ \A e \in s.left : e[1] \notin s.done
      /\ \A e \in Taken(es, s) : e[2] \in s.done \/ Before(q, e[2], e[1])
  BY <1>1 DEF Walked
<1>5. /\ Elems(t.stack) = Elems(q) \ {x}
      /\ \A a, b : Before(q, a, b) <=> Before(t.stack, a, b) \/ (a = x /\ b \in Elems(t.stack))
  BY <1>2, <1>3, <1>4, PopBefore
<1>6. PICK r \in [NodeIds -> Nat] : Ranked(es, s, r)
  BY DEF Walked
<1>7. Taken(es, t) = Taken(es, s)
  BY <1>3 DEF Taken
<1>8. x \notin s.done
  BY <1>2, <1>4
<1>9. PICK c \in Nat : c = Cardinality(s.done) /\ Cardinality(t.done) = c + 1
  <2>1. IsFiniteSet(s.done)
    BY NodeAssumption, FS_Subset DEF Walks
  <2>2. Cardinality(s.done) \in Nat /\ Cardinality(s.done \cup {x}) = Cardinality(s.done) + 1
    BY <1>8, <2>1, FS_AddElement, FS_CardinalityType
  <2> QED
    BY <1>3, <2>2
<1>10. PICK r2 \in [NodeIds -> Nat] : r2 = [r EXCEPT ![x] = c]
  BY <1>6
<1>11. s.done \in SUBSET NodeIds
  BY DEF Walks
<1>12. r2[x] = c /\ \A n \in s.done : r2[n] = r[n] /\ r[n] < c /\ r[n] \in Nat
  BY <1>6, <1>8, <1>9, <1>10, <1>11 DEF Ranked
<1>13. \A n \in t.done : r2[n] < c + 1
  BY <1>3, <1>12
<1>14. ASSUME NEW e \in Taken(es, t), e[1] \in t.done
       PROVE  e[2] \in t.done /\ r2[e[2]] < r2[e[1]]
  <2>1. CASE e[1] = x
    <3>1. e[2] \in s.done
      BY <1>2, <1>4, <1>7, <2>1
    <3> QED
      BY <1>3, <1>12, <2>1, <3>1
  <2>2. CASE e[1] \in s.done
    <3>1. e[2] \in s.done /\ r[e[2]] < r[e[1]]
      BY <1>6, <1>7, <2>2 DEF Ranked
    <3> QED
      BY <1>3, <1>12, <2>2, <3>1
  <2> QED
    BY <1>3, <1>14, <2>1, <2>2
<1>15. Ranked(es, t, r2)
  BY <1>9, <1>13, <1>14 DEF Ranked
<1>16. t.open = Elems(t.stack) /\ t.open \cap t.done = {}
  BY <1>3, <1>4, <1>5
<1>17. \A a, b \in NodeIds : Before(t.stack, a, b) => a # b /\ Depends(es, b, a)
  BY <1>4, <1>5
<1>18. \A e \in Taken(es, t) : e[2] \in t.done \/ Before(t.stack, e[2], e[1])
  BY <1>3, <1>4, <1>5, <1>7
<1>19. (\A e \in t.back : Depends(es, e[2], e[1])) /\ \A e \in t.left : e[1] \notin t.done
  BY <1>3, <1>4
<1> QED
  BY <1>10, <1>15, <1>16, <1>17, <1>18, <1>19 DEF Walked

\* One step of the depth-first walk.
LEMMA WalkedVisit ==
    ASSUME NEW es \in Drawings, NEW s \in Walks(es), Walked(es, s)
    PROVE  Walked(es, Visit(NodeIds, s))
<1>1. PICK t : t = Visit(NodeIds, s)
  OBVIOUS
<1>2. /\ t \in Walks(es)
      /\ \/ Over(s) /\ t = s
         \/ s.stack = <<>> /\ t.left = s.left /\ \E n \in NodeIds : Pushes(s, t, n)
         \/ Closes(s, t)
         \/ \E e \in es : Takes(s, t, e) /\ (Skips(s, t, e) \/ Pushes(s, t, e[2]))
  BY <1>1, VisitCases
<1>3. CASE s.stack = <<>> /\ t.left = s.left /\ \E n \in NodeIds : Pushes(s, t, n)
  <2>1. PICK n \in NodeIds : Pushes(s, t, n)
    BY <1>3
  <2>2. s.open = {}
    BY <1>3 DEF Walked, Elems
  <2>3. Taken(es, t) = Taken(es, s)
    BY <1>3, <2>1 DEF Taken, Pushes
  <2>4. Walked(es, t)
    BY <1>2, <1>3, <2>1, <2>2, <2>3, WalkedPush
  <2> QED
    BY <1>1, <2>4
<1>4. CASE Closes(s, t)
  BY <1>1, <1>2, <1>4, WalkedClose
<1>5. CASE \E e \in es : Takes(s, t, e) /\ (Skips(s, t, e) \/ Pushes(s, t, e[2]))
  <2>1. PICK e \in es : Takes(s, t, e) /\ (Skips(s, t, e) \/ Pushes(s, t, e[2]))
    BY <1>5
  <2>2. PICK x \in NodeIds, n \in NodeIds : e = <<x, n>> /\ e[1] = x /\ e[2] = n
    BY MapEdges
  <2>3. x = s.stack[1] /\ t.left = s.left \ {e} /\ s.stack # <<>>
    BY <2>1, <2>2 DEF Takes
  <2>4. x \in s.open /\ \A b \in s.open : b = x \/ Depends(es, b, x)
    BY <2>3, DependsOnTop
  <2>5. \A b \in s.open : Depends(es, b, n)
    <3>1. \A b \in s.open : b \in NodeIds
      BY DEF Walks
    <3> QED
      BY <2>2, <2>4, <3>1, DependsStep, DependsThen
  <2>6. CASE Pushes(s, t, n)
    <3>1. \A d \in Taken(es, t) : d \in Taken(es, s) \/ (d[1] \in s.open /\ d[2] = n)
      BY <2>2, <2>3, <2>4, <2>6 DEF Taken, Pushes
    <3>2. Walked(es, t)
      BY <1>2, <2>3, <2>5, <2>6, <3>1, WalkedPush
    <3> QED
      BY <1>1, <3>2
  <2>7. CASE Skips(s, t, e)
    <3>1. /\ s.open = Elems(s.stack) /\ s.open \cap s.done = {}
          /\ \A a, b \in NodeIds : Before(s.stack, a, b) => a # b /\ Depends(es, b, a)
          /\ \A d \in s.back : Depends(es, d[2], d[1])
          /\ \A d \in s.left : d[1] \notin s.done
          /\ \A d \in Taken(es, s) : d[2] \in s.done \/ Before(s.stack, d[2], d[1])
      BY DEF Walked
    <3>2. PICK r \in [NodeIds -> Nat] : Ranked(es, s, r)
      BY DEF Walked
    <3>3. /\ t.stack = s.stack /\ t.open = s.open /\ t.done = s.done
          /\ \/ n \in s.open /\ t.back = s.back \cup {e}
             \/ n \in s.done /\ t.back = s.back
      BY <2>2, <2>7 DEF Skips
    <3>4. \A d \in Taken(es, t) : d \in Taken(es, s) \/ (d = e /\ n \in s.done)
      BY <2>3, <3>3 DEF Taken
    <3>5. \A d \in t.back : Depends(es, d[2], d[1])
      <4>1. n \in s.open => Depends(es, n, x)
        BY <2>2, <2>4, DependsStep
      <4> QED
        BY <2>2, <3>1, <3>3, <4>1
    <3>6. \A d \in Taken(es, t) : d[2] \in t.done \/ Before(t.stack, d[2], d[1])
      BY <2>2, <3>1, <3>3, <3>4
    <3>7. x \notin s.done
      BY <2>4, <3>1
    <3>8. Ranked(es, t, r)
      BY <2>2, <3>2, <3>3, <3>4, <3>7 DEF Ranked
    <3>9. \A d \in t.left : d[1] \notin t.done
      BY <2>3, <3>1, <3>3
    <3>10. Walked(es, t)
      BY <3>1, <3>2, <3>3, <3>5, <3>6, <3>8, <3>9 DEF Walked
    <3> QED
      BY <1>1, <3>10
  <2> QED
    BY <2>1, <2>2, <2>6, <2>7
<1> QED
  BY <1>1, <1>2, <1>3, <1>4, <1>5

LEMMA VisitOver ==
    ASSUME NEW es \in Drawings, NEW s \in Walks(es), Over(s)
    PROVE  Visit(NodeIds, s) = s
BY DEF Over, Visit

\* The edges of backEdges close a cycle, and without them there is none: the nodes
\* can be ranked so that every other edge leads to a lower rank.
LEMMA BackEdgesBreakCycles ==
    ASSUME NEW es \in Drawings
    PROVE  /\ backEdges(NodeIds, es) \in SUBSET es
           /\ \A e \in backEdges(NodeIds, es) : Depends(es, e[2], e[1])
           /\ \E r \in [NodeIds -> Nat] :
                 /\ \A n \in NodeIds : r[n] < Cardinality(NodeIds)
                 /\ \A e \in es \ backEdges(NodeIds, es) : r[e[2]] < r[e[1]]
<1>1. PICK c \in Nat : c = Cardinality(es) + 2 * Cardinality(NodeIds)
  <2>1. IsFiniteSet(NodeIds \X NodeIds)
    BY NodeAssumption, FS_Product
  <2>2. IsFiniteSet(es)
    BY <2>1, FS_Subset DEF Drawings
  <2>3. Cardinality(es) \in Nat /\ Cardinality(NodeIds) \in Nat
    BY <2>2, NodeAssumption, FS_CardinalityType
  <2> QED
    BY <2>3
<1>2. PICK w \in [Nat -> Walks(es)] :
         /\ w[0] = WalkStart(es) /\ \A k \in Nat : w[k + 1] = Visit(NodeIds, w[k])
         /\ backEdges(NodeIds, es) = w[c].back
  BY <1>1, BackEdgesWalk
<1>3. \A k \in Nat : Walked(es, w[k])
  <2> DEFINE N == {k \in Nat : Walked(es, w[k])}
  <2>1. 0 \in N
    BY <1>2, WalkedStart
  <2>2. ASSUME NEW k \in N PROVE k + 1 \in N
    BY <1>2, <2>2, WalkedVisit
  <2>3. N = Nat
    <3> HIDE DEF N
    <3>1. N \in SUBSET Nat
      BY DEF N
    <3> QED
      BY <2>1, <2>2, <3>1, Induction
  <2> QED
    BY <2>3
<1>4. \A k \in Nat : /\ ToVisit(w[k]) \in Nat
                     /\ (Over(w[k]) /\ w[k + 1] = w[k]) \/ ToVisit(w[k + 1]) < ToVisit(w[k])
  BY <1>2, ToVisitShrinks
<1>5. ToVisit(w[0]) = c
  <2>1. PICK s : s = w[0]
    OBVIOUS
  <2>2. s.left = es /\ NodeIds \ (s.open \cup s.done) = NodeIds /\ Len(s.stack) = 0
    BY <1>2, <2>1 DEF WalkStart
  <2>3. ToVisit(s) = c + 0
    BY <1>1, <2>2 DEF ToVisit
  <2> QED
    BY <2>1, <2>3
<1>6. \A k \in Nat : Over(w[k]) \/ ToVisit(w[k]) + k <= c
  <2> DEFINE N == {k \in Nat : Over(w[k]) \/ ToVisit(w[k]) + k <= c}
  <2>1. 0 \in N
    BY <1>5
  <2>2. ASSUME NEW k \in N PROVE k + 1 \in N
    <3>1. k \in Nat /\ k + 1 \in Nat
      BY <2>2
    <3>2. CASE Over(w[k]) /\ w[k + 1] = w[k]
      BY <3>1, <3>2
    <3>3. CASE ToVisit(w[k + 1]) < ToVisit(w[k])
      <4>1. PICK a \in Nat, b \in Nat : a = ToVisit(w[k]) /\ b = ToVisit(w[k + 1])
        BY <1>4, <3>1
      <4>2. CASE a + k <= c
        <5>1. b + (k + 1) <= c
          BY <3>1, <3>3, <4>1, <4>2
        <5> QED
          BY <3>1, <4>1, <5>1
      <4>3. CASE Over(w[k])
        <5>1. w[k + 1] = w[k]
          BY <1>2, <3>1, <4>3, VisitOver
        <5> QED
          BY <3>1, <4>3, <5>1
      <4> QED
        BY <2>2, <4>1, <4>2, <4>3
    <3> QED
      BY <1>4, <3>1, <3>2, <3>3
  <2>3. N = Nat
    <3> HIDE DEF N
    <3>1. N \in SUBSET Nat
      BY DEF N
    <3> QED
      BY <2>1, <2>2, <3>1, Induction
  <2> QED
    BY <2>3
<1>7. Over(w[c])
  <2>1. PICK a \in Nat, b \in Nat : a = ToVisit(w[c]) /\ b = ToVisit(w[c + 1])
    <3>1. c + 1 \in Nat
      OBVIOUS
    <3> QED
      BY <1>4, <3>1
  <2>2. Over(w[c]) \/ a + c <= c
    BY <1>6, <2>1
  <2>3. Over(w[c]) \/ b < a
    BY <1>4, <2>1
  <2> QED
    BY <2>2, <2>3
<1>8. PICK s \in Walks(es) : s = w[c] /\ Walked(es, s) /\ Over(s)
  BY <1>3, <1>7
<1>9. backEdges(NodeIds, es) = s.back /\ s.back \in SUBSET es
  BY <1>2, <1>8 DEF Walks
<1>10. s.open = {}
  BY <1>8 DEF Walked, Over, Elems
<1>11. NodeIds \subseteq s.done
  BY <1>8, <1>10 DEF Over
<1>12. s.left = {}
  <2>1. \A e \in s.left : e[1] \in NodeIds /\ e[1] \notin s.done
    BY <1>8, MapEdges DEF Walked, Walks
  <2> QED
    BY <1>11, <2>1
<1>13. Taken(es, s) = es \ s.back
  BY <1>12 DEF Taken
<1>14. PICK r \in [NodeIds -> Nat] : Ranked(es, s, r)
  BY <1>8 DEF Walked
<1>15. \A e \in es \ s.back : r[e[2]] < r[e[1]]
  BY <1>11, <1>13, <1>14, MapEdges DEF Ranked
<1>16. \A e \in s.back : Depends(es, e[2], e[1])
  BY <1>8 DEF Walked
<1>17. \A n \in NodeIds : r[n] < Cardinality(NodeIds)
  <2>1. s.done = NodeIds
    BY <1>8, <1>11 DEF Walks
  <2> QED
    BY <1>14, <2>1 DEF Ranked
<1> QED
  BY <1>9, <1>15, <1>16, <1>17

\* Kahn's order: the nodes taken are P, and the edges into a node that are left
\* come from the others.
Layers == [queue : SUBSET NodeIds, indegree : [NodeIds -> Int], layer : [NodeIds -> Nat]]
Parents(dag, P, n) == {e \in dag : e[2] = n /\ e[1] \notin P}
LayerStart(dag) ==
    LET indegree == [n \in NodeIds |-> Cardinality({e \in dag : e[2] = n})]
    IN  [queue |-> {n \in NodeIds : indegree[n] = 0}, indegree |-> indegree,
         layer |-> [n \in NodeIds |-> 0]]
Layered(dag, s, P) ==
    /\ s.queue \cap P = {}
    /\ \A n \in NodeIds : /\ s.indegree[n] = Cardinality(Parents(dag, P, n))
                          /\ Parents(dag, P, n) = {} <=> n \in s.queue \cup P
    /\ \A e \in dag : e[1] \in P => s.layer[e[1]] < s.layer[e[2]]

LEMMA ParentsFinite ==
    ASSUME NEW dag \in Drawings, NEW P, NEW n
    PROVE  /\ IsFiniteSet(Parents(dag, P, n)) /\ Cardinality(Parents(dag, P, n)) \in Nat
           /\ Cardinality(Parents(dag, P, n)) = 0 <=> Parents(dag, P, n) = {}
<1>1. IsFiniteSet(NodeIds \X NodeIds)
  BY NodeAssumption, FS_Product
<1>2. Parents(dag, P, n) \in SUBSET (NodeIds \X NodeIds)
  BY DEF Parents, Drawings
<1>3. IsFiniteSet(Parents(dag, P, n))
  BY <1>1, <1>2, FS_Subset
<1> QED
  BY <1>3, FS_CardinalityType, FS_EmptySet

\* What one step does to the node it takes off the queue.
LayerTakes(next, s, t, x) ==
    /\ x \in s.queue
    /\ \A n \in NodeIds :
          /\ t.indegree[n] = IF n \in next[x] THEN s.indegree[n] - 1 ELSE s.indegree[n]
          /\ n \in t.queue <=> \/ n \in s.queue /\ n # x
                               \/ n \in next[x] /\ t.indegree[n] = 0
          /\ t.layer[n] = IF n \in next[x] /\ s.layer[n] < s.layer[x] + 1
                          THEN s.layer[x] + 1 ELSE s.layer[n]

LEMMA LayerCases ==
    ASSUME NEW next \in [NodeIds -> SUBSET NodeIds], NEW s \in Layers,
           NEW t, t = Layer(NodeIds, next, s)
    PROVE  /\ t \in Layers
           /\ \/ s.queue = {} /\ t = s
              \/ \E x \in NodeIds : LayerTakes(next, s, t, x)
<1>1. s.queue \in SUBSET NodeIds /\ s.indegree \in [NodeIds -> Int] /\ s.layer \in [NodeIds -> Nat]
  BY DEF Layers
<1>2. PICK x : x = CHOOSE n \in s.queue : TRUE
  OBVIOUS
<1>3. PICK left : left = [n \in NodeIds |-> IF n \in next[x] THEN s.indegree[n] - 1
                                            ELSE s.indegree[n]]
  OBVIOUS
<1>4. PICK queue : queue = (s.queue \ {x}) \cup {n \in next[x] : left[n] = 0}
  OBVIOUS
<1>5. PICK layer : layer = [n \in NodeIds |->
                     IF n \in next[x] /\ s.layer[n] < s.layer[x] + 1
                     THEN s.layer[x] + 1 ELSE s.layer[n]]
  OBVIOUS
<1>6. t = IF s.queue = {} THEN s ELSE [queue |-> queue, indegree |-> left, layer |-> layer]
  BY <1>2, <1>3, <1>4, <1>5 DEF Layer
<1>7. CASE s.queue = {}
  BY <1>6, <1>7
<1>8. CASE s.queue # {}
  <2>1. x \in s.queue /\ x \in NodeIds
    BY <1>1, <1>2, <1>8
  <2>2. next[x] \in SUBSET NodeIds
    BY <2>1
  <2>3. left \in [NodeIds -> Int]
    BY <1>1, <1>3
  <2>4. layer \in [NodeIds -> Nat]
    BY <1>1, <1>5, <2>1
  <2>5. queue \in SUBSET NodeIds
    BY <1>1, <1>4, <2>2
  <2>6. t = [queue |-> queue, indegree |-> left, layer |-> layer]
    BY <1>6, <1>8
  <2>7. t \in Layers
    BY <2>3, <2>4, <2>5, <2>6 DEF Layers
  <2>8. t.queue = queue /\ t.indegree = left /\ t.layer = layer
    BY <2>6
  <2>9. ASSUME NEW n \in NodeIds
        PROVE  t.indegree[n] = IF n \in next[x] THEN s.indegree[n] - 1 ELSE s.indegree[n]
    BY <1>3, <2>8
  <2>10. ASSUME NEW n \in NodeIds
         PROVE  n \in t.queue <=> \/ n \in s.queue /\ n # x
                                  \/ n \in next[x] /\ t.indegree[n] = 0
    BY <1>4, <2>8
  <2>11. ASSUME NEW n \in NodeIds
         PROVE  t.layer[n] = IF n \in next[x] /\ s.layer[n] < s.layer[x] + 1
                             THEN s.layer[x] + 1 ELSE s.layer[n]
    BY <1>5, <2>8
  <2>12. LayerTakes(next, s, t, x)
    BY <2>1, <2>9, <2>10, <2>11 DEF LayerTakes
  <2> QED
    BY <2>1, <2>7, <2>12
<1> QED
  BY <1>7, <1>8

LEMMA LayersIterate ==
    ASSUME NEW start \in Layers, NEW step \in [Layers -> Layers]
    PROVE  \E f \in [Nat -> Layers] : f[0] = start /\ \A k \in Nat : f[k + 1] = step[f[k]]
BY Iteration

LEMMA LayersRun ==
    ASSUME NEW next \in [NodeIds -> SUBSET NodeIds], NEW start \in Layers
    PROVE  \E f \in [Nat -> Layers] :
              f[0] = start /\ \A k \in Nat : f[k + 1] = Layer(NodeIds, next, f[k])
<1>1. PICK step : step = [s \in Layers |-> Layer(NodeIds, next, s)]
  OBVIOUS
<1>2. step \in [Layers -> Layers]
  BY <1>1, LayerCases
<1>3. PICK f \in [Nat -> Layers] : f[0] = start /\ \A k \in Nat : f[k + 1] = step[f[k]]
  BY <1>2, LayersIterate
<1> QED
  BY <1>1, <1>3

LEMMA LongestPathsWalk ==
    ASSUME NEW dag \in Drawings
    PROVE  \E w \in [Nat -> Layers] :
              /\ w[0] = LayerStart(dag)
              /\ \A k \in Nat : w[k + 1] = Layer(NodeIds, buildIndex(dag, "parent"), w[k])
              /\ longestPaths(NodeIds, dag) = w[Cardinality(NodeIds)].layer
<1> DEFINE next == buildIndex(dag, "parent")
           indegree == [n \in NodeIds |-> Cardinality({e \in dag : e[2] = n})]
           start == [queue |-> {n \in NodeIds : indegree[n] = 0}, indegree |-> indegree,
                     layer |-> [n \in NodeIds |-> 0]]
           walk[k \in Nat] == IF k = 0 THEN start ELSE Layer(NodeIds, next, walk[k - 1])
<1>1. longestPaths(NodeIds, dag) = walk[Cardinality(NodeIds)].layer
  BY Zenon DEF longestPaths
<1>2. start = LayerStart(dag)
  BY DEF LayerStart
<1>3. start \in Layers
  <2>1. \A n \in NodeIds : {e \in dag : e[2] = n} = Parents(dag, {}, n)
    BY DEF Parents
  <2>2. ASSUME NEW n \in NodeIds PROVE Cardinality({e \in dag : e[2] = n}) \in Int
    <3>1. Cardinality(Parents(dag, {}, n)) \in Nat
      BY ParentsFinite
    <3> QED
      BY <2>1, <3>1
  <2>3. indegree \in [NodeIds -> Int]
    BY <2>2
  <2> HIDE DEF indegree
  <2> QED
    BY <2>3 DEF Layers
<1> HIDE DEF start, indegree
<1>4. next \in [NodeIds -> SUBSET NodeIds]
  BY Indexes
<1> HIDE DEF next
<1>5. ASSUME NEW f, f = [k \in Nat |-> IF k = 0 THEN start ELSE Layer(NodeIds, next, f[k - 1])]
      PROVE  walk = [k \in Nat |-> IF k = 0 THEN start ELSE Layer(NodeIds, next, walk[k - 1])]
  BY <1>5, Zenon
<1> HIDE DEF walk
<1>6. PICK f \in [Nat -> Layers] :
         f[0] = start /\ \A k \in Nat : f[k + 1] = Layer(NodeIds, next, f[k])
  BY <1>3, <1>4, LayersRun
<1>7. f = [k \in Nat |-> IF k = 0 THEN start ELSE Layer(NodeIds, next, f[k - 1])]
  <2>1. \A k \in Nat : k # 0 => k - 1 \in Nat /\ (k - 1) + 1 = k
    OBVIOUS
  <2>2. \A k \in Nat : k # 0 => f[k] = Layer(NodeIds, next, f[k - 1])
    BY <1>6, <2>1
  <2> QED
    BY <1>6, <2>2
<1>8. walk = [k \in Nat |-> IF k = 0 THEN start ELSE Layer(NodeIds, next, walk[k - 1])]
  BY <1>5, <1>7
<1>9. walk[0] = start /\ \A k \in Nat : walk[k + 1] = Layer(NodeIds, next, walk[k])
  <2>1. \A k \in Nat : k + 1 \in Nat /\ k + 1 # 0 /\ (k + 1) - 1 = k
    OBVIOUS
  <2> QED
    BY <1>8, <2>1
<1>10. \A k \in Nat : walk[k] = f[k]
  <2> DEFINE N == {k \in Nat : walk[k] = f[k]}
  <2>1. 0 \in N
    BY <1>6, <1>9
  <2>2. ASSUME NEW k \in N PROVE k + 1 \in N
    BY <1>6, <1>9, <2>2
  <2>3. N = Nat
    <3> HIDE DEF N
    <3>1. N \in SUBSET Nat
      BY DEF N
    <3> QED
      BY <2>1, <2>2, <3>1, Induction
  <2> QED
    BY <2>3
<1>11. Cardinality(NodeIds) \in Nat
  BY NodeAssumption, FS_CardinalityType
<1>12. longestPaths(NodeIds, dag) = f[Cardinality(NodeIds)].layer
  BY <1>1, <1>10, <1>11
<1> QED
  BY <1>2, <1>6, <1>12 DEF next

LEMMA LayeredStart ==
    ASSUME NEW dag \in Drawings
    PROVE  Layered(dag, LayerStart(dag), {})
<1>1. PICK s : s = LayerStart(dag)
  OBVIOUS
<1>2. \A n \in NodeIds : {e \in dag : e[2] = n} = Parents(dag, {}, n)
  BY DEF Parents
<1>3. PICK d : d = [n \in NodeIds |-> Cardinality({e \in dag : e[2] = n})]
  OBVIOUS
<1>4. \A n \in NodeIds : d[n] = Cardinality(Parents(dag, {}, n))
  BY <1>2, <1>3
<1>5. s.indegree = d /\ s.queue = {n \in NodeIds : d[n] = 0}
  BY <1>1, <1>3 DEF LayerStart
<1>6. \A n \in NodeIds : d[n] = 0 <=> Parents(dag, {}, n) = {}
  BY <1>4, ParentsFinite
<1>7. Layered(dag, s, {})
  BY <1>4, <1>5, <1>6 DEF Layered
<1> QED
  BY <1>1, <1>7

LEMMA LayeredStep ==
    ASSUME NEW dag \in Drawings, NEW s \in Layers, NEW t \in Layers, NEW P \in SUBSET NodeIds,
           Layered(dag, s, P), NEW next, next = buildIndex(dag, "parent"),
           NEW x \in NodeIds, LayerTakes(next, s, t, x)
    PROVE  x \notin P /\ Layered(dag, t, P \cup {x})
<1>1. \A n \in NodeIds : n \in next[x] <=> <<x, n>> \in dag
  BY Indexes
<1>2. x \in s.queue /\ x \notin P
  BY DEF LayerTakes, Layered
<1>3. \A n \in NodeIds : n \in next[x] => <<x, n>> \in Parents(dag, P, n)
  BY <1>1, <1>2 DEF Parents
<1>4. \A n \in NodeIds : n \in next[x] => n \notin s.queue \cup P /\ n # x
  BY <1>2, <1>3 DEF Layered
<1>5. \A n \in NodeIds : n \in next[x] =>
         Parents(dag, P \cup {x}, n) = Parents(dag, P, n) \ {<<x, n>>}
  BY <1>1, MapEdges DEF Parents
<1>6. \A n \in NodeIds : n \notin next[x] => Parents(dag, P \cup {x}, n) = Parents(dag, P, n)
  BY <1>1, MapEdges DEF Parents
<1>7. ASSUME NEW n \in NodeIds
      PROVE  t.indegree[n] = Cardinality(Parents(dag, P \cup {x}, n))
  <2>1. t.indegree[n] = IF n \in next[x] THEN s.indegree[n] - 1 ELSE s.indegree[n]
    BY DEF LayerTakes
  <2>2. s.indegree[n] = Cardinality(Parents(dag, P, n))
    BY DEF Layered
  <2>3. CASE n \in next[x]
    <3>1. Cardinality(Parents(dag, P, n) \ {<<x, n>>}) = Cardinality(Parents(dag, P, n)) - 1
      BY <1>3, <2>3, ParentsFinite, FS_RemoveElement
    <3> QED
      BY <1>5, <2>1, <2>2, <2>3, <3>1
  <2>4. CASE n \notin next[x]
    BY <1>6, <2>1, <2>2, <2>4
  <2> QED
    BY <2>3, <2>4
<1>8. ASSUME NEW n \in NodeIds
      PROVE  Parents(dag, P \cup {x}, n) = {} <=> n \in t.queue \cup (P \cup {x})
  <2>1. n \in t.queue <=> (n \in s.queue /\ n # x) \/ (n \in next[x] /\ t.indegree[n] = 0)
    BY DEF LayerTakes
  <2>2. t.indegree[n] = 0 <=> Parents(dag, P \cup {x}, n) = {}
    <3>1. \A S : Cardinality(Parents(dag, S, n)) = 0 <=> Parents(dag, S, n) = {}
      BY ParentsFinite
    <3> QED
      BY <1>7, <3>1
  <2>3. Parents(dag, P, n) = {} <=> n \in s.queue \cup P
    BY DEF Layered
  <2>4. CASE n \in next[x]
    BY <1>4, <2>1, <2>2, <2>4
  <2>5. CASE n \notin next[x]
    BY <1>2, <1>6, <2>1, <2>3, <2>5
  <2> QED
    BY <2>4, <2>5
<1>9. t.queue \cap (P \cup {x}) = {}
  <2> SUFFICES ASSUME NEW n \in t.queue, n \in P \cup {x} PROVE FALSE
    OBVIOUS
  <2>1. n \in NodeIds
    BY DEF Layers
  <2>2. (n \in s.queue /\ n # x) \/ n \in next[x]
    BY <2>1 DEF LayerTakes
  <2> QED
    BY <1>4, <2>1, <2>2 DEF Layered
<1>10. \A n \in NodeIds : s.layer[n] \in Nat
  BY DEF Layers
<1>11. \A n \in NodeIds : t.layer[n] \in Nat /\ s.layer[n] <= t.layer[n]
  <2> SUFFICES ASSUME NEW n \in NodeIds PROVE t.layer[n] \in Nat /\ s.layer[n] <= t.layer[n]
    OBVIOUS
  <2>1. t.layer[n] = IF n \in next[x] /\ s.layer[n] < s.layer[x] + 1
                     THEN s.layer[x] + 1 ELSE s.layer[n]
    BY DEF LayerTakes
  <2> QED
    BY <1>10, <2>1
<1>12. \A n \in NodeIds : n \in next[x] => s.layer[x] < t.layer[n]
  <2> SUFFICES ASSUME NEW n \in NodeIds, n \in next[x] PROVE s.layer[x] < t.layer[n]
    OBVIOUS
  <2>1. t.layer[n] = IF s.layer[n] < s.layer[x] + 1 THEN s.layer[x] + 1 ELSE s.layer[n]
    BY DEF LayerTakes
  <2>2. PICK a \in Nat, b \in Nat : a = s.layer[x] /\ b = s.layer[n]
    BY <1>10
  <2> QED
    BY <2>1, <2>2
<1>13. ASSUME NEW e \in dag, e[1] \in P \cup {x} PROVE t.layer[e[1]] < t.layer[e[2]]
  <2>1. PICK a \in NodeIds, b \in NodeIds : e = <<a, b>> /\ a = e[1] /\ b = e[2]
    BY MapEdges
  <2>2. a \notin next[x]
    BY <1>4, <1>13, <2>1
  <2>3. t.layer[a] = s.layer[a]
    BY <2>2 DEF LayerTakes
  <2>4. CASE a = x
    <3>1. b \in next[x]
      BY <1>1, <2>1, <2>4
    <3> QED
      BY <1>12, <2>1, <2>3, <2>4, <3>1
  <2>5. CASE a \in P
    <3>1. s.layer[a] < s.layer[b]
      BY <2>1, <2>5 DEF Layered
    <3>2. s.layer[b] <= t.layer[b] /\ s.layer[a] \in Nat /\ s.layer[b] \in Nat /\ t.layer[b] \in Nat
      BY <1>10, <1>11
    <3>3. s.layer[a] < t.layer[b]
      BY <3>1, <3>2
    <3> QED
      BY <2>1, <2>3, <3>3
  <2> QED
    BY <1>13, <2>1, <2>4, <2>5
<1> QED
  BY <1>2, <1>7, <1>8, <1>9, <1>13 DEF Layered

\* Kahn's order reaches every node when the map has no cycle.
LEMMA LongestPathsPointDown ==
    ASSUME NEW dag \in Drawings, NEW r \in [NodeIds -> Nat],
           \A n \in NodeIds : r[n] < Cardinality(NodeIds),
           \A e \in dag : r[e[2]] < r[e[1]]
    PROVE  \A e \in dag : longestPaths(NodeIds, dag)[e[1]] < longestPaths(NodeIds, dag)[e[2]]
<1>1. PICK c \in Nat : c = Cardinality(NodeIds)
  BY NodeAssumption, FS_CardinalityType
<1>2. PICK next \in [NodeIds -> SUBSET NodeIds] : next = buildIndex(dag, "parent")
  BY Indexes
<1>3. PICK w \in [Nat -> Layers] :
         /\ w[0] = LayerStart(dag) /\ \A k \in Nat : w[k + 1] = Layer(NodeIds, next, w[k])
         /\ longestPaths(NodeIds, dag) = w[c].layer
  BY <1>1, <1>2, LongestPathsWalk
<1> DEFINE Sized(k, P) == w[k].queue = {} \/ Cardinality(P) = k
           N == {k \in Nat : \E P \in SUBSET NodeIds : Layered(dag, w[k], P) /\ Sized(k, P)}
<1>4. 0 \in N
  <2>1. Layered(dag, w[0], {}) /\ {} \in SUBSET NodeIds
    BY <1>3, LayeredStart
  <2>2. Cardinality({}) = 0
    BY FS_EmptySet
  <2> QED
    BY <2>1, <2>2
<1>5. ASSUME NEW k \in N PROVE k + 1 \in N
  <2>1. k \in Nat /\ k + 1 \in Nat
    BY <1>5
  <2>2. PICK P \in SUBSET NodeIds : Layered(dag, w[k], P) /\ Sized(k, P)
    BY <1>5
  <2>3. PICK s \in Layers, t \in Layers : s = w[k] /\ t = w[k + 1] /\ t = Layer(NodeIds, next, s)
    BY <1>3, <2>1
  <2>4. CASE s.queue = {} /\ t = s
    BY <2>1, <2>2, <2>3, <2>4
  <2>5. CASE \E x \in NodeIds : LayerTakes(next, s, t, x)
    <3>1. PICK x \in NodeIds : LayerTakes(next, s, t, x)
      BY <2>5
    <3>2. x \notin P /\ Layered(dag, t, P \cup {x})
      BY <1>2, <2>2, <2>3, <3>1, LayeredStep
    <3>3. IsFiniteSet(P)
      BY NodeAssumption, FS_Subset
    <3>4. Cardinality(P) = k
      BY <2>2, <2>3, <3>1 DEF LayerTakes
    <3>5. Cardinality(P \cup {x}) = k + 1
      BY <3>2, <3>3, <3>4, FS_AddElement
    <3>6. P \cup {x} \in SUBSET NodeIds
      OBVIOUS
    <3> QED
      BY <2>1, <2>3, <3>2, <3>5, <3>6
  <2> QED
    BY <2>3, <2>4, <2>5, LayerCases
<1>6. N = Nat
  <2> HIDE DEF N
  <2>1. N \in SUBSET Nat
    BY DEF N
  <2> QED
    BY <1>4, <1>5, <2>1, Induction
<1>7. PICK P \in SUBSET NodeIds : Layered(dag, w[c], P) /\ Sized(c, P)
  BY <1>6
<1>8. PICK s \in Layers : s = w[c]
  BY <1>3
<1>9. s.queue = {}
  <2>1. ASSUME Cardinality(P) = c PROVE P = NodeIds
    BY <1>1, <2>1, NodeAssumption, FS_Subset
  <2>2. s.queue \cap P = {} /\ s.queue \in SUBSET NodeIds
    BY <1>7, <1>8 DEF Layered, Layers
  <2> QED
    BY <1>7, <1>8, <2>1, <2>2
<1>10. P = NodeIds
  <2> SUFFICES ASSUME NodeIds \ P # {} PROVE FALSE
    OBVIOUS
  <2> DEFINE Heights == {c - r[n] : n \in NodeIds \ P}
  <2>1. \A n \in NodeIds : c - r[n] \in Nat
    <3>1. \A n \in NodeIds : r[n] \in Nat /\ r[n] < c
      BY <1>1
    <3> QED
      BY <3>1
  <2>2. Heights \in SUBSET Nat /\ Heights # {}
    BY <2>1
  <2>3. PICK k \in Heights : \A j \in Heights : ~ (j < k)
    <3> HIDE DEF Heights
    <3>1. PICK k \in Heights : \A j \in Heights : ~ (<<j, k>> \in OpToRel(<, Nat))
      BY <2>2, NatLessThanWellFounded, WFMin
    <3> QED
      BY <2>2, <3>1 DEF OpToRel
  <2>4. PICK n \in NodeIds \ P : k = c - r[n]
    OBVIOUS
  <2>5. PICK e \in dag : e[2] = n /\ e[1] \notin P
    BY <1>7, <1>8, <1>9, <2>4 DEF Layered, Parents
  <2>6. e[1] \in NodeIds \ P /\ r[n] < r[e[1]]
    BY <2>5, MapEdges
  <2>7. c - r[e[1]] < c - r[n]
    <3>1. r[n] \in Nat /\ r[e[1]] \in Nat
      BY <2>4, <2>6
    <3> QED
      BY <2>6, <3>1
  <2> QED
    BY <2>3, <2>4, <2>6, <2>7
<1>11. \A e \in dag : s.layer[e[1]] < s.layer[e[2]]
  BY <1>7, <1>8, <1>10, MapEdges DEF Layered
<1> QED
  BY <1>3, <1>8, <1>11

\* On any map, cycles included: the edges left out of the layers close a cycle, and
\* every other one points down (backEdges, longestPaths, layeredLayout).
THEOREM LayoutPointsDown == \A es \in Maps : PointsDown(es)
<1> SUFFICES ASSUME NEW es \in Maps PROVE PointsDown(es)
  OBVIOUS
<1>1. es \in Drawings /\ \A e \in es : e[1] # e[2]
  BY DEF Maps, Drawings
<1>2. PICK back : back = backEdges(NodeIds, es)
  OBVIOUS
<1>3. PICK r \in [NodeIds -> Nat] :
         /\ back \in SUBSET es /\ \A e \in back : Depends(es, e[2], e[1])
         /\ \A n \in NodeIds : r[n] < Cardinality(NodeIds)
         /\ \A e \in es \ back : r[e[2]] < r[e[1]]
  BY <1>1, <1>2, BackEdgesBreakCycles
<1>4. PICK dag \in Drawings : dag = es \ back
  BY <1>1 DEF Drawings
<1>5. \A e \in dag : longestPaths(NodeIds, dag)[e[1]] < longestPaths(NodeIds, dag)[e[2]]
  BY <1>3, <1>4, LongestPathsPointDown
<1>6. es = {e \in es : e[1] \in NodeIds /\ e[2] \in NodeIds /\ e[1] # e[2]}
  BY <1>1, MapEdges
<1>7. PICK connected : connected = {e[1] : e \in es} \cup {e[2] : e \in es}
  OBVIOUS
<1>8. layeredLayout(NodeIds, es) =
         [n \in NodeIds |-> IF n \in connected THEN longestPaths(NodeIds, dag)[n]
            ELSE Cardinality({longestPaths(NodeIds, dag)[m] : m \in connected})]
  <2>1. PICK valid : valid = {e \in es : e[1] \in NodeIds /\ e[2] \in NodeIds /\ e[1] # e[2]}
    OBVIOUS
  <2>2. valid = es
    BY <1>6, <2>1
  <2> QED
    BY <1>2, <1>4, <1>7, <2>1, <2>2 DEF layeredLayout
<1>9. ASSUME NEW e \in es \ back
      PROVE  layeredLayout(NodeIds, es)[e[1]] < layeredLayout(NodeIds, es)[e[2]]
  <2>1. e[1] \in NodeIds /\ e[2] \in NodeIds /\ e[1] \in connected /\ e[2] \in connected
    BY <1>1, <1>7, MapEdges
  <2>2. \A n \in {e[1], e[2]} : layeredLayout(NodeIds, es)[n] = longestPaths(NodeIds, dag)[n]
    BY <1>8, <2>1
  <2> QED
    BY <1>4, <1>5, <2>2
<1> QED
  BY <1>2, <1>3, <1>9 DEF PointsDown

-----------------------------------------------------------------------------
(* The stored map *)

\* No node depends on itself: a dependency has two ends (createDependency).
LEMMA DrawnInit == Init => edges \in Maps
<1> SUFFICES ASSUME Init PROVE edges \in Maps
  OBVIOUS
<1>1. scenario.map \in DrawnMaps /\ edges = scenario.map.edges
  BY RcaAssumption DEF Init, Draw
<1> QED
  BY <1>1 DEF DrawnMaps

LEMMA DrawnNext == TypeOK /\ edges \in Maps /\ [Next]_vars => (edges \in Maps)'
<1> SUFFICES ASSUME TypeOK, edges \in Maps, [Next]_vars PROVE edges' \in Maps
  BY DEF Maps
<1>1. CASE ChangeMap
  <2>1. ASSUME NEW m \in NodeIds, NEW n \in NodeIds, createDependency(m, n)
        PROVE  edges' \in Maps
    BY <2>1 DEF createDependency, Maps
  <2>2. CASE edges' \in SUBSET edges
    BY <2>2 DEF Maps
  <2>3. ASSUME NEW n \in NodeIds, deleteNode(n) PROVE edges' \in SUBSET edges
    BY <2>3 DEF deleteNode
  <2>4. ASSUME NEW m \in NodeIds, NEW n \in NodeIds, deleteDependency(m, n)
        PROVE  edges' \in SUBSET edges
    BY <2>4 DEF deleteDependency
  <2>5. ASSUME NEW n \in NodeIds, NEW ref, createNode(n, ref) PROVE edges' = edges
    BY <2>5 DEF createNode
  <2> QED
    BY <1>1, <2>1, <2>2, <2>3, <2>4, <2>5 DEF ChangeMap, EditMap
<1>2. ASSUME UNCHANGED topology PROVE edges' \in Maps
  BY <1>2 DEF topology
<1>3. CASE Tick \/ UNCHANGED vars
  BY <1>2, <1>3 DEF Tick, vars
<1>4. ASSUME NEW i \in Incidents, NEW status, SetStatus(i, status) PROVE UNCHANGED topology
  BY <1>4 DEF SetStatus
<1>5. ASSUME NEW p \in Analyses, Analyse(p) \/ AnalysisFails(p) \/ Evaluate(p)
      PROVE  UNCHANGED topology
  BY <1>5 DEF Analyse, analyzeAfterOpen, ReadContext, refreshIncidentRca, AnalysisFails, Evaluate
<1>6. ASSUME NEW p \in Analyses, NEW i \in Incidents, Open(p, i) \/ reanalyzeIncident(p, i)
      PROVE  UNCHANGED topology
  BY <1>6 DEF Open, reanalyzeIncident
<1>7. ASSUME NEW w \in Workers, Work(w) \/ Interrupt(w) \/ Abort(w) PROVE UNCHANGED topology
  BY <1>7 DEF Work, claimNarrativeRequests, ReadClaimed, Serve, serveNarrative, Interrupt, Abort
<1> QED
  BY <1>1, <1>2, <1>3, <1>4, <1>5, <1>6, <1>7 DEF Next

\* Whatever members draw and delete, at any time: the walks and the root causes
\* that the analyses and the map's page read off the stored map are exact, and
\* every arrow of its layout points down unless it closes a cycle (dependenciesOf,
\* blastRadius, impactedNodes, rootCauseCandidates, layeredLayout).
THEOREM StoredMapAnalysed ==
    Spec => [](/\ WalksComplete(edges) /\ PointsDown(edges)
               /\ Acyclic(edges) => Explained(edges))
<1>1. Maps \subseteq Drawings
  BY DEF Maps, Drawings
<1>2. edges \in Maps => /\ WalksComplete(edges) /\ PointsDown(edges)
                        /\ Acyclic(edges) => Explained(edges)
  BY <1>1, WalksAreComplete, CandidatesExplain, LayoutPointsDown
<1>3. Spec => [](edges \in Maps)
  BY DrawnInit, DrawnNext, Typing, PTL DEF Spec
<1> QED
  BY <1>2, <1>3, PTL

\* What the map's analyses are checked for before any request holds on every map
\* of any number of nodes (reach, impactedNodes, layeredLayout,
\* rootCauseCandidates).
THEOREM MapAnalyses == Spec => []MapAnalysesCorrect
<1>1. WalksComplete(edges) /\ PointsDown(edges) /\ (Acyclic(edges) => Explained(edges))
      => MapAnalysesCorrect
  BY DEF MapAnalysesCorrect
<1> QED
  BY <1>1, StoredMapAnalysed, PTL
==============================================================================

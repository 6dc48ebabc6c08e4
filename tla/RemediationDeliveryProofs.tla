---------------------- MODULE RemediationDeliveryProofs ----------------------
(***************************************************************************)
(* What happens between "queued" and "outcome", for any number of polls,   *)
(* handlers, agents and workers: a script starts at most once and never    *)
(* after a cancellation, the first outcome stays, the incident timeline    *)
(* agrees with it, and all of it follows the documented life cycle.        *)
(*                                                                         *)
(* The strengthening follows the job itself: the right to start the script *)
(* of an execution is held by at most one party, first by the handler that *)
(* won the compare-and-set, then by the agent that got its answer.         *)
(***************************************************************************)
EXTENDS RemediationProofs

USE DEF ExecIds, LiveStatuses, TerminalStatuses, Statuses

\* Handed out: the status was once set to RUNNING by a claim, or never will be.
Handed(e) == exec[e].status \notin {"ABSENT", "AWAITING_APPROVAL", "PENDING", "CANCELLED"}

\* Handler c, or the agent of h, holds the right to start e.
Answering(c, e) == claim[c].pc = "reply" /\ claim[c].job = e
Starting(h, e) == agent[h].pc = "start" /\ agent[h].job = e

HolderExclusive ==
    \A e \in ExecIds :
        /\ \A c, d \in Claims : Answering(c, e) /\ Answering(d, e) => c = d
        /\ \A h, g \in HostIds : Starting(h, e) /\ Starting(g, e) => h = g
        /\ \A c \in Claims, h \in HostIds : ~(Answering(c, e) /\ Starting(h, e))

HolderUnused ==
    \A e \in ExecIds :
        ((\E c \in Claims : Answering(c, e)) \/ (\E h \in HostIds : Starting(h, e)))
        => Handed(e) /\ log[e].runs = 0

\* Whatever an agent works on, and whatever ran, was handed out.
WorkHanded ==
    \A e \in ExecIds :
        /\ \A h \in HostIds : agent[h].job = e => Handed(e)
        /\ log[e].runs <= 1
        /\ log[e].runs > 0 => Handed(e)

JobInv == HolderExclusive /\ HolderUnused /\ WorkHanded

\* An execution that was handed out stays so, and the other way round only a
\* claim hands out.
LEMMA HandedStable ==
    ASSUME TypeOK, Contexts, Fresh, [Next]_vars, NEW e \in ExecIds, Handed(e)
    PROVE  Handed(e)'
<1>1. CASE MovesOnly
  <2>1. CASE exec'[e] = exec[e]
    BY <2>1 DEF Handed
  <2>2. CASE exec'[e] # exec[e]
    BY <1>1, <2>2 DEF MovesOnly, Moves, Handed, Lifecycle!Edge
  <2> QED
    BY <2>1, <2>2
<1>2. ASSUME NEW r \in Requests, Inserts(r)
      PROVE  Handed(e)'
  <2>1. e # nextExec
    BY DEF Fresh, Handed, NoExec, TypeOK
  <2> QED
    BY <1>2, <2>1, InsertEffect DEF Handed
<1> QED
  BY <1>1, <1>2, StepEffect

\* What the history counts: runs grow only when an agent starts a script, and
\* the event counter only when a RUNNING execution is reported.
RunsKept ==
    \A e \in ExecIds :
        \/ log'[e].runs = log[e].runs
        \/ exec[e].status = "ABSENT" /\ log'[e].runs = 0
FinishedKept == \A e \in ExecIds : log'[e].finished = log[e].finished \/ log'[e].finished = 0

LEMMA HistoryFields ==
    ASSUME TypeOK, NEW x \in ExecIds, NEW v
    PROVE  /\ (log' = [log EXCEPT ![x].started = v]) => RunsKept /\ FinishedKept
           /\ (log' = [log EXCEPT ![x].queuedAt = v]) => RunsKept /\ FinishedKept
           /\ (log' = [log EXCEPT ![x].finished = v]) => RunsKept
           /\ (log' = [log EXCEPT ![x].runs = v]) => FinishedKept
<1>1. log \in [ExecIds -> LogRow]
  BY DEF TypeOK
<1>2. ASSUME log' = [log EXCEPT ![x].started = v] PROVE RunsKept /\ FinishedKept
  BY <1>1, <1>2 DEF LogRow, RunsKept, FinishedKept
<1>3. ASSUME log' = [log EXCEPT ![x].queuedAt = v] PROVE RunsKept /\ FinishedKept
  BY <1>1, <1>3 DEF LogRow, RunsKept, FinishedKept
<1>4. ASSUME log' = [log EXCEPT ![x].finished = v] PROVE RunsKept
  BY <1>1, <1>4 DEF LogRow, RunsKept
<1>5. ASSUME log' = [log EXCEPT ![x].runs = v] PROVE FinishedKept
  BY <1>1, <1>5 DEF LogRow, FinishedKept
<1> QED
  BY <1>2, <1>3, <1>4, <1>5

LEMMA LogUnchanged ==
    ASSUME log' = log
    PROVE  RunsKept /\ FinishedKept
BY DEF RunsKept, FinishedKept

\* Requests and everyone but the claims and the agents: no job changes hands.
LEMMA RequestHistory ==
    ASSUME TypeOK, Contexts, Fresh, NEW r \in Requests, RequestStep(r)
    PROVE  RunsKept /\ FinishedKept /\ UNCHANGED <<claim, agent>>
<1>0. UNCHANGED <<claim, agent>>
  BY DEF RequestStep, ReadAction, ReadHost, LockAndScan, Insert, LogStarted, Approve,
     RequestDies, StartRun, StartAlert, ReadForApproval
<1>1. CASE Inserts(r)
  <2>1. nextExec \in ExecIds /\ exec[nextExec].status = "ABSENT"
    BY <1>1, InsertEffect DEF Fresh, NoExec, TypeOK
  <2> QED
    BY <1>0, <1>1, <2>1, InsertEffect DEF RunsKept, FinishedKept
<1>2. CASE LogStarted(r)
  <2>1. req[r].id \in ExecIds
    BY <1>2 DEF LogStarted, Contexts, RequestContext
  <2> QED
    BY <1>0, <1>2, <2>1, HistoryFields DEF LogStarted
<1>3. CASE Approve(r)
  <2>1. req[r].id \in ExecIds
    BY <1>3 DEF Approve, Contexts, RequestContext
  <2> QED
    BY <1>0, <1>3, <2>1, HistoryFields, LogUnchanged DEF Approve
<1>4. CASE ~(Inserts(r) \/ LogStarted(r) \/ Approve(r))
  <2>1. log' = log
    BY <1>4 DEF RequestStep, ReadAction, ReadHost, LockAndScan, Insert, ActionGone, Inserts,
       RequestDies, StartRun, StartAlert, ReadForApproval
  <2> QED
    BY <1>0, <2>1, LogUnchanged
<1> QED
  BY <1>1, <1>2, <1>3, <1>4

LEMMA QuietHistory ==
    ASSUME TypeOK, Contexts, Fresh, [Next]_vars,
           ~(\E c \in Claims : ClaimStep(c)), ~(\E h \in HostIds : AgentStep(h))
    PROVE  RunsKept /\ FinishedKept /\ UNCHANGED <<claim, agent>>
<1>1. CASE \E r \in Requests : RequestStep(r)
  BY <1>1, RequestHistory
<1>2. CASE ~(\E r \in Requests : RequestStep(r))
  <2>1. UNCHANGED <<log, claim, agent>>
    BY <1>2 DEF Next, AdminStep, CreateAction, UpdateAction, SetActionEnabled, DeleteAction,
       SetHostEnabled, Cancel, SweepStep, SweepPending, SweepApproval, SweepLost, Tick, vars
  <2> QED
    BY <2>1, LogUnchanged
<1> QED
  BY <1>1, <1>2

\* A step that gives nobody the right to start anything.
NoNewHolder ==
    \A e \in ExecIds :
        /\ \A c \in Claims : Answering(c, e)' => Answering(c, e)
        /\ \A h \in HostIds : Starting(h, e)' => Starting(h, e)
        /\ \A h \in HostIds : agent'[h].job = e => agent[h].job = e

LEMMA NoNewHolderStep ==
    ASSUME TypeOK, Contexts, Fresh, [Next]_vars, JobInv, NoNewHolder, RunsKept
    PROVE  JobInv'
<1>0. \A e \in ExecIds : log[e].runs \in Nat
  BY DEF TypeOK, LogRow
<1>1. HolderExclusive'
  BY DEF JobInv, HolderExclusive, NoNewHolder
<1>2. HolderUnused'
  <2> SUFFICES ASSUME NEW e \in ExecIds,
                      (\E c \in Claims : Answering(c, e)') \/ (\E h \in HostIds : Starting(h, e)')
               PROVE  Handed(e)' /\ log'[e].runs = 0
    BY DEF HolderUnused
  <2>1. Handed(e) /\ log[e].runs = 0
    BY DEF JobInv, HolderUnused, NoNewHolder
  <2> QED
    BY <2>1, HandedStable DEF RunsKept
<1>3. WorkHanded'
  <2> SUFFICES ASSUME NEW e \in ExecIds
               PROVE  /\ \A h \in HostIds : agent'[h].job = e => Handed(e)'
                      /\ log'[e].runs <= 1
                      /\ log'[e].runs > 0 => Handed(e)'
    BY DEF WorkHanded
  <2>1. log'[e].runs <= 1
    BY <1>0 DEF JobInv, WorkHanded, RunsKept
  <2>2. log'[e].runs > 0 => Handed(e)
    BY <1>0 DEF JobInv, WorkHanded, RunsKept
  <2>3. \A h \in HostIds : agent'[h].job = e => Handed(e)
    BY DEF JobInv, WorkHanded, NoNewHolder
  <2> QED
    BY <2>1, <2>2, <2>3, HandedStable
<1> QED
  BY <1>1, <1>2, <1>3 DEF JobInv

\* The compare-and-set makes the handler the only holder, because a PENDING
\* execution has none; the answer passes the right on, or loses it.
LEMMA ClaimJobs ==
    ASSUME TypeOK, Contexts, Fresh, JobInv, [Next]_vars, NEW c \in Claims, ClaimStep(c)
    PROVE  JobInv'
<1>0. claim[c] \in ClaimContext /\ claim[c] \in ClaimRow /\ None \notin ExecIds
  BY RemediationConstants DEF Contexts, TypeOK, RemediationConstants
<1>1. CASE ClaimFind(c)
  <2>1. \A e \in ExecIds : \A d \in Claims : Answering(d, e)' => Answering(d, e)
    <3>1. /\ \/ claim'[c].pc = "cas"
             \/ claim'[c].pc = "reply" /\ claim'[c].job = None
          /\ \A d \in Claims \ {c} : claim'[d] = claim[d]
      <4>1. ASSUME NEW j, claim' = [claim EXCEPT ![c].pc = "cas", ![c].job = j]
            PROVE  claim'[c].pc = "cas" /\ \A d \in Claims \ {c} : claim'[d] = claim[d]
        BY <1>0, <4>1 DEF TypeOK, ClaimRow
      <4>2. ASSUME claim' = [claim EXCEPT ![c].pc = "reply", ![c].job = None]
            PROVE  /\ claim'[c].pc = "reply" /\ claim'[c].job = None
                   /\ \A d \in Claims \ {c} : claim'[d] = claim[d]
        BY <1>0, <4>2 DEF TypeOK, ClaimRow
      <4> QED
        BY <1>1, <4>1, <4>2 DEF ClaimFind
    <3> QED
      BY <1>0, <3>1 DEF Answering
  <2>2. NoNewHolder /\ RunsKept
    BY <1>1, <2>1, LogUnchanged DEF ClaimFind, NoNewHolder, Starting
  <2> QED
    BY <2>2, NoNewHolderStep
<1>2. CASE ClaimDies(c)
  <2>1. \A e \in ExecIds : \A d \in Claims : Answering(d, e)' => Answering(d, e)
    BY <1>2 DEF ClaimDies, Answering, TypeOK, IdleClaim
  <2>2. NoNewHolder /\ RunsKept
    BY <1>2, <2>1, LogUnchanged DEF ClaimDies, NoNewHolder, Starting
  <2> QED
    BY <2>2, NoNewHolderStep
<1>3. CASE ClaimCas(c)
  <2>a. PICK x \in ExecIds : x = claim[c].job
    BY <1>0, <1>3 DEF ClaimCas, ClaimContext
  <2>0. log' = log /\ agent' = agent
    BY <1>3 DEF ClaimCas
  <2>1. CASE exec[x].status # "PENDING"
    <3>1. \A e \in ExecIds : \A d \in Claims : Answering(d, e)' => Answering(d, e)
      <4>1. claim' = [claim EXCEPT ![c].pc = "find", ![c].job = None, ![c].tries = @ + 1]
        BY <1>3, <2>a, <2>1 DEF ClaimCas
      <4>2. claim'[c].pc = "find" /\ \A d \in Claims \ {c} : claim'[d] = claim[d]
        BY <1>0, <4>1 DEF TypeOK, ClaimRow
      <4> QED
        BY <4>2 DEF Answering
    <3>2. NoNewHolder /\ RunsKept
      BY <2>0, <3>1, LogUnchanged DEF NoNewHolder, Starting
    <3> QED
      BY <3>2, NoNewHolderStep
  <2>2. CASE exec[x].status = "PENDING"
    <3>1. /\ claim'[c].pc = "reply" /\ claim'[c].job = x
          /\ \A d \in Claims \ {c} : claim'[d] = claim[d]
      BY <1>0, <1>3, <2>a, <2>2 DEF ClaimCas, TypeOK, ClaimRow
    <3>2. exec'[x].status = "RUNNING"
      <4>1. exec' = [exec EXCEPT ![x].status = "RUNNING", ![x].startedAt = claim[c].now]
        BY <1>3, <2>a, <2>2 DEF ClaimCas
      <4>2. exec[x] \in ExecRow /\ exec'[x] = [exec[x] EXCEPT !.status = "RUNNING",
                                                            !.startedAt = claim[c].now]
        BY <4>1 DEF TypeOK
      <4> QED
        BY <4>2 DEF ExecRow
    <3>3. ~Handed(x) /\ Handed(x)'
      BY <2>2, <3>2 DEF Handed
    <3>4. /\ log[x].runs = 0
          /\ \A h \in HostIds : agent[h].job # x
          /\ \A d \in Claims : ~Answering(d, x)
      BY <2>0, <3>3 DEF JobInv, WorkHanded, HolderUnused, TypeOK, LogRow
    <3>5. \A e \in ExecIds, d \in Claims : Answering(d, e)' =>
            Answering(d, e) \/ (d = c /\ e = x)
      BY <3>1 DEF Answering
    <3>6. HolderExclusive'
      BY <2>0, <3>4, <3>5 DEF JobInv, HolderExclusive, Starting
    <3>7. HolderUnused'
      <4> SUFFICES ASSUME NEW e \in ExecIds,
                          (\E d \in Claims : Answering(d, e)') \/ (\E h \in HostIds : Starting(h, e)')
                   PROVE  Handed(e)' /\ log'[e].runs = 0
        BY DEF HolderUnused
      <4>1. CASE e = x
        BY <2>0, <3>3, <3>4, <4>1
      <4>2. CASE e # x
        <5>1. (\E d \in Claims : Answering(d, e)) \/ (\E h \in HostIds : Starting(h, e))
          BY <2>0, <3>5, <4>2 DEF Starting
        <5> QED
          BY <2>0, <5>1, HandedStable DEF JobInv, HolderUnused
      <4> QED
        BY <4>1, <4>2
    <3>8. WorkHanded'
      BY <2>0, HandedStable DEF JobInv, WorkHanded
    <3> QED
      BY <3>6, <3>7, <3>8 DEF JobInv
  <2> QED
    BY <2>1, <2>2
<1>4. CASE Reply(c)
  <2> DEFINE h == claim[c].host
             x == claim[c].job
  <2>0. /\ h \in HostIds /\ log' = log /\ exec' = exec /\ claim[c].pc = "reply"
        /\ \A d \in Claims \ {c} : claim'[d] = claim[d]
        /\ claim'[c].pc = "idle"
    BY <1>0, <1>4 DEF Reply, ClaimContext, TypeOK, IdleClaim
  <2>1. \A e \in ExecIds : \A d \in Claims : Answering(d, e)' => Answering(d, e) /\ d # c
    BY <2>0 DEF Answering
  <2>2. CASE agent' = agent
    <3>1. NoNewHolder /\ RunsKept
      BY <2>0, <2>1, <2>2, LogUnchanged DEF NoNewHolder, Starting
    <3> QED
      BY <3>1, NoNewHolderStep
  <2>3. CASE agent' # agent
    <3>1. /\ agent'[h].job = x
          /\ \A g \in HostIds \ {h} : agent'[g] = agent[g]
      BY <1>4, <2>0, <2>3 DEF Reply, TypeOK, AgentRow
    <3>2. \A e \in ExecIds, g \in HostIds : Starting(g, e)' =>
            (g # h /\ Starting(g, e)) \/ (g = h /\ e = x)
      BY <3>1 DEF Starting
    <3>3. \A e \in ExecIds : e = x => Answering(c, e)
      BY <2>0 DEF Answering
    <3>4. HolderExclusive'
      BY <2>1, <3>2, <3>3 DEF JobInv, HolderExclusive
    <3>5. HolderUnused'
      BY <2>0, <2>1, <3>2, <3>3 DEF JobInv, HolderUnused, Handed
    <3>6. WorkHanded'
      BY <2>0, <3>1, <3>3 DEF JobInv, WorkHanded, HolderUnused, Handed
    <3> QED
      BY <3>4, <3>5, <3>6 DEF JobInv
  <2> QED
    BY <2>2, <2>3
<1> QED
  BY <1>1, <1>2, <1>3, <1>4 DEF ClaimStep

\* Starting the script uses the right up; no other step of an agent gives one.
LEMMA AgentJobs ==
    ASSUME TypeOK, Contexts, Fresh, JobInv, [Next]_vars, NEW h \in HostIds, AgentStep(h)
    PROVE  JobInv'
<1> DEFINE g == agent[h]
<1>0. g \in AgentContext /\ g \in AgentRow /\ None \notin ExecIds
  BY RemediationConstants DEF Contexts, TypeOK, RemediationConstants
<1>a. ASSUME UNCHANGED <<claim, log>>,
             \A f \in HostIds \ {h} : agent'[f] = agent[f],
             agent'[h].pc # "start", agent'[h].job \in {agent[h].job, None}
      PROVE  JobInv'
  <2>1. NoNewHolder /\ RunsKept
    BY <1>0, <1>a, LogUnchanged DEF NoNewHolder, Answering, Starting
  <2> QED
    BY <2>1, NoNewHolderStep
<1>b. ASSUME AgentDone(h)
      PROVE  /\ \A f \in HostIds \ {h} : agent'[f] = agent[f]
             /\ agent'[h].pc # "start" /\ agent'[h].job = None
  BY <1>b DEF AgentDone, Agent, TypeOK
<1>c. ASSUME g.pc = "reporting", AgentRetry(h)
      PROVE  /\ \A f \in HostIds \ {h} : agent'[f] = agent[f]
             /\ agent'[h].pc # "start" /\ agent'[h].job \in {agent[h].job, None}
  <2>1. CASE agent' = [agent EXCEPT ![h].tries = @ + 1]
    BY <1>0, <1>c, <2>1 DEF TypeOK, AgentRow
  <2> QED
    BY <1>b, <1>c, <2>1 DEF AgentRetry
<1>1. ASSUME NEW c \in Claims, Poll(h, c)
      PROVE  JobInv'
  <2>1. /\ \A f \in HostIds \ {h} : agent'[f] = agent[f]
        /\ agent'[h].pc = "polling" /\ agent'[h].job = agent[h].job
    BY <1>0, <1>1 DEF Poll, TypeOK, AgentRow
  <2>2. claim'[c].pc = "find" /\ \A d \in Claims \ {c} : claim'[d] = claim[d]
    BY <1>1 DEF Poll, TypeOK, IdleClaim
  <2>3. NoNewHolder
    BY <2>1, <2>2 DEF NoNewHolder, Answering, Starting
  <2>4. RunsKept
    BY <1>1, LogUnchanged DEF Poll
  <2> QED
    BY <2>3, <2>4, NoNewHolderStep
<1>2. CASE PollFails(h)
  BY <1>0, <1>2, <1>a DEF PollFails, TypeOK, AgentRow
<1>3. CASE RunJob(h)
  <2>0. g.pc = "start" /\ claim' = claim /\ exec' = exec
    BY <1>3 DEF RunJob
  <2>1. CASE Skip(h) /\ UNCHANGED log
    BY <1>0, <1>a, <2>0, <2>1 DEF Skip, TypeOK, AgentRow
  <2>2. CASE /\ agent' = [agent EXCEPT ![h].pc = "running", ![h].since = clock]
             /\ log' = [log EXCEPT ![g.job].runs = @ + 1]
    <3>1. PICK x \in ExecIds : x = g.job
      BY <1>0, <2>0 DEF AgentContext
    <3>2. Starting(h, x) /\ Handed(x) /\ log[x].runs = 0
      BY <2>0, <3>1 DEF Starting, JobInv, HolderUnused
    <3>3. /\ \A f \in HostIds \ {h} : agent'[f] = agent[f]
          /\ agent'[h].pc = "running" /\ agent'[h].job = x
      BY <1>0, <2>2, <3>1 DEF TypeOK, AgentRow
    <3>4. log'[x].runs = 1 /\ \A e \in ExecIds \ {x} : log'[e].runs = log[e].runs
      BY <2>2, <3>1, <3>2 DEF TypeOK, LogRow
    <3>5. \A e \in ExecIds, f \in HostIds :
            Starting(f, e)' => Starting(f, e) /\ f # h
      BY <3>3 DEF Starting
    <3>6. \A e \in ExecIds, d \in Claims : Answering(d, e)' <=> Answering(d, e)
      BY <2>0 DEF Answering
    <3>7. HolderExclusive'
      BY <3>5, <3>6 DEF JobInv, HolderExclusive
    <3>8. \A d \in Claims : ~Answering(d, x)
      BY <3>2 DEF JobInv, HolderExclusive
    <3>9. \A f \in HostIds : ~Starting(f, x)'
      BY <3>2, <3>5 DEF JobInv, HolderExclusive
    <3>10. HolderUnused'
      BY <2>0, <3>4, <3>5, <3>6, <3>8, <3>9 DEF JobInv, HolderUnused, Handed
    <3>11. WorkHanded'
      BY <2>0, <3>1, <3>2, <3>3, <3>4 DEF JobInv, WorkHanded, Handed
    <3> QED
      BY <3>7, <3>10, <3>11 DEF JobInv
  <2> QED
    BY <1>3, <2>1, <2>2 DEF RunJob
<1>4. CASE FinishJob(h)
  <2>1. PICK result :
          agent' = [agent EXCEPT ![h].pc = "reporting", ![h].result = result, ![h].tries = 0]
    BY <1>4 DEF FinishJob
  <2>2. /\ \A f \in HostIds \ {h} : agent'[f] = agent[f]
        /\ agent'[h].pc = "reporting" /\ agent'[h].job = agent[h].job
    BY <1>0, <2>1 DEF TypeOK, AgentRow
  <2> QED
    BY <1>4, <1>a, <2>2 DEF FinishJob
<1>5. CASE Report(h)
  <2>1. /\ \A f \in HostIds \ {h} : agent'[f] = agent[f]
        /\ agent'[h].pc # "start" /\ agent'[h].job \in {agent[h].job, None}
    BY <1>5, <1>b, <1>c DEF Report
  <2>2. RunsKept
    <3>1. g.job \in ExecIds
      BY <1>0, <1>5 DEF Report, AgentContext
    <3> QED
      BY <1>5, <3>1, HistoryFields, LogUnchanged DEF Report, StoreResult
  <2>3. NoNewHolder
    BY <1>0, <1>5, <2>1 DEF NoNewHolder, Answering, Starting, Report
  <2> QED
    BY <2>2, <2>3, NoNewHolderStep
<1>6. CASE ReportFails(h)
  BY <1>6, <1>a, <1>c DEF ReportFails
<1>7. CASE AgentStop(h)
  <2>1. /\ \A f \in HostIds \ {h} : agent'[f] = agent[f]
        /\ agent'[h].pc = "off" /\ agent'[h].job = None
    BY <1>7 DEF AgentStop, TypeOK, Agent
  <2> QED
    BY <1>7, <1>a, <2>1 DEF AgentStop
<1>8. CASE Heartbeat(h)
  <2>1. NoNewHolder /\ RunsKept
    BY <1>8, LogUnchanged DEF Heartbeat, NoNewHolder, Answering, Starting
  <2> QED
    BY <2>1, NoNewHolderStep
<1>9. ASSUME NEW p \in AgentPolicies, AgentStart(h, p)
      PROVE  JobInv'
  <2>1. /\ \A f \in HostIds \ {h} : agent'[f] = agent[f]
        /\ agent'[h].pc = "idle" /\ agent'[h].job = None
    BY <1>9 DEF AgentStart, TypeOK, Agent
  <2> QED
    BY <1>9, <1>a, <2>1 DEF AgentStart
<1> QED
  BY <1>1, <1>2, <1>3, <1>4, <1>5, <1>6, <1>7, <1>8, <1>9 DEF AgentStep

LEMMA JobStep ==
    ASSUME TypeOK, Contexts, Fresh, JobInv, [Next]_vars
    PROVE  JobInv'
<1>1. CASE \E c \in Claims : ClaimStep(c)
  BY <1>1, ClaimJobs
<1>2. CASE \E h \in HostIds : AgentStep(h)
  BY <1>2, AgentJobs
<1>3. CASE ~(\E c \in Claims : ClaimStep(c)) /\ ~(\E h \in HostIds : AgentStep(h))
  <2>1. NoNewHolder /\ RunsKept
    BY <1>3, QuietHistory DEF NoNewHolder, Answering, Starting
  <2> QED
    BY <2>1, NoNewHolderStep
<1> QED
  BY <1>1, <1>2, <1>3

-----------------------------------------------------------------------------
(* The incident timeline *)

\* Once the event is written, the execution keeps the reported outcome.
LEMMA FinishedStep ==
    ASSUME TypeOK, Contexts, Fresh, FinishedEventIsTheReport, [Next]_vars
    PROVE  FinishedEventIsTheReport'
<1>0. \A e \in ExecIds : log[e].finished \in Nat
  BY DEF TypeOK, LogRow
<1>1. ASSUME NEW e \in ExecIds, log[e].finished = 1
      PROVE  /\ exec'[e].reason = "reported"
             /\ exec'[e].status \in TerminalStatuses \cup {"DELETED"}
  <2>1. exec[e].reason = "reported" /\ exec[e].status \in TerminalStatuses \cup {"DELETED"}
    BY <1>1 DEF FinishedEventIsTheReport
  <2>2. CASE MovesOnly
    <3>1. CASE exec'[e] = exec[e]
      BY <2>1, <3>1
    <3>2. CASE exec'[e] # exec[e]
      BY <2>1, <2>2, <3>2 DEF MovesOnly, Moves, Lifecycle!Edge
    <3> QED
      BY <3>1, <3>2
  <2>3. ASSUME NEW r \in Requests, Inserts(r)
        PROVE  exec'[e] = exec[e]
    <3>1. e # nextExec
      BY <2>1 DEF Fresh, NoExec, TypeOK
    <3> QED
      BY <2>3, <3>1, InsertEffect
  <2> QED
    BY <2>1, <2>2, <2>3, StepEffect
<1>2. CASE FinishedKept
  BY <1>0, <1>1, <1>2 DEF FinishedKept, FinishedEventIsTheReport
<1>3. ASSUME NEW h \in HostIds, Report(h)
      PROVE  FinishedEventIsTheReport'
  <2>1. PICK x \in ExecIds : x = agent[h].job
    BY <1>3 DEF Report, Contexts, AgentContext
  <2>2. CASE log' = log
    BY <1>2, <2>2, LogUnchanged
  <2>3. CASE log' # log
    <3>1. /\ exec[x].status = "RUNNING"
          /\ exec' = [exec EXCEPT ![x].status = agent[h].result, ![x].reason = "reported"]
          /\ log' = [log EXCEPT ![x].finished = @ + 1]
      BY <1>3, <2>1, <2>3 DEF Report, StoreResult
    <3>2. agent[h].result \in TerminalStatuses
      BY <1>3 DEF Report, Contexts, AgentContext, AgentRow
    <3>3. exec'[x] = [exec[x] EXCEPT !.status = agent[h].result, !.reason = "reported"]
          /\ exec[x] \in ExecRow
      BY <3>1 DEF TypeOK
    <3>4. exec'[x].status \in TerminalStatuses /\ exec'[x].reason = "reported"
      BY <3>2, <3>3 DEF ExecRow
    <3>5. log[x].finished = 0
      BY <1>0, <3>1 DEF FinishedEventIsTheReport
    <3>6. log'[x].finished = 1 /\ \A e \in ExecIds \ {x} : log'[e].finished = log[e].finished
      BY <3>1, <3>5 DEF TypeOK, LogRow
    <3> QED
      BY <1>0, <1>1, <3>4, <3>6 DEF FinishedEventIsTheReport
  <2> QED
    BY <2>2, <2>3
<1>4. ASSUME NEW h \in HostIds, RunJob(h)
      PROVE  FinishedKept
  <2>1. agent[h].job \in ExecIds
    BY <1>4 DEF RunJob, Contexts, AgentContext
  <2> QED
    BY <1>4, <2>1, HistoryFields, LogUnchanged DEF RunJob
<1>5. ASSUME NEW h \in HostIds, AgentStep(h), ~Report(h), ~RunJob(h)
      PROVE  FinishedKept
  BY <1>5, LogUnchanged DEF AgentStep, Poll, PollFails, FinishJob, ReportFails, AgentStop,
     Heartbeat, AgentStart
<1>6. ASSUME NEW c \in Claims, ClaimStep(c)
      PROVE  FinishedKept
  BY <1>6, LogUnchanged DEF ClaimStep, ClaimFind, ClaimCas, Reply, ClaimDies
<1> QED
  BY <1>2, <1>3, <1>4, <1>5, <1>6, QuietHistory

-----------------------------------------------------------------------------
(* Theorems *)

LEMMA DeliveryInit == Init => Fresh /\ JobInv /\ FinishedEventIsTheReport
<1> SUFFICES ASSUME Init PROVE Fresh /\ JobInv /\ FinishedEventIsTheReport
  OBVIOUS
<1>1. Fresh
  BY GuardInit
<1>2. \A e \in ExecIds : log[e].runs = 0 /\ log[e].finished = 0
  BY DEF Init, NoLog
<1>3. \A c \in Claims : claim[c].pc = "idle"
  BY DEF Init, IdleClaim
<1>4. \A h \in HostIds : agent[h].pc = "idle" /\ agent[h].job = None
  BY DEF Init, Agent
<1>5. None \notin ExecIds
  BY RemediationConstants DEF RemediationConstants
<1>6. HolderExclusive /\ HolderUnused
  BY <1>3, <1>4 DEF HolderExclusive, HolderUnused, Answering, Starting
<1>7. WorkHanded
  BY <1>2, <1>4, <1>5 DEF WorkHanded
<1>8. FinishedEventIsTheReport
  BY <1>2 DEF FinishedEventIsTheReport
<1> QED
  BY <1>1, <1>6, <1>7, <1>8 DEF JobInv

\* The script of an execution is started at most once, whatever polls overlap,
\* answers are lost and agents restart (claimNextExecution, Run).
THEOREM StartsOnce == Spec => []StartedAtMostOnce
<1>1. Init => TypeOK /\ Contexts /\ Fresh /\ JobInv
  BY InitTypes, DeliveryInit
<1>2. TypeOK /\ Contexts /\ Fresh /\ JobInv /\ [Next]_vars
      => TypeOK' /\ Contexts' /\ Fresh' /\ JobInv'
  BY TypesStep, FreshStep, JobStep
<1>3. JobInv => StartedAtMostOnce
  BY DEF JobInv, WorkHanded, StartedAtMostOnce
<1> QED
  BY <1>1, <1>2, <1>3, PTL DEF Spec

\* An execution that was cancelled or expired did not run, and no agent holds
\* it: the claim and the cancellation are decided by the same row.
THEOREM CancelledIsNeverRun == Spec => []CancelledNeverRuns
<1>1. Init => TypeOK /\ Contexts /\ Fresh /\ JobInv
  BY InitTypes, DeliveryInit
<1>2. TypeOK /\ Contexts /\ Fresh /\ JobInv /\ [Next]_vars
      => TypeOK' /\ Contexts' /\ Fresh' /\ JobInv'
  BY TypesStep, FreshStep, JobStep
<1>3. TypeOK /\ JobInv => CancelledNeverRuns
  BY DEF JobInv, WorkHanded, Handed, CancelledNeverRuns, TypeOK, LogRow
<1> QED
  BY <1>1, <1>2, <1>3, PTL DEF Spec

\* The timeline says at most once that a remediation finished, and only of an
\* execution whose stored outcome is the agent's report.
THEOREM FinishedEvent == Spec => []FinishedEventIsTheReport
<1>1. Init => TypeOK /\ Contexts /\ Fresh /\ FinishedEventIsTheReport
  BY InitTypes, DeliveryInit
<1>2. TypeOK /\ Contexts /\ Fresh /\ FinishedEventIsTheReport /\ [Next]_vars
      => TypeOK' /\ Contexts' /\ Fresh' /\ FinishedEventIsTheReport'
  BY TypesStep, FreshStep, FinishedStep
<1> QED
  BY <1>1, <1>2, PTL DEF Spec

\* No late report, sweep, approval or cancellation changes an outcome.
THEOREM OutcomeFinal == Spec => OutcomeIsFinal
<1> DEFINE Final == \A e \in ExecIds :
                       exec[e].status \in TerminalStatuses =>
                           \/ exec'[e] = exec[e]
                           \/ exec'[e].status = "DELETED"
<1>1. Init => TypeOK /\ Contexts /\ Fresh
  BY InitTypes, DeliveryInit
<1>2. TypeOK /\ Contexts /\ Fresh /\ [Next]_vars => TypeOK' /\ Contexts' /\ Fresh'
  BY TypesStep, FreshStep
<1>3. TypeOK /\ Contexts /\ Fresh /\ [Next]_vars => [Final]_vars
  <2> SUFFICES ASSUME TypeOK, Contexts, Fresh, [Next]_vars,
                      NEW e \in ExecIds, exec[e].status \in TerminalStatuses
               PROVE  exec'[e] = exec[e] \/ exec'[e].status = "DELETED"
    OBVIOUS
  <2>1. CASE MovesOnly
    BY <2>1 DEF MovesOnly, Moves, Lifecycle!Edge
  <2>2. ASSUME NEW r \in Requests, Inserts(r)
        PROVE  exec'[e] = exec[e]
    <3>1. e # nextExec
      BY DEF Fresh, NoExec, TypeOK
    <3> QED
      BY <2>2, <3>1, InsertEffect
  <2> QED
    BY <2>1, <2>2, StepEffect
<1> QED
  BY <1>1, <1>2, <1>3, PTL DEF Spec, OutcomeIsFinal

-----------------------------------------------------------------------------
(* Refinement *)

LEMMA InitRefines == Init => Lifecycle!Init
BY DEF Init, Lifecycle!Init, NoExec, NoLog

\* A step moves rows along the diagram with the scripts untouched, or starts
\* the script of one execution that was handed out.
LEMMA StepRefines ==
    ASSUME TypeOK, Contexts, Fresh, JobInv, AtMostOneLive', [Next]_vars
    PROVE  Lifecycle!Next \/ UNCHANGED Lifecycle!absVars
<1> DEFINE st(e) == exec[e].status
           k(e) == [action |-> exec[e].action, host |-> exec[e].host]
<1>1. ASSUME RunsKept PROVE Lifecycle!Advance
  <2>1. \A e \in ExecIds : log'[e].runs = log[e].runs
    BY <1>1 DEF RunsKept, JobInv, WorkHanded, Handed, TypeOK, LogRow
  <2>2. \A e \in ExecIds : st(e)' = st(e) \/ Lifecycle!Edge(st(e), st(e)')
    <3>1. ASSUME NEW r \in Requests, Inserts(r), NEW e \in ExecIds
          PROVE  st(e)' = st(e) \/ Lifecycle!Edge(st(e), st(e)')
      BY <3>1, InsertEffect DEF Fresh, NoExec, TypeOK, Lifecycle!Edge
    <3> QED
      BY <3>1, StepEffect DEF MovesOnly, Moves
  <2>3. \A e \in ExecIds : k(e)' = k(e) \/ st(e) = "ABSENT"
    <3>1. ASSUME NEW r \in Requests, Inserts(r), NEW e \in ExecIds
          PROVE  k(e)' = k(e) \/ st(e) = "ABSENT"
      BY <3>1, InsertEffect DEF Fresh, NoExec, TypeOK
    <3> QED
      BY <3>1, StepEffect DEF MovesOnly, Moves
  <2>4. \A e, f \in ExecIds :
          (/\ e # f /\ st(e)' \in LiveStatuses /\ st(f)' \in LiveStatuses
           /\ k(e)'.host # None) => k(e)' # k(f)'
    BY DEF AtMostOneLive, SameKey
  <2> QED
    BY <2>1, <2>2, <2>3, <2>4
    DEF Lifecycle!Advance, Lifecycle!OneLivePerKey, Lifecycle!LiveStatuses
<1>2. ASSUME NEW h \in HostIds, RunJob(h), ~RunsKept
      PROVE  Lifecycle!Next
  <2>1. PICK x \in ExecIds : x = agent[h].job
    BY <1>2 DEF RunJob, Contexts, AgentContext
  <2>2. exec' = exec /\ log' = [log EXCEPT ![x].runs = @ + 1]
    BY <1>2, <2>1, LogUnchanged DEF RunJob
  <2>3. Handed(x) /\ log[x].runs = 0
    BY <1>2, <2>1 DEF RunJob, JobInv, HolderUnused, Starting
  <2>4. log'[x].runs = 1 /\ \A e \in ExecIds \ {x} : log'[e].runs = log[e].runs
    BY <2>2, <2>3 DEF TypeOK, LogRow
  <2>5. [e \in ExecIds |-> log'[e].runs]
            = [[e \in ExecIds |-> log[e].runs] EXCEPT ![x] = 1]
    BY <2>4
  <2>6. Lifecycle!Start(x)
    BY <2>2, <2>3, <2>5 DEF Lifecycle!Start, Handed
  <2> QED
    BY <2>6 DEF Lifecycle!Next
<1>3. ASSUME NEW h \in HostIds, AgentStep(h), ~RunJob(h)
      PROVE  RunsKept
  <2>1. ASSUME Report(h)
        PROVE  RunsKept
    <3>1. agent[h].job \in ExecIds
      BY <2>1 DEF Report, Contexts, AgentContext
    <3> QED
      BY <2>1, <3>1, HistoryFields, LogUnchanged DEF Report, StoreResult
  <2> QED
    BY <1>3, <2>1, LogUnchanged DEF AgentStep, Poll, PollFails, FinishJob, ReportFails, AgentStop,
       Heartbeat, AgentStart
<1>4. ASSUME NEW c \in Claims, ClaimStep(c)
      PROVE  RunsKept
  BY <1>4, LogUnchanged DEF ClaimStep, ClaimFind, ClaimCas, Reply, ClaimDies
<1> QED
  BY <1>1, <1>2, <1>3, <1>4, QuietHistory DEF Lifecycle!Next

\* The executions table, written concurrently by requests, agents and workers,
\* implements the life cycle of ExecutionLifecycle.
THEOREM Refinement == Spec => ImplementsLifecycle
<1>1. Init => TypeOK /\ Contexts /\ Fresh /\ GuardInv /\ JobInv /\ Lifecycle!Init
  BY InitTypes, GuardInit, DeliveryInit, InitRefines
<1>2. TypeOK /\ Contexts /\ Fresh /\ GuardInv /\ JobInv /\ [Next]_vars
      => TypeOK' /\ Contexts' /\ Fresh' /\ GuardInv' /\ JobInv'
  BY TypesStep, FreshStep, GuardStep, JobStep
<1>3. TypeOK /\ Contexts /\ Fresh /\ GuardInv /\ GuardInv' /\ JobInv /\ [Next]_vars
      => [Lifecycle!Next]_(Lifecycle!absVars)
  <2>1. GuardInv' => AtMostOneLive'
    BY DEF GuardInv
  <2> QED
    BY <2>1, StepRefines
<1> QED
  BY <1>1, <1>2, <1>3, PTL DEF Spec, ImplementsLifecycle, Lifecycle!AbsSpec
=============================================================================

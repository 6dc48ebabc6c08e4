--------------------------- MODULE TelemetryProofs ---------------------------
(***************************************************************************)
(* For any devices, databases, limits and clock errors: the state is well  *)
(* typed and the buffer never past its limit, every batch is stored whole  *)
(* and once, replaced secrets expire, retired devices leave the polling,   *)
(* and no batch leaves the agent's hands unaccounted for.                  *)
(*                                                                         *)
(* None of them is inductive.  The strengthening follows a batch through   *)
(* the system: it is sampled at a time no other batch has; the file it is  *)
(* replayed from stays on disk until it is answered; one request at most   *)
(* is waited for, it carries the batch in the agent's hands, and the       *)
(* answer, once there, tells the truth about that batch.  Rows belong to   *)
(* sampled times, so a fresh batch meets none; the grace period runs from  *)
(* the time the previous secret was replaced; and the list of devices was  *)
(* right when it was fetched.                                              *)
(***************************************************************************)
EXTENDS Telemetry, FiniteSetTheorems, TLAPS

\* Each event takes one unit of MaxEvents.  A device gets a new id when it is
\* registered, or reported after it was deleted.
EventsCounted ==
    /\ faults + edits <= MaxEvents
    /\ host.secret <= edits + 1
    /\ \A ip \in Ips : /\ device[ip].id <= edits + 1
                       /\ ~ device[ip].live => device[ip].id <= edits

\* Secrets are numbered in the order of rotations; the grace period of the
\* previous one runs from its replacement.
SecretsInOrder ==
    /\ host.previous = host.secret - 1
    /\ \A s \in Secrets :
          /\ s >= host.secret => replacedAt[s] = NoTime
          /\ replacedAt[s] <= clock
          /\ s = host.previous => host.expires = replacedAt[s] + RotationGrace
    /\ \A q \in requests : q.now <= clock

\* Where the agent's batch is, at each point of its cycle.
CycleInOrder ==
    /\ agent.entries \subseteq buffer
    /\ agent.pc # "sending" => agent.batch = {}
    /\ agent.pc = "sending" =>
          \E b \in sampled : agent.batch = {b} /\
             IF agent.replay THEN \E e \in agent.entries : e.batch = b
                             ELSE agent.entries = {} /\ ~ Buffered(b)
    /\ agent.pc \in {"idle", "collect"} => agent.entries = {}

\* Only what was sampled is buffered and sent, and each time is sampled once.
OnlySamples ==
    /\ \A b, c \in sampled : b.time = c.time => b = c
    /\ \A e \in buffer : e.batch \in sampled
    /\ \A q \in requests : q.batch \in sampled

\* The one request the agent waits for carries its batch.
OneAwaited ==
    /\ \A q \in requests : q.waited =>
          agent.pc = "sending" /\ agent.batch = {q.batch} /\ answer = "none"
    /\ \A q, r \in requests : q.waited /\ r.waited => q = r

\* What the server answered is what became of the agent's batch.
AnswerTrue ==
    answer # "none" =>
        /\ agent.pc = "sending"
        /\ \A b \in agent.batch :
              /\ OutcomeOf(answer) = "stored" => Stored(b)
              /\ OutcomeOf(answer) = "rejected" => b \in refused

\* Rows have the times of batches.
RowsOfSamples ==
    \A source \in Sources, t \in AgentTimes :
        rows[<<source, t>>] > 0 => \E b \in sampled : b.time = t

\* A device on the list that is no longer assigned was, when it was fetched.
ListWasRight ==
    /\ poll.fetchedAt <= clock
    /\ \A ip \in poll.devices : Assigned(device[ip]) \/ poll.fetchedAt <= retiredAt[ip]

TelemetryInv ==
    /\ TypeOK /\ EventsCounted /\ SecretsInOrder /\ OldSecretsExpire
    /\ CycleInOrder /\ OnlySamples /\ OneAwaited /\ AnswerTrue
    /\ RowsOfSamples /\ StoredWholeAndOnce /\ ListWasRight

-----------------------------------------------------------------------------
(* Clocks and files *)

LEMMA Clocks ==
    ASSUME TypeOK
    PROVE  /\ AgentTimes \subseteq Int /\ AgentNow \in AgentTimes /\ AgentNow \in Int
           /\ NoTime \in Int /\ clock \in Nat
BY LimitAssumption DEF TypeOK, AgentTimes, AgentNow, Times, NoTime

\* Only the oldest file is evicted, only from a full buffer, and one more fits.
LEMMA Evicts ==
    ASSUME NEW files \in SUBSET Entry, IsFiniteSet(files), Cardinality(files) <= MaxEntries,
           NEW kept \in evictIfFull(files), AgentTimes \subseteq Int
    PROVE  /\ kept \subseteq files /\ IsFiniteSet(kept) /\ Cardinality(kept) < MaxEntries
           /\ \A e \in files \ kept : /\ Cardinality(files) = MaxEntries
                                      /\ \A f \in files : e.savedAt <= f.savedAt
<1>1. Cardinality(files) \in Nat /\ MaxEntries \in Nat \ {0}
  BY FS_CardinalityType, LimitAssumption
<1>2. CASE Cardinality(files) < MaxEntries
  BY <1>1, <1>2 DEF evictIfFull
<1>3. CASE ~ Cardinality(files) < MaxEntries
  <2>1. Cardinality(files) = MaxEntries
    BY <1>1, <1>3
  <2>2. Cardinality(files) - MaxEntries + 1 = 1
    BY <1>1, <2>1
  <2>3. PICK S \in Oldest(1, files) : kept = files \ S
    BY <1>3, <2>2 DEF evictIfFull
  <2>4. S \subseteq files /\ Cardinality(S) = 1
    BY <1>1, <2>1, <2>3 DEF Oldest
  <2>5. IsFiniteSet(S) /\ S \subseteq files
    BY <2>4, FS_Subset
  <2>6. PICK e : S = {e}
    BY <2>4, <2>5, FS_Singleton
  <2>7. IsFiniteSet(kept) /\ Cardinality(kept) = MaxEntries - 1
    BY <2>1, <2>3, <2>4, <2>6, FS_RemoveElement
  <2>8. \A f \in files : f.savedAt \in Int
    BY DEF Entry
  <2>9. \A f \in files : e.savedAt <= f.savedAt
    BY <2>3, <2>4, <2>6, <2>8 DEF Oldest
  <2> QED
    BY <1>1, <2>1, <2>3, <2>6, <2>7, <2>9
<1> QED
  BY <1>2, <1>3

\* Saving a batch keeps the buffer within its limit, even when it fails; what it
\* evicts is oldest.
LEMMA Saves ==
    ASSUME TypeOK, NEW b \in Batch, NEW files \in Push(b)
    PROVE  /\ files \subseteq Entry /\ IsFiniteSet(files) /\ Cardinality(files) <= MaxEntries
           /\ diskFails \/ \E e \in files : e.batch = b
           /\ \A e \in files : e \in buffer \/ e.batch = b
           /\ \A e \in buffer \ files : /\ Cardinality(buffer) = MaxEntries
                                        /\ \A f \in buffer : e.savedAt <= f.savedAt
<1>1. buffer \in SUBSET Entry /\ IsFiniteSet(buffer) /\ Cardinality(buffer) <= MaxEntries
  BY DEF TypeOK
<1>2. ASSUME NEW kept \in evictIfFull(buffer)
      PROVE  /\ kept \subseteq buffer /\ IsFiniteSet(kept) /\ Cardinality(kept) < MaxEntries
             /\ \A e \in buffer \ kept : /\ Cardinality(buffer) = MaxEntries
                                         /\ \A f \in buffer : e.savedAt <= f.savedAt
  BY <1>1, <1>2, Clocks, Evicts
<1>3. PICK x : x = [batch |-> b, savedAt |-> AgentNow]
  OBVIOUS
<1>4. x \in Entry /\ x.batch = b
  BY <1>3, Clocks DEF Entry
<1>5. CASE \E kept \in evictIfFull(buffer) : files = kept \cup {x}
  <2>1. PICK kept \in evictIfFull(buffer) : files = kept \cup {x}
    BY <1>5
  <2>2. Cardinality(kept) \in Nat /\ MaxEntries \in Nat
    BY <1>2, FS_CardinalityType, LimitAssumption
  <2>3. /\ IsFiniteSet(kept \cup {x})
        /\ \/ Cardinality(kept \cup {x}) = Cardinality(kept)
           \/ Cardinality(kept \cup {x}) = Cardinality(kept) + 1
    BY <1>2, FS_AddElement
  <2>4. IsFiniteSet(files) /\ Cardinality(files) <= MaxEntries
    BY <1>2, <2>1, <2>2, <2>3
  <2> QED
    BY <1>1, <1>2, <1>4, <2>1, <2>4
<1>6. CASE diskFails /\ files \in evictIfFull(buffer)
  <2>1. Cardinality(files) \in Nat /\ MaxEntries \in Nat
    BY <1>2, <1>6, FS_CardinalityType, LimitAssumption
  <2>2. Cardinality(files) <= MaxEntries
    BY <1>2, <1>6, <2>1
  <2> QED
    BY <1>1, <1>2, <1>6, <2>2
<1>7. CASE diskFails /\ files = buffer
  BY <1>1, <1>7
<1>8. \/ \E kept \in evictIfFull(buffer) : files = kept \cup {x}
      \/ diskFails /\ (files = buffer \/ files \in evictIfFull(buffer))
  BY <1>3 DEF Push
<1> QED
  BY <1>5, <1>6, <1>7, <1>8

\* Deleting files keeps what is left within the limit.
LEMMA Deletes ==
    ASSUME TypeOK, NEW files \in SUBSET buffer
    PROVE  files \subseteq Entry /\ IsFiniteSet(files) /\ Cardinality(files) <= MaxEntries
<1>1. IsFiniteSet(buffer) /\ Cardinality(buffer) <= MaxEntries /\ buffer \subseteq Entry
  BY DEF TypeOK
<1>2. IsFiniteSet(files) /\ Cardinality(files) <= Cardinality(buffer)
  BY <1>1, FS_Subset
<1>3. Cardinality(files) \in Nat /\ Cardinality(buffer) \in Nat /\ MaxEntries \in Nat
  BY <1>1, <1>2, FS_CardinalityType, LimitAssumption
<1> QED
  BY <1>1, <1>2, <1>3

-----------------------------------------------------------------------------
(* The initial states *)

LEMMA InitInv == Init => TelemetryInv
<1> SUFFICES ASSUME Init PROVE TelemetryInv
  OBVIOUS
<1>1. 0 \in Times /\ 1 \in Secrets /\ 1 \in 1..(MaxEvents + 1) /\ NoTime \in Int /\ NoTime < 0
  BY LimitAssumption DEF Times, Secrets, NoTime
<1>2. IsFiniteSet(buffer) /\ Cardinality(buffer) = 0
  BY FS_EmptySet DEF Init
<1>3. TypeOK
  <2>0. diskFails \in BOOLEAN
    BY DEF Init
  <2>1. /\ clock \in Times /\ skew \in Skews /\ reachable \in BOOLEAN
        /\ faults \in 0..MaxEvents /\ edits \in 0..MaxEvents
    BY <1>1, LimitAssumption DEF Init
  <2>2. agent \in [pc : {"idle", "flush", "collect", "sending"}, entries : SUBSET Entry,
                   batch : SUBSET Batch, replay : BOOLEAN, secret : Secrets]
    BY <1>1 DEF Init
  <2>3. poll \in [devices : SUBSET Ips, fetchedAt : Times \cup {NoTime}, failed : BOOLEAN]
    BY DEF Init
  <2>4. host \in [enabled : BOOLEAN, secret : Secrets, previous : Secrets \cup {0},
                  expires : Nat, seen : BOOLEAN]
    BY <1>1 DEF Init, registerHost
  <2>5. device \in [Ips -> Device]
    BY <1>1 DEF Init, Device
  <2>6. database \in [Databases -> [live : BOOLEAN, enabled : BOOLEAN,
                                    threshold : {"agent", "admin"}]]
    BY DEF Init
  <2>7. /\ buffer \subseteq Entry /\ Cardinality(buffer) <= MaxEntries
        /\ sampled \subseteq Batch /\ refused \subseteq Batch /\ requests \subseteq Request
        /\ answer \in Codes \cup {"none"}
    BY <1>2, LimitAssumption DEF Init
  <2>8. /\ replacedAt \in [Secrets -> Times \cup {NoTime}]
        /\ retiredAt \in [Ips -> Times \cup {NoTime}] /\ rows \in [Keys -> Nat]
    BY DEF Init
  <2> QED
    BY <1>2, <2>0, <2>1, <2>2, <2>3, <2>4, <2>5, <2>6, <2>7, <2>8 DEF TypeOK
<1>4. EventsCounted
  BY LimitAssumption DEF Init, EventsCounted, registerHost
<1>5. SecretsInOrder /\ OldSecretsExpire
  BY <1>1 DEF Init, SecretsInOrder, OldSecretsExpire, registerHost, Secrets
<1>6. CycleInOrder /\ OnlySamples /\ OneAwaited /\ AnswerTrue
  BY DEF Init, CycleInOrder, OnlySamples, OneAwaited, AnswerTrue
<1>7. RowsOfSamples /\ StoredWholeAndOnce
  BY DEF Init, RowsOfSamples, StoredWholeAndOnce, Keys
<1>8. ListWasRight
  BY <1>1 DEF Init, ListWasRight
<1> QED
  BY <1>3, <1>4, <1>5, <1>6, <1>7, <1>8 DEF TelemetryInv

-----------------------------------------------------------------------------
(* Typing *)

LEMMA RequestTypes ==
    ASSUME TypeOK
    PROVE  /\ \A b \in Batch : Sign(b) \in Request /\ Sign(b).waited /\ Sign(b).batch = b
                                  /\ Sign(b).stage = "sent" /\ Sign(b).now = 0
           /\ Abandoned \subseteq Request
           /\ \A q \in requests :
                 [q EXCEPT !.stage = "authenticated", !.now = clock] \in Request
<1>1. \A b \in Batch : Sign(b) \in Request /\ Sign(b).waited /\ Sign(b).batch = b
                          /\ Sign(b).stage = "sent" /\ Sign(b).now = 0
  BY Clocks, LimitAssumption DEF Sign, Request, TypeOK, Times
<1>2. Abandoned \subseteq Request
  <2> SUFFICES ASSUME NEW q \in requests PROVE [q EXCEPT !.waited = FALSE] \in Request
    BY DEF Abandoned
  <2>1. q \in Request
    BY DEF TypeOK
  <2> QED
    BY <2>1 DEF Request
<1>3. ASSUME NEW q \in requests
      PROVE  [q EXCEPT !.stage = "authenticated", !.now = clock] \in Request
  <2>1. q \in Request /\ clock \in Times
    BY DEF TypeOK
  <2> QED
    BY <2>1 DEF Request
<1> QED
  BY <1>1, <1>2, <1>3

\* What is reported of a batch by the server.
LEMMA ReplyTypes ==
    ASSUME TypeOK, NEW q \in requests, NEW code \in Codes, Reply(q, code)
    PROVE  requests' \subseteq Request /\ answer' \in Codes \cup {"none"} /\ refused' \subseteq Batch
<1>1. q.batch \in Batch
  BY DEF TypeOK, Request
<1> QED
  BY <1>1 DEF Reply, TypeOK

LEMMA AuthenticateCodes ==
    ASSUME NEW secret, NEW signedAt, NEW now
    PROVE  authenticateAgent(secret, signedAt, now) \in Codes
BY DEF authenticateAgent, Codes

\* What the agent does with an outcome.
LEMMA OutcomeTypes ==
    ASSUME TelemetryInv, NEW outcome, Outcome(outcome)
    PROVE  /\ agent' \in [pc : {"idle", "flush", "collect", "sending"}, entries : SUBSET Entry,
                          batch : SUBSET Batch, replay : BOOLEAN, secret : Secrets]
           /\ buffer' \subseteq Entry /\ IsFiniteSet(buffer')
           /\ Cardinality(buffer') <= MaxEntries
<1>1. TypeOK
  BY DEF TelemetryInv
<1>2. PICK b \in agent.batch :
         IF agent.replay THEN flushBuffer(b, outcome) ELSE sendOrBuffer(b, outcome)
  BY DEF Outcome
<1>3. b \in Batch
  BY <1>1, <1>2 DEF TypeOK
<1>4. Remove(agent.entries, b) \subseteq agent.entries /\ Remove(buffer, b) \subseteq buffer
  BY DEF Remove
<1>5. agent' \in [pc : {"idle", "flush", "collect", "sending"}, entries : SUBSET Entry,
                  batch : SUBSET Batch, replay : BOOLEAN, secret : Secrets]
  BY <1>1, <1>2, <1>4 DEF TypeOK, flushBuffer, sendOrBuffer
<1>6. \/ buffer' \in Push(b) \/ buffer' = buffer \/ buffer' = Remove(buffer, b)
  BY <1>2 DEF flushBuffer, sendOrBuffer
<1>7. buffer' \subseteq Entry /\ IsFiniteSet(buffer') /\ Cardinality(buffer') <= MaxEntries
  BY <1>1, <1>3, <1>4, <1>6, Saves, Deletes
<1> QED
  BY <1>5, <1>7

\* The batch a collection makes.
LEMMA CollectTypes ==
    ASSUME TelemetryInv, NEW silent \in SUBSET (Ips \cup Databases), Collect(silent)
    PROVE  /\ poll' \in [devices : SUBSET Ips, fetchedAt : Times \cup {NoTime}, failed : BOOLEAN]
           /\ \E b \in Batch :
                 /\ b.time = AgentNow /\ b.polled = poll'.devices
                 /\ sampled' = sampled \cup {b}
                 /\ IF reachable THEN Send(b, FALSE) /\ UNCHANGED buffer
                    ELSE sendOrBuffer(b, "retry") /\ UNCHANGED requests
<1>1. TypeOK
  BY DEF TelemetryInv
<1>2. poll' = refresh
  BY DEF Collect
<1>3. refresh \in [devices : SUBSET Ips, fetchedAt : Times \cup {NoTime}, failed : BOOLEAN]
  BY <1>1 DEF TypeOK, refresh, Fetch, PollerConfig, listDevicesForPoller
<1>4. PICK p : p = poll'
  OBVIOUS
<1>5. PICK b : b = [time |-> AgentNow, polled |-> p.devices,
                    answered |-> pollDevices(p.devices, silent) \cup pollDatabases(silent)]
  OBVIOUS
<1>6. p.devices \subseteq Ips
  BY <1>2, <1>3, <1>4
<1>7. b \in Batch /\ b.time = AgentNow /\ b.polled = p.devices
  BY <1>1, <1>5, <1>6, Clocks DEF Batch, pollDevices, pollDatabases
<1>8. /\ sampled' = sampled \cup {b}
      /\ IF reachable THEN Send(b, FALSE) /\ UNCHANGED buffer
         ELSE sendOrBuffer(b, "retry") /\ UNCHANGED requests
  BY <1>4, <1>5 DEF Collect
<1> QED
  BY <1>2, <1>3, <1>4, <1>7, <1>8

-----------------------------------------------------------------------------
(* Which steps change what *)

\* An edit of a device keeps its id unless the device is registered again.
DeviceChange ==
    \E ip \in Ips, row \in Device :
        /\ SetDevice(ip, row)
        /\ row.id # device[ip].id => ~ device[ip].live /\ row.live /\ row.id = device[ip].id + 1

DatabaseChange == \E d \in Databases : databaseActions(d)

LEMMA DeviceEdits ==
    ASSUME TypeOK, EventsCounted, NEW ip \in Ips, deviceActions(ip)
    PROVE  DeviceChange
<1>1. device[ip] \in Device /\ faults \in Nat /\ edits \in Nat /\ MaxEvents \in Nat
  BY LimitAssumption DEF TypeOK
<1>2. faults + edits < MaxEvents
  BY DEF deviceActions, registerDevice, updateDevice, setDeviceEnabled, deleteDevice,
         SetDevice, Edit
<1>3. CASE \E here \in BOOLEAN : registerDevice(ip, here)
  <2>1. PICK here \in BOOLEAN : registerDevice(ip, here)
    BY <1>3
  <2>2. PICK row : row = [id |-> device[ip].id + 1, live |-> TRUE, enabled |-> TRUE,
                          here |-> here, secret |-> TRUE]
    OBVIOUS
  <2>3. ~ device[ip].live /\ SetDevice(ip, row)
    BY <2>1, <2>2 DEF registerDevice
  <2>4. device[ip].id \in 1..(MaxEvents + 1) /\ device[ip].id <= edits
    BY <1>1, <2>3 DEF Device, EventsCounted
  <2>5. device[ip].id + 1 \in 1..(MaxEvents + 1)
    BY <1>1, <1>2, <2>4
  <2>6. row \in Device /\ row.live /\ row.id = device[ip].id + 1
    BY <2>2, <2>5 DEF Device
  <2> QED
    BY <2>3, <2>6 DEF DeviceChange
<1>4. CASE \E here \in BOOLEAN : updateDevice(ip, here)
  <2>1. PICK here \in BOOLEAN : updateDevice(ip, here)
    BY <1>4
  <2>2. PICK row : row = [device[ip] EXCEPT !.here = here, !.secret = TRUE]
    OBVIOUS
  <2>3. device[ip].live /\ SetDevice(ip, row)
    BY <2>1, <2>2 DEF updateDevice
  <2>4. row \in Device /\ row.id = device[ip].id
    BY <1>1, <2>2 DEF Device
  <2> QED
    BY <2>3, <2>4 DEF DeviceChange
<1>5. CASE setDeviceEnabled(ip)
  <2>1. PICK on \in BOOLEAN : on = ~ device[ip].enabled
    OBVIOUS
  <2>2. PICK row : row = [device[ip] EXCEPT !.enabled = on]
    OBVIOUS
  <2>3. device[ip].live /\ SetDevice(ip, row)
    BY <1>5, <2>1, <2>2 DEF setDeviceEnabled
  <2>4. row \in Device /\ row.id = device[ip].id
    BY <1>1, <2>2 DEF Device
  <2> QED
    BY <2>3, <2>4 DEF DeviceChange
<1>6. CASE deleteDevice(ip)
  <2>1. PICK row : row = [device[ip] EXCEPT !.live = FALSE]
    OBVIOUS
  <2>2. device[ip].live /\ SetDevice(ip, row)
    BY <1>6, <2>1 DEF deleteDevice
  <2>3. row \in Device /\ row.id = device[ip].id
    BY <1>1, <2>1 DEF Device
  <2> QED
    BY <2>2, <2>3 DEF DeviceChange
<1> QED
  BY <1>3, <1>4, <1>5, <1>6 DEF deviceActions

\* The actions of the specification, one by one.
LEMMA Actions ==
    ASSUME TypeOK, EventsCounted, [Next]_vars
    PROVE  \/ UNCHANGED vars \/ Tick \/ Outage \/ OutageEnds \/ DiskFault \/ DiskRepaired
           \/ \E s \in Skews : ClockStep(s)
           \/ runCycle \/ Replay \/ Receive \/ CollectNothing
           \/ \E silent \in SUBSET (Ips \cup Databases) : Collect(silent)
           \/ GiveUp
           \/ \E s \in Secrets : Restart(s)
           \/ \E q \in requests : POST(q)
           \/ \E q \in requests : ingestTelemetry(q)
           \/ \E q \in requests : InternalError(q)
           \/ rotateHostSecret \/ setHostEnabled
           \/ DeviceChange
           \/ DatabaseChange
<1>1. Next => Tick \/ AgentStep \/ ServerStep \/ Failure \/ Administration
  BY DEF Next
<1>2. CASE AgentStep
  BY <1>2 DEF AgentStep
<1>3. CASE ServerStep
  BY <1>3 DEF ServerStep
<1>4. CASE Failure
  BY <1>4 DEF Failure
<1>5. CASE Administration
  BY <1>5, DeviceEdits DEF Administration, hostActions, DatabaseChange
<1> QED
  BY <1>1, <1>2, <1>3, <1>4, <1>5

\* The server's clock, the agent's and the counters of events.
LEMMA ClockSteps ==
    ASSUME TypeOK, EventsCounted, [Next]_vars
    PROVE  /\ clock' \in Times /\ skew' \in Skews /\ reachable' \in BOOLEAN /\ diskFails' \in BOOLEAN
           /\ faults' \in 0..MaxEvents /\ edits' \in 0..MaxEvents
           /\ clock' >= clock /\ faults' + edits' <= MaxEvents /\ edits' >= edits
<1>1. /\ clock \in Times /\ skew \in Skews /\ reachable \in BOOLEAN /\ diskFails \in BOOLEAN
      /\ faults \in 0..MaxEvents /\ edits \in 0..MaxEvents /\ faults + edits <= MaxEvents
      /\ MaxEvents \in Nat /\ MaxClock \in Nat
  BY LimitAssumption DEF TypeOK, EventsCounted
<1>2. \/ clock' = clock
      \/ clock < MaxClock /\ clock' = clock + 1
  BY Actions DEF Tick, Outage, OutageEnds, DiskFault, DiskRepaired, ClockStep, runCycle, Replay, Receive, CollectNothing,
     Collect, GiveUp, Restart, POST, ingestTelemetry, InternalError, rotateHostSecret,
     setHostEnabled, DeviceChange, SetDevice, DatabaseChange, databaseActions,
     updateDatabaseSettings, setDatabaseEnabled, SetDatabase, adminFrame, vars
<1>3. skew' \in Skews /\ reachable' \in BOOLEAN /\ diskFails' \in BOOLEAN
  BY <1>1, Actions DEF Tick, Outage, OutageEnds, DiskFault, DiskRepaired, ClockStep, runCycle, Replay, Receive, CollectNothing,
     Collect, GiveUp, Restart, POST, ingestTelemetry, InternalError, rotateHostSecret,
     setHostEnabled, DeviceChange, SetDevice, DatabaseChange, databaseActions,
     updateDatabaseSettings, setDatabaseEnabled, SetDatabase, adminFrame, vars
<1>4. \/ faults' = faults /\ edits' = edits
      \/ faults + edits < MaxEvents /\ faults' = faults + 1 /\ edits' = edits
      \/ faults + edits < MaxEvents /\ faults' = faults /\ edits' = edits + 1
  BY Actions DEF Tick, Outage, OutageEnds, DiskFault, DiskRepaired, ClockStep, runCycle, Replay, Receive, CollectNothing,
     Collect, GiveUp, Restart, POST, ingestTelemetry, InternalError, rotateHostSecret,
     setHostEnabled, DeviceChange, SetDevice, DatabaseChange, databaseActions,
     updateDatabaseSettings, setDatabaseEnabled, SetDatabase, adminFrame, vars,
     Fault, Edit
<1>5. clock' \in Times /\ clock' >= clock
  BY <1>1, <1>2 DEF Times
<1>6. /\ faults' \in 0..MaxEvents /\ edits' \in 0..MaxEvents
      /\ faults' + edits' <= MaxEvents /\ edits' >= edits
  BY <1>1, <1>4
<1> QED
  BY <1>3, <1>5, <1>6

\* The agent's state changes by its own steps, when it gives up, and when it is
\* started again.
LEMMA AgentFrame ==
    ASSUME TypeOK, EventsCounted, [Next]_vars
    PROVE  \/ UNCHANGED <<agent, poll, buffer, sampled>>
           \/ runCycle \/ Replay \/ Receive \/ CollectNothing
           \/ \E silent \in SUBSET (Ips \cup Databases) : Collect(silent)
           \/ GiveUp
           \/ \E s \in Secrets : Restart(s)
BY Actions DEF Tick, Outage, OutageEnds, DiskFault, DiskRepaired, ClockStep, POST, ingestTelemetry, InternalError,
   rotateHostSecret, setHostEnabled, DeviceChange, SetDevice, DatabaseChange, databaseActions,
   updateDatabaseSettings, setDatabaseEnabled, SetDatabase, adminFrame, vars, agentVars

\* A cycle begins with some of the files that are left, or, if they cannot be
\* listed, with none.
LEMMA Cycles ==
    ASSUME TypeOK, CycleInOrder, runCycle
    PROVE  \E S : /\ agent' = [agent EXCEPT !.pc = "flush", !.entries = S]
                  /\ S \subseteq buffer' /\ S \subseteq buffer /\ buffer' \subseteq buffer
                  /\ buffer' = Pending \/ buffer' = buffer
<1>1. Pending \subseteq buffer
  BY DEF Pending
<1>2. CASE buffer' = Pending /\ \E S \in Oldest(bufferFlushBatch, Pending) :
              agent' = [agent EXCEPT !.pc = "flush", !.entries = S]
  BY <1>1, <1>2 DEF Oldest
<1>3. CASE UNCHANGED buffer /\ agent' = [agent EXCEPT !.pc = "flush"]
  <2>1. agent.entries = {}
    BY DEF runCycle, CycleInOrder
  <2>2. agent \in [pc : {"idle", "flush", "collect", "sending"}, entries : SUBSET Entry,
                   batch : SUBSET Batch, replay : BOOLEAN, secret : Secrets]
    BY DEF TypeOK
  <2>3. PICK S : S = {}
    OBVIOUS
  <2>4. agent' = [agent EXCEPT !.pc = "flush", !.entries = S]
    BY <1>3, <2>1, <2>2, <2>3
  <2>5. S \subseteq buffer' /\ S \subseteq buffer /\ buffer' \subseteq buffer /\ buffer' = buffer
    BY <1>3, <2>3
  <2> QED
    BY <2>4, <2>5
<1> QED
  BY <1>2, <1>3 DEF runCycle

LEMMA AgentTypes ==
    ASSUME TelemetryInv, [Next]_vars
    PROVE  /\ agent' \in [pc : {"idle", "flush", "collect", "sending"}, entries : SUBSET Entry,
                          batch : SUBSET Batch, replay : BOOLEAN, secret : Secrets]
           /\ poll' \in [devices : SUBSET Ips, fetchedAt : Times \cup {NoTime}, failed : BOOLEAN]
           /\ buffer' \subseteq Entry /\ IsFiniteSet(buffer')
           /\ Cardinality(buffer') <= MaxEntries
           /\ sampled' \subseteq Batch
<1> DEFINE Agent == [pc : {"idle", "flush", "collect", "sending"}, entries : SUBSET Entry,
                     batch : SUBSET Batch, replay : BOOLEAN, secret : Secrets]
           Poll == [devices : SUBSET Ips, fetchedAt : Times \cup {NoTime}, failed : BOOLEAN]
           Limited(files) == files \subseteq Entry /\ IsFiniteSet(files)
                                /\ Cardinality(files) <= MaxEntries
<1>1. TypeOK /\ EventsCounted /\ CycleInOrder
  BY DEF TelemetryInv
<1>2. agent \in Agent /\ poll \in Poll /\ Limited(buffer) /\ sampled \subseteq Batch
  BY <1>1 DEF TypeOK
<1>3. ASSUME NEW b \in Batch, NEW replay \in BOOLEAN, Send(b, replay)
      PROVE  agent' \in Agent
  BY <1>2, <1>3 DEF Send
<1>4. CASE UNCHANGED <<agent, poll, buffer, sampled>>
  BY <1>2, <1>4
<1>5. CASE runCycle
  <2>1. PICK S : /\ agent' = [agent EXCEPT !.pc = "flush", !.entries = S]
                 /\ S \subseteq buffer /\ buffer' \subseteq buffer
    BY <1>1, <1>5, Cycles
  <2>2. Limited(buffer')
    BY <1>1, <2>1, Deletes
  <2>3. agent' \in Agent
    BY <1>2, <2>1
  <2> QED
    BY <1>2, <1>5, <2>2, <2>3 DEF runCycle
<1>6. CASE Replay
  <2>1. poll' = poll /\ sampled' = sampled /\ buffer' = buffer
    BY <1>6 DEF Replay, flushBuffer
  <2>2. CASE agent' = [agent EXCEPT !.pc = "collect"]
    BY <1>2, <2>1, <2>2
  <2>3. CASE \E e \in agent.entries : Send(e.batch, TRUE)
    <3>1. PICK e \in agent.entries : Send(e.batch, TRUE)
      BY <2>3
    <3>2. e.batch \in Batch
      BY <1>2 DEF Entry
    <3> QED
      BY <1>2, <1>3, <2>1, <3>1, <3>2
  <2>4. CASE \E e \in agent.entries : flushBuffer(e.batch, "retry")
    <3>1. agent' = [agent EXCEPT !.pc = "collect", !.entries = {}, !.batch = {}]
      BY <2>4 DEF flushBuffer
    <3> QED
      BY <1>2, <2>1, <3>1
  <2> QED
    BY <1>6, <2>2, <2>3, <2>4 DEF Replay
<1>7. CASE Receive
  BY <1>2, <1>7, OutcomeTypes DEF Receive
<1>8. CASE GiveUp
  BY <1>2, <1>8, OutcomeTypes DEF GiveUp
<1>9. CASE CollectNothing
  BY <1>2, <1>9 DEF CollectNothing
<1>10. ASSUME NEW silent \in SUBSET (Ips \cup Databases), Collect(silent)
       PROVE  agent' \in Agent /\ poll' \in Poll /\ Limited(buffer') /\ sampled' \subseteq Batch
  <2>1. PICK b \in Batch :
           /\ sampled' = sampled \cup {b}
           /\ IF reachable THEN Send(b, FALSE) /\ UNCHANGED buffer
              ELSE sendOrBuffer(b, "retry") /\ UNCHANGED requests
    BY <1>10, CollectTypes
  <2>2. poll' \in Poll /\ sampled' \subseteq Batch
    BY <1>2, <1>10, <2>1, CollectTypes
  <2>3. CASE Send(b, FALSE) /\ UNCHANGED buffer
    BY <1>2, <1>3, <2>2, <2>3
  <2>4. CASE sendOrBuffer(b, "retry")
    <3>1. agent' = [agent EXCEPT !.pc = "idle", !.batch = {}] /\ buffer' \in Push(b)
      BY <2>4 DEF sendOrBuffer
    <3>2. Limited(buffer')
      BY <1>1, <3>1, Saves
    <3> QED
      BY <1>2, <2>2, <3>1, <3>2
  <2> QED
    BY <2>1, <2>3, <2>4
<1>11. CASE \E s \in Secrets : Restart(s)
  BY <1>2, <1>11 DEF Restart
<1> QED
  BY <1>1, <1>4, <1>5, <1>6, <1>7, <1>8, <1>9, <1>10, <1>11, AgentFrame

\* Requests come from the agent and go by the server's answers.
LEMMA WireFrame ==
    ASSUME TypeOK, EventsCounted, [Next]_vars
    PROVE  \/ UNCHANGED <<requests, answer, refused>>
           \/ Replay \/ Receive
           \/ \E silent \in SUBSET (Ips \cup Databases) : Collect(silent)
           \/ GiveUp
           \/ \E s \in Secrets : Restart(s)
           \/ \E q \in requests : POST(q)
           \/ \E q \in requests : ingestTelemetry(q)
           \/ \E q \in requests : InternalError(q)
BY Actions DEF Tick, Outage, OutageEnds, DiskFault, DiskRepaired, ClockStep, runCycle, CollectNothing,
   rotateHostSecret, setHostEnabled, DeviceChange, SetDevice, DatabaseChange, databaseActions,
   updateDatabaseSettings, setDatabaseEnabled, SetDatabase, adminFrame, vars, wireVars

LEMMA WireTypes ==
    ASSUME TelemetryInv, [Next]_vars
    PROVE  requests' \subseteq Request /\ answer' \in Codes \cup {"none"} /\ refused' \subseteq Batch
<1>1. TypeOK /\ EventsCounted
  BY DEF TelemetryInv
<1>2. requests \subseteq Request /\ answer \in Codes \cup {"none"} /\ refused \subseteq Batch
  BY <1>1 DEF TypeOK
<1>3. CASE Replay
  <2>1. answer' = answer /\ refused' = refused
    BY <1>3 DEF Replay
  <2>2. \A e \in agent.entries : Sign(e.batch) \in Request
    BY <1>1, RequestTypes DEF TypeOK, Entry
  <2>3. requests' = requests \/ \E e \in agent.entries : requests' = requests \cup {Sign(e.batch)}
    BY <1>3 DEF Replay, Send
  <2> QED
    BY <1>2, <2>1, <2>2, <2>3
<1>4. ASSUME NEW silent \in SUBSET (Ips \cup Databases), Collect(silent)
      PROVE  requests' \subseteq Request /\ answer' = answer /\ refused' = refused
  <2>1. PICK b \in Batch : IF reachable THEN Send(b, FALSE) /\ UNCHANGED buffer
                           ELSE sendOrBuffer(b, "retry") /\ UNCHANGED requests
    BY <1>4, CollectTypes
  <2>2. requests' = requests \/ requests' = requests \cup {Sign(b)}
    BY <2>1 DEF Send
  <2> QED
    BY <1>1, <1>2, <1>4, <2>2, RequestTypes DEF Collect
<1>5. CASE Receive
  BY <1>2, <1>5 DEF Receive
<1>6. CASE GiveUp
  BY <1>1, <1>2, <1>6, RequestTypes DEF GiveUp
<1>7. CASE \E s \in Secrets : Restart(s)
  BY <1>1, <1>2, <1>7, RequestTypes DEF Restart
<1>8. ASSUME NEW q \in requests, POST(q)
      PROVE  requests' \subseteq Request /\ answer' \in Codes \cup {"none"} /\ refused' \subseteq Batch
  <2>1. PICK code \in Codes : code = authenticateAgent(q.secret, q.signedAt, clock)
    BY AuthenticateCodes
  <2>2. CASE code = "ok"
    <3>1. /\ requests' = (requests \ {q})
                \cup {[q EXCEPT !.stage = "authenticated", !.now = clock]}
          /\ UNCHANGED <<answer, refused>>
      BY <1>8, <2>1, <2>2 DEF POST
    <3> QED
      BY <1>1, <1>2, <3>1, RequestTypes
  <2>3. CASE code # "ok"
    BY <1>1, <1>8, <2>1, <2>3, ReplyTypes DEF POST
  <2> QED
    BY <2>2, <2>3
<1>9. ASSUME NEW q \in requests, ingestTelemetry(q) \/ InternalError(q)
      PROVE  requests' \subseteq Request /\ answer' \in Codes \cup {"none"} /\ refused' \subseteq Batch
  <2>1. \E code \in {"ok", "timestamp_out_of_range", "internal_error"} : Reply(q, code)
    BY <1>9 DEF ingestTelemetry, InternalError
  <2>2. {"ok", "timestamp_out_of_range", "internal_error"} \subseteq Codes
    BY DEF Codes
  <2> QED
    BY <1>1, <2>1, <2>2, ReplyTypes
<1> QED
  BY <1>1, <1>2, <1>3, <1>4, <1>5, <1>6, <1>7, <1>8, <1>9, WireFrame

\* The server's tables change by ingestion and by administrators.
LEMMA TableFrame ==
    ASSUME TypeOK, EventsCounted, [Next]_vars
    PROVE  /\ \/ UNCHANGED <<host, replacedAt, edits>>
              \/ UNCHANGED <<host, replacedAt>> /\ (DeviceChange \/ DatabaseChange)
              \/ \E q \in requests : host' = recordHeartbeat /\ UNCHANGED <<replacedAt, edits>>
              \/ rotateHostSecret \/ setHostEnabled
           /\ \/ UNCHANGED <<device, retiredAt>>
              \/ UNCHANGED <<retiredAt, edits>> /\ \E q \in requests : device' = ingestSnmpDevices(q.batch)
              \/ DeviceChange
           /\ database' = database \/ database' = ingestDatabases \/ DatabaseChange
           /\ rows' = rows \/ \E q \in requests : ingestTelemetry(q)
BY Actions DEF Tick, Outage, OutageEnds, DiskFault, DiskRepaired, ClockStep, runCycle, Replay, Receive, CollectNothing,
   Collect, GiveUp, Restart, POST, ingestTelemetry, InternalError, rotateHostSecret,
   setHostEnabled, DeviceChange, SetDevice, DatabaseChange, databaseActions,
   updateDatabaseSettings, setDatabaseEnabled, SetDatabase, adminFrame, vars, inventory

LEMMA DeviceSteps ==
    ASSUME TelemetryInv, [Next]_vars
    PROVE  /\ device' \in [Ips -> Device] /\ retiredAt' \in [Ips -> Times \cup {NoTime}]
           /\ \A ip \in Ips : /\ device'[ip].id <= edits' + 1
                              /\ ~ device'[ip].live => device'[ip].id <= edits'
<1>1. TypeOK /\ EventsCounted
  BY DEF TelemetryInv
<1>2. /\ device \in [Ips -> Device] /\ retiredAt \in [Ips -> Times \cup {NoTime}]
      /\ clock \in Times /\ edits \in Nat /\ MaxEvents \in Nat /\ edits <= MaxEvents
      /\ edits' \in Nat /\ edits' >= edits
  BY <1>1, ClockSteps, LimitAssumption DEF TypeOK
<1>3. \A ip \in Ips : /\ device[ip].id \in Nat /\ device[ip].id <= edits + 1
                      /\ ~ device[ip].live => device[ip].id <= edits
  BY <1>1, <1>2 DEF EventsCounted, Device
<1>4. CASE UNCHANGED <<device, retiredAt>>
  BY <1>2, <1>3, <1>4
<1>5. CASE UNCHANGED <<retiredAt, edits>> /\ \E q \in requests : device' = ingestSnmpDevices(q.batch)
  <2>1. PICK b : device' = ingestSnmpDevices(b)
    BY <1>5
  <2>2. ASSUME NEW ip \in Ips
        PROVE  /\ device'[ip] \in Device /\ device'[ip].id <= edits + 1
               /\ ~ device'[ip].live => device'[ip].id <= edits
    <3>1. CASE device'[ip] = device[ip]
      BY <1>2, <1>3, <3>1
    <3>2. CASE device'[ip] # device[ip]
      <4>1. /\ ~ device[ip].live
            /\ device'[ip] = [id |-> device[ip].id + 1, live |-> TRUE, enabled |-> TRUE,
                              here |-> TRUE, secret |-> FALSE]
        BY <2>1, <3>2 DEF ingestSnmpDevices
      <4>2. device[ip].id + 1 \in 1..(MaxEvents + 1) /\ device[ip].id + 1 <= edits + 1
        BY <1>2, <1>3, <4>1
      <4> QED
        BY <4>1, <4>2 DEF Device
    <3> QED
      BY <3>1, <3>2
  <2>3. device' = [ip \in Ips |-> device'[ip]]
    BY <2>1 DEF ingestSnmpDevices
  <2> QED
    BY <1>2, <1>5, <2>2, <2>3
<1>6. CASE DeviceChange
  <2>1. PICK i \in Ips, row \in Device :
           /\ SetDevice(i, row)
           /\ row.id # device[i].id => ~ device[i].live /\ row.live /\ row.id = device[i].id + 1
    BY <1>6 DEF DeviceChange
  <2>2. /\ device' = [device EXCEPT ![i] = row] /\ edits' = edits + 1
        /\ retiredAt' = [retiredAt EXCEPT ![i] = clock] \/ retiredAt' = retiredAt
    BY <2>1 DEF SetDevice, Edit
  <2>3. device' \in [Ips -> Device] /\ retiredAt' \in [Ips -> Times \cup {NoTime}]
    BY <1>2, <2>2
  <2>4. row.id \in Nat /\ row.id <= edits + 1
    BY <1>2, <1>3, <2>1 DEF Device
  <2>5. \A ip \in Ips : device'[ip].id <= edits + 1
    BY <1>2, <1>3, <2>2, <2>4
  <2>6. \A ip \in Ips : device'[ip].id \in Nat
    BY <2>3 DEF Device
  <2> QED
    BY <1>2, <2>2, <2>3, <2>5, <2>6
<1> QED
  BY <1>1, <1>4, <1>5, <1>6, TableFrame

LEMMA DatabaseTypes ==
    ASSUME TelemetryInv, [Next]_vars
    PROVE  database' \in [Databases -> [live : BOOLEAN, enabled : BOOLEAN,
                                        threshold : {"agent", "admin"}]]
<1> DEFINE Row == [live : BOOLEAN, enabled : BOOLEAN, threshold : {"agent", "admin"}]
<1>1. TypeOK /\ EventsCounted
  BY DEF TelemetryInv
<1>2. database \in [Databases -> Row]
  BY <1>1 DEF TypeOK
<1>3. CASE database' = ingestDatabases
  BY <1>2, <1>3 DEF ingestDatabases
<1>4. CASE DatabaseChange
  <2>1. PICK d \in Databases : databaseActions(d)
    BY <1>4 DEF DatabaseChange
  <2>2. PICK on \in BOOLEAN : on = ~ database[d].enabled
    OBVIOUS
  <2>3. PICK x, y : x = [database[d] EXCEPT !.threshold = "admin"]
                       /\ y = [database[d] EXCEPT !.enabled = on]
    OBVIOUS
  <2>4. x \in Row /\ y \in Row
    BY <1>2, <2>3
  <2>5. database' = [database EXCEPT ![d] = x] \/ database' = [database EXCEPT ![d] = y]
    BY <2>1, <2>2, <2>3 DEF databaseActions, updateDatabaseSettings, setDatabaseEnabled,
                            SetDatabase
  <2> QED
    BY <1>2, <2>4, <2>5
<1> QED
  BY <1>1, <1>2, <1>3, <1>4, TableFrame

LEMMA HostSteps ==
    ASSUME TelemetryInv, [Next]_vars
    PROVE  /\ host' \in [enabled : BOOLEAN, secret : Secrets, previous : Secrets \cup {0},
                         expires : Nat, seen : BOOLEAN]
           /\ replacedAt' \in [Secrets -> Times \cup {NoTime}]
           /\ host'.secret <= edits' + 1
           /\ host'.previous = host'.secret - 1
           /\ \A s \in Secrets :
                 /\ s >= host'.secret => replacedAt'[s] = NoTime
                 /\ replacedAt'[s] <= clock'
                 /\ s = host'.previous => host'.expires = replacedAt'[s] + RotationGrace
<1> DEFINE Row == [enabled : BOOLEAN, secret : Secrets, previous : Secrets \cup {0},
                   expires : Nat, seen : BOOLEAN]
<1>1. TypeOK /\ EventsCounted /\ SecretsInOrder
  BY DEF TelemetryInv
<1>2. /\ host \in Row /\ replacedAt \in [Secrets -> Times \cup {NoTime}]
      /\ clock \in Times /\ clock \in Nat /\ edits \in Nat /\ MaxEvents \in Nat /\ RotationGrace \in Nat
      /\ clock' \in Nat /\ clock' >= clock /\ edits' \in Nat /\ edits' >= edits
      /\ NoTime \in Int /\ NoTime < 0
  BY <1>1, ClockSteps, LimitAssumption DEF TypeOK, Times, NoTime
<1>3. /\ host.secret \in Nat /\ host.secret >= 1 /\ host.secret <= edits + 1
      /\ host.previous = host.secret - 1
      /\ \A s \in Secrets : /\ s \in Nat /\ replacedAt[s] \in Int
                            /\ s >= host.secret => replacedAt[s] = NoTime
                            /\ replacedAt[s] <= clock
                            /\ s = host.previous => host.expires = replacedAt[s] + RotationGrace
  BY <1>1, <1>2 DEF EventsCounted, SecretsInOrder, Secrets, Times
<1>4. ASSUME host' \in Row, UNCHANGED replacedAt, host'.secret = host.secret,
             host'.previous = host.previous, host'.expires = host.expires
      PROVE  /\ host' \in Row /\ replacedAt' \in [Secrets -> Times \cup {NoTime}]
             /\ host'.secret <= edits' + 1
             /\ host'.previous = host'.secret - 1
             /\ \A s \in Secrets :
                   /\ s >= host'.secret => replacedAt'[s] = NoTime
                   /\ replacedAt'[s] <= clock'
                   /\ s = host'.previous => host'.expires = replacedAt'[s] + RotationGrace
  BY <1>2, <1>3, <1>4
<1>5. CASE UNCHANGED <<host, replacedAt>>
  BY <1>2, <1>4, <1>5
<1>6. CASE host' = recordHeartbeat /\ UNCHANGED replacedAt
  <2>1. host' \in Row /\ host'.secret = host.secret
           /\ host'.previous = host.previous /\ host'.expires = host.expires
    BY <1>2, <1>6 DEF recordHeartbeat
  <2> QED
    BY <1>4, <1>6, <2>1
<1>7. CASE setHostEnabled
  <2>1. PICK on \in BOOLEAN : on = ~ host.enabled
    OBVIOUS
  <2>2. host' = [host EXCEPT !.enabled = on] /\ UNCHANGED replacedAt
    BY <1>7, <2>1 DEF setHostEnabled
  <2>3. host' \in Row /\ host'.secret = host.secret
           /\ host'.previous = host.previous /\ host'.expires = host.expires
    BY <1>2, <2>2
  <2> QED
    BY <1>4, <2>2, <2>3
<1>8. CASE rotateHostSecret
  <2>1. /\ host' = [host EXCEPT !.previous = host.secret, !.secret = host.secret + 1,
                                !.expires = clock + RotationGrace]
        /\ replacedAt' = [replacedAt EXCEPT ![host.secret] = clock]
        /\ edits' = edits + 1 /\ faults + edits < MaxEvents /\ clock' = clock
    BY <1>8 DEF rotateHostSecret, Edit, adminFrame
  <2>2. faults \in Nat /\ edits < MaxEvents
    BY <1>1, <1>2, <2>1, LimitAssumption DEF TypeOK
  <2>3. host.secret \in Nat /\ host.secret >= 1 /\ host.secret <= edits + 1
    BY <1>3
  <2>4. PICK old, new, end : old = host.secret /\ new = host.secret + 1
                                /\ end = clock + RotationGrace
    OBVIOUS
  <2>5. old \in Secrets /\ new \in Secrets /\ end \in Nat
    BY <1>2, <2>2, <2>3, <2>4 DEF Secrets
  <2>6. host' = [host EXCEPT !.previous = old, !.secret = new, !.expires = end]
    BY <2>1, <2>4
  <2>7. host' \in Row /\ host'.secret = new /\ host'.previous = old /\ host'.expires = end
    BY <1>2, <2>5, <2>6
  <2>8. replacedAt' \in [Secrets -> Times \cup {NoTime}]
    BY <1>2, <2>1
  <2>9. \A s \in Secrets : replacedAt'[s] = IF s = old THEN clock ELSE replacedAt[s]
    BY <1>2, <2>1, <2>4
  <2>10. new <= edits' + 1 /\ old = new - 1
    BY <1>2, <2>1, <2>3, <2>4
  <2>11. ASSUME NEW s \in Secrets
         PROVE  /\ s >= new => replacedAt'[s] = NoTime
                /\ replacedAt'[s] <= clock'
                /\ s = old => end = replacedAt'[s] + RotationGrace
    <3>1. s \in Nat /\ (s >= host.secret => replacedAt[s] = NoTime) /\ replacedAt[s] <= clock
      BY <1>3
    <3> QED
      BY <1>2, <2>1, <2>3, <2>4, <2>9, <3>1
  <2> QED
    BY <2>7, <2>8, <2>10, <2>11
<1> QED
  BY <1>1, <1>5, <1>6, <1>7, <1>8, TableFrame

\* Requests are admitted with a secret that was valid at that time, and a
\* secret replaced later was valid then.
LEMMA SecretSteps ==
    ASSUME TelemetryInv, [Next]_vars
    PROVE  (\A q \in requests : q.now <= clock)' /\ OldSecretsExpire'
<1>1. TypeOK /\ EventsCounted /\ SecretsInOrder /\ OldSecretsExpire
  BY DEF TelemetryInv
<1>2. /\ clock \in Nat /\ clock' \in Nat /\ clock' >= clock /\ RotationGrace \in Nat \ {0}
      /\ \A s \in Secrets : replacedAt[s] \in Int
      /\ \A q \in Request : q.now \in Nat /\ q.secret \in Secrets
  BY <1>1, ClockSteps, LimitAssumption DEF TypeOK, Times, NoTime, Request
<1>3. \/ replacedAt' = replacedAt
      \/ \E s \in Secrets : replacedAt' = [replacedAt EXCEPT ![s] = clock] /\ requests' = requests
  BY <1>1, TableFrame DEF rotateHostSecret, adminFrame, wireVars, TypeOK, setHostEnabled
<1> DEFINE Admitted(q) ==
              q.stage = "authenticated" =>
                  \/ replacedAt[q.secret] = NoTime
                  \/ q.now < replacedAt[q.secret] + RotationGrace
<1>4. \A q \in requests : q \in Request /\ q.now <= clock /\ Admitted(q)
  BY <1>1 DEF SecretsInOrder, OldSecretsExpire, TypeOK
<1>5. \A q \in requests' : \/ \E r \in requests : q.now = r.now /\ q.stage = r.stage /\ q.secret = r.secret
                           \/ q.now = 0 /\ q.stage = "sent"
                           \/ q.now = clock /\ Admitted(q)
  <2>1. \A b \in Batch : Sign(b).stage = "sent" /\ Sign(b).now = 0
    BY <1>1, RequestTypes
  <2>2. CASE requests' \subseteq requests
    BY <2>2
  <2>3. ASSUME NEW b \in Batch, requests' = requests \cup {Sign(b)}
        PROVE  \A q \in requests' : q \in requests \/ (q.now = 0 /\ q.stage = "sent")
    BY <2>1, <2>3
  <2>4. CASE requests' = Abandoned
    <3> SUFFICES ASSUME NEW r \in requests, NEW q, q = [r EXCEPT !.waited = FALSE]
                 PROVE  q.now = r.now /\ q.stage = r.stage /\ q.secret = r.secret
      BY <2>4 DEF Abandoned
    <3>1. r \in Request
      BY <1>4
    <3> QED
      BY <3>1 DEF Request
  <2>5. ASSUME NEW r \in requests, POST(r),
               authenticateAgent(r.secret, r.signedAt, clock) = "ok"
        PROVE  \A q \in requests' : q \in requests \/ (q.now = clock /\ Admitted(q))
    <3>1. PICK x : x = [r EXCEPT !.stage = "authenticated", !.now = clock]
      OBVIOUS
    <3>2. requests' = (requests \ {r}) \cup {x}
      BY <2>5, <3>1 DEF POST
    <3>3. r \in Request /\ r.secret \in Secrets /\ x.now = clock /\ x.secret = r.secret
      BY <1>2, <1>4, <3>1 DEF Request
    <3>4. \/ r.secret = host.secret
          \/ r.secret = host.previous /\ host.expires > clock
      BY <2>5 DEF authenticateAgent, verifySignature, ValidSecrets
    <3>5. host.secret \in Nat
      BY <1>1 DEF TypeOK, Secrets
    <3>6. replacedAt[r.secret] = NoTime \/ clock < replacedAt[r.secret] + RotationGrace
      BY <1>1, <1>2, <3>3, <3>4, <3>5 DEF SecretsInOrder
    <3> QED
      BY <3>2, <3>3, <3>6
  <2>6. ASSUME NEW r \in requests, POST(r),
               authenticateAgent(r.secret, r.signedAt, clock) # "ok"
        PROVE  requests' \subseteq requests
    BY <2>6 DEF POST, Reply
  <2>7. ASSUME NEW r \in requests, ingestTelemetry(r) \/ InternalError(r)
        PROVE  requests' \subseteq requests
    BY <2>7 DEF ingestTelemetry, InternalError, Reply
  <2>8. CASE Replay
    <3>1. \A e \in agent.entries : e.batch \in Batch
      BY <1>1 DEF TypeOK, Entry
    <3>2. requests' = requests \/ \E e \in agent.entries : requests' = requests \cup {Sign(e.batch)}
      BY <2>8 DEF Replay, Send
    <3> QED
      BY <2>2, <2>3, <3>1, <3>2
  <2>9. ASSUME NEW silent \in SUBSET (Ips \cup Databases), Collect(silent)
        PROVE  requests' = requests \/ \E b \in Batch : requests' = requests \cup {Sign(b)}
    BY <2>9, CollectTypes DEF Send
  <2>10. CASE GiveUp
    <3>1. requests' = Abandoned \/ requests' \subseteq requests
      BY <2>10 DEF GiveUp
    <3> QED
      BY <2>2, <2>4, <3>1
  <2>11. Receive => requests' = requests
    BY DEF Receive
  <2>12. (\E s \in Secrets : Restart(s)) => requests' = Abandoned
    BY DEF Restart
  <2> QED
    BY <1>1, <2>2, <2>3, <2>4, <2>5, <2>6, <2>7, <2>8, <2>9, <2>10, <2>11, <2>12, WireFrame
<1>6. requests' \subseteq Request
  BY WireTypes
<1>7. ASSUME NEW q \in requests'
      PROVE  q.now <= clock
  BY <1>2, <1>4, <1>5, <1>7
<1>8. ASSUME NEW q \in requests'
      PROVE  Admitted(q)
  BY <1>4, <1>5, <1>8
<1>9. ASSUME NEW q \in requests', q.stage = "authenticated"
      PROVE  \/ replacedAt'[q.secret] = NoTime
             \/ q.now < replacedAt'[q.secret] + RotationGrace
  <2>1. q.secret \in Secrets /\ q.now \in Nat /\ q.now <= clock /\ Admitted(q)
    BY <1>2, <1>6, <1>7, <1>8
  <2>2. replacedAt'[q.secret] = replacedAt[q.secret] \/ replacedAt'[q.secret] = clock
    BY <1>1, <1>3, <2>1 DEF TypeOK
  <2>3. q.now < clock + RotationGrace
    BY <1>2, <2>1
  <2> QED
    BY <1>9, <2>1, <2>2, <2>3
<1>10. \A q \in requests' : q.now <= clock'
  BY <1>2, <1>6, <1>7
<1> QED
  BY <1>9, <1>10 DEF OldSecretsExpire

-----------------------------------------------------------------------------
(* The list of devices *)

\* refresh keeps a list that is young enough, fetches a right one, or fails.
LEMMA Refreshes ==
    ASSUME TypeOK
    PROVE  \/ /\ refresh = poll
              /\ clock - poll.fetchedAt < pollerConfigRefreshEvery
           \/ /\ refresh.fetchedAt = clock
              /\ \A ip \in refresh.devices : Assigned(device[ip])
           \/ /\ refresh.fetchedAt = poll.fetchedAt /\ refresh.devices = poll.devices
              /\ refresh.failed
<1>1. poll \in [devices : SUBSET Ips, fetchedAt : Times \cup {NoTime}, failed : BOOLEAN]
  BY DEF TypeOK
<1>2. CASE poll.fetchedAt # NoTime /\ clock - poll.fetchedAt < pollerConfigRefreshEvery
  BY <1>2 DEF refresh
<1>3. CASE Fetch.code = "ok"
  <2>1. Fetch = PollerConfig
    BY <1>3 DEF Fetch
  <2>2. Fetch.devices = listDevicesForPoller
    BY <2>1 DEF PollerConfig
  <2> QED
    BY <1>2, <1>3, <2>2 DEF refresh, listDevicesForPoller
<1>4. CASE Fetch.code # "ok"
  BY <1>1, <1>2, <1>4 DEF refresh
<1> QED
  BY <1>3, <1>4

LEMMA ListSteps ==
    ASSUME TelemetryInv, [Next]_vars
    PROVE  ListWasRight'
<1>1. TypeOK /\ EventsCounted /\ ListWasRight
  BY DEF TelemetryInv
<1>2. /\ clock \in Nat /\ clock' \in Nat /\ clock' >= clock /\ NoTime \in Int
      /\ poll.fetchedAt \in Int /\ poll.devices \subseteq Ips
      /\ device \in [Ips -> Device] /\ retiredAt \in [Ips -> Int]
  BY <1>1, ClockSteps, LimitAssumption DEF TypeOK, Times, NoTime
<1>3. /\ poll.fetchedAt <= clock
      /\ \A ip \in poll.devices : Assigned(device[ip]) \/ poll.fetchedAt <= retiredAt[ip]
  BY <1>1 DEF ListWasRight
<1>4. CASE UNCHANGED <<device, retiredAt>>
  <2>1. \/ poll' = poll
        \/ poll' = refresh /\ clock' = clock
        \/ poll' = [devices |-> {}, fetchedAt |-> NoTime, failed |-> FALSE]
    BY <1>1, AgentFrame DEF runCycle, Replay, Receive, CollectNothing, Collect, GiveUp, Restart
  <2>2. CASE poll' = poll
    BY <1>2, <1>3, <1>4, <2>2 DEF ListWasRight, Assigned
  <2>3. CASE poll' = refresh /\ clock' = clock
    <3>1. \/ poll'.fetchedAt = poll.fetchedAt /\ poll'.devices = poll.devices
          \/ poll'.fetchedAt = clock /\ \A ip \in poll'.devices : Assigned(device[ip])
      BY <1>1, <2>3, Refreshes
    <3> QED
      BY <1>2, <1>3, <1>4, <2>3, <3>1 DEF ListWasRight, Assigned
  <2>4. CASE poll' = [devices |-> {}, fetchedAt |-> NoTime, failed |-> FALSE]
    <3>1. NoTime <= clock'
      BY <1>2, LimitAssumption DEF NoTime
    <3> QED
      BY <2>4, <3>1 DEF ListWasRight
  <2> QED
    BY <2>1, <2>2, <2>3, <2>4
<1>5. CASE \E q \in requests : ingestTelemetry(q)
  <2>1. UNCHANGED <<poll, clock, retiredAt>>
    BY <1>5 DEF ingestTelemetry, agentVars
  <2>2. \A ip \in Ips : device'[ip] = device[ip] \/ Assigned(device'[ip])
    BY <1>5 DEF ingestTelemetry, ingestSnmpDevices, Assigned
  <2>3. \A ip \in Ips : Assigned(device[ip]) => Assigned(device'[ip])
    BY <2>2
  <2> QED
    BY <1>2, <1>3, <2>1, <2>3 DEF ListWasRight, Assigned
<1>6. CASE DeviceChange
  <2>1. PICK i \in Ips, row \in Device : SetDevice(i, row)
    BY <1>6 DEF DeviceChange
  <2>2. /\ UNCHANGED <<poll, clock>>
        /\ device' = [device EXCEPT ![i] = row]
        /\ retiredAt' = IF Assigned(device[i]) /\ ~ Assigned(row)
                        THEN [retiredAt EXCEPT ![i] = clock] ELSE retiredAt
    BY <2>1 DEF SetDevice, adminFrame, agentVars
  <2>3. ASSUME NEW ip \in poll.devices
        PROVE  Assigned(device'[ip]) \/ poll.fetchedAt <= retiredAt'[ip]
    <3>1. CASE ip # i
      <4>1. device'[ip] = device[ip] /\ retiredAt'[ip] = retiredAt[ip]
        BY <1>2, <2>2, <3>1
      <4> QED
        BY <1>3, <4>1
    <3>2. CASE ip = i
      <4>1. device'[ip] = row
        BY <1>2, <2>2, <3>2
      <4>2. CASE Assigned(device[i]) /\ ~ Assigned(row)
        BY <1>2, <1>3, <2>2, <3>2, <4>2
      <4>3. CASE ~ Assigned(device[i])
        BY <1>3, <2>2, <3>2, <4>3
      <4> QED
        BY <4>1, <4>2, <4>3
    <3> QED
      BY <3>1, <3>2
  <2> QED
    BY <1>3, <2>2, <2>3 DEF ListWasRight, Assigned
<1>7. \/ UNCHANGED <<device, retiredAt>> \/ DeviceChange
      \/ \E q \in requests : ingestTelemetry(q)
  BY <1>1, Actions DEF Tick, Outage, OutageEnds, DiskFault, DiskRepaired, ClockStep, runCycle, Replay, Receive,
     CollectNothing, Collect, GiveUp, Restart, POST, InternalError, rotateHostSecret,
     setHostEnabled, DatabaseChange, databaseActions, updateDatabaseSettings,
     setDatabaseEnabled, SetDatabase, vars, inventory
<1> QED
  BY <1>4, <1>5, <1>6, <1>7

-----------------------------------------------------------------------------
(* The batch in the agent's hands *)

\* What becomes of the batch, of the files and of the replay once the agent
\* knows the outcome, or gives up waiting for it.
LEMMA Outcomes ==
    ASSUME TelemetryInv, agent.pc = "sending", NEW outcome, Outcome(outcome)
    PROVE  \E b \in sampled :
              /\ agent.batch = {b} /\ agent'.batch = {} /\ agent'.pc # "sending"
              /\ agent'.entries \subseteq buffer'
              /\ agent'.pc \in {"idle", "collect"} => agent'.entries = {}
              /\ \/ outcome = "retry" /\ agent.replay /\ buffer' = buffer /\ Buffered(b)
                 \/ outcome = "retry" /\ ~ agent.replay /\ buffer' \in Push(b) /\ ~ Buffered(b)
                 \/ outcome # "retry" /\ buffer' = Remove(buffer, b)
                 \/ outcome # "retry" /\ buffer' = buffer
<1>1. TypeOK /\ CycleInOrder
  BY DEF TelemetryInv
<1>2. PICK b \in sampled :
         agent.batch = {b} /\
            IF agent.replay THEN \E e \in agent.entries : e.batch = b
                            ELSE agent.entries = {} /\ ~ Buffered(b)
  BY <1>1 DEF CycleInOrder
<1>3. IF agent.replay THEN flushBuffer(b, outcome) ELSE sendOrBuffer(b, outcome)
  BY <1>2 DEF Outcome
<1>4. agent.entries \subseteq buffer
  BY <1>1 DEF CycleInOrder
<1>5. agent \in [pc : {"idle", "flush", "collect", "sending"}, entries : SUBSET Entry,
                 batch : SUBSET Batch, replay : BOOLEAN, secret : Secrets]
  BY <1>1 DEF TypeOK
<1>6. CASE agent.replay /\ outcome = "retry"
  <2>1. agent' = [agent EXCEPT !.pc = "collect", !.entries = {}, !.batch = {}] /\ buffer' = buffer
    BY <1>3, <1>6 DEF flushBuffer
  <2>2. agent'.pc = "collect" /\ agent'.entries = {} /\ agent'.batch = {}
    BY <1>5, <2>1
  <2>3. Buffered(b)
    BY <1>2, <1>4, <1>6 DEF Buffered
  <2> QED
    BY <1>2, <1>6, <2>1, <2>2, <2>3
<1>7. CASE agent.replay /\ outcome # "retry"
  <2>1. /\ agent' = [agent EXCEPT !.pc = "flush", !.entries = Remove(@, b), !.batch = {}]
        /\ buffer' = Remove(buffer, b)
    BY <1>3, <1>7 DEF flushBuffer
  <2>2. agent'.pc = "flush" /\ agent'.entries = Remove(agent.entries, b) /\ agent'.batch = {}
    BY <1>5, <2>1
  <2>3. Remove(agent.entries, b) \subseteq Remove(buffer, b)
    BY <1>4 DEF Remove
  <2> QED
    BY <1>2, <1>7, <2>1, <2>2, <2>3
<1>8. CASE ~ agent.replay
  <2>1. /\ agent' = [agent EXCEPT !.pc = "idle", !.batch = {}]
        /\ IF outcome = "retry" THEN buffer' \in Push(b) ELSE UNCHANGED buffer
    BY <1>3, <1>8 DEF sendOrBuffer
  <2>2. agent'.pc = "idle" /\ agent'.entries = {} /\ agent'.batch = {}
    BY <1>2, <1>5, <1>8, <2>1
  <2> QED
    BY <1>2, <1>8, <2>1, <2>2
<1> QED
  BY <1>6, <1>7, <1>8

\* A collection makes a batch of a time not sampled before, which nothing holds.
LEMMA Collections ==
    ASSUME TelemetryInv, NEW silent \in SUBSET (Ips \cup Databases), Collect(silent)
    PROVE  \E b \in Batch :
              /\ sampled' = sampled \cup {b} /\ b.polled = poll'.devices
              /\ \A c \in sampled : c.time # b.time
              /\ b \notin sampled /\ ~ Buffered(b) /\ b.time = AgentNow
              /\ \/ /\ requests' = requests \cup {Sign(b)} /\ buffer' = buffer
                    /\ agent'.pc = "sending" /\ agent'.batch = {b} /\ ~ agent'.replay
                    /\ agent'.entries = {}
                 \/ /\ requests' = requests /\ buffer' \in Push(b)
                    /\ agent'.pc = "idle" /\ agent'.batch = {} /\ agent'.entries = {}
<1>1. TypeOK /\ CycleInOrder /\ OnlySamples
  BY DEF TelemetryInv
<1>2. PICK b \in Batch :
         /\ b.time = AgentNow /\ b.polled = poll'.devices
         /\ sampled' = sampled \cup {b}
         /\ IF reachable THEN Send(b, FALSE) /\ UNCHANGED buffer
            ELSE sendOrBuffer(b, "retry") /\ UNCHANGED requests
  BY CollectTypes
<1>3. \A c \in sampled : c.time # b.time
  BY <1>2 DEF Collect
<1>4. b \notin sampled /\ ~ Buffered(b)
  BY <1>1, <1>3 DEF OnlySamples, Buffered
<1>5. agent \in [pc : {"idle", "flush", "collect", "sending"}, entries : SUBSET Entry,
                 batch : SUBSET Batch, replay : BOOLEAN, secret : Secrets]
  BY <1>1 DEF TypeOK
<1>6. agent.entries = {}
  BY <1>1 DEF CycleInOrder, Collect
<1>7. CASE Send(b, FALSE) /\ UNCHANGED buffer
  <2>1. /\ requests' = requests \cup {Sign(b)}
        /\ agent' = [agent EXCEPT !.pc = "sending", !.batch = {b}, !.replay = FALSE]
    BY <1>7 DEF Send
  <2>2. /\ agent'.pc = "sending" /\ agent'.batch = {b} /\ agent'.replay = FALSE
        /\ agent'.entries = {}
    BY <1>5, <1>6, <2>1
  <2> QED
    BY <1>2, <1>3, <1>4, <1>7, <2>1, <2>2
<1>8. CASE sendOrBuffer(b, "retry") /\ UNCHANGED requests
  <2>1. agent' = [agent EXCEPT !.pc = "idle", !.batch = {}] /\ buffer' \in Push(b)
    BY <1>8 DEF sendOrBuffer
  <2>2. agent'.pc = "idle" /\ agent'.batch = {} /\ agent'.entries = {}
    BY <1>5, <1>6, <2>1
  <2> QED
    BY <1>2, <1>3, <1>4, <1>8, <2>1, <2>2
<1> QED
  BY <1>2, <1>7, <1>8

\* A replay step sends a buffered batch or ends the replay.
LEMMA Replays ==
    ASSUME TelemetryInv, Replay
    PROVE  /\ buffer' = buffer /\ sampled' = sampled
           /\ \/ /\ agent'.pc = "collect" /\ agent'.batch = {} /\ agent'.entries = {}
                 /\ requests' = requests
              \/ \E e \in agent.entries :
                    /\ agent'.pc = "sending" /\ agent'.batch = {e.batch} /\ agent'.replay
                    /\ agent'.entries = agent.entries
                    /\ requests' = requests \cup {Sign(e.batch)}
<1>1. agent \in [pc : {"idle", "flush", "collect", "sending"}, entries : SUBSET Entry,
                 batch : SUBSET Batch, replay : BOOLEAN, secret : Secrets]
  BY DEF TelemetryInv, TypeOK
<1>2. agent.batch = {} /\ buffer' = buffer /\ sampled' = sampled
  BY DEF TelemetryInv, CycleInOrder, Replay, flushBuffer
<1>3. CASE /\ agent.entries = {} /\ agent' = [agent EXCEPT !.pc = "collect"]
           /\ UNCHANGED <<buffer, requests>>
  BY <1>1, <1>2, <1>3
<1>4. ASSUME NEW e \in agent.entries, Send(e.batch, TRUE)
      PROVE  /\ agent'.pc = "sending" /\ agent'.batch = {e.batch} /\ agent'.replay
             /\ agent'.entries = agent.entries
             /\ requests' = requests \cup {Sign(e.batch)}
  BY <1>1, <1>4 DEF Send
<1>5. ASSUME NEW e \in agent.entries, flushBuffer(e.batch, "retry"), UNCHANGED requests
      PROVE  agent'.pc = "collect" /\ agent'.batch = {} /\ agent'.entries = {}
  BY <1>1, <1>5 DEF flushBuffer
<1> QED
  BY <1>2, <1>3, <1>4, <1>5 DEF Replay

\* Buffers: what is in them after a step was there, or is the agent's batch.
LEMMA CycleSteps ==
    ASSUME TelemetryInv, [Next]_vars
    PROVE  CycleInOrder'
<1>1. TypeOK /\ EventsCounted /\ CycleInOrder /\ OnlySamples
  BY DEF TelemetryInv
<1>2. agent \in [pc : {"idle", "flush", "collect", "sending"}, entries : SUBSET Entry,
                 batch : SUBSET Batch, replay : BOOLEAN, secret : Secrets]
  BY <1>1 DEF TypeOK
<1>3. CASE UNCHANGED <<agent, poll, buffer, sampled>>
  BY <1>1, <1>3 DEF CycleInOrder, Buffered
<1>4. CASE runCycle
  <2>1. PICK S : /\ agent' = [agent EXCEPT !.pc = "flush", !.entries = S]
                 /\ S \subseteq buffer'
    BY <1>1, <1>4, Cycles
  <2>2. agent.batch = {}
    BY <1>1, <1>4 DEF runCycle, CycleInOrder
  <2>3. agent'.pc = "flush" /\ agent'.entries = S /\ agent'.batch = {}
    BY <1>2, <2>1, <2>2
  <2> QED
    BY <2>1, <2>2, <2>3 DEF CycleInOrder
<1>5. CASE Replay
  <2>1. agent.entries \subseteq buffer
    BY <1>1 DEF CycleInOrder
  <2>2. CASE agent'.pc = "collect" /\ agent'.batch = {} /\ agent'.entries = {}
    BY <2>2 DEF CycleInOrder
  <2>3. CASE \E e \in agent.entries :
                /\ agent'.pc = "sending" /\ agent'.batch = {e.batch} /\ agent'.replay
                /\ agent'.entries = agent.entries
    <3>1. PICK e \in agent.entries :
                /\ agent'.pc = "sending" /\ agent'.batch = {e.batch} /\ agent'.replay
                /\ agent'.entries = agent.entries
      BY <2>3
    <3>2. e.batch \in sampled'
      BY <1>1, <1>5, <2>1, Replays DEF OnlySamples
    <3>3. buffer' = buffer
      BY <1>5, Replays
    <3> QED
      BY <2>1, <3>1, <3>2, <3>3 DEF CycleInOrder
  <2> QED
    BY <1>5, <2>2, <2>3, Replays
<1>6. CASE Receive \/ GiveUp
  <2>1. PICK outcome : Outcome(outcome) /\ agent.pc = "sending"
    BY <1>6 DEF Receive, GiveUp
  <2>2. /\ agent'.batch = {} /\ agent'.pc # "sending" /\ agent'.entries \subseteq buffer'
        /\ agent'.pc \in {"idle", "collect"} => agent'.entries = {}
    BY <2>1, Outcomes
  <2> QED
    BY <2>2 DEF CycleInOrder
<1>7. CASE CollectNothing
  <2>1. agent.pc = "collect" /\ agent' = [agent EXCEPT !.pc = "idle"] /\ buffer' = buffer
    BY <1>7 DEF CollectNothing
  <2>2. agent'.pc = "idle" /\ agent'.entries = {} /\ agent'.batch = {}
    BY <1>1, <1>2, <2>1 DEF CycleInOrder
  <2> QED
    BY <2>2 DEF CycleInOrder
<1>8. ASSUME NEW silent \in SUBSET (Ips \cup Databases), Collect(silent)
      PROVE  CycleInOrder'
  <2>1. PICK b \in Batch :
              /\ sampled' = sampled \cup {b} /\ ~ Buffered(b)
              /\ \/ /\ buffer' = buffer
                    /\ agent'.pc = "sending" /\ agent'.batch = {b} /\ ~ agent'.replay
                    /\ agent'.entries = {}
                 \/ agent'.pc = "idle" /\ agent'.batch = {} /\ agent'.entries = {}
    BY <1>8, Collections
  <2>2. buffer' = buffer => ~ Buffered(b)'
    BY <2>1 DEF Buffered
  <2> QED
    BY <2>1, <2>2 DEF CycleInOrder
<1>9. CASE \E s \in Secrets : Restart(s)
  BY <1>9 DEF Restart, CycleInOrder
<1> QED
  BY <1>1, <1>3, <1>4, <1>5, <1>6, <1>7, <1>8, <1>9, AgentFrame

\* Only samples are saved and sent.
LEMMA SampleSteps ==
    ASSUME TelemetryInv, [Next]_vars
    PROVE  OnlySamples' /\ sampled \subseteq sampled'
<1>1. TypeOK /\ EventsCounted /\ CycleInOrder /\ OnlySamples
  BY DEF TelemetryInv
<1>2. \A b \in Batch : Sign(b).batch = b
  BY <1>1, RequestTypes
<1>3. sampled \subseteq Batch
  BY <1>1 DEF TypeOK
<1>4. \A e \in buffer : e.batch \in sampled
  BY <1>1 DEF OnlySamples
<1>5. \A q \in requests : q.batch \in sampled
  BY <1>1 DEF OnlySamples
<1>6. \/ sampled' = sampled
      \/ \E b \in Batch : sampled' = sampled \cup {b} /\ \A c \in sampled : c.time # b.time
  BY <1>1, AgentFrame, Collections DEF runCycle, Replay, Receive, CollectNothing, GiveUp, Restart
<1>7. sampled \subseteq sampled' /\ \A b, c \in sampled' : b.time = c.time => b = c
  BY <1>1, <1>6 DEF OnlySamples
<1>8. \A e \in buffer' : e.batch \in sampled'
  <2>1. CASE buffer' \subseteq buffer
    BY <1>4, <1>7, <2>1
  <2>2. ASSUME NEW b \in sampled', b \in Batch, buffer' \in Push(b)
        PROVE  \A e \in buffer' : e.batch \in sampled'
    <3>1. \A e \in buffer' : e \in buffer \/ e.batch = b
      BY <1>1, <2>2, Saves
    <3> QED
      BY <1>4, <1>7, <2>2, <3>1
  <2>3. CASE runCycle
    BY <1>1, <2>1, <2>3, Cycles
  <2>4. CASE Receive \/ GiveUp
    <3>1. PICK outcome : Outcome(outcome) /\ agent.pc = "sending"
      BY <2>4 DEF Receive, GiveUp
    <3>2. PICK b \in sampled :
             buffer' = buffer \/ buffer' = Remove(buffer, b) \/ buffer' \in Push(b)
      BY <3>1, Outcomes
    <3> QED
      BY <1>3, <1>7, <2>1, <2>2, <3>2 DEF Remove
  <2>5. ASSUME NEW silent \in SUBSET (Ips \cup Databases), Collect(silent)
        PROVE  buffer' = buffer \/ \E b \in sampled' : b \in Batch /\ buffer' \in Push(b)
    BY <2>5, Collections
  <2> QED
    BY <1>1, <2>1, <2>2, <2>3, <2>4, <2>5, AgentFrame DEF Replay, CollectNothing, Restart, flushBuffer
<1>9. \A q \in requests' : q.batch \in sampled'
  <2>1. CASE requests' \subseteq requests
    BY <1>5, <1>7, <2>1
  <2>2. ASSUME NEW b \in sampled', b \in Batch, requests' = requests \cup {Sign(b)}
        PROVE  \A q \in requests' : q.batch \in sampled'
    BY <1>2, <1>5, <1>7, <2>2
  <2>3. CASE requests' = Abandoned
    <3> SUFFICES ASSUME NEW r \in requests PROVE [r EXCEPT !.waited = FALSE].batch = r.batch
      BY <1>5, <1>7, <2>3 DEF Abandoned
    <3>1. r \in Request
      BY <1>1 DEF TypeOK
    <3> QED
      BY <3>1 DEF Request
  <2>4. CASE Replay
    <3>1. \A e \in agent.entries : e.batch \in sampled' /\ e.batch \in Batch
      BY <1>1, <1>3, <1>4, <1>7 DEF CycleInOrder
    <3>2. requests' = requests \/ \E e \in agent.entries : requests' = requests \cup {Sign(e.batch)}
      BY <2>4, Replays
    <3> QED
      BY <2>1, <2>2, <3>1, <3>2
  <2>5. ASSUME NEW silent \in SUBSET (Ips \cup Databases), Collect(silent)
        PROVE  \/ requests' = requests
               \/ \E b \in sampled' : b \in Batch /\ requests' = requests \cup {Sign(b)}
    BY <2>5, Collections
  <2>6. ASSUME NEW r \in requests, POST(r)
        PROVE  \A q \in requests' : q.batch \in sampled'
    <3>1. PICK x : x = [r EXCEPT !.stage = "authenticated", !.now = clock]
      OBVIOUS
    <3>2. requests' = (requests \ {r}) \cup {x} \/ requests' \subseteq requests
      BY <2>6, <3>1 DEF POST, Reply
    <3>3. r \in Request
      BY <1>1 DEF TypeOK
    <3>4. x.batch = r.batch
      BY <3>1, <3>3 DEF Request
    <3> QED
      BY <1>5, <1>7, <3>2, <3>4
  <2>7. ASSUME NEW r \in requests, ingestTelemetry(r) \/ InternalError(r)
        PROVE  requests' \subseteq requests
    BY <2>7 DEF ingestTelemetry, InternalError, Reply
  <2>8. GiveUp => requests' = Abandoned \/ requests' \subseteq requests
    BY DEF GiveUp
  <2>9. Receive => requests' = requests
    BY DEF Receive
  <2>10. (\E s \in Secrets : Restart(s)) => requests' = Abandoned
    BY DEF Restart
  <2> QED
    BY <1>1, <2>1, <2>2, <2>3, <2>4, <2>5, <2>6, <2>7, <2>8, <2>9, <2>10, WireFrame
<1> QED
  BY <1>7, <1>8, <1>9 DEF OnlySamples

-----------------------------------------------------------------------------
(* Rows *)

\* The transaction of a batch leaves the host's row and one for each database
\* that answered, and touches no row of another time.
LEMMA Transaction ==
    ASSUME TelemetryInv, NEW q \in requests, ingestTelemetry(q),
           parseCollectedAt(q.batch.time, q.now)
    PROVE  /\ rows' \in [Keys -> Nat]
           /\ \A k \in Keys : rows'[k] <= 1 /\ (rows[k] > 0 => rows'[k] > 0)
           /\ \A source \in Sources, t \in AgentTimes :
                 t # q.batch.time => rows'[<<source, t>>] = rows[<<source, t>>]
           /\ rows'[<<Host, q.batch.time>>] = 1
           /\ \A d \in q.batch.answered \cap Databases : rows'[<<<<d, 0>>, q.batch.time>>] = 1
<1>1. PICK written : written = systemMetricRows(q.batch)
                        \cup deviceMetricRows(q.batch, device') \cup databaseMetricRows(q.batch)
  OBVIOUS
<1>2. rows' = [k \in Keys |-> IF k \in written /\ rows[k] = 0 THEN 1 ELSE rows[k]]
  BY <1>1 DEF ingestTelemetry, writeMetricRows
<1>3. q.batch \in Batch /\ q.batch.time \in AgentTimes
  BY DEF TelemetryInv, TypeOK, Request, Batch
<1>4. \A k \in Keys : rows[k] \in Nat /\ rows[k] <= 1
  BY DEF TelemetryInv, TypeOK, StoredWholeAndOnce
<1>5. rows' \in [Keys -> Nat] /\ \A k \in Keys : rows'[k] <= 1 /\ (rows[k] > 0 => rows'[k] > 0)
  BY <1>2, <1>4
<1>6. \A source \in Sources, t \in AgentTimes : <<source, t>> \in written => t = q.batch.time
  BY <1>1 DEF systemMetricRows, deviceMetricRows, databaseMetricRows
<1>7. \A source \in Sources, t \in AgentTimes : <<source, t>> \in Keys
  BY DEF Keys
<1>8. \A source \in Sources, t \in AgentTimes :
         t # q.batch.time => rows'[<<source, t>>] = rows[<<source, t>>]
  BY <1>2, <1>6, <1>7
<1>9. \A k \in Keys : k \in written => rows'[k] = 1
  BY <1>2, <1>4
<1>10. Host \in Sources /\ \A d \in Databases : <<d, 0>> \in Sources
  BY DEF Sources
<1>11. rows'[<<Host, q.batch.time>>] = 1
  BY <1>1, <1>3, <1>7, <1>9, <1>10 DEF systemMetricRows
<1>12. ASSUME NEW d \in q.batch.answered \cap Databases
       PROVE  rows'[<<<<d, 0>>, q.batch.time>>] = 1
  <2>1. <<<<d, 0>>, q.batch.time>> \in written
    BY <1>1 DEF databaseMetricRows
  <2> QED
    BY <1>3, <1>7, <1>9, <1>10, <2>1
<1> QED
  BY <1>5, <1>8, <1>11, <1>12

LEMMA RowSteps ==
    ASSUME TelemetryInv, [Next]_vars
    PROVE  /\ rows' \in [Keys -> Nat] /\ RowsOfSamples' /\ StoredWholeAndOnce'
           /\ \A b \in sampled : Stored(b) => Stored(b)'
<1>1. TypeOK /\ EventsCounted /\ OnlySamples /\ RowsOfSamples /\ StoredWholeAndOnce
  BY DEF TelemetryInv
<1>2. rows \in [Keys -> Nat] /\ sampled \subseteq Batch /\ \A b \in Batch : b.time \in AgentTimes
  BY <1>1 DEF TypeOK, Batch
<1>3. /\ \A source \in Sources, t \in AgentTimes : <<source, t>> \in Keys
      /\ Host \in Sources /\ \A d \in Databases : <<d, 0>> \in Sources
  BY DEF Keys, Sources
<1>4. sampled \subseteq sampled'
  BY SampleSteps
<1>5. \/ sampled' = sampled
      \/ /\ rows' = rows
         /\ \E b \in Batch : sampled' = sampled \cup {b} /\ \A c \in sampled : c.time # b.time
  <2>1. CASE sampled' # sampled
    <3>1. PICK silent \in SUBSET (Ips \cup Databases) : Collect(silent)
      BY <1>1, <2>1, AgentFrame DEF runCycle, Replay, Receive, CollectNothing, GiveUp, Restart
    <3>2. rows' = rows
      BY <3>1 DEF Collect
    <3> QED
      BY <3>1, <3>2, Collections
  <2> QED
    BY <2>1
<1>6. CASE rows' = rows
  <2>1. RowsOfSamples'
    BY <1>1, <1>4, <1>6 DEF RowsOfSamples
  <2>2. \A k \in Keys : rows'[k] <= 1
    BY <1>1, <1>6 DEF StoredWholeAndOnce
  <2>3. ASSUME NEW b \in sampled', NEW d \in b.answered \cap Databases
        PROVE  rows[<<Host, b.time>>] > 0 <=> rows[<<<<d, 0>>, b.time>>] = 1
    <3>1. CASE b \in sampled
      BY <1>1, <3>1 DEF StoredWholeAndOnce, Stored
    <3>2. CASE b \notin sampled
      <4>1. b \in Batch /\ \A c \in sampled : c.time # b.time
        BY <1>5, <3>2
      <4>2. b.time \in AgentTimes
        BY <1>2, <4>1
      <4>3. /\ ~ rows[<<Host, b.time>>] > 0 /\ ~ rows[<<<<d, 0>>, b.time>>] > 0
        BY <1>1, <1>3, <4>1, <4>2 DEF RowsOfSamples
      <4> QED
        BY <4>3
    <3> QED
      BY <3>1, <3>2
  <2>4. StoredWholeAndOnce'
    BY <1>6, <2>2, <2>3 DEF StoredWholeAndOnce, Stored
  <2> QED
    BY <1>2, <1>6, <2>1, <2>4 DEF Stored
<1>7. CASE rows' # rows
  <2>1. PICK q \in requests : ingestTelemetry(q)
    BY <1>1, <1>7, TableFrame
  <2>2. parseCollectedAt(q.batch.time, q.now)
    BY <1>7, <2>1 DEF ingestTelemetry
  <2>3. /\ rows' \in [Keys -> Nat]
        /\ \A k \in Keys : rows'[k] <= 1 /\ (rows[k] > 0 => rows'[k] > 0)
        /\ \A source \in Sources, t \in AgentTimes :
              t # q.batch.time => rows'[<<source, t>>] = rows[<<source, t>>]
        /\ rows'[<<Host, q.batch.time>>] = 1
        /\ \A d \in q.batch.answered \cap Databases : rows'[<<<<d, 0>>, q.batch.time>>] = 1
    BY <2>1, <2>2, Transaction
  <2>4. sampled' = sampled /\ q.batch \in sampled
    BY <1>1, <1>5, <1>7 DEF OnlySamples
  <2>5. RowsOfSamples'
    BY <1>1, <2>3, <2>4 DEF RowsOfSamples
  <2>6. ASSUME NEW b \in sampled, NEW d \in b.answered \cap Databases
        PROVE  rows'[<<Host, b.time>>] > 0 <=> rows'[<<<<d, 0>>, b.time>>] = 1
    <3>1. b.time \in AgentTimes
      BY <1>2
    <3>2. CASE b = q.batch
      BY <2>3, <3>2
    <3>3. CASE b # q.batch
      <4>1. b.time # q.batch.time
        BY <1>1, <2>4, <3>3 DEF OnlySamples
      <4> QED
        BY <1>1, <1>3, <2>3, <3>1, <4>1 DEF StoredWholeAndOnce, Stored
    <3> QED
      BY <3>2, <3>3
  <2>7. StoredWholeAndOnce'
    BY <2>3, <2>4, <2>6 DEF StoredWholeAndOnce, Stored
  <2>8. \A b \in sampled : Stored(b) => Stored(b)'
    BY <1>2, <1>3, <2>3 DEF Stored
  <2> QED
    BY <2>3, <2>5, <2>7, <2>8
<1> QED
  BY <1>6, <1>7

-----------------------------------------------------------------------------
(* Answers *)

LEMMA Replies ==
    ASSUME TelemetryInv, NEW q \in requests, NEW code \in Codes, Reply(q, code),
           UNCHANGED agent, OutcomeOf(code) = "stored" => Stored(q.batch)',
           \A b \in sampled : Stored(b) => Stored(b)'
    PROVE  OneAwaited' /\ AnswerTrue'
<1>1. OneAwaited /\ AnswerTrue /\ CycleInOrder
  BY DEF TelemetryInv
<1>2. /\ requests' = requests \ {q}
      /\ answer' = IF q.waited THEN code ELSE answer
      /\ refused \subseteq refused'
      /\ OutcomeOf(code) = "rejected" => q.batch \in refused'
  BY DEF Reply
<1>3. OneAwaited'
  <2>1. ASSUME NEW r \in requests', r.waited
        PROVE  agent.pc = "sending" /\ agent.batch = {r.batch} /\ answer' = "none"
    <3>1. r \in requests /\ r # q
      BY <1>2
    <3>2. ~ q.waited
      BY <1>1, <2>1, <3>1 DEF OneAwaited
    <3> QED
      BY <1>1, <1>2, <2>1, <3>1, <3>2 DEF OneAwaited
  <2> QED
    BY <1>1, <1>2, <2>1 DEF OneAwaited
<1>4. AnswerTrue'
  <2>1. CASE q.waited
    BY <1>1, <1>2, <2>1 DEF OneAwaited, AnswerTrue
  <2>2. CASE ~ q.waited
    <3>1. answer # "none" =>
             /\ agent.pc = "sending"
             /\ \A b \in agent.batch : /\ b \in sampled
                                       /\ OutcomeOf(answer) = "stored" => Stored(b)
                                       /\ OutcomeOf(answer) = "rejected" => b \in refused
      BY <1>1 DEF AnswerTrue, CycleInOrder
    <3> QED
      BY <1>2, <2>2, <3>1 DEF AnswerTrue
  <2> QED
    BY <2>1, <2>2
<1> QED
  BY <1>3, <1>4

LEMMA AnswerSteps ==
    ASSUME TelemetryInv, [Next]_vars
    PROVE  OneAwaited' /\ AnswerTrue'
<1>1. /\ TypeOK /\ EventsCounted /\ OneAwaited /\ AnswerTrue /\ CycleInOrder
      /\ \A b \in sampled : Stored(b) => Stored(b)'
  BY RowSteps DEF TelemetryInv
<1>2. requests \subseteq Request /\ refused \subseteq Batch
  BY <1>1 DEF TypeOK
<1>3. agent.pc # "sending" => answer = "none" /\ \A q \in requests : ~ q.waited
  BY <1>1 DEF OneAwaited, AnswerTrue
<1>4. \A b \in Batch : Sign(b).waited /\ Sign(b).batch = b
  BY <1>1, RequestTypes
<1>5. ASSUME UNCHANGED <<requests, answer, refused, agent>>
      PROVE  OneAwaited' /\ AnswerTrue'
  <2>1. answer # "none" =>
           /\ agent.pc = "sending"
           /\ \A b \in agent.batch : /\ b \in sampled
                                     /\ OutcomeOf(answer) = "stored" => Stored(b)
                                     /\ OutcomeOf(answer) = "rejected" => b \in refused
    BY <1>1 DEF AnswerTrue, CycleInOrder
  <2> QED
    BY <1>1, <1>5, <2>1 DEF OneAwaited, AnswerTrue
<1>6. ASSUME answer' = "none", \A q \in requests' : ~ q.waited
      PROVE  OneAwaited' /\ AnswerTrue'
  BY <1>6 DEF OneAwaited, AnswerTrue
<1>7. ASSUME agent.pc # "sending", answer' = answer, requests' = requests
      PROVE  OneAwaited' /\ AnswerTrue'
  BY <1>3, <1>6, <1>7
<1>8. ASSUME NEW b \in Batch, agent.pc # "sending", requests' = requests \cup {Sign(b)},
             agent'.pc = "sending", agent'.batch = {b}, answer' = answer
      PROVE  OneAwaited' /\ AnswerTrue'
  BY <1>3, <1>4, <1>8 DEF OneAwaited, AnswerTrue
<1>9. \A q \in Abandoned : ~ q.waited
  <2> SUFFICES ASSUME NEW r \in requests PROVE ~ [r EXCEPT !.waited = FALSE].waited
    BY DEF Abandoned
  <2>1. r \in Request
    BY <1>2
  <2> QED
    BY <2>1 DEF Request
<1>10. CASE Replay
  <2>1. agent.pc # "sending" /\ answer' = answer
    BY <1>10 DEF Replay
  <2>2. \A e \in agent.entries : e.batch \in Batch
    BY <1>1 DEF TypeOK, Entry
  <2>3. \/ requests' = requests
        \/ \E e \in agent.entries : /\ agent'.pc = "sending" /\ agent'.batch = {e.batch}
                                    /\ requests' = requests \cup {Sign(e.batch)}
    BY <1>10, Replays
  <2> QED
    BY <1>7, <1>8, <2>1, <2>2, <2>3
<1>11. ASSUME NEW silent \in SUBSET (Ips \cup Databases), Collect(silent)
       PROVE  OneAwaited' /\ AnswerTrue'
  <2>1. agent.pc # "sending" /\ answer' = answer
    BY <1>11 DEF Collect
  <2>2. \/ requests' = requests
        \/ \E b \in Batch : /\ agent'.pc = "sending" /\ agent'.batch = {b}
                            /\ requests' = requests \cup {Sign(b)}
    BY <1>11, Collections
  <2> QED
    BY <1>7, <1>8, <2>1, <2>2
<1>12. CASE runCycle \/ CollectNothing
  BY <1>7, <1>12 DEF runCycle, CollectNothing, wireVars
<1>13. CASE Receive
  BY <1>1, <1>6, <1>13 DEF Receive, OneAwaited
<1>14. CASE GiveUp
  BY <1>6, <1>9, <1>14 DEF GiveUp
<1>15. CASE \E s \in Secrets : Restart(s)
  BY <1>6, <1>9, <1>15 DEF Restart
<1>16. ASSUME NEW q \in requests, POST(q)
       PROVE  OneAwaited' /\ AnswerTrue'
  <2>1. UNCHANGED agent
    BY <1>16 DEF POST, agentVars
  <2>2. PICK code \in Codes : code = authenticateAgent(q.secret, q.signedAt, clock)
    BY AuthenticateCodes
  <2>3. CASE code # "ok"
    <3>1. Reply(q, code) /\ OutcomeOf(code) # "stored"
      BY <1>16, <2>2, <2>3 DEF POST, OutcomeOf, Codes
    <3> QED
      BY <1>1, <2>1, <3>1, Replies
  <2>4. CASE code = "ok"
    <3>1. PICK x : x = [q EXCEPT !.stage = "authenticated", !.now = clock]
      OBVIOUS
    <3>2. requests' = (requests \ {q}) \cup {x} /\ UNCHANGED <<answer, refused>>
      BY <1>16, <2>2, <2>4, <3>1 DEF POST
    <3>3. q \in Request
      BY <1>2
    <3>4. x.waited = q.waited /\ x.batch = q.batch
      BY <3>1, <3>3 DEF Request
    <3>5. OneAwaited'
      BY <1>1, <2>1, <3>2, <3>4 DEF OneAwaited
    <3>6. AnswerTrue'
      <4>1. answer # "none" =>
               /\ agent.pc = "sending"
               /\ \A b \in agent.batch : /\ b \in sampled
                                         /\ OutcomeOf(answer) = "stored" => Stored(b)
                                         /\ OutcomeOf(answer) = "rejected" => b \in refused
        BY <1>1 DEF AnswerTrue, CycleInOrder
      <4> QED
        BY <1>1, <2>1, <3>2, <4>1 DEF AnswerTrue
    <3> QED
      BY <3>5, <3>6
  <2> QED
    BY <2>3, <2>4
<1>17. ASSUME NEW q \in requests, ingestTelemetry(q)
       PROVE  OneAwaited' /\ AnswerTrue'
  <2>1. UNCHANGED agent
    BY <1>17 DEF ingestTelemetry, agentVars
  <2>2. CASE parseCollectedAt(q.batch.time, q.now)
    <3>1. Reply(q, "ok") /\ "ok" \in Codes
      BY <1>17, <2>2 DEF ingestTelemetry, Codes
    <3>2. Stored(q.batch)'
      <4>1. rows'[<<Host, q.batch.time>>] = 1
        BY <1>17, <2>2, Transaction
      <4> QED
        BY <4>1 DEF Stored
    <3> QED
      BY <1>1, <2>1, <3>1, <3>2, Replies
  <2>3. CASE ~ parseCollectedAt(q.batch.time, q.now)
    <3>1. /\ Reply(q, "timestamp_out_of_range") /\ "timestamp_out_of_range" \in Codes
          /\ OutcomeOf("timestamp_out_of_range") # "stored"
      BY <1>17, <2>3 DEF ingestTelemetry, Codes, OutcomeOf
    <3> QED
      BY <1>1, <2>1, <3>1, Replies
  <2> QED
    BY <2>2, <2>3
<1>18. ASSUME NEW q \in requests, InternalError(q)
       PROVE  OneAwaited' /\ AnswerTrue'
  <2>1. UNCHANGED agent /\ Reply(q, "internal_error") /\ "internal_error" \in Codes
           /\ OutcomeOf("internal_error") # "stored"
    BY <1>18 DEF InternalError, agentVars, Codes, OutcomeOf
  <2> QED
    BY <1>1, <2>1, Replies
<1>19. \/ UNCHANGED <<requests, answer, refused, agent>>
       \/ runCycle \/ CollectNothing \/ Replay \/ Receive
       \/ \E silent \in SUBSET (Ips \cup Databases) : Collect(silent)
       \/ GiveUp \/ \E s \in Secrets : Restart(s)
       \/ \E q \in requests : POST(q)
       \/ \E q \in requests : ingestTelemetry(q)
       \/ \E q \in requests : InternalError(q)
  BY <1>1, AgentFrame, WireFrame
<1> QED
  BY <1>5, <1>10, <1>11, <1>12, <1>13, <1>14, <1>15, <1>16, <1>17, <1>18, <1>19

-----------------------------------------------------------------------------
(* The theorems *)

LEMMA NextInv == TelemetryInv /\ [Next]_vars => TelemetryInv'
<1> SUFFICES ASSUME TelemetryInv, [Next]_vars PROVE TelemetryInv'
  OBVIOUS
<1>1. TypeOK /\ EventsCounted
  BY DEF TelemetryInv
<1>2. TypeOK'
  <2>1. /\ clock' \in Times /\ skew' \in Skews /\ reachable' \in BOOLEAN /\ diskFails' \in BOOLEAN
        /\ faults' \in 0..MaxEvents /\ edits' \in 0..MaxEvents
    BY <1>1, ClockSteps
  <2> QED
    BY <2>1, AgentTypes, WireTypes, HostSteps, DeviceSteps, DatabaseTypes, RowSteps DEF TypeOK
<1>3. EventsCounted'
  BY <1>1, ClockSteps, HostSteps, DeviceSteps DEF EventsCounted
<1>4. SecretsInOrder' /\ OldSecretsExpire'
  BY HostSteps, SecretSteps DEF SecretsInOrder
<1> QED
  BY <1>2, <1>3, <1>4, CycleSteps, SampleSteps, AnswerSteps, RowSteps, ListSteps DEF TelemetryInv

LEMMA Invariance == Spec => []TelemetryInv
BY InitInv, NextInv, PTL DEF Spec

\* The agent's, the wire's and the server's state keep their types, and the
\* buffer on disk never holds more than MaxEntries files (buffer.go).
THEOREM Typing == Spec => []TypeOK
<1>1. TelemetryInv => TypeOK
  BY DEF TelemetryInv
<1> QED
  BY <1>1, Invariance, PTL

\* However requests are lost, abandoned, retried and overtaken, a batch is
\* stored whole and once (ingestTelemetry, writeMetricRows).
THEOREM StoredOnce == Spec => []StoredWholeAndOnce
<1>1. TelemetryInv => StoredWholeAndOnce
  BY DEF TelemetryInv
<1> QED
  BY <1>1, Invariance, PTL

\* However often secrets are rotated, a replaced one is accepted only within
\* its own grace period (rotateHostSecret, authenticateAgent).
THEOREM SecretsExpire == Spec => []OldSecretsExpire
<1>1. TelemetryInv => OldSecretsExpire
  BY DEF TelemetryInv
<1> QED
  BY <1>1, Invariance, PTL

\* While fetches succeed, a device taken from the agent is polled for less than
\* pollerConfigRefreshEvery (snmpState.refresh).
THEOREM DevicesLeave == Spec => RetiredDevicesLeave
<1> DEFINE Left == \A b \in sampled' \ sampled : \A ip \in b.polled :
                      Assigned(device[ip]) \/ poll'.failed
                          \/ clock < retiredAt[ip] + pollerConfigRefreshEvery
<1>1. TelemetryInv /\ [Next]_vars => Left
  <2> SUFFICES ASSUME TelemetryInv, [Next]_vars, NEW b \in sampled' \ sampled, NEW ip \in b.polled
               PROVE  Assigned(device[ip]) \/ poll'.failed
                          \/ clock < retiredAt[ip] + pollerConfigRefreshEvery
    OBVIOUS
  <2>1. TypeOK /\ EventsCounted /\ ListWasRight
    BY DEF TelemetryInv
  <2>2. PICK silent \in SUBSET (Ips \cup Databases) : Collect(silent)
    BY <2>1, AgentFrame DEF runCycle, Replay, Receive, CollectNothing, GiveUp, Restart
  <2>3. b.polled = poll'.devices /\ poll' = refresh
    BY <2>2, Collections DEF Collect
  <2>4. /\ clock \in Int /\ poll.fetchedAt \in Int /\ pollerConfigRefreshEvery \in Int
        /\ \A i \in Ips : retiredAt[i] \in Int
        /\ poll.devices \subseteq Ips
    BY <2>1, LimitAssumption DEF TypeOK, Times, NoTime
  <2>5. CASE refresh = poll /\ clock - poll.fetchedAt < pollerConfigRefreshEvery
    <3>1. ip \in Ips /\ (Assigned(device[ip]) \/ poll.fetchedAt <= retiredAt[ip])
      BY <2>1, <2>3, <2>4, <2>5 DEF ListWasRight
    <3> QED
      BY <2>4, <2>5, <3>1
  <2> QED
    BY <2>1, <2>3, <2>5, Refreshes
<1>2. TelemetryInv /\ [Next]_vars => [Left]_vars
  BY <1>1
<1> QED
  BY <1>2, Invariance, PTL DEF Spec, RetiredDevicesLeave

\* Whatever is lost or answered late, a batch leaves the agent's hands only
\* stored, refused, evicted as the oldest of a full buffer, too old, or because
\* the agent stops or its disk fails before it is saved (flushBuffer,
\* sendOrBuffer, Push).
THEOREM BatchesKept == Spec => BatchesAccounted
<1> DEFINE Dropped(b) ==
              \E e \in buffer :
                 /\ e.batch = b
                 /\ \/ AgentNow - e.savedAt > MaxAge
                    \/ /\ Cardinality(buffer) = MaxEntries
                       /\ \A f \in buffer : e.savedAt <= f.savedAt
                       /\ diskFails \/ \E c \in sampled' : Buffered(c)' /\ ~ Buffered(c)
           Kept == /\ \A b \in sampled' \ sampled : agent'.batch = {b} \/ Buffered(b)' \/ diskFails
                   /\ \A b \in sampled :
                      /\ Buffered(b) /\ ~ Buffered(b)' =>
                            Stored(b) \/ b \in refused \/ Dropped(b)
                      /\ agent.batch = {b} /\ agent'.batch # {b} =>
                            \/ Stored(b) \/ b \in refused \/ Buffered(b)'
                            \/ diskFails \/ \E s \in Secrets : Restart(s)
<1>1. ASSUME TelemetryInv, [Next]_vars
      PROVE  Kept
  <2>1. TypeOK /\ EventsCounted /\ AnswerTrue /\ CycleInOrder
    BY <1>1 DEF TelemetryInv
  <2>2. sampled \subseteq Batch /\ sampled \subseteq sampled'
    BY <1>1, <2>1, SampleSteps DEF TypeOK
  <2>3. ASSUME NEW c \in Batch, buffer' \in Push(c), c \in sampled', ~ Buffered(c)
        PROVE  (diskFails \/ Buffered(c)') /\ \A b : Buffered(b) /\ ~ Buffered(b)' => Dropped(b)
    <3>1. diskFails \/ Buffered(c)'
      BY <2>1, <2>3, Saves DEF Buffered
    <3>2. \A e \in buffer \ buffer' : /\ Cardinality(buffer) = MaxEntries
                                      /\ \A f \in buffer : e.savedAt <= f.savedAt
      BY <2>1, <2>3, Saves
    <3>3. ASSUME NEW b, Buffered(b), ~ Buffered(b)'
          PROVE  Dropped(b)
      <4>1. PICK e \in buffer : e.batch = b /\ e \notin buffer'
        BY <3>3 DEF Buffered
      <4> QED
        BY <2>3, <3>1, <3>2, <4>1
    <3> QED
      BY <3>1, <3>3
  <2>4. ASSUME buffer' = buffer PROVE \A b : Buffered(b) => Buffered(b)'
    BY <2>4 DEF Buffered
  <2>5. CASE UNCHANGED <<agent, poll, buffer, sampled>>
    BY <2>4, <2>5
  <2>6. CASE runCycle
    <3>1. sampled' = sampled /\ agent.batch = {} /\ (buffer' = Pending \/ buffer' = buffer)
      BY <2>1, <2>6, Cycles DEF runCycle, CycleInOrder
    <3>2. ASSUME NEW b \in sampled, Buffered(b), ~ Buffered(b)'
          PROVE  Dropped(b)
      <4>1. PICK e \in buffer : e.batch = b /\ ~ e.savedAt >= AgentNow - MaxAge
        BY <3>1, <3>2 DEF Buffered, Pending
      <4>2. e.savedAt \in Int /\ AgentNow \in Int /\ MaxAge \in Int
        BY <2>1, Clocks, LimitAssumption DEF TypeOK, Entry
      <4>3. AgentNow - e.savedAt > MaxAge
        BY <4>1, <4>2
      <4> QED
        BY <4>1, <4>3
    <3> QED
      BY <3>1, <3>2
  <2>7. CASE Replay
    <3>1. buffer' = buffer /\ sampled' = sampled /\ agent.batch = {}
      BY <1>1, <2>1, <2>7, Replays DEF Replay, CycleInOrder
    <3> QED
      BY <2>4, <3>1
  <2>8. CASE CollectNothing
    <3>1. buffer' = buffer /\ sampled' = sampled /\ agent.batch = {}
      BY <2>1, <2>8 DEF CollectNothing, CycleInOrder
    <3> QED
      BY <2>4, <3>1
  <2>9. ASSUME NEW silent \in SUBSET (Ips \cup Databases), Collect(silent)
        PROVE  Kept
    <3>1. agent.batch = {}
      BY <2>1, <2>9 DEF Collect, CycleInOrder
    <3>2. PICK b \in Batch :
              /\ sampled' = sampled \cup {b} /\ ~ Buffered(b)
              /\ \/ buffer' = buffer /\ agent'.batch = {b}
                 \/ buffer' \in Push(b)
      BY <1>1, <2>9, Collections
    <3> QED
      BY <2>3, <2>4, <3>1, <3>2
  <2>10. CASE \E s \in Secrets : Restart(s)
    <3>1. buffer' = buffer /\ sampled' = sampled
      BY <2>10 DEF Restart
    <3> QED
      BY <2>4, <2>10, <3>1
  <2>11. ASSUME NEW outcome, Outcome(outcome), agent.pc = "sending", sampled' = sampled,
                \A b \in agent.batch : outcome # "retry" => Stored(b) \/ b \in refused
         PROVE  Kept
    <3>1. PICK c \in sampled :
              /\ agent.batch = {c}
              /\ \/ outcome = "retry" /\ buffer' = buffer /\ Buffered(c)
                 \/ outcome = "retry" /\ buffer' \in Push(c) /\ ~ Buffered(c)
                 \/ outcome # "retry" /\ buffer' = Remove(buffer, c)
                 \/ outcome # "retry" /\ buffer' = buffer
      BY <1>1, <2>11, Outcomes
    <3>2. CASE outcome = "retry" /\ buffer' = buffer /\ Buffered(c)
      BY <2>4, <2>11, <3>1, <3>2
    <3>3. CASE outcome = "retry" /\ buffer' \in Push(c) /\ ~ Buffered(c)
      BY <2>2, <2>3, <2>11, <3>1, <3>3
    <3>4. CASE outcome # "retry"
      <4>1. Stored(c) \/ c \in refused
        BY <2>11, <3>1, <3>4
      <4>2. \A b : Buffered(b) /\ ~ Buffered(b)' => b = c
        BY <3>1, <3>4 DEF Buffered, Remove
      <4> QED
        BY <2>11, <3>1, <4>1, <4>2
    <3> QED
      BY <3>1, <3>2, <3>3, <3>4
  <2>12. CASE Receive
    <3>1. OutcomeOf(answer) \in {"stored", "retry", "rejected"}
      BY DEF OutcomeOf
    <3>2. \A b \in agent.batch : OutcomeOf(answer) # "retry" => Stored(b) \/ b \in refused
      BY <2>1, <2>12, <3>1 DEF AnswerTrue, Receive
    <3> QED
      BY <2>11, <2>12, <3>2 DEF Receive
  <2>13. CASE GiveUp
    BY <2>11, <2>13 DEF GiveUp
  <2> QED
    BY <1>1, <2>1, <2>5, <2>6, <2>7, <2>8, <2>9, <2>10, <2>12, <2>13, AgentFrame
<1> DEFINE Accounted ==
              /\ \A b \in sampled' \ sampled : agent'.batch = {b} \/ Buffered(b)' \/ diskFails
              /\ \A b \in sampled :
                 /\ Buffered(b) /\ ~ Buffered(b)' =>
                       \/ Stored(b) \/ b \in refused
                       \/ \E e \in buffer :
                             /\ e.batch = b
                             /\ \/ AgentNow - e.savedAt > MaxAge
                                \/ /\ Cardinality(buffer) = MaxEntries
                                   /\ \A f \in buffer : e.savedAt <= f.savedAt
                                   /\ diskFails \/ \E c \in sampled' : Buffered(c)' /\ ~ Buffered(c)
                 /\ agent.batch = {b} /\ agent'.batch # {b} =>
                       \/ Stored(b) \/ b \in refused \/ Buffered(b)'
                       \/ diskFails \/ \E s \in Secrets : Restart(s)
<1>2. TelemetryInv /\ [Next]_vars => Accounted
  BY <1>1
<1>3. TelemetryInv /\ [Next]_vars => [Accounted]_vars
  BY <1>2
<1> QED
  BY <1>3, Invariance, PTL DEF Spec, BatchesAccounted

=============================================================================

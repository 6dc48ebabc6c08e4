------------------------------ MODULE Telemetry ------------------------------
(***************************************************************************)
(* One agent and the server that stores what it reports: the agent's cycle *)
(* (agent/cmd/ikelyane-agent/main.go), its buffer on disk (buffer.go) and  *)
(* its HTTP client (telemetry/client.go); POST /api/v1/telemetry and GET   *)
(* /api/v1/poller-config with authenticateAgent; the ingestion of hosts,   *)
(* network devices and databases; and what administrators do to them.      *)
(*                                                                         *)
(* A request is received, authenticated and stored in three steps.  The    *)
(* agent sends one request at a time, but one it gave up on (30 seconds)   *)
(* may still be served later, beside the next ones.  A batch is the time   *)
(* it was collected at, the devices polled for it, and which of the devices*)
(* and databases answered: measured values, inventory and the agent's      *)
(* remediation policy travel with it and are told apart by nothing else.   *)
(* Buffered batches are a set of files; files named within the same unit   *)
(* of time may sort either way.                                            *)
(***************************************************************************)
EXTENDS Integers, FiniteSets

CONSTANTS
    Ips,                 \* addresses of network devices
    Databases,           \* databases in the agent's configuration
    MaxEntries,          \* buffer.go: batches kept on disk
    MaxAge,              \* buffer.go: how long they are kept
    bufferFlushBatch,    \* main.go: batches replayed in a cycle
    pollerConfigRefreshEvery,
    MaxSkew,             \* TELEMETRY_MAX_CLOCK_SKEW_SECONDS
    MaxBackfill,         \* TELEMETRY_MAX_BACKFILL_DAYS
    RotationGrace,       \* SECRET_ROTATION_GRACE_HOURS
    Skews,               \* errors of the agent's clock
    MaxClock, MaxEvents  \* bounds: time, failures and administrators' edits

ASSUME LimitAssumption ==
    /\ {MaxEntries, bufferFlushBatch, RotationGrace} \subseteq Nat \ {0}
    /\ {MaxAge, pollerConfigRefreshEvery, MaxSkew, MaxBackfill, MaxClock, MaxEvents} \subseteq Nat
    /\ Skews \subseteq Int /\ 0 \in Skews

VARIABLES
    clock,      \* the server's clock, and the agent's monotonic one
    skew,       \* how far the agent's wall clock is ahead
    reachable,  \* whether the agent can connect to the server
    diskFails,  \* whether listing or writing the buffer directory may fail
    agent,      \* where the agent's cycle stands
    poll,       \* snmpState: the device list it last fetched
    buffer,     \* buffered batches on disk
    sampled,    \* every batch collected so far
    requests,   \* requests on their way to or inside the server
    answer,     \* what the server answered to the request the agent waits for
    refused,    \* batches the server refused
    host,       \* the monitored_hosts row
    replacedAt, \* when each secret was replaced by a rotation
    device,     \* network_devices rows, by address
    database,   \* database_instances rows
    retiredAt,  \* when each device last stopped being assigned to this host
    rows,       \* metric_entries: how many rows of each primary key
    faults,     \* failures so far
    edits       \* administrators' edits so far

agentVars == <<agent, poll, buffer, sampled>>
wireVars == <<requests, answer, refused>>
inventory == <<device, database, retiredAt>>
vars == <<clock, skew, reachable, diskFails, agentVars, wireVars, host, replacedAt, inventory, rows, faults, edits>>

Times == 0..MaxClock
Secrets == 1..(MaxEvents + 1)
AgentTimes == {t + s : t \in Times, s \in Skews}
NoTime == -1 - MaxClock
Batch == [time : AgentTimes, polled : SUBSET Ips, answered : SUBSET (Ips \cup Databases)]
Entry == [batch : Batch, savedAt : AgentTimes]
Codes == {"ok", "timestamp_out_of_tolerance", "invalid_signature", "host_disabled",
          "timestamp_out_of_range", "internal_error"}
Request == [batch : Batch, secret : Secrets, signedAt : AgentTimes,
            stage : {"sent", "authenticated"}, now : Times, waited : BOOLEAN]
Device == [id : 1..(MaxEvents + 1), live : BOOLEAN, enabled : BOOLEAN,
           here : BOOLEAN, secret : BOOLEAN]
Host == <<"host", 0>>
Sources == {Host} \cup (Ips \X (1..(MaxEvents + 1))) \cup (Databases \X {0})
Keys == Sources \X AgentTimes

TypeOK ==
    /\ clock \in Times /\ skew \in Skews /\ reachable \in BOOLEAN /\ diskFails \in BOOLEAN
    /\ agent \in [pc : {"idle", "flush", "collect", "sending"}, entries : SUBSET Entry,
                  batch : SUBSET Batch, replay : BOOLEAN, secret : Secrets]
    /\ poll \in [devices : SUBSET Ips, fetchedAt : Times \cup {NoTime}, failed : BOOLEAN]
    /\ buffer \subseteq Entry /\ IsFiniteSet(buffer) /\ Cardinality(buffer) <= MaxEntries
    /\ sampled \subseteq Batch /\ refused \subseteq Batch
    /\ requests \subseteq Request
    /\ answer \in Codes \cup {"none"}
    /\ host \in [enabled : BOOLEAN, secret : Secrets, previous : Secrets \cup {0},
                 expires : Nat, seen : BOOLEAN]
    /\ replacedAt \in [Secrets -> Times \cup {NoTime}]
    /\ device \in [Ips -> Device]
    /\ database \in [Databases -> [live : BOOLEAN, enabled : BOOLEAN,
                                   threshold : {"agent", "admin"}]]
    /\ retiredAt \in [Ips -> Times \cup {NoTime}]
    /\ rows \in [Keys -> Nat]
    /\ faults \in 0..MaxEvents /\ edits \in 0..MaxEvents

AgentNow == clock + skew     \* the agent's wall clock
Assigned(row) == row.live /\ row.enabled /\ row.here

\* A host registered and its agent installed with the secret shown once, on a
\* machine whose clock may be wrong and whose network may be down.
registerHost ==
    [enabled |-> TRUE, secret |-> 1, previous |-> 0, expires |-> 0, seen |-> FALSE]

Init ==
    /\ clock = 0 /\ skew \in Skews /\ reachable \in BOOLEAN /\ diskFails = FALSE
    /\ faults = 0 /\ edits = 0
    /\ agent = [pc |-> "idle", entries |-> {}, batch |-> {}, replay |-> FALSE, secret |-> 1]
    /\ poll = [devices |-> {}, fetchedAt |-> NoTime, failed |-> FALSE]
    /\ buffer = {} /\ sampled = {} /\ refused = {}
    /\ requests = {} /\ answer = "none"
    /\ host = registerHost
    /\ replacedAt = [s \in Secrets |-> NoTime]
    /\ device = [ip \in Ips |->
          [id |-> 1, live |-> TRUE, enabled |-> TRUE, here |-> TRUE, secret |-> TRUE]]
    /\ database = [d \in Databases |->
          [live |-> FALSE, enabled |-> TRUE, threshold |-> "agent"]]
    /\ retiredAt = [ip \in Ips |-> NoTime]
    /\ rows = [k \in Keys |-> 0]

Tick ==
    /\ clock < MaxClock
    /\ clock' = clock + 1
    /\ UNCHANGED <<skew, reachable, diskFails, agentVars, wireVars, host, replacedAt, inventory, rows, faults, edits>>

Fault == faults + edits < MaxEvents /\ faults' = faults + 1

ClockStep(s) ==
    /\ Fault /\ s # skew
    /\ skew' = s
    /\ UNCHANGED <<clock, reachable, diskFails, agentVars, wireVars, host, replacedAt, inventory, rows, edits>>

\* The network between agent and server fails, for as long as it takes.
Outage ==
    /\ Fault /\ reachable
    /\ reachable' = FALSE
    /\ UNCHANGED <<clock, skew, diskFails, agentVars, wireVars, host, replacedAt, inventory, rows, edits>>

OutageEnds ==
    /\ ~ reachable
    /\ reachable' = TRUE
    /\ UNCHANGED <<clock, skew, diskFails, agentVars, wireVars, host, replacedAt, inventory, rows, faults,
                   edits>>

\* The agent's disk is full or its buffer directory cannot be read, for as long
\* as it takes.
DiskFault ==
    /\ Fault /\ ~ diskFails
    /\ diskFails' = TRUE
    /\ UNCHANGED <<clock, skew, reachable, agentVars, wireVars, host, replacedAt, inventory, rows,
                   edits>>

DiskRepaired ==
    /\ diskFails
    /\ diskFails' = FALSE
    /\ UNCHANGED <<clock, skew, reachable, agentVars, wireVars, host, replacedAt, inventory, rows,
                   faults, edits>>

-----------------------------------------------------------------------------
(* authenticateAgent *)

isTimestampFresh(signedAt, now) == now - signedAt \in -MaxSkew..MaxSkew

\* The secret in use, and the one it replaced until the grace period ends.
ValidSecrets_NoExpiry(now) == {host.secret, host.previous} \ {0}

ValidSecrets(now) ==
    {host.secret} \cup {s \in {host.previous} \ {0} : host.expires > now}

verifySignature(secrets, secret) == secret \in secrets

authenticateAgent(secret, signedAt, now) ==
    IF ~ isTimestampFresh(signedAt, now) THEN "timestamp_out_of_tolerance"
    ELSE IF ~ verifySignature(ValidSecrets(now), secret) THEN "invalid_signature"
    ELSE IF ~ host.enabled THEN "host_disabled"
    ELSE "ok"

-----------------------------------------------------------------------------
(* The buffer on disk *)

\* What the first n of the files may be: they sort by the time in their name.
Oldest(n, files) ==
    {S \in SUBSET files :
        /\ Cardinality(S) = IF Cardinality(files) < n THEN Cardinality(files) ELSE n
        /\ \A e \in S, f \in files \ S : e.savedAt <= f.savedAt}

evictIfFull_OffByOne(files) ==
    IF Cardinality(files) <= MaxEntries THEN {files}
    ELSE {files \ S : S \in Oldest(Cardinality(files) - MaxEntries + 1, files)}

\* Makes room for one more: the oldest files go.
evictIfFull(files) ==
    IF Cardinality(files) < MaxEntries THEN {files}
    ELSE {files \ S : S \in Oldest(Cardinality(files) - MaxEntries + 1, files)}

\* What the directory may hold after a push.  One that fails, in the listing or
\* in the write after the eviction, leaves the batch nowhere.
Push(batch) ==
    {kept \cup {[batch |-> batch, savedAt |-> AgentNow]} : kept \in evictIfFull(buffer)}
        \cup IF diskFails THEN {buffer} \cup evictIfFull(buffer) ELSE {}

\* What is left once files past MaxAge are deleted.
Pending == {e \in buffer : e.savedAt >= AgentNow - MaxAge}

\* Every batch is in one file.
Remove(files, batch) == {e \in files : e.batch # batch}

-----------------------------------------------------------------------------
(* The agent's cycle *)

runCycle ==
    /\ agent.pc = "idle"
    /\ \/ /\ buffer' = Pending
          /\ \E S \in Oldest(bufferFlushBatch, Pending) :
                agent' = [agent EXCEPT !.pc = "flush", !.entries = S]
       \/ /\ diskFails    \* nothing is replayed in this cycle
          /\ agent' = [agent EXCEPT !.pc = "flush"]
          /\ UNCHANGED buffer
    /\ UNCHANGED <<clock, skew, reachable, diskFails, poll, sampled, wireVars, host, replacedAt, inventory, rows,
                   faults, edits>>

\* The signature covers the time of sending, not of collection.
Sign(batch) ==
    [batch |-> batch, secret |-> agent.secret, signedAt |-> AgentNow, stage |-> "sent",
     now |-> 0, waited |-> TRUE]

Send(batch, replay) ==
    /\ requests' = requests \cup {Sign(batch)}
    /\ agent' = [agent EXCEPT !.pc = "sending", !.batch = {batch}, !.replay = replay]

\* flushBuffer after an answer: delivered or hopeless batches leave the disk;
\* a retry ends the replay and the cycle goes on to the fresh sample.
flushBuffer_KeepsStored(batch, outcome) ==
    /\ agent' = [agent EXCEPT !.pc = IF outcome = "retry" THEN "collect" ELSE "flush",
          !.entries = IF outcome = "retry" THEN {} ELSE Remove(@, batch), !.batch = {}]
    /\ UNCHANGED buffer

flushBuffer(batch, outcome) ==
    IF outcome = "retry"
    THEN /\ agent' = [agent EXCEPT !.pc = "collect", !.entries = {}, !.batch = {}]
         /\ UNCHANGED buffer
    ELSE /\ agent' = [agent EXCEPT !.pc = "flush", !.entries = Remove(@, batch), !.batch = {}]
         /\ buffer' = Remove(buffer, batch)

sendOrBuffer_Unanswered(batch, outcome) ==
    /\ agent' = [agent EXCEPT !.pc = "idle", !.batch = {}]
    /\ IF outcome = "retry" /\ ~ reachable THEN buffer' \in Push(batch) ELSE UNCHANGED buffer

\* A batch that can neither be sent nor saved is logged and dropped.
sendOrBuffer(batch, outcome) ==
    /\ agent' = [agent EXCEPT !.pc = "idle", !.batch = {}]
    /\ IF outcome = "retry" THEN buffer' \in Push(batch) ELSE UNCHANGED buffer

\* The next batch of the replay, the oldest left, or its end.
Replay ==
    /\ agent.pc = "flush"
    /\ \/ /\ agent.entries = {}
          /\ agent' = [agent EXCEPT !.pc = "collect"]
          /\ UNCHANGED <<buffer, requests>>
       \/ \E e \in agent.entries :
             /\ \A f \in agent.entries : e.savedAt <= f.savedAt
             /\ IF reachable THEN Send(e.batch, TRUE) /\ UNCHANGED buffer
                             ELSE flushBuffer(e.batch, "retry") /\ UNCHANGED requests
    /\ UNCHANGED <<clock, skew, reachable, diskFails, poll, sampled, answer, refused, host, replacedAt,
                   inventory, rows, faults, edits>>

listDevicesForPoller_IgnoresEnabled == {ip \in Ips : device[ip].live /\ device[ip].here}

listDevicesForPoller == {ip \in Ips : Assigned(device[ip])}

\* GET /api/v1/poller-config.
PollerConfig ==
    [code |-> authenticateAgent(agent.secret, AgentNow, clock), devices |-> listDevicesForPoller]

Fetch == IF reachable THEN PollerConfig ELSE [code |-> "internal_error", devices |-> {}]

\* snmpState.refresh: the last list is kept when the fetch fails.
refresh ==
    IF poll.fetchedAt # NoTime /\ clock - poll.fetchedAt < pollerConfigRefreshEvery
    THEN poll
    ELSE IF Fetch.code = "ok"
    THEN [devices |-> Fetch.devices, fetchedAt |-> clock, failed |-> FALSE]
    ELSE [poll EXCEPT !.failed = TRUE]

\* Those that answer: a device or database that does not is still reported.
pollDevices(devices, silent) == devices \ silent
pollDatabases(silent) == Databases \ silent

\* Polls every assigned device and configured database, and sends the fresh
\* sample.  A unit of time is a collection
\* interval: a cycle within the unit of an earlier one only replays.
Collect(silent) ==
    /\ agent.pc = "collect" /\ AgentNow \notin {b.time : b \in sampled}
    /\ IF silent = {} THEN UNCHANGED faults ELSE Fault
    /\ poll' = refresh
    /\ silent \subseteq poll'.devices \cup Databases
    /\ LET batch == [time |-> AgentNow, polled |-> poll'.devices,
                     answered |-> pollDevices(poll'.devices, silent) \cup pollDatabases(silent)]
       IN  /\ sampled' = sampled \cup {batch}
           /\ IF reachable THEN Send(batch, FALSE) /\ UNCHANGED buffer
              ELSE sendOrBuffer(batch, "retry") /\ UNCHANGED requests
    /\ UNCHANGED <<clock, skew, reachable, diskFails, answer, refused, host, replacedAt, inventory, rows,
                   edits>>

CollectNothing ==
    /\ agent.pc = "collect" /\ AgentNow \in {b.time : b \in sampled}
    /\ agent' = [agent EXCEPT !.pc = "idle"]
    /\ UNCHANGED <<clock, skew, reachable, diskFails, poll, buffer, sampled, wireVars, host, replacedAt,
                   inventory, rows, faults, edits>>

OutcomeOf(code) ==
    CASE code = "ok" -> "stored"
      [] code = "internal_error" -> "retry"
      [] OTHER -> "rejected"    \* host_disabled, clock skew, or a bug: all dropped

Outcome(outcome) ==
    \E batch \in agent.batch :
        IF agent.replay THEN flushBuffer(batch, outcome) ELSE sendOrBuffer(batch, outcome)

Receive ==
    /\ agent.pc = "sending" /\ answer # "none"
    /\ Outcome(OutcomeOf(answer))
    /\ answer' = "none"
    /\ UNCHANGED <<clock, skew, reachable, diskFails, poll, sampled, requests, refused, host, replacedAt, inventory,
                   rows, faults, edits>>

Abandoned == {[q EXCEPT !.waited = FALSE] : q \in requests}

\* No answer in time, or the answer lost: the server may still serve the
\* request, or may never have seen it.
GiveUp ==
    /\ Fault /\ agent.pc = "sending"
    /\ Outcome("retry")
    /\ requests' \in {Abandoned, {q \in requests : ~ q.waited}}
    /\ answer' = "none"
    /\ UNCHANGED <<clock, skew, reachable, diskFails, poll, sampled, refused, host, replacedAt, inventory, rows, edits>>

\* The agent stops and is started again, perhaps with the secret now in use:
\* only the buffer survives.
Restart(secret) ==
    /\ Fault /\ secret \in {agent.secret, host.secret}
    /\ agent' = [pc |-> "idle", entries |-> {}, batch |-> {}, replay |-> FALSE,
                 secret |-> secret]
    /\ poll' = [devices |-> {}, fetchedAt |-> NoTime, failed |-> FALSE]
    /\ requests' = Abandoned /\ answer' = "none"
    /\ UNCHANGED <<clock, skew, reachable, diskFails, buffer, sampled, refused, host, replacedAt, inventory, rows, edits>>

-----------------------------------------------------------------------------
(* POST /api/v1/telemetry *)

\* The answer reaches the agent only if it still waits.
Reply(q, code) ==
    /\ requests' = requests \ {q}
    /\ answer' = IF q.waited THEN code ELSE answer
    /\ refused' = IF OutcomeOf(code) = "rejected" THEN refused \cup {q.batch} ELSE refused

POST(q) ==
    /\ q.stage = "sent"
    /\ LET code == authenticateAgent(q.secret, q.signedAt, clock)
       IN  IF code = "ok"
           THEN /\ requests' = (requests \ {q}) \cup
                      {[q EXCEPT !.stage = "authenticated", !.now = clock]}
                /\ UNCHANGED <<answer, refused>>
           ELSE Reply(q, code)
    /\ UNCHANGED <<clock, skew, reachable, diskFails, agentVars, host, replacedAt, inventory, rows, faults, edits>>

\* Applies to the host, to each device and to each database of the batch.
parseCollectedAt(time, now) == now - time \in -MaxSkew..MaxBackfill

\* Upsert by address: a device nobody registered is created for this host,
\* without credentials; one that exists keeps what administrators set.
ingestSnmpDevices(batch) ==
    [ip \in Ips |->
        IF ip \notin batch.polled \/ device[ip].live THEN device[ip]
        ELSE [id |-> device[ip].id + 1, live |-> TRUE, enabled |-> TRUE, here |-> TRUE,
              secret |-> FALSE]]

\* Upsert by name; the slow-query threshold is the one the agent reports.
ingestDatabases ==
    [d \in Databases |-> [database[d] EXCEPT !.live = TRUE, !.threshold = "agent"]]

\* One row per source and time, of the host and of what answered.
systemMetricRows(batch) == {<<Host, batch.time>>}
deviceMetricRows(batch, devices) ==
    {<<<<ip, devices[ip].id>>, batch.time>> : ip \in batch.answered \cap batch.polled}
databaseMetricRows(batch) == {<<<<d, 0>>, batch.time>> : d \in batch.answered \cap Databases}

\* INSERT ... ON CONFLICT DO NOTHING on the primary key.
writeMetricRows_NoSkip(keys) == [k \in Keys |-> IF k \in keys THEN rows[k] + 1 ELSE rows[k]]

writeMetricRows(keys) == [k \in Keys |-> IF k \in keys /\ rows[k] = 0 THEN 1 ELSE rows[k]]

\* The host has reported; its other columns take the values of the batch,
\* whatever its age.
recordHeartbeat == [host EXCEPT !.seen = TRUE]

\* One transaction: everything in the batch, or nothing (422).
ingestTelemetry(q) ==
    /\ q.stage = "authenticated"
    /\ IF parseCollectedAt(q.batch.time, q.now)
       THEN /\ host' = recordHeartbeat
            /\ device' = ingestSnmpDevices(q.batch)
            /\ database' = ingestDatabases
            /\ rows' = writeMetricRows(systemMetricRows(q.batch)
                   \cup deviceMetricRows(q.batch, device') \cup databaseMetricRows(q.batch))
            /\ Reply(q, "ok")
       ELSE /\ Reply(q, "timestamp_out_of_range")
            /\ UNCHANGED <<host, device, database, rows>>
    /\ UNCHANGED <<clock, skew, reachable, diskFails, agentVars, replacedAt, retiredAt, faults, edits>>

\* The transaction fails or the server stops: nothing is stored.
InternalError(q) ==
    /\ Fault
    /\ Reply(q, "internal_error")
    /\ UNCHANGED <<clock, skew, reachable, diskFails, agentVars, host, replacedAt, inventory, rows, edits>>

-----------------------------------------------------------------------------
(* Administrators *)

Edit == faults + edits < MaxEvents /\ edits' = edits + 1
adminFrame == <<clock, skew, reachable, diskFails, agentVars, wireVars, rows, faults>>

rotateHostSecret ==
    /\ Edit
    /\ host' = [host EXCEPT !.previous = host.secret, !.secret = host.secret + 1,
                            !.expires = clock + RotationGrace]
    /\ replacedAt' = [replacedAt EXCEPT ![host.secret] = clock]
    /\ UNCHANGED <<adminFrame, inventory>>

setHostEnabled ==
    /\ Edit
    /\ host' = [host EXCEPT !.enabled = ~ host.enabled]
    /\ UNCHANGED <<adminFrame, replacedAt, inventory>>

SetDevice(ip, row) ==
    /\ Edit
    /\ device' = [device EXCEPT ![ip] = row]
    /\ retiredAt' = IF Assigned(device[ip]) /\ ~ Assigned(row)
                    THEN [retiredAt EXCEPT ![ip] = clock] ELSE retiredAt
    /\ UNCHANGED <<adminFrame, host, replacedAt, database>>

\* Refused when the address is taken.
registerDevice(ip, here) ==
    /\ ~ device[ip].live
    /\ SetDevice(ip, [id |-> device[ip].id + 1, live |-> TRUE, enabled |-> TRUE,
                      here |-> here, secret |-> TRUE])

\* Assigns the device to this host or to another one, and enters credentials.
updateDevice(ip, here) ==
    /\ device[ip].live
    /\ SetDevice(ip, [device[ip] EXCEPT !.here = here, !.secret = TRUE])

setDeviceEnabled(ip) ==
    /\ device[ip].live
    /\ SetDevice(ip, [device[ip] EXCEPT !.enabled = ~ @])

deleteDevice(ip) ==
    /\ device[ip].live
    /\ SetDevice(ip, [device[ip] EXCEPT !.live = FALSE])

SetDatabase(d, row) ==
    /\ Edit /\ database[d].live
    /\ database' = [database EXCEPT ![d] = row]
    /\ UNCHANGED <<adminFrame, host, replacedAt, device, retiredAt>>

updateDatabaseSettings(d) == SetDatabase(d, [database[d] EXCEPT !.threshold = "admin"])

setDatabaseEnabled(d) == SetDatabase(d, [database[d] EXCEPT !.enabled = ~ @])

-----------------------------------------------------------------------------
AgentStep ==
    \/ runCycle \/ Replay \/ Receive \/ CollectNothing
    \/ \E silent \in SUBSET (Ips \cup Databases) : Collect(silent)

ServerStep == \E q \in requests : POST(q) \/ ingestTelemetry(q)

Failure ==
    \/ Outage \/ OutageEnds \/ DiskFault \/ DiskRepaired \/ GiveUp
    \/ \E s \in Skews : ClockStep(s)
    \/ \E s \in Secrets : Restart(s)
    \/ \E q \in requests : InternalError(q)

hostActions == rotateHostSecret \/ setHostEnabled
deviceActions(ip) ==
    \/ \E here \in BOOLEAN : registerDevice(ip, here) \/ updateDevice(ip, here)
    \/ setDeviceEnabled(ip) \/ deleteDevice(ip)
databaseActions(d) == updateDatabaseSettings(d) \/ setDatabaseEnabled(d)

Administration ==
    \/ hostActions
    \/ \E ip \in Ips : deviceActions(ip)
    \/ \E d \in Databases : databaseActions(d)

Next == Tick \/ AgentStep \/ ServerStep \/ Failure \/ Administration

Spec == Init /\ [][Next]_vars

\* The agent's loop and the server's handlers go on; faults stop eventually.
FairSpec == Spec /\ WF_vars(AgentStep) /\ WF_vars(ServerStep)
            /\ WF_vars(OutageEnds) /\ WF_vars(DiskRepaired)

-----------------------------------------------------------------------------
(* Properties *)

Stored(b) == rows[<<Host, b.time>>] > 0
Buffered(b) == \E e \in buffer : e.batch = b

\* However often a batch is sent, and whichever of its requests commits first,
\* it is stored whole and once (writeMetricRows, one transaction).
StoredWholeAndOnce ==
    /\ \A k \in Keys : rows[k] <= 1
    /\ \A b \in sampled : \A d \in b.answered \cap Databases :
          Stored(b) <=> rows[<<<<d, 0>>, b.time>>] = 1

\* A batch leaves the agent's hands only when the server has stored or refused
\* it, when the full buffer drops its oldest, when it is older than MaxAge, or,
\* while it is nowhere but in memory, when the agent stops or its disk fails:
\* no outage, time-out, lost answer or server error loses one (flushBuffer,
\* sendOrBuffer, Push).
BatchesAccounted ==
    [][/\ \A b \in sampled' \ sampled : agent'.batch = {b} \/ Buffered(b)' \/ diskFails
       /\ \A b \in sampled :
          /\ Buffered(b) /\ ~ Buffered(b)' =>
                \/ Stored(b) \/ b \in refused
                \/ \E e \in buffer :
                      /\ e.batch = b
                      /\ \/ AgentNow - e.savedAt > MaxAge
                         \/ /\ Cardinality(buffer) = MaxEntries
                            /\ \A f \in buffer : e.savedAt <= f.savedAt
                            /\ diskFails \/ \E c \in sampled' : Buffered(c)' /\ ~ Buffered(c)
          /\ agent.batch = {b} /\ agent'.batch # {b} =>
                \/ Stored(b) \/ b \in refused \/ Buffered(b)'
                \/ diskFails \/ \E s \in Secrets : Restart(s)]_vars

\* A request signed with a replaced secret is let in only within the grace
\* period after that very secret was replaced, however often the secret is
\* rotated (rotateHostSecret, authenticateAgent).
OldSecretsExpire ==
    \A q \in requests : q.stage = "authenticated" =>
        \/ replacedAt[q.secret] = NoTime
        \/ q.now < replacedAt[q.secret] + RotationGrace

\* Polling stops: while fetches succeed, a device that was disabled, deleted or
\* assigned elsewhere is not polled once pollerConfigRefreshEvery has passed
\* (snmpState.refresh keeps the list between fetches).
RetiredDevicesLeave ==
    [][\A b \in sampled' \ sampled : \A ip \in b.polled :
          Assigned(device[ip]) \/ poll'.failed
              \/ clock < retiredAt[ip] + pollerConfigRefreshEvery]_vars

\* However long an outage lasted, the replay catches up with the samples that
\* keep coming: the buffer empties again and again once failures stop
\* (flushBuffer takes a few batches of each cycle, oldest first).
BacklogDrains == []<>(buffer = {})

=============================================================================

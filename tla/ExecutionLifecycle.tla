------------------------- MODULE ExecutionLifecycle -------------------------
(***************************************************************************)
(* What the remediation subsystem promises about one table of executions,  *)
(* whatever requests, workers and agents do concurrently: the state        *)
(* diagram in the header of src/modules/remediation/executions.ts, at most *)
(* one live execution per (action, host), and a script that is started at  *)
(* most once, and only by an execution that was handed to an agent.        *)
(***************************************************************************)
EXTENDS Naturals

CONSTANTS ExecIds,  \* identifiers of executions
          NoHost    \* host of an execution that has no target

VARIABLES status,   \* status[e]
          key,      \* key[e] = [action, host] once e exists
          runs      \* runs[e]: how many times an agent started e's script

absVars == <<status, key, runs>>

LiveStatuses == {"AWAITING_APPROVAL", "PENDING", "RUNNING"}

Terminal == {"SUCCEEDED", "FAILED", "TIMED_OUT", "SKIPPED", "CANCELLED"}

\* The edges of the state diagram. A row can be deleted in any status (the
\* action it belongs to is deleted with its executions).
Edge(s, t) ==
    \/ s = "ABSENT" /\ t \in {"SKIPPED", "AWAITING_APPROVAL", "PENDING"}
    \/ s = "AWAITING_APPROVAL" /\ t \in {"PENDING", "SKIPPED", "CANCELLED"}
    \/ s = "PENDING" /\ t \in {"RUNNING", "CANCELLED"}
    \/ s = "RUNNING" /\ t \in {"SUCCEEDED", "FAILED", "TIMED_OUT", "SKIPPED"}
    \/ s # "ABSENT" /\ t = "DELETED"

OneLivePerKey(st, k) ==
    \A e, f \in ExecIds :
        (/\ e # f
         /\ st[e] \in LiveStatuses /\ st[f] \in LiveStatuses
         /\ k[e].host # NoHost)
        => k[e] # k[f]

Init ==
    /\ status = [e \in ExecIds |-> "ABSENT"]
    /\ key \in [ExecIds -> {[action |-> NoHost, host |-> NoHost]}]
    /\ runs = [e \in ExecIds |-> 0]

\* Rows advance along the diagram (one statement may advance several); the key
\* of a row is fixed when the row is created.
Advance ==
    /\ \A e \in ExecIds : status'[e] = status[e] \/ Edge(status[e], status'[e])
    /\ \A e \in ExecIds : key'[e] = key[e] \/ status[e] = "ABSENT"
    /\ OneLivePerKey(status', key')
    /\ UNCHANGED runs

\* An agent starts the script of an execution that was handed out.
Start(e) ==
    /\ runs[e] = 0
    /\ status[e] \notin {"ABSENT", "AWAITING_APPROVAL", "PENDING", "CANCELLED"}
    /\ runs' = [runs EXCEPT ![e] = 1]
    /\ UNCHANGED <<status, key>>

Next == Advance \/ \E e \in ExecIds : Start(e)

AbsSpec == Init /\ [][Next]_absVars
=============================================================================

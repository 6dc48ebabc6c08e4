------------------------------ MODULE Topology ------------------------------
(***************************************************************************)
(* The dependency map (src/modules/topology/service.ts behind              *)
(* app/actions/topology.ts): nodes that stand for a monitored entity or    *)
(* for a logical service, and the dependencies between them.  The code     *)
(* keeps one dependency of each kind from one node to another; the map     *)
(* that is analysed has an edge where there is at least one, so creating a *)
(* further kind, or deleting one of several, is no step here.  Labels,     *)
(* canvas positions, criticality and refused attempts are left out.        *)
(***************************************************************************)
EXTENDS DependencyGraph

CONSTANTS
    Sources,      \* ids of monitored entities
    Absent,       \* no such node
    Logical       \* refId = null: a service or an external system

VARIABLES
    node,         \* topology_nodes: what each node stands for
    edges         \* service_dependencies

topology == <<node, edges>>

ASSUME SourcesAssumption == {Absent, Logical} \cap Sources = {}

\* What is on a map: dependencies are between its nodes, and a monitored entity is
\* on it once (the foreign keys and the unique index).
DrawnMaps ==
    {m \in [node : [NodeIds -> Sources \cup {Absent, Logical}], edges : Maps] :
        /\ \A e \in m.edges : m.node[e[1]] # Absent /\ m.node[e[2]] # Absent
        /\ \A a, b \in NodeIds : m.node[a] = m.node[b] /\ m.node[a] \in Sources => a = b}

Present == {n \in NodeIds : node[n] # Absent}

TopologyTypeOK ==
    /\ node \in [NodeIds -> Sources \cup {Absent, Logical}]
    /\ edges \subseteq Present \X Present
    /\ \A m, n \in NodeIds : node[m] = node[n] /\ node[m] \in Sources => m = n

Draw(map) == node = map.node /\ edges = map.edges

\* Logical nodes are not limited.
createNode(n, ref) ==
    /\ node[n] = Absent /\ ref \in Sources \cup {Logical}
    /\ ref \in Sources => \A m \in NodeIds : node[m] # ref
    /\ node' = [node EXCEPT ![n] = ref]
    /\ UNCHANGED edges

deleteNode_KeepsEdges(n) ==
    /\ n \in Present
    /\ node' = [node EXCEPT ![n] = Absent]
    /\ UNCHANGED edges

\* Its dependencies go with it (onDelete: Cascade).
deleteNode(n) ==
    /\ n \in Present
    /\ node' = [node EXCEPT ![n] = Absent]
    /\ edges' = {e \in edges : n \notin {e[1], e[2]}}

createDependency(parent, child) ==
    /\ parent # child /\ parent \in Present /\ child \in Present
    /\ <<parent, child>> \notin edges
    /\ edges' = edges \cup {<<parent, child>>}
    /\ UNCHANGED node

deleteDependency(parent, child) ==
    /\ <<parent, child>> \in edges
    /\ edges' = edges \ {<<parent, child>>}
    /\ UNCHANGED node

EditMap ==
    \/ \E n \in NodeIds : deleteNode(n) \/ \E ref \in Sources \cup {Logical} : createNode(n, ref)
    \/ \E m, n \in NodeIds : createDependency(m, n) \/ deleteDependency(m, n)
=============================================================================

--------------------------- MODULE DependencyGraph ---------------------------
(***************************************************************************)
(* The analysis of the dependency map (src/modules/topology/graph.ts and   *)
(* health.ts).  An edge <<parent, child>> reads "the parent depends on the *)
(* child".  Results are sets: the order in which a walk lists its nodes,   *)
(* and the coordinates inside a layer of the layout, are left out.         *)
(***************************************************************************)
EXTENDS Naturals, Sequences, FiniteSets

CONSTANT NodeIds

ASSUME NodeAssumption == IsFiniteSet(NodeIds)

buildIndex(edges, from) ==
    [n \in NodeIds |-> {m \in NodeIds :
        IF from = "parent" THEN <<n, m>> \in edges ELSE <<m, n>> \in edges}]

reach_ListsStart(start, next) ==
    LET walk[k \in Nat] ==
          IF k = 0 THEN next[start]
          ELSE walk[k - 1] \cup UNION {next[n] : n \in walk[k - 1]}
    IN  {n \in NodeIds : n \in walk[Cardinality(NodeIds)]}

\* The breadth-first walk, one round of the queue after another.
reach(start, next) ==
    LET walk[k \in Nat] ==
          IF k = 0 THEN {start}
          ELSE walk[k - 1] \cup UNION {next[n] : n \in walk[k - 1]}
    IN  {n \in NodeIds \ {start} : n \in walk[Cardinality(NodeIds)]}

blastRadius(edges, failed) == reach(failed, buildIndex(edges, "child"))

dependenciesOf(edges, node) == reach(node, buildIndex(edges, "parent"))

\* Only what a node depends on directly is looked at.
rootCauseCandidates(edges, unhealthy) ==
    {n \in unhealthy : buildIndex(edges, "parent")[n] \cap unhealthy = {}}

impactedNodes(edges, unhealthy) ==
    (UNION {blastRadius(edges, n) : n \in unhealthy}) \ unhealthy

-----------------------------------------------------------------------------
(* The layered layout *)

\* One step of the depth-first walk: s has the stack, the edges left to visit, the
\* nodes open and done, and the edges that close a cycle.
Visit(nodes, s) ==
    LET roots == nodes \ (s.open \cup s.done)
        top == Head(s.stack)
        out == {e \in s.left : e[1] = top}
        edge == CHOOSE e \in out : TRUE
        taken == [s EXCEPT !.left = @ \ {edge}]
        Open(t, n) == [t EXCEPT !.stack = <<n>> \o @, !.open = @ \cup {n}]
    IN  IF s.stack = <<>>
        THEN IF roots = {} THEN s ELSE Open(s, CHOOSE n \in roots : TRUE)
        ELSE IF out = {}
        THEN [s EXCEPT !.stack = Tail(@), !.open = @ \ {top}, !.done = @ \cup {top}]
        ELSE IF edge[2] \in s.open THEN [taken EXCEPT !.back = @ \cup {edge}]
        ELSE IF edge[2] \in s.done THEN taken
        ELSE Open(taken, edge[2])

\* Every node is opened and closed once, and every edge taken once.
backEdges(nodes, edges) ==
    LET start == [stack |-> <<>>, left |-> edges, open |-> {}, done |-> {}, back |-> {}]
        walk[k \in Nat] == IF k = 0 THEN start ELSE Visit(nodes, walk[k - 1])
    IN  walk[Cardinality(edges) + 2 * Cardinality(nodes)].back

\* One node of Kahn's topological order: its children are put below it, and
\* those without another parent left are next.
Layer(nodes, next, s) ==
    LET node == CHOOSE n \in s.queue : TRUE
        left == [n \in nodes |-> IF n \in next[node] THEN s.indegree[n] - 1 ELSE s.indegree[n]]
    IN  IF s.queue = {} THEN s
        ELSE [queue |-> (s.queue \ {node}) \cup {n \in next[node] : left[n] = 0},
              indegree |-> left,
              layer |-> [n \in nodes |->
                 IF n \in next[node] /\ s.layer[n] < s.layer[node] + 1
                 THEN s.layer[node] + 1 ELSE s.layer[n]]]

\* The longest path from a top-level node.
longestPaths(nodes, dag) ==
    LET next == buildIndex(dag, "parent")
        indegree == [n \in nodes |-> Cardinality({e \in dag : e[2] = n})]
        start == [queue |-> {n \in nodes : indegree[n] = 0}, indegree |-> indegree,
                  layer |-> [n \in nodes |-> 0]]
        walk[k \in Nat] == IF k = 0 THEN start ELSE Layer(nodes, next, walk[k - 1])
    IN  walk[Cardinality(nodes)].layer

\* The row of every node; those without any dependency share one at the bottom.
layeredLayout(nodes, edges) ==
    LET valid == {e \in edges : e[1] \in nodes /\ e[2] \in nodes /\ e[1] # e[2]}
        layer == longestPaths(nodes, valid \ backEdges(nodes, valid))
        connected == {e[1] : e \in valid} \cup {e[2] : e \in valid}
    IN  [n \in nodes |-> IF n \in connected THEN layer[n]
                         ELSE Cardinality({layer[m] : m \in connected})]

-----------------------------------------------------------------------------
(* What the algorithms compute *)

\* b is in every set that holds what a depends on and is closed under edges.
Depends(edges, a, b) ==
    \A S \in SUBSET NodeIds :
        (\A e \in edges : e[1] = a \/ e[1] \in S => e[2] \in S) => b \in S

Acyclic(edges) == \A n \in NodeIds : ~ Depends(edges, n, n)
Maps == SUBSET {e \in NodeIds \X NodeIds : e[1] # e[2]}

\* The blast radius of a node is what depends on it, its dependencies what it
\* depends on, and the impacted nodes the healthy ones that depend on an unhealthy.
WalksComplete(edges) ==
    /\ \A n \in NodeIds :
          /\ blastRadius(edges, n) = {m \in NodeIds \ {n} : Depends(edges, m, n)}
          /\ dependenciesOf(edges, n) = {m \in NodeIds \ {n} : Depends(edges, n, m)}
    /\ \A bad \in SUBSET NodeIds : impactedNodes(edges, bad) =
          {m \in NodeIds \ bad : \E n \in bad : Depends(edges, m, n)}

\* Arrows point down in the layout, except edges that close a cycle.
PointsDown(edges) ==
    LET back == backEdges(NodeIds, edges)
        row == layeredLayout(NodeIds, edges)
    IN  /\ \A e \in edges \ back : row[e[1]] < row[e[2]]
        /\ \A e \in back : Depends(edges, e[2], e[1])

\* Every unhealthy node is a root-cause candidate or depends on one.
Explained(edges) ==
    \A bad \in SUBSET NodeIds : \A n \in bad :
        LET roots == rootCauseCandidates(edges, bad)
        IN  n \in roots \/ \E r \in roots : Depends(edges, n, r)
=============================================================================

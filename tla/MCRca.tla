-------------------------------- MODULE MCRca --------------------------------
(* A small instance of Rca for TLC. *)
EXTENDS Rca

MCSourceOf == [i \in Incidents |-> IF i = "i1" THEN "web" ELSE "db"]

\* web and db with a service between them, or in a cycle.
MCNode == [n \in NodeIds |-> CASE n = "n1" -> "web" [] n = "n2" -> Logical [] n = "n3" -> "db"
                              [] OTHER -> Absent]
MCChain == [node |-> MCNode, edges |-> {<<"n1", "n2">>, <<"n2", "n3">>}]
MCCycle == [node |-> MCNode, edges |-> {<<"n1", "n3">>, <<"n3", "n1">>}]

MCScenarios ==
    \* two incidents and a worker, opened by one request or by two
    [map : {MCChain}, incidents : {{"i1", "i2"}}, analyses : {{"p1"}}, workers : {{"w1"}},
     requests : {2}, edits : {0}, faults : {0}]
    \cup
    [map : {MCCycle}, incidents : {{"i1", "i2"}}, analyses : {{"p1"}}, workers : {{"w1"}},
     requests : {1}, edits : {0}, faults : {1}]
    \cup \* two incidents, overlapping requests, an edit
    [map : {MCChain}, incidents : {{"i1", "i2"}}, analyses : {{"p1", "p2"}},
     workers : {{}}, requests : {2}, edits : {1}, faults : {1}]
    \cup \* one incident, overlapping requests and a worker
    [map : {MCChain}, incidents : {{"i1"}}, analyses : {{"p1", "p2"}}, workers : {{"w1"}},
     requests : {2}, edits : {1}, faults : {0}]
    \cup \* every map, and no incident
    [map : [node : {[n \in NodeIds |-> Logical]}, edges : Maps], incidents : {{}},
     analyses : {{}}, workers : {{}}, requests : {0}, edits : {0}, faults : {0}]
    \cup \* one incident, analysed again, and two workers
    [map : {MCChain}, incidents : {{"i1"}}, analyses : {{"p1"}}, workers : {{"w1", "w2"}},
     requests : {2}, edits : {0}, faults : {1}]
=============================================================================

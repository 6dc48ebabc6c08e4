--------------------------- MODULE MCAlertEngine ---------------------------
(* Small instances of AlertEngine for TLC. *)
EXTENDS AlertEngine, TLC

CONSTANTS cpu, disk, core, root, home  \* model values the sets below name

CpuOnly == [metric : {cpu}, instance : {core}]
TwoMounts == [metric : {disk}, instance : {root, home}]

\* Threshold rules on high values of metric m: one member, as a set of records.
Rule(m, duration, cooldown, notifies) ==
    [metric : {m}, source : {None}, instance : {None}, op : {"GTE"}, threshold : {1},
     anomaly : {FALSE}, duration : {duration}, cooldown : {cooldown}, notifies : {notifies}]

Quiet == Rule(cpu, 0, 1, FALSE)
Loud == Rule(cpu, 0, 2, TRUE)
\* A threshold that is a floor for an anomaly, and a rule on one mount point.
Mixed ==
    {[set EXCEPT !.anomaly = TRUE] : set \in Rule(disk, 0, 1, TRUE)}
        \cup {[set EXCEPT !.instance = root, !.op = "GT", !.threshold = 0] :
                  set \in Rule(disk, 1, 1, FALSE)}

LowNormal == [median : {0}, band : {2}]

Symmetry == Permutations(Evaluators)
=============================================================================

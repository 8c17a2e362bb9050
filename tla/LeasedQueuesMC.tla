--------------------------- MODULE LeasedQueuesMC ---------------------------
(***************************************************************************)
(* The leased queues for TLC: the jobs, attempts and mishaps of each.      *)
(***************************************************************************)
EXTENDS LeasedQueues, TLC

CONSTANTS r1, r2, volume, p1, o1, scan, a, b

MCWorkerId == [w \in Workers |-> "spatial-worker-local"]

\* Two render jobs compete for a volume that has room for one, or for two.
MCJobsOf ==
    [renders |-> {r1, r2}, scenes |-> {1}, captures |-> {scan}, plans |-> {p1}, options |-> {o1},
     fusions |-> {1}]

MCAttemptsOf ==
    [renders |-> 2, scenes |-> 3, captures |-> 2, plans |-> 3, options |-> 2, fusions |-> 2]

MCMishapsOf ==
    [renders |-> 1, scenes |-> 2, captures |-> 1, plans |-> 1, options |-> 2, fusions |-> 1]

MCVolumeOf == [w \in Workers |-> volume]

MCEstimate == [j \in {r1, r2} |-> 1]

MCArtifactsOf == [s \in {scan} |-> {a, b}]

\* Of the fusion's sources one may lose its rights.
MCSourcesOf == [j \in {1} |-> {scan}]

Symmetry == Permutations(Workers) \cup Permutations({r1, r2}) \cup Permutations({a, b})
=============================================================================

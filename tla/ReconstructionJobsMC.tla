------------------------ MODULE ReconstructionJobsMC ------------------------
(***************************************************************************)
(* Instances of ReconstructionJobs for TLC: every job is made from all the *)
(* assets, so that withdrawals meet on it.                                 *)
(***************************************************************************)
EXTENDS ReconstructionJobs, TLC

MCSourcesOf == [j \in Jobs |-> Assets]

Symmetry == Permutations(Workers) \cup Permutations(Assets)

=============================================================================

----------------------- MODULE ReconstructionStampsMC -----------------------
(***************************************************************************)
(* Instances of ReconstructionStamps for TLC: an API server and a worker.  *)
(***************************************************************************)
EXTENDS ReconstructionStamps, TLC

CONSTANTS api, worker

MCHosts == {api, worker}

Symmetry == Permutations(MCHosts)

=============================================================================

-------------------------- MODULE AssetProcessingMC --------------------------
(***************************************************************************)
(* Instances of AssetProcessing for TLC: worker processes that share the   *)
(* default C2_WORKER_ID.                                                   *)
(***************************************************************************)
EXTENDS AssetProcessing

MCWorkerId == [w \in Workers |-> "spatial-worker-local"]

=============================================================================

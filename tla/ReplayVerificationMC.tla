------------------------- MODULE ReplayVerificationMC -------------------------
(***************************************************************************)
(* An instance of ReplayVerification for TLC.                              *)
(***************************************************************************)
EXTENDS ReplayVerification, SmallHome

MCReduce == HomeReduce(Blocked)

=============================================================================

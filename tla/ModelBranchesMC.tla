--------------------------- MODULE ModelBranchesMC ---------------------------
(***************************************************************************)
(* Instances of ModelBranches for TLC.                                     *)
(***************************************************************************)
EXTENDS ModelBranches, SmallHome, FiniteSets, TLC

MCReduce == HomeReduce(Blocked)

Symmetry == Permutations(Actors)

\* Keys are interchangeable until they are used: numbered by first use.
KeysInOrder == DOMAIN idempotency = 1..Cardinality(DOMAIN idempotency)

\* The cleanup command is run again and again.
CleanedSpec == Spec /\ WF_vars(CleanupExpiredPreviews)

\* "Expired previews are the only deletable C5 records", and cleanup-previews
\* deletes them: a preview that was never committed goes away once expired.
ExpiredPreviewsGo ==
    \A p \in PreviewIds :
        p \in dbExpired ~> p \notin DOMAIN previews \/ p \in CommittedPreviews

=============================================================================

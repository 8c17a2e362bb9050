-------------------------- MODULE ReplayVerification --------------------------
(***************************************************************************)
(* verify-replay, the maintenance command of the C5 repository, running    *)
(* while clients commit.  verifyReplay takes no lock, and its transaction  *)
(* is PostgreSQL's default READ COMMITTED, where every statement sees what *)
(* is committed when the statement starts: the branch row is read by one   *)
(* statement and the commits by a later one.                               *)
(***************************************************************************)
EXTENDS ModelBranches, FiniteSets

VARIABLE verification   \* the branch row verifyReplay has read, its verdict

allVars == <<vars, verification>>

Idle == [branch |-> None, verdict |-> None]

\* loadBranch(transaction, scope, false): no FOR UPDATE.
LoadBranch(b) ==
    /\ verification = Idle
    /\ b \in DOMAIN branches
    /\ verification' = [branch |-> b, head |-> HeadContent(b),
                        revision |-> branches[b].revision, verdict |-> None]
    /\ UNCHANGED vars

\* The SELECTs of commits and envelopes, the replay, and the comparison of its
\* result with the branch row read before.
ReplayHistory ==
    LET b == verification.branch
        read == RevisionsOf(b)
        count == Cardinality(read)
        verified == /\ read = 1..count
                    /\ \A r \in read : EnvelopeReplays(b, r)
                    /\ ContentBefore(b, count + 1) = verification.head
                    /\ count = verification.revision
    IN  /\ b # None /\ verification.verdict = None
        /\ verification' = [verification EXCEPT !.verdict = verified]
        /\ UNCHANGED vars

Forget ==
    /\ verification.verdict # None
    /\ verification' = Idle
    /\ UNCHANGED vars

VerificationInit == Init /\ verification = Idle

VerificationNext ==
    \/ Next /\ UNCHANGED verification
    \/ \E b \in BranchIds : LoadBranch(b)
    \/ ReplayHistory
    \/ Forget

VerificationSpec == VerificationInit /\ [][VerificationNext]_allVars

-----------------------------------------------------------------------------
\* "Unknown versions, missing operations, tampered sources and hash mismatches
\* fail the command": a history that is intact does not.
IntactHistoryIsVerified == verification.verdict # FALSE
=============================================================================

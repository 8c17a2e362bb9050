------------------------ MODULE ReconstructionStamps ------------------------
(***************************************************************************)
(* The updated_at columns of a C8 reconstruction job and of its current    *)
(* attempt.  The triggers of the migration raise an exception, and so roll *)
(* back the whole transaction, unless every update moves updated_at        *)
(* forward; the handlers compute it with nextTimestamp from the clock of   *)
(* the host they run on.  The rest of the rows is in ReconstructionJobs.   *)
(***************************************************************************)
EXTENDS Integers

CONSTANTS
    Hosts,         \* the API servers and the spatial workers
    MaximumTime    \* bound: milliseconds the clocks and the stamps go to

ASSUME StampsAssumption == MaximumTime \in Nat /\ Hosts # {}

VARIABLES
    clock,         \* Date.now() of a host
    state,         \* of the attempt, and of the job as far as it matters
    jobStamp,      \* reconstruction_jobs.updated_at
    attemptStamp   \* reconstruction_attempts.updated_at

vars == <<clock, state, jobStamp, attemptStamp>>

Later(s, t) == IF s > t THEN s ELSE t

\* nextTimestamp: the clock's, but after the previous one.
NextTimestamp(h, previous) == Later(clock[h], previous + 1)

-----------------------------------------------------------------------------
(* The stamps of the handlers: what each passes for "previous".            *)

\* #transition and publishResult: the job's.
TransitionStamp(h) == NextTimestamp(h, jobStamp)

\* advanceAttempt, heartbeatAttempt, failAttempt, acknowledgeCancellation: the
\* attempt's.
AttemptStampOfJob(h) == NextTimestamp(h, jobStamp)

AttemptStamp(h) == NextTimestamp(h, attemptStamp)

\* claimNext: the later of the two.
ClaimStampOfJob(h) == NextTimestamp(h, jobStamp)

ClaimStamp(h) == NextTimestamp(h, Later(jobStamp, attemptStamp))

\* withdrawSource: nothing.
WithdrawalStamp(h) == clock[h]

-----------------------------------------------------------------------------

\* NEW.updated_at > OLD.updated_at in both triggers.
Passes(stamp) == stamp > jobStamp /\ stamp > attemptStamp

\* Both rows are written with one stamp, if both triggers let it pass.
Write(stamp, next) ==
    /\ Passes(stamp)
    /\ stamp <= MaximumTime
    /\ jobStamp' = stamp /\ attemptStamp' = stamp
    /\ state' = next
    /\ UNCHANGED clock

Init ==
    /\ clock \in [Hosts -> {0}]
    /\ state = "absent"
    /\ jobStamp = 0 /\ attemptStamp = 0

\* The hosts' clocks run by themselves.
Tick(h) ==
    /\ clock[h] < MaximumTime
    /\ clock' = [clock EXCEPT ![h] = @ + 1]
    /\ UNCHANGED <<state, jobStamp, attemptStamp>>

\* createJob inserts both rows.
Create(h) ==
    /\ state = "absent"
    /\ jobStamp' = clock[h] /\ attemptStamp' = clock[h]
    /\ state' = "queued"
    /\ UNCHANGED clock

\* #transition(retry): the job is updated, its next attempt inserted.
Retry(h) ==
    /\ state = "ended"
    /\ TransitionStamp(h) <= MaximumTime
    /\ jobStamp' = TransitionStamp(h) /\ attemptStamp' = TransitionStamp(h)
    /\ state' = "queued"
    /\ UNCHANGED clock

Cancel(h) ==
    \/ state = "queued" /\ Write(TransitionStamp(h), "ended")
    \/ state = "leased" /\ Write(TransitionStamp(h), "cancel-requested")

Withdraw(h) ==
    \/ state = "queued" /\ Write(WithdrawalStamp(h), "ended")
    \/ state = "leased" /\ Write(WithdrawalStamp(h), "cancel-requested")

\* A lease, a new lease of a lapsed one, or the end of a cancelled one or of
\* one whose sources are withdrawn.
Claim(h) ==
    \/ state \in {"queued", "leased"} /\ Write(ClaimStamp(h), "leased")
    \/ state \in {"queued", "leased", "cancel-requested"} /\ Write(ClaimStamp(h), "ended")

Publish(h) == state = "leased" /\ Write(TransitionStamp(h), "ended")

AdvanceFailOrAcknowledge(h) ==
    \/ state = "leased" /\ Write(AttemptStamp(h), "leased")
    \/ state \in {"leased", "cancel-requested"} /\ Write(AttemptStamp(h), "ended")

\* heartbeatAttempt writes the attempt only.
Heartbeat(h) ==
    /\ state = "leased"
    /\ AttemptStamp(h) <= MaximumTime
    /\ attemptStamp' = AttemptStamp(h)
    /\ UNCHANGED <<clock, state, jobStamp>>

Next ==
    \E h \in Hosts :
        \/ Tick(h) \/ Create(h) \/ Retry(h) \/ Cancel(h) \/ Withdraw(h)
        \/ Claim(h) \/ Publish(h) \/ AdvanceFailOrAcknowledge(h) \/ Heartbeat(h)

Spec == Init /\ [][Next]_vars

-----------------------------------------------------------------------------

TypeOK ==
    /\ clock \in [Hosts -> Nat]
    /\ state \in {"absent", "queued", "leased", "cancel-requested", "ended"}
    /\ jobStamp \in Nat /\ attemptStamp \in Nat

\* The job's row is never stamped later than its attempt's, whichever hosts
\* wrote them: what the methods that look at the attempt only rely on.
JobNeverAheadOfItsAttempt ==
    /\ jobStamp <= attemptStamp
    /\ state = "queued" => jobStamp = attemptStamp

\* However the hosts' clocks differ, the triggers never refuse the stamp of a
\* worker that claims, advances, renews, fails or acknowledges, nor that of the
\* cancellation of a job no worker has yet.
StampsPass ==
    \A h \in Hosts :
        /\ Passes(ClaimStamp(h)) /\ Passes(AttemptStamp(h))
        /\ state = "queued" => Passes(TransitionStamp(h))

\* "Cancellation from any leased stage becomes `cancel-requested`"
\* (c8-reconstruction.md): the triggers never refuse it.
CancellationsPass ==
    \A h \in Hosts :
        state = "leased" => Passes(TransitionStamp(h))
=============================================================================

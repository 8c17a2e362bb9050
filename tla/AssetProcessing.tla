--------------------------- MODULE AssetProcessing ---------------------------
(***************************************************************************)
(* The C2 processing jobs: the leased queue in PostgreSQL                  *)
(* (PostgresProcessingJobRepository of the spatial worker) and the runner  *)
(* of every worker process (SpatialWorkerRunner).                          *)
(*                                                                         *)
(* Every repository method is one transaction on the locked job row, so it *)
(* is one action.  Between two of them a worker may be slow, lose its      *)
(* lease to the clock and to another worker, fail, or stop; a transaction  *)
(* may commit although its caller sees an error.  All times compared are   *)
(* the database's clock_timestamp(): a lease lapses, and a retry becomes   *)
(* due, at some moment.  A successful renewal only puts that moment off,   *)
(* so it changes nothing here.                                             *)
(***************************************************************************)
EXTENDS Naturals

CONSTANTS
    Workers,          \* worker processes
    Owners,           \* values of C2_WORKER_ID
    WorkerId,         \* that of each worker; it has a default, so processes
                      \* may share it
    Jobs,             \* processing jobs; an asset has exactly one
    InvalidJobs,      \* jobs whose stored command no longer parses
    MaximumAttempts,  \* maximum_attempts
    Kinds,            \* kinds of derived artifacts of a ready asset
    Manifest,         \* the kind that records executedAt
    Outcomes,         \* statuses a processing result may have
    None              \* an absent value

ASSUME JobsAssumption ==
    /\ MaximumAttempts \in Nat \ {0}
    /\ InvalidJobs \subseteq Jobs
    /\ WorkerId \in [Workers -> Owners]
    /\ "ready" \in Outcomes /\ None \notin Owners \cup Outcomes

VARIABLES
    job,          \* asset_processing_jobs
    asset,        \* assets.status, of the asset of a job
    registered,   \* derived_asset_artifacts
    derived,      \* object keys in the derived bucket
    worker        \* what each worker is executing

vars == <<job, asset, registered, derived, worker>>

-----------------------------------------------------------------------------
(* Rows.  Each claim increments attempt_count and draws a fresh UUID as    *)
(* lease_token: the number of the claim stands for both the token and the  *)
(* moment of the claim; 0 is NULL.                                         *)

Claims == 0..MaximumAttempts

NoLease == [owner |-> None, token |-> 0, lapsed |-> FALSE]

Lease == [owner : Owners \cup {None}, token : Claims, lapsed : BOOLEAN]

Job ==
    [status : {"absent", "queued", "leased", "retryable", "succeeded", "failed"},
     attempts : Claims, lease : Lease, due : BOOLEAN,
     started : Claims,                   \* processing_started_at
     result : Outcomes \cup {None},
     completedBy : Claims]               \* the claim whose worker completed

Idle == [phase |-> "idle"]

Execution ==
    [phase : {"processing", "writing", "failing"}, job : Jobs, token : Claims,
     started : Claims, outcome : Outcomes \cup {None},
     lost : BOOLEAN]                     \* leaseController has been aborted

Settled == {"succeeded", "failed"}

\* The key of a derived object is made of its content; only the manifest's
\* content holds executedAt, the start of the execution.
Key(j, kind, started) == <<j, kind, IF kind = Manifest THEN started ELSE 0>>

\* What the result of an execution lists, and #execute writes.
Artifacts(e) ==
    IF e.outcome = "ready" THEN {Key(e.job, kind, e.started) : kind \in Kinds} ELSE {}

\* An execution has written all its objects.
WroteSomething(e) == Artifacts(e) = {} \/ Artifacts(e) \cap derived # {}

WroteEverything(e) == Artifacts(e) \subseteq derived

\* The WHERE of renew, complete and retry: the lease of this very claim.
HoldsByOwner(w) ==
    /\ job[worker[w].job].status = "leased"
    /\ job[worker[w].job].lease.owner = WorkerId[w]
    /\ ~job[worker[w].job].lease.lapsed

Holds(w) ==
    /\ job[worker[w].job].status = "leased"
    /\ job[worker[w].job].lease.owner = WorkerId[w]
    /\ job[worker[w].job].lease.token = worker[w].token
    /\ ~job[worker[w].job].lease.lapsed

-----------------------------------------------------------------------------
(* The repository.                                                         *)

\* completeUpload inserts the job with the transition of the asset.
Enqueue(j) ==
    /\ job[j].status = "absent"
    /\ job' = [job EXCEPT ![j].status = "queued"]
    /\ asset' = [asset EXCEPT ![j] = "uploaded"]
    /\ UNCHANGED <<registered, derived, worker>>

\* The candidates of a claim.
ClaimableIfDue(j) ==
    /\ job[j].attempts < MaximumAttempts
    /\ job[j].status \in {"queued", "retryable"} /\ job[j].due

Claimable(j) ==
    /\ job[j].attempts < MaximumAttempts
    /\ \/ job[j].status \in {"queued", "retryable"} /\ job[j].due
       \/ job[j].status = "leased" /\ job[j].lease.lapsed

\* COALESCE(processing_started_at, clock_timestamp()).
StartedNow(j) == job[j].attempts + 1

Started(j) == IF job[j].started = 0 THEN job[j].attempts + 1 ELSE job[j].started

\* claim: a lease with a fresh token, and the asset in processing.
Claim(w, j) ==
    LET claim == job[j].attempts + 1
    IN  /\ worker[w] = Idle
        /\ Claimable(j)
        /\ j \notin InvalidJobs
        /\ asset[j] \in {"uploaded", "processing"}
        /\ job' = [job EXCEPT ![j] =
              [@ EXCEPT !.status = "leased", !.attempts = claim, !.started = Started(j),
                        !.lease = [owner |-> WorkerId[w], token |-> claim, lapsed |-> FALSE]]]
        /\ asset' = [asset EXCEPT ![j] = "processing"]
        /\ worker' = [worker EXCEPT ![w] =
              [phase |-> "processing", job |-> j, token |-> claim, started |-> Started(j),
               outcome |-> None, lost |-> FALSE]]
        /\ UNCHANGED <<registered, derived>>

\* The asset of a job that fails.
RejectedNever(j) == asset[j]

Rejected(j) == IF asset[j] \in {"uploaded", "processing"} THEN "rejected" ELSE asset[j]

\* claim of a job whose command does not parse: no lease, the job fails and
\* the asset, by way of processing, is rejected.
RejectInvalidCommand(w, j) ==
    /\ worker[w] = Idle
    /\ Claimable(j)
    /\ j \in InvalidJobs
    /\ job' = [job EXCEPT ![j].status = "failed"]
    /\ asset' = [asset EXCEPT ![j] = Rejected(j)]
    /\ UNCHANGED <<registered, derived, worker>>

\* A job row released from its lease.
Released(j, status) == [job[j] EXCEPT !.status = status, !.lease = NoLease]

\* complete, by the holder of the lease: artifacts, asset and job at once.
CommitResult(w) ==
    LET e == worker[w]
    IN  /\ Holds(w)
        /\ asset[e.job] = "processing"
        /\ registered' = registered \cup Artifacts(e)
        /\ asset' = [asset EXCEPT ![e.job] = e.outcome]
        /\ job' = [job EXCEPT ![e.job] =
              [Released(e.job, "succeeded") EXCEPT !.result = e.outcome,
                                                   !.completedBy = e.token]]
        /\ UNCHANGED derived

\* The updates of retry: another attempt, or the job fails and its asset is
\* rejected.
RecordFailure(w) ==
    LET j == worker[w].job
    IN  /\ \/ /\ job[j].attempts < MaximumAttempts
              /\ job' = [job EXCEPT ![j] = [Released(j, "retryable") EXCEPT !.due = FALSE]]
              /\ UNCHANGED asset
           \/ /\ job[j].attempts >= MaximumAttempts
              /\ job' = [job EXCEPT ![j] = Released(j, "failed")]
              /\ asset' = [asset EXCEPT ![j] = Rejected(j)]
        /\ UNCHANGED <<registered, derived>>

\* retry, by the holder of the lease.
CommitRetry(w) == Holds(w) /\ RecordFailure(w)

\* The database's clock.
LeaseLapses(j) ==
    /\ job[j].status = "leased" /\ ~job[j].lease.lapsed
    /\ job' = [job EXCEPT ![j].lease.lapsed = TRUE]
    /\ UNCHANGED <<asset, registered, derived, worker>>

BecomesDue(j) ==
    /\ job[j].status = "retryable" /\ ~job[j].due
    /\ job' = [job EXCEPT ![j].due = TRUE]
    /\ UNCHANGED <<asset, registered, derived, worker>>

-----------------------------------------------------------------------------
(* The runner: #execute of a claimed job, with its heartbeat.              *)

Goes(w, phase) == worker' = [worker EXCEPT ![w].phase = phase]
Stops(w) == worker' = [worker EXCEPT ![w] = Idle]
InPhase(w, phase) == worker[w].phase = phase

\* The processor has prepared a result; the lease is renewed before anything
\* is written.
Prepare(w, outcome) ==
    /\ InPhase(w, "processing")
    /\ ~worker[w].lost /\ Holds(w)
    /\ worker' = [worker EXCEPT ![w] = [@ EXCEPT !.phase = "writing", !.outcome = outcome]]
    /\ UNCHANGED <<job, asset, registered, derived>>

\* putDerivedIfAbsent of one artifact; an equal object may be there already.
Write(w) ==
    /\ InPhase(w, "writing")
    /\ ~worker[w].lost
    /\ \E key \in Artifacts(worker[w]) \ derived : derived' = derived \cup {key}
    /\ UNCHANGED <<job, asset, registered, worker>>

\* complete; answered is FALSE when it commits but the runner sees an error.
Complete(w, answered) ==
    /\ InPhase(w, "writing")
    /\ WroteEverything(worker[w])
    /\ CommitResult(w)
    /\ IF answered THEN Stops(w) ELSE Goes(w, "failing")

\* The processor, the storage or the database fails; a renewal or a commit
\* that fails this way has not taken effect.
Fail(w) ==
    /\ worker[w].phase \in {"processing", "writing"} /\ ~worker[w].lost
    /\ Goes(w, "failing")
    /\ UNCHANGED <<job, asset, registered, derived>>

Retry(w) ==
    /\ InPhase(w, "failing")
    /\ CommitRetry(w)
    /\ Stops(w)

\* The heartbeat finds the lease lost, or cannot reach the database.
HeartbeatFails(w) ==
    /\ worker[w] # Idle /\ ~worker[w].lost
    /\ worker' = [worker EXCEPT ![w].lost = TRUE]
    /\ UNCHANGED <<job, asset, registered, derived>>

\* LeaseLostError, and retry's "lost": the execution ends and leaves the job
\* to its lease.  Only a completion or retry already on its way is not
\* stopped.
Abandon(w) ==
    /\ worker[w] # Idle
    /\ \/ ~Holds(w)
       \/ /\ worker[w].lost /\ ~InPhase(w, "failing")
          /\ ~(InPhase(w, "writing") /\ WroteEverything(worker[w]))
    /\ Stops(w)
    /\ UNCHANGED <<job, asset, registered, derived>>

\* A crash or a shutdown, or an error of retry itself, at any point.
Stop(w) ==
    /\ worker[w] # Idle
    /\ Stops(w)
    /\ UNCHANGED <<job, asset, registered, derived>>

-----------------------------------------------------------------------------
Init ==
    /\ job = [j \in Jobs |->
          [status |-> "absent", attempts |-> 0, lease |-> NoLease, due |-> TRUE,
           started |-> 0, result |-> None, completedBy |-> 0]]
    /\ asset = [j \in Jobs |-> "uploading"]
    /\ registered = {}
    /\ derived = {}
    /\ worker = [w \in Workers |-> Idle]

RunnerStep(w) ==
    \/ \E outcome \in Outcomes : Prepare(w, outcome)
    \/ Write(w)
    \/ \E answered \in BOOLEAN : Complete(w, answered)
    \/ Retry(w)
    \/ Abandon(w)

Next ==
    \/ \E j \in Jobs : Enqueue(j) \/ LeaseLapses(j) \/ BecomesDue(j)
    \/ \E w \in Workers, j \in Jobs : Claim(w, j) \/ RejectInvalidCommand(w, j)
    \/ \E w \in Workers : RunnerStep(w) \/ Fail(w) \/ HeartbeatFails(w) \/ Stop(w)

Spec == Init /\ [][Next]_vars

\* A running worker polls and takes its next step, subprocesses and requests
\* having deadlines; time passes; and the lease of an execution that has
\* ended is renewed by nobody.
Executing(j) == \E w \in Workers : worker[w] # Idle /\ worker[w].job = j /\ Holds(w)

Fairness ==
    /\ \A w \in Workers : WF_vars(RunnerStep(w))
    /\ \A j \in Jobs :
          /\ WF_vars(\E w \in Workers : Claim(w, j) \/ RejectInvalidCommand(w, j))
          /\ WF_vars(BecomesDue(j))
          /\ WF_vars(LeaseLapses(j) /\ ~Executing(j))

FairSpec == Spec /\ Fairness

-----------------------------------------------------------------------------
(* Properties.                                                             *)

TypeOK ==
    /\ job \in [Jobs -> Job]
    /\ asset \in [Jobs -> {"uploading", "uploaded", "processing", "rejected"} \cup Outcomes]
    /\ registered \cup derived \subseteq Jobs \X Kinds \X Claims
    /\ worker \in [Workers -> {Idle} \cup Execution]

\* "Lease-token fencing prevents a stale worker from committing after another
\* attempt takes ownership": what is recorded is the result of the last claim.
OnlyTheLastClaimDecides ==
    \A j \in Jobs : job[j].status = "succeeded" => job[j].completedBy = job[j].attempts

\* No two executions of a job hold its lease, however slow the first one is.
OneHolder ==
    \A v, w \in Workers :
        (/\ worker[v] # Idle /\ worker[w] # Idle
         /\ worker[v].job = worker[w].job
         /\ Holds(v) /\ Holds(w)) => v = w

\* The two rows that users and workers read agree: an asset is in processing
\* as long as its job can still be worked on, and ends as its job did.
AssetFollowsJob ==
    \A j \in Jobs :
        CASE job[j].status = "absent" -> asset[j] = "uploading"
          [] job[j].status = "queued" -> asset[j] = "uploaded"
          [] job[j].status \in {"leased", "retryable"} -> asset[j] = "processing"
          [] job[j].status = "succeeded" -> asset[j] = job[j].result
          [] job[j].status = "failed" -> asset[j] = "rejected"

\* An artifact that access can be signed for is in the bucket, and an asset is
\* ready exactly with all of its artifacts.
ReadyAssetsAreComplete ==
    \A j \in Jobs :
        {key \in registered : key[1] = j} =
            IF job[j].result = "ready"
            THEN {key \in derived : key[1] = j /\ key[2] \in Kinds}
            ELSE {}

\* "The content-addressed manifest is idempotent": however often an execution
\* is repeated, an asset has at most one derived object of each kind.
RetriesWriteTheSameObjects ==
    \A k, l \in derived : k[1] = l[1] /\ k[2] = l[2] => k = l

\* What was decided is never reopened or changed, by whatever comes late.
SettledForGood ==
    [][\A j \in Jobs : job[j].status \in Settled =>
          job'[j] = job[j] /\ asset'[j] = asset[j]]_vars

\* A job that waits for its next claim is still under way.
Status(status) ==
    CASE status = "queued" -> "waiting"
      [] status \in {"leased", "retryable"} -> "working"
      [] status = "succeeded" -> "done"
      [] OTHER -> status

\* An asset's job is inserted once, whatever its result was made under.
View ==
    [j \in Jobs |->
        [status |-> Status(job[j].status), attempt |-> IF job[j].status = "absent" THEN 0 ELSE 1,
         claims |-> job[j].attempts,
         output |-> IF job[j].status = "succeeded" THEN <<1, job[j].completedBy>> ELSE <<0, 0>>]]

Leased == INSTANCE LeasedJobs WITH view <- View, MaximumAttempts <- 1

\* The queue keeps the promises of LeasedJobs for jobs that are tried once:
\* what is recorded is the work of the last claim.
ImplementsLeasedJobs == Leased!Spec

\* A job whose last attempt ended without an answer.
Stranded(j) ==
    /\ job[j].status = "leased" /\ job[j].lease.lapsed
    /\ job[j].attempts = MaximumAttempts

\* Crashes, lost leases and failures never park a job for good while it has
\* attempts left.
JobsSettleOrStrand ==
    \A j \in Jobs : job[j].status = "queued" ~> job[j].status \in Settled \/ Stranded(j)

\* "An exhausted job becomes failed and rejects the asset".
ExhaustedJobsFail ==
    \A j \in Jobs : job[j].attempts = MaximumAttempts ~> job[j].status \in Settled
=============================================================================

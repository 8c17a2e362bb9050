------------------------- MODULE ReconstructionJobs -------------------------
(***************************************************************************)
(* The C8 reconstruction jobs: the leased queue in PostgreSQL              *)
(* (PostgresReconstructionRepository) and the runner of every spatial      *)
(* worker (ReconstructionProcessingRunner).                                *)
(*                                                                         *)
(* A repository method is one transaction.  It is one action when what it  *)
(* writes depends only on rows it has locked.  create, retry, claimNext    *)
(* and publishResult also read rights withdrawals, which no lock of theirs *)
(* covers, and withdrawSource picks its jobs before it waits for their     *)
(* locks: these are two actions or three, and any transaction may roll     *)
(* back instead of committing (a lost connection, or PostgreSQL's choice   *)
(* among transactions that wait for one another).                          *)
(*                                                                         *)
(* Refused and replayed requests (Idempotency-Key, expectedVersion) change *)
(* nothing and are left out, as are the audit and outbox rows every        *)
(* transaction appends.  Timestamps are in ReconstructionStamps.           *)
(***************************************************************************)
EXTENDS Integers, Sequences

CONSTANTS
    Workers,          \* worker processes
    Jobs,             \* reconstruction jobs that may be created
    Assets,           \* C2 assets
    SourcesOf,        \* the assets of a job
    OptionalAppearance, \* jobs whose appearanceMode is "optional"
    MaximumAttempts,  \* c8ReconstructionPolicy.maximumAttempts
    MaximumMishaps    \* bound: claims of one attempt that may end without
                      \* the worker's word (it stops, or its lease lapses)

ASSUME ReconstructionAssumption ==
    /\ MaximumAttempts \in Nat \ {0} /\ MaximumMishaps \in Nat
    /\ SourcesOf \in [Jobs -> (SUBSET Assets) \ {{}}]
    /\ OptionalAppearance \subseteq Jobs

VARIABLES
    job,          \* reconstruction_jobs
    attempts,     \* reconstruction_attempts of a job, by attempt
    results,      \* reconstruction_results
    withdrawal,   \* the withdrawal of an asset: its transaction, or its row
    user,         \* the transaction a job's user has open: create or retry
    worker        \* what each worker is doing

vars == <<job, attempts, results, withdrawal, user, worker>>

-----------------------------------------------------------------------------
(* Rows.  Each claim draws a fresh lease_token: its number within the      *)
(* attempt stands for it; 0 is NULL.                                       *)

Stages == {"preparing", "ready-for-reconstruction", "reconstructing-geometry",
           "reconstructing-appearance"}

Published == {"completed", "abstained"}
Active == {"created"} \cup Stages

Job ==
    [state : {"absent", "cancel-requested", "cancelled", "failed"} \cup Active \cup Published,
     retryable : BOOLEAN, resultOf : 0..MaximumAttempts]

Claims == 0..(MaximumMishaps + 1)

Attempt ==
    [state : {"queued", "leased", "cancel-requested", "cancelled", "succeeded", "failed"},
     stage : Stages, claims : Claims, token : Claims, lapsed : BOOLEAN]

Queued == [state |-> "queued", stage |-> "preparing", claims |-> 0, token |-> 0, lapsed |-> FALSE]

\* The row of the attempt the job is at.
At(j) == attempts[j][Len(attempts[j])]

Idle == [phase |-> "idle"]

\* A claim that has locked its candidate.
Claiming == [phase : {"claiming"}, job : Jobs, eligible : BOOLEAN]

\* The execution of a lease.
Execution ==
    [phase : {"preparing", "advancing", "processing", "publishing", "committing", "failing"},
     job : Jobs, attempt : 1..MaximumAttempts, token : Claims,
     stage : Stages,                          \* what the runner advanced to
     result : {"none"} \cup Published,
     eligible : BOOLEAN,                      \* what publishResult has read
     ended : {"no", "cancel-requested", "lost"}]  \* heartbeatState.failure

\* The asset's withdrawal has committed.
Withdrawn(a) == withdrawal[a].phase = "committed"

\* sourcesStillEligible: of a ready asset only a committed withdrawal changes
\* the answer.
AlwaysEligible(j) == TRUE

SourcesStillEligible(j) == \A a \in SourcesOf[j] : ~Withdrawn(a)

\* A transaction holds the lock of the job's row: FOR UPDATE.
NeverLocked(j) == FALSE

Locked(j) ==
    \/ user[j] = "retrying"
    \/ \E w \in Workers :
          worker[w].phase \in {"claiming", "committing"} /\ worker[w].job = j

\* The attempt row of an update, and the job row with it.
SetRows(j, attemptRow, jobRow) ==
    /\ attempts' = [attempts EXCEPT ![j][Len(attempts[j])] = attemptRow]
    /\ job' = [job EXCEPT ![j] = jobRow]

\* The lease columns set to NULL.
Ended(j, state) == [At(j) EXCEPT !.state = state, !.token = 0, !.lapsed = FALSE]

\* The job fails, and whether its user may retry.
FailedJob(j, retryable) == [job[j] EXCEPT !.state = "failed", !.retryable = retryable]

Cancelled(j) == [job[j] EXCEPT !.state = "cancelled", !.retryable = TRUE]

-----------------------------------------------------------------------------
(* The user's requests.                                                    *)

\* createJob reads the sources: without the row locks it is about to wait for.
CreateReads(j) ==
    /\ job[j].state = "absent" /\ user[j] = "none"
    /\ SourcesStillEligible(j)
    /\ user' = [user EXCEPT ![j] = "creating"]
    /\ UNCHANGED <<job, attempts, results, withdrawal, worker>>

\* FOR SHARE of the assets: no withdrawal of one is open.
CreateCommits(j) ==
    /\ user[j] = "creating"
    /\ \A a \in SourcesOf[j] : withdrawal[a].phase \in {"none", "committed"}
    /\ job' = [job EXCEPT ![j].state = "created"]
    /\ attempts' = [attempts EXCEPT ![j] = <<Queued>>]
    /\ user' = [user EXCEPT ![j] = "none"]
    /\ UNCHANGED <<results, withdrawal, worker>>

\* What a cancellation leaves of the attempt: its WHERE has the state.
CancelledAttempt(j) ==
    CASE At(j).state = "queued" /\ job[j].state = "created" -> Ended(j, "cancelled")
      [] At(j).state = "leased" /\ job[j].state # "created" ->
            [At(j) EXCEPT !.state = "cancel-requested"]
      [] OTHER -> At(j)

\* #transition(cancel).
Cancel(j) ==
    /\ job[j].state \in Active /\ ~Locked(j)
    /\ \/ /\ job[j].state = "created"
          /\ SetRows(j, CancelledAttempt(j), Cancelled(j))
       \/ /\ job[j].state \in Stages
          /\ SetRows(j, CancelledAttempt(j), [job[j] EXCEPT !.state = "cancel-requested"])
    /\ UNCHANGED <<results, withdrawal, user, worker>>

\* The jobs #transition(retry) accepts.
Retryable(j) ==
    /\ job[j].state \in {"cancelled", "failed"}
    /\ job[j].retryable /\ Len(attempts[j]) < MaximumAttempts

\* #transition(retry) has locked the job and read its sources.
RetryReads(j) ==
    /\ user[j] = "none" /\ ~Locked(j)
    /\ Retryable(j)
    /\ SourcesStillEligible(j)
    /\ user' = [user EXCEPT ![j] = "retrying"]
    /\ UNCHANGED <<job, attempts, results, withdrawal, worker>>

RetryCommits(j) ==
    /\ user[j] = "retrying"
    /\ job' = [job EXCEPT ![j] = [@ EXCEPT !.state = "created", !.retryable = FALSE]]
    /\ attempts' = [attempts EXCEPT ![j] = Append(@, Queued)]
    /\ user' = [user EXCEPT ![j] = "none"]
    /\ UNCHANGED <<results, withdrawal, worker>>

UserRollsBack(j) ==
    /\ user[j] # "none"
    /\ user' = [user EXCEPT ![j] = "none"]
    /\ UNCHANGED <<job, attempts, results, withdrawal, worker>>

-----------------------------------------------------------------------------
(* withdrawSource.                                                         *)

NoWithdrawal == [phase |-> "none", jobs |-> {}]

\* The asset is locked; the row of the withdrawal is inserted.
WithdrawInserts(a) ==
    /\ withdrawal[a].phase = "none"
    /\ withdrawal' = [withdrawal EXCEPT ![a].phase = "inserted"]
    /\ UNCHANGED <<job, attempts, results, user, worker>>

\* The jobs that the snapshot of the SELECT shows as active.
WithdrawSelects(a) ==
    /\ withdrawal[a].phase = "inserted"
    /\ withdrawal' = [withdrawal EXCEPT ![a] =
          [phase |-> "selected",
           jobs |-> {j \in Jobs : a \in SourcesOf[j] /\ job[j].state \in Active}]]
    /\ UNCHANGED <<job, attempts, results, user, worker>>

\* What remains of them once their locks are had: PostgreSQL evaluates the
\* WHERE again on a row that changed meanwhile.
AllSelected(a) == withdrawal[a].jobs

ToWithdraw(a) == {j \in withdrawal[a].jobs : job[j].state \in Active}

WithdrawCommits(a) ==
    LET withdrawn == ToWithdraw(a)
        queued == {j \in withdrawn : job[j].state = "created"}
    IN  /\ withdrawal[a].phase = "selected"
        /\ \A j \in withdrawal[a].jobs : ~Locked(j)
        /\ job' = [j \in Jobs |->
              IF j \in queued THEN FailedJob(j, FALSE)
              ELSE IF j \in withdrawn THEN [job[j] EXCEPT !.state = "cancel-requested"]
              ELSE job[j]]
        /\ attempts' = [j \in Jobs |->
              IF j \notin withdrawn THEN attempts[j]
              ELSE [attempts[j] EXCEPT ![Len(attempts[j])] =
                      IF j \in queued THEN Ended(j, "failed") ELSE CancelledAttempt(j)]]
        /\ withdrawal' = [withdrawal EXCEPT ![a] = [phase |-> "committed", jobs |-> {}]]
        /\ UNCHANGED <<results, user, worker>>

WithdrawRollsBack(a) ==
    /\ withdrawal[a].phase \in {"inserted", "selected"}
    /\ withdrawal' = [withdrawal EXCEPT ![a] = NoWithdrawal]
    /\ UNCHANGED <<job, attempts, results, user, worker>>

-----------------------------------------------------------------------------
(* claimNext.                                                              *)

\* Queued work, or work whose lease has lapsed.  The order of created_at in
\* which a claim prefers its candidates is left open.
CandidateQueued(j) == job[j].state = "created" /\ At(j).state = "queued"

CandidateNotCancelled(j) ==
    \/ CandidateQueued(j)
    \/ job[j].state \in Stages /\ At(j).state = "leased" /\ At(j).lapsed

Candidate(j) ==
    \/ CandidateQueued(j)
    \/ /\ job[j].state \in Stages \cup {"cancel-requested"}
       /\ At(j).state \in {"leased", "cancel-requested"} /\ At(j).lapsed

\* FOR UPDATE SKIP LOCKED, then sourcesStillEligible.
ClaimReads(w, j) ==
    /\ worker[w] = Idle
    /\ job[j].state # "absent" /\ Candidate(j) /\ ~Locked(j)
    /\ worker' = [worker EXCEPT ![w] =
          [phase |-> "claiming", job |-> j, eligible |-> SourcesStillEligible(j)]]
    /\ UNCHANGED <<job, attempts, results, withdrawal, user>>

Stop(w) == worker' = [worker EXCEPT ![w] = Idle]

\* The stage a claim starts or resumes at.
FirstStage(j) == "preparing"

LeaseStage(j) == IF job[j].state = "created" THEN "preparing" ELSE job[j].state

ClaimCancels(w) ==
    LET j == worker[w].job
    IN  /\ worker[w].phase = "claiming"
        /\ job[j].state = "cancel-requested"
        /\ SetRows(j, Ended(j, "cancelled"), Cancelled(j))
        /\ Stop(w)
        /\ UNCHANGED <<results, withdrawal, user>>

ClaimFails(w) ==
    LET j == worker[w].job
    IN  /\ worker[w].phase = "claiming"
        /\ job[j].state # "cancel-requested" /\ ~worker[w].eligible
        /\ SetRows(j, Ended(j, "failed"), FailedJob(j, FALSE))
        /\ Stop(w)
        /\ UNCHANGED <<results, withdrawal, user>>

ClaimLeases(w) ==
    LET j == worker[w].job
        claim == At(j).claims + 1
        stage == LeaseStage(j)
    IN  /\ worker[w].phase = "claiming"
        /\ job[j].state # "cancel-requested" /\ worker[w].eligible
        /\ SetRows(j, [state |-> "leased", stage |-> stage, claims |-> claim,
                       token |-> claim, lapsed |-> FALSE],
                      [job[j] EXCEPT !.state = stage])
        /\ worker' = [worker EXCEPT ![w] =
              [phase |-> "preparing", job |-> j, attempt |-> Len(attempts[j]),
               token |-> claim, stage |-> stage, result |-> "none",
               eligible |-> FALSE, ended |-> "no"]]
        /\ UNCHANGED <<results, withdrawal, user>>

ClaimCommits(w) == ClaimCancels(w) \/ ClaimFails(w) \/ ClaimLeases(w)

ClaimRollsBack(w) ==
    /\ worker[w].phase = "claiming"
    /\ Stop(w)
    /\ UNCHANGED <<job, attempts, results, withdrawal, user>>

-----------------------------------------------------------------------------
(* The runner, #process, and the methods it calls with its lease.          *)

\* The attempt row the execution's commands name.
Row(w) == attempts[worker[w].job][worker[w].attempt]

\* assertLease.
HoldsAnyLease(w) == Row(w).state = "leased" /\ ~Row(w).lapsed

Holds(w) == Row(w).state = "leased" /\ Row(w).token = worker[w].token /\ ~Row(w).lapsed

\* assertLease, and the job is still at the attempt.
MayCommit(w) ==
    /\ Holds(w) /\ ~Locked(worker[w].job)
    /\ Len(attempts[worker[w].job]) = worker[w].attempt

Goes(w, phase) == worker' = [worker EXCEPT ![w].phase = phase]

\* The sources are loaded, if none is withdrawn, and prepared; without an
\* accepted privacy review the runner abstains.
Prepare(w) ==
    /\ worker[w].phase = "preparing"
    /\ SourcesStillEligible(worker[w].job)
    /\ \/ worker' = [worker EXCEPT ![w] = [@ EXCEPT !.phase = "publishing", !.result = "abstained"]]
       \/ worker[w].stage \in {"preparing", "ready-for-reconstruction"} /\ Goes(w, "advancing")
       \/ worker[w].stage \notin {"preparing", "ready-for-reconstruction"} /\ Goes(w, "processing")
    /\ UNCHANGED <<job, attempts, results, withdrawal, user>>

\* The processor has a result.
Process(w, result) ==
    /\ worker[w].phase = "processing"
    /\ worker' = [worker EXCEPT ![w] = [@ EXCEPT !.phase = "publishing", !.result = result]]
    /\ UNCHANGED <<job, attempts, results, withdrawal, user>>

\* A completed result waits for the stage of its appearance.
AppearanceComes(w) ==
    /\ worker[w].result = "completed" /\ worker[w].job \in OptionalAppearance
    /\ worker[w].stage # "reconstructing-appearance"

\* The stage the runner asks for next, and those advanceAttempt accepts.
NextStage(w) ==
    IF worker[w].phase = "publishing" THEN "reconstructing-appearance"
    ELSE IF worker[w].stage = "preparing" THEN "ready-for-reconstruction"
    ELSE "reconstructing-geometry"

Progression ==
    {<<stage, stage>> : stage \in Stages} \cup
    {<<"preparing", "ready-for-reconstruction">>,
     <<"ready-for-reconstruction", "reconstructing-geometry">>,
     <<"reconstructing-geometry", "reconstructing-appearance">>}

\* advanceAttempt; its answer may be lost.
Advance(w, answered) ==
    LET j == worker[w].job
        stage == NextStage(w)
        phase == IF ~answered THEN "failing"
                 ELSE IF worker[w].phase = "advancing" /\ stage = "reconstructing-geometry"
                 THEN "processing" ELSE worker[w].phase
    IN  /\ \/ worker[w].phase = "advancing"
           \/ worker[w].phase = "publishing" /\ AppearanceComes(w)
        /\ MayCommit(w) /\ <<Row(w).stage, stage>> \in Progression
        /\ SetRows(j, [At(j) EXCEPT !.stage = stage], [job[j] EXCEPT !.state = stage])
        /\ worker' = [worker EXCEPT ![w] =
              [@ EXCEPT !.stage = stage, !.phase = phase]]
        /\ UNCHANGED <<results, withdrawal, user>>

\* publishResult has locked its rows and read the sources.
PublishReads(w) ==
    /\ worker[w].phase = "publishing" /\ ~AppearanceComes(w)
    /\ MayCommit(w)
    /\ worker[w].result = "completed" =>
          job[worker[w].job].state \in {"reconstructing-geometry", "reconstructing-appearance"}
    /\ worker' = [worker EXCEPT ![w] =
          [@ EXCEPT !.phase = "committing", !.eligible = SourcesStillEligible(worker[w].job)]]
    /\ UNCHANGED <<job, attempts, results, withdrawal, user>>

\* It publishes, or fails the job for the rights; its answer may be lost.
PublishCommits(w, answered) ==
    LET e == worker[w]
        j == e.job
    IN  /\ e.phase = "committing"
        /\ \/ /\ e.eligible
              /\ results' = results \cup {[job |-> j, attempt |-> e.attempt, status |-> e.result]}
              /\ SetRows(j, Ended(j, "succeeded"),
                         [job[j] EXCEPT !.state = e.result, !.resultOf = e.attempt])
           \/ /\ ~e.eligible
              /\ SetRows(j, Ended(j, "failed"), FailedJob(j, FALSE))
              /\ UNCHANGED results
        /\ IF answered THEN Stop(w) ELSE Goes(w, "failing")
        /\ UNCHANGED <<withdrawal, user>>

\* Something throws: a refused or broken call, the media, the processor, or
\* the abort of the heartbeat.
Throws(w) ==
    /\ worker[w].phase \in {"preparing", "advancing", "processing", "publishing", "committing"}
    /\ Goes(w, "failing")
    /\ UNCHANGED <<job, attempts, results, withdrawal, user>>

\* failAttempt.
FailAttempt(w, retryable) ==
    LET j == worker[w].job
    IN  /\ worker[w].phase = "failing" /\ worker[w].ended = "no"
        /\ MayCommit(w)
        /\ SetRows(j, Ended(j, "failed"),
                   FailedJob(j, retryable /\ worker[w].attempt < MaximumAttempts))
        /\ Stop(w)
        /\ UNCHANGED <<results, withdrawal, user>>

\* The attempt is cancel-requested, and the lease is still this worker's.
ToAcknowledge(w) ==
    /\ Row(w).state = "cancel-requested" /\ Row(w).token = worker[w].token
    /\ ~Row(w).lapsed

\* acknowledgeCancellation, in the catch of a failed failAttempt too.
Acknowledge(w) ==
    LET j == worker[w].job
    IN  /\ worker[w].phase = "failing" /\ worker[w].ended # "lost"
        /\ ToAcknowledge(w) /\ ~Locked(j)
        /\ SetRows(j, Ended(j, "cancelled"),
                   IF job[j].state = "cancel-requested" THEN Cancelled(j) ELSE job[j])
        /\ Stop(w)
        /\ UNCHANGED <<results, withdrawal, user>>

\* The worker leaves the job to its lease, or to whoever ended it.
GiveUp(w) ==
    /\ worker[w].phase = "failing"
    /\ \/ worker[w].ended = "lost"
       \/ ~Holds(w) /\ ~ToAcknowledge(w)
       \/ worker[w].ended = "cancel-requested" /\ ~ToAcknowledge(w)
    /\ Stop(w)
    /\ UNCHANGED <<job, attempts, results, withdrawal, user>>

\* The bounded number of claims that end without the worker's word.
MayMishap(token) == token <= MaximumMishaps

\* heartbeatAttempt finds the cancellation, or no lease, or cannot be reached.
\* A renewal puts the lapse of the lease off and changes nothing here.
HeartbeatEnds(w) ==
    /\ worker[w].phase \in {"preparing", "advancing", "processing", "publishing"}
    /\ worker[w].ended = "no"
    /\ \/ /\ Row(w).state = "cancel-requested" /\ Row(w).token = worker[w].token
          /\ worker' = [worker EXCEPT ![w].ended = "cancel-requested"]
       \/ /\ ~Holds(w) \/ MayMishap(worker[w].token)
          /\ ~(Row(w).state = "cancel-requested" /\ Row(w).token = worker[w].token)
          /\ worker' = [worker EXCEPT ![w].ended = "lost"]
    /\ UNCHANGED <<job, attempts, results, withdrawal, user>>

\* The process stops, or its calls fail until it gives up.
Crash(w) ==
    /\ worker[w].phase \notin {"idle", "claiming"}
    /\ MayMishap(worker[w].token)
    /\ Stop(w)
    /\ UNCHANGED <<job, attempts, results, withdrawal, user>>

\* lease_expires_at passes.
LeaseLapses(j) ==
    /\ job[j].state \in Stages \cup {"cancel-requested"}
    /\ At(j).token # 0 /\ ~At(j).lapsed /\ MayMishap(At(j).token)
    /\ attempts' = [attempts EXCEPT ![j][Len(attempts[j])].lapsed = TRUE]
    /\ UNCHANGED <<job, results, withdrawal, user, worker>>

-----------------------------------------------------------------------------

Init ==
    /\ job = [j \in Jobs |-> [state |-> "absent", retryable |-> FALSE, resultOf |-> 0]]
    /\ attempts = [j \in Jobs |-> <<>>]
    /\ results = {}
    /\ withdrawal = [a \in Assets |-> NoWithdrawal]
    /\ user = [j \in Jobs |-> "none"]
    /\ worker = [w \in Workers |-> Idle]

UserStep(j) ==
    \/ CreateReads(j) \/ CreateCommits(j)
    \/ Cancel(j)
    \/ RetryReads(j) \/ RetryCommits(j)
    \/ UserRollsBack(j)

WithdrawStep(a) ==
    WithdrawInserts(a) \/ WithdrawSelects(a) \/ WithdrawCommits(a) \/ WithdrawRollsBack(a)

RunnerStep(w) ==
    \/ Prepare(w)
    \/ \E result \in Published : Process(w, result)
    \/ \E answered \in BOOLEAN : Advance(w, answered) \/ PublishCommits(w, answered)
    \/ PublishReads(w)
    \/ Throws(w)
    \/ \E retryable \in BOOLEAN : FailAttempt(w, retryable)
    \/ Acknowledge(w) \/ GiveUp(w)

WorkerStep(w) ==
    \/ \E j \in Jobs : ClaimReads(w, j)
    \/ ClaimCommits(w) \/ ClaimRollsBack(w)
    \/ RunnerStep(w)
    \/ HeartbeatEnds(w) \/ Crash(w)

Next ==
    \/ \E j \in Jobs : UserStep(j) \/ LeaseLapses(j)
    \/ \E a \in Assets : WithdrawStep(a)
    \/ \E w \in Workers : WorkerStep(w)

Spec == Init /\ [][Next]_vars

\* No process executes the lease any more, so none renews it.
Abandoned(j) ==
    ~\E w \in Workers :
        /\ worker[w].phase \notin {"idle", "claiming"} /\ worker[w].job = j
        /\ worker[w].attempt = Len(attempts[j]) /\ worker[w].token = At(j).token

\* The runners poll and go on; an abandoned lease lapses; a transaction of a
\* user ends; claims do not roll back for ever.
Fairness ==
    /\ \A w \in Workers :
          /\ WF_vars(RunnerStep(w))
          /\ WF_vars(\E j \in Jobs : ClaimReads(w, j))
          /\ SF_vars(ClaimCommits(w))
    /\ \A j \in Jobs :
          WF_vars(Abandoned(j) /\ LeaseLapses(j)) /\ WF_vars(RetryCommits(j) \/ UserRollsBack(j))

FairSpec == Spec /\ Fairness

-----------------------------------------------------------------------------
(* Types, and what the rows say of one another.                            *)

TypeOK ==
    /\ job \in [Jobs -> Job]
    /\ \A j \in Jobs :
          /\ Len(attempts[j]) \in 0..MaximumAttempts
          /\ \A n \in 1..Len(attempts[j]) : attempts[j][n] \in Attempt
    /\ results \subseteq [job : Jobs, attempt : 1..MaximumAttempts, status : Published]
    /\ withdrawal \in
          [Assets -> [phase : {"none", "inserted", "selected", "committed"}, jobs : SUBSET Jobs]]
    /\ user \in [Jobs -> {"none", "creating", "retrying"}]
    /\ worker \in [Workers -> {Idle} \cup Claiming \cup Execution]

\* The job row and the row of its attempt always tell the same story, and
\* earlier attempts are over: no update of attempts ... WHERE state = ... of
\* cancelJob, withdrawSource or claimNext ever matches no row, although none of
\* them looks at how many it matched.
RowsAgree ==
    \A j \in Jobs :
        /\ (attempts[j] = <<>>) = (job[j].state = "absent")
        /\ \A n \in 1..(Len(attempts[j]) - 1) : attempts[j][n].state \in {"cancelled", "failed"}
        /\ attempts[j] # <<>> =>
              CASE job[j].state = "created" -> At(j).state = "queued"
                [] job[j].state \in Stages -> At(j).state = "leased" /\ At(j).stage = job[j].state
                [] job[j].state \in Published -> At(j).state = "succeeded"
                [] OTHER -> At(j).state = job[j].state

\* A job is published if and only if it has a result, which is its only one,
\* of its last attempt and of the status the job shows.
ResultsArePublished ==
    /\ \A j \in Jobs :
          IF job[j].state \in Published
          THEN {r \in results : r.job = j} =
                  {[job |-> j, attempt |-> Len(attempts[j]), status |-> job[j].state]}
               /\ job[j].resultOf = Len(attempts[j])
          ELSE ~\E r \in results : r.job = j

\* What publishResult asserted of its lease and its attempt still holds when
\* it commits: no cancellation, withdrawal, failure or other claim came
\* between.
PublicationsHoldTheirLease ==
    \A w \in Workers :
        worker[w].phase = "committing" =>
            /\ Row(w).state = "leased" /\ Row(w).token = worker[w].token
            /\ Len(attempts[worker[w].job]) = worker[w].attempt

\* As long as a runner's lease holds, the rows are at the stage the runner
\* thinks they are at, so that advanceAttempt and publishResult never refuse
\* the stage ("skip or reverse") to the holder of the lease.
HolderIsInStep ==
    \A w \in Workers :
        worker[w].phase \in {"preparing", "advancing", "processing", "publishing", "committing"}
        /\ Holds(w) =>
            /\ Row(w).stage = worker[w].stage
            /\ worker[w].result = "completed" =>
                  worker[w].stage \in {"reconstructing-geometry", "reconstructing-appearance"}

-----------------------------------------------------------------------------
(* What a step may never do.                                               *)

\* c8_validate_job_mutation: the transitions of a job.
JobTransitions ==
    {<<stage, state>> : stage \in Stages, state \in {"cancel-requested", "abstained", "failed"}}
    \cup Progression
    \cup {<<"created", state>> : state \in {"preparing", "cancelled", "failed"}}
    \cup {<<"reconstructing-geometry", "completed">>, <<"reconstructing-appearance", "completed">>}
    \cup {<<"cancel-requested", "cancelled">>, <<"cancel-requested", "failed">>}
    \cup {<<"cancelled", "created">>, <<"failed", "created">>}

\* c8_validate_attempt_mutation: the transitions of an attempt.
AttemptTransitions ==
    {<<"queued", state>> : state \in {"leased", "cancelled", "failed"}}
    \cup {<<"leased", state>> : state \in {"leased", "cancel-requested", "succeeded", "failed"}}
    \cup {<<"cancel-requested", "cancelled">>, <<"cancel-requested", "failed">>}

JobChanges(j) == job'[j] # job[j] /\ job[j].state # "absent"
AttemptChanges(j, n) ==
    [attempts'[j][n] EXCEPT !.lapsed = FALSE] # [attempts[j][n] EXCEPT !.lapsed = FALSE]

\* The triggers of the migration and the handlers, written apart, agree: no
\* handler ever asks for a transition its trigger raises an exception for,
\* whatever has happened between what it read and what it writes.
TriggersNeverRaise ==
    [][\A j \in Jobs :
          /\ JobChanges(j) =>
                /\ <<job[j].state, job'[j].state>> \in JobTransitions
                /\ Len(attempts'[j]) =
                      IF job'[j].state = "created" THEN Len(attempts[j]) + 1 ELSE Len(attempts[j])
          /\ \A n \in 1..Len(attempts[j]) :
                AttemptChanges(j, n) =>
                   <<attempts[j][n].state, attempts'[j][n].state>> \in AttemptTransitions]_vars

SourceWithdrawn(j) == \E a \in SourcesOf[j] : Withdrawn(a)

\* A source of the job is withdrawn, and no claim or publication is open that
\* has read the sources before that.
RightsLost(j) ==
    /\ SourceWithdrawn(j)
    /\ \A w \in Workers :
          worker[w].phase \in {"claiming", "committing"} /\ worker[w].job = j =>
             ~worker[w].eligible

Token(j) == IF attempts[j] = <<>> THEN 0 ELSE At(j).token

\* "Rights withdrawal and cancellation are rechecked before lease and
\* publication" (C8_CONTRACT.md): from then on the job gets no lease and no
\* result, in this attempt or another.
RightsStayLost ==
    [][\A j \in Jobs :
          RightsLost(j) =>
             /\ RightsLost(j)'
             /\ Token(j)' \in {0, Token(j)}
             /\ \A r \in results' \ results : r.job # j]_vars

-----------------------------------------------------------------------------
(* What a leased queue promises.                                           *)

Status(state) ==
    CASE state = "created" -> "waiting"
      [] state \in Stages -> "working"
      [] state = "cancel-requested" -> "stopping"
      [] state \in Published -> "done"
      [] OTHER -> state

\* The attempt a job's result is of, and how often that was claimed.
Output(made, rows) ==
    IF made = {} THEN <<0, 0>>
    ELSE LET r == CHOOSE r \in made : TRUE IN <<r.attempt, rows[r.attempt].claims>>

View ==
    [j \in Jobs |->
        [status |-> Status(job[j].state), attempt |-> Len(attempts[j]),
         claims |-> IF attempts[j] = <<>> THEN 0 ELSE At(j).claims,
         output |-> Output({r \in results : r.job = j}, attempts[j])]]

Leased == INSTANCE LeasedJobs WITH view <- View

\* The queue keeps the promises of LeasedJobs, although transactions that have
\* read are overtaken by others: none reopens a job, claims one that is ended
\* or asked to stop, or publishes but for the attempt at work.
ImplementsLeasedJobs == Leased!Spec

-----------------------------------------------------------------------------
(* Liveness.                                                               *)

\* A requested cancellation ends: by the fenced worker, or by the claim that
\* finds the lapsed lease.
CancellationsEnd ==
    \A j \in Jobs : job[j].state = "cancel-requested" ~> job[j].state = "cancelled"

\* Work over a withdrawn source comes to an end and stays so, also when the
\* withdrawal missed the job because it was being created or retried.
WithdrawnWorkEnds ==
    \A j \in Jobs :
        SourceWithdrawn(j) ~>
            [](job[j].state \notin Active \cup {"cancel-requested"})

\* A job comes to an end, unless it keeps being cancelled and retried.
JobsEnd ==
    \A j \in Jobs :
        job[j].state = "created" ~>
            job[j].state \in Published \cup {"cancelled", "failed"}
=============================================================================

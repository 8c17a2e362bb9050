----------------------------- MODULE SceneJobs -----------------------------
(***************************************************************************)
(* The C10 scenes: the leased queue in PostgreSQL                          *)
(* (PostgresSceneRepository), the service that puts a compiled scene into  *)
(* the object store before it publishes it, and the runner of every worker *)
(* (SceneCompilationRunner over runSceneCompilation).                      *)
(*                                                                         *)
(* A repository method is one transaction and one action.  Jobs are named  *)
(* in the order of created_at.  The source snapshot stays committed:       *)
(* snapshots and commits are append-only.  Refused and replayed requests   *)
(* change nothing and are left out, as are the event rows.                 *)
(***************************************************************************)
EXTENDS Integers, FiniteSets, FiniteSetsExt

CONSTANTS
    Workers,          \* worker processes
    Jobs,             \* scene jobs 1..n, one per cache key
    MaximumAttempts,  \* c10ScenePolicy.maximumAttempts
    MaximumMishaps    \* bound: claims of one attempt that may end without
                      \* the worker's word

\* What holds of the constants: jobs are numbered, and a job may be tried.
SceneConstants == Jobs \subseteq Nat /\ MaximumAttempts \in Nat \ {0}

VARIABLES
    job,        \* scene_jobs
    row,        \* the scene_attempts row of a job's present attempt
    stored,     \* the jobs whose GLB is in the object store
    scenes,     \* scenes, with their artifacts and cache entries
    worker      \* what each worker is doing

vars == <<job, row, stored, scenes, worker>>

-----------------------------------------------------------------------------
(* Rows.  Each claim draws a fresh lease_token: its number within the      *)
(* attempt stands for it; 0 is NULL.                                       *)

Stages == <<"leased", "compiling", "publishing">>

\* stageOrder
Order(stage) == CHOOSE i \in 1..3 : Stages[i] = stage

Active == {"leased", "compiling", "publishing"}

QueuedRow == [state |-> "queued", stage |-> "leased", claims |-> 0, token |-> 0, lapsed |-> FALSE]

Ended(j, state) == [row[j] EXCEPT !.state = state, !.token = 0, !.lapsed = FALSE]

SetRows(j, newRow, state, retryable) ==
    /\ row' = [row EXCEPT ![j] = newRow]
    /\ job' = [job EXCEPT ![j].state = state, ![j].retryable = retryable]

\* #cancelAttempt
CancelAttempt(j) == SetRows(j, Ended(j, "cancelled"), "cancelled", TRUE)

-----------------------------------------------------------------------------
(* The user's requests.                                                    *)

\* createJob: the cache key is new.  Otherwise the job of the key is returned
\* as it stands, whatever became of it.
Create(j) ==
    /\ job[j].state = "absent" /\ \A k \in Jobs : k < j => job[k].state # "absent"
    /\ job' = [job EXCEPT ![j] = [state |-> "queued", retryable |-> FALSE, attempt |-> 1]]
    /\ row' = [row EXCEPT ![j] = QueuedRow]
    /\ UNCHANGED <<stored, scenes, worker>>

\* #transition(cancel).
Cancel(j) ==
    /\ \/ /\ job[j].state = "queued"
          /\ CancelAttempt(j)
       \/ /\ job[j].state \in Active
          /\ SetRows(j, [row[j] EXCEPT !.state = "cancel-requested"], "cancel-requested", FALSE)
    /\ UNCHANGED <<stored, scenes, worker>>

\* #transition(retry).
Retry(j) ==
    /\ job[j].state \in {"cancelled", "failed"} /\ job[j].retryable
    /\ job[j].attempt < MaximumAttempts
    /\ job' = [job EXCEPT ![j] =
                  [state |-> "queued", retryable |-> FALSE, attempt |-> @.attempt + 1]]
    /\ row' = [row EXCEPT ![j] = QueuedRow]
    /\ UNCHANGED <<stored, scenes, worker>>

-----------------------------------------------------------------------------
(* claimNext.                                                              *)

Idle == [phase |-> "idle"]

Candidates ==
    {j \in Jobs : \/ job[j].state = "queued" /\ row[j].state = "queued"
                  \/ /\ job[j].state \in Active \cup {"cancel-requested"}
                     /\ row[j].state \in {"leased", "cancel-requested"} /\ row[j].lapsed}

ClaimStage(j) == IF job[j].state = "queued" THEN "leased" ELSE row[j].stage

\* The oldest candidate is leased with the stage its last worker had reached;
\* or, when its cancellation is overdue, cancelled.
Claim(w) ==
    /\ worker[w] = Idle /\ Candidates # {}
    /\ LET j == Min(Candidates)
           claim == row[j].claims + 1
           stage == ClaimStage(j)
       IN  \/ /\ job[j].state = "cancel-requested"
              /\ CancelAttempt(j)
              /\ UNCHANGED worker
           \/ /\ job[j].state # "cancel-requested"
              /\ SetRows(j, [state |-> "leased", stage |-> stage, claims |-> claim,
                             token |-> claim, lapsed |-> FALSE],
                         stage, job[j].retryable)
              /\ worker' = [worker EXCEPT ![w] =
                    [phase |-> "loading", job |-> j, attempt |-> job[j].attempt,
                     token |-> claim, stage |-> stage]]
    /\ UNCHANGED <<stored, scenes>>

-----------------------------------------------------------------------------
(* The runner and what it calls with its lease.                            *)

IsToken(w) ==
    /\ job[worker[w].job].attempt = worker[w].attempt
    /\ row[worker[w].job].token = worker[w].token

HoldsAnyLease(w) == row[worker[w].job].state = "leased"

\* assertLease
Holds(w) == IsToken(w) /\ row[worker[w].job].state = "leased" /\ ~row[worker[w].job].lapsed

CancellationRequested(w) == IsToken(w) /\ row[worker[w].job].state = "cancel-requested"

AsksPlainly(w, stage) == stage

\* The stage a heartbeat asks for: never behind the one the runner has seen.
Asks(w, stage) == IF Order(stage) < Order(worker[w].stage) THEN worker[w].stage ELSE stage

\* The stages a heartbeat may ask for at a stage: allowed.
Allowed(stage) == {s \in Active : Order(s) \in {Order(stage), Order(stage) + 1}}

\* The stage the next heartbeat of a phase asks for.
Wanted(phase) == IF phase = "compiled" THEN "publishing" ELSE "compiling"

Heartbeats == {"loading", "compiled"}

MayAsk(w) ==
    worker[w].phase \in Heartbeats =>
        Asks(w, Wanted(worker[w].phase)) \in Allowed(row[worker[w].job].stage)

\* An accepted heartbeat of loadExactSnapshot or of publishIfCurrent.
Heartbeat(w) ==
    LET e == worker[w]
        stage == Asks(w, Wanted(e.phase))
    IN  /\ e.phase \in Heartbeats /\ Holds(w) /\ MayAsk(w)
        /\ SetRows(e.job, [row[e.job] EXCEPT !.stage = stage], stage, job[e.job].retryable)
        /\ worker' = [worker EXCEPT ![w] =
              [e EXCEPT !.stage = stage,
                        !.phase = IF e.phase = "loading" THEN "compiling" ELSE "publishing"]]
        /\ UNCHANGED <<stored, scenes>>

Stop(w) == worker' = [worker EXCEPT ![w] = Idle]

Goes(w, phase) == worker' = [worker EXCEPT ![w].phase = phase]

\* stateForError: the runner acknowledges a cancellation and drops a stale
\* lease without a word.
LeaseIsLost(w) == IF CancellationRequested(w) THEN Goes(w, "cancelling") ELSE Stop(w)

Executing(w) == worker[w].phase \in {"loading", "compiling", "compiled", "publishing", "storing"}

\* A heartbeat, by the monitor or by the compilation, is refused for the lease
\* or the stage, or the publication for its lease.
Refused(w) ==
    /\ Executing(w) /\ ~(Holds(w) /\ MayAsk(w))
    /\ LeaseIsLost(w)
    /\ UNCHANGED <<job, row, stored, scenes>>

MayMishap(token) == token <= MaximumMishaps

\* The heartbeat gets no answer, or compilation runs out of time: the runner
\* neither fails nor acknowledges the attempt.
GoesSilent(w) ==
    /\ Executing(w) /\ MayMishap(worker[w].token)
    /\ Stop(w)
    /\ UNCHANGED <<job, row, stored, scenes>>

\* compileCanonicalScene returns.
Compile(w) ==
    /\ worker[w].phase = "compiling"
    /\ Goes(w, "compiled")
    /\ UNCHANGED <<job, row, stored, scenes>>

\* Loading, compiling, verifying or storing throws: the result is "failed".
Throws(w) ==
    /\ Executing(w)
    /\ Goes(w, "failing")
    /\ UNCHANGED <<job, row, stored, scenes>>

StoreLater(w) ==
    /\ worker[w].phase = "publishing" /\ Holds(w)
    /\ job[worker[w].job].state = "publishing"
    /\ Goes(w, "storing")
    /\ UNCHANGED <<job, row, stored, scenes>>

\* SceneWorkerService.publish, up to the transaction: the lease is checked,
\* then the GLB is put.
Store(w) ==
    /\ worker[w].phase = "publishing" /\ Holds(w)
    /\ job[worker[w].job].state = "publishing"
    /\ stored' = stored \cup {worker[w].job}
    /\ Goes(w, "storing")
    /\ UNCHANGED <<job, row, scenes>>

\* publishScene; its answer may be lost.
PublishScene(w, answered) ==
    LET e == worker[w]
    IN  /\ e.phase = "storing" /\ Holds(w)
        /\ job[e.job].state = "publishing" /\ row[e.job].stage = "publishing"
        /\ ~\E s \in scenes : s.job = e.job
        /\ scenes' = scenes \cup {[job |-> e.job, attempt |-> e.attempt, claim |-> e.token]}
        /\ SetRows(e.job, Ended(e.job, "succeeded"), "succeeded", FALSE)
        /\ IF answered THEN Stop(w) ELSE Goes(w, "failing")
        /\ UNCHANGED stored

\* failAttempt, asked to be retryable; or it is refused.
Fail(w) ==
    /\ worker[w].phase = "failing"
    /\ IF Holds(w)
       THEN SetRows(worker[w].job, Ended(worker[w].job, "failed"), "failed",
                    worker[w].attempt < MaximumAttempts)
       ELSE UNCHANGED <<job, row>>
    /\ Stop(w)
    /\ UNCHANGED <<stored, scenes>>

\* acknowledgeCancellation before the lease lapses; or it is refused.
Acknowledge(w) ==
    /\ worker[w].phase = "cancelling"
    /\ IF CancellationRequested(w) /\ ~row[worker[w].job].lapsed
       THEN CancelAttempt(worker[w].job)
       ELSE UNCHANGED <<job, row>>
    /\ Stop(w)
    /\ UNCHANGED <<stored, scenes>>

\* The process stops, or the last call of the runner fails.
Crash(w) ==
    /\ worker[w].phase \in {"failing", "cancelling"} /\ MayMishap(worker[w].token)
    /\ Stop(w)
    /\ UNCHANGED <<job, row, stored, scenes>>

\* lease_expires_at passes.
LeaseLapses(j) ==
    /\ row[j].state \in {"leased", "cancel-requested"} /\ ~row[j].lapsed
    /\ MayMishap(row[j].token) \/ row[j].state = "cancel-requested"
    /\ row' = [row EXCEPT ![j].lapsed = TRUE]
    /\ UNCHANGED <<job, stored, scenes, worker>>

-----------------------------------------------------------------------------

Init ==
    /\ job = [j \in Jobs |-> [state |-> "absent", retryable |-> FALSE, attempt |-> 0]]
    /\ row = [j \in Jobs |-> QueuedRow]
    /\ stored = {}
    /\ scenes = {}
    /\ worker = [w \in Workers |-> Idle]

UserStep(j) == Create(j) \/ Cancel(j) \/ Retry(j)

RunnerStep(w) ==
    \/ Heartbeat(w) \/ Refused(w) \/ Compile(w) \/ Store(w)
    \/ \E answered \in BOOLEAN : PublishScene(w, answered)
    \/ Fail(w) \/ Acknowledge(w)

WorkerStep(w) == Claim(w) \/ RunnerStep(w) \/ Throws(w) \/ GoesSilent(w) \/ Crash(w)

Next ==
    \/ \E j \in Jobs : UserStep(j) \/ LeaseLapses(j)
    \/ \E w \in Workers : WorkerStep(w)

Spec == Init /\ [][Next]_vars

\* No process executes the lease any more, so none renews it.
Abandoned(j) == ~\E w \in Workers : worker[w] # Idle /\ worker[w].job = j /\ IsToken(w)

\* The runners poll and go on, and an abandoned lease lapses.
Fairness ==
    /\ \A w \in Workers : WF_vars(RunnerStep(w)) /\ WF_vars(Claim(w))
    /\ \A j \in Jobs : WF_vars(Abandoned(j) /\ LeaseLapses(j))

FairSpec == Spec /\ Fairness

-----------------------------------------------------------------------------
(* Properties.                                                             *)

\* A published scene can be fetched: its GLB was in the store before the row
\* that names it, whichever worker, attempt or lost answer it came by.
ScenesAreStored == \A s \in scenes : s.job \in stored

\* The worker that holds a lease is never refused for its stage, however far
\* the workers before it got: it takes the stage over and never goes back.
HolderMayHeartbeat == \A w \in Workers : Executing(w) /\ Holds(w) => MayAsk(w)

Status(state) ==
    CASE state = "queued" -> "waiting"
      [] state \in Active -> "working"
      [] state = "cancel-requested" -> "stopping"
      [] state = "succeeded" -> "done"
      [] OTHER -> state

\* What the rows of a job's scenes were made under.
Output(rows) ==
    IF rows = {} THEN <<0, 0>> ELSE LET s == CHOOSE s \in rows : TRUE IN <<s.attempt, s.claim>>

View ==
    [j \in Jobs |->
        [status |-> Status(job[j].state), attempt |-> job[j].attempt, claims |-> row[j].claims,
         output |-> Output({s \in scenes : s.job = j})]]

Leased == INSTANCE LeasedJobs WITH view <- View

\* The queue keeps the promises of LeasedJobs: a scene is the work of the last
\* claim, whatever worker comes back late.
ImplementsLeasedJobs == Leased!Spec

\* A scene job that is queued or worked on ends, unless its workers fall
\* silent for ever: no cancellation hangs and no job waits behind another for
\* ever.
ScenesEnd ==
    \A j \in Jobs :
        job[j].state \in Active \cup {"queued", "cancel-requested"} ~>
            job[j].state \in {"succeeded", "cancelled", "failed"}
=============================================================================

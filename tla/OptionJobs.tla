----------------------------- MODULE OptionJobs -----------------------------
(***************************************************************************)
(* The C12 design options: the leased queue in PostgreSQL                  *)
(* (PostgresDesignOptionRepository), the service's check of the exact      *)
(* inputs, and the runner of every worker (DesignOptionRunner).            *)
(*                                                                         *)
(* A lease is fenced by its token and by the version of the job that the   *)
(* attempt row recorded.  A repository method is one transaction and one   *)
(* action.  Refused and replayed requests change nothing and are left out, *)
(* as are the event rows.  The source snapshot is append-only: only the    *)
(* accepted brief may change, when it is reopened.                         *)
(***************************************************************************)
EXTENDS Integers

CONSTANTS
    Workers,          \* worker processes
    Jobs,             \* option jobs
    MaximumAttempts,  \* the CHECK on design_option_attempts.attempt
    MaximumMishaps    \* bound: claims of one attempt that may end without
                      \* the worker's word

\* What holds of the constants: a job may be tried.
OptionConstants == MaximumAttempts \in Nat \ {0}

VARIABLES
    job,     \* design_option_jobs
    row,     \* the design_option_attempts row of a job's present attempt
    exact,   \* the jobs whose brief is still the accepted one they were made for
    asked,   \* the version a retry was asked for, once its inputs were verified; or 0
    sets,    \* design_option_sets, with their bundles, options and heads
    worker   \* what each worker is doing

vars == <<job, row, exact, asked, sets, worker>>

-----------------------------------------------------------------------------
(* Rows.  Each claim draws a fresh lease_token: its number within the      *)
(* attempt stands for it; 0 is NULL.                                       *)

Stages == <<"queued", "deriving-constraints", "generating", "validating", "publishing">>

NoJob == [state |-> "absent", stage |-> "queued", retryable |-> FALSE, attempt |-> 0, version |-> 0]

QueuedRow(version) ==
    [state |-> "queued", version |-> version, claims |-> 0, token |-> 0, lapsed |-> FALSE]

\* The attempt ends with the job's new version, its lease columns cleared.
EndRow(j, state, version) ==
    row' = [row EXCEPT ![j] = [row[j] EXCEPT !.state = state, !.version = version, !.token = 0,
                                             !.lapsed = FALSE]]

SetJob(j, state, stage, retryable) ==
    job' = [job EXCEPT ![j] = [job[j] EXCEPT !.state = state, !.stage = stage,
                                             !.retryable = retryable, !.version = @ + 1]]

-----------------------------------------------------------------------------
(* The user's requests.                                                    *)

\* createJob.  The service verified the inputs before the transaction.
Create(j) ==
    /\ job[j].state = "absent"
    /\ job' = [job EXCEPT ![j] = [job[j] EXCEPT !.state = "queued", !.attempt = 1, !.version = 1]]
    /\ row' = [row EXCEPT ![j] = QueuedRow(1)]
    /\ UNCHANGED <<exact, asked, sets, worker>>

\* #transition(cancel).  The attempt row keeps its version.
Cancel(j) ==
    /\ \/ /\ job[j].state = "queued"
          /\ SetJob(j, "cancelled", "complete", TRUE)
          /\ row' = [row EXCEPT ![j].state = "cancelled"]
       \/ /\ job[j].state = "running"
          /\ SetJob(j, "cancel-requested", job[j].stage, FALSE)
          /\ row' = [row EXCEPT ![j].state = "cancel-requested"]
    /\ UNCHANGED <<exact, asked, sets, worker>>

IsRetryable(j) ==
    job[j].state \in {"failed", "cancelled", "abstained"} /\ job[j].retryable

\* service.retryJob finds the exact inputs of the job it read.
AskRetry(j) ==
    /\ IsRetryable(j) /\ j \in exact /\ asked[j] = 0
    /\ asked' = [asked EXCEPT ![j] = job[j].version]
    /\ UNCHANGED <<job, row, exact, sets, worker>>

\* #transition(retry): the job it read has not changed; or it is refused.
Retry(j) ==
    /\ asked[j] # 0
    /\ asked' = [asked EXCEPT ![j] = 0]
    /\ IF job[j].version = asked[j] /\ job[j].attempt < MaximumAttempts
       THEN /\ job' = [job EXCEPT ![j] =
                          [job[j] EXCEPT !.state = "queued", !.stage = "queued",
                                         !.retryable = FALSE, !.attempt = @ + 1,
                                         !.version = @ + 1]]
            /\ row' = [row EXCEPT ![j] = QueuedRow(job[j].version + 1)]
       ELSE UNCHANGED <<job, row>>
    /\ UNCHANGED <<exact, sets, worker>>

\* The brief is reopened: its accepted revision is not the current one again.
Reopen(j) ==
    /\ j \in exact
    /\ exact' = exact \ {j}
    /\ UNCHANGED <<job, row, asked, sets, worker>>

-----------------------------------------------------------------------------
(* claimNext.                                                              *)

Idle == [phase |-> "idle"]

Candidates ==
    {j \in Jobs : \/ row[j].state = "queued" /\ job[j].state = "queued"
                  \/ row[j].state = "leased" /\ row[j].lapsed /\ job[j].state = "running"}

\* The oldest attempt that no other claim has locked is leased again with the
\* stage and the version of the job.
Lease(w, j) ==
    LET new == job[j].state = "queued"
        version == IF new THEN job[j].version + 1 ELSE job[j].version
        claim == row[j].claims + 1
    IN  /\ IF new THEN SetJob(j, "running", "deriving-constraints", FALSE) ELSE UNCHANGED job
        /\ row' = [row EXCEPT ![j] = [state |-> "leased", version |-> version, claims |-> claim,
                                      token |-> claim, lapsed |-> FALSE]]
        /\ worker' = [worker EXCEPT ![w] =
              [phase |-> "starting", job |-> j, attempt |-> job[j].attempt, token |-> claim,
               version |-> version]]

\* SOURCE_CHANGED: no lease is granted.
FailInexact(w, j) ==
    /\ SetJob(j, "failed", "complete", TRUE)
    /\ EndRow(j, "failed", job[j].version + 1)
    /\ UNCHANGED worker

Claim(w) ==
    /\ worker[w] = Idle
    /\ \E j \in Candidates : IF j \in exact THEN Lease(w, j) ELSE FailInexact(w, j)
    /\ UNCHANGED <<exact, asked, sets>>

-----------------------------------------------------------------------------
(* The runner's #process.                                                  *)

\* What #lockedLease compares with the attempt row.
IsFenced(w, version) ==
    LET e == worker[w]
    IN  /\ job[e.job].attempt = e.attempt
        /\ row[e.job].token = e.token /\ row[e.job].version = version /\ ~row[e.job].lapsed

HoldsAnyLease(w) == row[worker[w].job].state = "leased"

Holds(w) == IsFenced(w, worker[w].version) /\ row[worker[w].job].state = "leased"

Goes(w, phase) == worker' = [worker EXCEPT ![w].phase = phase]

Stop(w) == worker' = [worker EXCEPT ![w] = Idle]

\* Each call of #process, and the phase it leads to.
AfterHeartbeat == [starting |-> {"generating"}, planned |-> {"validating", "abstaining", "failing"}]

AfterAdvance == [generating |-> "planning", validating |-> "publishing", publishing |-> "storing"]

Calls == DOMAIN AfterHeartbeat \cup DOMAIN AfterAdvance \cup {"abstaining", "storing"}

\* heartbeatAttempt is granted.
Heartbeat(w) ==
    /\ worker[w].phase \in DOMAIN AfterHeartbeat /\ Holds(w) /\ worker[w].job \in exact
    /\ \E phase \in AfterHeartbeat[worker[w].phase] : Goes(w, phase)
    /\ UNCHANGED <<job, row, exact, asked, sets>>

Order(stage) == CHOOSE i \in 1..5 : Stages[i] = stage

\* advanceAttempt: stages advance exactly once.
MayAdvance(w) == Order(worker[w].phase) = Order(job[worker[w].job].stage) + 1

\* It is granted; its answer may be lost.
Advance(w, answered) ==
    LET e == worker[w]
        version == job[e.job].version + 1
    IN  /\ e.phase \in DOMAIN AfterAdvance /\ Holds(w) /\ MayAdvance(w)
        /\ SetJob(e.job, "running", e.phase, FALSE)
        /\ row' = [row EXCEPT ![e.job].version = version]
        /\ IF answered
           THEN worker' = [worker EXCEPT ![w] =
                              [e EXCEPT !.phase = AfterAdvance[e.phase], !.version = version]]
           ELSE Goes(w, "failing")
        /\ UNCHANGED <<exact, asked, sets>>

\* planDesignOptions returns.
Plan(w) ==
    /\ worker[w].phase = "planning"
    /\ Goes(w, "planned")
    /\ UNCHANGED <<job, row, exact, asked, sets>>

\* publishOptions; its answer may be lost.
Publish(w, answered) ==
    LET e == worker[w]
    IN  /\ e.phase = "storing" /\ Holds(w) /\ e.job \in exact
        /\ job[e.job].stage = "publishing"
        /\ sets' = sets \cup {[job |-> e.job, attempt |-> e.attempt, claim |-> e.token]}
        /\ SetJob(e.job, "succeeded", "complete", FALSE)
        /\ EndRow(e.job, "succeeded", job[e.job].version + 1)
        /\ IF answered THEN Stop(w) ELSE Goes(w, "failing")
        /\ UNCHANGED <<exact, asked>>

FinishAttempt(j, state, retryable) ==
    /\ SetJob(j, state, "complete", retryable)
    /\ EndRow(j, "failed", job[j].version + 1)

\* abstainAttempt.
Abstain(w) ==
    /\ worker[w].phase = "abstaining" /\ Holds(w)
    /\ FinishAttempt(worker[w].job, "abstained", TRUE)
    /\ Stop(w)
    /\ UNCHANGED <<exact, asked, sets>>

\* failAttempt, for a result or after an error; it may be refused.
Fail(w, retryable) ==
    /\ worker[w].phase = "failing"
    /\ IF Holds(w)
       THEN FinishAttempt(worker[w].job, "failed", retryable)
       ELSE UNCHANGED <<job, row>>
    /\ Stop(w)
    /\ UNCHANGED <<exact, asked, sets>>

\* A call is refused with LEASE_LOST.
Refused(w) ==
    /\ worker[w].phase \in Calls
    /\ ~(Holds(w) /\ (worker[w].phase \in DOMAIN AfterAdvance => MayAdvance(w)))
    /\ Goes(w, "acknowledging")
    /\ UNCHANGED <<job, row, exact, asked, sets>>

\* Anything else is thrown, SOURCE_CHANGED among it.
Throws(w) ==
    /\ worker[w].phase \in Calls \cup {"planning"}
    /\ Goes(w, "failing")
    /\ UNCHANGED <<job, row, exact, asked, sets>>

\* The version #process acknowledges a possible cancellation with.
AcknowledgedVersion(w) == worker[w].version + 1

\* acknowledgeCancellation; or it is refused.
Acknowledge(w) ==
    LET j == worker[w].job
    IN  /\ worker[w].phase = "acknowledging"
        /\ IF /\ IsFenced(w, AcknowledgedVersion(w))
              /\ row[j].state = "cancel-requested" /\ job[j].state = "cancel-requested"
           THEN /\ SetJob(j, "cancelled", "complete", TRUE)
                /\ EndRow(j, "cancelled", job[j].version + 1)
           ELSE UNCHANGED <<job, row>>
        /\ Stop(w)
        /\ UNCHANGED <<exact, asked, sets>>

MayMishap(token) == token <= MaximumMishaps

\* The process stops.
Crash(w) ==
    /\ worker[w] # Idle /\ MayMishap(worker[w].token)
    /\ Stop(w)
    /\ UNCHANGED <<job, row, exact, asked, sets>>

\* lease_expires_at passes.
LeaseLapses(j) ==
    /\ row[j].state \in {"leased", "cancel-requested"} /\ ~row[j].lapsed
    /\ MayMishap(row[j].token) \/ row[j].state = "cancel-requested"
    /\ row' = [row EXCEPT ![j].lapsed = TRUE]
    /\ UNCHANGED <<job, exact, asked, sets, worker>>

-----------------------------------------------------------------------------

Init ==
    /\ job = [j \in Jobs |-> NoJob]
    /\ row = [j \in Jobs |-> QueuedRow(0)]
    /\ exact = Jobs
    /\ asked = [j \in Jobs |-> 0]
    /\ sets = {}
    /\ worker = [w \in Workers |-> Idle]

UserStep(j) == Create(j) \/ Cancel(j) \/ AskRetry(j) \/ Retry(j) \/ Reopen(j)

RunnerStep(w) ==
    \/ Heartbeat(w) \/ Plan(w) \/ Abstain(w) \/ Refused(w) \/ Acknowledge(w)
    \/ \E answered \in BOOLEAN : Advance(w, answered) \/ Publish(w, answered)
    \/ \E retryable \in BOOLEAN : Fail(w, retryable)

WorkerStep(w) == Claim(w) \/ RunnerStep(w) \/ Throws(w) \/ Crash(w)

Next ==
    \/ \E j \in Jobs : UserStep(j) \/ LeaseLapses(j)
    \/ \E w \in Workers : WorkerStep(w)

Spec == Init /\ [][Next]_vars

-----------------------------------------------------------------------------
(* Properties.                                                             *)

Status(state) ==
    CASE state = "queued" -> "waiting"
      [] state = "running" -> "working"
      [] state = "cancel-requested" -> "stopping"
      [] state = "succeeded" -> "done"
      [] state = "abstained" -> "failed"
      [] OTHER -> state

\* What the option sets of a job were made under.
Output(rows) ==
    IF rows = {} THEN <<0, 0>> ELSE LET s == CHOOSE s \in rows : TRUE IN <<s.attempt, s.claim>>

View ==
    [j \in Jobs |->
        [status |-> Status(job[j].state), attempt |-> job[j].attempt, claims |-> row[j].claims,
         output |-> Output({s \in sets : s.job = j})]]

Leased == INSTANCE LeasedJobs WITH view <- View

\* The queue keeps the promises of LeasedJobs: an option set is the work of
\* the last claim, whatever worker comes back late.
ImplementsLeasedJobs == Leased!Spec

CancellationRequested(w) ==
    LET j == worker[w].job
    IN  IsFenced(w, row[j].version) /\ row[j].state = "cancel-requested"

\* A cancellation of leased work is only requested until the exact fenced
\* worker acknowledges it: then it is done.
AcknowledgementsCancel ==
    [][\A w \in Workers :
         worker[w] # Idle /\ Acknowledge(w) /\ CancellationRequested(w) =>
             job'[worker[w].job].state = "cancelled"]_vars
=============================================================================

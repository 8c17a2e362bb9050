------------------------------ MODULE PlanJobs ------------------------------
(***************************************************************************)
(* The C6 plan processing: the API's jobs, proposals and operation drafts  *)
(* (PostgresPlanProcessingRepository and PlanProcessingService), the queue *)
(* of the plan workers over the same rows (PostgresPlanProcessingQueue),   *)
(* and their runner (PlanProcessingRunner).                                *)
(*                                                                         *)
(* A repository or queue method is one transaction and one action.  A      *)
(* retry is a row of its own, chained to the first by root_job_id.  A      *)
(* source stays ready and its rights stay given: nothing takes them back.  *)
(* Refused and replayed requests change nothing and are left out, as are   *)
(* audit and outbox rows; a calibration is part of the draft that names    *)
(* it, for it is as immutable as its proposal.                             *)
(***************************************************************************)
EXTENDS Integers, Sequences, FiniteSetsExt

CONSTANTS
    Roots,            \* first attempts that may be asked for
    Workers,          \* worker processes
    MaximumAttempts,  \* c6PlanPolicy.maximumAttempts
    MaximumMishaps,   \* bound: claims of one attempt that may end without
                      \* the worker's word
    MaximumRevision   \* bound: commits to the branch that drafts aim at

\* What holds of the constants: a plan may be tried.
PlanConstants == MaximumAttempts \in Nat \ {0}

VARIABLES
    rows,      \* plan_processing_jobs of a root, by attempt
    created,   \* the <<root, attempt>>s in the order of created_at
    results,   \* plan_processing_results
    branch,    \* revision of the C5 branch
    request,   \* the operation draft a request has validated; or NoRequest
    drafts,    \* plan_operation_drafts
    worker     \* what each worker is doing

vars == <<rows, created, results, branch, request, drafts, worker>>

-----------------------------------------------------------------------------
(* Rows.  Each claim draws a fresh lease_token: its number within the      *)
(* attempt stands for it; 0 is NULL.                                       *)

QueuedRow == [state |-> "queued", retryable |-> FALSE, claims |-> 0, token |-> 0, lapsed |-> FALSE]

\* The last attempt of a root, and the row of an attempt.
At(r) == rows[r][Len(rows[r])]

Row(id) == rows[id[1]][id[2]]

Ended(row, state, retryable) ==
    [row EXCEPT !.state = state, !.retryable = retryable, !.token = 0, !.lapsed = FALSE]

SetRow(id, row) == rows' = [rows EXCEPT ![id[1]][id[2]] = row]

\* canRetry
MayRetry(id, retryable) == retryable /\ id[2] < MaximumAttempts

IsProposal(id) == \E r \in results : r.id = id /\ r.status = "proposal"

-----------------------------------------------------------------------------
(* The user's requests.                                                    *)

CreateJob(r) ==
    /\ rows[r] = <<>>
    /\ rows' = [rows EXCEPT ![r] = <<QueuedRow>>]
    /\ created' = Append(created, <<r, 1>>)
    /\ UNCHANGED <<results, branch, request, drafts, worker>>

\* #transition(cancel): only the last attempt can be live.
CancelJob(r) ==
    /\ rows[r] # <<>>
    /\ \/ /\ At(r).state = "queued"
          /\ SetRow(<<r, Len(rows[r])>>, Ended(At(r), "cancelled", FALSE))
       \/ /\ At(r).state = "processing"
          /\ SetRow(<<r, Len(rows[r])>>, [At(r) EXCEPT !.state = "cancel-requested"])
    /\ UNCHANGED <<created, results, branch, request, drafts, worker>>

\* #transition(retry): of any attempt that has no next one yet.
RetryJob(r, attempt) ==
    /\ attempt \in 1..Len(rows[r])
    /\ rows[r][attempt].state \in {"abstained", "failed"} /\ rows[r][attempt].retryable
    /\ attempt < MaximumAttempts /\ attempt = Len(rows[r])
    /\ rows' = [rows EXCEPT ![r] = Append(@, QueuedRow)]
    /\ created' = Append(created, <<r, attempt + 1>>)
    /\ UNCHANGED <<results, branch, request, drafts, worker>>

-----------------------------------------------------------------------------
(* Operation drafts.                                                       *)

NoRequest == [id |-> <<>>]

\* PlanProcessingService.createOperationDraft, up to the transaction: the
\* proposal, the calibration and the branch are read, and the operations are
\* reduced on the head that the request expects.
ValidateDraft(r, attempt) ==
    /\ request = NoRequest
    /\ attempt \in 1..Len(rows[r]) /\ IsProposal(<<r, attempt>>)
    /\ request' = [id |-> <<r, attempt>>, expects |-> branch]
    /\ UNCHANGED <<rows, created, results, branch, drafts, worker>>

\* A commit or an undo of the branch by ModelBranches: the head it moves to is
\* never an earlier one.
BranchMoves ==
    /\ branch < MaximumRevision
    /\ branch' = branch + 1
    /\ UNCHANGED <<rows, created, results, request, drafts, worker>>

StoreStale ==
    /\ request # NoRequest /\ IsProposal(request.id)
    /\ drafts' = drafts \cup {[id |-> request.id, validatedOn |-> request.expects, storedAt |-> branch]}
    /\ request' = NoRequest
    /\ UNCHANGED <<rows, created, results, branch, worker>>

\* PostgresPlanProcessingRepository.createOperationDraft.
StoreDraft ==
    /\ request # NoRequest /\ IsProposal(request.id)
    /\ branch = request.expects
    /\ drafts' = drafts \cup {[id |-> request.id, validatedOn |-> request.expects, storedAt |-> branch]}
    /\ request' = NoRequest
    /\ UNCHANGED <<rows, created, results, branch, worker>>

DraftRefused ==
    /\ request # NoRequest /\ branch # request.expects
    /\ request' = NoRequest
    /\ UNCHANGED <<rows, created, results, branch, drafts, worker>>

-----------------------------------------------------------------------------
(* claimNext.                                                              *)

Idle == [phase |-> "idle"]

NoneIsOverdue(row) == FALSE

IsOverdue(row) == row.state = "cancel-requested" /\ row.lapsed

IsClaimable(row) == row.state = "queued" \/ (row.state = "processing" /\ row.lapsed)

\* The sweep of abandoned cancellations.
Swept == [r \in Roots |-> [i \in DOMAIN rows[r] |->
    IF IsOverdue(rows[r][i]) THEN Ended(rows[r][i], "cancelled", FALSE) ELSE rows[r][i]]]

\* The places of the candidates in the order of created_at.
Claimable == {i \in DOMAIN created : IsClaimable(Row(created[i]))}

\* Sweeps, and leases the oldest job that waits or was left.
Claim(w) ==
    /\ worker[w] = Idle /\ Claimable # {}
    /\ LET id == created[Min(Claimable)]
           claim == Row(id).claims + 1
       IN  /\ rows' = [Swept EXCEPT ![id[1]][id[2]] =
                 [state |-> "processing", retryable |-> FALSE, claims |-> claim,
                  token |-> claim, lapsed |-> FALSE]]
           /\ worker' = [worker EXCEPT ![w] = [phase |-> "normalizing", id |-> id, token |-> claim]]
    /\ UNCHANGED <<created, results, branch, request, drafts>>

SweepOnly(w) ==
    /\ worker[w] = Idle /\ Claimable = {}
    /\ Swept # rows
    /\ rows' = Swept
    /\ UNCHANGED <<created, results, branch, request, drafts, worker>>

-----------------------------------------------------------------------------
(* The runner, and the queue's methods it calls with its lease.            *)

HasToken(w) == Row(worker[w].id).token = worker[w].token

HoldsAnyLease(w) == Row(worker[w].id).state = "processing"

Holds(w) ==
    HasToken(w) /\ Row(worker[w].id).state = "processing" /\ ~Row(worker[w].id).lapsed

CancelIsRequested(w) == HasToken(w) /\ Row(worker[w].id).state = "cancel-requested"

MayMishap(token) == token <= MaximumMishaps

Stop(w) == worker' = [worker EXCEPT ![w] = Idle]

Goes(w, phase) == worker' = [worker EXCEPT ![w].phase = phase]

\* The heartbeat after normalizing, and the one after parsing: there is no
\* other, however long either takes.
Beats == [normalizing |-> "parsing", parsed |-> "publishing"]

Heartbeat(w) ==
    /\ worker[w].phase \in DOMAIN Beats /\ Holds(w)
    /\ Goes(w, Beats[worker[w].phase])
    /\ UNCHANGED <<rows, created, results, branch, request, drafts>>

HeartbeatCancels(w) ==
    /\ worker[w].phase \in DOMAIN Beats /\ CancelIsRequested(w)
    /\ Goes(w, "cancelling")
    /\ UNCHANGED <<rows, created, results, branch, request, drafts>>

HeartbeatLost(w) ==
    /\ worker[w].phase \in DOMAIN Beats /\ ~Holds(w) /\ ~CancelIsRequested(w)
    /\ Stop(w)
    /\ UNCHANGED <<rows, created, results, branch, request, drafts>>

Parse(w) ==
    /\ worker[w].phase = "parsing"
    /\ Goes(w, "parsed")
    /\ UNCHANGED <<rows, created, results, branch, request, drafts>>

\* publish; its answer may be lost, and then the runner fails the attempt.
Publish(w, status, retryable, answered) ==
    LET id == worker[w].id
        state == IF status = "proposal" THEN "proposed" ELSE "abstained"
    IN  /\ worker[w].phase = "publishing" /\ Holds(w)
        /\ SetRow(id, Ended(Row(id), state, status = "abstained" /\ MayRetry(id, retryable)))
        /\ results' = results \cup {[id |-> id, claim |-> worker[w].token, status |-> status]}
        /\ IF answered THEN Stop(w) ELSE Goes(w, "failing")
        /\ UNCHANGED <<created, branch, request, drafts>>

PublishFenced(w) ==
    /\ worker[w].phase = "publishing" /\ ~Holds(w)
    /\ Stop(w)
    /\ UNCHANGED <<rows, created, results, branch, request, drafts>>

\* Anything throws, the deadline among it.
Throws(w) ==
    /\ worker[w].phase \in {"normalizing", "parsing", "parsed", "publishing"}
    /\ Goes(w, "failing")
    /\ UNCHANGED <<rows, created, results, branch, request, drafts>>

\* fail: a requested cancellation ends as cancelled, lapsed or not.
Fail(w, retryable) ==
    LET id == worker[w].id
    IN  /\ worker[w].phase = "failing"
        /\ \/ /\ CancelIsRequested(w)
              /\ SetRow(id, Ended(Row(id), "cancelled", FALSE))
           \/ /\ Holds(w)
              /\ SetRow(id, Ended(Row(id), "failed", MayRetry(id, retryable)))
           \/ /\ ~CancelIsRequested(w) /\ ~Holds(w)
              /\ UNCHANGED rows
        /\ Stop(w)
        /\ UNCHANGED <<created, results, branch, request, drafts>>

\* acknowledgeCancellation
Acknowledge(w) ==
    /\ worker[w].phase = "cancelling"
    /\ \/ /\ CancelIsRequested(w)
          /\ SetRow(worker[w].id, Ended(Row(worker[w].id), "cancelled", FALSE))
       \/ /\ ~CancelIsRequested(w)
          /\ UNCHANGED rows
    /\ Stop(w)
    /\ UNCHANGED <<created, results, branch, request, drafts>>

\* The process stops; it does so too when fail or acknowledgeCancellation
\* gets no answer, which ends run.
Crash(w) ==
    /\ worker[w] # Idle /\ MayMishap(worker[w].token)
    /\ Stop(w)
    /\ UNCHANGED <<rows, created, results, branch, request, drafts>>

\* lease_expires_at passes, under a worker that parses for long or is gone.
LeaseLapses(r) ==
    /\ rows[r] # <<>> /\ At(r).state \in {"processing", "cancel-requested"} /\ ~At(r).lapsed
    /\ MayMishap(At(r).token) \/ At(r).state = "cancel-requested"
    /\ rows' = [rows EXCEPT ![r][Len(rows[r])].lapsed = TRUE]
    /\ UNCHANGED <<created, results, branch, request, drafts, worker>>

-----------------------------------------------------------------------------

Init ==
    /\ rows = [r \in Roots |-> <<>>]
    /\ created = <<>>
    /\ results = {}
    /\ branch = 0
    /\ request = NoRequest
    /\ drafts = {}
    /\ worker = [w \in Workers |-> Idle]

UserStep(r) ==
    \/ CreateJob(r) \/ CancelJob(r)
    \/ \E attempt \in 1..MaximumAttempts : RetryJob(r, attempt) \/ ValidateDraft(r, attempt)

DraftStep == BranchMoves \/ StoreDraft \/ DraftRefused

ClaimStep(w) == Claim(w) \/ SweepOnly(w)

RunnerStep(w) ==
    \/ Heartbeat(w) \/ HeartbeatCancels(w) \/ HeartbeatLost(w) \/ Parse(w)
    \/ \E status \in {"proposal", "abstained"}, retryable, answered \in BOOLEAN :
          Publish(w, status, retryable, answered)
    \/ PublishFenced(w)
    \/ \E retryable \in BOOLEAN : Fail(w, retryable)
    \/ Acknowledge(w)

WorkerStep(w) == ClaimStep(w) \/ RunnerStep(w) \/ Throws(w) \/ Crash(w)

Next ==
    \/ \E r \in Roots : UserStep(r) \/ LeaseLapses(r)
    \/ DraftStep
    \/ \E w \in Workers : WorkerStep(w)

Spec == Init /\ [][Next]_vars

\* No process executes the lease any more.
Abandoned(r) ==
    ~\E w \in Workers : worker[w] # Idle /\ worker[w].id = <<r, Len(rows[r])>> /\ HasToken(w)

\* The runners poll and go on, and an abandoned lease lapses.
Fairness ==
    /\ \A w \in Workers : WF_vars(ClaimStep(w)) /\ WF_vars(RunnerStep(w))
    /\ \A r \in Roots : WF_vars(Abandoned(r) /\ LeaseLapses(r))

FairSpec == Spec /\ Fairness

-----------------------------------------------------------------------------
(* Properties.                                                             *)

\* The operations of a stored draft were reduced on the very head its branch
\* had when it was stored, whatever was committed between the reading and the
\* storing, and they come from a proposal that can no longer change.
DraftsFitTheirBranch ==
    \A d \in drafts :
        /\ d.validatedOn = d.storedAt
        /\ Row(d.id).state = "proposed"
        /\ \E x \in results : {y \in results : y.id = d.id} = {x}

\* Of a root as one job: an abstention is an attempt that failed.
State(attempts) == IF attempts = <<>> THEN "absent" ELSE attempts[Len(attempts)].state

Status(state) ==
    CASE state = "queued" -> "waiting"
      [] state = "processing" -> "working"
      [] state = "cancel-requested" -> "stopping"
      [] state = "proposed" -> "done"
      [] state = "abstained" -> "failed"
      [] OTHER -> state

Claims(attempts) == IF attempts = <<>> THEN 0 ELSE attempts[Len(attempts)].claims

\* What the proposals of a root were made under.
Output(proposals) ==
    IF proposals = {} THEN <<0, 0>>
    ELSE LET x == CHOOSE x \in proposals : TRUE IN <<x.id[2], x.claim>>

View ==
    [r \in Roots |->
        [status |-> Status(State(rows[r])), attempt |-> Len(rows[r]), claims |-> Claims(rows[r]),
         output |-> Output({x \in results : x.id[1] = r /\ x.status = "proposal"})]]

Leased == INSTANCE LeasedJobs WITH Jobs <- Roots, view <- View

\* A plan job with its retries keeps the promises of LeasedJobs: among them
\* that one attempt is live at a time and nothing follows a proposal.
ImplementsLeasedJobs == Leased!Spec

IsLive(r) == rows[r] # <<>> /\ At(r).state \in {"queued", "processing", "cancel-requested"}

\* Every attempt ends: neither a worker that parses beyond its lease, nor one
\* that is gone, nor a cancellation nobody acknowledges leaves it live.
PlansEnd == \A r \in Roots : IsLive(r) ~> ~IsLive(r)
=============================================================================

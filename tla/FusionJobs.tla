----------------------------- MODULE FusionJobs -----------------------------
(***************************************************************************)
(* The C9 model fusion: the jobs, proposals, reviews and operation drafts  *)
(* of PostgresModelFusionRepository, the queue of every spatial worker     *)
(* (PostgresFusionProcessingQueue) and its FusionProcessingRunner.         *)
(*                                                                         *)
(* A method is one transaction and one action.  Rights are of sources, and *)
(* a job needs them all.  They end in two ways: withdrawSource ends the    *)
(* jobs with them, while the capture, reconstruction or asset a source was *)
(* made of loses them without a word to C9 (c9_source_rights_active).  A   *)
(* transaction that reads the rights while a withdrawal is open leaves the *)
(* rows an end of the second kind leaves.  Jobs are named in the order of  *)
(* created_at.  Refused and replayed requests change nothing.              *)
(***************************************************************************)
EXTENDS Integers, FiniteSets, FiniteSetsExt

CONSTANTS
    Workers,          \* worker processes
    Jobs,             \* fusion jobs 1..n
    SourcesOf,        \* the sources of each job
    Discrepancies,    \* discrepancies of a proposal
    MaximumAttempts,  \* c9FusionPolicy.maximumAttempts
    MaximumMishaps,   \* bound: claims of one attempt that may end without
                      \* the worker's word
    MaximumVersion    \* bound: reviews of a proposal, and the one it starts with

\* What holds of the constants: jobs are numbered, and a job may be tried.
FusionConstants == Jobs \subseteq Nat /\ MaximumAttempts \in Nat \ {0}

VARIABLES
    job,        \* fusion_jobs
    row,        \* the fusion_attempts row of a job's present attempt
    withdrawn,  \* fusion_source_rights_withdrawals
    ended,      \* sources whose rights ended elsewhere
    proposals,  \* fusion_proposals
    version,    \* fusion_proposal_review_heads
    decisions,  \* fusion_discrepancy_decisions
    drafts,     \* fusion_operation_drafts
    worker      \* what each worker is doing

queueVars == <<job, row, proposals, version>>
rightsVars == <<withdrawn, ended>>
reviewVars == <<decisions, drafts>>
vars == <<queueVars, rightsVars, reviewVars, worker>>

Sources == UNION {SourcesOf[j] : j \in Jobs}

-----------------------------------------------------------------------------
(* Rows.  Each claim draws a fresh lease_token: its number within the      *)
(* attempt stands for it; 0 is NULL.                                       *)

Active == {"registering", "fitting", "comparing"}

QueuedRow == [state |-> "queued", stage |-> "registering", claims |-> 0, token |-> 0, lapsed |-> FALSE]

Ended(j, state) == [row[j] EXCEPT !.state = state, !.token = 0, !.lapsed = FALSE]

SetRows(j, newRow, state, retryable) ==
    /\ row' = [row EXCEPT ![j] = newRow]
    /\ job' = [job EXCEPT ![j].state = state, ![j].retryable = retryable]

\* #cancelAttempt, and #cancel of the worker
CancelAttempt(j) == SetRows(j, Ended(j, "cancelled"), "cancelled", TRUE)

\* sourcesStillEligible, and rightsActive of the worker
RightsActive(j) == SourcesOf[j] \cap (withdrawn \cup ended) = {}

-----------------------------------------------------------------------------
(* The user's requests, and the rights.                                    *)

\* createJob; the service verified the sources in an earlier transaction.
Create(j) ==
    /\ job[j].state = "absent" /\ \A k \in Jobs : k < j => job[k].state # "absent"
    /\ job' = [job EXCEPT ![j] = [state |-> "queued", retryable |-> FALSE, attempt |-> 1]]
    /\ row' = [row EXCEPT ![j] = QueuedRow]
    /\ UNCHANGED <<proposals, version, rightsVars, reviewVars, worker>>

\* #transition(cancel)
Cancel(j) ==
    /\ \/ /\ job[j].state = "queued"
          /\ CancelAttempt(j)
       \/ /\ job[j].state \in Active
          /\ SetRows(j, [row[j] EXCEPT !.state = "cancel-requested"], "cancel-requested", FALSE)
    /\ UNCHANGED <<proposals, version, rightsVars, reviewVars, worker>>

\* #transition(retry)
Retry(j) ==
    /\ job[j].state \in {"cancelled", "failed", "abstained"} /\ job[j].retryable
    /\ job[j].attempt < MaximumAttempts /\ RightsActive(j)
    /\ job' = [job EXCEPT ![j] = [state |-> "queued", retryable |-> FALSE, attempt |-> @.attempt + 1]]
    /\ row' = [row EXCEPT ![j] = QueuedRow]
    /\ UNCHANGED <<proposals, version, rightsVars, reviewVars, worker>>

\* withdrawSource: queued jobs fail, active ones are asked to stop.
WithdrawSource(s) ==
    LET affected == {j \in Jobs : s \in SourcesOf[j] /\ job[j].state \in Active \cup {"queued"}}
    IN  /\ s \notin withdrawn
        /\ withdrawn' = withdrawn \cup {s}
        /\ job' = [j \in Jobs |->
              IF j \notin affected THEN job[j]
              ELSE [job[j] EXCEPT !.retryable = FALSE,
                                  !.state = IF @ = "queued" THEN "failed" ELSE "cancel-requested"]]
        /\ row' = [j \in Jobs |->
              IF j \notin affected THEN row[j]
              ELSE [row[j] EXCEPT !.state = IF @ = "queued" THEN "failed" ELSE "cancel-requested"]]
        /\ UNCHANGED <<proposals, version, ended, reviewVars, worker>>

\* A capture's, a reconstruction's or an asset's rights end, by their own
\* components.
RightsEnd(s) ==
    /\ s \notin ended
    /\ ended' = ended \cup {s}
    /\ UNCHANGED <<queueVars, withdrawn, reviewVars, worker>>

-----------------------------------------------------------------------------
(* claim.                                                                  *)

Idle == [phase |-> "idle"]

Candidates ==
    {j \in Jobs : \/ job[j].state = "queued" /\ row[j].state = "queued"
                  \/ /\ job[j].state \in Active \cup {"cancel-requested"}
                     /\ row[j].state \in {"leased", "cancel-requested"} /\ row[j].lapsed}

\* The oldest candidate is cancelled when its cancellation is overdue; else it
\* is leased at the stage its last worker had reached.
Claim(w) ==
    /\ worker[w] = Idle /\ Candidates # {}
    /\ LET j == Min(Candidates)
           claim == row[j].claims + 1
           stage == IF job[j].state = "queued" THEN "registering" ELSE job[j].state
       IN  \/ /\ job[j].state = "cancel-requested"
              /\ CancelAttempt(j)
              /\ UNCHANGED worker
           \/ /\ job[j].state # "cancel-requested" /\ RightsActive(j)
              /\ SetRows(j, [state |-> "leased", stage |-> stage, claims |-> claim,
                             token |-> claim, lapsed |-> FALSE],
                         stage, job[j].retryable)
              /\ worker' = [worker EXCEPT ![w] =
                    [phase |-> "registering", job |-> j, attempt |-> job[j].attempt, token |-> claim]]
    /\ UNCHANGED <<proposals, version, rightsVars, reviewVars>>

\* Without its rights the oldest candidate fails.  #failUnleased leaves the
\* lease columns alone, so that the constraint fusion_attempts_lease_state
\* refuses it for a job that was leased: the transaction rolls back, claim
\* throws out of the runner and the worker process ends.
ClaimWithoutRights(w) ==
    /\ worker[w] = Idle /\ Candidates # {}
    /\ LET j == Min(Candidates)
       IN  /\ job[j].state # "cancel-requested" /\ ~RightsActive(j)
           /\ \/ /\ row[j].token = 0
                 /\ SetRows(j, [row[j] EXCEPT !.state = "failed"], "failed", FALSE)
                 /\ UNCHANGED worker
              \/ /\ row[j].token # 0
                 /\ worker' = [worker EXCEPT ![w] = [phase |-> "stopped"]]
                 /\ UNCHANGED <<job, row>>
    /\ UNCHANGED <<proposals, version, rightsVars, reviewVars>>

\* The process is started again.
Restart(w) ==
    /\ worker[w].phase = "stopped"
    /\ worker' = [worker EXCEPT ![w] = Idle]
    /\ UNCHANGED <<queueVars, rightsVars, reviewVars>>

-----------------------------------------------------------------------------
(* The runner and what it calls with its lease.                            *)

IsToken(w) ==
    /\ job[worker[w].job].attempt = worker[w].attempt
    /\ row[worker[w].job].token = worker[w].token

HoldsAnyLease(w) == row[worker[w].job].state = "leased"

\* assertLease
Holds(w) == IsToken(w) /\ row[worker[w].job].state = "leased" /\ ~row[worker[w].job].lapsed

\* advance: allowed
Allowed == {<<"registering", "registering">>, <<"registering", "fitting">>, <<"fitting", "fitting">>,
            <<"fitting", "comparing">>, <<"comparing", "comparing">>}

Stop(w) == worker' = [worker EXCEPT ![w] = Idle]

Goes(w, phase) == worker' = [worker EXCEPT ![w].phase = phase]

\* safeFailure: what #process asks fail for.
Fails(w, retryable) == Goes(w, IF retryable THEN "failing-retryable" ELSE "failing")

\* The stage #process asks for when a phase is done.
NextStage(phase) == IF phase = "registering" THEN "fitting" ELSE "comparing"

\* advance, after the registration or after a fit that did not abstain.  A
\* lease that is gone or a stage that is refused throws.
Advance(w) ==
    LET e == worker[w]
        stage == NextStage(e.phase)
    IN  /\ e.phase \in {"registering", "fitting"}
        /\ IF Holds(w) /\ <<row[e.job].stage, stage>> \in Allowed
           THEN /\ SetRows(e.job, [row[e.job] EXCEPT !.stage = stage], stage, job[e.job].retryable)
                /\ Goes(w, stage)
           ELSE Fails(w, FALSE) /\ UNCHANGED <<job, row>>
        /\ UNCHANGED <<proposals, version, rightsVars, reviewVars>>

\* fit abstains: no more stages.
Abstain(w) ==
    /\ worker[w].phase = "fitting"
    /\ Goes(w, "abstaining")
    /\ UNCHANGED <<queueVars, rightsVars, reviewVars>>

Executing(w) == worker[w].phase \in {"registering", "fitting", "abstaining", "comparing"}

\* A source, a producer, a heartbeat or a check of the signal throws; only a
\* producer that ran out of time asks for another attempt.
Throws(w, retryable) ==
    /\ Executing(w)
    /\ Fails(w, retryable)
    /\ UNCHANGED <<queueVars, rightsVars, reviewVars>>

\* publish; its answer may be lost.  Rights that are gone fail the job, and
\* the runner is told.
Publish(w, answered) ==
    LET e == worker[w]
        status == IF e.phase = "abstaining" THEN "abstained" ELSE "proposed"
    IN  /\ e.phase \in {"abstaining", "comparing"}
        /\ IF ~Holds(w) \/ (status = "proposed" /\ job[e.job].state # "comparing")
           THEN Fails(w, FALSE) /\ UNCHANGED queueVars
           ELSE IF ~RightsActive(e.job)
           THEN /\ SetRows(e.job, Ended(e.job, "failed"), "failed", FALSE)
                /\ Fails(w, FALSE)
                /\ UNCHANGED <<proposals, version>>
           ELSE /\ proposals' = proposals \cup
                      {[job |-> e.job, attempt |-> e.attempt, claim |-> e.token, status |-> status]}
                /\ version' = IF status = "proposed" THEN [version EXCEPT ![e.job] = 1] ELSE version
                /\ SetRows(e.job, Ended(e.job, "succeeded"), status,
                           status = "abstained" /\ e.attempt < MaximumAttempts)
                /\ IF answered THEN Stop(w) ELSE Fails(w, FALSE)
        /\ UNCHANGED <<rightsVars, reviewVars>>

\* fail; when it is refused the runner tries acknowledgeCancellation.
Fail(w) ==
    LET e == worker[w]
    IN  /\ e.phase \in {"failing", "failing-retryable"}
        /\ IF Holds(w)
           THEN /\ SetRows(e.job, Ended(e.job, "failed"), "failed",
                           e.phase = "failing-retryable" /\ e.attempt < MaximumAttempts)
                /\ Stop(w)
           ELSE Goes(w, "acknowledging") /\ UNCHANGED <<job, row>>
        /\ UNCHANGED <<proposals, version, rightsVars, reviewVars>>

\* acknowledgeCancellation before the lease lapses; or it is refused.
Acknowledge(w) ==
    /\ worker[w].phase = "acknowledging"
    /\ IF IsToken(w) /\ row[worker[w].job].state = "cancel-requested" /\ ~row[worker[w].job].lapsed
       THEN CancelAttempt(worker[w].job)
       ELSE UNCHANGED <<job, row>>
    /\ Stop(w)
    /\ UNCHANGED <<proposals, version, rightsVars, reviewVars>>

MayMishap(token) == token <= MaximumMishaps

\* The process stops, or its last calls get no answer.
Crash(w) ==
    /\ worker[w].phase \notin {"idle", "stopped"} /\ MayMishap(worker[w].token)
    /\ Stop(w)
    /\ UNCHANGED <<queueVars, rightsVars, reviewVars>>

\* lease_expires_at passes.
LeaseLapses(j) ==
    /\ row[j].state \in {"leased", "cancel-requested"} /\ ~row[j].lapsed
    /\ MayMishap(row[j].token) \/ row[j].state = "cancel-requested"
    /\ row' = [row EXCEPT ![j].lapsed = TRUE]
    /\ UNCHANGED <<job, proposals, version, rightsVars, reviewVars, worker>>

-----------------------------------------------------------------------------
(* Reviews and drafts of a published proposal.                             *)

\* reviewDiscrepancies, asked at the version the reviewer has seen.
Review(j, seen, discrepancies, accepted) ==
    /\ job[j].state = "proposed" /\ discrepancies # {}
    /\ seen = version[j] /\ version[j] < MaximumVersion
    /\ version' = [version EXCEPT ![j] = @ + 1]
    /\ decisions' = decisions \cup
          {[job |-> j, discrepancy |-> d, version |-> version[j] + 1, accepted |-> accepted] :
              d \in discrepancies}
    /\ UNCHANGED <<job, row, proposals, rightsVars, drafts, worker>>

AnyDecision(ds) == ds

\* The decisions no later one supersedes: latestIds.
Latest(ds) == {d \in ds : ~\E e \in ds :
                  e.job = d.job /\ e.discrepancy = d.discrepancy /\ e.version > d.version}

\* createOperationDraft of decisions that yield operations.  The branch is
\* pinned as it was asked for; C5 compares it when the draft is committed.
CreateOperationDraft(j, seen, chosen) ==
    /\ job[j].state = "proposed" /\ seen = version[j]
    /\ chosen \subseteq {d \in Latest(decisions) : d.job = j}
    /\ \E d \in chosen : d.accepted
    /\ drafts' = drafts \cup {[job |-> j, version |-> seen, decisions |-> chosen]}
    /\ UNCHANGED <<queueVars, rightsVars, decisions, worker>>

-----------------------------------------------------------------------------

Init ==
    /\ job = [j \in Jobs |-> [state |-> "absent", retryable |-> FALSE, attempt |-> 0]]
    /\ row = [j \in Jobs |-> QueuedRow]
    /\ withdrawn = {} /\ ended = {}
    /\ proposals = {}
    /\ version = [j \in Jobs |-> 0]
    /\ decisions = {} /\ drafts = {}
    /\ worker = [w \in Workers |-> Idle]

UserStep(j) ==
    \/ Create(j) \/ Cancel(j) \/ Retry(j)
    \/ \E seen \in 1..MaximumVersion :
          \/ \E discrepancies \in SUBSET Discrepancies, accepted \in BOOLEAN :
                Review(j, seen, discrepancies, accepted)
          \/ \E chosen \in SUBSET decisions : CreateOperationDraft(j, seen, chosen)

RunnerStep(w) ==
    \/ Advance(w) \/ Fail(w) \/ Acknowledge(w)
    \/ \E answered \in BOOLEAN : Publish(w, answered)

WorkerStep(w) ==
    \/ Claim(w) \/ ClaimWithoutRights(w) \/ Restart(w)
    \/ RunnerStep(w) \/ Abstain(w)
    \/ \E retryable \in BOOLEAN : Throws(w, retryable)
    \/ Crash(w)

Next ==
    \/ \E j \in Jobs : UserStep(j) \/ LeaseLapses(j)
    \/ \E s \in Sources : WithdrawSource(s) \/ RightsEnd(s)
    \/ \E w \in Workers : WorkerStep(w)

Spec == Init /\ [][Next]_vars

\* No process executes the lease any more, so none renews it.
Abandoned(j) ==
    ~\E w \in Workers : worker[w].phase \notin {"idle", "stopped"} /\ worker[w].job = j /\ IsToken(w)

\* The runners poll and go on, processes are started again, and an abandoned
\* lease lapses.
Fairness ==
    /\ \A w \in Workers :
          WF_vars(RunnerStep(w)) /\ WF_vars(Restart(w)) /\ WF_vars(Claim(w) \/ ClaimWithoutRights(w))
    /\ \A j \in Jobs : WF_vars(Abandoned(j) /\ LeaseLapses(j))

FairSpec == Spec /\ Fairness

-----------------------------------------------------------------------------
(* Properties.                                                             *)

\* A draft holds the decisions that were the last on their discrepancies at
\* the version of the review it was asked at: a reviewer's later word is never
\* overlooked by a draft that is asked for beside it.
DraftsFollowTheReview ==
    \A draft \in drafts : \A d \in draft.decisions :
        /\ d.job = draft.job /\ d.version <= draft.version
        /\ ~\E e \in decisions : /\ e.job = d.job /\ e.discrepancy = d.discrepancy
                                 /\ d.version < e.version /\ e.version <= draft.version

Status(state) ==
    CASE state = "queued" -> "waiting"
      [] state \in Active -> "working"
      [] state = "cancel-requested" -> "stopping"
      [] state = "proposed" -> "done"
      [] state = "abstained" -> "failed"
      [] OTHER -> state

\* What the proposals of a job were made under.
Output(published) ==
    IF published = {} THEN <<0, 0>>
    ELSE LET p == CHOOSE p \in published : TRUE IN <<p.attempt, p.claim>>

View ==
    [j \in Jobs |->
        [status |-> Status(job[j].state), attempt |-> job[j].attempt, claims |-> row[j].claims,
         output |-> Output({p \in proposals : p.job = j /\ p.status = "proposed"})]]

Leased == INSTANCE LeasedJobs WITH view <- View

\* The queue keeps the promises of LeasedJobs: a proposal is the work of the
\* last claim and the job of a proposal never changes again; an abstention is a
\* failure that may be tried again.
ImplementsLeasedJobs == Leased!Spec

Unfinished(j) == job[j].state \in Active \cup {"queued", "cancel-requested"}

\* Fusion jobs end, unless their rights end elsewhere or the jobs before them
\* are such.
FusionsEnd ==
    \A j \in Jobs : Unfinished(j) ~> ~Unfinished(j) \/ ended # {}

\* Source rights are rechecked when a job is claimed, and a job without them
\* ends, as the runbook and the contract of C9 say; not so when its worker's
\* lease had lapsed.
WorkWithoutRightsEnds ==
    \A j \in Jobs : ~RightsActive(j) /\ Unfinished(j) ~> ~Unfinished(j)
=============================================================================

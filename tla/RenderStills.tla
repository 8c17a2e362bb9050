---------------------------- MODULE RenderStills ----------------------------
(***************************************************************************)
(* The C14 render stills: the leased queue in PostgreSQL                   *)
(* (PostgresRenderRepository, with its claim function in migration 0014),  *)
(* the reservations of disk space on the volumes that workers render on,   *)
(* and the runner of every worker (RenderStillRunner).                     *)
(*                                                                         *)
(* A repository method is one transaction and one action; the claim is two *)
(* because it holds an advisory lock between reading the reservations of   *)
(* its volume and adding one.  Refused and replayed requests               *)
(* (Idempotency-Key, expectedVersion) change nothing and are left out, as  *)
(* are the audit, event and outbox rows every transaction appends.         *)
(***************************************************************************)
EXTENDS Integers, Sequences, FiniteSets, FiniteSetsExt, Functions

CONSTANTS
    Workers,          \* worker processes
    Jobs,             \* render jobs that may be created, one per cache identity
    Volumes,
    VolumeOf,         \* the volume a worker renders on
    Estimate,         \* estimated_job_bytes of a job
    Floor,            \* the bytes every admission leaves free: 15 GiB
    FreeBytes,        \* what a measurement of the free bytes may return
    MaximumAttempts,
    MaximumTries,     \* bound: attempts of all jobs together
    MaximumMishaps    \* bound: claims of one attempt that may end without
                      \* the worker's word

\* What holds of the constants: a worker renders on one of the volumes, and a
\* job may be tried.
RenderConstants == VolumeOf \in [Workers -> Volumes] /\ MaximumAttempts \in Nat \ {0}

\* And of the disk: the floor is at least twice what a job may be estimated at,
\* 15 GiB to 2.
DiskConstants ==
    /\ Estimate \in [Jobs -> Nat] /\ Floor \in Nat /\ FreeBytes \subseteq Nat
    /\ \A j \in Jobs : 2 * Estimate[j] <= Floor

VARIABLES
    job,          \* render_jobs
    heads,        \* render_attempt_heads of a job, by attempt
    reserved,     \* render_disk_reservations without a release
    results,      \* render_results
    enhancement,  \* render_enhancement_jobs.state of a job
    worker        \* what each worker is doing

vars == <<job, heads, reserved, results, enhancement, worker>>

-----------------------------------------------------------------------------
(* Rows.  Each claim draws a fresh lease_token: its number within the      *)
(* attempt stands for it; 0 is NULL.                                       *)

Stages == {"preparing", "rendering-safe", "validating-safe", "publishing-safe"}

Queued == [state |-> "queued", stage |-> "preparing", claims |-> 0, token |-> 0, lapsed |-> FALSE]

\* The head of the attempt the job is at.
At(j) == heads[j][Len(heads[j])]

SetRows(j, headRow, jobRow) ==
    /\ heads' = [heads EXCEPT ![j][Len(heads[j])] = headRow]
    /\ job' = [job EXCEPT ![j] = jobRow]

Ended(j, state) == [At(j) EXCEPT !.state = state, !.token = 0, !.lapsed = FALSE]

JobBecomes(j, state, retryable) == [job[j] EXCEPT !.state = state, !.retryable = retryable]

\* releaseReservation of the job's attempt.
ReleaseIfPublished(j) ==
    reserved' = {r \in reserved : r.job # j \/ r.attempt # Len(heads[j]) \/ job[j].state # "publishing-safe"}

Release(j) == reserved' = {r \in reserved : r.job # j \/ r.attempt # Len(heads[j])}

\* A claim holds the locks of its candidate's rows.
Locked(j) == \E w \in Workers : worker[w].phase = "claiming" /\ worker[w].job = j

-----------------------------------------------------------------------------
(* Admission to the disk of a volume.                                      *)

ReservedOn(v) == {r \in reserved : r.volume = v}

Bytes(reservations) == MapThenSumSet(LAMBDA r : Estimate[r.job], reservations)

Greatest(m, n) == IF m > n THEN m ELSE n

\* required_unreserved
Required(j) == Greatest(Floor + Estimate[j], 3 * Estimate[j])

ReservationOf(j) == {r \in reserved : r.job = j /\ r.attempt = Len(heads[j])}

\* What the other attempts have reserved of the volume.
Others(j, v) == Bytes(ReservedOn(v) \ ReservationOf(j))

\* c14_recheck_disk_reservation: the clauses about the disk.
Admitted(j, free) == \E r \in ReservationOf(j) : free - Others(j, r.volume) >= Required(j)

-----------------------------------------------------------------------------
(* The user's requests.                                                    *)

MayTry == MapThenSumSet(LAMBDA j : Len(heads[j]), Jobs) < MaximumTries

\* createJob: a new cache identity.
Create(j) ==
    /\ job[j].state = "absent" /\ MayTry
    /\ job' = [job EXCEPT ![j].state = "queued"]
    /\ heads' = [heads EXCEPT ![j] = <<Queued>>]
    /\ UNCHANGED <<reserved, results, enhancement, worker>>

\* #transition(cancel).
Cancel(j) ==
    /\ ~Locked(j)
    /\ \/ /\ job[j].state = "queued"
          /\ SetRows(j, Ended(j, "cancelled"), JobBecomes(j, "cancelled", TRUE))
       \/ /\ job[j].state \in Stages
          /\ SetRows(j, [At(j) EXCEPT !.state = "cancel-requested"],
                        JobBecomes(j, "cancel-requested", job[j].retryable))
    /\ UNCHANGED <<reserved, results, enhancement, worker>>

\* #transition(retry).
Retry(j) ==
    /\ ~Locked(j)
    /\ job[j].state \in {"cancelled", "failed"} /\ job[j].retryable
    /\ Len(heads[j]) < MaximumAttempts /\ MayTry
    /\ job' = [job EXCEPT ![j] = JobBecomes(j, "queued", FALSE)]
    /\ heads' = [heads EXCEPT ![j] = Append(@, Queued)]
    /\ UNCHANGED <<reserved, results, enhancement, worker>>

\* ensureEnhancementChild: ON CONFLICT DO NOTHING, for a published job.
EnsureChild(j, enabled) ==
    IF job[j].state = "succeeded" /\ enhancement[j] = "absent"
    THEN IF enabled THEN "queued" ELSE "disabled"
    ELSE enhancement[j]

\* requestEnhancement: the child is made if publishResult could not, and
\* queued once a provider is enabled.
RequestEnhancement(j, wanted, provider) ==
    LET child == EnsureChild(j, wanted)
    IN  /\ job[j].state = "succeeded"
        /\ enhancement' = [enhancement EXCEPT ![j] =
              IF child = "disabled" /\ provider THEN "queued" ELSE child]
        /\ UNCHANGED <<job, heads, reserved, results, worker>>

-----------------------------------------------------------------------------
(* c14_claim_render_job.                                                   *)

CandidateQueued(j) == job[j].state = "queued" /\ At(j).state = "queued"

CandidateLapsed(j, v) ==
    \/ /\ job[j].state \in Stages /\ At(j).state = "leased" /\ At(j).lapsed
       /\ \E r \in ReservationOf(j) : r.volume = v
    \/ job[j].state = "cancel-requested" /\ At(j).state = "cancel-requested" /\ At(j).lapsed

Idle == [phase |-> "idle"]

NoLock(v) == TRUE

VolumeUnlocked(v) ==
    ~\E w \in Workers : worker[w].phase = "claiming" /\ VolumeOf[w] = v

\* The candidates in the order of the query: queued work before lapsed work.
Candidates(v) ==
    LET free == {j \in Jobs : job[j].state # "absent" /\ ~Locked(j)}
        queued == {j \in free : CandidateQueued(j)}
    IN  IF queued # {} THEN queued ELSE {j \in free : CandidateLapsed(j, v)}

\* pg_advisory_xact_lock, the sum of the reservations, and the candidate that
\* FOR UPDATE SKIP LOCKED finds.
ClaimReads(w, j, free) ==
    LET v == VolumeOf[w]
    IN  /\ worker[w] = Idle /\ VolumeUnlocked(v)
        /\ j \in Candidates(v)
        /\ worker' = [worker EXCEPT ![w] =
              [phase |-> "claiming", job |-> j, free |-> free, others |-> Others(j, v)]]
        /\ UNCHANGED <<job, heads, reserved, results, enhancement>>

Stop(w) == worker' = [worker EXCEPT ![w] = Idle]

ClaimCancels(w) ==
    LET j == worker[w].job
    IN  /\ worker[w].phase = "claiming" /\ job[j].state = "cancel-requested"
        /\ SetRows(j, Ended(j, "cancelled"), JobBecomes(j, "cancelled", TRUE))
        /\ Release(j)
        /\ Stop(w)
        /\ UNCHANGED <<results, enhancement>>

Fits(w) == worker[w].free - worker[w].others >= Required(worker[w].job)

\* The candidate does not fit, and the claim returns without looking further.
ClaimReturns(w) ==
    /\ worker[w].phase = "claiming" /\ job[worker[w].job].state # "cancel-requested"
    /\ ~Fits(w)
    /\ Stop(w)
    /\ UNCHANGED <<job, heads, reserved, results, enhancement>>

ClaimLeases(w) ==
    LET j == worker[w].job
        claim == At(j).claims + 1
    IN  /\ worker[w].phase = "claiming" /\ job[j].state # "cancel-requested"
        /\ Fits(w)
        /\ reserved' =
              IF ReservationOf(j) # {} THEN reserved
              ELSE reserved \cup {[job |-> j, attempt |-> Len(heads[j]),
                                   volume |-> VolumeOf[w], observed |-> worker[w].free]}
        /\ SetRows(j, [At(j) EXCEPT !.state = "leased", !.claims = claim,
                                    !.token = claim, !.lapsed = FALSE],
                      JobBecomes(j, At(j).stage, FALSE))
        /\ worker' = [worker EXCEPT ![w] =
              [phase |-> "preparing", job |-> j, attempt |-> Len(heads[j]), token |-> claim,
               asks |-> "preparing", code |-> "none"]]
        /\ UNCHANGED <<results, enhancement>>

-----------------------------------------------------------------------------
(* The runner, runOnce, and the methods it calls with its lease.           *)

HeadRow(w) == heads[worker[w].job][worker[w].attempt]

\* loadLease and validateLease.
HoldsAnyLease(w) == HeadRow(w).state = "leased" /\ ~HeadRow(w).lapsed

Holds(w) == HeadRow(w).state = "leased" /\ HeadRow(w).token = worker[w].token /\ ~HeadRow(w).lapsed

CancellationRequested(w) ==
    HeadRow(w).state = "cancel-requested" /\ HeadRow(w).token = worker[w].token /\ ~HeadRow(w).lapsed

MayUpdate(w) == Holds(w) /\ ~Locked(worker[w].job)

\* The stages a heartbeat may ask for: allowed.
Allowed ==
    {<<stage, stage>> : stage \in Stages} \cup
    {<<"preparing", "rendering-safe">>, <<"rendering-safe", "validating-safe">>,
     <<"validating-safe", "publishing-safe">>}

\* What the runner does once a heartbeat is accepted.
AfterHeartbeat(e) ==
    CASE e.asks = "preparing" -> [e EXCEPT !.asks = "rendering-safe"]
      [] e.asks = "rendering-safe" -> [e EXCEPT !.phase = "rendering", !.asks = "validating-safe"]
      [] e.asks = "validating-safe" -> [e EXCEPT !.asks = "publishing-safe"]
      [] e.asks = "publishing-safe" -> [e EXCEPT !.phase = "publishing"]

Fails(w, code) ==
    /\ worker' = [worker EXCEPT ![w] = [@ EXCEPT !.phase = "failing", !.code = code]]
    /\ UNCHANGED <<job, heads, reserved, results, enhancement>>

\* heartbeat, with the stage the runner goes on to.
Heartbeat(w, free) ==
    LET e == worker[w]
    IN  /\ e.phase = "preparing"
        /\ MayUpdate(w) /\ Admitted(e.job, free)
        /\ <<HeadRow(w).stage, e.asks>> \in Allowed
        /\ SetRows(e.job, [At(e.job) EXCEPT !.stage = e.asks],
                          JobBecomes(e.job, e.asks, job[e.job].retryable))
        /\ worker' = [worker EXCEPT ![w] = AfterHeartbeat(e)]
        /\ UNCHANGED <<reserved, results, enhancement>>

\* The heartbeat or the publication is refused for its lease.
Fenced(w) ==
    /\ worker[w].phase \in {"preparing", "publishing"} /\ ~Holds(w)
    /\ Fails(w, IF CancellationRequested(w) THEN "cancel" ELSE "final")

\* The heartbeat is refused for the disk, or for its stage.
HeartbeatRefused(w, free) ==
    /\ worker[w].phase = "preparing" /\ MayUpdate(w)
    /\ IF Admitted(worker[w].job, free)
       THEN <<HeadRow(w).stage, worker[w].asks>> \notin Allowed /\ Fails(w, "final")
       ELSE Fails(w, "retryable")

\* The renderer has its bundle.
Render(w) ==
    /\ worker[w].phase = "rendering"
    /\ worker' = [worker EXCEPT ![w].phase = "preparing"]
    /\ UNCHANGED <<job, heads, reserved, results, enhancement>>

MayMishap(token) == token <= MaximumMishaps

\* A heartbeat during the rendering fails, for whatever reason, and aborts the
\* renderer, which rejects with RENDER_PROCESS_CANCELLED.
RenderAborted(w) ==
    /\ worker[w].phase = "rendering"
    /\ ~Holds(w) \/ MayMishap(worker[w].token)
    /\ Fails(w, "cancel")

\* The source, the scene, the renderer or a call throws: its code is in the
\* list of retryable codes or is not.
Throws(w, code) ==
    /\ worker[w].phase \in {"preparing", "rendering", "publishing"}
    /\ Fails(w, code)

\* publishResult, then the enhancement in a transaction of its own, whose
\* failure is ignored; the answer may be lost.
Publish(w, enabled, answered) ==
    LET e == worker[w]
    IN  /\ e.phase = "publishing"
        /\ MayUpdate(w)
        /\ Len(heads[e.job]) = e.attempt
        /\ job[e.job].state = "publishing-safe" /\ HeadRow(w).stage = "publishing-safe"
        /\ ~\E r \in results : r.job = e.job
        /\ results' = results \cup {[job |-> e.job, attempt |-> e.attempt, claim |-> e.token]}
        /\ SetRows(e.job, Ended(e.job, "succeeded"), JobBecomes(e.job, "succeeded", FALSE))
        /\ Release(e.job)
        /\ \/ UNCHANGED enhancement
           \/ enhancement' = [enhancement EXCEPT ![e.job] = IF enabled THEN "queued" ELSE "disabled"]
        /\ worker' = [worker EXCEPT ![w] =
              IF answered THEN Idle ELSE [e EXCEPT !.phase = "failing", !.code = "final"]]

\* failAttempt.
FailAttempt(w) ==
    LET j == worker[w].job
    IN  /\ worker[w].phase = "failing" /\ worker[w].code \in {"retryable", "final"}
        /\ MayUpdate(w)
        /\ SetRows(j, Ended(j, "failed"), JobBecomes(j, "failed", worker[w].code = "retryable"))
        /\ Release(j)
        /\ Stop(w)
        /\ UNCHANGED <<results, enhancement>>

\* acknowledgeCancellation, which does not look at lease_expires_at.
Acknowledge(w) ==
    LET j == worker[w].job
    IN  /\ worker[w].phase = "failing" /\ worker[w].code = "cancel"
        /\ HeadRow(w).state = "cancel-requested" /\ HeadRow(w).token = worker[w].token
        /\ ~Locked(j)
        /\ SetRows(j, Ended(j, "cancelled"), JobBecomes(j, "cancelled", TRUE))
        /\ Release(j)
        /\ Stop(w)
        /\ UNCHANGED <<results, enhancement>>

\* Both are refused; .catch(() => undefined).
GiveUp(w) ==
    /\ worker[w].phase = "failing"
    /\ IF worker[w].code = "cancel"
       THEN ~(HeadRow(w).state = "cancel-requested" /\ HeadRow(w).token = worker[w].token)
       ELSE ~Holds(w)
    /\ Stop(w)
    /\ UNCHANGED <<job, heads, reserved, results, enhancement>>

\* The process stops, or its last call fails.
Crash(w) ==
    /\ worker[w].phase \notin {"idle", "claiming"} /\ MayMishap(worker[w].token)
    /\ Stop(w)
    /\ UNCHANGED <<job, heads, reserved, results, enhancement>>

\* The claim's transaction is rolled back.
ClaimRollsBack(w) ==
    /\ worker[w].phase = "claiming"
    /\ Stop(w)
    /\ UNCHANGED <<job, heads, reserved, results, enhancement>>

\* lease_expires_at passes.
LeaseLapses(j) ==
    /\ job[j].state \in Stages \cup {"cancel-requested"}
    /\ ~At(j).lapsed
    /\ MayMishap(At(j).token) \/ job[j].state = "cancel-requested"
    /\ heads' = [heads EXCEPT ![j][Len(heads[j])].lapsed = TRUE]
    /\ UNCHANGED <<job, reserved, results, enhancement, worker>>

-----------------------------------------------------------------------------

Init ==
    /\ job = [j \in Jobs |-> [state |-> "absent", retryable |-> FALSE]]
    /\ heads = [j \in Jobs |-> <<>>]
    /\ reserved = {}
    /\ results = {}
    /\ enhancement = [j \in Jobs |-> "absent"]
    /\ worker = [w \in Workers |-> Idle]

UserStep(j) ==
    \/ Create(j) \/ Cancel(j) \/ Retry(j)
    \/ \E wanted, provider \in BOOLEAN : RequestEnhancement(j, wanted, provider)

ClaimStep(w) == ClaimCancels(w) \/ ClaimReturns(w) \/ ClaimLeases(w)

RunnerStep(w) ==
    \/ \E free \in FreeBytes : Heartbeat(w, free) \/ HeartbeatRefused(w, free)
    \/ Fenced(w) \/ Render(w)
    \/ \E enabled, answered \in BOOLEAN : Publish(w, enabled, answered)
    \/ FailAttempt(w) \/ Acknowledge(w) \/ GiveUp(w)

WorkerStep(w) ==
    \/ \E j \in Jobs, free \in FreeBytes : ClaimReads(w, j, free)
    \/ ClaimStep(w) \/ ClaimRollsBack(w)
    \/ RunnerStep(w)
    \/ RenderAborted(w)
    \/ \E code \in {"retryable", "final"} : Throws(w, code)
    \/ Crash(w)

Next ==
    \/ \E j \in Jobs : UserStep(j) \/ LeaseLapses(j)
    \/ \E w \in Workers : WorkerStep(w)

Spec == Init /\ [][Next]_vars

\* No process executes the lease any more, so none renews it.
Abandoned(j) ==
    ~\E w \in Workers :
        /\ worker[w].phase \notin {"idle", "claiming"} /\ worker[w].job = j
        /\ worker[w].attempt = Len(heads[j]) /\ worker[w].token = At(j).token

\* The runners poll and go on, an abandoned lease lapses, and claims do not
\* roll back for ever.
Fairness ==
    /\ \A w \in Workers :
          /\ WF_vars(RunnerStep(w))
          /\ WF_vars(\E j \in Jobs, free \in FreeBytes : ClaimReads(w, j, free))
          /\ SF_vars(ClaimStep(w))
    /\ \A j \in Jobs : WF_vars(Abandoned(j) /\ LeaseLapses(j))

FairSpec == Spec /\ Fairness

-----------------------------------------------------------------------------
(* Properties.                                                             *)

\* Disk is reserved for exactly the attempts a worker may be rendering: from
\* the first claim until the attempt is over, however it ends, whoever ends
\* it, and over a reclaim, which may only come from the same volume.
ReservationsFollowLeases ==
    /\ \A j \in Jobs :
          Cardinality({r \in reserved : r.job = j}) =
             IF job[j].state \in Stages \cup {"cancel-requested"} THEN 1 ELSE 0
    /\ \A w \in Workers :
          worker[w].phase \notin {"idle", "claiming"} /\ Holds(w) =>
             \E r \in ReservationOf(worker[w].job) : r.volume = VolumeOf[w]

\* Workers that claim side by side never promise more of a volume than was
\* measured free less the floor; and a later admission costs no earlier one
\* its own, as long as the volume measures what it did.
DiskIsNotOverbooked ==
    \A v \in Volumes :
        ReservedOn(v) # {} =>
            LET free == Max({r.observed : r \in ReservedOn(v)})
            IN  /\ Bytes(ReservedOn(v)) + Floor <= free
                /\ \A r \in ReservedOn(v) : Admitted(r.job, free)

Status(state) ==
    CASE state = "queued" -> "waiting"
      [] state \in Stages -> "working"
      [] state = "cancel-requested" -> "stopping"
      [] state = "succeeded" -> "done"
      [] OTHER -> state

\* The result rows of a job: at most one, as LeasedJobs has it.
Output(rows) ==
    IF rows = {} THEN <<0, 0>> ELSE LET r == CHOOSE r \in rows : TRUE IN <<r.attempt, r.claim>>

\* How often the last of a job's attempts has been claimed.
ClaimsOf(attempts) == IF attempts = <<>> THEN 0 ELSE attempts[Len(attempts)].claims

View ==
    [j \in Jobs |->
        [status |-> Status(job[j].state), attempt |-> Len(heads[j]), claims |-> ClaimsOf(heads[j]),
         output |-> Output({r \in results : r.job = j})]]

Leased == INSTANCE LeasedJobs WITH view <- View

\* The queue keeps the promises of LeasedJobs: among them that a result is the
\* work of the last claim, whatever worker comes back late.
ImplementsLeasedJobs == Leased!Spec

\* "A stale lease is reclaimable ..." (c14-blender-renderer.md): the worker
\* that has reclaimed it goes on with stages its heartbeats may ask for.
ReclaimedRendersResume ==
    \A w \in Workers :
        worker[w].phase = "preparing" /\ Holds(w) => <<HeadRow(w).stage, worker[w].asks>> \in Allowed

\* "Cancellation becomes cancel-requested while leased and is acknowledged by
\* the fenced worker, or terminalised when the lease is stale" (the same).
CancellationsEnd ==
    \A j \in Jobs : job[j].state = "cancel-requested" ~> job[j].state = "cancelled"

\* Where the disk has room for every job, no reservation lasts for ever:
\* workers that crash or fall silent do not fill a volume.
ReservationsEnd ==
    \A j \in Jobs : ReservationOf(j) # {} ~> ReservationOf(j) = {}
=============================================================================

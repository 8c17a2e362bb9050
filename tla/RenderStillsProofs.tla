------------------------- MODULE RenderStillsProofs -------------------------
(***************************************************************************)
(* Proofs about RenderStills for every set of workers, jobs and volumes    *)
(* and every bound.  A reservation is tied to the attempt it was made for  *)
(* through the lease, and a claim to the rows that its locks protect.      *)
(* The sums of the estimates have lemmas of their own.                     *)
(***************************************************************************)
EXTENDS RenderStills, SequenceTheorems, FiniteSetTheorems, WellFoundedInduction, TLAPS

-----------------------------------------------------------------------------
(* The inductive invariant.                                                *)

JobStates == Stages \cup {"absent", "queued", "cancel-requested", "cancelled", "failed", "succeeded"}

HeadStates == {"queued", "leased", "cancel-requested", "cancelled", "failed", "succeeded"}

JobRow == [state : JobStates, retryable : BOOLEAN]

AttemptHead ==
    [state : HeadStates, stage : Stages, claims : Nat, token : Nat, lapsed : BOOLEAN]

Execution ==
    [phase : {"preparing", "rendering", "publishing", "failing"}, job : Jobs,
     attempt : Nat \ {0}, token : Nat \ {0}, asks : Stages,
     code : {"none", "retryable", "final", "cancel"}]

Claiming(w) ==
    worker[w].phase = "claiming" /\ worker[w].job \in Jobs /\ worker[w].free \in FreeBytes

TypeOK ==
    /\ job \in [Jobs -> JobRow]
    /\ heads \in [Jobs -> Seq(AttemptHead)]
    /\ DOMAIN worker = Workers
    /\ \A w \in Workers : worker[w] = Idle \/ Claiming(w) \/ worker[w] \in Execution
    /\ reserved \subseteq [job : Jobs, attempt : Nat, volume : Volumes, observed : FreeBytes]
    /\ results \subseteq [job : Jobs, attempt : Nat, claim : Nat]

\* A row that has a token has the token of its last claim.
TokenAgrees(row) ==
    /\ row.state \in {"leased", "cancel-requested"} => row.claims > 0 /\ row.token = row.claims
    /\ row.state \notin {"leased", "cancel-requested"} => row.token = 0

\* A job and the head of its last attempt move together; the attempts before
\* are over.
RowAgrees(j) ==
    /\ job[j].state = "absent" <=> heads[j] = <<>>
    /\ job[j].state = "queued" => At(j) = Queued
    /\ job[j].state \in Stages => At(j).state = "leased" /\ At(j).stage = job[j].state
    /\ job[j].state \in {"cancel-requested", "cancelled", "failed", "succeeded"} =>
          At(j).state = job[j].state
    /\ \A n \in 1..Len(heads[j]) :
          /\ TokenAgrees(heads[j][n])
          /\ n # Len(heads[j]) => heads[j][n].state \notin {"leased", "cancel-requested"}

RowsAgree == \A j \in Jobs : RowAgrees(j)

InUse(j) == job[j].state \in Stages \cup {"cancel-requested"}

\* One reservation for the present attempt of every job in use, and no other.
ReservationsAgree ==
    /\ \A r \in reserved : InUse(r.job) /\ r.attempt = Len(heads[r.job])
    /\ \A r, s \in reserved : r.job = s.job => r = s
    /\ \A j \in Jobs : InUse(j) => \E r \in reserved : r.job = j

Executes(w) == worker[w] \in Execution

\* A worker's claim is one of its attempt's claims so far; as long as it is the
\* last, the attempt's reservation is on the worker's volume.
ClaimIsRecorded(w) ==
    LET e == worker[w]
    IN  /\ e.attempt \in 1..Len(heads[e.job])
        /\ e.token <= HeadRow(w).claims
        /\ e.token = HeadRow(w).token =>
              \A r \in reserved : r.job = e.job => r.volume = VolumeOf[w]

ClaimsAreRecorded == \A w \in Workers : Executes(w) => ClaimIsRecorded(w)

\* While a claim holds its locks its candidate remains one, and it is the
\* candidate of no other claim.
CandidateStays(w) ==
    LET j == worker[w].job
    IN  /\ job[j].state # "absent"
        /\ CandidateQueued(j) \/ CandidateLapsed(j, VolumeOf[w])
        /\ \A v \in Workers : worker[v].phase = "claiming" /\ worker[v].job = j => v = w

CandidatesStay == \A w \in Workers : worker[w].phase = "claiming" => CandidateStays(w)

\* A job has a result when it has succeeded, and only one.
ResultsAreOfSucceeded ==
    \A r \in results :
        job[r.job].state = "succeeded" /\ \A s \in results : s.job = r.job => s = r

IInv ==
    /\ TypeOK
    /\ RowsAgree
    /\ ReservationsAgree
    /\ ClaimsAreRecorded
    /\ CandidatesStay
    /\ ResultsAreOfSucceeded

-----------------------------------------------------------------------------
(* What a step changes in the rows of one job.                             *)

LEMMA ExecutionsAreNotIdle ==
    \A e \in Execution :
        /\ e # Idle /\ e.phase \notin {"idle", "claiming"}
        /\ e.job \in Jobs /\ e.attempt \in Nat \ {0} /\ e.token \in Nat \ {0}
  BY DEF Execution, Idle

\* A job's rows, by column.
LEMMA JobColumns ==
    \A r \in JobRow : r = [state |-> r.state, retryable |-> r.retryable]
  BY DEF JobRow

LEMMA HeadColumns ==
    \A r \in AttemptHead :
        r = [state |-> r.state, stage |-> r.stage, claims |-> r.claims, token |-> r.token,
             lapsed |-> r.lapsed]
  BY DEF AttemptHead

\* The rows of a job before a step.
LEMMA PresentRows ==
    ASSUME IInv, NEW j \in Jobs
    PROVE  /\ TypeOK /\ RowAgrees(j)
           /\ job[j] \in JobRow /\ heads[j] \in Seq(AttemptHead) /\ Len(heads[j]) \in Nat
           /\ \A n \in 1..Len(heads[j]) : heads[j][n] \in AttemptHead
           /\ job[j].state # "absent" => At(j) \in AttemptHead /\ Len(heads[j]) > 0
                                         /\ TokenAgrees(At(j))
  <1>1. /\ TypeOK /\ RowAgrees(j)
        /\ job[j] \in JobRow /\ heads[j] \in Seq(AttemptHead) /\ Len(heads[j]) \in Nat
    BY DEF IInv, TypeOK, RowsAgree
  <1>2. job[j].state # "absent" => Len(heads[j]) > 0
    BY <1>1 DEF RowAgrees
  <1> QED
    BY <1>1, <1>2 DEF RowAgrees, At

\* Only the last head of job j, and the job's row, change.
RowSet(j, aJob, aHead) ==
    /\ job' \in [Jobs -> JobRow] /\ heads' \in [Jobs -> Seq(AttemptHead)]
    /\ job'[j] = aJob
    /\ Len(heads'[j]) = Len(heads[j]) /\ heads'[j] # <<>>
    /\ heads'[j][Len(heads[j])] = aHead
    /\ \A n \in 1..Len(heads[j]) : n # Len(heads[j]) => heads'[j][n] = heads[j][n]
    /\ \A k \in Jobs \ {j} : job'[k] = job[k] /\ heads'[k] = heads[k]

LEMMA RowsAfter ==
    ASSUME TypeOK, NEW j \in Jobs, heads[j] # <<>>, NEW aJob \in JobRow, NEW aHead \in AttemptHead,
           SetRows(j, aHead, aJob)
    PROVE  RowSet(j, aJob, aHead)
  <1>1. heads[j] \in Seq(AttemptHead) /\ Len(heads[j]) \in 1..Len(heads[j])
    BY DEF TypeOK
  <1> DEFINE new == [heads[j] EXCEPT ![Len(heads[j])] = aHead]
  <1>2. /\ new \in Seq(AttemptHead) /\ Len(new) = Len(heads[j])
        /\ \A n \in 1..Len(heads[j]) :
              new[n] = IF n = Len(heads[j]) THEN aHead ELSE heads[j][n]
    BY <1>1, ExceptSeq
  <1>3. heads' = [heads EXCEPT ![j] = new] /\ job' = [job EXCEPT ![j] = aJob]
    BY DEF SetRows
  <1> HIDE DEF new
  <1>4. heads' \in [Jobs -> Seq(AttemptHead)] /\ job' \in [Jobs -> JobRow]
    BY <1>2, <1>3 DEF TypeOK
  <1>5. heads'[j] = new /\ job'[j] = aJob
    BY <1>3 DEF TypeOK
  <1>6. \A k \in Jobs \ {j} : job'[k] = job[k] /\ heads'[k] = heads[k]
    BY <1>3 DEF TypeOK
  <1> QED
    BY <1>1, <1>2, <1>4, <1>5, <1>6 DEF RowSet

\* The successors of a head and of a job.
LEMMA EndedHead ==
    ASSUME TypeOK, NEW j \in Jobs, At(j) \in AttemptHead,
           NEW state \in {"cancelled", "failed", "succeeded"}
    PROVE  /\ Ended(j, state) \in AttemptHead
           /\ Ended(j, state).state = state /\ Ended(j, state).token = 0
           /\ Ended(j, state).claims = At(j).claims
  BY DEF Ended, AttemptHead, HeadStates

LEMMA JobAfter ==
    ASSUME TypeOK, NEW j \in Jobs, NEW state \in JobStates, NEW retryable \in BOOLEAN
    PROVE  /\ JobBecomes(j, state, retryable) \in JobRow
           /\ JobBecomes(j, state, retryable).state = state
  <1>1. job[j] \in JobRow
    BY DEF TypeOK
  <1> QED
    BY <1>1 DEF JobBecomes, JobRow

\* Each worker goes on with what it does, or does less.
WorkersFollow ==
    /\ DOMAIN worker' = Workers
    /\ \A w \in Workers :
          \/ worker'[w] = worker[w]
          \/ worker'[w] = Idle
          \/ /\ worker[w] \in Execution /\ worker'[w] \in Execution
             /\ worker'[w].job = worker[w].job /\ worker'[w].attempt = worker[w].attempt
             /\ worker'[w].token = worker[w].token

LEMMA WorkersThatStay ==
    ASSUME TypeOK, worker' = worker
    PROVE  WorkersFollow
  BY DEF TypeOK, WorkersFollow

LEMMA WorkersThatStop ==
    ASSUME TypeOK, NEW w \in Workers, Stop(w)
    PROVE  WorkersFollow /\ worker'[w] = Idle
  BY DEF TypeOK, WorkersFollow, Stop

LEMMA WorkersThatGo ==
    ASSUME TypeOK, NEW w \in Workers, worker[w] \in Execution, NEW e \in Execution,
           e.job = worker[w].job, e.attempt = worker[w].attempt, e.token = worker[w].token,
           worker' = [worker EXCEPT ![w] = e]
    PROVE  WorkersFollow
  BY DEF TypeOK, WorkersFollow

\* A step of the workers that changes no row of a job.
LEMMA QuietStep ==
    ASSUME IInv, WorkersFollow, UNCHANGED <<job, heads, reserved, results>>
    PROVE  IInv'
  <1> USE ExecutionsAreNotIdle
  <1>1. TypeOK'
    BY DEF IInv, TypeOK, WorkersFollow, Claiming
  <1>2. RowsAgree'
    BY DEF IInv, RowsAgree, RowAgrees, TokenAgrees, At, Queued
  <1>3. ReservationsAgree'
    BY DEF IInv, ReservationsAgree, InUse
  <1>4. ClaimsAreRecorded'
    BY DEF IInv, ClaimsAreRecorded, ClaimIsRecorded, Executes, HeadRow, WorkersFollow, Idle
  <1>5. CandidatesStay'
    BY DEF IInv, CandidatesStay, CandidateStays, CandidateQueued, CandidateLapsed, ReservationOf, At,
       WorkersFollow, Idle
  <1>6. ResultsAreOfSucceeded'
    BY DEF IInv, ResultsAreOfSucceeded
  <1> QED
    BY <1>1, <1>2, <1>3, <1>4, <1>5, <1>6 DEF IInv

\* The locks of a claim on job j, if any, end with the step.
LocksEnd(j) == \A w \in Workers : worker[w].phase = "claiming" /\ worker[w].job = j => worker'[w] = Idle

LEMMA UnlockedRows ==
    ASSUME NEW j \in Jobs, ~Locked(j)
    PROVE  LocksEnd(j)
  BY DEF Locked, LocksEnd

\* Preserved by every step on the rows of a job that leaves its claims alone.
LEMMA RowStep ==
    ASSUME IInv, NEW j \in Jobs, heads[j] # <<>>, NEW aJob \in JobRow, NEW aHead \in AttemptHead,
           RowSet(j, aJob, aHead), WorkersFollow, LocksEnd(j), RowAgrees(j)',
           aHead.claims = At(j).claims, aHead.token \in {0, At(j).token},
           reserved' \subseteq reserved, \A r \in reserved : r.job # j => r \in reserved'
    PROVE  RowsAgree' /\ ClaimsAreRecorded' /\ CandidatesStay'
  <1> USE ExecutionsAreNotIdle
  <1>0. /\ TypeOK /\ Len(heads[j]) \in 1..Len(heads[j]) /\ heads[j] \in Seq(AttemptHead)
        /\ Len(heads[j]) \in Nat
    BY DEF IInv, TypeOK
  <1>1. RowsAgree'
    <2> SUFFICES ASSUME NEW k \in Jobs, k # j PROVE RowAgrees(k)'
      BY DEF RowsAgree
    <2>1. RowAgrees(k) /\ job'[k] = job[k] /\ heads'[k] = heads[k]
      BY DEF IInv, RowsAgree, RowSet
    <2> QED
      BY <2>1 DEF RowAgrees, TokenAgrees, At, Queued
  <1>2. ClaimsAreRecorded'
    <2> SUFFICES ASSUME NEW w \in Workers, Executes(w)' PROVE ClaimIsRecorded(w)'
      BY DEF ClaimsAreRecorded
    <2>1. /\ worker[w] \in Execution /\ worker'[w] \in Execution
          /\ worker'[w].job = worker[w].job /\ worker'[w].attempt = worker[w].attempt
          /\ worker'[w].token = worker[w].token
      BY DEF WorkersFollow, Executes
    <2>2. ClaimIsRecorded(w)
      BY <2>1 DEF IInv, ClaimsAreRecorded, Executes
    <2>3. CASE worker[w].job # j
      BY <2>1, <2>2, <2>3 DEF ClaimIsRecorded, HeadRow, RowSet
    <2>4. CASE worker[w].job = j /\ worker[w].attempt # Len(heads[j])
      BY <2>1, <2>2, <2>4 DEF ClaimIsRecorded, HeadRow, RowSet
    <2>5. CASE worker[w].job = j /\ worker[w].attempt = Len(heads[j])
      BY <1>0, <2>1, <2>2, <2>5 DEF ClaimIsRecorded, HeadRow, RowSet, At
    <2> QED
      BY <2>3, <2>4, <2>5
  <1>3. CandidatesStay'
    <2> SUFFICES ASSUME NEW w \in Workers, worker'[w].phase = "claiming" PROVE CandidateStays(w)'
      BY DEF CandidatesStay
    <2>1. worker'[w] = worker[w] /\ CandidateStays(w) /\ Claiming(w)
      BY <1>0 DEF IInv, CandidatesStay, WorkersFollow, TypeOK, Idle
    <2>2. worker[w].job # j
      BY <2>1 DEF LocksEnd, Idle
    <2>3. PICK k \in Jobs \ {j} : k = worker[w].job
      BY <2>1, <2>2 DEF Claiming
    <2>4. job'[k] = job[k] /\ heads'[k] = heads[k]
      BY DEF RowSet
    <2>5. job'[k].state # "absent" /\ (CandidateQueued(k)' \/ CandidateLapsed(k, VolumeOf[w])')
      BY <2>1, <2>3, <2>4
      DEF CandidateStays, CandidateQueued, CandidateLapsed, ReservationOf, At
    <2>6. \A v \in Workers : worker'[v].phase = "claiming" /\ worker'[v].job = k => v = w
      BY <2>1, <2>3 DEF WorkersFollow, CandidateStays, Idle
    <2> QED
      BY <2>1, <2>3, <2>5, <2>6 DEF CandidateStays
  <1> QED
    BY <1>1, <1>2, <1>3

\* The reservations when the use of a job goes on, and when it ends.
LEMMA ReservationsStay ==
    ASSUME IInv, NEW j \in Jobs, NEW aJob, NEW aHead, RowSet(j, aJob, aHead),
           InUse(j)' <=> InUse(j), reserved' = reserved
    PROVE  ReservationsAgree'
  BY DEF IInv, ReservationsAgree, RowSet, InUse, TypeOK

LEMMA ReleaseEnds ==
    ASSUME IInv, NEW j \in Jobs, Release(j)
    PROVE  reserved' = {r \in reserved : r.job # j}
  BY DEF IInv, ReservationsAgree, Release

LEMMA ReservationsEnded ==
    ASSUME IInv, NEW j \in Jobs, NEW aJob, NEW aHead, RowSet(j, aJob, aHead), ~InUse(j)',
           Release(j)
    PROVE  ReservationsAgree'
  <1>1. reserved' = {r \in reserved : r.job # j}
    BY ReleaseEnds
  <1> QED
    BY <1>1 DEF IInv, ReservationsAgree, RowSet, InUse, TypeOK

LEMMA TypesFollow ==
    ASSUME IInv, NEW j, NEW aJob, NEW aHead, RowSet(j, aJob, aHead), WorkersFollow,
           reserved' \subseteq reserved,
           results' \subseteq [job : Jobs, attempt : Nat, claim : Nat]
    PROVE  TypeOK'
  BY ExecutionsAreNotIdle DEF IInv, TypeOK, RowSet, WorkersFollow, Claiming

LEMMA ResultsStay ==
    ASSUME IInv, NEW j \in Jobs, NEW aJob, NEW aHead, RowSet(j, aJob, aHead),
           job[j].state # "succeeded", results' = results
    PROVE  ResultsAreOfSucceeded'
  BY DEF IInv, ResultsAreOfSucceeded, RowSet, TypeOK

\* A step after which the job is as much in use as before.
LEMMA KeepStep ==
    ASSUME IInv, NEW j \in Jobs, heads[j] # <<>>, NEW aJob \in JobRow, NEW aHead \in AttemptHead,
           RowSet(j, aJob, aHead), WorkersFollow, LocksEnd(j), RowAgrees(j)',
           aHead.claims = At(j).claims, aHead.token \in {0, At(j).token},
           InUse(j)' <=> InUse(j), job[j].state # "succeeded", UNCHANGED <<reserved, results>>
    PROVE  IInv'
  <1>1. RowsAgree' /\ ClaimsAreRecorded' /\ CandidatesStay'
    BY RowStep
  <1>2. ReservationsAgree' /\ ResultsAreOfSucceeded'
    BY ReservationsStay, ResultsStay
  <1>3. TypeOK'
    BY TypesFollow DEF IInv, TypeOK
  <1> QED
    BY <1>1, <1>2, <1>3 DEF IInv

\* A step that ends the use of a job without a result.
LEMMA EndStep ==
    ASSUME IInv, NEW j \in Jobs, job[j].state \notin {"absent", "succeeded"},
           NEW state \in {"cancelled", "failed"}, NEW retryable \in BOOLEAN,
           SetRows(j, Ended(j, state), JobBecomes(j, state, retryable)),
           WorkersFollow, LocksEnd(j), Release(j), results' = results
    PROVE  IInv'
  <1>1. /\ TypeOK /\ RowAgrees(j) /\ heads[j] # <<>> /\ At(j) \in AttemptHead
        /\ heads[j] \in Seq(AttemptHead)
    BY PresentRows DEF RowAgrees
  <1> DEFINE aHead == Ended(j, state)
             aJob == JobBecomes(j, state, retryable)
  <1>2. /\ aHead \in AttemptHead /\ aHead.state = state /\ aHead.token = 0
        /\ aHead.claims = At(j).claims
    BY <1>1, EndedHead
  <1>3. aJob \in JobRow /\ aJob.state = state
    BY <1>1, JobAfter DEF JobStates
  <1> HIDE DEF aHead, aJob
  <1>4. RowSet(j, aJob, aHead)
    BY <1>1, <1>2, <1>3, RowsAfter DEF aHead, aJob
  <1>5. RowAgrees(j)'
    BY <1>1, <1>2, <1>3, <1>4 DEF RowSet, RowAgrees, TokenAgrees, At, Stages
  <1>6. RowsAgree' /\ ClaimsAreRecorded' /\ CandidatesStay'
    BY <1>1, <1>2, <1>3, <1>4, <1>5, RowStep, ReleaseEnds
  <1>7. ReservationsAgree' /\ ResultsAreOfSucceeded'
    BY <1>3, <1>4, ReservationsEnded, ResultsStay DEF RowSet, InUse, Stages
  <1>8. TypeOK'
    BY <1>4, TypesFollow, ReleaseEnds DEF IInv, TypeOK
  <1> QED
    BY <1>6, <1>7, <1>8 DEF IInv

-----------------------------------------------------------------------------
(* The user's requests, and leases that lapse.                             *)

LEMMA CreateKeeps ==
    ASSUME IInv, NEW j \in Jobs, Create(j)
    PROVE  IInv'
  <1> USE ExecutionsAreNotIdle
  <1>1. TypeOK /\ RowAgrees(j) /\ job[j] \in JobRow /\ heads[j] = <<>>
    BY PresentRows DEF RowAgrees, Create
  <1>2. Queued \in AttemptHead
    BY DEF Queued, AttemptHead, HeadStates, Stages
  <1>3. [job[j] EXCEPT !.state = "queued"] \in JobRow /\ [job[j] EXCEPT !.state = "queued"].state = "queued"
    BY <1>1 DEF JobRow, JobStates
  <1>4. /\ heads'[j] = <<Queued>> /\ job'[j].state = "queued"
        /\ heads' \in [Jobs -> Seq(AttemptHead)] /\ job' \in [Jobs -> JobRow]
        /\ \A k \in Jobs \ {j} : job'[k] = job[k] /\ heads'[k] = heads[k]
        /\ Len(heads'[j]) = 1 /\ heads'[j][1] = Queued
    BY <1>1, <1>2, <1>3 DEF TypeOK, Create
  <1>5. UNCHANGED <<reserved, results, worker>>
    BY DEF Create
  <1>6. TypeOK'
    BY <1>1, <1>4, <1>5 DEF TypeOK, Claiming
  <1>7. RowAgrees(j)'
    BY <1>4 DEF RowAgrees, TokenAgrees, At, Queued, Stages
  <1>8. RowsAgree'
    <2> SUFFICES ASSUME NEW k \in Jobs, k # j PROVE RowAgrees(k)'
      BY <1>7 DEF RowsAgree
    <2>1. RowAgrees(k) /\ job'[k] = job[k] /\ heads'[k] = heads[k]
      BY <1>4 DEF IInv, RowsAgree
    <2> QED
      BY <2>1 DEF RowAgrees, TokenAgrees, At, Queued
  <1>9. ~InUse(j) /\ ~InUse(j)'
    BY <1>4 DEF InUse, Create, Stages
  <1>10. ReservationsAgree'
    BY <1>1, <1>4, <1>5, <1>9 DEF IInv, ReservationsAgree, InUse, TypeOK
  <1>11. ClaimsAreRecorded'
    <2> SUFFICES ASSUME NEW w \in Workers, worker[w] \in Execution PROVE ClaimIsRecorded(w)'
      BY <1>5 DEF ClaimsAreRecorded, Executes
    <2>1. ClaimIsRecorded(w)
      BY DEF IInv, ClaimsAreRecorded, Executes
    <2>2. PICK k \in Jobs : k = worker[w].job
      OBVIOUS
    <2>3. worker[w].attempt \in 1..Len(heads[k])
      BY <2>1, <2>2 DEF ClaimIsRecorded
    <2>4. k # j
      BY <1>1, <2>3
    <2>5. heads'[k] = heads[k]
      BY <1>4, <2>4
    <2> QED
      BY <1>5, <2>1, <2>2, <2>5 DEF ClaimIsRecorded, HeadRow
  <1>12. CandidatesStay'
    <2> SUFFICES ASSUME NEW w \in Workers, worker[w].phase = "claiming" PROVE CandidateStays(w)'
      BY <1>5 DEF CandidatesStay
    <2>1. CandidateStays(w) /\ worker[w].job \in Jobs
      BY <1>1 DEF IInv, CandidatesStay, TypeOK, Claiming, Idle
    <2>2. PICK k \in Jobs : k = worker[w].job
      BY <2>1
    <2>3. k # j
      BY <2>1, <2>2 DEF CandidateStays, Create
    <2> QED
      BY <1>4, <1>5, <2>1, <2>2, <2>3
      DEF CandidateStays, CandidateQueued, CandidateLapsed, ReservationOf, At
  <1>13. ResultsAreOfSucceeded'
    BY <1>1, <1>4, <1>5 DEF IInv, ResultsAreOfSucceeded, Create, TypeOK
  <1> QED
    BY <1>6, <1>8, <1>10, <1>11, <1>12, <1>13 DEF IInv

LEMMA RetryKeeps ==
    ASSUME IInv, NEW j \in Jobs, Retry(j)
    PROVE  IInv'
  <1> USE ExecutionsAreNotIdle
  <1>1. /\ TypeOK /\ RowAgrees(j) /\ job[j] \in JobRow /\ heads[j] \in Seq(AttemptHead)
        /\ Len(heads[j]) \in Nat
    BY PresentRows
  <1>2. Queued \in AttemptHead
    BY DEF Queued, AttemptHead, HeadStates, Stages
  <1>3. JobBecomes(j, "queued", FALSE) \in JobRow /\ JobBecomes(j, "queued", FALSE).state = "queued"
    BY <1>1, JobAfter DEF JobStates
  <1> DEFINE new == Append(heads[j], Queued)
  <1>4. /\ new \in Seq(AttemptHead) /\ new # <<>> /\ Len(new) = Len(heads[j]) + 1
        /\ \A n \in 1..Len(heads[j]) : new[n] = heads[j][n]
        /\ new[Len(heads[j]) + 1] = Queued
    BY <1>1, <1>2, AppendProperties
  <1>5. heads' = [heads EXCEPT ![j] = new] /\ job' = [job EXCEPT ![j] = JobBecomes(j, "queued", FALSE)]
    BY DEF Retry
  <1> HIDE DEF new
  <1>6. /\ heads'[j] = new /\ job'[j].state = "queued"
        /\ heads' \in [Jobs -> Seq(AttemptHead)] /\ job' \in [Jobs -> JobRow]
        /\ \A k \in Jobs \ {j} : job'[k] = job[k] /\ heads'[k] = heads[k]
    BY <1>1, <1>3, <1>4, <1>5 DEF TypeOK
  <1>7. UNCHANGED <<reserved, results, worker>> /\ job[j].state \in {"cancelled", "failed"}
    BY DEF Retry
  <1>8. TypeOK'
    BY <1>1, <1>6, <1>7 DEF TypeOK, Claiming
  <1>9. \A n \in 1..Len(heads[j]) :
            TokenAgrees(heads[j][n]) /\ heads[j][n].state \notin {"leased", "cancel-requested"}
    BY <1>1, <1>7 DEF RowAgrees, At
  <1>10. RowAgrees(j)'
    <2>1. TokenAgrees(Queued)
      BY DEF TokenAgrees, Queued
    <2>2. \A n \in 1..Len(new) :
              /\ TokenAgrees(new[n])
              /\ n # Len(new) => new[n].state \notin {"leased", "cancel-requested"}
      BY <1>1, <1>4, <1>9, <2>1
    <2>3. \A n \in 1..Len(new) :
              /\ TokenAgrees(heads[j][n])'
              /\ n # Len(new) => heads'[j][n].state \notin {"leased", "cancel-requested"}
      BY <1>6, <2>2 DEF TokenAgrees
    <2> QED
      BY <1>1, <1>4, <1>6, <2>3 DEF RowAgrees, At, Queued, Stages
  <1>11. RowsAgree'
    <2> SUFFICES ASSUME NEW k \in Jobs, k # j PROVE RowAgrees(k)'
      BY <1>10 DEF RowsAgree
    <2>1. RowAgrees(k) /\ job'[k] = job[k] /\ heads'[k] = heads[k]
      BY <1>6 DEF IInv, RowsAgree
    <2> QED
      BY <2>1 DEF RowAgrees, TokenAgrees, At, Queued
  <1>12. ~InUse(j) /\ ~InUse(j)'
    BY <1>6, <1>7 DEF InUse, Stages
  <1>13. ReservationsAgree'
    BY <1>1, <1>6, <1>7, <1>12 DEF IInv, ReservationsAgree, InUse, TypeOK
  <1>14. ClaimsAreRecorded'
    <2> SUFFICES ASSUME NEW w \in Workers, worker[w] \in Execution PROVE ClaimIsRecorded(w)'
      BY <1>7 DEF ClaimsAreRecorded, Executes
    <2>1. ClaimIsRecorded(w) /\ worker[w].job \in Jobs
      BY DEF IInv, ClaimsAreRecorded, Executes
    <2>2. HeadRow(w)' = HeadRow(w) /\ Len(heads'[worker[w].job]) >= Len(heads[worker[w].job])
          /\ Len(heads'[worker[w].job]) \in Nat
      <3>1. PICK k \in Jobs : k = worker[w].job
        BY <2>1
      <3>2. worker[w].attempt \in 1..Len(heads[k]) /\ Len(heads[k]) \in Nat
        BY <1>1, <2>1, <3>1 DEF ClaimIsRecorded, TypeOK
      <3>3. CASE k # j
        BY <1>6, <1>7, <3>1, <3>2, <3>3 DEF HeadRow
      <3>4. CASE k = j
        BY <1>1, <1>4, <1>6, <1>7, <3>1, <3>2, <3>4 DEF HeadRow
      <3> QED
        BY <3>3, <3>4
    <2> QED
      BY <1>7, <2>1, <2>2 DEF ClaimIsRecorded
  <1>15. CandidatesStay'
    <2> SUFFICES ASSUME NEW w \in Workers, worker[w].phase = "claiming" PROVE CandidateStays(w)'
      BY <1>7 DEF CandidatesStay
    <2>1. CandidateStays(w) /\ worker[w].job \in Jobs
      BY <1>1 DEF IInv, CandidatesStay, TypeOK, Claiming, Idle
    <2>2. PICK k \in Jobs : k = worker[w].job
      BY <2>1
    <2>3. k # j
      BY <2>2 DEF Retry, Locked
    <2> QED
      BY <1>6, <1>7, <2>1, <2>2, <2>3
      DEF CandidateStays, CandidateQueued, CandidateLapsed, ReservationOf, At
  <1>16. ResultsAreOfSucceeded'
    BY <1>1, <1>6, <1>7 DEF IInv, ResultsAreOfSucceeded, TypeOK
  <1> QED
    BY <1>8, <1>11, <1>13, <1>14, <1>15, <1>16 DEF IInv

LEMMA CancelKeeps ==
    ASSUME IInv, NEW j \in Jobs, Cancel(j)
    PROVE  IInv'
  <1>1. /\ TypeOK /\ RowAgrees(j) /\ job[j] \in JobRow /\ heads[j] \in Seq(AttemptHead)
        /\ heads[j] # <<>> /\ At(j) \in AttemptHead /\ TokenAgrees(At(j))
    BY PresentRows DEF RowAgrees, Cancel, Stages
  <1>2. WorkersFollow /\ LocksEnd(j) /\ UNCHANGED <<reserved, results>>
    BY <1>1, WorkersThatStay, UnlockedRows DEF Cancel
  <1>3. CASE job[j].state = "queued"
    <2> DEFINE aHead == Ended(j, "cancelled")
               aJob == JobBecomes(j, "cancelled", TRUE)
    <2>1. SetRows(j, aHead, aJob)
      BY <1>3 DEF Cancel, Stages
    <2>2. /\ aHead \in AttemptHead /\ aHead.state = "cancelled" /\ aHead.token = 0
          /\ aHead.claims = At(j).claims
      BY <1>1, EndedHead
    <2>3. aJob \in JobRow /\ aJob.state = "cancelled"
      BY <1>1, JobAfter DEF JobStates
    <2> HIDE DEF aHead, aJob
    <2>4. RowSet(j, aJob, aHead)
      BY <1>1, <2>1, <2>2, <2>3, RowsAfter
    <2>5. RowAgrees(j)'
      BY <1>1, <2>2, <2>3, <2>4 DEF RowSet, RowAgrees, TokenAgrees, At, Stages
    <2>6. InUse(j)' <=> InUse(j)
      BY <1>3, <2>3, <2>4 DEF InUse, RowSet, Stages
    <2> QED
      BY <1>1, <1>2, <1>3, <2>2, <2>3, <2>4, <2>5, <2>6, KeepStep
  <1>4. CASE job[j].state \in Stages
    <2> DEFINE aHead == [At(j) EXCEPT !.state = "cancel-requested"]
               aJob == JobBecomes(j, "cancel-requested", job[j].retryable)
    <2>1. SetRows(j, aHead, aJob)
      BY <1>4 DEF Cancel, Stages
    <2>2. /\ aHead \in AttemptHead /\ aHead.state = "cancel-requested" /\ aHead.token = At(j).token
          /\ aHead.claims = At(j).claims
      BY <1>1 DEF AttemptHead, HeadStates
    <2>3. aJob \in JobRow /\ aJob.state = "cancel-requested"
      <3>1. job[j].retryable \in BOOLEAN /\ "cancel-requested" \in JobStates
        BY <1>1 DEF JobRow, JobStates
      <3> QED
        BY <1>1, <3>1, JobAfter
    <2> HIDE DEF aHead, aJob
    <2>4. RowSet(j, aJob, aHead)
      BY <1>1, <2>1, <2>2, <2>3, RowsAfter
    <2>5. TokenAgrees(aHead)
      BY <1>1, <1>4, <2>2 DEF RowAgrees, TokenAgrees
    <2>6. RowAgrees(j)'
      BY <1>1, <2>2, <2>3, <2>4, <2>5 DEF RowSet, RowAgrees, TokenAgrees, At, Stages
    <2>7. InUse(j)' <=> InUse(j)
      BY <1>4, <2>3, <2>4 DEF InUse, RowSet
    <2>8. job[j].state # "succeeded"
      BY <1>4 DEF Stages
    <2> QED
      BY <1>1, <1>2, <2>2, <2>3, <2>4, <2>6, <2>7, <2>8, KeepStep
  <1> QED
    BY <1>3, <1>4 DEF Cancel

LEMMA LeaseLapsesKeeps ==
    ASSUME IInv, NEW j \in Jobs, LeaseLapses(j)
    PROVE  IInv'
  <1> USE ExecutionsAreNotIdle
  <1>1. /\ TypeOK /\ RowAgrees(j) /\ job[j] \in JobRow /\ heads[j] \in Seq(AttemptHead)
        /\ heads[j] # <<>> /\ At(j) \in AttemptHead /\ TokenAgrees(At(j))
        /\ Len(heads[j]) \in 1..Len(heads[j])
    BY PresentRows DEF RowAgrees, LeaseLapses, Stages
  <1> DEFINE aHead == [At(j) EXCEPT !.lapsed = TRUE]
  <1>2. /\ aHead \in AttemptHead /\ aHead.state = At(j).state /\ aHead.token = At(j).token
        /\ aHead.claims = At(j).claims /\ aHead.stage = At(j).stage /\ aHead.lapsed = TRUE
    BY <1>1 DEF AttemptHead
  <1>3. heads' = [heads EXCEPT ![j][Len(heads[j])] = aHead]
    BY DEF LeaseLapses, At
  <1>4. job' = [job EXCEPT ![j] = job[j]]
    BY <1>1 DEF LeaseLapses, TypeOK
  <1> HIDE DEF aHead
  <1>5. RowSet(j, job[j], aHead)
    <2>1. SetRows(j, aHead, job[j])
      BY <1>3, <1>4 DEF SetRows
    <2> QED
      BY <1>1, <1>2, <2>1, RowsAfter
  <1>6. UNCHANGED <<reserved, results, worker>> /\ job[j].state \in Stages \cup {"cancel-requested"}
        /\ ~At(j).lapsed
    BY DEF LeaseLapses
  <1>7. TokenAgrees(aHead)
    BY <1>1, <1>2 DEF TokenAgrees
  <1>8. RowAgrees(j)'
    <2>1. \A n \in 1..Len(heads[j]) :
              /\ TokenAgrees(heads'[j][n])
              /\ n # Len(heads[j]) => heads'[j][n].state \notin {"leased", "cancel-requested"}
      BY <1>1, <1>5, <1>7 DEF RowSet, RowAgrees
    <2>2. job'[j] = job[j] /\ heads'[j] # <<>> /\ At(j)' = aHead /\ Len(heads'[j]) = Len(heads[j])
      BY <1>5 DEF RowSet, At
    <2>3. job[j].state \notin {"absent", "queued"}
      BY <1>6 DEF Stages
    <2> QED
      BY <1>1, <1>2, <2>1, <2>2, <2>3 DEF RowAgrees, TokenAgrees
  <1>9. InUse(j)' <=> InUse(j)
    BY <1>5 DEF InUse, RowSet
  <1>10. LocksEnd(j)
    <2> SUFFICES ASSUME NEW w \in Workers, worker[w].phase = "claiming", worker[w].job = j
                 PROVE  FALSE
      BY DEF LocksEnd
    <2>1. CandidateQueued(j) \/ CandidateLapsed(j, VolumeOf[w])
      BY DEF IInv, CandidatesStay, CandidateStays
    <2> QED
      BY <1>6, <2>1 DEF CandidateQueued, CandidateLapsed, Stages
  <1>11. WorkersFollow /\ job[j].state # "succeeded"
    BY <1>1, <1>6, WorkersThatStay DEF Stages
  <1> QED
    BY <1>1, <1>2, <1>5, <1>6, <1>8, <1>9, <1>10, <1>11, KeepStep

-----------------------------------------------------------------------------
(* The claim.                                                              *)

LEMMA ClaimReadsKeeps ==
    ASSUME IInv, NEW w \in Workers, NEW j \in Jobs, NEW free \in FreeBytes, ClaimReads(w, j, free)
    PROVE  IInv'
  <1> USE ExecutionsAreNotIdle
  <1> DEFINE e == [phase |-> "claiming", job |-> j, free |-> free, others |-> Others(j, VolumeOf[w])]
  <1>1. /\ worker' = [worker EXCEPT ![w] = e] /\ worker[w] = Idle
        /\ UNCHANGED <<job, heads, reserved, results>> /\ j \in Candidates(VolumeOf[w])
    BY DEF ClaimReads
  <1>2. e.phase = "claiming" /\ e.job = j /\ e.free = free
    OBVIOUS
  <1> HIDE DEF e
  <1>3. TypeOK
    BY DEF IInv
  <1>4. worker'[w] = e /\ \A v \in Workers \ {w} : worker'[v] = worker[v]
    BY <1>1, <1>3 DEF TypeOK
  <1>5. /\ job[j].state # "absent" /\ ~Locked(j)
        /\ CandidateQueued(j) \/ CandidateLapsed(j, VolumeOf[w])
    BY <1>1 DEF Candidates
  <1>6. TypeOK'
    BY <1>1, <1>2, <1>3, <1>4 DEF TypeOK, Claiming
  <1>7. RowsAgree' /\ ReservationsAgree' /\ ResultsAreOfSucceeded'
    BY <1>1 DEF IInv, RowsAgree, RowAgrees, TokenAgrees, At, Queued, ReservationsAgree, InUse,
       ResultsAreOfSucceeded
  <1>8. ClaimsAreRecorded'
    BY <1>1, <1>2, <1>4 DEF IInv, ClaimsAreRecorded, ClaimIsRecorded, Executes, HeadRow
  <1>9. CandidatesStay'
    BY <1>1, <1>2, <1>4, <1>5 DEF IInv, CandidatesStay, CandidateStays, CandidateQueued,
       CandidateLapsed, ReservationOf, At, Locked
  <1> QED
    BY <1>6, <1>7, <1>8, <1>9 DEF IInv

LEMMA StopKeeps ==
    ASSUME IInv, NEW w \in Workers, Stop(w), UNCHANGED <<job, heads, reserved, results>>
    PROVE  IInv'
  BY WorkersThatStop, QuietStep DEF IInv

\* The claim of a job ends its locks as the worker stops.
LEMMA ClaimerStops ==
    ASSUME IInv, NEW w \in Workers, worker[w].phase = "claiming", worker'[w] = Idle
    PROVE  LocksEnd(worker[w].job)
  BY DEF IInv, CandidatesStay, CandidateStays, LocksEnd

LEMMA ClaimCancelsKeeps ==
    ASSUME IInv, NEW w \in Workers, ClaimCancels(w)
    PROVE  IInv'
  <1>1. TypeOK /\ worker[w].phase = "claiming" /\ Stop(w) /\ results' = results
    BY DEF ClaimCancels, IInv
  <1>2. PICK j \in Jobs : j = worker[w].job
    BY <1>1, ExecutionsAreNotIdle DEF TypeOK, Idle, Claiming
  <1>3. WorkersFollow /\ LocksEnd(j)
    BY <1>1, <1>2, WorkersThatStop, ClaimerStops
  <1>4. /\ job[j].state = "cancel-requested" /\ Release(j)
        /\ SetRows(j, Ended(j, "cancelled"), JobBecomes(j, "cancelled", TRUE))
    BY <1>2 DEF ClaimCancels
  <1> QED
    BY <1>1, <1>3, <1>4, EndStep

LEMMA ClaimLeasesKeeps ==
    ASSUME RenderConstants, IInv, NEW w \in Workers, ClaimLeases(w)
    PROVE  IInv'
  <1> USE ExecutionsAreNotIdle
  <1>1. TypeOK /\ worker[w].phase = "claiming" /\ Claiming(w)
    BY DEF ClaimLeases, IInv, TypeOK, Idle
  <1>2. PICK j \in Jobs : j = worker[w].job
    BY <1>1 DEF Claiming
  <1>3. /\ job[j].state \notin {"absent", "cancel-requested"}
        /\ CandidateQueued(j) \/ CandidateLapsed(j, VolumeOf[w])
        /\ \A v \in Workers : worker[v].phase = "claiming" /\ worker[v].job = j => v = w
    BY <1>1, <1>2 DEF IInv, CandidatesStay, CandidateStays, ClaimLeases
  <1>4. /\ RowAgrees(j) /\ job[j] \in JobRow /\ heads[j] \in Seq(AttemptHead)
        /\ heads[j] # <<>> /\ At(j) \in AttemptHead /\ TokenAgrees(At(j))
        /\ Len(heads[j]) \in 1..Len(heads[j]) /\ Len(heads[j]) \in Nat \ {0}
    BY <1>3, PresentRows DEF RowAgrees
  <1> DEFINE claim == At(j).claims + 1
             aHead == [At(j) EXCEPT !.state = "leased", !.claims = claim, !.token = claim,
                                    !.lapsed = FALSE]
             aJob == JobBecomes(j, At(j).stage, FALSE)
             n == Len(heads[j])
             e == [phase |-> "preparing", job |-> j, attempt |-> n, token |-> claim,
                   asks |-> "preparing", code |-> "none"]
             new == [job |-> j, attempt |-> n, volume |-> VolumeOf[w], observed |-> worker[w].free]
  <1>5. claim \in Nat \ {0} /\ claim = At(j).claims + 1 /\ n \in Nat \ {0}
    BY <1>4 DEF AttemptHead
  <1>6. /\ SetRows(j, aHead, aJob) /\ worker' = [worker EXCEPT ![w] = e] /\ results' = results
        /\ reserved' = IF ReservationOf(j) # {} THEN reserved ELSE reserved \cup {new}
    BY <1>2 DEF ClaimLeases
  <1> HIDE DEF claim
  <1>7. /\ aHead \in AttemptHead /\ aHead.state = "leased" /\ aHead.token = claim
        /\ aHead.claims = claim /\ aHead.stage = At(j).stage
    BY <1>4, <1>5 DEF AttemptHead, HeadStates
  <1>8. aJob \in JobRow /\ aJob.state = At(j).stage /\ At(j).stage \in Stages
    BY <1>1, <1>4, JobAfter DEF AttemptHead, JobStates
  <1>9. /\ e \in Execution /\ e.job = j /\ e.attempt = n /\ e.token = claim
        /\ e.phase = "preparing"
    BY <1>5 DEF Execution, Stages
  <1>10. /\ new \in [job : Jobs, attempt : Nat, volume : Volumes, observed : FreeBytes]
         /\ new.job = j /\ new.attempt = n /\ new.volume = VolumeOf[w]
    BY <1>1, <1>2, <1>5 DEF Claiming, RenderConstants
  <1> HIDE DEF aHead, aJob, e, new
  <1>11. RowSet(j, aJob, aHead)
    BY <1>1, <1>4, <1>6, <1>7, <1>8, RowsAfter
  <1>12. worker'[w] = e /\ DOMAIN worker' = Workers /\ \A v \in Workers \ {w} : worker'[v] = worker[v]
    BY <1>1, <1>6 DEF TypeOK
  <1>13. \/ ~InUse(j) /\ reserved' = reserved \cup {new}
         \/ /\ InUse(j) /\ reserved' = reserved
            /\ \A r \in reserved : r.job = j => r.volume = VolumeOf[w]
    <2>1. CASE job[j].state = "queued"
      <3>1. ~InUse(j)
        BY <2>1 DEF InUse, Stages
      <3>2. ReservationOf(j) = {}
        BY <3>1 DEF ReservationOf, IInv, ReservationsAgree
      <3> QED
        BY <1>6, <3>1, <3>2
    <2>2. CASE job[j].state # "queued"
      <3>1. job[j].state \in Stages /\ \E r \in ReservationOf(j) : r.volume = VolumeOf[w]
        BY <1>3, <2>2 DEF CandidateQueued, CandidateLapsed
      <3>2. InUse(j)
        BY <3>1 DEF InUse
      <3> QED
        BY <1>6, <3>1, <3>2 DEF IInv, ReservationsAgree, ReservationOf
    <2> QED
      BY <2>1, <2>2
  <1>14. TypeOK'
    BY <1>1, <1>6, <1>9, <1>10, <1>11, <1>12 DEF TypeOK, RowSet, Claiming
  <1>15. InUse(j)'
    BY <1>8, <1>11 DEF InUse, RowSet
  <1>16. ReservationsAgree'
    <2>1. \A k \in Jobs \ {j} : (InUse(k)' <=> InUse(k)) /\ Len(heads'[k]) = Len(heads[k])
      BY <1>11 DEF InUse, RowSet
    <2>2. Len(heads'[j]) = n
      BY <1>11 DEF RowSet
    <2>3. CASE ~InUse(j) /\ reserved' = reserved \cup {new}
      <3>1. \A r \in reserved : r.job \in Jobs \ {j}
        BY <1>1, <2>3 DEF IInv, ReservationsAgree, TypeOK
      <3> QED
        BY <1>10, <1>15, <2>1, <2>2, <2>3, <3>1 DEF IInv, ReservationsAgree
    <2>4. CASE InUse(j) /\ reserved' = reserved
      BY <1>1, <1>15, <2>1, <2>2, <2>4 DEF IInv, ReservationsAgree, TypeOK
    <2> QED
      BY <1>13, <2>3, <2>4
  <1>17. TokenAgrees(aHead)
    BY <1>5, <1>7 DEF TokenAgrees
  <1>18. RowAgrees(j)'
    BY <1>4, <1>7, <1>8, <1>11, <1>17 DEF RowSet, RowAgrees, TokenAgrees, At, Stages
  <1>19. RowsAgree'
    <2> SUFFICES ASSUME NEW k \in Jobs, k # j PROVE RowAgrees(k)'
      BY <1>18 DEF RowsAgree
    <2>1. RowAgrees(k) /\ job'[k] = job[k] /\ heads'[k] = heads[k]
      BY <1>11 DEF IInv, RowsAgree, RowSet
    <2> QED
      BY <2>1 DEF RowAgrees, TokenAgrees, At, Queued
  <1>20. ClaimsAreRecorded'
    <2>1. ClaimIsRecorded(w)'
      <3>1. HeadRow(w)' = aHead /\ Len(heads'[j]) = n
        BY <1>9, <1>11, <1>12 DEF HeadRow, RowSet
      <3>2. \A r \in reserved' : r.job = j => r.volume = VolumeOf[w]
        BY <1>10, <1>13 DEF IInv, ReservationsAgree
      <3> QED
        BY <1>5, <1>7, <1>9, <1>12, <3>1, <3>2 DEF ClaimIsRecorded
    <2>2. ASSUME NEW v \in Workers, v # w, worker'[v] \in Execution
          PROVE  ClaimIsRecorded(v)'
      <3>1. ClaimIsRecorded(v) /\ worker'[v] = worker[v] /\ worker[v] \in Execution
        BY <1>12, <2>2 DEF IInv, ClaimsAreRecorded, Executes
      <3>2. CASE worker[v].job # j
        <4>1. PICK k \in Jobs \ {j} : k = worker[v].job
          BY <3>1, <3>2
        <4>2. heads'[k] = heads[k] /\ \A r \in reserved' : r.job = k => r \in reserved
          BY <1>10, <1>11, <1>13 DEF RowSet
        <4> QED
          BY <3>1, <4>1, <4>2 DEF ClaimIsRecorded, HeadRow
      <3>3. CASE worker[v].job = j /\ worker[v].attempt # n
        <4>1. /\ worker[v].attempt \in 1..n /\ worker[v].attempt # Len(heads[j])
              /\ heads'[j][worker[v].attempt] = heads[j][worker[v].attempt]
              /\ Len(heads'[j]) = n
          BY <1>11, <3>1, <3>3 DEF ClaimIsRecorded, RowSet
        <4>2. heads[j][worker[v].attempt].token = 0
          BY <1>4, <4>1 DEF RowAgrees, TokenAgrees
        <4> QED
          BY <3>1, <3>3, <4>1, <4>2 DEF ClaimIsRecorded, HeadRow
      <3>4. CASE worker[v].job = j /\ worker[v].attempt = n
        <4>1. worker[v].token <= At(j).claims /\ At(j).claims \in Nat /\ worker[v].token \in Nat
          BY <1>4, <3>1, <3>4 DEF ClaimIsRecorded, HeadRow, At, AttemptHead
        <4>2. heads'[j][n] = aHead /\ Len(heads'[j]) = n
          BY <1>11 DEF RowSet
        <4>3. worker[v].token < claim
          BY <1>5, <4>1
        <4> QED
          BY <1>5, <1>7, <3>1, <3>4, <4>1, <4>2, <4>3 DEF ClaimIsRecorded, HeadRow
      <3> QED
        BY <3>2, <3>3, <3>4
    <2> QED
      BY <2>1, <2>2 DEF ClaimsAreRecorded, Executes
  <1>21. CandidatesStay'
    <2> SUFFICES ASSUME NEW v \in Workers, worker'[v].phase = "claiming" PROVE CandidateStays(v)'
      BY DEF CandidatesStay
    <2>1. v # w /\ worker'[v] = worker[v] /\ CandidateStays(v) /\ Claiming(v)
      BY <1>1, <1>9, <1>12 DEF IInv, CandidatesStay, TypeOK, Idle
    <2>2. PICK k \in Jobs \ {j} : k = worker[v].job
      BY <1>3, <2>1 DEF Claiming
    <2>3. job'[k] = job[k] /\ heads'[k] = heads[k]
      BY <1>11 DEF RowSet
    <2>4. reserved \subseteq reserved'
      BY <1>6
    <2>5. job'[k].state # "absent" /\ (CandidateQueued(k)' \/ CandidateLapsed(k, VolumeOf[v])')
      BY <2>1, <2>2, <2>3, <2>4
      DEF CandidateStays, CandidateQueued, CandidateLapsed, ReservationOf, At
    <2>6. \A u \in Workers : worker'[u].phase = "claiming" /\ worker'[u].job = k => u = v
      BY <1>9, <1>12, <2>1, <2>2 DEF CandidateStays
    <2> QED
      BY <2>1, <2>2, <2>5, <2>6 DEF CandidateStays
  <1>22. ResultsAreOfSucceeded'
    <2>1. job[j].state # "succeeded"
      BY <1>3 DEF CandidateQueued, CandidateLapsed, Stages
    <2> QED
      BY <1>6, <1>11, <2>1, ResultsStay
  <1> QED
    BY <1>14, <1>16, <1>19, <1>20, <1>21, <1>22 DEF IInv

-----------------------------------------------------------------------------
(* The runner.                                                             *)

\* A runner past its claim.
LEMMA RunnersExecute ==
    ASSUME IInv, NEW w \in Workers, worker[w].phase \notin {"idle", "claiming"}
    PROVE  TypeOK /\ worker[w] \in Execution /\ ClaimIsRecorded(w)
  BY DEF IInv, TypeOK, Claiming, Idle, ClaimsAreRecorded, Executes

\* A head that has the worker's token is the last, and its job's.
LEMMA HeldJob ==
    ASSUME IInv, NEW w \in Workers, worker[w].phase \notin {"idle", "claiming"},
           NEW j \in Jobs, j = worker[w].job, HeadRow(w).token = worker[w].token
    PROVE  /\ worker[w] \in Execution /\ worker[w].attempt = Len(heads[j]) /\ HeadRow(w) = At(j)
           /\ heads[j] # <<>> /\ At(j) \in AttemptHead /\ TokenAgrees(At(j))
           /\ At(j).claims = worker[w].token
           /\ HeadRow(w).state = "leased" => job[j].state \in Stages
           /\ HeadRow(w).state = "cancel-requested" => job[j].state = "cancel-requested"
           /\ \A r \in reserved : r.job = j => r.volume = VolumeOf[w]
  <1>1. /\ worker[w] \in Execution /\ ClaimIsRecorded(w) /\ RowAgrees(j) /\ job[j] \in JobRow
        /\ \A n \in 1..Len(heads[j]) : heads[j][n] \in AttemptHead
        /\ heads[j] \in Seq(AttemptHead)
    BY RunnersExecute, PresentRows
  <1>2. worker[w].attempt \in 1..Len(heads[j]) /\ worker[w].token \in Nat \ {0}
    BY <1>1, ExecutionsAreNotIdle DEF ClaimIsRecorded
  <1>3. HeadRow(w) = heads[j][worker[w].attempt]
    BY DEF HeadRow
  <1>4. TokenAgrees(HeadRow(w)) /\ HeadRow(w).state \in {"leased", "cancel-requested"}
    BY <1>1, <1>2, <1>3 DEF RowAgrees, TokenAgrees
  <1>5. worker[w].attempt = Len(heads[j])
    BY <1>1, <1>2, <1>3, <1>4 DEF RowAgrees
  <1>6. HeadRow(w) = At(j) /\ heads[j] # <<>>
    BY <1>1, <1>2, <1>3, <1>5 DEF At
  <1>7. At(j) \in AttemptHead /\ At(j).claims = worker[w].token
    BY <1>1, <1>2, <1>3, <1>4, <1>6 DEF TokenAgrees
  <1>8. /\ HeadRow(w).state = "leased" => job[j].state \in Stages
        /\ HeadRow(w).state = "cancel-requested" => job[j].state = "cancel-requested"
    BY <1>1, <1>6 DEF RowAgrees, Queued, JobRow, JobStates
  <1> QED
    BY <1>1, <1>4, <1>5, <1>6, <1>7, <1>8 DEF ClaimIsRecorded

\* A heartbeat.
LEMMA NextExecution ==
    ASSUME NEW e \in Execution
    PROVE  /\ AfterHeartbeat(e) \in Execution
           /\ AfterHeartbeat(e).job = e.job /\ AfterHeartbeat(e).attempt = e.attempt
           /\ AfterHeartbeat(e).token = e.token
  <1>1. e.asks \in Stages
    BY DEF Execution
  <1>2. CASE e.asks = "preparing"
    BY <1>2 DEF AfterHeartbeat, Execution, Stages
  <1>3. CASE e.asks = "rendering-safe"
    <2>1. AfterHeartbeat(e) = [e EXCEPT !.phase = "rendering", !.asks = "validating-safe"]
      BY <1>3 DEF AfterHeartbeat
    <2> QED
      BY <2>1 DEF Execution, Stages
  <1>4. CASE e.asks = "validating-safe"
    BY <1>4 DEF AfterHeartbeat, Execution, Stages
  <1>5. CASE e.asks = "publishing-safe"
    BY <1>5 DEF AfterHeartbeat, Execution, Stages
  <1> QED
    BY <1>1, <1>2, <1>3, <1>4, <1>5 DEF Stages

LEMMA HeartbeatKeeps ==
    ASSUME IInv, NEW w \in Workers, NEW free \in FreeBytes, Heartbeat(w, free)
    PROVE  IInv'
  <1>1. TypeOK /\ worker[w] \in Execution /\ worker[w].phase = "preparing" /\ MayUpdate(w)
    BY RunnersExecute DEF Heartbeat
  <1>2. PICK j \in Jobs : j = worker[w].job
    BY <1>1, ExecutionsAreNotIdle
  <1>3. /\ heads[j] # <<>> /\ At(j) \in AttemptHead /\ TokenAgrees(At(j)) /\ job[j].state \in Stages
        /\ At(j).state = "leased" /\ ~Locked(j)
    BY <1>1, <1>2, HeldJob DEF MayUpdate, Holds
  <1>4. PICK stage \in Stages : stage = worker[w].asks
    BY <1>1 DEF Execution
  <1> DEFINE aHead == [At(j) EXCEPT !.stage = stage]
             aJob == JobBecomes(j, stage, job[j].retryable)
  <1>5. /\ aHead \in AttemptHead /\ aHead.state = "leased" /\ aHead.token = At(j).token
        /\ aHead.claims = At(j).claims /\ aHead.stage = stage
    BY <1>3 DEF AttemptHead
  <1>6. job[j].retryable \in BOOLEAN /\ stage \in JobStates
    BY <1>1 DEF TypeOK, JobRow, JobStates
  <1>7. aJob \in JobRow /\ aJob.state = stage
    BY <1>1, <1>6, JobAfter
  <1>8. SetRows(j, aHead, aJob) /\ UNCHANGED <<reserved, results>>
    BY <1>2, <1>4 DEF Heartbeat
  <1> HIDE DEF aHead, aJob
  <1>9. RowSet(j, aJob, aHead)
    BY <1>1, <1>3, <1>5, <1>7, <1>8, RowsAfter
  <1>10. TokenAgrees(aHead)
    BY <1>3, <1>5 DEF TokenAgrees
  <1>11. RowAgrees(j)'
    <2>1. \A n \in 1..Len(heads[j]) :
              /\ TokenAgrees(heads'[j][n])
              /\ n # Len(heads[j]) => heads'[j][n].state \notin {"leased", "cancel-requested"}
      BY <1>9, <1>10, PresentRows DEF RowSet, RowAgrees
    <2>2. job'[j] = aJob /\ heads'[j] # <<>> /\ At(j)' = aHead /\ Len(heads'[j]) = Len(heads[j])
      BY <1>9 DEF RowSet, At
    <2> QED
      BY <1>5, <1>7, <2>1, <2>2 DEF RowAgrees, TokenAgrees, Stages
  <1>12. WorkersFollow
    BY <1>1, NextExecution, WorkersThatGo DEF Heartbeat
  <1>13. InUse(j)' <=> InUse(j)
    BY <1>3, <1>7, <1>9 DEF InUse, RowSet
  <1>14. LocksEnd(j) /\ job[j].state # "succeeded"
    BY <1>3, UnlockedRows DEF Stages
  <1> QED
    BY <1>3, <1>5, <1>7, <1>8, <1>9, <1>11, <1>12, <1>13, <1>14, KeepStep

\* Whatever goes wrong for the runner, its claim remains.
LEMMA FailsKeeps ==
    ASSUME IInv, NEW w \in Workers, worker[w].phase \notin {"idle", "claiming"},
           NEW code \in {"retryable", "final", "cancel"}, Fails(w, code)
    PROVE  IInv'
  <1>1. TypeOK /\ worker[w] \in Execution
    BY RunnersExecute
  <1> DEFINE e == [worker[w] EXCEPT !.phase = "failing", !.code = code]
  <1>2. /\ e \in Execution /\ e.job = worker[w].job /\ e.attempt = worker[w].attempt
        /\ e.token = worker[w].token
    BY <1>1 DEF Execution
  <1>3. worker' = [worker EXCEPT ![w] = e]
    BY DEF Fails
  <1> HIDE DEF e
  <1>4. WorkersFollow
    BY <1>1, <1>2, <1>3, WorkersThatGo
  <1> QED
    BY <1>4, QuietStep DEF Fails

LEMMA RenderKeeps ==
    ASSUME IInv, NEW w \in Workers, Render(w)
    PROVE  IInv'
  <1>1. TypeOK /\ worker[w] \in Execution
    BY RunnersExecute DEF Render
  <1> DEFINE e == [worker[w] EXCEPT !.phase = "preparing"]
  <1>2. /\ e \in Execution /\ e.job = worker[w].job /\ e.attempt = worker[w].attempt
        /\ e.token = worker[w].token
    BY <1>1 DEF Execution
  <1>3. worker' = [worker EXCEPT ![w] = e]
    BY DEF Render
  <1> HIDE DEF e
  <1>4. WorkersFollow
    BY <1>1, <1>2, <1>3, WorkersThatGo
  <1> QED
    BY <1>4, QuietStep DEF Render

LEMMA PublishKeeps ==
    ASSUME IInv, NEW w \in Workers, NEW enabled \in BOOLEAN, NEW answered \in BOOLEAN,
           Publish(w, enabled, answered)
    PROVE  IInv'
  <1>1. TypeOK /\ worker[w] \in Execution /\ worker[w].phase = "publishing" /\ MayUpdate(w)
    BY RunnersExecute DEF Publish
  <1>2. PICK j \in Jobs : j = worker[w].job
    BY <1>1, ExecutionsAreNotIdle
  <1>3. /\ heads[j] # <<>> /\ At(j) \in AttemptHead /\ job[j].state \in Stages /\ ~Locked(j)
        /\ RowAgrees(j)
    BY <1>1, <1>2, HeldJob, PresentRows DEF MayUpdate, Holds
  <1> DEFINE aHead == Ended(j, "succeeded")
             aJob == JobBecomes(j, "succeeded", FALSE)
             result == [job |-> j, attempt |-> worker[w].attempt, claim |-> worker[w].token]
  <1>4. /\ SetRows(j, aHead, aJob) /\ Release(j) /\ ~\E r \in results : r.job = j
        /\ results' = results \cup {result}
    BY <1>2 DEF Publish
  <1>5. /\ aHead \in AttemptHead /\ aHead.state = "succeeded" /\ aHead.token = 0
        /\ aHead.claims = At(j).claims
    BY <1>1, <1>3, EndedHead
  <1>6. aJob \in JobRow /\ aJob.state = "succeeded"
    BY <1>1, JobAfter DEF JobStates
  <1>7. result \in [job : Jobs, attempt : Nat, claim : Nat] /\ result.job = j
    BY <1>1 DEF Execution
  <1> HIDE DEF aHead, aJob, result
  <1>8. RowSet(j, aJob, aHead)
    BY <1>1, <1>3, <1>4, <1>5, <1>6, RowsAfter
  <1>9. RowAgrees(j)'
    BY <1>3, <1>5, <1>6, <1>8 DEF RowSet, RowAgrees, TokenAgrees, At, Stages
  <1>10. WorkersFollow
    <2>1. CASE answered
      BY <1>1, <2>1, WorkersThatStop DEF Publish, Stop
    <2>2. CASE ~answered
      <3> DEFINE e == [worker[w] EXCEPT !.phase = "failing", !.code = "final"]
      <3>1. /\ e \in Execution /\ e.job = worker[w].job /\ e.attempt = worker[w].attempt
            /\ e.token = worker[w].token
        BY <1>1 DEF Execution
      <3>2. worker' = [worker EXCEPT ![w] = e]
        BY <2>2 DEF Publish
      <3> HIDE DEF e
      <3> QED
        BY <1>1, <3>1, <3>2, WorkersThatGo
    <2> QED
      BY <2>1, <2>2
  <1>11. LocksEnd(j)
    BY <1>3, UnlockedRows
  <1>12. RowsAgree' /\ ClaimsAreRecorded' /\ CandidatesStay'
    BY <1>3, <1>4, <1>5, <1>6, <1>8, <1>9, <1>10, <1>11, RowStep, ReleaseEnds
  <1>13. ReservationsAgree'
    BY <1>4, <1>6, <1>8, ReservationsEnded DEF RowSet, InUse, Stages
  <1>14. TypeOK'
    BY <1>1, <1>4, <1>7, <1>8, <1>10, TypesFollow, ReleaseEnds DEF TypeOK
  <1>15. ResultsAreOfSucceeded'
    BY <1>1, <1>4, <1>6, <1>7, <1>8 DEF IInv, ResultsAreOfSucceeded, RowSet, TypeOK
  <1> QED
    BY <1>12, <1>13, <1>14, <1>15 DEF IInv

LEMMA FailAttemptKeeps ==
    ASSUME IInv, NEW w \in Workers, FailAttempt(w)
    PROVE  IInv'
  <1>1. TypeOK /\ worker[w] \in Execution /\ worker[w].phase = "failing" /\ MayUpdate(w)
        /\ Stop(w)
    BY RunnersExecute DEF FailAttempt
  <1>2. PICK j \in Jobs : j = worker[w].job
    BY <1>1, ExecutionsAreNotIdle
  <1>3. job[j].state \in Stages /\ ~Locked(j)
    BY <1>1, <1>2, HeldJob DEF MayUpdate, Holds
  <1> DEFINE retryable == worker[w].code = "retryable"
  <1>4. /\ SetRows(j, Ended(j, "failed"), JobBecomes(j, "failed", retryable)) /\ Release(j)
        /\ results' = results
    BY <1>2 DEF FailAttempt
  <1>5. retryable \in BOOLEAN
    OBVIOUS
  <1> HIDE DEF retryable
  <1>6. WorkersFollow /\ LocksEnd(j) /\ job[j].state \notin {"absent", "succeeded"}
    BY <1>1, <1>3, WorkersThatStop, UnlockedRows DEF Stages
  <1> QED
    BY <1>4, <1>5, <1>6, EndStep

LEMMA AcknowledgeKeeps ==
    ASSUME IInv, NEW w \in Workers, Acknowledge(w)
    PROVE  IInv'
  <1>1. /\ TypeOK /\ worker[w] \in Execution /\ worker[w].phase = "failing" /\ Stop(w)
        /\ HeadRow(w).state = "cancel-requested" /\ HeadRow(w).token = worker[w].token
    BY RunnersExecute DEF Acknowledge
  <1>2. PICK j \in Jobs : j = worker[w].job
    BY <1>1, ExecutionsAreNotIdle
  <1>3. job[j].state = "cancel-requested" /\ ~Locked(j)
    BY <1>1, <1>2, HeldJob DEF Acknowledge
  <1>4. /\ SetRows(j, Ended(j, "cancelled"), JobBecomes(j, "cancelled", TRUE)) /\ Release(j)
        /\ results' = results
    BY <1>2 DEF Acknowledge
  <1>5. WorkersFollow /\ LocksEnd(j)
    BY <1>1, <1>3, WorkersThatStop, UnlockedRows
  <1> QED
    BY <1>3, <1>4, <1>5, EndStep

-----------------------------------------------------------------------------
(* The invariant, and what follows from it.                                *)

LEMMA InitEstablishes ==
    ASSUME Init
    PROVE  IInv
  <1>1. TypeOK
    BY DEF Init, TypeOK, JobRow, JobStates
  <1>2. RowsAgree
    BY DEF Init, RowsAgree, RowAgrees, Stages
  <1> QED
    BY <1>1, <1>2, ExecutionsAreNotIdle
    DEF Init, IInv, ReservationsAgree, InUse, Stages, ClaimsAreRecorded, Executes, CandidatesStay,
        Idle, ResultsAreOfSucceeded

LEMMA NextKeeps ==
    ASSUME RenderConstants, IInv, [Next]_vars
    PROVE  IInv'
  <1>1. ASSUME WorkersFollow, UNCHANGED <<job, heads, reserved, results>> PROVE IInv'
    BY <1>1, QuietStep
  <1>2. ASSUME NEW j \in Jobs, UserStep(j) \/ LeaseLapses(j) PROVE IInv'
    <2>1. \A wanted, provider \in BOOLEAN : RequestEnhancement(j, wanted, provider) => IInv'
      BY <1>1, WorkersThatStay DEF RequestEnhancement, IInv
    <2> QED
      BY <1>2, <2>1, CreateKeeps, CancelKeeps, RetryKeeps, LeaseLapsesKeeps DEF UserStep
  <1>3. ASSUME NEW w \in Workers, WorkerStep(w) PROVE IInv'
    <2>1. ClaimReturns(w) \/ ClaimRollsBack(w) \/ GiveUp(w) \/ Crash(w) => IInv'
      BY StopKeeps DEF ClaimReturns, ClaimRollsBack, GiveUp, Crash
    <2>2. Fenced(w) \/ RenderAborted(w) => IInv'
      BY FailsKeeps DEF Fenced, RenderAborted
    <2>3. \A code \in {"retryable", "final"} : Throws(w, code) => IInv'
      BY FailsKeeps DEF Throws
    <2>4. \A free \in FreeBytes : HeartbeatRefused(w, free) => IInv'
      BY FailsKeeps DEF HeartbeatRefused
    <2>5. ClaimStep(w) => IInv'
      BY <2>1, ClaimCancelsKeeps, ClaimLeasesKeeps DEF ClaimStep
    <2>6. RunnerStep(w) => IInv'
      BY <2>1, <2>2, <2>4, HeartbeatKeeps, RenderKeeps, PublishKeeps, FailAttemptKeeps,
         AcknowledgeKeeps DEF RunnerStep
    <2>7. \A j \in Jobs, free \in FreeBytes : ClaimReads(w, j, free) => IInv'
      BY ClaimReadsKeeps
    <2> QED
      BY <1>3, <2>1, <2>2, <2>3, <2>5, <2>6, <2>7 DEF WorkerStep
  <1>4. UNCHANGED vars => IInv'
    BY <1>1, WorkersThatStay DEF vars, IInv
  <1> QED
    BY <1>2, <1>3, <1>4 DEF Next

\* Leases, claims and reservations are as the rows tell.
THEOREM LeasesAreSound ==
    ASSUME RenderConstants
    PROVE  Spec => []IInv
  <1>1. Init => IInv
    BY InitEstablishes
  <1>2. IInv /\ [Next]_vars => IInv'
    BY NextKeeps
  <1> QED
    BY <1>1, <1>2, PTL DEF Spec

\* One reservation for a job in use, on the volume of the worker that holds
\* its lease.
LEMMA ReservationsAreThere ==
    ASSUME IInv
    PROVE  ReservationsFollowLeases
  <1>1. ASSUME NEW j \in Jobs
        PROVE  Cardinality({r \in reserved : r.job = j}) =
                  IF job[j].state \in Stages \cup {"cancel-requested"} THEN 1 ELSE 0
    <2>1. CASE InUse(j)
      <3>1. PICK r \in reserved : r.job = j
        BY <2>1 DEF IInv, ReservationsAgree
      <3>2. {s \in reserved : s.job = j} = {r}
        BY <3>1 DEF IInv, ReservationsAgree
      <3> QED
        BY <2>1, <3>2, FS_Singleton DEF InUse
    <2>2. CASE ~InUse(j)
      <3>1. {s \in reserved : s.job = j} = {}
        BY <2>2 DEF IInv, ReservationsAgree
      <3> QED
        BY <2>2, <3>1, FS_EmptySet DEF InUse
    <2> QED
      BY <2>1, <2>2
  <1>2. ASSUME NEW w \in Workers, worker[w].phase \notin {"idle", "claiming"}, Holds(w)
        PROVE  \E r \in ReservationOf(worker[w].job) : r.volume = VolumeOf[w]
    <2>1. PICK j \in Jobs : j = worker[w].job
      BY <1>2, RunnersExecute, ExecutionsAreNotIdle
    <2>2. job[j].state \in Stages /\ \A r \in reserved : r.job = j => r.volume = VolumeOf[w]
      BY <1>2, <2>1, HeldJob DEF Holds
    <2>3. PICK r \in reserved : r.job = j
      BY <2>2 DEF IInv, ReservationsAgree, InUse
    <2>4. r.attempt = Len(heads[j])
      BY <2>3 DEF IInv, ReservationsAgree
    <2> QED
      BY <2>1, <2>2, <2>3, <2>4 DEF ReservationOf
  <1> QED
    BY <1>1, <1>2 DEF ReservationsFollowLeases

\* Disk is reserved for exactly the attempts a worker may be rendering.
THEOREM ReservationsAreOfLeases ==
    ASSUME RenderConstants
    PROVE  Spec => []ReservationsFollowLeases
  <1>1. IInv => ReservationsFollowLeases
    BY ReservationsAreThere
  <1> QED
    BY <1>1, LeasesAreSound, PTL

-----------------------------------------------------------------------------
(* Sums of estimates.  The fold of Bytes is a recursive function: that it  *)
(* has values at all, and what they are, is proved by counting up.         *)

\* Every number is in a set that has 0 and the next of each of its members.
LEMMA CountingUp ==
    ASSUME NEW S, 0 \in S, \A n \in Nat : n \in S => n + 1 \in S
    PROVE  \A n \in Nat : n \in S
  <1> DEFINE Out == {n \in Nat : n \notin S}
  <1> SUFFICES ASSUME Out # {} PROVE FALSE
    OBVIOUS
  <1>1. PICK x \in Out : \A y \in Out : <<y, x>> \notin OpToRel(<, Nat)
    BY WFMin, NatLessThanWellFounded, Zenon
  <1>2. x \in Nat \ {0}
    BY <1>1
  <1>3. \A y \in Out : <<y, x>> \notin {ss \in Nat \X Nat : ss[1] < ss[2]}
    BY <1>1, Zenon DEF OpToRel
  <1> DEFINE p == <<x - 1, x>>
  <1>4. p \in {ss \in Nat \X Nat : ss[1] < ss[2]}
    <2>1. p \in Nat \X Nat /\ p[1] = x - 1 /\ p[2] = x
      BY <1>2
    <2> QED
      BY <1>2, <2>1
  <1>5. x - 1 \notin Out
    BY <1>3, <1>4
  <1>6. x - 1 \in Nat /\ (x - 1) + 1 = x
    BY <1>2
  <1>7. (x - 1) + 1 \in S
    BY <1>5, <1>6
  <1> QED
    BY <1>6, <1>7

\* The function that the fold of Bytes is.
Weighs(f, S) ==
    f = [s \in SUBSET S |-> IF s = {} THEN 0
                            ELSE LET r == CHOOSE r \in s : TRUE IN Estimate[r.job] + f[s \ {r}]]

AreWeighed(S) == IsFiniteSet(S) /\ \A r \in S : Estimate[r.job] \in Nat

Picked(s) == CHOOSE r \in s : TRUE

LEMMA PickedIsOne ==
    ASSUME NEW s, s # {}
    PROVE  Picked(s) \in s
  BY DEF Picked

LEMMA BytesAreWeights ==
    ASSUME NEW S
    PROVE  Bytes(S) = (CHOOSE f : Weighs(f, S))[S]
  BY DEF Bytes, MapThenSumSet, MapThenFoldSet, Weighs

LEMMA WeighedValues ==
    ASSUME NEW S, NEW f, Weighs(f, S)
    PROVE  /\ f[{}] = 0
           /\ \A s \in SUBSET S : s # {} => f[s] = Estimate[Picked(s).job] + f[s \ {Picked(s)}]
  BY DEF Weighs, Picked

LEMMA SmallerSets ==
    ASSUME NEW S, AreWeighed(S), NEW s \in SUBSET S, NEW r \in s
    PROVE  /\ AreWeighed(s) /\ AreWeighed(s \ {r}) /\ Estimate[r.job] \in Nat
           /\ Cardinality(s \ {r}) \in Nat
           /\ \A n \in Nat : Cardinality(s) <= n + 1 => Cardinality(s \ {r}) <= n
  <1>1. IsFiniteSet(s)
    BY FS_Subset DEF AreWeighed
  <1>2. IsFiniteSet(s \ {r}) /\ Cardinality(s \ {r}) = Cardinality(s) - 1
    BY <1>1, FS_RemoveElement
  <1>3. Cardinality(s) \in Nat /\ Cardinality(s \ {r}) \in Nat
    BY <1>1, <1>2, FS_CardinalityType
  <1>4. \A n \in Nat : Cardinality(s) <= n + 1 => Cardinality(s \ {r}) <= n
    BY <1>2, <1>3
  <1> QED
    BY <1>1, <1>2, <1>3, <1>4 DEF AreWeighed

LEMMA EmptyIsSmall ==
    ASSUME NEW S, AreWeighed(S), NEW s \in SUBSET S
    PROVE  Cardinality(s) \in Nat /\ (Cardinality(s) = 0 <=> s = {}) /\ IsFiniteSet(s)
           /\ Cardinality(s) <= Cardinality(S)
  BY FS_Subset, FS_EmptySet, FS_CardinalityType DEF AreWeighed

\* There is such a function for every finite set.
LEMMA WeightsExist ==
    ASSUME NEW S, AreWeighed(S)
    PROVE  \E f : Weighs(f, S)
  <1> DEFINE Small(n) == {s \in SUBSET S : Cardinality(s) <= n}
             Value(f, s) == IF s = {} THEN 0 ELSE Estimate[Picked(s).job] + f[s \ {Picked(s)}]
             Weighed == {n \in Nat : \E f \in [Small(n) -> Nat] : \A s \in Small(n) : f[s] = Value(f, s)}
  <1>1. 0 \in Weighed
    <2>1. Small(0) = {{}}
      BY EmptyIsSmall, FS_EmptySet
    <2> DEFINE f == [s \in Small(0) |-> 0]
    <2>2. f \in [Small(0) -> Nat] /\ \A s \in Small(0) : f[s] = Value(f, s)
      BY <2>1
    <2> QED
      BY <2>2
  <1>2. ASSUME NEW n \in Nat, n \in Weighed PROVE n + 1 \in Weighed
    <2>1. PICK f \in [Small(n) -> Nat] : \A s \in Small(n) : f[s] = Value(f, s)
      BY <1>2
    <2> DEFINE g == [s \in Small(n + 1) |-> Value(f, s)]
    <2>2. \A s \in Small(n + 1) :
             s # {} => /\ Picked(s) \in s /\ Estimate[Picked(s).job] \in Nat
                       /\ s \ {Picked(s)} \in Small(n) /\ s \ {Picked(s)} \in Small(n + 1)
      <3> SUFFICES ASSUME NEW s \in SUBSET S, Cardinality(s) <= n + 1, s # {}
                   PROVE  /\ Picked(s) \in s /\ Estimate[Picked(s).job] \in Nat
                          /\ Cardinality(s \ {Picked(s)}) <= n
                          /\ Cardinality(s \ {Picked(s)}) <= n + 1
        OBVIOUS
      <3>1. Picked(s) \in s
        BY PickedIsOne
      <3> QED
        <4>1. Cardinality(s \ {Picked(s)}) <= n /\ Cardinality(s \ {Picked(s)}) \in Nat
              /\ Estimate[Picked(s).job] \in Nat
          BY <3>1, SmallerSets
        <4> QED
          BY <3>1, <4>1
    <2>3. g \in [Small(n + 1) -> Nat]
      <3> SUFFICES ASSUME NEW s \in Small(n + 1) PROVE Value(f, s) \in Nat
        OBVIOUS
      <3> QED
        BY <2>1, <2>2
    <2>4. \A s \in Small(n) : g[s] = f[s]
      <3>1. ASSUME NEW s \in Small(n) PROVE s \in Small(n + 1)
        BY EmptyIsSmall
      <3> QED
        BY <2>1, <3>1
    <2>5. ASSUME NEW s \in Small(n + 1) PROVE g[s] = Value(g, s)
      <3>1. g[s] = Value(f, s)
        OBVIOUS
      <3>2. CASE s = {}
        BY <3>1, <3>2
      <3>3. CASE s # {}
        <4>1. g[s \ {Picked(s)}] = f[s \ {Picked(s)}]
          BY <2>2, <2>4, <3>3
        <4> HIDE DEF g
        <4> QED
          BY <3>1, <3>3, <4>1
      <3> QED
        BY <3>2, <3>3
    <2> HIDE DEF g, Value, Small
    <2> QED
      BY <2>3, <2>5
  <1> DEFINE c == Cardinality(S)
  <1>3. c \in Nat
    BY EmptyIsSmall
  <1>4. c \in Weighed
    <2> HIDE DEF Weighed
    <2> QED
      BY <1>1, <1>2, <1>3, CountingUp
  <1>5. Small(c) = SUBSET S
    BY EmptyIsSmall
  <1>6. PICK f \in [Small(c) -> Nat] : \A s \in Small(c) : f[s] = Value(f, s)
    BY <1>4
  <1>7. f = [s \in SUBSET S |-> Value(f, s)]
    BY <1>5, <1>6
  <1>8. Weighs(f, S)
    BY <1>7 DEF Weighs, Picked
  <1> QED
    BY <1>8

\* And what it says of a set, those of any other set that has it say too.
LEMMA WeightsAgree ==
    ASSUME NEW S, AreWeighed(S), NEW f, Weighs(f, S), NEW T, NEW g, Weighs(g, T)
    PROVE  \A s \in SUBSET S : s \in SUBSET T => f[s] = g[s] /\ f[s] \in Nat
  <1> DEFINE Agreed == {n \in Nat : \A s \in SUBSET S :
                           s \in SUBSET T /\ Cardinality(s) <= n => f[s] = g[s] /\ f[s] \in Nat}
  <1>1. 0 \in Agreed
    <2> SUFFICES ASSUME NEW s \in SUBSET S, Cardinality(s) <= 0 PROVE f[s] = g[s] /\ f[s] \in Nat
      OBVIOUS
    <2>1. s = {}
      BY EmptyIsSmall
    <2> QED
      BY <2>1, WeighedValues
  <1>2. ASSUME NEW n \in Nat, n \in Agreed PROVE n + 1 \in Agreed
    <2> SUFFICES ASSUME NEW s \in SUBSET S, s \in SUBSET T, Cardinality(s) <= n + 1
                 PROVE  f[s] = g[s] /\ f[s] \in Nat
      OBVIOUS
    <2>1. CASE s = {}
      BY <2>1, WeighedValues
    <2>2. CASE s # {}
      <3> DEFINE r == Picked(s)
      <3>1. r \in s
        BY <2>2, PickedIsOne
      <3>2. /\ f[s] = Estimate[r.job] + f[s \ {r}]
            /\ g[s] = Estimate[r.job] + g[s \ {r}]
        BY <2>2, WeighedValues
      <3>3. Estimate[r.job] \in Nat /\ Cardinality(s \ {r}) <= n
        BY <3>1, SmallerSets
      <3>4. s \ {r} \in SUBSET S /\ s \ {r} \in SUBSET T
        OBVIOUS
      <3> HIDE DEF r
      <3>5. f[s \ {r}] = g[s \ {r}] /\ f[s \ {r}] \in Nat
        BY <1>2, <3>3, <3>4
      <3> QED
        BY <3>2, <3>3, <3>5
    <2> QED
      BY <2>1, <2>2
  <1> SUFFICES ASSUME NEW s \in SUBSET S, s \in SUBSET T PROVE f[s] = g[s] /\ f[s] \in Nat
    OBVIOUS
  <1>3. Cardinality(s) \in Nat
    BY EmptyIsSmall
  <1>4. Cardinality(s) \in Agreed
    <2> HIDE DEF Agreed
    <2> QED
      BY <1>1, <1>2, <1>3, CountingUp
  <1> QED
    BY <1>3, <1>4

\* The bytes of a part of what is reserved.
LEMMA BytesOfParts ==
    ASSUME NEW S, AreWeighed(S), NEW f, Weighs(f, S), NEW s \in SUBSET S
    PROVE  Bytes(s) = f[s] /\ Bytes(s) \in Nat
  <1>1. AreWeighed(s)
    BY FS_Subset DEF AreWeighed
  <1> DEFINE g == CHOOSE g : Weighs(g, s)
  <1>2. Weighs(g, s)
    BY <1>1, WeightsExist
  <1>3. Bytes(s) = g[s]
    BY BytesAreWeights
  <1> HIDE DEF g
  <1> QED
    BY <1>2, <1>3, WeightsAgree

\* Which reservation is taken out first makes no difference to the sum.
LEMMA BytesOfTheOthers ==
    ASSUME NEW S, AreWeighed(S), NEW r \in S
    PROVE  /\ Bytes(S) \in Nat /\ Bytes(S \ {r}) \in Nat /\ Estimate[r.job] \in Nat
           /\ Bytes(S) = Estimate[r.job] + Bytes(S \ {r})
  <1>1. PICK f : Weighs(f, S)
    BY WeightsExist
  <1>2. \A s \in SUBSET S : Bytes(s) = f[s] /\ Bytes(s) \in Nat
    BY <1>1, BytesOfParts
  <1>3. \A s \in SUBSET S :
           s # {} => Bytes(s) = Estimate[Picked(s).job] + Bytes(s \ {Picked(s)})
    <2> SUFFICES ASSUME NEW s \in SUBSET S, s # {}
                 PROVE  Bytes(s) = Estimate[Picked(s).job] + Bytes(s \ {Picked(s)})
      OBVIOUS
    <2>1. f[s] = Estimate[Picked(s).job] + f[s \ {Picked(s)}]
      BY <1>1, WeighedValues
    <2>2. s \ {Picked(s)} \in SUBSET S
      OBVIOUS
    <2> QED
      BY <1>2, <2>1, <2>2
  <1> DEFINE Any == {n \in Nat : \A s \in SUBSET S : Cardinality(s) <= n =>
                        \A x \in s : Bytes(s) = Estimate[x.job] + Bytes(s \ {x})}
  <1>4. 0 \in Any
    <2> SUFFICES ASSUME NEW s \in SUBSET S, Cardinality(s) <= 0 PROVE s = {}
      OBVIOUS
    <2> QED
      BY EmptyIsSmall
  <1>5. ASSUME NEW n \in Nat, n \in Any PROVE n + 1 \in Any
    <2> SUFFICES ASSUME NEW s \in SUBSET S, Cardinality(s) <= n + 1, NEW x \in s
                 PROVE  Bytes(s) = Estimate[x.job] + Bytes(s \ {x})
      OBVIOUS
    <2> DEFINE p == Picked(s)
    <2>1. p \in s
      BY PickedIsOne
    <2>2. Bytes(s) = Estimate[p.job] + Bytes(s \ {p})
      BY <1>3
    <2> HIDE DEF p
    <2>3. CASE p = x
      BY <2>2, <2>3
    <2>4. CASE p # x
      <3>1. /\ s \ {p} \in SUBSET S /\ x \in s \ {p}
            /\ s \ {x} \in SUBSET S /\ p \in s \ {x}
            /\ (s \ {p}) \ {x} = (s \ {x}) \ {p} /\ (s \ {p}) \ {x} \in SUBSET S
        BY <2>1, <2>4
      <3>2. Cardinality(s \ {p}) <= n /\ Cardinality(s \ {x}) <= n
        BY <2>1, SmallerSets
      <3>3. /\ Bytes(s \ {p}) = Estimate[x.job] + Bytes((s \ {p}) \ {x})
            /\ Bytes(s \ {x}) = Estimate[p.job] + Bytes((s \ {x}) \ {p})
        BY <1>5, <3>1, <3>2
      <3>4. Estimate[p.job] \in Nat /\ Estimate[x.job] \in Nat
        BY <2>1 DEF AreWeighed
      <3>5. Bytes((s \ {p}) \ {x}) \in Nat
        BY <1>2, <3>1
      <3>6. Bytes((s \ {x}) \ {p}) = Bytes((s \ {p}) \ {x})
        BY <3>1
      <3>7. \A a, b, m, l \in Nat : \A k, h : k = a + l /\ l = b + m /\ h = a + m => k = b + h
        OBVIOUS
      <3>8. Bytes(s \ {p}) \in Nat
        BY <1>2, <3>1
      <3> QED
        BY <2>2, <3>3, <3>4, <3>5, <3>6, <3>7, <3>8
    <2> QED
      BY <2>3, <2>4
  <1>6. Cardinality(S) \in Nat
    BY EmptyIsSmall
  <1>7. Cardinality(S) \in Any
    <2> HIDE DEF Any
    <2> QED
      BY <1>4, <1>5, <1>6, CountingUp
  <1>8. S \ {r} \in SUBSET S /\ S \in SUBSET S
    OBVIOUS
  <1> QED
    BY <1>2, <1>6, <1>7, <1>8 DEF AreWeighed

\* Less is reserved by fewer.
LEMMA BytesOfFewer ==
    ASSUME NEW S, AreWeighed(S), NEW T \in SUBSET S
    PROVE  Bytes(T) \in Nat /\ Bytes(S) \in Nat /\ Bytes(T) <= Bytes(S)
  <1>1. \A s \in SUBSET S : AreWeighed(s) /\ Bytes(s) \in Nat
    <2>1. PICK f : Weighs(f, S)
      BY WeightsExist
    <2> QED
      BY <2>1, BytesOfParts, FS_Subset DEF AreWeighed
  <1> DEFINE Less == {n \in Nat : \A s \in SUBSET S : T \subseteq s /\ Cardinality(s) <= n =>
                         Bytes(T) <= Bytes(s)}
  <1>2. 0 \in Less
    <2> SUFFICES ASSUME NEW s \in SUBSET S, T \subseteq s, Cardinality(s) <= 0
                 PROVE  Bytes(T) <= Bytes(s)
      OBVIOUS
    <2>1. s = {}
      BY EmptyIsSmall
    <2>2. T = s
      BY <2>1
    <2> QED
      BY <1>1, <2>2
  <1>3. ASSUME NEW n \in Nat, n \in Less PROVE n + 1 \in Less
    <2> SUFFICES ASSUME NEW s \in SUBSET S, T \subseteq s, Cardinality(s) <= n + 1
                 PROVE  Bytes(T) <= Bytes(s)
      OBVIOUS
    <2>1. CASE T = s
      BY <1>1, <2>1
    <2>2. CASE T # s
      <3>1. PICK x \in s : x \notin T
        BY <2>2
      <3>2. Cardinality(s \ {x}) <= n
        BY SmallerSets
      <3>3. T \subseteq s \ {x} /\ s \ {x} \in SUBSET S
        BY <3>1
      <3>4. Bytes(T) <= Bytes(s \ {x})
        BY <1>3, <3>2, <3>3
      <3>5. /\ Bytes(s) \in Nat /\ Bytes(s \ {x}) \in Nat /\ Estimate[x.job] \in Nat
            /\ Bytes(s) = Estimate[x.job] + Bytes(s \ {x})
        BY <1>1, BytesOfTheOthers
      <3>6. Bytes(T) \in Nat
        BY <1>1
      <3> QED
        BY <3>4, <3>5, <3>6
    <2> QED
      BY <2>1, <2>2
  <1>4. Cardinality(S) \in Nat /\ S \in SUBSET S
    BY EmptyIsSmall
  <1>5. Cardinality(S) \in Less
    <2> HIDE DEF Less
    <2> QED
      BY <1>2, <1>3, <1>4, CountingUp
  <1> QED
    BY <1>1, <1>4, <1>5
\* A finite set of numbers has its greatest member.
LEMMA GreatestMember ==
    ASSUME NEW S, S \subseteq Nat, IsFiniteSet(S), S # {}
    PROVE  Max(S) \in Nat /\ \A n \in S : n <= Max(S)
  <1>1. \A k \in S : IsFiniteSet({m \in S : k < m}) /\ Cardinality({m \in S : k < m}) \in Nat
    <2> SUFFICES ASSUME NEW k \in S
                 PROVE  IsFiniteSet({m \in S : k < m}) /\ Cardinality({m \in S : k < m}) \in Nat
      OBVIOUS
    <2>1. {m \in S : k < m} \in SUBSET S
      OBVIOUS
    <2> QED
      BY <2>1, FS_Subset, FS_CardinalityType
  <1>2. PICK k \in S : \A l \in S : Cardinality({m \in S : k < m}) <= Cardinality({m \in S : l < m})
    <2> DEFINE Above == {Cardinality({m \in S : l < m}) : l \in S}
    <2>1. Above \subseteq Nat /\ Above # {}
      BY <1>1
    <2>2. PICK c \in Above : \A d \in Above : <<d, c>> \notin OpToRel(<, Nat)
      BY <2>1, WFMin, NatLessThanWellFounded, Zenon
    <2>3. \A d \in Above : <<d, c>> \notin {ss \in Nat \X Nat : ss[1] < ss[2]}
      BY <2>2, Zenon DEF OpToRel
    <2>4. ASSUME NEW d \in Above PROVE c <= d
      <3> DEFINE p == <<d, c>>
      <3>1. p \notin {ss \in Nat \X Nat : ss[1] < ss[2]}
        BY <2>3
      <3>2. p \in Nat \X Nat /\ p[1] = d /\ p[2] = c
        BY <2>1
      <3> QED
        BY <2>1, <3>1, <3>2
    <2> QED
      BY <2>4
  <1>3. \A l \in S : l <= k
    <2> SUFFICES ASSUME NEW l \in S, ~(l <= k) PROVE FALSE
      OBVIOUS
    <2>0. l \in Nat /\ k \in Nat /\ k < l /\ \A m \in S : m \in Nat
      OBVIOUS
    <2>1. {m \in S : l < m} \subseteq {m \in S : k < m} \ {l}
      <3> SUFFICES ASSUME NEW m \in S, l < m PROVE k < m /\ m # l
        OBVIOUS
      <3>1. m \in Nat
        BY <2>0
      <3> QED
        BY <2>0, <3>1
    <2>2. IsFiniteSet({m \in S : k < m} \ {l})
      BY <1>1, FS_RemoveElement
    <2>3. Cardinality({m \in S : l < m}) <= Cardinality({m \in S : k < m} \ {l})
      BY <2>1, <2>2, FS_Subset
    <2>4. Cardinality({m \in S : k < m} \ {l}) = Cardinality({m \in S : k < m}) - 1
      <3>1. l \in {m \in S : k < m}
        BY <2>0
      <3> QED
        BY <1>1, <3>1, FS_RemoveElement
    <2>5. Cardinality({m \in S : k < m}) <= Cardinality({m \in S : l < m})
      BY <1>2
    <2>6. Cardinality({m \in S : k < m}) \in Nat /\ Cardinality({m \in S : l < m}) \in Nat
      BY <1>1
    <2> QED
      BY <2>3, <2>4, <2>5, <2>6
  <1> QED
    BY <1>3 DEF Max

-----------------------------------------------------------------------------
(* The disk.  Every part of what is reserved on a volume fits into what    *)
(* one of its claims has measured, for the last of them counted the        *)
(* others; and what an open claim has counted cannot grow, since it has    *)
(* the lock of its volume.                                                 *)

OnVolume(v, j) == {r \in reserved : r.volume = v /\ r.job # j}

ReservedFits ==
    \A v \in Volumes : \A S \in SUBSET ReservedOn(v) :
        S # {} => \E r \in S : Floor + Bytes(S) <= r.observed

OpenClaimsCounted ==
    /\ \A w, u \in Workers :
          /\ worker[w].phase = "claiming" /\ worker[u].phase = "claiming"
          /\ VolumeOf[w] = VolumeOf[u]
          => w = u
    /\ \A w \in Workers :
          worker[w].phase = "claiming" =>
             /\ worker[w].others \in Nat
             /\ Bytes(OnVolume(VolumeOf[w], worker[w].job)) <= worker[w].others

DiskInv == IsFiniteSet(reserved) /\ ReservedFits /\ OpenClaimsCounted

LEMMA ReservationsAreWeighed ==
    ASSUME DiskConstants, IInv, IsFiniteSet(reserved), NEW S \in SUBSET reserved
    PROVE  AreWeighed(S)
  <1>1. IsFiniteSet(S)
    BY FS_Subset
  <1>2. \A r \in S : r.job \in Jobs
    BY DEF IInv, TypeOK
  <1> QED
    BY <1>1, <1>2 DEF AreWeighed, DiskConstants

\* The other attempts' reservations are those of other jobs.
LEMMA OthersAreOfOtherJobs ==
    ASSUME IInv, NEW j \in Jobs, NEW v
    PROVE  /\ ReservedOn(v) \ ReservationOf(j) = OnVolume(v, j)
           /\ Others(j, v) = Bytes(OnVolume(v, j))
  <1>1. ReservedOn(v) \ ReservationOf(j) = OnVolume(v, j)
    BY DEF IInv, ReservationsAgree, ReservedOn, ReservationOf, OnVolume
  <1> QED
    BY <1>1 DEF Others

\* No step but ClaimReads opens a claim.
ClaimsEnd == \A u \in Workers : worker'[u].phase = "claiming" => worker'[u] = worker[u]

LEMMA FollowersEndClaims ==
    ASSUME WorkersFollow
    PROVE  ClaimsEnd
  BY ExecutionsAreNotIdle DEF WorkersFollow, ClaimsEnd, Idle

LEMMA MovesEndClaims ==
    ASSUME TypeOK, NEW w \in Workers, NEW e, e.phase # "claiming", worker' = [worker EXCEPT ![w] = e]
    PROVE  ClaimsEnd
  BY DEF TypeOK, ClaimsEnd

\* Only a claim reserves.
LEMMA OnlyClaimsReserve ==
    ASSUME IInv, [Next]_vars
    PROVE  \/ ClaimsEnd /\ reserved' \subseteq reserved
           \/ \E w \in Workers, j \in Jobs, free \in FreeBytes : ClaimReads(w, j, free)
           \/ \E w \in Workers : ClaimLeases(w)
  <1> USE DEF IInv
  <1>1. worker' = worker => ClaimsEnd
    BY DEF ClaimsEnd
  <1>2. ASSUME NEW j \in Jobs, UserStep(j) \/ LeaseLapses(j)
        PROVE  ClaimsEnd /\ reserved' \subseteq reserved
    BY <1>1, <1>2 DEF UserStep, Create, Cancel, Retry, RequestEnhancement, LeaseLapses
  <1>3. ASSUME NEW w \in Workers, Stop(w) PROVE ClaimsEnd
    BY <1>3, MovesEndClaims DEF Stop, Idle
  <1>4. ASSUME NEW w \in Workers, worker[w] \in Execution, NEW code, Fails(w, code)
        PROVE  ClaimsEnd /\ reserved' \subseteq reserved
    <2> DEFINE e == [worker[w] EXCEPT !.phase = "failing", !.code = code]
    <2>1. e.phase = "failing"
      BY <1>4 DEF Execution
    <2>2. worker' = [worker EXCEPT ![w] = e] /\ reserved' = reserved
      BY <1>4 DEF Fails
    <2> HIDE DEF e
    <2> QED
      BY <2>1, <2>2, MovesEndClaims
  <1>5. ASSUME NEW w \in Workers, ClaimStep(w) \/ ClaimRollsBack(w) \/ Crash(w)
        PROVE  ClaimLeases(w) \/ (ClaimsEnd /\ reserved' \subseteq reserved)
    BY <1>3, <1>5 DEF ClaimStep, ClaimRollsBack, Crash, ClaimCancels, ClaimReturns, Release
  <1>6. ASSUME NEW w \in Workers, RunnerStep(w)
        PROVE  ClaimsEnd /\ reserved' \subseteq reserved
    <2>1. worker[w].phase \in {"preparing", "rendering", "publishing", "failing"}
      BY <1>6 DEF RunnerStep, Heartbeat, HeartbeatRefused, Fenced, Render, Publish, FailAttempt,
                  Acknowledge, GiveUp
    <2>2. worker[w] \in Execution
      BY <2>1, RunnersExecute
    <2>3. ASSUME NEW free \in FreeBytes, Heartbeat(w, free) PROVE ClaimsEnd /\ reserved' \subseteq reserved
      <3>1. AfterHeartbeat(worker[w]).phase # "claiming"
        BY <2>2, NextExecution, ExecutionsAreNotIdle
      <3> QED
        BY <2>3, <3>1, MovesEndClaims DEF Heartbeat
    <2>4. ASSUME NEW free \in FreeBytes, HeartbeatRefused(w, free)
          PROVE  ClaimsEnd /\ reserved' \subseteq reserved
      BY <1>4, <2>2, <2>4 DEF HeartbeatRefused
    <2>5. ASSUME Fenced(w) PROVE ClaimsEnd /\ reserved' \subseteq reserved
      BY <1>4, <2>2, <2>5 DEF Fenced
    <2>6. ASSUME Render(w) PROVE ClaimsEnd /\ reserved' \subseteq reserved
      <3> DEFINE e == [worker[w] EXCEPT !.phase = "preparing"]
      <3>1. e.phase # "claiming"
        BY <2>2 DEF Execution
      <3>2. worker' = [worker EXCEPT ![w] = e] /\ reserved' = reserved
        BY <2>6 DEF Render
      <3> HIDE DEF e
      <3> QED
        BY <3>1, <3>2, MovesEndClaims
    <2>7. ASSUME NEW enabled \in BOOLEAN, NEW answered \in BOOLEAN, Publish(w, enabled, answered)
          PROVE  ClaimsEnd /\ reserved' \subseteq reserved
      <3> DEFINE e == IF answered THEN Idle
                      ELSE [worker[w] EXCEPT !.phase = "failing", !.code = "final"]
      <3>1. e.phase # "claiming"
        BY <2>2 DEF Execution, Idle
      <3>2. worker' = [worker EXCEPT ![w] = e] /\ reserved' \subseteq reserved
        BY <2>7 DEF Publish, Release
      <3> HIDE DEF e
      <3> QED
        BY <3>1, <3>2, MovesEndClaims
    <2>8. FailAttempt(w) \/ Acknowledge(w) \/ GiveUp(w) => ClaimsEnd /\ reserved' \subseteq reserved
      BY <1>3 DEF FailAttempt, Acknowledge, GiveUp, Release
    <2> QED
      BY <1>6, <2>3, <2>4, <2>5, <2>6, <2>7, <2>8 DEF RunnerStep
  <1>7. ASSUME NEW w \in Workers, NEW code, RenderAborted(w) \/ Throws(w, code)
        PROVE  ClaimsEnd /\ reserved' \subseteq reserved
    <2>1. worker[w] \in Execution
      BY <1>7, RunnersExecute DEF RenderAborted, Throws
    <2> QED
      BY <1>4, <1>7, <2>1 DEF RenderAborted, Throws
  <1>8. UNCHANGED vars => ClaimsEnd /\ reserved' \subseteq reserved
    BY <1>1 DEF vars
  <1> QED
    BY <1>2, <1>5, <1>6, <1>7, <1>8 DEF Next, WorkerStep

LEMMA ReleasesKeepDisk ==
    ASSUME DiskConstants, IInv, DiskInv, ClaimsEnd, reserved' \subseteq reserved
    PROVE  DiskInv'
  <1>1. IsFiniteSet(reserved)'
    BY FS_Subset DEF DiskInv
  <1>2. ReservedFits'
    BY DEF DiskInv, ReservedFits, ReservedOn
  <1>3. ASSUME NEW w \in Workers, worker'[w].phase = "claiming"
        PROVE  /\ worker'[w].others \in Nat
               /\ Bytes(OnVolume(VolumeOf[w], worker[w].job)') <= worker'[w].others
    <2>1. /\ worker'[w] = worker[w] /\ worker[w].others \in Nat
          /\ Bytes(OnVolume(VolumeOf[w], worker[w].job)) <= worker[w].others
      BY <1>3 DEF ClaimsEnd, DiskInv, OpenClaimsCounted
    <2>2. /\ OnVolume(VolumeOf[w], worker[w].job)' \subseteq OnVolume(VolumeOf[w], worker[w].job)
          /\ OnVolume(VolumeOf[w], worker[w].job) \subseteq reserved
      BY <2>1 DEF OnVolume
    <2> DEFINE old == OnVolume(VolumeOf[w], worker[w].job)
               new == OnVolume(VolumeOf[w], worker[w].job)'
    <2>3. AreWeighed(old)
      BY <2>2, ReservationsAreWeighed DEF DiskInv
    <2>4. new \in SUBSET old
      BY <2>2
    <2> HIDE DEF old, new
    <2>5. Bytes(new) \in Nat /\ Bytes(old) \in Nat /\ Bytes(new) <= Bytes(old)
      BY <2>3, <2>4, BytesOfFewer
    <2> QED
      BY <2>1, <2>5 DEF old, new
  <1> QED
    BY <1>1, <1>2, <1>3 DEF DiskInv, OpenClaimsCounted, ClaimsEnd, OnVolume

\* A claim counts the other jobs' reservations under the lock of its volume.
LEMMA ClaimReadsKeepsDisk ==
    ASSUME DiskConstants, IInv, DiskInv, NEW w \in Workers, NEW j \in Jobs, NEW free \in FreeBytes,
           ClaimReads(w, j, free)
    PROVE  DiskInv'
  <1> DEFINE others == Others(j, VolumeOf[w])
             e == [phase |-> "claiming", job |-> j, free |-> free, others |-> others]
  <1>1. /\ worker' = [worker EXCEPT ![w] = e] /\ reserved' = reserved
        /\ \A u \in Workers : worker[u].phase = "claiming" => VolumeOf[u] # VolumeOf[w]
    BY DEF ClaimReads, VolumeUnlocked
  <1>2. e.phase = "claiming" /\ e.job = j /\ e.others = others
    OBVIOUS
  <1>3. others \in Nat /\ others = Bytes(OnVolume(VolumeOf[w], j))
    <2>1. others = Bytes(OnVolume(VolumeOf[w], j))
      BY OthersAreOfOtherJobs
    <2>2. OnVolume(VolumeOf[w], j) \in SUBSET reserved /\ reserved \in SUBSET reserved
      BY DEF OnVolume
    <2>3. AreWeighed(reserved)
      BY <2>2, ReservationsAreWeighed DEF DiskInv
    <2> QED
      BY <2>1, <2>2, <2>3, BytesOfFewer
  <1> HIDE DEF e, others
  <1>4. worker'[w] = e /\ \A u \in Workers \ {w} : worker'[u] = worker[u]
    BY <1>1 DEF IInv, TypeOK
  <1>5. IsFiniteSet(reserved)' /\ ReservedFits'
    BY <1>1 DEF DiskInv, ReservedFits, ReservedOn
  <1>6. ASSUME NEW u \in Workers, NEW v \in Workers, worker'[u].phase = "claiming",
               worker'[v].phase = "claiming", VolumeOf[u] = VolumeOf[v]
        PROVE  u = v
    BY <1>1, <1>4, <1>6 DEF DiskInv, OpenClaimsCounted
  <1>7. ASSUME NEW u \in Workers, worker'[u].phase = "claiming"
        PROVE  /\ worker'[u].others \in Nat
               /\ Bytes(OnVolume(VolumeOf[u], worker'[u].job)) <= worker'[u].others
    <2>1. CASE u = w
      <3>1. worker'[u].job = j /\ worker'[u].others = others
        BY <1>2, <1>4, <2>1
      <3>2. Bytes(OnVolume(VolumeOf[u], j)) <= others
        BY <1>3, <2>1
      <3> QED
        BY <1>3, <3>1, <3>2
    <2>2. CASE u # w
      BY <1>4, <1>7, <2>2 DEF DiskInv, OpenClaimsCounted
    <2> QED
      BY <2>1, <2>2
  <1>8. OpenClaimsCounted'
    BY <1>1, <1>6, <1>7 DEF OpenClaimsCounted, OnVolume
  <1> QED
    BY <1>5, <1>8 DEF DiskInv

\* A claim that leases has counted enough: what it adds fits with all there is.
LEMMA ClaimLeasesKeepsDisk ==
    ASSUME RenderConstants, DiskConstants, IInv, DiskInv, NEW w \in Workers, ClaimLeases(w)
    PROVE  DiskInv'
  <1> USE ExecutionsAreNotIdle
  <1>1. TypeOK /\ worker[w].phase = "claiming" /\ Claiming(w)
    BY DEF ClaimLeases, IInv, TypeOK, Idle
  <1>2. PICK j \in Jobs : j = worker[w].job
    BY <1>1 DEF Claiming
  <1> DEFINE v == VolumeOf[w]
             new == [job |-> j, attempt |-> Len(heads[j]), volume |-> v, observed |-> worker[w].free]
             e == [phase |-> "preparing", job |-> j, attempt |-> Len(heads[j]),
                   token |-> At(j).claims + 1, asks |-> "preparing", code |-> "none"]
             others == worker[w].others
             free == worker[w].free
  <1>3. /\ worker' = [worker EXCEPT ![w] = e]
        /\ reserved' = IF ReservationOf(j) # {} THEN reserved ELSE reserved \cup {new}
        /\ free - others >= Required(j)
    BY <1>2 DEF ClaimLeases, Fits
  <1>4. new.job = j /\ new.volume = v /\ new.observed = free /\ e.phase # "claiming"
    OBVIOUS
  <1>5. /\ free \in Nat /\ others \in Nat /\ Bytes(OnVolume(v, j)) <= others
        /\ Floor \in Nat /\ Estimate[j] \in Nat /\ Required(j) \in Nat
        /\ Required(j) >= Floor + Estimate[j]
    <2>1. free \in Nat /\ Floor \in Nat /\ Estimate[j] \in Nat
      BY <1>1 DEF Claiming, DiskConstants
    <2>2. others \in Nat /\ Bytes(OnVolume(v, j)) <= others
      BY <1>1, <1>2 DEF DiskInv, OpenClaimsCounted
    <2>3. Required(j) \in Nat /\ Required(j) >= Floor + Estimate[j]
      BY <2>1 DEF Required, Greatest
    <2> QED
      BY <2>1, <2>2, <2>3
  <1> HIDE DEF new, e, free, others
  <1>6. ClaimsEnd
    BY <1>1, <1>3, <1>4, MovesEndClaims
  <1>7. CASE ReservationOf(j) # {}
    BY <1>3, <1>6, <1>7, ReleasesKeepDisk
  <1>8. CASE ReservationOf(j) = {}
    <2>1. reserved' = reserved \cup {new}
      BY <1>3, <1>8
    <2>2. IsFiniteSet(reserved)'
      BY <2>1, FS_AddElement DEF DiskInv
    <2>3. \A r \in reserved : r.job # j
      BY <1>8 DEF ReservationOf, IInv, ReservationsAgree
    <2>4. ASSUME NEW u \in Volumes, NEW S \in SUBSET (ReservedOn(u)'), S # {}
          PROVE  \E r \in S : Floor + Bytes(S) <= r.observed
      <3>1. CASE new \notin S
        <4>1. S \in SUBSET ReservedOn(u)
          BY <2>1, <2>4, <3>1 DEF ReservedOn
        <4> QED
          BY <2>4, <4>1 DEF DiskInv, ReservedFits
      <3>2. CASE new \in S
        <4>1. u = v
          BY <1>4, <2>4, <3>2 DEF ReservedOn
        <4>2. S \ {new} \in SUBSET OnVolume(v, j)
          BY <2>1, <2>3, <2>4, <4>1 DEF ReservedOn, OnVolume
        <4>3. OnVolume(v, j) \in SUBSET reserved /\ S \ {new} \in SUBSET reserved
          BY <4>2 DEF OnVolume
        <4>4. AreWeighed(OnVolume(v, j)) /\ AreWeighed(S \ {new})
          BY <4>3, ReservationsAreWeighed DEF DiskInv
        <4>5. AreWeighed(S)
          <5>1. IsFiniteSet((S \ {new}) \cup {new}) /\ (S \ {new}) \cup {new} = S
            BY <3>2, <4>4, FS_AddElement DEF AreWeighed
          <5>2. \A r \in S : r # new => Estimate[r.job] \in Nat
            BY <4>4 DEF AreWeighed
          <5> QED
            BY <1>4, <1>5, <5>1, <5>2 DEF AreWeighed
        <4>6. /\ Bytes(S) \in Nat /\ Bytes(S \ {new}) \in Nat
              /\ Bytes(S) = Estimate[j] + Bytes(S \ {new})
          BY <1>4, <3>2, <4>5, BytesOfTheOthers
        <4>7. Bytes(OnVolume(v, j)) \in Nat /\ Bytes(S \ {new}) <= Bytes(OnVolume(v, j))
          BY <4>2, <4>4, BytesOfFewer
        <4>8. Floor + Bytes(S) <= free
          BY <1>3, <1>5, <4>6, <4>7
        <4> QED
          BY <1>4, <3>2, <4>8
      <3> QED
        BY <3>1, <3>2
    <2>5. ReservedFits'
      BY <2>4 DEF ReservedFits
    <2>6. worker'[w].phase # "claiming"
      BY <1>1, <1>3, <1>4 DEF TypeOK
    <2>7. ASSUME NEW u \in Workers, worker'[u].phase = "claiming"
          PROVE  /\ worker'[u].others \in Nat
                 /\ Bytes(OnVolume(VolumeOf[u], worker[u].job)') <= worker'[u].others
      <3>1. u # w /\ worker'[u] = worker[u]
        BY <1>6, <2>6, <2>7 DEF ClaimsEnd
      <3>2. VolumeOf[u] # v
        BY <1>1, <2>7, <3>1 DEF DiskInv, OpenClaimsCounted
      <3>3. OnVolume(VolumeOf[u], worker[u].job)' = OnVolume(VolumeOf[u], worker[u].job)
        BY <1>4, <2>1, <3>1, <3>2 DEF OnVolume
      <3> QED
        BY <2>7, <3>1, <3>3 DEF DiskInv, OpenClaimsCounted
    <2>8. OpenClaimsCounted'
      BY <1>6, <2>7 DEF OpenClaimsCounted, ClaimsEnd, DiskInv, OnVolume
    <2> QED
      BY <2>2, <2>5, <2>8 DEF DiskInv
  <1> QED
    BY <1>7, <1>8

\* No volume is promised to more attempts than have room on it together.
LEMMA ReservationsHaveRoom ==
    ASSUME DiskConstants, IInv, DiskInv
    PROVE  DiskIsNotOverbooked
  <1> SUFFICES ASSUME NEW v \in Volumes, ReservedOn(v) # {}
               PROVE  LET free == Max({r.observed : r \in ReservedOn(v)})
                      IN  /\ Bytes(ReservedOn(v)) + Floor <= free
                          /\ \A r \in ReservedOn(v) : Admitted(r.job, free)
    BY DEF DiskIsNotOverbooked
  <1> DEFINE observed == {r.observed : r \in ReservedOn(v)}
             free == Max(observed)
  <1>1. ReservedOn(v) \in SUBSET reserved /\ \A r \in ReservedOn(v) : r.job \in Jobs /\ r.volume = v
    BY DEF ReservedOn, IInv, TypeOK
  <1>2. AreWeighed(ReservedOn(v))
    BY <1>1, ReservationsAreWeighed DEF DiskInv
  <1>3. free \in Nat /\ \A r \in ReservedOn(v) : r.observed <= free
    <2>1. IsFiniteSet(observed)
      <3> DEFINE f == [r \in ReservedOn(v) |-> r.observed]
      <3>1. f \in Surjection(ReservedOn(v), observed)
        BY DEF Surjection
      <3> QED
        BY <1>2, <3>1, FS_Surjection DEF AreWeighed
    <2>2. observed \subseteq Nat /\ observed # {}
      BY <1>1 DEF IInv, TypeOK, DiskConstants
    <2> QED
      BY <2>1, <2>2, GreatestMember
  <1> HIDE DEF free
  <1>4. Bytes(ReservedOn(v)) \in Nat /\ Floor \in Nat
    BY <1>2, BytesOfFewer DEF DiskConstants
  <1>5. Bytes(ReservedOn(v)) + Floor <= free
    <2>1. PICK r \in ReservedOn(v) : Floor + Bytes(ReservedOn(v)) <= r.observed
      BY DEF DiskInv, ReservedFits
    <2>2. r.observed \in Nat
      BY <1>1, <2>1 DEF IInv, TypeOK, DiskConstants
    <2> QED
      BY <1>3, <1>4, <2>1, <2>2
  <1>6. ASSUME NEW r \in ReservedOn(v) PROVE Admitted(r.job, free)
    <2>1. r \in ReservationOf(r.job) /\ r.job \in Jobs /\ r.volume = v
      BY <1>1 DEF ReservationOf, IInv, ReservationsAgree
    <2>2. OnVolume(v, r.job) = ReservedOn(v) \ {r}
      BY <1>1, <2>1 DEF OnVolume, ReservedOn, IInv, ReservationsAgree
    <2>3. Others(r.job, r.volume) = Bytes(ReservedOn(v) \ {r})
      BY <2>1, <2>2, OthersAreOfOtherJobs
    <2>4. /\ Bytes(ReservedOn(v) \ {r}) \in Nat /\ Estimate[r.job] \in Nat
          /\ Bytes(ReservedOn(v)) = Estimate[r.job] + Bytes(ReservedOn(v) \ {r})
      BY <1>2, BytesOfTheOthers
    <2>5. Required(r.job) = Floor + Estimate[r.job]
      <3>1. 2 * Estimate[r.job] <= Floor
        BY <2>1 DEF DiskConstants
      <3>2. 3 * Estimate[r.job] = 2 * Estimate[r.job] + Estimate[r.job]
        BY <2>4
      <3> QED
        BY <1>4, <2>4, <3>1, <3>2 DEF Required, Greatest
    <2>6. free - Others(r.job, r.volume) >= Required(r.job)
      BY <1>3, <1>4, <1>5, <2>3, <2>4, <2>5
    <2> QED
      BY <2>1, <2>6 DEF Admitted
  <1> QED
    BY <1>5, <1>6 DEF free

THEOREM DiskHolds ==
    ASSUME RenderConstants, DiskConstants
    PROVE  Spec => []DiskInv
  <1>1. Init => DiskInv
    BY FS_EmptySet DEF Init, DiskInv, ReservedFits, ReservedOn, OpenClaimsCounted, Idle
  <1>2. IInv /\ DiskInv /\ [Next]_vars => DiskInv'
    BY OnlyClaimsReserve, ReleasesKeepDisk, ClaimReadsKeepsDisk, ClaimLeasesKeepsDisk
  <1> QED
    BY <1>1, <1>2, LeasesAreSound, PTL DEF Spec

\* Workers that claim side by side never promise more of a volume than was
\* measured free less the floor, and a later admission costs no earlier one
\* its own: the floor covers what an estimate is short of three times itself.
THEOREM DiskIsNeverOverbooked ==
    ASSUME RenderConstants, DiskConstants
    PROVE  Spec => []DiskIsNotOverbooked
  <1>1. IInv /\ DiskInv => DiskIsNotOverbooked
    BY ReservationsHaveRoom
  <1> QED
    BY <1>1, LeasesAreSound, DiskHolds, PTL

-----------------------------------------------------------------------------
(* The refinement of LeasedJobs.  First, what a step does to the rows of a *)
(* job; then, what that is in the terms of LeasedJobs.                     *)

\* No column the view shows changes.
Kept(k) ==
    /\ job'[k].state = job[k].state /\ Len(heads'[k]) = Len(heads[k])
    /\ ClaimsOf(heads'[k]) = ClaimsOf(heads[k])

QueuedAgain(j) ==
    /\ job[j].state \in {"absent", "cancelled", "failed"} /\ Len(heads[j]) < MaximumAttempts
    /\ job'[j].state = "queued" /\ Len(heads'[j]) = Len(heads[j]) + 1
    /\ ClaimsOf(heads'[j]) = 0

Claimed(j) ==
    /\ job[j].state \in Stages \cup {"queued"} /\ job'[j].state \in Stages
    /\ Len(heads'[j]) = Len(heads[j]) /\ ClaimsOf(heads'[j]) = ClaimsOf(heads[j]) + 1

Progressed(j) ==
    /\ job[j].state \in Stages /\ job'[j].state \in Stages
    /\ Len(heads'[j]) = Len(heads[j]) /\ ClaimsOf(heads'[j]) = ClaimsOf(heads[j])

Closed(j) ==
    /\ \/ job[j].state = "queued" /\ job'[j].state = "cancelled"
       \/ job[j].state \in Stages /\ job'[j].state \in {"cancel-requested", "failed"}
       \/ job[j].state = "cancel-requested" /\ job'[j].state = "cancelled"
    /\ Len(heads'[j]) = Len(heads[j]) /\ ClaimsOf(heads'[j]) = ClaimsOf(heads[j])

Published(j) ==
    /\ job[j].state \in Stages /\ job'[j].state = "succeeded"
    /\ Len(heads'[j]) = Len(heads[j]) /\ ClaimsOf(heads'[j]) = ClaimsOf(heads[j])
    /\ ~\E r \in results : r.job = j
    /\ results' = results \cup
          {[job |-> j, attempt |-> Len(heads[j]), claim |-> ClaimsOf(heads[j])]}

Moved(j) ==
    /\ \A k \in Jobs \ {j} : Kept(k)
    /\ \/ /\ Kept(j) \/ QueuedAgain(j) \/ Claimed(j) \/ Progressed(j) \/ Closed(j)
          /\ results' = results
       \/ Published(j)

AllKept == (\A k \in Jobs : Kept(k)) /\ results' = results

\* The columns after SetRows.
LEMMA RowMoves ==
    ASSUME TypeOK, NEW j \in Jobs, heads[j] # <<>>, NEW aJob \in JobRow, NEW aHead \in AttemptHead,
           SetRows(j, aHead, aJob)
    PROVE  /\ \A k \in Jobs \ {j} : Kept(k)
           /\ job'[j].state = aJob.state /\ Len(heads'[j]) = Len(heads[j])
           /\ ClaimsOf(heads'[j]) = aHead.claims /\ ClaimsOf(heads[j]) = At(j).claims
  BY RowsAfter DEF RowSet, Kept, ClaimsOf, At

\* A job that ends without a result.
LEMMA EndMoves ==
    ASSUME IInv, NEW j \in Jobs, NEW state \in {"cancelled", "failed"}, NEW retryable \in BOOLEAN,
           SetRows(j, Ended(j, state), JobBecomes(j, state, retryable)), results' = results,
           \/ job[j].state \in {"queued", "cancel-requested"} /\ state = "cancelled"
           \/ job[j].state \in Stages /\ state = "failed"
    PROVE  Moved(j)
  <1>1. TypeOK /\ heads[j] # <<>> /\ At(j) \in AttemptHead
    BY PresentRows DEF RowAgrees, Stages
  <1> DEFINE aHead == Ended(j, state)
             aJob == JobBecomes(j, state, retryable)
  <1>2. aHead \in AttemptHead /\ aHead.claims = At(j).claims
    BY <1>1, EndedHead
  <1>3. aJob \in JobRow /\ aJob.state = state
    BY <1>1, JobAfter DEF JobStates
  <1> HIDE DEF aHead, aJob
  <1>4. /\ \A k \in Jobs \ {j} : Kept(k)
        /\ job'[j].state = state /\ Len(heads'[j]) = Len(heads[j])
        /\ ClaimsOf(heads'[j]) = ClaimsOf(heads[j])
    BY <1>1, <1>2, <1>3, RowMoves DEF aHead, aJob
  <1>5. Closed(j)
    BY <1>4 DEF Closed
  <1> QED
    BY <1>4, <1>5 DEF Moved

LEMMA UserStepMoves ==
    ASSUME RenderConstants, IInv, NEW j \in Jobs, UserStep(j)
    PROVE  AllKept \/ Moved(j)
  <1>1. TypeOK /\ RowAgrees(j) /\ job[j] \in JobRow /\ heads[j] \in Seq(AttemptHead)
        /\ Len(heads[j]) \in Nat
    BY PresentRows
  <1>2. CASE Create(j)
    <2>1. \A k \in Jobs \ {j} : Kept(k)
      BY <1>1, <1>2 DEF Create, TypeOK, Kept
    <2>2. job[j].state = "absent" /\ heads[j] = <<>> /\ results' = results
      BY <1>1, <1>2 DEF Create, RowAgrees
    <2>3. heads'[j] = <<Queued>> /\ job'[j].state = "queued"
      BY <1>1, <1>2 DEF Create, TypeOK, JobRow
    <2>4. Len(heads'[j]) = 1 /\ ClaimsOf(heads'[j]) = 0
      BY <2>3 DEF ClaimsOf, Queued
    <2>5. QueuedAgain(j)
      BY <2>2, <2>3, <2>4 DEF QueuedAgain, RenderConstants
    <2> QED
      BY <2>1, <2>2, <2>5 DEF Moved
  <1>3. CASE Retry(j)
    <2> DEFINE new == Append(heads[j], Queued)
    <2>1. Queued \in AttemptHead
      BY DEF Queued, AttemptHead, HeadStates, Stages
    <2>2. /\ new # <<>> /\ Len(new) = Len(heads[j]) + 1
          /\ new[Len(heads[j]) + 1] = Queued
      BY <1>1, <2>1, AppendProperties
    <2>3. heads' = [heads EXCEPT ![j] = new] /\ job' = [job EXCEPT ![j] = JobBecomes(j, "queued", FALSE)]
          /\ results' = results
      BY <1>3 DEF Retry
    <2>4. JobBecomes(j, "queued", FALSE).state = "queued"
      BY <1>1, JobAfter DEF JobStates
    <2> HIDE DEF new
    <2>5. \A k \in Jobs \ {j} : Kept(k)
      BY <1>1, <2>3 DEF TypeOK, Kept
    <2>6. heads'[j] = new /\ job'[j].state = "queued"
      BY <1>1, <2>3, <2>4 DEF TypeOK
    <2>7. ClaimsOf(heads'[j]) = 0
      BY <2>2, <2>6 DEF ClaimsOf, Queued
    <2>8. QueuedAgain(j)
      BY <1>3, <2>2, <2>6, <2>7 DEF QueuedAgain, Retry
    <2> QED
      BY <2>3, <2>5, <2>8 DEF Moved
  <1>4. CASE Cancel(j)
    <2>1. CASE job[j].state = "queued"
      BY <1>4, <2>1, EndMoves DEF Cancel, Stages
    <2>2. CASE job[j].state \in Stages
      <3>1. heads[j] # <<>> /\ At(j) \in AttemptHead
        BY <2>2, PresentRows DEF RowAgrees, Stages
      <3> DEFINE aHead == [At(j) EXCEPT !.state = "cancel-requested"]
                 aJob == JobBecomes(j, "cancel-requested", job[j].retryable)
      <3>2. SetRows(j, aHead, aJob) /\ results' = results
        BY <1>4, <2>2 DEF Cancel, Stages
      <3>3. aHead \in AttemptHead /\ aHead.claims = At(j).claims
        BY <3>1 DEF AttemptHead, HeadStates
      <3>4. job[j].retryable \in BOOLEAN /\ "cancel-requested" \in JobStates
        BY <1>1 DEF JobRow, JobStates
      <3>5. aJob \in JobRow /\ aJob.state = "cancel-requested"
        BY <1>1, <3>4, JobAfter
      <3> HIDE DEF aHead, aJob
      <3>6. /\ \A k \in Jobs \ {j} : Kept(k)
            /\ job'[j].state = "cancel-requested" /\ Len(heads'[j]) = Len(heads[j])
            /\ ClaimsOf(heads'[j]) = ClaimsOf(heads[j])
        BY <1>1, <3>1, <3>2, <3>3, <3>5, RowMoves
      <3>7. Closed(j)
        BY <2>2, <3>6 DEF Closed
      <3> QED
        BY <3>2, <3>6, <3>7 DEF Moved
    <2> QED
      BY <1>4, <2>1, <2>2 DEF Cancel
  <1>5. CASE \E wanted, provider \in BOOLEAN : RequestEnhancement(j, wanted, provider)
    BY <1>5 DEF RequestEnhancement, AllKept, Kept
  <1> QED
    BY <1>2, <1>3, <1>4, <1>5 DEF UserStep

LEMMA LeaseLapsesMoves ==
    ASSUME IInv, NEW j \in Jobs, LeaseLapses(j)
    PROVE  AllKept
  <1>1. TypeOK /\ heads[j] # <<>> /\ At(j) \in AttemptHead /\ job[j] \in JobRow
    BY PresentRows DEF RowAgrees, LeaseLapses, Stages
  <1> DEFINE aHead == [At(j) EXCEPT !.lapsed = TRUE]
  <1>2. aHead \in AttemptHead /\ aHead.claims = At(j).claims
    BY <1>1 DEF AttemptHead
  <1>3. SetRows(j, aHead, job[j]) /\ results' = results
    BY <1>1 DEF LeaseLapses, SetRows, At, TypeOK
  <1> HIDE DEF aHead
  <1>4. /\ \A k \in Jobs \ {j} : Kept(k)
        /\ job'[j].state = job[j].state /\ Len(heads'[j]) = Len(heads[j])
        /\ ClaimsOf(heads'[j]) = ClaimsOf(heads[j])
    BY <1>1, <1>2, <1>3, RowMoves
  <1> QED
    BY <1>3, <1>4 DEF AllKept, Kept

LEMMA ClaimStepMoves ==
    ASSUME IInv, NEW w \in Workers, ClaimCancels(w) \/ ClaimLeases(w)
    PROVE  \E j \in Jobs : Moved(j)
  <1>1. TypeOK /\ worker[w].phase = "claiming"
    BY DEF ClaimCancels, ClaimLeases, IInv
  <1>2. PICK j \in Jobs : j = worker[w].job
    BY <1>1, ExecutionsAreNotIdle DEF TypeOK, Idle, Claiming
  <1>3. job[j].state # "absent" /\ (CandidateQueued(j) \/ CandidateLapsed(j, VolumeOf[w]))
    BY <1>1, <1>2 DEF IInv, CandidatesStay, CandidateStays
  <1>4. CASE ClaimCancels(w)
    <2>1. /\ job[j].state = "cancel-requested" /\ results' = results
          /\ SetRows(j, Ended(j, "cancelled"), JobBecomes(j, "cancelled", TRUE))
      BY <1>2, <1>4 DEF ClaimCancels
    <2> QED
      BY <2>1, EndMoves
  <1>5. CASE ClaimLeases(w)
    <2>1. heads[j] # <<>> /\ At(j) \in AttemptHead
      BY <1>3, PresentRows DEF RowAgrees
    <2> DEFINE claim == At(j).claims + 1
               aHead == [At(j) EXCEPT !.state = "leased", !.claims = claim, !.token = claim,
                                      !.lapsed = FALSE]
               aJob == JobBecomes(j, At(j).stage, FALSE)
    <2>2. SetRows(j, aHead, aJob) /\ results' = results /\ job[j].state # "cancel-requested"
      BY <1>2, <1>5 DEF ClaimLeases
    <2>3. claim \in Nat
      BY <2>1 DEF AttemptHead
    <2>4. aHead \in AttemptHead /\ aHead.claims = claim
      BY <2>1, <2>3 DEF AttemptHead, HeadStates
    <2>5. aJob \in JobRow /\ aJob.state = At(j).stage /\ At(j).stage \in Stages
      BY <1>1, <2>1, JobAfter DEF AttemptHead, JobStates
    <2> HIDE DEF aHead, aJob
    <2>6. /\ \A k \in Jobs \ {j} : Kept(k)
          /\ job'[j].state = At(j).stage /\ Len(heads'[j]) = Len(heads[j])
          /\ ClaimsOf(heads'[j]) = ClaimsOf(heads[j]) + 1
      BY <1>1, <2>1, <2>2, <2>4, <2>5, RowMoves
    <2>7. job[j].state \in Stages \cup {"queued"}
      BY <1>3, <2>2 DEF CandidateQueued, CandidateLapsed
    <2>8. Claimed(j)
      BY <2>5, <2>6, <2>7 DEF Claimed
    <2> QED
      BY <2>2, <2>6, <2>8 DEF Moved
  <1> QED
    BY <1>4, <1>5

LEMMA HeartbeatMoves ==
    ASSUME IInv, NEW w \in Workers, NEW free \in FreeBytes, Heartbeat(w, free)
    PROVE  \E j \in Jobs : Moved(j)
  <1>1. TypeOK /\ worker[w] \in Execution /\ worker[w].phase = "preparing" /\ MayUpdate(w)
    BY RunnersExecute DEF Heartbeat
  <1>2. PICK j \in Jobs : j = worker[w].job
    BY <1>1, ExecutionsAreNotIdle
  <1>3. heads[j] # <<>> /\ At(j) \in AttemptHead /\ job[j].state \in Stages
    BY <1>1, <1>2, HeldJob DEF MayUpdate, Holds
  <1>4. PICK stage \in Stages : stage = worker[w].asks
    BY <1>1 DEF Execution
  <1> DEFINE aHead == [At(j) EXCEPT !.stage = stage]
             aJob == JobBecomes(j, stage, job[j].retryable)
  <1>5. aHead \in AttemptHead /\ aHead.claims = At(j).claims
    BY <1>3 DEF AttemptHead
  <1>6. job[j].retryable \in BOOLEAN /\ stage \in JobStates
    BY <1>1 DEF TypeOK, JobRow, JobStates
  <1>7. aJob \in JobRow /\ aJob.state = stage
    BY <1>1, <1>6, JobAfter
  <1>8. SetRows(j, aHead, aJob) /\ results' = results
    BY <1>2, <1>4 DEF Heartbeat
  <1> HIDE DEF aHead, aJob
  <1>9. /\ \A k \in Jobs \ {j} : Kept(k)
        /\ job'[j].state = stage /\ Len(heads'[j]) = Len(heads[j])
        /\ ClaimsOf(heads'[j]) = ClaimsOf(heads[j])
    BY <1>1, <1>3, <1>5, <1>7, <1>8, RowMoves
  <1>10. Progressed(j)
    BY <1>3, <1>9 DEF Progressed
  <1> QED
    BY <1>8, <1>9, <1>10 DEF Moved

LEMMA PublishMoves ==
    ASSUME IInv, NEW w \in Workers, NEW enabled \in BOOLEAN, NEW answered \in BOOLEAN,
           Publish(w, enabled, answered)
    PROVE  \E j \in Jobs : Moved(j)
  <1>1. TypeOK /\ worker[w] \in Execution /\ worker[w].phase = "publishing" /\ MayUpdate(w)
    BY RunnersExecute DEF Publish
  <1>2. PICK j \in Jobs : j = worker[w].job
    BY <1>1, ExecutionsAreNotIdle
  <1>3. /\ heads[j] # <<>> /\ At(j) \in AttemptHead /\ job[j].state \in Stages
        /\ worker[w].attempt = Len(heads[j]) /\ worker[w].token = At(j).claims
    BY <1>1, <1>2, HeldJob DEF MayUpdate, Holds
  <1> DEFINE aHead == Ended(j, "succeeded")
             aJob == JobBecomes(j, "succeeded", FALSE)
  <1>4. /\ SetRows(j, aHead, aJob) /\ ~\E r \in results : r.job = j
        /\ results' = results \cup
              {[job |-> j, attempt |-> worker[w].attempt, claim |-> worker[w].token]}
    BY <1>2 DEF Publish
  <1>5. aHead \in AttemptHead /\ aHead.claims = At(j).claims
    BY <1>1, <1>3, EndedHead
  <1>6. aJob \in JobRow /\ aJob.state = "succeeded"
    BY <1>1, JobAfter DEF JobStates
  <1> HIDE DEF aHead, aJob
  <1>7. /\ \A k \in Jobs \ {j} : Kept(k)
        /\ job'[j].state = "succeeded" /\ Len(heads'[j]) = Len(heads[j])
        /\ ClaimsOf(heads'[j]) = ClaimsOf(heads[j]) /\ ClaimsOf(heads[j]) = At(j).claims
    BY <1>1, <1>3, <1>4, <1>5, <1>6, RowMoves
  <1>8. Published(j)
    BY <1>3, <1>4, <1>7 DEF Published
  <1> QED
    BY <1>7, <1>8 DEF Moved

\* The calls that end an attempt.
LEMMA EndingMoves ==
    ASSUME IInv, NEW w \in Workers, FailAttempt(w) \/ Acknowledge(w)
    PROVE  \E j \in Jobs : Moved(j)
  <1>1. TypeOK /\ worker[w] \in Execution /\ worker[w].phase = "failing"
    BY RunnersExecute DEF FailAttempt, Acknowledge
  <1>2. PICK j \in Jobs : j = worker[w].job
    BY <1>1, ExecutionsAreNotIdle
  <1>3. CASE FailAttempt(w)
    <2> DEFINE retryable == worker[w].code = "retryable"
    <2>1. SetRows(j, Ended(j, "failed"), JobBecomes(j, "failed", retryable)) /\ results' = results
      BY <1>2, <1>3 DEF FailAttempt
    <2>2. retryable \in BOOLEAN
      OBVIOUS
    <2>3. job[j].state \in Stages
      BY <1>1, <1>2, <1>3, HeldJob DEF FailAttempt, MayUpdate, Holds
    <2> HIDE DEF retryable
    <2> QED
      BY <2>1, <2>2, <2>3, EndMoves
  <1>4. CASE Acknowledge(w)
    <2>1. /\ SetRows(j, Ended(j, "cancelled"), JobBecomes(j, "cancelled", TRUE))
          /\ results' = results
      BY <1>2, <1>4 DEF Acknowledge
    <2>2. job[j].state = "cancel-requested"
      BY <1>1, <1>2, <1>4, HeldJob DEF Acknowledge
    <2> QED
      BY <2>1, <2>2, EndMoves
  <1> QED
    BY <1>3, <1>4

LEMMA NextMoves ==
    ASSUME RenderConstants, IInv, [Next]_vars
    PROVE  AllKept \/ \E j \in Jobs : Moved(j)
  <1>1. ASSUME UNCHANGED <<job, heads, results>> PROVE AllKept
    BY <1>1 DEF AllKept, Kept
  <1>2. ASSUME NEW w \in Workers, WorkerStep(w)
        PROVE  AllKept \/ \E j \in Jobs : Moved(j)
    <2>1. ClaimReturns(w) \/ ClaimRollsBack(w) \/ GiveUp(w) \/ Crash(w) \/ Fenced(w)
          \/ RenderAborted(w) \/ Render(w) => UNCHANGED <<job, heads, results>>
      BY DEF ClaimReturns, ClaimRollsBack, GiveUp, Crash, Fenced, RenderAborted, Render, Fails
    <2>2. \A code \in {"retryable", "final"} : Throws(w, code) => UNCHANGED <<job, heads, results>>
      BY DEF Throws, Fails
    <2>3. \A free \in FreeBytes : HeartbeatRefused(w, free) => UNCHANGED <<job, heads, results>>
      BY DEF HeartbeatRefused, Fails
    <2>4. \A j \in Jobs, free \in FreeBytes :
             ClaimReads(w, j, free) => UNCHANGED <<job, heads, results>>
      BY DEF ClaimReads
    <2>5. RunnerStep(w) => AllKept \/ \E j \in Jobs : Moved(j)
      BY <1>1, <2>1, <2>3, HeartbeatMoves, PublishMoves, EndingMoves DEF RunnerStep
    <2>6. ClaimStep(w) => AllKept \/ \E j \in Jobs : Moved(j)
      BY <1>1, <2>1, ClaimStepMoves DEF ClaimStep
    <2> QED
      BY <1>1, <1>2, <2>1, <2>2, <2>4, <2>5, <2>6 DEF WorkerStep
  <1>3. UNCHANGED vars => AllKept
    BY <1>1 DEF vars
  <1> QED
    BY <1>2, <1>3, UserStepMoves, LeaseLapsesMoves DEF Next

\* What the view shows of a job.
Statuses == {"absent", "waiting", "working", "stopping", "done", "cancelled", "failed"}

Shown == [status : Statuses, attempt : Nat, claims : Nat, output : Nat \X Nat]

LEMMA ShownColumns ==
    \A r \in Shown :
        r = [status |-> r.status, attempt |-> r.attempt, claims |-> r.claims, output |-> r.output]
  BY DEF Shown

LEMMA StatusOfState ==
    ASSUME NEW state \in JobStates
    PROVE  /\ Status(state) \in Statuses
           /\ state = "queued" => Status(state) = "waiting"
           /\ state \in Stages => Status(state) = "working"
           /\ state = "cancel-requested" => Status(state) = "stopping"
           /\ state = "succeeded" => Status(state) = "done"
           /\ state \in {"absent", "cancelled", "failed"} => Status(state) = state
  BY DEF Status, Stages, JobStates, Statuses

LEMMA OutputOfRows ==
    ASSUME NEW rows, rows \subseteq [job : Jobs, attempt : Nat, claim : Nat]
    PROVE  Output(rows) \in Nat \X Nat
  <1>1. CASE rows = {}
    BY <1>1 DEF Output
  <1>2. CASE rows # {}
    <2> DEFINE s == CHOOSE s \in rows : TRUE
    <2>1. s \in rows
      BY <1>2
    <2>2. Output(rows) = <<s.attempt, s.claim>>
      BY <1>2 DEF Output
    <2> QED
      BY <2>1, <2>2
  <1> QED
    BY <1>1, <1>2

RowsOf(j, all) == {s \in all : s.job = j}

LEMMA ViewOfJob ==
    ASSUME NEW j \in Jobs, NEW aJob \in JobRow, NEW hs \in Seq(AttemptHead),
           NEW all, all \subseteq [job : Jobs, attempt : Nat, claim : Nat],
           NEW shown,
           shown = [status |-> Status(aJob.state), attempt |-> Len(hs),
                    claims |-> ClaimsOf(hs), output |-> Output(RowsOf(j, all))]
    PROVE  /\ shown \in Shown
           /\ shown.status = Status(aJob.state) /\ shown.attempt = Len(hs)
           /\ shown.claims = ClaimsOf(hs) /\ shown.output = Output(RowsOf(j, all))
  <1>1. Status(aJob.state) \in Statuses
    BY StatusOfState DEF JobRow
  <1>2. Output(RowsOf(j, all)) \in Nat \X Nat
    BY OutputOfRows DEF RowsOf
  <1>3. Len(hs) \in Nat /\ ClaimsOf(hs) \in Nat
    <2>1. CASE hs = <<>>
      BY <2>1 DEF ClaimsOf
    <2>2. CASE hs # <<>>
      <3>1. Len(hs) \in Nat /\ hs[Len(hs)] \in AttemptHead
        BY <2>2
      <3> QED
        BY <2>2, <3>1 DEF ClaimsOf, AttemptHead
    <2> QED
      BY <2>1, <2>2
  <1> QED
    BY <1>1, <1>2, <1>3 DEF Shown

\* What the view shows before and after a step.
LEMMA ViewBefore ==
    ASSUME TypeOK, NEW j \in Jobs
    PROVE  /\ View[j] \in Shown
           /\ View[j].status = Status(job[j].state) /\ View[j].attempt = Len(heads[j])
           /\ View[j].claims = ClaimsOf(heads[j]) /\ View[j].output = Output(RowsOf(j, results))
  <1>1. View[j] = [status |-> Status(job[j].state), attempt |-> Len(heads[j]),
                   claims |-> ClaimsOf(heads[j]), output |-> Output(RowsOf(j, results))]
    BY DEF View, RowsOf
  <1> QED
    BY <1>1, ViewOfJob DEF TypeOK

LEMMA ViewAfter ==
    ASSUME TypeOK', NEW j \in Jobs
    PROVE  /\ View'[j] \in Shown
           /\ View'[j].status = Status(job'[j].state) /\ View'[j].attempt = Len(heads'[j])
           /\ View'[j].claims = ClaimsOf(heads'[j]) /\ View'[j].output = Output(RowsOf(j, results'))
  <1>1. View'[j] = [status |-> Status(job'[j].state), attempt |-> Len(heads'[j]),
                    claims |-> ClaimsOf(heads'[j]), output |-> Output(RowsOf(j, results'))]
    BY DEF View, RowsOf
  <1> QED
    BY <1>1, ViewOfJob DEF TypeOK

\* Two views with the same columns.
LEMMA SameShown ==
    ASSUME NEW old \in Shown, NEW new \in Shown,
           new.status = old.status, new.attempt = old.attempt, new.claims = old.claims,
           new.output = old.output
    PROVE  new = old
  BY ShownColumns

\* The steps of LeasedJobs, column by column.
LEMMA QueueColumns ==
    ASSUME NEW old \in Shown, NEW new \in Shown,
           old.status \in {"absent", "cancelled", "failed"}, old.attempt < MaximumAttempts,
           new.status = "waiting", new.attempt = old.attempt + 1, new.claims = 0,
           new.output = old.output
    PROVE  Leased!Queue(old, new)
  <1> DEFINE q == [old EXCEPT !.status = "waiting", !.attempt = @ + 1, !.claims = 0]
  <1>1. /\ q \in Shown /\ q.status = "waiting" /\ q.attempt = old.attempt + 1 /\ q.claims = 0
        /\ q.output = old.output
    BY DEF Shown, Statuses
  <1> HIDE DEF q
  <1>2. new = q
    BY <1>1, SameShown
  <1> QED
    BY <1>2 DEF Leased!Queue, q

LEMMA ClaimColumns ==
    ASSUME NEW old \in Shown, NEW new \in Shown,
           old.status \in {"waiting", "working"},
           new.status = "working", new.attempt = old.attempt, new.claims = old.claims + 1,
           new.output = old.output
    PROVE  Leased!Claim(old, new)
  <1> DEFINE q == [old EXCEPT !.status = "working", !.claims = @ + 1]
  <1>1. /\ q \in Shown /\ q.status = "working" /\ q.attempt = old.attempt
        /\ q.claims = old.claims + 1 /\ q.output = old.output
    BY DEF Shown, Statuses
  <1> HIDE DEF q
  <1>2. new = q
    BY <1>1, SameShown
  <1> QED
    BY <1>2 DEF Leased!Claim, q

LEMMA EndColumns ==
    ASSUME NEW old \in Shown, NEW new \in Shown,
           <<old.status, new.status>> \in Leased!Endings,
           new.attempt = old.attempt, new.claims = old.claims, new.output = old.output
    PROVE  Leased!End(old, new)
  <1> DEFINE q == [old EXCEPT !.status = new.status]
  <1>1. /\ q \in Shown /\ q.status = new.status /\ q.attempt = old.attempt
        /\ q.claims = old.claims /\ q.output = old.output
    BY DEF Shown
  <1> HIDE DEF q
  <1>2. new = q
    BY <1>1, SameShown
  <1> QED
    BY <1>2 DEF Leased!End, q

LEMMA FinishColumns ==
    ASSUME NEW old \in Shown, NEW new \in Shown,
           old.status = "working", new.status = "done",
           new.attempt = old.attempt, new.claims = old.claims,
           new.output = <<old.attempt, old.claims>>
    PROVE  Leased!Finish(old, new)
  <1> DEFINE q == [old EXCEPT !.status = "done", !.output = <<old.attempt, old.claims>>]
  <1>1. /\ q \in Shown /\ q.status = "done" /\ q.attempt = old.attempt
        /\ q.claims = old.claims /\ q.output = <<old.attempt, old.claims>>
    BY DEF Shown, Statuses
  <1> HIDE DEF q
  <1>2. new = q
    BY <1>1, SameShown
  <1> QED
    BY <1>2 DEF Leased!Finish, q

\* A job that keeps its columns and its results looks the same.
LEMMA KeptIsShown ==
    ASSUME TypeOK, TypeOK', NEW j \in Jobs, Kept(j), RowsOf(j, results') = RowsOf(j, results)
    PROVE  View'[j] = View[j]
  BY ViewBefore, ViewAfter, SameShown DEF Kept

\* What a job does is a step of LeasedJobs.
LEMMA MovedIsAStep ==
    ASSUME TypeOK, TypeOK', NEW j \in Jobs, Moved(j)
    PROVE  View'[j] = View[j] \/ Leased!Step(View[j], View'[j])
  <1>1. /\ View[j] \in Shown
        /\ View[j].status = Status(job[j].state) /\ View[j].attempt = Len(heads[j])
        /\ View[j].claims = ClaimsOf(heads[j]) /\ View[j].output = Output(RowsOf(j, results))
    BY ViewBefore
  <1>2. /\ View'[j] \in Shown
        /\ View'[j].status = Status(job'[j].state) /\ View'[j].attempt = Len(heads'[j])
        /\ View'[j].claims = ClaimsOf(heads'[j]) /\ View'[j].output = Output(RowsOf(j, results'))
    BY ViewAfter
  <1>3. job[j].state \in JobStates /\ job'[j].state \in JobStates
    BY DEF TypeOK, JobRow
  <1>4. CASE ~Published(j)
    <2>0. RowsOf(j, results') = RowsOf(j, results)
      BY <1>4 DEF Moved
    <2>1. CASE Kept(j)
      BY <2>0, <2>1, KeptIsShown
    <2>2. CASE QueuedAgain(j)
      BY <1>1, <1>2, <1>3, <2>0, <2>2, StatusOfState, QueueColumns DEF QueuedAgain, Leased!Step
    <2>3. CASE Claimed(j)
      BY <1>1, <1>2, <1>3, <2>0, <2>3, StatusOfState, ClaimColumns DEF Claimed, Leased!Step
    <2>4. CASE Progressed(j)
      BY <1>1, <1>2, <1>3, <2>0, <2>4, StatusOfState, SameShown DEF Progressed
    <2>5. CASE Closed(j)
      <3>1. <<Status(job[j].state), Status(job'[j].state)>> \in Leased!Endings
        BY <1>3, <2>5, StatusOfState DEF Closed, Leased!Endings
      <3> QED
        BY <1>1, <1>2, <2>0, <2>5, <3>1, EndColumns DEF Closed, Leased!Step
    <2> QED
      BY <1>4, <2>1, <2>2, <2>3, <2>4, <2>5 DEF Moved
  <1>5. CASE Published(j)
    <2> DEFINE result == [job |-> j, attempt |-> Len(heads[j]), claim |-> ClaimsOf(heads[j])]
    <2>1. result.job = j /\ result.attempt = Len(heads[j]) /\ result.claim = ClaimsOf(heads[j])
      OBVIOUS
    <2>2. results' = results \cup {result} /\ ~\E s \in results : s.job = j
      BY <1>5 DEF Published
    <2> HIDE DEF result
    <2>3. RowsOf(j, results') = {result}
      BY <2>1, <2>2 DEF RowsOf
    <2>4. Output(RowsOf(j, results')) = <<Len(heads[j]), ClaimsOf(heads[j])>>
      BY <2>1, <2>3 DEF Output
    <2> QED
      BY <1>1, <1>2, <1>3, <1>5, <2>4, StatusOfState, FinishColumns DEF Published, Leased!Step
  <1> QED
    BY <1>4, <1>5

LEMMA NextIsLeased ==
    ASSUME RenderConstants, IInv, IInv', [Next]_vars
    PROVE  Leased!Next
  <1>1. TypeOK /\ TypeOK'
    BY DEF IInv
  <1>2. DOMAIN View' = Jobs
    BY DEF View
  <1>3. CASE AllKept
    BY <1>1, <1>2, <1>3, KeptIsShown DEF AllKept, Leased!Next
  <1>4. ASSUME NEW j \in Jobs, Moved(j)
        PROVE  Leased!Next
    <2>1. View'[j] = View[j] \/ Leased!Step(View[j], View'[j])
      BY <1>1, <1>4, MovedIsAStep
    <2>2. ASSUME NEW k \in Jobs \ {j} PROVE View'[k] = View[k]
      <3>1. Kept(k)
        BY <1>4 DEF Moved
      <3>2. RowsOf(k, results') = RowsOf(k, results)
        BY <1>4 DEF Moved, Published, RowsOf
      <3> QED
        BY <1>1, <3>1, <3>2, KeptIsShown
    <2> QED
      BY <1>2, <2>1, <2>2 DEF Leased!Next
  <1> QED
    BY <1>3, <1>4, NextMoves

\* The queue of renders keeps the promises of LeasedJobs.
THEOREM RendersAreLeasedJobs ==
    ASSUME RenderConstants
    PROVE  Spec => ImplementsLeasedJobs
  <1>1. Init => Leased!Init
    <2> SUFFICES ASSUME Init PROVE Leased!Init
      OBVIOUS
    <2>1. Status("absent") = "absent" /\ Output({}) = <<0, 0>>
      BY DEF Status, Stages, Output
    <2>2. \A j \in Jobs : {s \in results : s.job = j} = {}
      BY DEF Init
    <2>3. Len(<<>>) = 0 /\ ClaimsOf(<<>>) = 0
      BY DEF ClaimsOf
    <2>4. \A j \in Jobs : View[j] =
              [status |-> "absent", attempt |-> 0, claims |-> 0, output |-> <<0, 0>>]
      BY <2>1, <2>2, <2>3 DEF View, Init
    <2> QED
      BY <2>4 DEF View, Leased!Init, Leased!NoOutput
  <1>2. IInv /\ IInv' /\ [Next]_vars => [Leased!Next]_View
    BY NextIsLeased
  <1> QED
    BY <1>1, <1>2, LeasesAreSound, PTL DEF Spec, ImplementsLeasedJobs, Leased!Spec
=============================================================================

---------------------- MODULE ReconstructionJobsProofs ----------------------
(***************************************************************************)
(* The rows of the reconstruction jobs agree, publications are fenced and  *)
(* the triggers stay silent, for any workers, jobs, assets and bounds.     *)
(***************************************************************************)
EXTENDS ReconstructionJobs, SequenceTheorems, TLAPS

-----------------------------------------------------------------------------
(* The inductive invariant.                                                *)

Held == {"leased", "cancel-requested"}
Over == {"cancelled", "failed"}

\* The row of a job and the row of the attempt it is at.
Agree(r, a) ==
    /\ r.state # "absent"
    /\ r.state = "created" => a.state = "queued"
    /\ r.state \in Stages => a.state = "leased" /\ a.stage = r.state
    /\ r.state \in Published => a.state = "succeeded"
    /\ r.state \in Over \cup {"cancel-requested"} => a.state = r.state

\* The lease columns of an attempt.
LeaseOK(a) ==
    /\ a.state = "queued" => a.claims = 0
    /\ IF a.state \in Held THEN a.token = a.claims /\ a.token # 0 ELSE a.token = 0
    /\ a.lapsed => a.state \in Held /\ a.claims <= MaximumMishaps

\* The rows of one job.
JobRows(r, s) ==
    /\ Len(s) <= MaximumAttempts
    /\ Len(s) = 0 <=> r.state = "absent"
    /\ \A n \in 1..(Len(s) - 1) : s[n].state \in Over
    /\ Len(s) # 0 => Agree(r, s[Len(s)]) /\ LeaseOK(s[Len(s)])

RowsInv ==
    /\ job \in [Jobs -> Job] /\ attempts \in [Jobs -> Seq(Attempt)]
    /\ \A j \in Jobs : JobRows(job[j], attempts[j])

\* What the open transaction of a user has checked.
UserOK(j) ==
    /\ user[j] = "creating" => job[j].state = "absent"
    /\ user[j] = "retrying" => Retryable(j)

UserInv ==
    /\ user \in [Jobs -> {"none", "creating", "retrying"}]
    /\ \A j \in Jobs : UserOK(j)

WithdrawalInv ==
    withdrawal \in
       [Assets -> [phase : {"none", "inserted", "selected", "committed"}, jobs : SUBSET Jobs]]

\* The results of one job.
ResultsOf(j) == {r \in results : r.job = j}

ResultsOK(j) ==
    IF job[j].state \in Published
    THEN ResultsOf(j) = {[job |-> j, attempt |-> Len(attempts[j]), status |-> job[j].state]}
         /\ job[j].resultOf = Len(attempts[j])
    ELSE ResultsOf(j) = {}

ResultsInv ==
    /\ results \subseteq [job : Jobs, attempt : 1..MaximumAttempts, status : Published]
    /\ \A j \in Jobs : ResultsOK(j)

Geometry == {"reconstructing-geometry", "reconstructing-appearance"}

\* A claim has its candidate; a lease in use is a claim of its attempt; a
\* publication has the lease; a runner that holds the lease is in step.
ClaimOK(w) == worker[w] \in Claiming /\ job[worker[w].job].state # "absent" /\ Candidate(worker[w].job)

CommitOK(w) ==
    /\ Row(w).state = "leased" /\ Row(w).token = worker[w].token
    /\ Len(attempts[worker[w].job]) = worker[w].attempt
    /\ worker[w].result = "completed" => job[worker[w].job].state \in Geometry

ExecutionOK(w) ==
    /\ worker[w] \in Execution
    /\ worker[w].attempt <= Len(attempts[worker[w].job])
    /\ worker[w].token # 0 /\ worker[w].token <= Row(w).claims
    /\ worker[w].phase \in {"publishing", "committing"} => worker[w].result \in Published
    /\ worker[w].phase \in {"preparing", "advancing", "processing"} => worker[w].result = "none"
    /\ worker[w].phase # "failing" /\ worker[w].result = "completed" => worker[w].stage \in Geometry
    /\ worker[w].phase = "processing" => worker[w].stage \in Geometry
    /\ worker[w].phase = "advancing" => worker[w].stage \in {"preparing", "ready-for-reconstruction"}
    /\ worker[w].phase = "committing" => CommitOK(w)
    /\ worker[w].phase # "failing" /\ Holds(w) => Row(w).stage = worker[w].stage

WorkerOK(w) == worker[w] = Idle \/ ClaimOK(w) \/ ExecutionOK(w)

WorkerInv ==
    /\ worker \in [Workers -> {Idle} \cup Claiming \cup Execution]
    /\ \A w \in Workers : WorkerOK(w)

\* Two executions never have the same lease.
Executing(w) == worker[w].phase \notin {"idle", "claiming"}

LeasesInv ==
    \A v, w \in Workers :
        /\ Executing(v) /\ Executing(w)
        /\ worker[v].job = worker[w].job /\ worker[v].attempt = worker[w].attempt
        /\ worker[v].token = worker[w].token
        => v = w

\* The row lock of a job has one holder.
LockedBy(w, j) == worker[w].phase \in {"claiming", "committing"} /\ worker[w].job = j

LocksInv ==
    \A j \in Jobs, w \in Workers :
        LockedBy(w, j) =>
            /\ user[j] # "retrying"
            /\ \A v \in Workers : LockedBy(v, j) => v = w

IInv ==
    /\ RowsInv /\ UserInv /\ WithdrawalInv /\ ResultsInv
    /\ WorkerInv /\ LeasesInv /\ LocksInv

-----------------------------------------------------------------------------
(* Rows.                                                                   *)

\* The numbers of an attempt's row.
LEMMA RowNumbers ==
    ASSUME NEW a \in Attempt
    PROVE  a.claims \in Nat /\ a.token \in Nat /\ a.stage \in Stages /\ a.lapsed \in BOOLEAN
  BY ReconstructionAssumption DEF Attempt, Claims

\* A job that exists is at an attempt, whose row agrees with the job's.
LEMMA JobIsAtAnAttempt ==
    ASSUME RowsInv, NEW j \in Jobs, job[j].state # "absent"
    PROVE  /\ job[j] \in Job /\ attempts[j] \in Seq(Attempt)
           /\ Len(attempts[j]) \in 1..MaximumAttempts
           /\ At(j) \in Attempt /\ Agree(job[j], At(j)) /\ LeaseOK(At(j))
<1>1. job[j] \in Job /\ attempts[j] \in Seq(Attempt) /\ JobRows(job[j], attempts[j])
  BY DEF RowsInv
<1>2. Len(attempts[j]) \in Nat /\ Len(attempts[j]) # 0
  BY <1>1 DEF JobRows
<1>3. Len(attempts[j]) \in 1..MaximumAttempts
  BY <1>1, <1>2, ReconstructionAssumption DEF JobRows
<1>4. At(j) \in Attempt
  BY <1>1, <1>2, ElementOfSeq DEF At
<1> QED
  BY <1>1, <1>2, <1>3, <1>4 DEF JobRows, At

\* What SetRows leaves: the last row replaced, everything else as it was.
LEMMA SetRowsEffect ==
    ASSUME RowsInv, NEW j \in Jobs, job[j].state # "absent",
           NEW a \in Attempt, NEW r \in Job, SetRows(j, a, r)
    PROVE  /\ job' \in [Jobs -> Job] /\ attempts' \in [Jobs -> Seq(Attempt)]
           /\ job'[j] = r
           /\ Len(attempts'[j]) = Len(attempts[j]) /\ attempts'[j][Len(attempts[j])] = a
           /\ \A n \in 1..(Len(attempts[j]) - 1) : attempts'[j][n] = attempts[j][n]
           /\ \A k \in Jobs \ {j} : job'[k] = job[k] /\ attempts'[k] = attempts[k]
<1> DEFINE s == attempts[j]  t == [s EXCEPT ![Len(s)] = a]
<1>1. job \in [Jobs -> Job] /\ attempts \in [Jobs -> Seq(Attempt)]
  BY DEF RowsInv
<1>2. s \in Seq(Attempt) /\ Len(s) \in 1..Len(s)
  BY JobIsAtAnAttempt
<1>3. /\ t \in Seq(Attempt) /\ Len(t) = Len(s)
      /\ \A n \in 1..Len(s) : t[n] = IF n = Len(s) THEN a ELSE s[n]
  BY <1>2, ExceptSeq
<1>4. attempts' = [attempts EXCEPT ![j] = t] /\ job' = [job EXCEPT ![j] = r]
  BY DEF SetRows
<1>5. attempts'[j] = t /\ job'[j] = r
  BY <1>1, <1>4
<1>6. \A n \in 1..(Len(s) - 1) : t[n] = s[n]
  BY <1>2, <1>3
<1>7. t[Len(s)] = a
  BY <1>2, <1>3
<1>8. job' \in [Jobs -> Job] /\ attempts' \in [Jobs -> Seq(Attempt)]
  BY <1>1, <1>3, <1>4
<1>9. \A k \in Jobs \ {j} : job'[k] = job[k] /\ attempts'[k] = attempts[k]
  BY <1>1, <1>4
<1> QED
  BY <1>3, <1>5, <1>6, <1>7, <1>8, <1>9

\* Rows that agree, written with SetRows, keep the rows of all jobs in order.
LEMMA SetRowsKeepsRows ==
    ASSUME RowsInv, NEW j \in Jobs, job[j].state # "absent",
           NEW a \in Attempt, NEW r \in Job, Agree(r, a), LeaseOK(a), SetRows(j, a, r)
    PROVE  RowsInv'
<1> DEFINE s == attempts[j]
<1>1. /\ job' \in [Jobs -> Job] /\ attempts' \in [Jobs -> Seq(Attempt)]
      /\ job'[j] = r
      /\ Len(attempts'[j]) = Len(s) /\ attempts'[j][Len(s)] = a
      /\ \A n \in 1..(Len(s) - 1) : attempts'[j][n] = s[n]
      /\ \A k \in Jobs \ {j} : job'[k] = job[k] /\ attempts'[k] = attempts[k]
  BY SetRowsEffect
<1>2. JobRows(job[j], s) /\ Len(s) # 0
  BY JobIsAtAnAttempt DEF RowsInv
<1>3. JobRows(job'[j], attempts'[j])
  BY <1>1, <1>2 DEF JobRows, Agree
<1>4. \A k \in Jobs : JobRows(job'[k], attempts'[k])
  BY <1>1, <1>3 DEF RowsInv
<1> QED
  BY <1>1, <1>4 DEF RowsInv

-----------------------------------------------------------------------------
(* What a step does to the rows, as far as the others rely on it.          *)

\* A row that changes gives a runner no lease it did not have.
FencedRow(a, b) ==
    /\ a.claims <= b.claims
    /\ b.state = "leased" /\ ~b.lapsed /\ b.token <= a.claims =>
          a.state = "leased" /\ ~a.lapsed /\ b.token = a.token /\ b.stage = a.stage

Fenced(j) ==
    /\ Len(attempts[j]) <= Len(attempts'[j])
    /\ \A n \in 1..Len(attempts[j]) : FencedRow(attempts[j][n], attempts'[j][n])

\* The rows of a locked job stay, but for the lapse of the lease.
Kept(j) ==
    /\ job'[j] = job[j]
    /\ Len(attempts'[j]) = Len(attempts[j])
    /\ \A n \in 1..Len(attempts[j]) :
          /\ attempts'[j][n].state = attempts[j][n].state
          /\ attempts'[j][n].token = attempts[j][n].token
          /\ attempts[j][n].lapsed => attempts'[j][n].lapsed

\* Rows no step writes.
LEMMA RowsStay ==
    ASSUME RowsInv, NEW j \in Jobs, job'[j] = job[j], attempts'[j] = attempts[j]
    PROVE  Fenced(j) /\ Kept(j)
<1>1. attempts[j] \in Seq(Attempt) /\ Len(attempts[j]) \in Nat
  BY DEF RowsInv
<1>2. \A n \in 1..Len(attempts[j]) : attempts[j][n] \in Attempt
  BY <1>1, ElementOfSeq
<1>3. \A n \in 1..Len(attempts[j]) : attempts[j][n].claims \in Nat
  BY <1>2, ReconstructionAssumption DEF Attempt, Claims
<1>4. \A n \in 1..Len(attempts[j]) : attempts[j][n].state = "leased" => attempts[j][n].claims \in Nat
  BY <1>3
<1>5. \A n \in 1..Len(attempts[j]) : FencedRow(attempts[j][n], attempts'[j][n])
  BY <1>3 DEF FencedRow
<1>6. Fenced(j)
  BY <1>1, <1>5 DEF Fenced
<1> QED
  BY <1>1, <1>6 DEF Kept

\* A step that leaves all rows keeps the invariant about them.
LEMMA RowsUnchanged ==
    ASSUME RowsInv, UNCHANGED <<job, attempts>>
    PROVE  RowsInv' /\ \A j \in Jobs : Fenced(j) /\ Kept(j)
<1>1. \A j \in Jobs : Fenced(j) /\ Kept(j)
  BY RowsStay
<1> QED
  BY <1>1 DEF RowsInv

\* SetRows fences the job if the row it writes is fenced, and keeps all others.
LEMMA SetRowsFences ==
    ASSUME RowsInv, NEW j \in Jobs, job[j].state # "absent",
           NEW a \in Attempt, NEW r \in Job, SetRows(j, a, r)
    PROVE  /\ \A k \in Jobs \ {j} : Fenced(k) /\ Kept(k)
           /\ FencedRow(At(j), a) => Fenced(j)
<1>1. /\ Len(attempts'[j]) = Len(attempts[j]) /\ attempts'[j][Len(attempts[j])] = a
      /\ \A n \in 1..(Len(attempts[j]) - 1) : attempts'[j][n] = attempts[j][n]
      /\ \A k \in Jobs \ {j} : job'[k] = job[k] /\ attempts'[k] = attempts[k]
  BY SetRowsEffect
<1>2. \A k \in Jobs \ {j} : Fenced(k) /\ Kept(k)
  BY <1>1, RowsStay
<1>3. attempts[j] \in Seq(Attempt) /\ Len(attempts[j]) \in Nat
  BY JobIsAtAnAttempt
<1>4. \A n \in 1..Len(attempts[j]) : FencedRow(attempts[j][n], attempts[j][n])
  <2> SUFFICES ASSUME NEW n \in 1..Len(attempts[j])
               PROVE  FencedRow(attempts[j][n], attempts[j][n])
    OBVIOUS
  <2>1. attempts[j][n] \in Attempt
    BY <1>3, ElementOfSeq
  <2> QED
    BY <2>1, ReconstructionAssumption DEF Attempt, Claims, FencedRow
<1>5. ASSUME FencedRow(At(j), a)
      PROVE  Fenced(j)
  <2>1. \A n \in 1..Len(attempts[j]) : FencedRow(attempts[j][n], attempts'[j][n])
    <3> SUFFICES ASSUME NEW n \in 1..Len(attempts[j])
                 PROVE  FencedRow(attempts[j][n], attempts'[j][n])
      OBVIOUS
    <3>1. CASE n = Len(attempts[j])
      BY <1>1, <1>5, <3>1 DEF At
    <3>2. CASE n # Len(attempts[j])
      <4>1. n \in 1..(Len(attempts[j]) - 1)
        BY <1>3, <3>2
      <4> QED
        BY <1>1, <1>4, <4>1
    <3> QED
      BY <3>1, <3>2
  <2> QED
    BY <1>1, <1>3, <2>1 DEF Fenced
<1> QED
  BY <1>2, <1>5

\* The row of an attempt that ends.
LEMMA EndedRow ==
    ASSUME NEW j \in Jobs, At(j) \in Attempt,
           NEW state \in {"cancelled", "succeeded", "failed"}
    PROVE  /\ Ended(j, state) \in Attempt /\ Ended(j, state).state = state
           /\ LeaseOK(Ended(j, state)) /\ FencedRow(At(j), Ended(j, state))
<1>1. Ended(j, state) = [state |-> state, stage |-> At(j).stage, claims |-> At(j).claims,
                         token |-> 0, lapsed |-> FALSE]
  <2> DEFINE a == At(j)  b == [a EXCEPT !.state = state]  c == [b EXCEPT !.token = 0]
  <2>1. b = [state |-> state, stage |-> a.stage, claims |-> a.claims,
             token |-> a.token, lapsed |-> a.lapsed]
    BY DEF Attempt
  <2> HIDE DEF b
  <2>2. c = [state |-> state, stage |-> a.stage, claims |-> a.claims,
             token |-> 0, lapsed |-> a.lapsed]
    BY <2>1
  <2>3. Ended(j, state) = [c EXCEPT !.lapsed = FALSE]
    BY DEF Ended, b
  <2> HIDE DEF c
  <2> QED
    BY <2>2, <2>3
<1>2. At(j).stage \in Stages /\ At(j).claims \in Claims /\ 0 \in Claims /\ At(j).claims \in Nat
  BY ReconstructionAssumption DEF Attempt, Claims
<1>3. Ended(j, state) \in Attempt
  BY <1>1, <1>2 DEF Attempt
<1> QED
  BY <1>1, <1>2, <1>3 DEF LeaseOK, Held, FencedRow

\* The row of an attempt whose cancellation is requested.
LEMMA RequestedRow ==
    ASSUME NEW j \in Jobs, At(j) \in Attempt, LeaseOK(At(j)), At(j).state = "leased"
    PROVE  LET a == [At(j) EXCEPT !.state = "cancel-requested"]
           IN  /\ a \in Attempt /\ a.state = "cancel-requested"
               /\ LeaseOK(a) /\ FencedRow(At(j), a)
  BY ReconstructionAssumption DEF Attempt, Claims, LeaseOK, Held, FencedRow

\* The rows of jobs that end, or are about to.
LEMMA JobRowsWritten ==
    ASSUME NEW j \in Jobs, job[j] \in Job
    PROVE  /\ \A b \in BOOLEAN : FailedJob(j, b) \in Job /\ FailedJob(j, b).state = "failed"
           /\ Cancelled(j) \in Job /\ Cancelled(j).state = "cancelled"
           /\ [job[j] EXCEPT !.state = "cancel-requested"] \in Job
           /\ \A s \in Stages : [job[j] EXCEPT !.state = s] \in Job
  BY DEF Job, FailedJob, Cancelled, Stages, Active

-----------------------------------------------------------------------------
(* Workers a step leaves alone.                                            *)

\* The rows the execution of v has read say the same of its lease, or less.
StillFenced(v) ==
    LET j == worker[v].job
        n == worker[v].attempt
    IN  /\ Len(attempts[j]) <= Len(attempts'[j])
        /\ attempts[j][n].claims <= attempts'[j][n].claims
        /\ attempts'[j][n].state = "leased" /\ ~attempts'[j][n].lapsed
           /\ attempts'[j][n].token = worker[v].token =>
              /\ attempts[j][n].state = "leased" /\ ~attempts[j][n].lapsed
              /\ attempts[j][n].token = worker[v].token
              /\ attempts'[j][n].stage = attempts[j][n].stage

Undisturbed(v) ==
    /\ worker'[v] = worker[v]
    /\ worker[v].phase \in {"claiming", "committing"} => Kept(worker[v].job)
    /\ Executing(v) => StillFenced(v)

\* What is known of an execution.
LEMMA ExecutionsAre ==
    ASSUME RowsInv, WorkerInv, NEW w \in Workers, Executing(w)
    PROVE  /\ ExecutionOK(w) /\ worker[w] \in Execution
           /\ worker[w].job \in Jobs /\ worker[w].attempt \in 1..Len(attempts[worker[w].job])
           /\ worker[w].attempt \in 1..MaximumAttempts /\ worker[w].token \in Nat \ {0}
           /\ Row(w) \in Attempt /\ Row(w).claims \in Nat /\ Row(w).token \in Nat
           /\ job[worker[w].job].state # "absent"
<1>1. WorkerOK(w)
  BY DEF WorkerInv
<1>2. ExecutionOK(w)
  BY <1>1 DEF WorkerOK, Executing, Idle, ClaimOK, Claiming
<1>3. worker[w] \in Execution
  BY <1>2 DEF ExecutionOK
<1>4. /\ worker[w].job \in Jobs /\ worker[w].attempt \in 1..MaximumAttempts
      /\ worker[w].token \in Claims
  BY <1>3 DEF Execution
<1>5. attempts[worker[w].job] \in Seq(Attempt) /\ job[worker[w].job] \in Job
  BY <1>4 DEF RowsInv
<1>6. worker[w].attempt \in 1..Len(attempts[worker[w].job])
  BY <1>2, <1>4, <1>5, ReconstructionAssumption DEF ExecutionOK
<1>7. Row(w) \in Attempt
  BY <1>5, <1>6, ElementOfSeq DEF Row
<1>8. worker[w].token \in Nat \ {0} /\ Row(w).claims \in Nat /\ Row(w).token \in Nat
  BY <1>2, <1>4, <1>7, ReconstructionAssumption DEF ExecutionOK, Claims, Attempt
<1>9. job[worker[w].job].state # "absent"
  BY <1>4, <1>5, <1>6 DEF RowsInv, JobRows
<1> QED
  BY <1>2, <1>3, <1>4, <1>6, <1>7, <1>8, <1>9

\* What is known of a claim.
LEMMA ClaimsAre ==
    ASSUME RowsInv, WorkerInv, NEW w \in Workers, worker[w].phase = "claiming"
    PROVE  /\ ClaimOK(w) /\ worker[w].job \in Jobs /\ worker[w].eligible \in BOOLEAN
           /\ job[worker[w].job].state # "absent" /\ Candidate(worker[w].job)
<1>1. WorkerOK(w)
  BY DEF WorkerInv
<1>2. ClaimOK(w)
  BY <1>1 DEF WorkerOK, Idle, ExecutionOK, Execution
<1> QED
  BY <1>2 DEF ClaimOK, Claiming

\* A worker the step does not disturb goes on as before.
LEMMA UndisturbedGoesOn ==
    ASSUME RowsInv, RowsInv', WorkerInv, NEW v \in Workers, Undisturbed(v)
    PROVE  WorkerOK(v)'
<1>0. worker'[v] = worker[v]
  BY DEF Undisturbed
<1>1. CASE worker[v] = Idle
  BY <1>0, <1>1 DEF WorkerOK
<1>2. CASE worker[v].phase = "claiming"
  <2>0. PICK j \in Jobs : j = worker[v].job
    BY <1>2, ClaimsAre
  <2>1. ClaimOK(v) /\ j \in Jobs /\ job[j].state # "absent" /\ Candidate(j)
    BY <1>2, <2>0, ClaimsAre
  <2>2. Kept(j)
    BY <1>2, <2>0 DEF Undisturbed
  <2>3. Len(attempts[j]) \in 1..Len(attempts[j])
    BY <2>1, JobIsAtAnAttempt
  <2>4. At(j)' = attempts'[j][Len(attempts[j])]
    BY <2>2 DEF Kept, At
  <2>5. /\ At(j)'.state = At(j).state /\ job'[j] = job[j]
        /\ At(j).lapsed => At(j)'.lapsed
    BY <2>2, <2>3, <2>4 DEF Kept, At
  <2>6. Candidate(j)'
    BY <2>1, <2>5 DEF Candidate, CandidateQueued
  <2>7. ClaimOK(v)'
    BY <1>0, <2>0, <2>1, <2>5, <2>6 DEF ClaimOK
  <2> QED
    BY <2>7 DEF WorkerOK
<1>3. CASE Executing(v)
  <2> DEFINE j == worker[v].job  n == worker[v].attempt
  <2>1. /\ ExecutionOK(v) /\ worker[v] \in Execution /\ j \in Jobs
        /\ n \in 1..Len(attempts[j]) /\ worker[v].token \in Nat
        /\ Row(v).claims \in Nat
    BY <1>3, ExecutionsAre
  <2>2. StillFenced(v)
    BY <1>3 DEF Undisturbed
  <2>3. attempts[j] \in Seq(Attempt) /\ attempts'[j] \in Seq(Attempt)
    BY <2>1 DEF RowsInv
  <2>4. Row(v)' = attempts'[j][n] /\ Row(v) = attempts[j][n]
    BY <1>0 DEF Row
  <2>5. n <= Len(attempts'[j])
    BY <2>1, <2>2, <2>3 DEF StillFenced
  <2>6. Row(v)' \in Attempt
    BY <2>1, <2>3, <2>4, <2>5, ElementOfSeq
  <2>7. worker[v].token <= Row(v)'.claims
    <3>1. worker[v].token <= attempts[j][n].claims /\ attempts[j][n].claims \in Nat
      BY <2>1 DEF ExecutionOK, Row
    <3>2. attempts[j][n].claims <= attempts'[j][n].claims
      BY <2>2 DEF StillFenced
    <3>3. attempts'[j][n].claims \in Nat
      BY <2>4, <2>6, ReconstructionAssumption DEF Attempt, Claims
    <3> QED
      BY <2>1, <2>4, <3>1, <3>2, <3>3
  <2>8. ASSUME Holds(v)', worker[v].phase # "failing" PROVE Row(v)'.stage = worker[v].stage
    <3>1. Holds(v) /\ Row(v)'.stage = Row(v).stage
      BY <1>0, <2>2, <2>4, <2>8 DEF Holds, StillFenced
    <3> QED
      BY <2>1, <2>8, <3>1 DEF ExecutionOK
  <2>9. ASSUME worker[v].phase = "committing" PROVE CommitOK(v)'
    <3>1. Kept(j) /\ CommitOK(v)
      BY <2>1, <2>9 DEF Undisturbed, ExecutionOK
    <3> QED
      BY <1>0, <2>1, <2>4, <3>1 DEF CommitOK, Kept
  <2>10. ExecutionOK(v)'
    BY <1>0, <2>1, <2>5, <2>7, <2>8, <2>9 DEF ExecutionOK
  <2> QED
    BY <2>10 DEF WorkerOK
<1>4. worker[v] \in {Idle} \cup Claiming \cup Execution
  BY DEF WorkerInv
<1> QED
  BY <1>1, <1>2, <1>3, <1>4 DEF Executing, Claiming, Execution

\* Fenced rows, and kept rows where it holds the lock, do not disturb a worker.
LEMMA FencedUndisturbed ==
    ASSUME RowsInv, WorkerInv, NEW v \in Workers, worker'[v] = worker[v],
           \A k \in Jobs : Fenced(k),
           \A k \in Jobs : LockedBy(v, k) => Kept(k)
    PROVE  Undisturbed(v)
<1>1. ASSUME worker[v].phase \in {"claiming", "committing"}
      PROVE  Kept(worker[v].job)
  <2>1. worker[v].job \in Jobs
    BY <1>1, ClaimsAre, ExecutionsAre DEF Executing
  <2> QED
    BY <1>1, <2>1 DEF LockedBy
<1>2. ASSUME Executing(v) PROVE StillFenced(v)
  <2> DEFINE j == worker[v].job  n == worker[v].attempt
  <2>1. /\ j \in Jobs /\ n \in 1..Len(attempts[j])
        /\ worker[v].token <= attempts[j][n].claims
    BY <1>2, ExecutionsAre DEF ExecutionOK, Row
  <2>2. Len(attempts[j]) <= Len(attempts'[j]) /\ FencedRow(attempts[j][n], attempts'[j][n])
    BY <2>1 DEF Fenced
  <2> QED
    BY <2>1, <2>2 DEF FencedRow, StillFenced
<1> QED
  BY <1>1, <1>2 DEF Undisturbed

-----------------------------------------------------------------------------
(* The step of one worker.                                                 *)

WorkerStates == {Idle} \cup Claiming \cup Execution

\* Only w moves, to a state of an execution of the same lease if to one at all.
SameLease(w) ==
    Executing(w)' =>
        /\ Executing(w)
        /\ worker'[w].job = worker[w].job /\ worker'[w].attempt = worker[w].attempt
        /\ worker'[w].token = worker[w].token

OnlyMoves(w) ==
    /\ worker' \in [Workers -> WorkerStates]
    /\ \A v \in Workers \ {w} : worker'[v] = worker[v]

LEMMA WorkerMoves ==
    ASSUME WorkerInv, NEW w \in Workers, NEW e \in WorkerStates,
           worker' = [worker EXCEPT ![w] = e]
    PROVE  OnlyMoves(w) /\ worker'[w] = e
  BY DEF WorkerInv, WorkerStates, OnlyMoves

LEMMA StopMoves ==
    ASSUME WorkerInv, NEW w \in Workers, Stop(w)
    PROVE  OnlyMoves(w) /\ worker'[w] = Idle /\ WorkerOK(w)'
<1>1. Idle \in WorkerStates
  BY DEF WorkerStates
<1>2. OnlyMoves(w) /\ worker'[w] = Idle
  BY <1>1, WorkerMoves DEF Stop
<1> QED
  BY <1>2 DEF WorkerOK

\* An execution that goes on with its lease, in a phase of its own.
LEMMA PhaseMoves ==
    ASSUME WorkerInv, NEW w \in Workers, worker[w] \in Execution,
           NEW phase \in {"preparing", "advancing", "processing", "publishing",
                          "committing", "failing"},
           Goes(w, phase)
    PROVE  /\ OnlyMoves(w) /\ worker'[w] = [worker[w] EXCEPT !.phase = phase]
           /\ worker'[w] \in Execution /\ worker'[w].phase = phase
           /\ worker'[w].job = worker[w].job /\ worker'[w].attempt = worker[w].attempt
           /\ worker'[w].token = worker[w].token /\ worker'[w].stage = worker[w].stage
           /\ worker'[w].result = worker[w].result
<1>1. worker \in [Workers -> WorkerStates]
  BY DEF WorkerInv, WorkerStates
<1>2. worker' = [worker EXCEPT ![w] = [worker[w] EXCEPT !.phase = phase]]
  BY <1>1 DEF Goes
<1>3. [worker[w] EXCEPT !.phase = phase] \in Execution
  BY DEF Execution
<1>4. [worker[w] EXCEPT !.phase = phase] \in WorkerStates
  BY <1>3 DEF WorkerStates
<1>5. OnlyMoves(w) /\ worker'[w] = [worker[w] EXCEPT !.phase = phase]
  BY <1>2, <1>4, WorkerMoves
<1> QED
  BY <1>3, <1>5 DEF Execution

\* An execution that fails has only to know its lease.
LEMMA FailingOK ==
    ASSUME RowsInv, RowsInv', WorkerInv, NEW w \in Workers, Executing(w),
           \A k \in Jobs : Len(attempts[k]) <= Len(attempts'[k])
                           /\ \A n \in 1..Len(attempts[k]) :
                                 attempts[k][n].claims <= attempts'[k][n].claims,
           worker'[w] \in Execution, worker'[w].phase = "failing",
           worker'[w].job = worker[w].job, worker'[w].attempt = worker[w].attempt,
           worker'[w].token = worker[w].token
    PROVE  WorkerOK(w)'
<1>1. PICK j \in Jobs, n \in 1..MaximumAttempts : j = worker[w].job /\ n = worker[w].attempt
  BY ExecutionsAre
<1>2. /\ n \in 1..Len(attempts[j]) /\ worker[w].token \in Nat \ {0}
      /\ worker[w].token <= attempts[j][n].claims /\ attempts[j][n].claims \in Nat
  BY <1>1, ExecutionsAre DEF ExecutionOK, Row
<1>3. Row(w)' = attempts'[j][n]
  BY <1>1 DEF Row
<1>4. Len(attempts[j]) \in Nat /\ Len(attempts'[j]) \in Nat /\ attempts'[j] \in Seq(Attempt)
  BY DEF RowsInv
<1>5. n \in 1..Len(attempts'[j])
  BY <1>1, <1>2, <1>4
<1>6. attempts'[j][n].claims \in Nat
  BY <1>4, <1>5, ElementOfSeq, RowNumbers
<1>7. worker[w].token <= Row(w)'.claims
  BY <1>2, <1>3, <1>6
<1>8. ExecutionOK(w)'
  BY <1>1, <1>2, <1>5, <1>7 DEF ExecutionOK
<1> QED
  BY <1>8 DEF WorkerOK

-----------------------------------------------------------------------------
(* Leases and locks.                                                       *)

LEMMA LeasesStay ==
    ASSUME LeasesInv, UNCHANGED worker
    PROVE  LeasesInv'
  BY DEF LeasesInv, Executing

LEMMA SameLeases ==
    ASSUME LeasesInv, NEW w \in Workers, OnlyMoves(w), SameLease(w)
    PROVE  LeasesInv'
<1> SUFFICES ASSUME NEW v \in Workers, NEW x \in Workers,
                    Executing(v)', Executing(x)',
                    worker'[v].job = worker'[x].job, worker'[v].attempt = worker'[x].attempt,
                    worker'[v].token = worker'[x].token
             PROVE  v = x
  BY DEF LeasesInv
<1>1. \A u \in {v, x} : /\ Executing(u) /\ worker'[u].job = worker[u].job
                        /\ worker'[u].attempt = worker[u].attempt
                        /\ worker'[u].token = worker[u].token
  BY DEF SameLease, OnlyMoves, Executing
<1> QED
  BY <1>1 DEF LeasesInv

LEMMA LocksStay ==
    ASSUME LocksInv, UNCHANGED worker,
           \A j \in Jobs : user'[j] = "retrying" => user[j] = "retrying" \/ ~Locked(j)
    PROVE  LocksInv'
<1> SUFFICES ASSUME NEW j \in Jobs, NEW w \in Workers, LockedBy(w, j)'
             PROVE  /\ user'[j] # "retrying"
                    /\ \A v \in Workers : LockedBy(v, j)' => v = w
  BY DEF LocksInv
<1>1. LockedBy(w, j) /\ \A v \in Workers : LockedBy(v, j)' => LockedBy(v, j)
  BY DEF LockedBy
<1> QED
  BY <1>1 DEF LocksInv, LockedBy, Locked

LEMMA SameLocks ==
    ASSUME LocksInv, NEW w \in Workers, OnlyMoves(w), UNCHANGED user,
           \A j \in Jobs : LockedBy(w, j)' => LockedBy(w, j) \/ ~Locked(j)
    PROVE  LocksInv'
<1> SUFFICES ASSUME NEW j \in Jobs, NEW x \in Workers, LockedBy(x, j)'
             PROVE  /\ user'[j] # "retrying"
                    /\ \A v \in Workers : LockedBy(v, j)' => v = x
  BY DEF LocksInv
<1>1. \A v \in Workers \ {w} : LockedBy(v, j)' => LockedBy(v, j)
  BY DEF OnlyMoves, LockedBy
<1>2. CASE \E v \in Workers : LockedBy(v, j)
  <2>1. PICK v \in Workers : LockedBy(v, j)
    BY <1>2
  <2>2. Locked(j) /\ user[j] # "retrying"
    BY <2>1 DEF Locked, LockedBy, LocksInv
  <2>3. \A u \in Workers : LockedBy(u, j)' => LockedBy(u, j)
    BY <1>1, <2>2
  <2> QED
    BY <2>2, <2>3 DEF LocksInv
<1>3. CASE ~\E v \in Workers : LockedBy(v, j)
  <2>1. x = w /\ ~Locked(j) /\ \A v \in Workers : LockedBy(v, j)' => v = w
    BY <1>1, <1>3
  <2> QED
    BY <2>1 DEF Locked
<1> QED
  BY <1>2, <1>3

-----------------------------------------------------------------------------
(* Steps that write no row of a job.                                       *)

LEMMA RowsLeft ==
    ASSUME IInv, UNCHANGED <<job, attempts, results>>
    PROVE  /\ RowsInv' /\ ResultsInv'
           /\ \A v \in Workers : worker'[v] = worker[v] => WorkerOK(v)'
<1>1. RowsInv' /\ \A k \in Jobs : Fenced(k) /\ Kept(k)
  BY RowsUnchanged DEF IInv
<1>2. \A v \in Workers : worker'[v] = worker[v] => Undisturbed(v)
  BY <1>1, FencedUndisturbed DEF IInv
<1>3. \A v \in Workers : worker'[v] = worker[v] => WorkerOK(v)'
  BY <1>1, <1>2, UndisturbedGoesOn DEF IInv
<1>4. ResultsInv'
  BY DEF IInv, ResultsInv, ResultsOK, ResultsOf
<1> QED
  BY <1>1, <1>3, <1>4

LEMMA WorkerAlone ==
    ASSUME IInv, NEW w \in Workers, OnlyMoves(w), WorkerOK(w)', SameLease(w),
           UNCHANGED <<job, attempts, results, withdrawal, user>>,
           \A j \in Jobs : LockedBy(w, j)' => LockedBy(w, j) \/ ~Locked(j)
    PROVE  IInv'
<1>1. RowsInv' /\ ResultsInv' /\ \A v \in Workers : worker'[v] = worker[v] => WorkerOK(v)'
  BY RowsLeft
<1>2. WorkerInv'
  BY <1>1 DEF WorkerInv, OnlyMoves, WorkerStates
<1>3. UserInv' /\ WithdrawalInv'
  BY DEF IInv, UserInv, UserOK, Retryable, WithdrawalInv
<1>4. LeasesInv' /\ LocksInv'
  BY SameLeases, SameLocks DEF IInv
<1> QED
  BY <1>1, <1>2, <1>3, <1>4 DEF IInv

\* A worker that lets its job go.
LEMMA StopAlone ==
    ASSUME IInv, NEW w \in Workers, Stop(w),
           UNCHANGED <<job, attempts, results, withdrawal, user>>
    PROVE  IInv'
<1>1. OnlyMoves(w) /\ worker'[w] = Idle /\ WorkerOK(w)'
  BY StopMoves DEF IInv
<1>2. SameLease(w) /\ \A j \in Jobs : ~LockedBy(w, j)'
  BY <1>1 DEF SameLease, Executing, LockedBy, Idle
<1> QED
  BY <1>1, <1>2, WorkerAlone

LEMMA UserAlone ==
    ASSUME IInv, UNCHANGED <<job, attempts, results, withdrawal, worker>>, UserInv',
           \A j \in Jobs : user'[j] = "retrying" => user[j] = "retrying" \/ ~Locked(j)
    PROVE  IInv'
<1>1. RowsInv' /\ ResultsInv' /\ \A v \in Workers : WorkerOK(v)'
  BY RowsLeft
<1>2. WorkerInv' /\ WithdrawalInv' /\ LeasesInv' /\ LocksInv'
  BY <1>1, LeasesStay, LocksStay DEF IInv, WorkerInv, WithdrawalInv
<1> QED
  BY <1>1, <1>2 DEF IInv

LEMMA CreateReadsKeeps ==
    ASSUME IInv, NEW j \in Jobs, CreateReads(j)
    PROVE  IInv'
<1>1. UserInv'
  BY DEF IInv, UserInv, UserOK, CreateReads, Retryable
<1> QED
  BY <1>1, UserAlone DEF CreateReads, IInv, UserInv

LEMMA RetryReadsKeeps ==
    ASSUME IInv, NEW j \in Jobs, RetryReads(j)
    PROVE  IInv'
<1>1. UserInv'
  BY DEF IInv, UserInv, UserOK, RetryReads, Retryable
<1> QED
  BY <1>1, UserAlone DEF RetryReads, IInv, UserInv

LEMMA UserRollsBackKeeps ==
    ASSUME IInv, NEW j \in Jobs, UserRollsBack(j)
    PROVE  IInv'
<1>1. UserInv'
  BY DEF IInv, UserInv, UserOK, UserRollsBack, Retryable
<1> QED
  BY <1>1, UserAlone DEF UserRollsBack, IInv, UserInv

LEMMA WithdrawalAlone ==
    ASSUME IInv, UNCHANGED <<job, attempts, results, user, worker>>, WithdrawalInv'
    PROVE  IInv'
<1>1. RowsInv' /\ ResultsInv' /\ \A v \in Workers : WorkerOK(v)'
  BY RowsLeft
<1>2. UserInv'
  BY DEF IInv, UserInv, UserOK, Retryable
<1>3. WorkerInv' /\ LeasesInv' /\ LocksInv'
  BY <1>1, LeasesStay, LocksStay DEF IInv, WorkerInv
<1> QED
  BY <1>1, <1>2, <1>3 DEF IInv

LEMMA WithdrawReadsKeeps ==
    ASSUME IInv, NEW a \in Assets,
           WithdrawInserts(a) \/ WithdrawSelects(a) \/ WithdrawRollsBack(a)
    PROVE  IInv'
<1>1. withdrawal \in
        [Assets -> [phase : {"none", "inserted", "selected", "committed"}, jobs : SUBSET Jobs]]
  BY DEF IInv, WithdrawalInv
<1>2. CASE WithdrawInserts(a)
  <2>1. WithdrawalInv'
    BY <1>1, <1>2 DEF WithdrawInserts, WithdrawalInv
  <2> QED
    BY <1>2, <2>1, WithdrawalAlone DEF WithdrawInserts
<1>3. CASE WithdrawSelects(a)
  <2>1. {j \in Jobs : a \in SourcesOf[j] /\ job[j].state \in Active} \in SUBSET Jobs
    OBVIOUS
  <2>2. WithdrawalInv'
    BY <1>1, <1>3, <2>1 DEF WithdrawSelects, WithdrawalInv
  <2> QED
    BY <1>3, <2>2, WithdrawalAlone DEF WithdrawSelects
<1>4. CASE WithdrawRollsBack(a)
  <2>1. WithdrawalInv'
    BY <1>1, <1>4 DEF WithdrawRollsBack, WithdrawalInv, NoWithdrawal
  <2> QED
    BY <1>4, <2>1, WithdrawalAlone DEF WithdrawRollsBack
<1> QED
  BY <1>2, <1>3, <1>4

LEMMA ClaimReadsKeeps ==
    ASSUME IInv, NEW w \in Workers, NEW j \in Jobs, ClaimReads(w, j)
    PROVE  IInv'
<1> DEFINE e == [phase |-> "claiming", job |-> j, eligible |-> SourcesStillEligible(j)]
<1>1. e \in Claiming
  BY DEF Claiming, SourcesStillEligible
<1>2. OnlyMoves(w) /\ worker'[w] = e
  BY <1>1, WorkerMoves DEF IInv, ClaimReads, WorkerStates
<1>3. Candidate(j)' /\ job'[j].state # "absent"
  BY DEF ClaimReads, Candidate, CandidateQueued, At
<1>4. WorkerOK(w)'
  BY <1>1, <1>2, <1>3 DEF WorkerOK, ClaimOK
<1>5. SameLease(w) /\ \A k \in Jobs : LockedBy(w, k)' => ~Locked(k)
  BY <1>2 DEF SameLease, Executing, LockedBy, ClaimReads
<1> QED
  BY <1>2, <1>4, <1>5, WorkerAlone DEF ClaimReads

LEMMA StopsKeep ==
    ASSUME IInv, NEW w \in Workers, ClaimRollsBack(w) \/ GiveUp(w) \/ Crash(w)
    PROVE  IInv'
  BY StopAlone DEF ClaimRollsBack, GiveUp, Crash

\* The runner goes on in an execution of the same lease, and writes no row.
LEMMA ExecutionAlone ==
    ASSUME IInv, NEW w \in Workers, Executing(w), OnlyMoves(w), worker'[w] \in Execution,
           worker'[w].job = worker[w].job, worker'[w].attempt = worker[w].attempt,
           worker'[w].token = worker[w].token, worker'[w].stage = worker[w].stage,
           UNCHANGED <<job, attempts, results, withdrawal, user>>,
           worker[w].phase = "failing" => worker'[w].phase = "failing",
           worker'[w].phase \in {"publishing", "committing"} => worker'[w].result \in Published,
           worker'[w].phase \in {"preparing", "advancing", "processing"} =>
              worker'[w].result = "none",
           worker'[w].phase # "failing" /\ worker'[w].result = "completed" =>
              worker[w].stage \in Geometry,
           worker'[w].phase = "processing" => worker[w].stage \in Geometry,
           worker'[w].phase = "advancing" =>
              worker[w].stage \in {"preparing", "ready-for-reconstruction"},
           worker'[w].phase = "committing" => CommitOK(w)' /\ ~Locked(worker[w].job)
    PROVE  IInv'
<1>1. /\ ExecutionOK(w) /\ worker[w].attempt \in 1..Len(attempts[worker[w].job])
      /\ worker[w].job \in Jobs
  BY ExecutionsAre DEF IInv
<1>2. Row(w)' = Row(w) /\ (Holds(w)' = Holds(w))
  BY DEF Row, Holds
<1>3. ExecutionOK(w)'
  BY <1>1, <1>2 DEF ExecutionOK
<1>4. WorkerOK(w)' /\ SameLease(w)
  BY <1>3 DEF WorkerOK, SameLease
<1>5. \A j \in Jobs : LockedBy(w, j)' => LockedBy(w, j) \/ ~Locked(j)
  BY DEF LockedBy, Execution
<1> QED
  BY <1>4, <1>5, WorkerAlone

LEMMA PrepareKeeps ==
    ASSUME IInv, NEW w \in Workers, Prepare(w)
    PROVE  IInv'
<1>1. worker[w].phase = "preparing" /\ Executing(w)
  BY DEF Prepare, Executing
<1>2. worker[w] \in Execution /\ ExecutionOK(w) /\ worker[w].stage \in Stages
  BY <1>1, ExecutionsAre DEF IInv, Execution
<1>3. worker[w].result = "none"
  BY <1>1, <1>2 DEF ExecutionOK
<1>4. CASE worker' = [worker EXCEPT ![w] = [@ EXCEPT !.phase = "publishing", !.result = "abstained"]]
  <2> DEFINE e == [worker[w] EXCEPT !.phase = "publishing", !.result = "abstained"]
  <2>1. e \in Execution /\ e.phase = "publishing" /\ e.result = "abstained"
        /\ e.job = worker[w].job /\ e.attempt = worker[w].attempt
        /\ e.token = worker[w].token /\ e.stage = worker[w].stage
    BY <1>2 DEF Execution, Published
  <2>2. worker' = [worker EXCEPT ![w] = e]
    BY <1>4 DEF IInv, WorkerInv
  <2>3. OnlyMoves(w) /\ worker'[w] = e
    BY <2>1, <2>2, WorkerMoves DEF IInv, WorkerStates
  <2> QED
    BY <1>1, <2>1, <2>3, ExecutionAlone DEF Prepare, Published
<1>5. CASE worker[w].stage \in {"preparing", "ready-for-reconstruction"} /\ Goes(w, "advancing")
  BY <1>1, <1>2, <1>3, <1>5, PhaseMoves, ExecutionAlone DEF Prepare, IInv
<1>6. CASE worker[w].stage \notin {"preparing", "ready-for-reconstruction"} /\ Goes(w, "processing")
  <2>1. worker[w].stage \in Geometry
    BY <1>2, <1>6 DEF Stages, Geometry
  <2> QED
    BY <1>1, <1>2, <1>3, <1>6, <2>1, PhaseMoves, ExecutionAlone DEF Prepare, IInv
<1> QED
  BY <1>4, <1>5, <1>6 DEF Prepare

LEMMA ProcessKeeps ==
    ASSUME IInv, NEW w \in Workers, NEW result \in Published, Process(w, result)
    PROVE  IInv'
<1>1. worker[w].phase = "processing" /\ Executing(w)
  BY DEF Process, Executing
<1>2. worker[w] \in Execution /\ worker[w].stage \in Geometry
  BY <1>1, ExecutionsAre DEF IInv, ExecutionOK
<1> DEFINE e == [worker[w] EXCEPT !.phase = "publishing", !.result = result]
<1>3. e \in Execution /\ e.phase = "publishing" /\ e.result = result
      /\ e.job = worker[w].job /\ e.attempt = worker[w].attempt
      /\ e.token = worker[w].token /\ e.stage = worker[w].stage
  BY <1>2 DEF Execution
<1>4. worker' = [worker EXCEPT ![w] = e]
  BY DEF IInv, WorkerInv, Process
<1>5. OnlyMoves(w) /\ worker'[w] = e
  BY <1>3, <1>4, WorkerMoves DEF IInv, WorkerStates
<1> QED
  BY <1>1, <1>2, <1>3, <1>5, ExecutionAlone DEF Process

\* What MayCommit lets the execution count on.
LEMMA CommitterIsAtItsAttempt ==
    ASSUME IInv, NEW w \in Workers, Executing(w), MayCommit(w)
    PROVE  /\ At(worker[w].job) = Row(w) /\ Row(w).state = "leased"
           /\ job[worker[w].job].state = Row(w).stage /\ Row(w).stage \in Stages
           /\ worker[w].phase # "failing" => Row(w).stage = worker[w].stage
<1>1. At(worker[w].job) = Row(w)
  BY DEF MayCommit, At, Row
<1>2. /\ worker[w].job \in Jobs /\ job[worker[w].job].state # "absent"
      /\ ExecutionOK(w) /\ Row(w) \in Attempt
  BY ExecutionsAre DEF IInv
<1>3. Agree(job[worker[w].job], Row(w)) /\ job[worker[w].job] \in Job
  BY <1>1, <1>2, JobIsAtAnAttempt DEF IInv
<1>4. Row(w).state = "leased"
  BY DEF MayCommit, Holds
<1>5. job[worker[w].job].state \in Stages
  BY <1>3, <1>4 DEF Agree, Job, Active, Over
<1> QED
  BY <1>1, <1>2, <1>3, <1>4, <1>5 DEF Agree, ExecutionOK, MayCommit

LEMMA PublishReadsKeeps ==
    ASSUME IInv, NEW w \in Workers, PublishReads(w)
    PROVE  IInv'
<1>1. worker[w].phase = "publishing" /\ Executing(w) /\ MayCommit(w)
  BY DEF PublishReads, Executing
<1>2. worker[w] \in Execution /\ ExecutionOK(w)
  BY <1>1, ExecutionsAre DEF IInv
<1> DEFINE e == [worker[w] EXCEPT !.phase = "committing",
                                  !.eligible = SourcesStillEligible(worker[w].job)]
<1>3. e \in Execution /\ e.phase = "committing" /\ e.result = worker[w].result
      /\ e.job = worker[w].job /\ e.attempt = worker[w].attempt
      /\ e.token = worker[w].token /\ e.stage = worker[w].stage
  BY <1>2 DEF Execution, SourcesStillEligible
<1>4. worker' = [worker EXCEPT ![w] = e]
  BY DEF IInv, WorkerInv, PublishReads
<1>5. OnlyMoves(w) /\ worker'[w] = e
  BY <1>3, <1>4, WorkerMoves DEF IInv, WorkerStates
<1>6. /\ worker[w].result \in Published
      /\ worker[w].result = "completed" => worker[w].stage \in Geometry
  BY <1>1, <1>2 DEF ExecutionOK
<1>7. CommitOK(w)' /\ ~Locked(worker[w].job)
  BY <1>3, <1>5 DEF PublishReads, MayCommit, Holds, CommitOK, Row, Geometry
<1> QED
  BY <1>1, <1>3, <1>5, <1>6, <1>7, ExecutionAlone DEF PublishReads

LEMMA ThrowsKeeps ==
    ASSUME IInv, NEW w \in Workers, Throws(w)
    PROVE  IInv'
<1>1. Executing(w) /\ Goes(w, "failing")
  BY DEF Throws, Executing
<1>2. worker[w] \in Execution
  BY <1>1, ExecutionsAre DEF IInv
<1> QED
  BY <1>1, <1>2, PhaseMoves, ExecutionAlone DEF Throws, IInv

LEMMA HeartbeatEndsKeeps ==
    ASSUME IInv, NEW w \in Workers, HeartbeatEnds(w)
    PROVE  IInv'
<1>1. Executing(w) /\ worker[w].phase \notin {"failing", "committing"}
  BY DEF HeartbeatEnds, Executing
<1>2. worker[w] \in Execution /\ ExecutionOK(w)
  BY <1>1, ExecutionsAre DEF IInv
<1>3. PICK ended \in {"cancel-requested", "lost"} : worker' = [worker EXCEPT ![w].ended = ended]
  BY DEF HeartbeatEnds
<1> DEFINE e == [worker[w] EXCEPT !.ended = ended]
<1>4. e \in Execution /\ e.phase = worker[w].phase /\ e.result = worker[w].result
      /\ e.job = worker[w].job /\ e.attempt = worker[w].attempt
      /\ e.token = worker[w].token /\ e.stage = worker[w].stage
  BY <1>2 DEF Execution
<1>5. worker' = [worker EXCEPT ![w] = e]
  BY <1>3 DEF IInv, WorkerInv
<1>6. OnlyMoves(w) /\ worker'[w] = e
  BY <1>4, <1>5, WorkerMoves DEF IInv, WorkerStates
<1>7. /\ worker[w].phase = "publishing" => worker[w].result \in Published
      /\ worker[w].phase \in {"preparing", "advancing", "processing"} => worker[w].result = "none"
      /\ worker[w].result = "completed" => worker[w].stage \in Geometry
      /\ worker[w].phase = "processing" => worker[w].stage \in Geometry
      /\ worker[w].phase = "advancing" =>
            worker[w].stage \in {"preparing", "ready-for-reconstruction"}
  BY <1>1, <1>2 DEF ExecutionOK
<1> QED
  BY <1>1, <1>4, <1>6, <1>7, ExecutionAlone DEF HeartbeatEnds

-----------------------------------------------------------------------------
(* Steps that write the rows of one job.                                   *)

\* The rows of the tables, as long as no result is published.
LEMMA RowsWritten ==
    ASSUME IInv, NEW j \in Jobs, job[j].state # "absent", user[j] # "retrying",
           NEW a \in Attempt, NEW r \in Job, Agree(r, a), LeaseOK(a), SetRows(j, a, r),
           UNCHANGED <<withdrawal, user>>
    PROVE  /\ RowsInv' /\ UserInv' /\ WithdrawalInv'
           /\ job[j].state \notin Published /\ r.state \notin Published /\ UNCHANGED results =>
                 ResultsInv'
<1>1. /\ job'[j] = r
      /\ Len(attempts'[j]) = Len(attempts[j])
      /\ \A k \in Jobs \ {j} : job'[k] = job[k] /\ attempts'[k] = attempts[k]
  BY SetRowsEffect DEF IInv
<1>2. RowsInv'
  BY SetRowsKeepsRows DEF IInv
<1>3. \A k \in Jobs : UserOK(k)'
  BY <1>1 DEF IInv, UserInv, UserOK, Retryable
<1>4. UserInv' /\ WithdrawalInv'
  BY <1>3 DEF IInv, UserInv, WithdrawalInv
<1>5. ASSUME job[j].state \notin Published, r.state \notin Published, UNCHANGED results
      PROVE  ResultsInv'
  <2>1. \A k \in Jobs : ResultsOK(k)'
    BY <1>1, <1>5 DEF IInv, ResultsInv, ResultsOK, ResultsOf
  <2> QED
    BY <1>5, <2>1 DEF IInv, ResultsInv
<1> QED
  BY <1>2, <1>4, <1>5

\* The workers, as long as the row written is fenced and no one else has the
\* lock of the job.
LEMMA WorkersGoOn ==
    ASSUME IInv, RowsInv', NEW j \in Jobs, job[j].state # "absent",
           NEW a \in Attempt, NEW r \in Job, SetRows(j, a, r), FencedRow(At(j), a),
           NEW v \in Workers, worker'[v] = worker[v], ~LockedBy(v, j)
    PROVE  WorkerOK(v)'
<1>1. (\A k \in Jobs \ {j} : Fenced(k) /\ Kept(k)) /\ Fenced(j)
  BY SetRowsFences DEF IInv
<1>2. Undisturbed(v)
  BY <1>1, FencedUndisturbed DEF IInv
<1> QED
  BY <1>2, UndisturbedGoesOn DEF IInv

LEMMA UnlockedIs ==
    ASSUME NEW j \in Jobs, ~Locked(j)
    PROVE  user[j] # "retrying" /\ \A v \in Workers : ~LockedBy(v, j)
  BY DEF Locked, LockedBy

\* A worker that has the lock is the only one, and no retry is open.
LEMMA HolderIsAlone ==
    ASSUME LocksInv, NEW w \in Workers, NEW j \in Jobs, LockedBy(w, j)
    PROVE  user[j] # "retrying" /\ \A v \in Workers \ {w} : ~LockedBy(v, j)
  BY DEF LocksInv

\* A worker writes the rows of its job and stops.
LEMMA WriteAndStop ==
    ASSUME IInv, NEW w \in Workers, NEW j \in Jobs, job[j].state \notin Published \cup {"absent"},
           NEW a \in Attempt, NEW r \in Job, r.state \notin Published,
           Agree(r, a), LeaseOK(a), FencedRow(At(j), a), SetRows(j, a, r),
           user[j] # "retrying", \A v \in Workers \ {w} : ~LockedBy(v, j),
           Stop(w), UNCHANGED <<results, withdrawal, user>>
    PROVE  IInv'
<1>1. RowsInv' /\ UserInv' /\ WithdrawalInv' /\ ResultsInv'
  BY RowsWritten
<1>2. OnlyMoves(w) /\ worker'[w] = Idle /\ WorkerOK(w)'
  BY StopMoves DEF IInv
<1>3. \A v \in Workers : WorkerOK(v)'
  BY <1>1, <1>2, WorkersGoOn DEF OnlyMoves
<1>4. WorkerInv'
  BY <1>2, <1>3 DEF WorkerInv, OnlyMoves, WorkerStates
<1>5. SameLease(w) /\ \A k \in Jobs : ~LockedBy(w, k)'
  BY <1>2 DEF SameLease, Executing, LockedBy, Idle
<1>6. LeasesInv' /\ LocksInv'
  BY <1>2, <1>5, SameLeases, SameLocks DEF IInv
<1> QED
  BY <1>1, <1>4, <1>6 DEF IInv

\* What Cancel and withdrawSource leave of the attempt.
LEMMA CancelledAttemptRow ==
    ASSUME RowsInv, NEW j \in Jobs, job[j].state \in Active
    PROVE  /\ CancelledAttempt(j) \in Attempt /\ LeaseOK(CancelledAttempt(j))
           /\ FencedRow(At(j), CancelledAttempt(j))
           /\ CancelledAttempt(j).state =
                 IF job[j].state = "created" THEN "cancelled" ELSE "cancel-requested"
<1>1. At(j) \in Attempt /\ Agree(job[j], At(j)) /\ LeaseOK(At(j))
  BY JobIsAtAnAttempt DEF Active, Stages
<1>2. CASE job[j].state = "created"
  <2>1. CancelledAttempt(j) = Ended(j, "cancelled")
    BY <1>1, <1>2 DEF CancelledAttempt, Agree
  <2> QED
    BY <1>1, <1>2, <2>1, EndedRow
<1>3. CASE job[j].state # "created"
  <2>1. At(j).state = "leased"
    BY <1>1, <1>3 DEF Agree, Active
  <2>2. CancelledAttempt(j) = [At(j) EXCEPT !.state = "cancel-requested"]
    BY <1>3, <2>1 DEF CancelledAttempt
  <2> QED
    BY <1>1, <1>3, <2>1, <2>2, RequestedRow
<1> QED
  BY <1>2, <1>3

LEMMA CancelKeeps ==
    ASSUME IInv, NEW j \in Jobs, Cancel(j)
    PROVE  IInv'
<1>1. /\ job[j].state \in Active /\ job[j].state \notin Published \cup {"absent"}
      /\ ~Locked(j) /\ job[j] \in Job
  BY DEF Cancel, Active, Published, Stages, IInv, RowsInv
<1>2. user[j] # "retrying" /\ \A v \in Workers : ~LockedBy(v, j)
  BY <1>1, UnlockedIs
<1>3. PICK r \in Job : /\ SetRows(j, CancelledAttempt(j), r) /\ r.state \notin Published
                       /\ Agree(r, CancelledAttempt(j))
  <2>1. CASE job[j].state = "created" /\ SetRows(j, CancelledAttempt(j), Cancelled(j))
    <3>1. Cancelled(j) \in Job /\ Cancelled(j).state = "cancelled"
      BY <1>1, JobRowsWritten
    <3>2. Agree(Cancelled(j), CancelledAttempt(j)) /\ Cancelled(j).state \notin Published
      BY <1>1, <2>1, <3>1, CancelledAttemptRow DEF Agree, Over, Stages, Published, IInv
    <3> QED
      BY <2>1, <3>1, <3>2
  <2>2. CASE /\ job[j].state \in Stages
             /\ SetRows(j, CancelledAttempt(j), [job[j] EXCEPT !.state = "cancel-requested"])
    <3> DEFINE r == [job[j] EXCEPT !.state = "cancel-requested"]
    <3>1. r \in Job /\ r.state = "cancel-requested"
      BY <1>1, JobRowsWritten DEF Job
    <3>2. Agree(r, CancelledAttempt(j)) /\ r.state \notin Published
      BY <1>1, <2>2, <3>1, CancelledAttemptRow DEF Agree, Over, Stages, Published, IInv
    <3> QED
      BY <2>2, <3>1, <3>2
  <2> QED
    BY <2>1, <2>2 DEF Cancel
<1>4. /\ CancelledAttempt(j) \in Attempt /\ LeaseOK(CancelledAttempt(j))
      /\ FencedRow(At(j), CancelledAttempt(j))
  BY <1>1, CancelledAttemptRow DEF IInv
<1>5. UNCHANGED <<results, withdrawal, user, worker>>
  BY DEF Cancel
<1>6. RowsInv' /\ UserInv' /\ WithdrawalInv' /\ ResultsInv'
  BY <1>1, <1>2, <1>3, <1>4, <1>5, RowsWritten
<1>7. \A v \in Workers : WorkerOK(v)'
  BY <1>1, <1>2, <1>3, <1>4, <1>5, <1>6, WorkersGoOn
<1>8. WorkerInv' /\ LeasesInv' /\ LocksInv'
  BY <1>5, <1>7, LeasesStay, LocksStay DEF IInv, WorkerInv
<1> QED
  BY <1>6, <1>8 DEF IInv

\* A claim that ends the job.
LEMMA ClaimEndsKeeps ==
    ASSUME IInv, NEW w \in Workers, ClaimCancels(w) \/ ClaimFails(w)
    PROVE  IInv'
<1> DEFINE j == worker[w].job
<1>1. worker[w].phase = "claiming"
  BY DEF ClaimCancels, ClaimFails
<1>2. j \in Jobs /\ job[j].state # "absent" /\ Candidate(j)
  BY <1>1, ClaimsAre DEF IInv
<1>3. job[j] \in Job /\ At(j) \in Attempt
  BY <1>2, JobIsAtAnAttempt DEF IInv
<1>4. job[j].state \notin Published \cup {"absent"}
  BY <1>2 DEF Candidate, CandidateQueued, Stages, Published
<1>5. user[j] # "retrying" /\ \A v \in Workers \ {w} : ~LockedBy(v, j)
  BY <1>1, <1>2, HolderIsAlone DEF LockedBy, IInv
<1>6. CASE ClaimCancels(w)
  <2>1. Cancelled(j) \in Job /\ Cancelled(j).state = "cancelled"
    BY <1>2, <1>3, JobRowsWritten
  <2>2. /\ Ended(j, "cancelled") \in Attempt /\ LeaseOK(Ended(j, "cancelled"))
        /\ FencedRow(At(j), Ended(j, "cancelled"))
        /\ Ended(j, "cancelled").state = "cancelled"
    BY <1>2, <1>3, EndedRow
  <2>3. Agree(Cancelled(j), Ended(j, "cancelled")) /\ Cancelled(j).state \notin Published
    BY <2>1, <2>2 DEF Agree, Over, Stages, Published
  <2>4. SetRows(j, Ended(j, "cancelled"), Cancelled(j)) /\ Stop(w)
        /\ UNCHANGED <<results, withdrawal, user>>
    BY <1>6 DEF ClaimCancels
  <2> HIDE DEF j
  <2> QED
    BY <1>2, <1>4, <1>5, <2>1, <2>2, <2>3, <2>4, WriteAndStop
<1>7. CASE ClaimFails(w)
  <2>1. FailedJob(j, FALSE) \in Job /\ FailedJob(j, FALSE).state = "failed"
    BY <1>2, <1>3, JobRowsWritten
  <2>2. /\ Ended(j, "failed") \in Attempt /\ LeaseOK(Ended(j, "failed"))
        /\ FencedRow(At(j), Ended(j, "failed"))
        /\ Ended(j, "failed").state = "failed"
    BY <1>2, <1>3, EndedRow
  <2>3. Agree(FailedJob(j, FALSE), Ended(j, "failed")) /\ FailedJob(j, FALSE).state \notin Published
    BY <2>1, <2>2 DEF Agree, Over, Stages, Published
  <2>4. SetRows(j, Ended(j, "failed"), FailedJob(j, FALSE)) /\ Stop(w)
        /\ UNCHANGED <<results, withdrawal, user>>
    BY <1>7 DEF ClaimFails
  <2> HIDE DEF j
  <2> QED
    BY <1>2, <1>4, <1>5, <2>1, <2>2, <2>3, <2>4, WriteAndStop
<1> QED
  BY <1>6, <1>7

\* The row a claim leases, with a token no execution has.
LEMMA LeasedRow ==
    ASSUME IInv, NEW j \in Jobs, job[j].state # "absent", Candidate(j),
           job[j].state # "cancel-requested"
    PROVE  LET a == [state |-> "leased", stage |-> LeaseStage(j), claims |-> At(j).claims + 1,
                     token |-> At(j).claims + 1, lapsed |-> FALSE]
               r == [job[j] EXCEPT !.state = LeaseStage(j)]
           IN  /\ a \in Attempt /\ LeaseOK(a) /\ FencedRow(At(j), a)
               /\ r \in Job /\ r.state \in Stages /\ Agree(r, a)
               /\ LeaseStage(j) \in Stages /\ At(j).claims \in Nat
               /\ At(j).claims + 1 \in Claims /\ At(j).claims + 1 # 0
<1>1. job[j] \in Job /\ At(j) \in Attempt /\ LeaseOK(At(j))
  BY JobIsAtAnAttempt DEF IInv
<1>2. LeaseStage(j) \in Stages
  BY DEF LeaseStage, Candidate, CandidateQueued, Stages
<1>3. At(j).claims \in Nat
  BY <1>1, RowNumbers
<1>4. At(j).claims <= MaximumMishaps
  BY <1>1, ReconstructionAssumption DEF Candidate, CandidateQueued, LeaseOK
<1>5. At(j).claims + 1 \in Claims /\ At(j).claims + 1 # 0 /\ ~(At(j).claims + 1 <= At(j).claims)
  BY <1>3, <1>4, ReconstructionAssumption DEF Claims
<1> DEFINE a == [state |-> "leased", stage |-> LeaseStage(j), claims |-> At(j).claims + 1,
                 token |-> At(j).claims + 1, lapsed |-> FALSE]
           r == [job[j] EXCEPT !.state = LeaseStage(j)]
<1>6. a \in Attempt
  BY <1>2, <1>5 DEF Attempt
<1>7. LeaseOK(a) /\ FencedRow(At(j), a)
  BY <1>3, <1>5 DEF LeaseOK, Held, FencedRow
<1>8. r \in Job /\ r.state = LeaseStage(j)
  BY <1>1, <1>2, JobRowsWritten DEF Job
<1>9. Agree(r, a)
  BY <1>2, <1>8 DEF Agree, Stages, Published, Over
<1> QED
  BY <1>2, <1>3, <1>5, <1>6, <1>7, <1>8, <1>9

LEMMA ClaimLeasesKeeps ==
    ASSUME IInv, NEW w \in Workers, ClaimLeases(w)
    PROVE  IInv'
<1>1. worker[w].phase = "claiming"
  BY DEF ClaimLeases
<1>2. PICK j \in Jobs : j = worker[w].job
  BY <1>1, ClaimsAre DEF IInv
<1>3. job[j].state # "absent" /\ Candidate(j) /\ job[j].state # "cancel-requested"
  BY <1>1, <1>2, ClaimsAre DEF IInv, ClaimLeases
<1> DEFINE n == Len(attempts[j])
           token == At(j).claims + 1
           a == [state |-> "leased", stage |-> LeaseStage(j), claims |-> token,
                 token |-> token, lapsed |-> FALSE]
           r == [job[j] EXCEPT !.state = LeaseStage(j)]
           e == [phase |-> "preparing", job |-> j, attempt |-> n, token |-> token,
                 stage |-> LeaseStage(j), result |-> "none", eligible |-> FALSE, ended |-> "no"]
<1>4. /\ a \in Attempt /\ LeaseOK(a) /\ FencedRow(At(j), a)
      /\ r \in Job /\ r.state \in Stages /\ Agree(r, a)
      /\ LeaseStage(j) \in Stages /\ At(j).claims \in Nat
      /\ token \in Claims /\ token # 0
  BY <1>3, LeasedRow
<1>5. /\ SetRows(j, a, r) /\ worker' = [worker EXCEPT ![w] = e]
      /\ UNCHANGED <<results, withdrawal, user>>
  BY <1>2 DEF ClaimLeases
<1>6. n \in 1..MaximumAttempts /\ n \in 1..Len(attempts[j])
  BY <1>3, JobIsAtAnAttempt DEF IInv
<1>7. e \in Execution
  BY <1>4, <1>6 DEF Execution
<1>8. OnlyMoves(w) /\ worker'[w] = e
  BY <1>5, <1>7, WorkerMoves DEF IInv, WorkerStates
<1>9. user[j] # "retrying" /\ \A v \in Workers \ {w} : ~LockedBy(v, j)
  BY <1>1, <1>2, HolderIsAlone DEF LockedBy, IInv
<1>10. job[j].state \notin Published /\ r.state \notin Published
  BY <1>3, <1>4 DEF Candidate, CandidateQueued, Stages, Published
<1> HIDE DEF r
<1>11. RowsInv' /\ UserInv' /\ WithdrawalInv' /\ ResultsInv'
  BY <1>3, <1>4, <1>5, <1>9, <1>10, RowsWritten
<1>12. \A v \in Workers \ {w} : WorkerOK(v)'
  BY <1>3, <1>4, <1>5, <1>8, <1>9, <1>11, WorkersGoOn DEF OnlyMoves
<1>13. attempts'[j][n] = a /\ Len(attempts'[j]) = n
  BY <1>3, <1>4, <1>5, SetRowsEffect DEF IInv
<1>14. WorkerOK(w)'
  <2>1. Row(w)' = a
    BY <1>8, <1>13 DEF Row
  <2>2. ExecutionOK(w)'
    BY <1>4, <1>6, <1>7, <1>8, <1>13, <2>1 DEF ExecutionOK, Claims
  <2> QED
    BY <2>2 DEF WorkerOK
<1>15. WorkerInv'
  BY <1>8, <1>12, <1>14 DEF WorkerInv, OnlyMoves, WorkerStates
<1>16. LeasesInv'
  <2>1. ASSUME NEW v \in Workers, v # w, Executing(v)',
               worker'[v].job = j, worker'[v].attempt = n, worker'[v].token = token
        PROVE  FALSE
    <3>1. worker'[v] = worker[v] /\ Executing(v)
      BY <1>8, <2>1 DEF OnlyMoves, Executing
    <3>2. worker[v].token <= Row(v).claims /\ Row(v) = At(j)
      BY <2>1, <3>1, ExecutionsAre DEF IInv, ExecutionOK, Row, At
    <3> QED
      BY <1>4, <2>1, <3>1, <3>2
  <2>2. \A v, u \in Workers \ {w} :
           Executing(v)' /\ Executing(u)'
           /\ worker'[v].job = worker'[u].job /\ worker'[v].attempt = worker'[u].attempt
           /\ worker'[v].token = worker'[u].token => v = u
    BY <1>8 DEF OnlyMoves, IInv, LeasesInv, Executing
  <2> QED
    BY <1>8, <2>1, <2>2 DEF LeasesInv
<1>17. LocksInv'
  <2>1. \A k \in Jobs : ~LockedBy(w, k)'
    BY <1>8 DEF LockedBy
  <2> QED
    BY <1>5, <1>8, <2>1, SameLocks DEF IInv
<1> QED
  BY <1>11, <1>15, <1>16, <1>17 DEF IInv

\* failAttempt.
LEMMA FailAttemptKeeps ==
    ASSUME IInv, NEW w \in Workers, NEW retryable \in BOOLEAN, FailAttempt(w, retryable)
    PROVE  IInv'
<1>1. Executing(w) /\ MayCommit(w) /\ worker[w].phase = "failing"
  BY DEF FailAttempt, Executing
<1>2. PICK j \in Jobs : j = worker[w].job
  BY <1>1, ExecutionsAre DEF IInv
<1>3. job[j].state \in Stages /\ job[j].state \notin Published \cup {"absent"}
  BY <1>1, <1>2, CommitterIsAtItsAttempt DEF Stages, Published
<1>4. job[j] \in Job /\ At(j) \in Attempt
  BY <1>3, JobIsAtAnAttempt DEF IInv
<1>5. user[j] # "retrying" /\ \A v \in Workers \ {w} : ~LockedBy(v, j)
  BY <1>1, <1>2, UnlockedIs DEF MayCommit
<1>6. PICK b \in BOOLEAN : SetRows(j, Ended(j, "failed"), FailedJob(j, b))
  BY <1>2 DEF FailAttempt
<1>7. FailedJob(j, b) \in Job /\ FailedJob(j, b).state = "failed"
  BY <1>4, JobRowsWritten
<1>8. /\ Ended(j, "failed") \in Attempt /\ LeaseOK(Ended(j, "failed"))
      /\ FencedRow(At(j), Ended(j, "failed"))
      /\ Ended(j, "failed").state = "failed"
  BY <1>4, EndedRow
<1>9. Agree(FailedJob(j, b), Ended(j, "failed")) /\ FailedJob(j, b).state \notin Published
  BY <1>7, <1>8 DEF Agree, Over, Stages, Published
<1> QED
  BY <1>3, <1>5, <1>6, <1>7, <1>8, <1>9, WriteAndStop DEF FailAttempt

\* A cancellation to acknowledge is that of the job's last attempt.
LEMMA AcknowledgedJob ==
    ASSUME IInv, NEW w \in Workers, Executing(w), ToAcknowledge(w),
           NEW j \in Jobs, j = worker[w].job
    PROVE  /\ job[j].state = "cancel-requested" /\ At(j).state = "cancel-requested"
           /\ job[j] \in Job /\ At(j) \in Attempt
<1>1. PICK n \in 1..MaximumAttempts : n = worker[w].attempt
  BY ExecutionsAre DEF IInv
<1>2. n \in 1..Len(attempts[j]) /\ job[j].state # "absent" /\ Row(w) = attempts[j][n]
  BY <1>1, ExecutionsAre DEF IInv, Row
<1>3. /\ job[j] \in Job /\ At(j) \in Attempt /\ Agree(job[j], At(j))
      /\ Len(attempts[j]) \in Nat
  BY <1>2, JobIsAtAnAttempt DEF IInv
<1>4. n = Len(attempts[j])
  <2>1. attempts[j][n].state = "cancel-requested"
    BY <1>2 DEF ToAcknowledge
  <2>2. \A m \in 1..(Len(attempts[j]) - 1) : attempts[j][m].state \in Over
    BY DEF IInv, RowsInv, JobRows
  <2> QED
    BY <1>2, <1>3, <2>1, <2>2 DEF Over
<1>5. At(j).state = "cancel-requested"
  BY <1>2, <1>4 DEF ToAcknowledge, At
<1>6. job[j].state = "cancel-requested"
  BY <1>2, <1>3, <1>5 DEF Agree, Job, Active, Published, Over
<1> QED
  BY <1>3, <1>5, <1>6

\* acknowledgeCancellation.
LEMMA AcknowledgeKeeps ==
    ASSUME IInv, NEW w \in Workers, Acknowledge(w)
    PROVE  IInv'
<1>1. Executing(w) /\ ToAcknowledge(w)
  BY DEF Acknowledge, Executing
<1>2. PICK j \in Jobs : j = worker[w].job
  BY <1>1, ExecutionsAre DEF IInv
<1>3. /\ job[j].state = "cancel-requested" /\ At(j).state = "cancel-requested"
      /\ job[j] \in Job /\ At(j) \in Attempt
  BY <1>1, <1>2, AcknowledgedJob
<1>4. Cancelled(j) \in Job /\ Cancelled(j).state = "cancelled"
  BY <1>3, JobRowsWritten
<1>5. /\ Ended(j, "cancelled") \in Attempt /\ LeaseOK(Ended(j, "cancelled"))
      /\ FencedRow(At(j), Ended(j, "cancelled"))
      /\ Ended(j, "cancelled").state = "cancelled"
  BY <1>3, EndedRow
<1>6. Agree(Cancelled(j), Ended(j, "cancelled")) /\ Cancelled(j).state \notin Published
  BY <1>4, <1>5 DEF Agree, Over, Stages, Published
<1>7. user[j] # "retrying" /\ \A v \in Workers : ~LockedBy(v, j)
  BY <1>2, UnlockedIs DEF Acknowledge
<1>8. /\ SetRows(j, Ended(j, "cancelled"), Cancelled(j)) /\ Stop(w)
      /\ UNCHANGED <<results, withdrawal, user>>
  BY <1>2, <1>3 DEF Acknowledge
<1>9. job[j].state \notin Published \cup {"absent"}
  BY <1>3 DEF Published
<1> QED
  BY <1>4, <1>5, <1>6, <1>7, <1>8, <1>9, WriteAndStop

\* The row of an attempt that reaches another stage.
LEMMA AdvancedRow ==
    ASSUME IInv, NEW w \in Workers, Executing(w), MayCommit(w), NEW stage \in Stages
    PROVE  LET j == worker[w].job
               a == [Row(w) EXCEPT !.stage = stage]
               r == [job[j] EXCEPT !.state = stage]
           IN  /\ a \in Attempt /\ LeaseOK(a) /\ a.claims = Row(w).claims
               /\ a.state = "leased" /\ a.stage = stage /\ a.token = worker[w].token
               /\ r \in Job /\ r.state = stage /\ Agree(r, a)
<1> DEFINE j == worker[w].job
           a == [Row(w) EXCEPT !.stage = stage]
           r == [job[j] EXCEPT !.state = stage]
<1>1. /\ At(j) = Row(w) /\ Row(w).state = "leased" /\ Row(w) \in Attempt
      /\ j \in Jobs /\ job[j].state # "absent"
  BY CommitterIsAtItsAttempt, ExecutionsAre DEF IInv
<1>2. job[j] \in Job /\ LeaseOK(Row(w))
  BY <1>1, JobIsAtAnAttempt DEF IInv
<1>3. /\ a \in Attempt /\ a.state = Row(w).state /\ a.stage = stage
      /\ a.claims = Row(w).claims /\ a.token = Row(w).token /\ a.lapsed = Row(w).lapsed
  BY <1>1 DEF Attempt
<1>4. a.token = worker[w].token
  BY <1>3 DEF MayCommit, Holds
<1>5. LeaseOK(a)
  BY <1>2, <1>3 DEF LeaseOK
<1>6. r \in Job /\ r.state = stage
  BY <1>2 DEF Job, Active
<1>7. Agree(r, a)
  BY <1>1, <1>3, <1>6 DEF Agree, Stages, Published, Over
<1> QED
  BY <1>1, <1>3, <1>4, <1>5, <1>6, <1>7

\* advanceAttempt: no other execution has the lease whose stage it changes.
LEMMA AdvanceDisturbsNone ==
    ASSUME IInv, NEW w \in Workers, Executing(w), MayCommit(w),
           NEW j \in Jobs, j = worker[w].job,
           NEW a \in Attempt, NEW r \in Job, SetRows(j, a, r),
           a.claims = Row(w).claims, a.token = worker[w].token,
           NEW v \in Workers \ {w}, worker'[v] = worker[v]
    PROVE  Undisturbed(v)
<1>1. At(j) = Row(w) /\ job[j].state # "absent" /\ Row(w).claims \in Nat
      /\ worker[w].attempt = Len(attempts[j])
  BY CommitterIsAtItsAttempt, ExecutionsAre DEF IInv, MayCommit
<1>2. /\ Len(attempts'[j]) = Len(attempts[j]) /\ attempts'[j][Len(attempts[j])] = a
      /\ \A n \in 1..(Len(attempts[j]) - 1) : attempts'[j][n] = attempts[j][n]
      /\ \A k \in Jobs \ {j} : job'[k] = job[k] /\ attempts'[k] = attempts[k]
  BY <1>1, SetRowsEffect DEF IInv
<1>3. \A k \in Jobs \ {j} : Fenced(k) /\ Kept(k)
  BY <1>1, SetRowsFences DEF IInv
<1>4. ~LockedBy(v, j)
  BY UnlockedIs DEF MayCommit
<1>5. ASSUME worker[v].phase \in {"claiming", "committing"}
      PROVE  Kept(worker[v].job)
  <2>1. worker[v].job \in Jobs \ {j}
    BY <1>4, <1>5, ClaimsAre, ExecutionsAre DEF Executing, LockedBy, IInv
  <2> QED
    BY <1>3, <2>1
<1>6. ASSUME Executing(v) PROVE StillFenced(v)
  <2> DEFINE k == worker[v].job  n == worker[v].attempt
  <2>1. /\ k \in Jobs /\ n \in 1..Len(attempts[k]) /\ worker[v].token <= attempts[k][n].claims
        /\ Row(v) \in Attempt /\ attempts[k][n].claims \in Nat
    BY <1>6, ExecutionsAre DEF ExecutionOK, Row, IInv
  <2>2. CASE k # j
    <3>1. Len(attempts[k]) <= Len(attempts'[k]) /\ FencedRow(attempts[k][n], attempts'[k][n])
      BY <1>3, <2>1, <2>2 DEF Fenced
    <3> QED
      BY <2>1, <3>1 DEF FencedRow, StillFenced
  <2>3. CASE k = j /\ n # Len(attempts[j])
    <3>1. n \in 1..(Len(attempts[j]) - 1) /\ Len(attempts[j]) \in Nat
      BY <2>1, <2>3 DEF IInv, RowsInv
    <3>2. attempts'[k][n] = attempts[k][n] /\ Len(attempts'[k]) = Len(attempts[k])
      BY <1>2, <2>3, <3>1
    <3>3. Len(attempts[k]) <= Len(attempts'[k]) /\ attempts[k][n].claims <= attempts'[k][n].claims
      BY <2>1, <2>3, <3>1, <3>2
    <3> QED
      BY <3>2, <3>3 DEF StillFenced
  <2>4. CASE k = j /\ n = Len(attempts[j])
    <3>1. worker[v].token # worker[w].token
      BY <1>1, <1>6, <2>4 DEF IInv, LeasesInv
    <3>2. attempts[j][n] = Row(w) /\ attempts'[j][n] = a
      BY <1>1, <1>2, <2>4 DEF At
    <3>3. Len(attempts[j]) \in Nat
      BY DEF IInv, RowsInv
    <3> QED
      BY <1>1, <1>2, <2>4, <3>1, <3>2, <3>3 DEF StillFenced
  <2> QED
    BY <2>2, <2>3, <2>4
<1> QED
  BY <1>5, <1>6 DEF Undisturbed

LEMMA AdvanceKeeps ==
    ASSUME IInv, NEW w \in Workers, NEW answered \in BOOLEAN, Advance(w, answered)
    PROVE  IInv'
<1>1. /\ Executing(w) /\ MayCommit(w)
      /\ \/ worker[w].phase = "advancing"
         \/ worker[w].phase = "publishing" /\ AppearanceComes(w)
  BY DEF Advance, Executing
<1>2. PICK j \in Jobs, n \in 1..MaximumAttempts : j = worker[w].job /\ n = worker[w].attempt
  BY <1>1, ExecutionsAre DEF IInv
<1>3. PICK stage \in Stages : stage = NextStage(w)
  BY DEF NextStage, Stages
<1>4. /\ worker[w] \in Execution /\ ExecutionOK(w) /\ At(j) = Row(w)
      /\ n = Len(attempts[j]) /\ job[j].state \in Stages /\ job[j].state # "absent"
      /\ Row(w) \in Attempt /\ Row(w).claims \in Nat
  BY <1>1, <1>2, ExecutionsAre, CommitterIsAtItsAttempt DEF IInv, MayCommit, Stages
<1> DEFINE a == [Row(w) EXCEPT !.stage = stage]
           r == [job[j] EXCEPT !.state = stage]
           phase == IF ~answered THEN "failing"
                    ELSE IF worker[w].phase = "advancing" /\ stage = "reconstructing-geometry"
                    THEN "processing" ELSE worker[w].phase
           e == [worker[w] EXCEPT !.stage = stage, !.phase = phase]
<1>5. /\ a \in Attempt /\ LeaseOK(a) /\ a.claims = Row(w).claims
      /\ a.state = "leased" /\ a.stage = stage /\ a.token = worker[w].token
      /\ r \in Job /\ r.state = stage /\ Agree(r, a)
  BY <1>1, <1>2, AdvancedRow
<1>6. SetRows(j, a, r) /\ UNCHANGED <<results, withdrawal, user>>
  BY <1>2, <1>3, <1>4 DEF Advance
<1>7. phase \in {"failing", "processing", "advancing", "publishing"}
  BY <1>1
<1> HIDE DEF phase
<1>8. /\ e \in Execution /\ e.phase = phase /\ e.stage = stage /\ e.job = j /\ e.attempt = n
      /\ e.token = worker[w].token /\ e.result = worker[w].result
  BY <1>2, <1>4, <1>7 DEF Execution
<1>9. worker' = [worker EXCEPT ![w] = e]
  BY <1>3 DEF Advance, IInv, WorkerInv, phase
<1> HIDE DEF a, r, e
<1>10. OnlyMoves(w) /\ worker'[w] = e
  BY <1>8, <1>9, WorkerMoves DEF IInv, WorkerStates
<1>11. job[j].state \notin Published /\ r.state \notin Published
  BY <1>4, <1>5 DEF Stages, Published
<1>12. user[j] # "retrying"
  BY <1>1, <1>2, UnlockedIs DEF MayCommit
<1>13. RowsInv' /\ UserInv' /\ WithdrawalInv' /\ ResultsInv'
  BY <1>4, <1>5, <1>6, <1>11, <1>12, RowsWritten
<1>14. attempts'[j][n] = a /\ Len(attempts'[j]) = n
  BY <1>4, <1>5, <1>6, SetRowsEffect DEF IInv
<1>15. \A v \in Workers \ {w} : WorkerOK(v)'
  <2> SUFFICES ASSUME NEW v \in Workers \ {w} PROVE WorkerOK(v)'
    OBVIOUS
  <2>1. worker'[v] = worker[v]
    BY <1>10 DEF OnlyMoves
  <2>2. Undisturbed(v)
    BY <1>1, <1>2, <1>5, <1>6, <2>1, AdvanceDisturbsNone
  <2> QED
    BY <1>13, <2>2, UndisturbedGoesOn DEF IInv
<1>16. ExecutionOK(w)'
  <2>1. Row(w)' = a
    BY <1>8, <1>10, <1>14 DEF Row
  <2>2. /\ worker[w].token # 0 /\ worker[w].token <= a.claims
        /\ worker[w].phase = "publishing" => worker[w].result \in Published
        /\ worker[w].phase = "advancing" => worker[w].result = "none"
    BY <1>4, <1>5 DEF ExecutionOK
  <2>3. /\ phase = "publishing" => stage = "reconstructing-appearance"
        /\ phase = "processing" => stage = "reconstructing-geometry"
        /\ phase = "advancing" => stage = "ready-for-reconstruction"
        /\ phase = "publishing" => worker[w].phase = "publishing"
        /\ phase \in {"advancing", "processing"} => worker[w].phase = "advancing"
    <3>1. CASE worker[w].phase = "advancing"
      <4>1. stage \in {"ready-for-reconstruction", "reconstructing-geometry"}
        BY <1>3, <3>1 DEF NextStage
      <4> QED
        BY <3>1, <4>1 DEF phase
    <3>2. CASE worker[w].phase = "publishing"
      <4>1. stage = "reconstructing-appearance"
        BY <1>3, <3>2 DEF NextStage
      <4>2. phase = IF ~answered THEN "failing" ELSE "publishing"
        BY <3>2 DEF phase
      <4> QED
        BY <3>2, <4>1, <4>2
    <3> QED
      BY <1>1, <3>1, <3>2
  <2>4. n <= Len(attempts'[j])
    BY <1>14
  <2> QED
    BY <1>5, <1>7, <1>8, <1>10, <2>1, <2>2, <2>3, <2>4 DEF ExecutionOK, Geometry, Published
<1>17. WorkerInv'
  BY <1>10, <1>15, <1>16 DEF WorkerInv, WorkerOK, OnlyMoves, WorkerStates
<1>18. SameLease(w) /\ \A k \in Jobs : ~LockedBy(w, k)'
  BY <1>1, <1>2, <1>7, <1>8, <1>10 DEF SameLease, LockedBy
<1>19. LeasesInv' /\ LocksInv'
  BY <1>6, <1>10, <1>18, SameLeases, SameLocks DEF IInv
<1> QED
  BY <1>13, <1>17, <1>19 DEF IInv

\* The rows publishResult leaves, and the result.
LEMMA PublishedRows ==
    ASSUME IInv, NEW w \in Workers, NEW answered \in BOOLEAN, PublishCommits(w, answered),
           NEW j \in Jobs, j = worker[w].job
    PROVE  /\ job[j].state \in Stages
           /\ user[j] # "retrying" /\ \A v \in Workers \ {w} : ~LockedBy(v, j)
           /\ RowsInv' /\ UserInv' /\ WithdrawalInv' /\ ResultsInv'
           /\ \E a \in Attempt, r \in Job : SetRows(j, a, r) /\ FencedRow(At(j), a)
<1>1. worker[w].phase = "committing" /\ Executing(w) /\ LockedBy(w, j)
  BY DEF PublishCommits, Executing, LockedBy
<1>2. /\ worker[w].attempt \in 1..MaximumAttempts /\ CommitOK(w)
      /\ worker[w].result \in Published /\ job[j].state # "absent"
  BY <1>1, ExecutionsAre DEF IInv, ExecutionOK
<1>3. /\ job[j] \in Job /\ At(j) \in Attempt /\ Agree(job[j], At(j))
  BY <1>2, JobIsAtAnAttempt DEF IInv
<1>4. At(j).state = "leased" /\ worker[w].attempt = Len(attempts[j])
  BY <1>2 DEF CommitOK, Row, At
<1>5. job[j].state \in Stages /\ job[j].state \notin Published \cup {"absent"}
  BY <1>3, <1>4 DEF Agree, Job, Active, Over, Stages, Published
<1>6. user[j] # "retrying" /\ \A v \in Workers \ {w} : ~LockedBy(v, j)
  BY <1>1, HolderIsAlone DEF IInv
<1>7. UNCHANGED <<withdrawal, user>>
  BY DEF PublishCommits
<1>8. CASE /\ results' = results \cup
                  {[job |-> j, attempt |-> worker[w].attempt, status |-> worker[w].result]}
           /\ SetRows(j, Ended(j, "succeeded"),
                      [job[j] EXCEPT !.state = worker[w].result, !.resultOf = worker[w].attempt])
  <2> DEFINE r == [job[j] EXCEPT !.state = worker[w].result, !.resultOf = worker[w].attempt]
             new == [job |-> j, attempt |-> worker[w].attempt, status |-> worker[w].result]
  <2>1. r \in Job /\ r.state = worker[w].result /\ r.resultOf = Len(attempts[j])
    <3>1. worker[w].attempt \in 0..MaximumAttempts
      BY <1>2, ReconstructionAssumption
    <3> QED
      BY <1>2, <1>3, <1>4, <3>1 DEF Job
  <2> HIDE DEF r
  <2>2. /\ Ended(j, "succeeded") \in Attempt /\ LeaseOK(Ended(j, "succeeded"))
        /\ FencedRow(At(j), Ended(j, "succeeded")) /\ Ended(j, "succeeded").state = "succeeded"
    BY <1>3, EndedRow
  <2>3. Agree(r, Ended(j, "succeeded"))
    BY <1>2, <2>1, <2>2 DEF Agree, Published, Stages, Over
  <2>4. SetRows(j, Ended(j, "succeeded"), r)
    BY <1>8 DEF r
  <2>5. RowsInv' /\ UserInv' /\ WithdrawalInv'
    BY <1>5, <1>6, <1>7, <2>1, <2>2, <2>3, <2>4, RowsWritten
  <2>6. /\ job'[j] = r /\ Len(attempts'[j]) = Len(attempts[j])
        /\ \A k \in Jobs \ {j} : job'[k] = job[k] /\ attempts'[k] = attempts[k]
    BY <1>5, <2>1, <2>2, <2>4, SetRowsEffect DEF IInv
  <2>7. results' = results \cup {new}
    BY <1>8
  <2>8. \A k \in Jobs : ResultsOK(k)'
    <3>1. \A k \in Jobs : ResultsOK(k)
      BY DEF IInv, ResultsInv
    <3>2. ResultsOf(j) = {}
      BY <1>5, <3>1 DEF ResultsOK
    <3>3. ResultsOf(j)' = {new} /\ \A k \in Jobs \ {j} : ResultsOf(k)' = ResultsOf(k)
      BY <2>7, <3>2 DEF ResultsOf
    <3>4. ResultsOK(j)'
      BY <1>2, <1>4, <2>1, <2>6, <3>3 DEF ResultsOK
    <3>5. \A k \in Jobs \ {j} : ResultsOK(k)'
      BY <2>6, <3>1, <3>3 DEF ResultsOK
    <3> QED
      BY <3>4, <3>5
  <2>9. ResultsInv'
    BY <1>2, <2>7, <2>8 DEF IInv, ResultsInv
  <2> QED
    BY <1>5, <1>6, <2>1, <2>2, <2>4, <2>5, <2>9
<1>9. CASE SetRows(j, Ended(j, "failed"), FailedJob(j, FALSE)) /\ UNCHANGED results
  <2>1. FailedJob(j, FALSE) \in Job /\ FailedJob(j, FALSE).state = "failed"
    BY <1>3, JobRowsWritten
  <2>2. /\ Ended(j, "failed") \in Attempt /\ LeaseOK(Ended(j, "failed"))
        /\ FencedRow(At(j), Ended(j, "failed")) /\ Ended(j, "failed").state = "failed"
    BY <1>3, EndedRow
  <2>3. Agree(FailedJob(j, FALSE), Ended(j, "failed")) /\ FailedJob(j, FALSE).state \notin Published
    BY <2>1, <2>2 DEF Agree, Over, Stages, Published
  <2>4. RowsInv' /\ UserInv' /\ WithdrawalInv' /\ ResultsInv'
    BY <1>5, <1>6, <1>7, <1>9, <2>1, <2>2, <2>3, RowsWritten
  <2> QED
    BY <1>5, <1>6, <1>9, <2>1, <2>2, <2>4
<1> QED
  BY <1>8, <1>9 DEF PublishCommits

LEMMA PublishCommitsKeeps ==
    ASSUME IInv, NEW w \in Workers, NEW answered \in BOOLEAN, PublishCommits(w, answered)
    PROVE  IInv'
<1>1. worker[w].phase = "committing" /\ Executing(w)
  BY DEF PublishCommits, Executing
<1>2. PICK j \in Jobs : j = worker[w].job
  BY <1>1, ExecutionsAre DEF IInv
<1>3. /\ job[j].state # "absent" /\ \A v \in Workers \ {w} : ~LockedBy(v, j)
      /\ RowsInv' /\ UserInv' /\ WithdrawalInv' /\ ResultsInv'
      /\ \E a \in Attempt, r \in Job : SetRows(j, a, r) /\ FencedRow(At(j), a)
  BY <1>2, PublishedRows DEF Stages
<1>4. PICK a \in Attempt, r \in Job : SetRows(j, a, r) /\ FencedRow(At(j), a)
  BY <1>3
<1>5. \A k \in Jobs : Fenced(k)
  BY <1>3, <1>4, SetRowsFences DEF IInv
<1>6. OnlyMoves(w) /\ WorkerOK(w)' /\ SameLease(w) /\ \A k \in Jobs : ~LockedBy(w, k)'
  <2>1. CASE Stop(w)
    <3>1. OnlyMoves(w) /\ worker'[w] = Idle /\ WorkerOK(w)'
      BY <2>1, StopMoves DEF IInv
    <3> QED
      BY <3>1 DEF SameLease, Executing, LockedBy, Idle
  <2>2. CASE Goes(w, "failing")
    <3>1. worker[w] \in Execution
      BY <1>1, ExecutionsAre DEF IInv
    <3>2. /\ OnlyMoves(w) /\ worker'[w] \in Execution /\ worker'[w].phase = "failing"
          /\ worker'[w].job = worker[w].job /\ worker'[w].attempt = worker[w].attempt
          /\ worker'[w].token = worker[w].token
      BY <2>2, <3>1, PhaseMoves DEF IInv
    <3>3. \A k \in Jobs : Len(attempts[k]) <= Len(attempts'[k])
                          /\ \A n \in 1..Len(attempts[k]) :
                                attempts[k][n].claims <= attempts'[k][n].claims
      BY <1>5 DEF Fenced, FencedRow
    <3>4. WorkerOK(w)'
      BY <1>1, <1>3, <3>2, <3>3, FailingOK DEF IInv
    <3> QED
      BY <1>1, <3>2, <3>4 DEF SameLease, LockedBy
  <2> QED
    BY <2>1, <2>2 DEF PublishCommits
<1>7. \A v \in Workers \ {w} : WorkerOK(v)'
  BY <1>3, <1>4, <1>6, WorkersGoOn DEF OnlyMoves
<1>8. WorkerInv'
  BY <1>6, <1>7 DEF WorkerInv, OnlyMoves, WorkerStates
<1>9. LeasesInv' /\ LocksInv'
  BY <1>6, SameLeases, SameLocks DEF IInv, PublishCommits
<1> QED
  BY <1>3, <1>8, <1>9 DEF IInv

-----------------------------------------------------------------------------
(* Steps that write rows and move no worker.                               *)

\* The workers, when what each has locked is kept.
LEMMA WorkersStay ==
    ASSUME IInv, RowsInv', UNCHANGED worker, \A k \in Jobs : Fenced(k),
           \A k \in Jobs : Kept(k) \/ \A v \in Workers : ~LockedBy(v, k),
           \A k \in Jobs : user'[k] = "retrying" => user[k] = "retrying"
    PROVE  WorkerInv' /\ LeasesInv' /\ LocksInv'
<1>1. \A v \in Workers : WorkerOK(v)'
  <2> SUFFICES ASSUME NEW v \in Workers PROVE WorkerOK(v)'
    OBVIOUS
  <2>1. Undisturbed(v)
    BY FencedUndisturbed DEF IInv
  <2> QED
    BY <2>1, UndisturbedGoesOn DEF IInv
<1> QED
  BY <1>1, LeasesStay, LocksStay DEF IInv, WorkerInv

LEMMA CreateCommitsKeeps ==
    ASSUME IInv, NEW j \in Jobs, CreateCommits(j)
    PROVE  IInv'
<1> DEFINE r == [job[j] EXCEPT !.state = "created"]
<1>1. job[j] \in Job /\ job[j].state = "absent" /\ attempts[j] \in Seq(Attempt)
      /\ Len(attempts[j]) = 0
  BY DEF IInv, RowsInv, UserInv, UserOK, CreateCommits, JobRows
<1>2. r \in Job /\ r.state = "created"
  BY <1>1 DEF Job, Active
<1>3. Queued \in Attempt /\ Queued.state = "queued" /\ LeaseOK(Queued)
  BY ReconstructionAssumption DEF Queued, Attempt, Claims, Stages, LeaseOK, Held
<1>4. /\ job' = [job EXCEPT ![j] = r] /\ attempts' = [attempts EXCEPT ![j] = <<Queued>>]
      /\ user' = [user EXCEPT ![j] = "none"] /\ UNCHANGED <<results, withdrawal, worker>>
  BY DEF CreateCommits, IInv, RowsInv
<1> HIDE DEF r
<1>5. /\ job'[j] = r /\ attempts'[j] = <<Queued>> /\ Len(attempts'[j]) = 1
      /\ attempts'[j][1] = Queued
      /\ \A k \in Jobs \ {j} : job'[k] = job[k] /\ attempts'[k] = attempts[k]
      /\ job' \in [Jobs -> Job] /\ attempts' \in [Jobs -> Seq(Attempt)]
  BY <1>2, <1>3, <1>4 DEF IInv, RowsInv
<1>6. RowsInv'
  <2>1. Agree(r, Queued)
    BY <1>2, <1>3 DEF Agree, Stages, Published, Over
  <2>2. JobRows(job'[j], attempts'[j])
    BY <1>2, <1>3, <1>5, <2>1, ReconstructionAssumption DEF JobRows
  <2> QED
    BY <1>5, <2>2 DEF IInv, RowsInv
<1>7. UserInv' /\ WithdrawalInv'
  BY <1>4, <1>5 DEF IInv, UserInv, UserOK, Retryable, WithdrawalInv
<1>8. ResultsInv'
  <2>1. \A k \in Jobs : ResultsOK(k)'
    BY <1>1, <1>2, <1>4, <1>5 DEF IInv, ResultsInv, ResultsOK, ResultsOf, Published
  <2> QED
    BY <1>4, <2>1 DEF IInv, ResultsInv
<1>9. /\ \A k \in Jobs : Fenced(k)
      /\ \A k \in Jobs : Kept(k) \/ \A v \in Workers : ~LockedBy(v, k)
  <2>1. \A k \in Jobs \ {j} : Fenced(k) /\ Kept(k)
    BY <1>5, RowsStay DEF IInv
  <2>2. Fenced(j)
    BY <1>1, <1>5 DEF Fenced
  <2>3. \A v \in Workers : ~LockedBy(v, j)
    BY <1>1, ClaimsAre, ExecutionsAre DEF LockedBy, Executing, IInv
  <2> QED
    BY <2>1, <2>2, <2>3
<1>10. WorkerInv' /\ LeasesInv' /\ LocksInv'
  BY <1>4, <1>6, <1>9, WorkersStay DEF IInv, UserInv
<1> QED
  BY <1>6, <1>7, <1>8, <1>10 DEF IInv

LEMMA RetryCommitsKeeps ==
    ASSUME IInv, NEW j \in Jobs, RetryCommits(j)
    PROVE  IInv'
<1> DEFINE s == attempts[j]  n == Len(s)  t == Append(s, Queued)
           r == [job[j] EXCEPT !.state = "created", !.retryable = FALSE]
<1>1. user[j] = "retrying" /\ Retryable(j)
  BY DEF RetryCommits, IInv, UserInv, UserOK
<1>2. job[j].state \in Over /\ n < MaximumAttempts
  BY <1>1 DEF Retryable, Over
<1>3. /\ job[j] \in Job /\ s \in Seq(Attempt) /\ n \in 1..MaximumAttempts
      /\ At(j) \in Attempt /\ Agree(job[j], At(j)) /\ JobRows(job[j], s)
  BY <1>2, JobIsAtAnAttempt DEF IInv, Over, RowsInv
<1>4. r \in Job /\ r.state = "created"
  BY <1>3 DEF Job, Active
<1>5. Queued \in Attempt /\ Queued.state = "queued" /\ LeaseOK(Queued)
  BY ReconstructionAssumption DEF Queued, Attempt, Claims, Stages, LeaseOK, Held
<1>6. /\ t \in Seq(Attempt) /\ Len(t) = n + 1 /\ t[n + 1] = Queued
      /\ \A m \in 1..n : t[m] = s[m]
  BY <1>3, <1>5, AppendProperties
<1>7. /\ job' = [job EXCEPT ![j] = r] /\ attempts' = [attempts EXCEPT ![j] = t]
      /\ user' = [user EXCEPT ![j] = "none"] /\ UNCHANGED <<results, withdrawal, worker>>
  BY DEF RetryCommits, IInv, RowsInv
<1> HIDE DEF r, t
<1>8. /\ job'[j] = r /\ attempts'[j] = t
      /\ \A k \in Jobs \ {j} : job'[k] = job[k] /\ attempts'[k] = attempts[k]
      /\ job' \in [Jobs -> Job] /\ attempts' \in [Jobs -> Seq(Attempt)]
  BY <1>4, <1>6, <1>7 DEF IInv, RowsInv
<1>9. RowsInv'
  <2>1. Agree(r, Queued)
    BY <1>4, <1>5 DEF Agree, Stages, Published, Over
  <2>2. \A m \in 1..n : s[m].state \in Over
    BY <1>2, <1>3 DEF JobRows, Agree, At
  <2>3. \A m \in 1..(Len(t) - 1) : t[m].state \in Over
    BY <1>3, <1>6, <2>2
  <2>4. JobRows(r, t)
    BY <1>2, <1>3, <1>4, <1>5, <1>6, <2>1, <2>3, ReconstructionAssumption DEF JobRows
  <2> QED
    BY <1>8, <2>4 DEF IInv, RowsInv
<1>10. UserInv' /\ WithdrawalInv'
  BY <1>7, <1>8 DEF IInv, UserInv, UserOK, Retryable, WithdrawalInv
<1>11. ResultsInv'
  <2>1. \A k \in Jobs : ResultsOK(k)'
    BY <1>2, <1>4, <1>7, <1>8 DEF IInv, ResultsInv, ResultsOK, ResultsOf, Published, Over
  <2> QED
    BY <1>7, <2>1 DEF IInv, ResultsInv
<1>12. /\ \A k \in Jobs : Fenced(k)
       /\ \A k \in Jobs : Kept(k) \/ \A v \in Workers : ~LockedBy(v, k)
  <2>1. \A k \in Jobs \ {j} : Fenced(k) /\ Kept(k)
    BY <1>8, RowsStay DEF IInv
  <2>2. Fenced(j)
    <3>1. \A m \in 1..n : s[m] \in Attempt
      BY <1>3, ElementOfSeq
    <3>2. \A m \in 1..n : FencedRow(s[m], t[m])
      BY <1>6, <3>1, RowNumbers DEF FencedRow
    <3> QED
      BY <1>3, <1>6, <1>8, <3>2 DEF Fenced
  <2>3. \A v \in Workers : ~LockedBy(v, j)
    BY <1>1 DEF IInv, LocksInv
  <2> QED
    BY <2>1, <2>2, <2>3
<1>13. WorkerInv' /\ LeasesInv' /\ LocksInv'
  BY <1>7, <1>9, <1>12, WorkersStay DEF IInv, UserInv
<1> QED
  BY <1>9, <1>10, <1>11, <1>13 DEF IInv

LEMMA LeaseLapsesKeeps ==
    ASSUME IInv, NEW j \in Jobs, LeaseLapses(j)
    PROVE  IInv'
<1> DEFINE a == [At(j) EXCEPT !.lapsed = TRUE]  n == Len(attempts[j])
<1>1. job[j].state \in Stages \cup {"cancel-requested"} /\ job[j].state \notin Published \cup {"absent"}
  BY DEF LeaseLapses, Stages, Published
<1>2. /\ job[j] \in Job /\ At(j) \in Attempt /\ Agree(job[j], At(j)) /\ LeaseOK(At(j))
      /\ n \in 1..MaximumAttempts
  BY <1>1, JobIsAtAnAttempt DEF IInv
<1>3. /\ a \in Attempt /\ a.state = At(j).state /\ a.stage = At(j).stage
      /\ a.claims = At(j).claims /\ a.token = At(j).token /\ a.lapsed = TRUE
  BY <1>2 DEF Attempt
<1>4. At(j).token # 0 /\ MayMishap(At(j).token) /\ ~At(j).lapsed
      /\ UNCHANGED <<job, results, withdrawal, user, worker>>
  BY DEF LeaseLapses
<1>5. At(j).state \in Held /\ At(j).claims <= MaximumMishaps /\ At(j).claims \in Nat
  BY <1>2, <1>4, RowNumbers DEF LeaseOK, MayMishap
<1>6. Agree(job[j], a) /\ LeaseOK(a) /\ FencedRow(At(j), a)
  BY <1>2, <1>3, <1>5 DEF Agree, LeaseOK, Held, FencedRow
<1>7. SetRows(j, a, job[j])
  BY <1>4 DEF SetRows, LeaseLapses, At, IInv, RowsInv
<1>8. user[j] # "retrying"
  BY <1>1 DEF IInv, UserInv, UserOK, Retryable, Stages
<1> HIDE DEF a
<1>9. RowsInv' /\ UserInv' /\ WithdrawalInv' /\ ResultsInv'
  BY <1>1, <1>2, <1>3, <1>4, <1>6, <1>7, <1>8, RowsWritten
<1>10. (\A k \in Jobs \ {j} : Fenced(k) /\ Kept(k)) /\ Fenced(j)
  BY <1>1, <1>2, <1>3, <1>6, <1>7, SetRowsFences DEF IInv
<1>11. Kept(j)
  <2>1. /\ Len(attempts'[j]) = n /\ attempts'[j][n] = a
        /\ \A m \in 1..(n - 1) : attempts'[j][m] = attempts[j][m]
    BY <1>1, <1>2, <1>3, <1>7, SetRowsEffect DEF IInv
  <2>2. ASSUME NEW m \in 1..n
        PROVE  /\ attempts'[j][m].state = attempts[j][m].state
               /\ attempts'[j][m].token = attempts[j][m].token
               /\ attempts[j][m].lapsed => attempts'[j][m].lapsed
    <3>1. CASE m = n
      BY <1>3, <2>1, <3>1 DEF At
    <3>2. CASE m # n
      <4>1. m \in 1..(n - 1)
        BY <1>2, <3>2
      <4> QED
        BY <2>1, <4>1
    <3> QED
      BY <3>1, <3>2
  <2> QED
    BY <1>4, <2>1, <2>2 DEF Kept
<1>12. WorkerInv' /\ LeasesInv' /\ LocksInv'
  BY <1>4, <1>9, <1>10, <1>11, WorkersStay
<1> QED
  BY <1>9, <1>12 DEF IInv

\* What withdrawSource leaves of each job.
LEMMA WithdrawnRows ==
    ASSUME IInv, NEW a \in Assets, WithdrawCommits(a), NEW k \in Jobs
    PROVE  /\ k \notin ToWithdraw(a) => job'[k] = job[k] /\ attempts'[k] = attempts[k]
           /\ k \in ToWithdraw(a) =>
                 /\ ~Locked(k) /\ job[k].state \in Active
                 /\ \E x \in Attempt, r \in Job :
                       /\ attempts'[k] = [attempts[k] EXCEPT ![Len(attempts[k])] = x]
                       /\ job'[k] = r /\ r.state \in {"failed", "cancel-requested"}
                       /\ Agree(r, x) /\ LeaseOK(x) /\ FencedRow(At(k), x)
<1> DEFINE queued == {j \in ToWithdraw(a) : job[j].state = "created"}
<1>1. /\ job'[k] = IF k \in queued THEN FailedJob(k, FALSE)
                   ELSE IF k \in ToWithdraw(a) THEN [job[k] EXCEPT !.state = "cancel-requested"]
                   ELSE job[k]
      /\ attempts'[k] = IF k \notin ToWithdraw(a) THEN attempts[k]
                        ELSE [attempts[k] EXCEPT ![Len(attempts[k])] =
                                IF k \in queued THEN Ended(k, "failed") ELSE CancelledAttempt(k)]
  BY DEF WithdrawCommits
<1>2. CASE k \notin ToWithdraw(a)
  BY <1>1, <1>2
<1>3. CASE k \in queued
  <2>1. k \in ToWithdraw(a) /\ job[k].state = "created" /\ job[k].state \in Active /\ ~Locked(k)
    BY <1>3 DEF ToWithdraw, WithdrawCommits, Active
  <2>2. job[k] \in Job /\ At(k) \in Attempt
    BY <2>1, JobIsAtAnAttempt DEF IInv
  <2>3. FailedJob(k, FALSE) \in Job /\ FailedJob(k, FALSE).state = "failed"
    BY <2>2, JobRowsWritten
  <2>4. /\ Ended(k, "failed") \in Attempt /\ LeaseOK(Ended(k, "failed"))
        /\ FencedRow(At(k), Ended(k, "failed")) /\ Ended(k, "failed").state = "failed"
    BY <2>2, EndedRow
  <2>5. Agree(FailedJob(k, FALSE), Ended(k, "failed"))
    BY <2>3, <2>4 DEF Agree, Over, Stages, Published
  <2>6. /\ job'[k] = FailedJob(k, FALSE)
        /\ attempts'[k] = [attempts[k] EXCEPT ![Len(attempts[k])] = Ended(k, "failed")]
    BY <1>1, <1>3, <2>1
  <2> QED
    BY <2>1, <2>3, <2>4, <2>5, <2>6
<1>4. CASE k \in ToWithdraw(a) \ queued
  <2>1. k \in ToWithdraw(a) /\ job[k].state # "created" /\ job[k].state \in Active /\ ~Locked(k)
    BY <1>4 DEF ToWithdraw, WithdrawCommits
  <2> DEFINE r == [job[k] EXCEPT !.state = "cancel-requested"]
  <2>2. job[k] \in Job
    BY <2>1 DEF IInv, RowsInv
  <2>3. r \in Job /\ r.state = "cancel-requested"
    BY <2>2, JobRowsWritten DEF Job
  <2>4. /\ CancelledAttempt(k) \in Attempt /\ LeaseOK(CancelledAttempt(k))
        /\ FencedRow(At(k), CancelledAttempt(k))
        /\ CancelledAttempt(k).state = "cancel-requested"
    BY <2>1, CancelledAttemptRow DEF IInv
  <2>5. Agree(r, CancelledAttempt(k))
    BY <2>3, <2>4 DEF Agree, Over, Stages, Published
  <2>6. /\ job'[k] = r
        /\ attempts'[k] = [attempts[k] EXCEPT ![Len(attempts[k])] = CancelledAttempt(k)]
    BY <1>1, <1>4, <2>1
  <2> QED
    BY <2>1, <2>3, <2>4, <2>5, <2>6
<1> QED
  BY <1>2, <1>3, <1>4

\* The same, as far as the invariant and the others rely on it.
LEMMA WithdrawnJob ==
    ASSUME IInv, NEW a \in Assets, WithdrawCommits(a), NEW k \in Jobs
    PROVE  /\ job'[k] \in Job /\ attempts'[k] \in Seq(Attempt)
           /\ JobRows(job'[k], attempts'[k]) /\ Fenced(k)
           /\ Kept(k) \/ ~Locked(k)
           /\ UserOK(k)' /\ ResultsOK(k)'
<1>1. /\ job[k] \in Job /\ attempts[k] \in Seq(Attempt) /\ JobRows(job[k], attempts[k])
      /\ UserOK(k) /\ ResultsOK(k)
  BY DEF IInv, RowsInv, UserInv, ResultsInv
<1>2. UNCHANGED <<results, user>>
  BY DEF WithdrawCommits
<1>3. CASE k \notin ToWithdraw(a)
  <2>1. job'[k] = job[k] /\ attempts'[k] = attempts[k]
    BY <1>3, WithdrawnRows
  <2>2. Fenced(k) /\ Kept(k)
    BY <2>1, RowsStay DEF IInv
  <2> QED
    BY <1>1, <1>2, <2>1, <2>2 DEF UserOK, Retryable, ResultsOK, ResultsOf
<1>4. CASE k \in ToWithdraw(a)
  <2>1. ~Locked(k) /\ job[k].state \in Active
    BY <1>4, WithdrawnRows
  <2>2. PICK x \in Attempt, r \in Job :
           /\ attempts'[k] = [attempts[k] EXCEPT ![Len(attempts[k])] = x]
           /\ job'[k] = r /\ r.state \in {"failed", "cancel-requested"}
           /\ Agree(r, x) /\ LeaseOK(x) /\ FencedRow(At(k), x)
    BY <1>4, WithdrawnRows
  <2> DEFINE s == attempts[k]  t == [s EXCEPT ![Len(s)] = x]
  <2>3. Len(s) \in 1..Len(s) /\ Len(s) \in Nat /\ Len(s) # 0
    BY <2>1, JobIsAtAnAttempt DEF IInv, Active, Stages
  <2>4. t \in Seq(Attempt) /\ Len(t) = Len(s)
        /\ \A n \in 1..Len(s) : t[n] = IF n = Len(s) THEN x ELSE s[n]
    BY <1>1, <2>3, ExceptSeq
  <2>5. t[Len(s)] = x /\ \A n \in 1..(Len(s) - 1) : t[n] = s[n]
    BY <2>3, <2>4
  <2> HIDE DEF t
  <2>6. attempts'[k] = t
    BY <2>2 DEF t
  <2>7. JobRows(r, t)
    BY <1>1, <2>2, <2>3, <2>4, <2>5 DEF JobRows, Agree
  <2>8. Fenced(k)
    <3>1. ASSUME NEW n \in 1..Len(s) PROVE FencedRow(s[n], t[n])
      <4>1. CASE n = Len(s)
        BY <2>2, <2>5, <4>1 DEF At
      <4>2. CASE n # Len(s)
        <5>1. t[n] = s[n] /\ s[n] \in Attempt
          BY <1>1, <2>4, <4>2, ElementOfSeq
        <5> QED
          BY <5>1, RowNumbers DEF FencedRow
      <4> QED
        BY <4>1, <4>2
    <3> QED
      BY <2>3, <2>4, <2>6, <3>1 DEF Fenced
  <2>9. UserOK(k)'
    BY <1>1, <1>2, <2>1 DEF UserOK, Retryable, Locked, Active, Stages
  <2>10. ResultsOK(k)'
    BY <1>1, <1>2, <2>1, <2>2 DEF ResultsOK, ResultsOf, Active, Stages, Published
  <2> QED
    BY <2>1, <2>2, <2>4, <2>6, <2>7, <2>8, <2>9, <2>10
<1> QED
  BY <1>3, <1>4

LEMMA WithdrawCommitsKeeps ==
    ASSUME IInv, NEW a \in Assets, WithdrawCommits(a)
    PROVE  IInv'
<1>1. UNCHANGED <<results, user, worker>>
  BY DEF WithdrawCommits
<1>2. RowsInv'
  <2>1. job' \in [Jobs -> Job] /\ attempts' \in [Jobs -> Seq(Attempt)]
    <3>1. DOMAIN job' = Jobs /\ DOMAIN attempts' = Jobs
          /\ job' = [k \in Jobs |-> job'[k]] /\ attempts' = [k \in Jobs |-> attempts'[k]]
      BY DEF WithdrawCommits
    <3> QED
      BY <3>1, WithdrawnJob
  <2> QED
    BY <2>1, WithdrawnJob DEF RowsInv
<1>3. UserInv' /\ ResultsInv'
  BY <1>1, WithdrawnJob DEF IInv, UserInv, ResultsInv
<1>4. WithdrawalInv'
  BY DEF IInv, WithdrawalInv, WithdrawCommits
<1>5. \A k \in Jobs : Fenced(k) /\ (Kept(k) \/ \A v \in Workers : ~LockedBy(v, k))
  BY WithdrawnJob, UnlockedIs
<1>6. WorkerInv' /\ LeasesInv' /\ LocksInv'
  BY <1>1, <1>2, <1>5, WorkersStay
<1> QED
  BY <1>2, <1>3, <1>4, <1>6 DEF IInv

-----------------------------------------------------------------------------
(* The invariant is inductive.                                             *)

LEMMA InitEstablishes ==
    ASSUME Init
    PROVE  IInv
<1>1. \A j \in Jobs : job[j].state = "absent" /\ job[j] \in Job /\ attempts[j] = <<>>
  BY ReconstructionAssumption DEF Init, Job
<1>2. RowsInv
  <2>1. job \in [Jobs -> Job] /\ attempts \in [Jobs -> Seq(Attempt)]
    BY ReconstructionAssumption DEF Init, Job
  <2>2. \A j \in Jobs : JobRows(job[j], attempts[j])
    BY <1>1, ReconstructionAssumption DEF JobRows
  <2> QED
    BY <2>1, <2>2 DEF RowsInv
<1>3. UserInv /\ WithdrawalInv
  BY DEF Init, UserInv, UserOK, WithdrawalInv, NoWithdrawal
<1>4. ResultsInv
  BY <1>1 DEF Init, ResultsInv, ResultsOK, ResultsOf, Published
<1>5. WorkerInv /\ LeasesInv /\ LocksInv
  BY DEF Init, WorkerInv, WorkerOK, LeasesInv, LocksInv, LockedBy, Executing, Idle
<1> QED
  BY <1>2, <1>3, <1>4, <1>5 DEF IInv

LEMMA StutterKeeps ==
    ASSUME IInv, UNCHANGED vars
    PROVE  IInv'
<1>1. UNCHANGED <<job, attempts, results, user, worker>> /\ WithdrawalInv'
  BY DEF vars, IInv, WithdrawalInv
<1> QED
  BY <1>1, WithdrawalAlone

LEMMA NextKeeps ==
    ASSUME IInv, [Next]_vars
    PROVE  IInv'
<1>1. CASE \E j \in Jobs : UserStep(j) \/ LeaseLapses(j)
  BY <1>1, CreateReadsKeeps, CreateCommitsKeeps, CancelKeeps, RetryReadsKeeps,
     RetryCommitsKeeps, UserRollsBackKeeps, LeaseLapsesKeeps DEF UserStep
<1>2. CASE \E a \in Assets : WithdrawStep(a)
  BY <1>2, WithdrawReadsKeeps, WithdrawCommitsKeeps DEF WithdrawStep
<1>3. CASE \E w \in Workers : WorkerStep(w)
  <2> SUFFICES ASSUME NEW w \in Workers, WorkerStep(w) PROVE IInv'
    BY <1>3
  <2>1. CASE (\E j \in Jobs : ClaimReads(w, j)) \/ ClaimCommits(w) \/ ClaimRollsBack(w)
    BY <2>1, ClaimReadsKeeps, ClaimEndsKeeps, ClaimLeasesKeeps, StopsKeep DEF ClaimCommits
  <2>2. CASE RunnerStep(w)
    BY <2>2, PrepareKeeps, ProcessKeeps, AdvanceKeeps, PublishReadsKeeps, PublishCommitsKeeps,
       ThrowsKeeps, FailAttemptKeeps, AcknowledgeKeeps, StopsKeep DEF RunnerStep
  <2>3. CASE HeartbeatEnds(w) \/ Crash(w)
    BY <2>3, HeartbeatEndsKeeps, StopsKeep
  <2> QED
    BY <2>1, <2>2, <2>3 DEF WorkerStep
<1>4. CASE UNCHANGED vars
  BY <1>4, StutterKeeps
<1> QED
  BY <1>1, <1>2, <1>3, <1>4 DEF Next

\* In every reachable state the rows, the results, the open transactions, the
\* executions, their leases and the row locks fit together.
THEOREM Inductive == Spec => []IInv
<1>1. Init => IInv
  BY InitEstablishes
<1>2. IInv /\ [Next]_vars => IInv'
  BY NextKeeps
<1> QED
  BY <1>1, <1>2, PTL DEF Spec

-----------------------------------------------------------------------------
(* What follows from it.                                                   *)

\* Every variable has its type.
THEOREM TypeCorrect == Spec => []TypeOK
<1>1. IInv => TypeOK
  <2> SUFFICES ASSUME IInv PROVE TypeOK
    OBVIOUS
  <2>1. ASSUME NEW j \in Jobs
        PROVE  /\ Len(attempts[j]) \in 0..MaximumAttempts
               /\ \A n \in 1..Len(attempts[j]) : attempts[j][n] \in Attempt
    <3>1. attempts[j] \in Seq(Attempt) /\ Len(attempts[j]) <= MaximumAttempts
      BY DEF IInv, RowsInv, JobRows
    <3> QED
      BY <3>1, ElementOfSeq, ReconstructionAssumption
  <2> QED
    BY <2>1 DEF TypeOK, IInv, RowsInv, UserInv, WithdrawalInv, ResultsInv, WorkerInv
<1> QED
  BY <1>1, Inductive, PTL

\* The job row and the rows of its attempts tell the same story after every
\* transaction of claimNext, advanceAttempt, publishResult, failAttempt,
\* acknowledgeCancellation, retryJob, cancelJob and withdrawSource.
THEOREM RowsAlwaysAgree == Spec => []RowsAgree
<1>1. IInv => RowsAgree
  <2> SUFFICES ASSUME IInv, NEW j \in Jobs
               PROVE  /\ (attempts[j] = <<>>) = (job[j].state = "absent")
                      /\ \A n \in 1..(Len(attempts[j]) - 1) :
                            attempts[j][n].state \in {"cancelled", "failed"}
                      /\ attempts[j] # <<>> =>
                            CASE job[j].state = "created" -> At(j).state = "queued"
                              [] job[j].state \in Stages ->
                                    At(j).state = "leased" /\ At(j).stage = job[j].state
                              [] job[j].state \in Published -> At(j).state = "succeeded"
                              [] OTHER -> At(j).state = job[j].state
    BY DEF RowsAgree
  <2>1. job[j] \in Job /\ attempts[j] \in Seq(Attempt) /\ JobRows(job[j], attempts[j])
    BY DEF IInv, RowsInv
  <2>2. (attempts[j] = <<>>) = (job[j].state = "absent")
    BY <2>1, EmptySeq DEF JobRows
  <2>3. \A n \in 1..(Len(attempts[j]) - 1) : attempts[j][n].state \in {"cancelled", "failed"}
    BY <2>1 DEF JobRows, Over
  <2>4. ASSUME attempts[j] # <<>>
        PROVE  CASE job[j].state = "created" -> At(j).state = "queued"
                 [] job[j].state \in Stages ->
                       At(j).state = "leased" /\ At(j).stage = job[j].state
                 [] job[j].state \in Published -> At(j).state = "succeeded"
                 [] OTHER -> At(j).state = job[j].state
    <3>1. Agree(job[j], At(j)) /\ job[j].state # "absent"
      BY <2>1, <2>2, <2>4, JobIsAtAnAttempt DEF IInv
    <3>2. job[j].state \in {"created", "cancel-requested"} \cup Over \cup Stages \cup Published
      BY <2>1, <3>1 DEF Job, Active, Over
    <3>3. CASE job[j].state = "created"
      BY <3>1, <3>3 DEF Agree, Stages, Published
    <3>4. CASE job[j].state \in Stages
      BY <3>1, <3>4 DEF Agree, Stages, Published
    <3>5. CASE job[j].state \in Published
      BY <3>1, <3>5 DEF Agree, Stages, Published
    <3>6. CASE job[j].state \in Over \cup {"cancel-requested"}
      BY <3>1, <3>6 DEF Agree, Stages, Published, Over
    <3> QED
      BY <3>2, <3>3, <3>4, <3>5, <3>6
  <2> QED
    BY <2>2, <2>3, <2>4
<1> QED
  BY <1>1, Inductive, PTL

\* A job has a result if and only if it is published, of its last attempt and
\* of the status it shows.
THEOREM ResultsAlwaysPublished == Spec => []ResultsArePublished
<1>1. IInv => ResultsArePublished
  BY DEF IInv, ResultsInv, ResultsOK, ResultsOf, ResultsArePublished
<1> QED
  BY <1>1, Inductive, PTL

\* Between the reads of publishResult and its commit no one takes the lease.
THEOREM PublicationsAreFenced == Spec => []PublicationsHoldTheirLease
<1>1. IInv => PublicationsHoldTheirLease
  <2> SUFFICES ASSUME IInv, NEW w \in Workers, worker[w].phase = "committing"
               PROVE  /\ Row(w).state = "leased" /\ Row(w).token = worker[w].token
                      /\ Len(attempts[worker[w].job]) = worker[w].attempt
    BY DEF PublicationsHoldTheirLease
  <2>1. ExecutionOK(w)
    BY ExecutionsAre DEF IInv, Executing
  <2> QED
    BY <2>1 DEF ExecutionOK, CommitOK
<1> QED
  BY <1>1, Inductive, PTL

\* advanceAttempt and publishResult never refuse the stage to the holder of
\* the lease.
THEOREM HolderAlwaysInStep == Spec => []HolderIsInStep
<1>1. IInv => HolderIsInStep
  <2> SUFFICES ASSUME IInv, NEW w \in Workers,
                      worker[w].phase \in {"preparing", "advancing", "processing",
                                           "publishing", "committing"},
                      Holds(w)
               PROVE  /\ Row(w).stage = worker[w].stage
                      /\ worker[w].result = "completed" => worker[w].stage \in Geometry
    BY DEF HolderIsInStep, Geometry
  <2>1. ExecutionOK(w)
    BY ExecutionsAre DEF IInv, Executing
  <2> QED
    BY <2>1 DEF ExecutionOK
<1> QED
  BY <1>1, Inductive, PTL

-----------------------------------------------------------------------------
(* Rights that are lost stay lost.                                         *)

\* A claim or a publication of the job knows of no rights.
NoRights(w, j) == LockedBy(w, j) => ~worker[w].eligible

\* Neither a new lease nor a new result for the job.
NothingGranted(j) ==
    /\ Token(j)' \in {0, Token(j)}
    /\ \A r \in results' \ results : r.job # j

LEMMA LostRights ==
    ASSUME NEW j \in Jobs
    PROVE  RightsLost(j) <=> SourceWithdrawn(j) /\ \A w \in Workers : NoRights(w, j)
  BY DEF RightsLost, NoRights, LockedBy

LEMMA WithdrawalsStay ==
    ASSUME IInv, [Next]_vars, NEW j \in Jobs, SourceWithdrawn(j)
    PROVE  SourceWithdrawn(j)'
<1> SUFFICES ASSUME NEW b \in SourcesOf[j], Withdrawn(b) PROVE Withdrawn(b)'
  BY DEF SourceWithdrawn
<1>1. CASE UNCHANGED withdrawal
  BY <1>1 DEF Withdrawn
<1>2. CASE \E a \in Assets : WithdrawStep(a)
  <2>1. PICK a \in Assets : WithdrawStep(a)
    BY <1>2
  <2>2. b \in Assets
    BY ReconstructionAssumption
  <2>3. CASE a = b
    BY <2>1, <2>2, <2>3 DEF WithdrawStep, WithdrawInserts, WithdrawSelects, WithdrawCommits,
      WithdrawRollsBack, Withdrawn, IInv, WithdrawalInv
  <2>4. CASE a # b
    BY <2>1, <2>2, <2>4 DEF WithdrawStep, WithdrawInserts, WithdrawSelects, WithdrawCommits,
      WithdrawRollsBack, Withdrawn, IInv, WithdrawalInv
  <2> QED
    BY <2>3, <2>4
<1>3. UNCHANGED withdrawal \/ \E a \in Assets : WithdrawStep(a)
  BY DEF Next, vars, UserStep, LeaseLapses, CreateReads, CreateCommits, Cancel, RetryReads,
    RetryCommits, UserRollsBack, WorkerStep, ClaimReads, ClaimCommits, ClaimCancels, ClaimFails,
    ClaimLeases, ClaimRollsBack, RunnerStep, Prepare, Process, Advance, PublishCommits,
    PublishReads, Throws, FailAttempt, Acknowledge, GiveUp, HeartbeatEnds, Crash
<1> QED
  BY <1>1, <1>2, <1>3

\* The token of a job whose rows are left, or written with SetRows.
LEMMA TokenStays ==
    ASSUME NEW j \in Jobs, attempts'[j] = attempts[j]
    PROVE  Token(j)' = Token(j)
  BY DEF Token, At

LEMMA TokenWritten ==
    ASSUME IInv, NEW k \in Jobs, job[k].state # "absent",
           NEW a \in Attempt, NEW r \in Job, SetRows(k, a, r), a.token \in {0, At(k).token},
           NEW j \in Jobs
    PROVE  Token(j)' \in {0, Token(j)}
<1>1. /\ Len(attempts'[k]) = Len(attempts[k]) /\ attempts'[k][Len(attempts[k])] = a
      /\ \A i \in Jobs \ {k} : attempts'[i] = attempts[i]
  BY SetRowsEffect DEF IInv
<1>2. CASE j # k
  BY <1>1, <1>2, TokenStays
<1>3. CASE j = k
  <2>1. attempts[k] # <<>>
    BY JobIsAtAnAttempt DEF IInv
  <2>2. At(k)' = a
    BY <1>1 DEF At
  <2> QED
    BY <1>3, <2>1, <2>2 DEF Token
<1> QED
  BY <1>2, <1>3

\* Steps of users and withdrawals.
LEMMA UsersGrantNothing ==
    ASSUME IInv, NEW j \in Jobs, NEW k \in Jobs, UserStep(k) \/ LeaseLapses(k)
    PROVE  NothingGranted(j) /\ UNCHANGED worker
<1>1. UNCHANGED <<results, worker>>
  BY DEF UserStep, LeaseLapses, CreateReads, CreateCommits, Cancel, RetryReads,
    RetryCommits, UserRollsBack
<1>2. CASE CreateReads(k) \/ RetryReads(k) \/ UserRollsBack(k)
  BY <1>1, <1>2, TokenStays DEF NothingGranted, CreateReads, RetryReads, UserRollsBack
<1>3. CASE CreateCommits(k)
  <2>1. attempts' = [attempts EXCEPT ![k] = <<Queued>>] /\ attempts \in [Jobs -> Seq(Attempt)]
    BY <1>3 DEF CreateCommits, IInv, RowsInv
  <2>2. CASE j = k
    <3>1. attempts'[j] = <<Queued>> /\ Len(<<Queued>>) = 1 /\ <<Queued>>[1] = Queued
      BY <2>1, <2>2
    <3>2. Token(j)' = 0
      BY <3>1 DEF Token, At, Queued
    <3> QED
      BY <1>1, <3>2 DEF NothingGranted
  <2>3. CASE j # k
    BY <1>1, <2>1, <2>3, TokenStays DEF NothingGranted
  <2> QED
    BY <2>2, <2>3
<1>4. CASE RetryCommits(k)
  <2>1. attempts' = [attempts EXCEPT ![k] = Append(@, Queued)] /\ attempts \in [Jobs -> Seq(Attempt)]
    BY <1>4 DEF RetryCommits, IInv, RowsInv
  <2>2. CASE j = k
    <3> DEFINE s == attempts[j]
    <3>1. attempts'[j] = Append(s, Queued) /\ s \in Seq(Attempt)
      BY <2>1, <2>2
    <3>2. Len(attempts'[j]) = Len(s) + 1 /\ attempts'[j][Len(s) + 1] = Queued
      BY <3>1
    <3>3. Token(j)' = 0
      BY <3>2 DEF Token, At, Queued
    <3> QED
      BY <1>1, <3>3 DEF NothingGranted
  <2>3. CASE j # k
    BY <1>1, <2>1, <2>3, TokenStays DEF NothingGranted
  <2> QED
    BY <2>2, <2>3
<1>5. CASE Cancel(k)
  <2>1. job[k].state \in Active /\ job[k].state # "absent"
    BY <1>5 DEF Cancel, Active, Stages
  <2>2. PICK r : SetRows(k, CancelledAttempt(k), r)
                 /\ r \in {Cancelled(k), [job[k] EXCEPT !.state = "cancel-requested"]}
    BY <1>5 DEF Cancel
  <2>3. job[k] \in Job
    BY DEF IInv, RowsInv
  <2>4. r \in Job
    BY <2>2, <2>3, JobRowsWritten
  <2>5. CancelledAttempt(k) \in Attempt /\ CancelledAttempt(k).token \in {0, At(k).token}
    <3>1. CancelledAttempt(k) \in Attempt /\ At(k) \in Attempt
      BY <2>1, CancelledAttemptRow, JobIsAtAnAttempt DEF IInv
    <3> QED
      BY <3>1 DEF CancelledAttempt, Ended, Attempt
  <2> QED
    BY <1>1, <2>1, <2>2, <2>4, <2>5, TokenWritten DEF NothingGranted
<1>6. CASE LeaseLapses(k)
  <2> DEFINE a == [At(k) EXCEPT !.lapsed = TRUE]
  <2>1. job[k].state # "absent" /\ job[k] \in Job
    BY <1>6 DEF LeaseLapses, Stages, IInv, RowsInv
  <2>2. At(k) \in Attempt
    BY <2>1, JobIsAtAnAttempt DEF IInv
  <2>3. a \in Attempt /\ a.token = At(k).token
    BY <2>2 DEF Attempt
  <2>4. SetRows(k, a, job[k])
    BY <1>6 DEF SetRows, LeaseLapses, At, IInv, RowsInv
  <2> QED
    BY <1>1, <2>1, <2>3, <2>4, TokenWritten DEF NothingGranted
<1> QED
  BY <1>1, <1>2, <1>3, <1>4, <1>5, <1>6 DEF UserStep

LEMMA WithdrawalsGrantNothing ==
    ASSUME IInv, NEW j \in Jobs, NEW a \in Assets, WithdrawStep(a)
    PROVE  NothingGranted(j) /\ UNCHANGED worker
<1>1. UNCHANGED <<results, worker>>
  BY DEF WithdrawStep, WithdrawInserts, WithdrawSelects, WithdrawCommits, WithdrawRollsBack
<1>2. CASE ~WithdrawCommits(a)
  BY <1>1, <1>2, TokenStays DEF NothingGranted, WithdrawStep, WithdrawInserts,
    WithdrawSelects, WithdrawRollsBack
<1>3. CASE WithdrawCommits(a) /\ j \notin ToWithdraw(a)
  BY <1>1, <1>3, WithdrawnRows, TokenStays DEF NothingGranted
<1>4. CASE WithdrawCommits(a) /\ j \in ToWithdraw(a)
  <2> DEFINE s == attempts[j]
             x == IF job[j].state = "created" THEN Ended(j, "failed") ELSE CancelledAttempt(j)
             t == [s EXCEPT ![Len(s)] = x]
  <2>1. job[j].state \in Active /\ job[j].state # "absent"
    BY <1>4, WithdrawnRows DEF Active, Stages
  <2>2. At(j) \in Attempt /\ s \in Seq(Attempt) /\ Len(s) \in 1..Len(s)
        /\ CancelledAttempt(j) \in Attempt
    BY <2>1, JobIsAtAnAttempt, CancelledAttemptRow DEF IInv
  <2>3. x \in Attempt /\ x.token \in {0, At(j).token}
    <3>1. CancelledAttempt(j).token \in {0, At(j).token}
      BY <2>2 DEF CancelledAttempt, Ended, Attempt
    <3>2. Ended(j, "failed") \in Attempt
      BY <2>2, EndedRow
    <3>3. Ended(j, "failed").token = 0
      BY <3>2 DEF Ended, Attempt
    <3> QED
      BY <2>2, <3>1, <3>2, <3>3
  <2>4. attempts'[j] = t
    BY <1>4 DEF WithdrawCommits
  <2> HIDE DEF x
  <2>5. Len(t) = Len(s) /\ t[Len(s)] = x
    BY <2>2, <2>3, ExceptSeq
  <2>6. At(j)' = x /\ s # <<>>
    BY <2>2, <2>4, <2>5 DEF At
  <2> QED
    BY <1>1, <2>3, <2>6 DEF NothingGranted, Token
<1> QED
  BY <1>2, <1>3, <1>4

\* The step of a worker that grants nothing and reads no rights.
LEMMA WorkersGrantNothing ==
    ASSUME IInv, NEW j \in Jobs, SourceWithdrawn(j), \A v \in Workers : NoRights(v, j),
           NEW w \in Workers, WorkerStep(w)
    PROVE  NothingGranted(j) /\ \A v \in Workers : NoRights(v, j)'
<1>1. ~SourcesStillEligible(j)
  BY DEF SourceWithdrawn, SourcesStillEligible
<1>2. worker \in [Workers -> WorkerStates]
  BY DEF IInv, WorkerInv, WorkerStates
<1>3. ASSUME OnlyMoves(w), NoRights(w, j)'
      PROVE  \A v \in Workers : NoRights(v, j)'
  BY <1>3 DEF OnlyMoves, NoRights, LockedBy
<1>4. ASSUME Stop(w)
      PROVE  \A v \in Workers : NoRights(v, j)'
  <2>1. OnlyMoves(w) /\ worker'[w] = Idle
    BY <1>4, StopMoves DEF IInv
  <2> QED
    BY <1>3, <2>1 DEF NoRights, LockedBy, Idle
<1>5. ASSUME Executing(w), Goes(w, "failing")
      PROVE  \A v \in Workers : NoRights(v, j)'
  <2>1. OnlyMoves(w) /\ worker'[w].phase = "failing"
    BY <1>5, ExecutionsAre, PhaseMoves DEF IInv
  <2> QED
    BY <1>3, <2>1 DEF NoRights, LockedBy
<1>6. ASSUME UNCHANGED <<attempts, results>> PROVE NothingGranted(j)
  BY <1>6, TokenStays DEF NothingGranted
<1>7. ASSUME NEW k \in Jobs, At(k) \in Attempt, job[k] \in Job, job[k].state # "absent",
             NEW state \in {"cancelled", "succeeded", "failed"}, NEW r \in Job,
             SetRows(k, Ended(k, state), r)
      PROVE  Token(j)' \in {0, Token(j)}
  <2>1. Ended(k, state) \in Attempt
    BY <1>7, EndedRow
  <2>2. Ended(k, state).token = 0
    BY <1>7 DEF Ended, Attempt
  <2> QED
    BY <1>7, <2>1, <2>2, TokenWritten
<1>8. CASE ClaimRollsBack(w) \/ GiveUp(w) \/ Crash(w)
  BY <1>4, <1>6, <1>8 DEF ClaimRollsBack, GiveUp, Crash
<1>9. CASE \E k \in Jobs : ClaimReads(w, k)
  <2>1. PICK k \in Jobs : ClaimReads(w, k)
    BY <1>9
  <2> DEFINE e == [phase |-> "claiming", job |-> k, eligible |-> SourcesStillEligible(k)]
  <2>2. e \in WorkerStates
    BY DEF Claiming, SourcesStillEligible, WorkerStates
  <2>3. OnlyMoves(w) /\ worker'[w] = e
    BY <2>1, <2>2, WorkerMoves DEF IInv, ClaimReads
  <2>4. NoRights(w, j)'
    BY <1>1, <2>3 DEF NoRights, LockedBy
  <2> QED
    BY <1>3, <1>6, <2>1, <2>3, <2>4 DEF ClaimReads
<1>10. CASE ClaimCommits(w)
  <2>1. PICK k \in Jobs : k = worker[w].job
    BY <1>10, ClaimsAre DEF IInv, ClaimCommits, ClaimCancels, ClaimFails, ClaimLeases
  <2>2. worker[w].phase = "claiming" /\ UNCHANGED results
    BY <1>10 DEF ClaimCommits, ClaimCancels, ClaimFails, ClaimLeases
  <2>3. /\ job[k].state # "absent" /\ Candidate(k) /\ job[k] \in Job /\ At(k) \in Attempt
    BY <2>1, <2>2, ClaimsAre, JobIsAtAnAttempt DEF IInv
  <2>4. CASE ClaimCancels(w) \/ ClaimFails(w)
    <3>1. Stop(w) /\ \/ SetRows(k, Ended(k, "cancelled"), Cancelled(k))
                     \/ SetRows(k, Ended(k, "failed"), FailedJob(k, FALSE))
      BY <2>1, <2>4 DEF ClaimCancels, ClaimFails
    <3>2. Cancelled(k) \in Job /\ FailedJob(k, FALSE) \in Job
      BY <2>3, JobRowsWritten
    <3> QED
      BY <1>4, <1>7, <2>2, <2>3, <3>1, <3>2 DEF NothingGranted
  <2>5. CASE ClaimLeases(w)
    <3>1. k # j
      BY <2>1, <2>2, <2>5 DEF ClaimLeases, NoRights, LockedBy
    <3> DEFINE claim == At(k).claims + 1
               a == [state |-> "leased", stage |-> LeaseStage(k), claims |-> claim,
                     token |-> claim, lapsed |-> FALSE]
               r == [job[k] EXCEPT !.state = LeaseStage(k)]
               e == [phase |-> "preparing", job |-> k, attempt |-> Len(attempts[k]),
                     token |-> claim, stage |-> LeaseStage(k), result |-> "none",
                     eligible |-> FALSE, ended |-> "no"]
    <3>2. SetRows(k, a, r) /\ worker' = [worker EXCEPT ![w] = e]
      BY <2>1, <2>5 DEF ClaimLeases
    <3>3. attempts'[j] = attempts[j]
      BY <3>1, <3>2 DEF SetRows, IInv, RowsInv
    <3>4. \A v \in Workers : NoRights(v, j)'
      BY <1>2, <3>2 DEF NoRights, LockedBy
    <3> QED
      BY <2>2, <3>3, <3>4, TokenStays DEF NothingGranted
  <2> QED
    BY <1>10, <2>4, <2>5 DEF ClaimCommits
<1>11. CASE Prepare(w) \/ (\E result \in Published : Process(w, result)) \/ HeartbeatEnds(w)
  <2>1. Executing(w) /\ worker[w].phase # "committing" /\ UNCHANGED <<attempts, results>>
    BY <1>11 DEF Prepare, Process, HeartbeatEnds, Executing
  <2>2. worker[w] \in Execution
    BY <2>1, ExecutionsAre DEF IInv
  <2>3. /\ \A v \in Workers \ {w} : worker'[v] = worker[v]
        /\ worker'[w].phase \notin {"claiming", "committing"}
    <3>1. CASE HeartbeatEnds(w)
      <4>1. PICK ended \in {"cancel-requested", "lost"} :
               worker' = [worker EXCEPT ![w].ended = ended]
        BY <3>1 DEF HeartbeatEnds
      <4>2. worker'[w] = [worker[w] EXCEPT !.ended = ended]
            /\ \A v \in Workers \ {w} : worker'[v] = worker[v]
        BY <1>2, <4>1
      <4> QED
        BY <2>1, <2>2, <4>2 DEF Execution, Executing
    <3>2. CASE \E phase \in {"advancing", "processing"} : Goes(w, phase)
      BY <1>2, <2>2, <3>2, PhaseMoves DEF OnlyMoves, IInv
    <3>3. CASE \E result \in Published :
                 worker' = [worker EXCEPT ![w] = [@ EXCEPT !.phase = "publishing", !.result = result]]
      <4>1. PICK result \in Published :
               worker' = [worker EXCEPT ![w] = [@ EXCEPT !.phase = "publishing", !.result = result]]
        BY <3>3
      <4>2. worker'[w] = [worker[w] EXCEPT !.phase = "publishing", !.result = result]
            /\ \A v \in Workers \ {w} : worker'[v] = worker[v]
        BY <1>2, <4>1
      <4> QED
        BY <2>2, <4>2 DEF Execution
    <3> QED
      BY <1>11, <3>1, <3>2, <3>3 DEF Prepare, Process, Published
  <2>4. \A v \in Workers : NoRights(v, j)'
    BY <2>3 DEF NoRights, LockedBy
  <2> QED
    BY <1>6, <2>1, <2>4
<1>12. CASE Throws(w)
  BY <1>5, <1>6, <1>12 DEF Throws, Executing
<1>13. CASE PublishReads(w)
  <2>1. Executing(w) /\ UNCHANGED <<attempts, results>>
    BY <1>13 DEF PublishReads, Executing
  <2>2. worker[w] \in Execution
    BY <2>1, ExecutionsAre DEF IInv
  <2> DEFINE e == [worker[w] EXCEPT !.phase = "committing",
                                    !.eligible = SourcesStillEligible(worker[w].job)]
  <2>3. worker' = [worker EXCEPT ![w] = e]
    BY <1>2, <1>13 DEF PublishReads
  <2>4. e.job = worker[w].job /\ e.eligible = SourcesStillEligible(worker[w].job)
    BY <2>2 DEF Execution
  <2> HIDE DEF e
  <2>5. worker'[w] = e /\ \A v \in Workers \ {w} : worker'[v] = worker[v]
    BY <1>2, <2>3
  <2>6. \A v \in Workers : NoRights(v, j)'
    BY <1>1, <2>4, <2>5 DEF NoRights, LockedBy
  <2> QED
    BY <1>6, <2>1, <2>6
<1>14. CASE \E answered \in BOOLEAN : Advance(w, answered)
  <2>1. /\ Executing(w) /\ MayCommit(w) /\ UNCHANGED results
        /\ worker[w].phase \in {"advancing", "publishing"}
    BY <1>14 DEF Advance, Executing
  <2>2. PICK k \in Jobs : k = worker[w].job
    BY <2>1, ExecutionsAre DEF IInv
  <2>3. worker[w] \in Execution /\ At(k) = Row(w) /\ job[k].state # "absent"
    BY <2>1, <2>2, ExecutionsAre, CommitterIsAtItsAttempt DEF IInv
  <2>4. PICK stage \in Stages, phase \in {"failing", "processing", "advancing", "publishing"} :
           /\ SetRows(k, [At(k) EXCEPT !.stage = stage], [job[k] EXCEPT !.state = stage])
           /\ worker' = [worker EXCEPT ![w] = [@ EXCEPT !.stage = stage, !.phase = phase]]
    <3>1. NextStage(w) \in Stages
      BY DEF NextStage, Stages
    <3> QED
      BY <1>14, <2>1, <2>2, <3>1 DEF Advance
  <2> DEFINE a == [At(k) EXCEPT !.stage = stage]
             r == [job[k] EXCEPT !.state = stage]
             e == [worker[w] EXCEPT !.stage = stage, !.phase = phase]
  <2>5. a \in Attempt /\ a.token = worker[w].token /\ r \in Job
    BY <2>1, <2>2, <2>3, AdvancedRow
  <2>6. At(k).token = worker[w].token
    BY <2>1, <2>3 DEF MayCommit, Holds
  <2>7. NothingGranted(j)
    BY <2>1, <2>3, <2>4, <2>5, <2>6, TokenWritten DEF NothingGranted
  <2>8. e.phase = phase /\ worker' = [worker EXCEPT ![w] = e]
    BY <1>2, <2>3, <2>4 DEF Execution
  <2> HIDE DEF e
  <2>9. \A v \in Workers : NoRights(v, j)'
    BY <1>2, <2>8 DEF NoRights, LockedBy
  <2> QED
    BY <2>7, <2>9
<1>15. CASE \E answered \in BOOLEAN : PublishCommits(w, answered)
  <2>1. PICK answered \in BOOLEAN : PublishCommits(w, answered)
    BY <1>15
  <2>2. worker[w].phase = "committing" /\ Executing(w)
    BY <2>1 DEF PublishCommits, Executing
  <2>3. PICK k \in Jobs : k = worker[w].job
    BY <2>2, ExecutionsAre DEF IInv
  <2>4. /\ job[k].state # "absent" /\ job[k] \in Job /\ At(k) \in Attempt
        /\ worker[w].attempt \in 1..MaximumAttempts /\ worker[w].result \in Published
    BY <2>2, <2>3, ExecutionsAre, JobIsAtAnAttempt DEF IInv, ExecutionOK
  <2>5. \A v \in Workers : NoRights(v, j)'
    BY <1>4, <1>5, <2>1, <2>2 DEF PublishCommits
  <2>6. NothingGranted(j)
    <3>1. CASE /\ worker[w].eligible
               /\ results' = results \cup {[job |-> k, attempt |-> worker[w].attempt,
                                            status |-> worker[w].result]}
               /\ SetRows(k, Ended(k, "succeeded"), [job[k] EXCEPT !.state = worker[w].result,
                                                                   !.resultOf = worker[w].attempt])
      <4>1. k # j
        BY <2>2, <2>3, <3>1 DEF NoRights, LockedBy
      <4>2. attempts'[j] = attempts[j]
        BY <3>1, <4>1 DEF SetRows, IInv, RowsInv
      <4> QED
        BY <3>1, <4>1, <4>2, TokenStays DEF NothingGranted
    <3>2. CASE SetRows(k, Ended(k, "failed"), FailedJob(k, FALSE)) /\ UNCHANGED results
      <4>1. FailedJob(k, FALSE) \in Job
        BY <2>4, JobRowsWritten
      <4> QED
        BY <1>7, <2>4, <3>2, <4>1 DEF NothingGranted
    <3> QED
      BY <2>1, <2>3, <3>1, <3>2 DEF PublishCommits
  <2> QED
    BY <2>5, <2>6
<1>16. CASE \E retryable \in BOOLEAN : FailAttempt(w, retryable)
  <2>1. Executing(w) /\ Stop(w) /\ UNCHANGED results
    BY <1>16 DEF FailAttempt, Executing
  <2>2. PICK k \in Jobs : k = worker[w].job
    BY <2>1, ExecutionsAre DEF IInv
  <2>3. job[k].state # "absent" /\ job[k] \in Job /\ At(k) \in Attempt
    BY <2>1, <2>2, ExecutionsAre, JobIsAtAnAttempt DEF IInv
  <2>4. PICK b \in BOOLEAN : SetRows(k, Ended(k, "failed"), FailedJob(k, b))
    BY <1>16, <2>2 DEF FailAttempt
  <2>5. FailedJob(k, b) \in Job
    BY <2>3, JobRowsWritten
  <2> QED
    BY <1>4, <1>7, <2>1, <2>3, <2>4, <2>5 DEF NothingGranted
<1>17. CASE Acknowledge(w)
  <2>1. Executing(w) /\ Stop(w) /\ UNCHANGED results
    BY <1>17 DEF Acknowledge, Executing
  <2>2. PICK k \in Jobs : k = worker[w].job
    BY <2>1, ExecutionsAre DEF IInv
  <2>3. job[k].state # "absent" /\ job[k] \in Job /\ At(k) \in Attempt
    BY <2>1, <2>2, ExecutionsAre, JobIsAtAnAttempt DEF IInv
  <2>4. PICK r \in Job : SetRows(k, Ended(k, "cancelled"), r)
    BY <1>17, <2>2, <2>3, JobRowsWritten DEF Acknowledge
  <2> QED
    BY <1>4, <1>7, <2>1, <2>3, <2>4 DEF NothingGranted
<1> QED
  BY <1>8, <1>9, <1>10, <1>11, <1>12, <1>13, <1>14, <1>15, <1>16, <1>17
  DEF WorkerStep, RunnerStep

\* A source that is withdrawn grants its jobs nothing any more: RightsLost is
\* kept, no lease is given and no result published.
THEOREM RightsNeverReturn == Spec => RightsStayLost
<1> DEFINE Stay == \A j \in Jobs :
              RightsLost(j) =>
                 /\ RightsLost(j)'
                 /\ Token(j)' \in {0, Token(j)}
                 /\ \A r \in results' \ results : r.job # j
<1>1. IInv /\ [Next]_vars => [Stay]_vars
  <2> SUFFICES ASSUME IInv, Next, NEW j \in Jobs, RightsLost(j)
               PROVE  RightsLost(j)' /\ NothingGranted(j)
    BY DEF NothingGranted
  <2>1. SourceWithdrawn(j) /\ \A w \in Workers : NoRights(w, j)
    BY LostRights
  <2>2. SourceWithdrawn(j)'
    BY <2>1, WithdrawalsStay
  <2>3. NothingGranted(j) /\ \A w \in Workers : NoRights(w, j)'
    <3>1. CASE \E k \in Jobs : UserStep(k) \/ LeaseLapses(k)
      BY <2>1, <3>1, UsersGrantNothing DEF NoRights, LockedBy
    <3>2. CASE \E a \in Assets : WithdrawStep(a)
      BY <2>1, <3>2, WithdrawalsGrantNothing DEF NoRights, LockedBy
    <3>3. CASE \E w \in Workers : WorkerStep(w)
      BY <2>1, <3>3, WorkersGrantNothing
    <3> QED
      BY <3>1, <3>2, <3>3 DEF Next
  <2>4. RightsLost(j)'
    BY <2>2, <2>3 DEF RightsLost, NoRights, LockedBy
  <2> QED
    BY <2>3, <2>4
<1>2. Spec => [][Stay]_vars
  BY <1>1, Inductive, PTL DEF Spec
<1> QED
  BY <1>2 DEF RightsStayLost

-----------------------------------------------------------------------------
(* The triggers stay silent.                                               *)

\* What the triggers of the migration ask of an update of a job and of its
\* attempts.
LawfulJob(j) ==
    JobChanges(j) =>
        /\ <<job[j].state, job'[j].state>> \in JobTransitions
        /\ Len(attempts'[j]) =
              IF job'[j].state = "created" THEN Len(attempts[j]) + 1 ELSE Len(attempts[j])

LawfulAttempts(j) ==
    \A n \in 1..Len(attempts[j]) :
        AttemptChanges(j, n) =>
            <<attempts[j][n].state, attempts'[j][n].state>> \in AttemptTransitions

Lawful(j) == LawfulJob(j) /\ LawfulAttempts(j)

LEMMA UnwrittenIsLawful ==
    ASSUME NEW j \in Jobs, job'[j] = job[j], attempts'[j] = attempts[j]
    PROVE  Lawful(j)
  BY DEF Lawful, LawfulJob, LawfulAttempts, JobChanges, AttemptChanges

\* An attempt's row but for the lapse of the lease.
Unlapsed(a) == [a EXCEPT !.lapsed = FALSE]

LawfulRow(a, b) == Unlapsed(b) = Unlapsed(a) \/ <<a.state, b.state>> \in AttemptTransitions

LawfulWrite(p, r) ==
    \/ r = p
    \/ r.state # "created" /\ <<p.state, r.state>> \in JobTransitions

\* Rows written with a lawful transition, or only a lapse.
LEMMA WrittenIsLawful ==
    ASSUME IInv, NEW j \in Jobs, job[j].state # "absent",
           NEW a \in Attempt, NEW r \in Job, SetRows(j, a, r),
           LawfulWrite(job[j], r), LawfulRow(At(j), a)
    PROVE  \A k \in Jobs : Lawful(k)
<1>1. /\ job'[j] = r /\ Len(attempts'[j]) = Len(attempts[j])
      /\ attempts'[j][Len(attempts[j])] = a
      /\ \A n \in 1..(Len(attempts[j]) - 1) : attempts'[j][n] = attempts[j][n]
      /\ \A k \in Jobs \ {j} : job'[k] = job[k] /\ attempts'[k] = attempts[k]
  BY SetRowsEffect DEF IInv
<1>2. LawfulJob(j)
  BY <1>1 DEF LawfulJob, JobChanges, LawfulWrite
<1>3. LawfulAttempts(j)
  <2> SUFFICES ASSUME NEW n \in 1..Len(attempts[j]), AttemptChanges(j, n)
               PROVE  <<attempts[j][n].state, attempts'[j][n].state>> \in AttemptTransitions
    BY DEF LawfulAttempts
  <2>1. CASE n = Len(attempts[j])
    BY <1>1, <2>1 DEF AttemptChanges, At, Unlapsed, LawfulRow
  <2>2. CASE n # Len(attempts[j])
    <3>1. n \in 1..(Len(attempts[j]) - 1)
      BY <2>2 DEF IInv, RowsInv
    <3> QED
      BY <1>1, <3>1 DEF AttemptChanges
  <2> QED
    BY <2>1, <2>2
<1> QED
  BY <1>1, <1>2, <1>3, UnwrittenIsLawful DEF Lawful

\* The attempt of a cancelled or withdrawn job.
LEMMA CancelledAttemptIsLawful ==
    ASSUME IInv, NEW j \in Jobs, job[j].state \in Active
    PROVE  /\ <<At(j).state, CancelledAttempt(j).state>> \in AttemptTransitions
           /\ <<At(j).state, "failed">> \in AttemptTransitions
<1>1. /\ Agree(job[j], At(j))
      /\ CancelledAttempt(j).state = IF job[j].state = "created" THEN "cancelled" ELSE "cancel-requested"
  BY JobIsAtAnAttempt, CancelledAttemptRow DEF IInv, Active, Stages
<1>2. CASE job[j].state = "created"
  BY <1>1, <1>2 DEF Agree, AttemptTransitions
<1>3. CASE job[j].state # "created"
  <2>1. At(j).state = "leased"
    BY <1>1, <1>3 DEF Agree, Active
  <2> QED
    BY <1>1, <1>3, <2>1 DEF AttemptTransitions
<1> QED
  BY <1>2, <1>3

LEMMA UsersAreLawful ==
    ASSUME IInv, NEW k \in Jobs, UserStep(k) \/ LeaseLapses(k), NEW j \in Jobs
    PROVE  Lawful(j)
<1>1. CASE CreateReads(k) \/ RetryReads(k) \/ UserRollsBack(k)
  BY <1>1, UnwrittenIsLawful DEF CreateReads, RetryReads, UserRollsBack
<1>2. CASE CreateCommits(k)
  <2>1. /\ job[k].state = "absent" /\ Len(attempts[k]) = 0
        /\ \A i \in Jobs \ {k} : job'[i] = job[i] /\ attempts'[i] = attempts[i]
    BY <1>2 DEF CreateCommits, IInv, RowsInv, UserInv, UserOK, JobRows
  <2>2. Lawful(k)
    BY <2>1 DEF Lawful, LawfulJob, LawfulAttempts, JobChanges
  <2> QED
    BY <2>1, <2>2, UnwrittenIsLawful
<1>3. CASE RetryCommits(k)
  <2> DEFINE s == attempts[k]  t == Append(s, Queued)
             r == [job[k] EXCEPT !.state = "created", !.retryable = FALSE]
  <2>1. job[k].state \in {"cancelled", "failed"} /\ job[k] \in Job /\ s \in Seq(Attempt)
    BY <1>3 DEF RetryCommits, IInv, RowsInv, UserInv, UserOK, Retryable
  <2>2. r.state = "created"
    BY <2>1 DEF Job
  <2>3. Len(t) = Len(s) + 1 /\ \A n \in 1..Len(s) : t[n] = s[n]
    BY <2>1, AppendProperties
  <2> HIDE DEF r, t
  <2>4. /\ job'[k] = r /\ attempts'[k] = t
        /\ \A i \in Jobs \ {k} : job'[i] = job[i] /\ attempts'[i] = attempts[i]
    BY <1>3 DEF RetryCommits, IInv, RowsInv, r, t
  <2>5. LawfulJob(k)
    BY <2>1, <2>2, <2>3, <2>4 DEF LawfulJob, JobTransitions
  <2>6. LawfulAttempts(k)
    BY <2>3, <2>4 DEF LawfulAttempts, AttemptChanges
  <2> QED
    BY <2>4, <2>5, <2>6, UnwrittenIsLawful DEF Lawful
<1>4. CASE Cancel(k)
  <2>1. job[k].state \in Active /\ job[k].state # "absent" /\ job[k] \in Job
    BY <1>4 DEF Cancel, Active, Stages, IInv, RowsInv
  <2>2. CancelledAttempt(k) \in Attempt
        /\ <<At(k).state, CancelledAttempt(k).state>> \in AttemptTransitions
    BY <2>1, CancelledAttemptRow, CancelledAttemptIsLawful DEF IInv
  <2>3. CASE job[k].state = "created" /\ SetRows(k, CancelledAttempt(k), Cancelled(k))
    <3>1. Cancelled(k) \in Job /\ Cancelled(k).state = "cancelled"
      BY <2>1, JobRowsWritten
    <3>2. <<job[k].state, Cancelled(k).state>> \in JobTransitions
      BY <2>3, <3>1 DEF JobTransitions
    <3> QED
      BY <2>1, <2>2, <2>3, <3>1, <3>2, WrittenIsLawful DEF LawfulWrite, LawfulRow
  <2>4. CASE /\ job[k].state \in Stages
             /\ SetRows(k, CancelledAttempt(k), [job[k] EXCEPT !.state = "cancel-requested"])
    <3> DEFINE r == [job[k] EXCEPT !.state = "cancel-requested"]
    <3>1. r \in Job /\ r.state = "cancel-requested"
      BY <2>1, JobRowsWritten DEF Job
    <3>2. <<job[k].state, r.state>> \in JobTransitions
      BY <2>4, <3>1 DEF JobTransitions
    <3> QED
      BY <2>1, <2>2, <2>4, <3>1, <3>2, WrittenIsLawful DEF LawfulWrite, LawfulRow
  <2> QED
    BY <1>4, <2>3, <2>4 DEF Cancel
<1>5. CASE LeaseLapses(k)
  <2> DEFINE a == [At(k) EXCEPT !.lapsed = TRUE]
  <2>1. job[k].state # "absent" /\ job[k] \in Job
    BY <1>5 DEF LeaseLapses, Stages, IInv, RowsInv
  <2>2. At(k) \in Attempt
    BY <2>1, JobIsAtAnAttempt DEF IInv
  <2>3. a \in Attempt
    BY <2>2 DEF Attempt
  <2>4. Unlapsed(a) = Unlapsed(At(k))
    <3>1. /\ a.state = At(k).state /\ a.stage = At(k).stage /\ a.claims = At(k).claims
          /\ a.token = At(k).token
      BY <2>2 DEF Attempt
    <3> HIDE DEF a
    <3> QED
      BY <2>2, <2>3, <3>1 DEF Attempt, Unlapsed
  <2>5. SetRows(k, a, job[k])
    BY <1>5 DEF SetRows, LeaseLapses, At, IInv, RowsInv
  <2> HIDE DEF a
  <2>6. LawfulRow(At(k), a) /\ LawfulWrite(job[k], job[k])
    BY <2>4 DEF LawfulRow, LawfulWrite
  <2>7. \A i \in Jobs : Lawful(i)
    BY <2>1, <2>3, <2>5, <2>6, WrittenIsLawful
  <2> QED
    BY <2>7
<1> QED
  BY <1>1, <1>2, <1>3, <1>4, <1>5 DEF UserStep

LEMMA WithdrawalsAreLawful ==
    ASSUME IInv, NEW a \in Assets, WithdrawStep(a), NEW j \in Jobs
    PROVE  Lawful(j)
<1>1. CASE ~WithdrawCommits(a)
  BY <1>1, UnwrittenIsLawful DEF WithdrawStep, WithdrawInserts, WithdrawSelects, WithdrawRollsBack
<1>2. CASE WithdrawCommits(a) /\ j \notin ToWithdraw(a)
  BY <1>2, WithdrawnRows, UnwrittenIsLawful
<1>3. CASE WithdrawCommits(a) /\ j \in ToWithdraw(a)
  <2> DEFINE s == attempts[j]
             x == IF job[j].state = "created" THEN Ended(j, "failed") ELSE CancelledAttempt(j)
             r == IF job[j].state = "created" THEN FailedJob(j, FALSE)
                  ELSE [job[j] EXCEPT !.state = "cancel-requested"]
             t == [s EXCEPT ![Len(s)] = x]
  <2>1. job[j].state \in Active /\ job[j].state # "absent"
    BY <1>3, WithdrawnRows DEF Active, Stages
  <2>2. At(j) \in Attempt /\ s \in Seq(Attempt) /\ Len(s) \in 1..Len(s) /\ job[j] \in Job
        /\ CancelledAttempt(j) \in Attempt /\ Agree(job[j], At(j))
    BY <2>1, JobIsAtAnAttempt, CancelledAttemptRow DEF IInv
  <2>3. x \in Attempt /\ <<At(j).state, x.state>> \in AttemptTransitions
    BY <2>1, <2>2, EndedRow, CancelledAttemptIsLawful
  <2>4. r.state # "created" /\ <<job[j].state, r.state>> \in JobTransitions
    <3>1. CASE job[j].state = "created"
      <4>1. r = FailedJob(j, FALSE) /\ r.state = "failed"
        BY <2>2, <3>1, JobRowsWritten
      <4> HIDE DEF r
      <4>2. <<"created", "failed">> \in JobTransitions
        BY DEF JobTransitions
      <4> QED
        BY <3>1, <4>1, <4>2
    <3>2. CASE job[j].state # "created"
      <4>1. r.state = "cancel-requested"
        BY <2>2, <3>2 DEF Job
      <4> QED
        BY <2>1, <3>2, <4>1 DEF JobTransitions, Active
    <3> QED
      BY <3>1, <3>2
  <2>5. attempts'[j] = t /\ job'[j] = r
    BY <1>3 DEF WithdrawCommits
  <2> HIDE DEF x, r
  <2>6. Len(t) = Len(s) /\ \A n \in 1..Len(s) : t[n] = IF n = Len(s) THEN x ELSE s[n]
    BY <2>2, <2>3, ExceptSeq
  <2> HIDE DEF t
  <2>7. LawfulJob(j)
    BY <2>4, <2>5, <2>6 DEF LawfulJob
  <2>8. LawfulAttempts(j)
    <3> SUFFICES ASSUME NEW n \in 1..Len(s), AttemptChanges(j, n)
                 PROVE  <<s[n].state, attempts'[j][n].state>> \in AttemptTransitions
      BY DEF LawfulAttempts
    <3>1. CASE n = Len(s)
      BY <2>3, <2>5, <2>6, <3>1 DEF At
    <3>2. CASE n # Len(s)
      BY <2>5, <2>6, <3>2 DEF AttemptChanges
    <3> QED
      BY <3>1, <3>2
  <2> QED
    BY <2>7, <2>8 DEF Lawful
<1> QED
  BY <1>1, <1>2, <1>3

\* A job that is active may fail.
LEMMA FailingIsLawful ==
    ASSUME NEW j \in Jobs, job[j].state \in {"created"} \cup Stages,
           NEW r \in Job, r.state = "failed"
    PROVE  LawfulWrite(job[j], r)
<1>1. <<job[j].state, "failed">> \in JobTransitions
  <2>1. CASE job[j].state = "created"
    BY <2>1 DEF JobTransitions
  <2>2. CASE job[j].state \in Stages
    BY <2>2 DEF JobTransitions
  <2> QED
    BY <2>1, <2>2
<1> QED
  BY <1>1 DEF LawfulWrite

LEMMA WorkersAreLawful ==
    ASSUME IInv, NEW w \in Workers, WorkerStep(w), NEW j \in Jobs
    PROVE  Lawful(j)
<1>1. ASSUME UNCHANGED <<job, attempts>> PROVE Lawful(j)
  BY <1>1, UnwrittenIsLawful
<1>2. ASSUME NEW k \in Jobs, At(k) \in Attempt, job[k] \in Job, job[k].state # "absent",
             NEW state \in {"cancelled", "succeeded", "failed"}, NEW r \in Job,
             LawfulWrite(job[k], r), <<At(k).state, state>> \in AttemptTransitions,
             SetRows(k, Ended(k, state), r)
      PROVE  Lawful(j)
  <2>1. Ended(k, state) \in Attempt /\ Ended(k, state).state = state
    BY <1>2, EndedRow
  <2>2. LawfulRow(At(k), Ended(k, state))
    BY <1>2, <2>1 DEF LawfulRow
  <2> QED
    BY <1>2, <2>1, <2>2, WrittenIsLawful
<1>3. CASE (\E k \in Jobs : ClaimReads(w, k)) \/ ClaimRollsBack(w) \/ GiveUp(w) \/ Crash(w)
           \/ Prepare(w) \/ (\E result \in Published : Process(w, result)) \/ HeartbeatEnds(w)
           \/ PublishReads(w) \/ Throws(w)
  BY <1>1, <1>3 DEF ClaimReads, ClaimRollsBack, GiveUp, Crash, Prepare, Process, HeartbeatEnds,
    PublishReads, Throws
<1>4. CASE ClaimCommits(w)
  <2>1. PICK k \in Jobs : k = worker[w].job
    BY <1>4, ClaimsAre DEF IInv, ClaimCommits, ClaimCancels, ClaimFails, ClaimLeases
  <2>2. worker[w].phase = "claiming"
    BY <1>4 DEF ClaimCommits, ClaimCancels, ClaimFails, ClaimLeases
  <2>3. /\ job[k].state # "absent" /\ Candidate(k) /\ job[k] \in Job /\ At(k) \in Attempt
        /\ Agree(job[k], At(k))
    BY <2>1, <2>2, ClaimsAre, JobIsAtAnAttempt DEF IInv
  <2>4. CASE ClaimCancels(w)
    <3>1. SetRows(k, Ended(k, "cancelled"), Cancelled(k)) /\ job[k].state = "cancel-requested"
      BY <2>1, <2>4 DEF ClaimCancels
    <3>2. Cancelled(k) \in Job /\ Cancelled(k).state = "cancelled"
      BY <2>3, JobRowsWritten
    <3>3. LawfulWrite(job[k], Cancelled(k))
      BY <3>1, <3>2 DEF LawfulWrite, JobTransitions
    <3>4. <<At(k).state, "cancelled">> \in AttemptTransitions
      BY <2>3, <3>1 DEF Agree, AttemptTransitions
    <3> QED
      BY <1>2, <2>3, <3>1, <3>2, <3>3, <3>4
  <2>5. ASSUME job[k].state # "cancel-requested"
        PROVE  \/ job[k].state = "created" /\ At(k).state = "queued"
               \/ job[k].state \in Stages /\ At(k).state = "leased"
    BY <2>3, <2>5 DEF Candidate, CandidateQueued, Agree
  <2>6. CASE ClaimFails(w)
    <3>1. SetRows(k, Ended(k, "failed"), FailedJob(k, FALSE)) /\ job[k].state # "cancel-requested"
      BY <2>1, <2>6 DEF ClaimFails
    <3>2. FailedJob(k, FALSE) \in Job /\ FailedJob(k, FALSE).state = "failed"
      BY <2>3, JobRowsWritten
    <3>3. LawfulWrite(job[k], FailedJob(k, FALSE))
      BY <2>5, <3>1, <3>2, FailingIsLawful
    <3>4. <<At(k).state, "failed">> \in AttemptTransitions
      BY <2>5, <3>1 DEF AttemptTransitions
    <3> QED
      BY <1>2, <2>3, <3>1, <3>2, <3>3, <3>4
  <2>7. CASE ClaimLeases(w)
    <3> DEFINE a == [state |-> "leased", stage |-> LeaseStage(k), claims |-> At(k).claims + 1,
                     token |-> At(k).claims + 1, lapsed |-> FALSE]
               r == [job[k] EXCEPT !.state = LeaseStage(k)]
    <3>1. SetRows(k, a, r) /\ job[k].state # "cancel-requested"
      BY <2>1, <2>7 DEF ClaimLeases
    <3>2. a \in Attempt /\ r \in Job
      BY <2>3, <3>1, LeasedRow
    <3>3. LawfulRow(At(k), a)
      BY <2>5, <3>1 DEF LawfulRow, AttemptTransitions
    <3>4. LawfulWrite(job[k], r)
      <4>1. CASE job[k].state = "created"
        <5>1. r.state = "preparing"
          BY <2>3, <4>1 DEF LeaseStage, Job
        <5> HIDE DEF r
        <5> QED
          BY <4>1, <5>1 DEF LawfulWrite, JobTransitions
      <4>2. CASE job[k].state # "created"
        <5>1. r = job[k]
          BY <2>3, <4>2 DEF LeaseStage, Job
        <5> HIDE DEF r
        <5> QED
          BY <5>1 DEF LawfulWrite
      <4> QED
        BY <4>1, <4>2
    <3> HIDE DEF a, r
    <3> QED
      BY <2>3, <3>1, <3>2, <3>3, <3>4, WrittenIsLawful
  <2> QED
    BY <1>4, <2>4, <2>6, <2>7 DEF ClaimCommits
<1>5. CASE \E answered \in BOOLEAN : Advance(w, answered)
  <2>1. Executing(w) /\ MayCommit(w)
    BY <1>5 DEF Advance, Executing
  <2>2. PICK k \in Jobs : k = worker[w].job
    BY <2>1, ExecutionsAre DEF IInv
  <2>3. /\ At(k) = Row(w) /\ job[k].state = Row(w).stage /\ Row(w).state = "leased"
        /\ job[k].state # "absent"
    BY <2>1, <2>2, ExecutionsAre, CommitterIsAtItsAttempt DEF IInv
  <2>4. PICK stage \in Stages :
           /\ SetRows(k, [At(k) EXCEPT !.stage = stage], [job[k] EXCEPT !.state = stage])
           /\ <<Row(w).stage, stage>> \in Progression
    <3>1. NextStage(w) \in Stages
      BY DEF NextStage, Stages
    <3> QED
      BY <1>5, <2>2, <3>1 DEF Advance
  <2> DEFINE a == [At(k) EXCEPT !.stage = stage]
             r == [job[k] EXCEPT !.state = stage]
  <2>5. a \in Attempt /\ a.state = "leased" /\ r \in Job /\ r.state = stage
    BY <2>1, <2>2, <2>3, AdvancedRow
  <2>6. LawfulRow(At(k), a)
    BY <2>3, <2>5 DEF LawfulRow, AttemptTransitions
  <2>7. SetRows(k, a, r)
    BY <2>4
  <2> HIDE DEF a, r
  <2>8. LawfulWrite(job[k], r)
    BY <2>3, <2>4, <2>5 DEF LawfulWrite, JobTransitions, Stages
  <2> QED
    BY <2>3, <2>5, <2>6, <2>7, <2>8, WrittenIsLawful
<1>6. CASE \E answered \in BOOLEAN : PublishCommits(w, answered)
  <2>1. worker[w].phase = "committing" /\ Executing(w)
    BY <1>6 DEF PublishCommits, Executing
  <2>2. PICK k \in Jobs : k = worker[w].job
    BY <2>1, ExecutionsAre DEF IInv
  <2>3. /\ job[k].state # "absent" /\ job[k] \in Job /\ At(k) \in Attempt /\ Agree(job[k], At(k))
        /\ worker[w].attempt \in 1..MaximumAttempts /\ worker[w].result \in Published /\ CommitOK(w)
    BY <2>1, <2>2, ExecutionsAre, JobIsAtAnAttempt DEF IInv, ExecutionOK
  <2>4. At(k).state = "leased" /\ (worker[w].result = "completed" => job[k].state \in Geometry)
    BY <2>2, <2>3 DEF CommitOK, Row, At
  <2>5. job[k].state \in Stages
    BY <2>3, <2>4 DEF Agree, Job, Active, Over
  <2>6. CASE SetRows(k, Ended(k, "succeeded"), [job[k] EXCEPT !.state = worker[w].result,
                                                              !.resultOf = worker[w].attempt])
    <3> DEFINE r == [job[k] EXCEPT !.state = worker[w].result, !.resultOf = worker[w].attempt]
    <3>1. r \in Job /\ r.state = worker[w].result
      <4>1. worker[w].attempt \in 0..MaximumAttempts
        BY <2>3, ReconstructionAssumption
      <4> QED
        BY <2>3, <4>1 DEF Job
    <3> HIDE DEF r
    <3>2. LawfulWrite(job[k], r)
      <4>1. CASE worker[w].result = "completed"
        BY <2>4, <3>1, <4>1 DEF LawfulWrite, JobTransitions, Geometry
      <4>2. CASE worker[w].result = "abstained"
        BY <2>5, <3>1, <4>2 DEF LawfulWrite, JobTransitions
      <4> QED
        BY <2>3, <4>1, <4>2 DEF Published
    <3>3. <<At(k).state, "succeeded">> \in AttemptTransitions
      BY <2>4 DEF AttemptTransitions
    <3>4. SetRows(k, Ended(k, "succeeded"), r)
      BY <2>6 DEF r
    <3> QED
      BY <1>2, <2>3, <3>1, <3>2, <3>3, <3>4
  <2>7. CASE SetRows(k, Ended(k, "failed"), FailedJob(k, FALSE))
    <3>1. FailedJob(k, FALSE) \in Job /\ FailedJob(k, FALSE).state = "failed"
      BY <2>3, JobRowsWritten
    <3>2. LawfulWrite(job[k], FailedJob(k, FALSE))
      BY <2>5, <3>1, FailingIsLawful
    <3>3. <<At(k).state, "failed">> \in AttemptTransitions
      BY <2>4 DEF AttemptTransitions
    <3> QED
      BY <1>2, <2>3, <2>7, <3>1, <3>2, <3>3
  <2> QED
    BY <1>6, <2>2, <2>6, <2>7 DEF PublishCommits
<1>7. CASE \E retryable \in BOOLEAN : FailAttempt(w, retryable)
  <2>1. Executing(w) /\ MayCommit(w)
    BY <1>7 DEF FailAttempt, Executing
  <2>2. PICK k \in Jobs : k = worker[w].job
    BY <2>1, ExecutionsAre DEF IInv
  <2>3. job[k].state # "absent" /\ job[k] \in Job /\ At(k) \in Attempt
    BY <2>1, <2>2, ExecutionsAre, JobIsAtAnAttempt DEF IInv
  <2>4. At(k).state = "leased" /\ job[k].state \in Stages
    BY <2>1, <2>2, CommitterIsAtItsAttempt
  <2>5. PICK b \in BOOLEAN : SetRows(k, Ended(k, "failed"), FailedJob(k, b))
    BY <1>7, <2>2 DEF FailAttempt
  <2>6. FailedJob(k, b) \in Job /\ FailedJob(k, b).state = "failed"
    BY <2>3, JobRowsWritten
  <2>7. LawfulWrite(job[k], FailedJob(k, b))
    BY <2>4, <2>6, FailingIsLawful
  <2>8. <<At(k).state, "failed">> \in AttemptTransitions
    BY <2>4 DEF AttemptTransitions
  <2> QED
    BY <1>2, <2>3, <2>5, <2>6, <2>7, <2>8
<1>8. CASE Acknowledge(w)
  <2>1. Executing(w) /\ worker[w].phase = "failing" /\ ToAcknowledge(w)
    BY <1>8 DEF Acknowledge, Executing
  <2>2. PICK k \in Jobs : k = worker[w].job
    BY <2>1, ExecutionsAre DEF IInv
  <2>3. /\ job[k].state = "cancel-requested" /\ At(k).state = "cancel-requested"
        /\ job[k] \in Job /\ At(k) \in Attempt
    BY <2>1, <2>2, AcknowledgedJob
  <2>4. SetRows(k, Ended(k, "cancelled"), Cancelled(k))
    BY <1>8, <2>2, <2>3 DEF Acknowledge
  <2>5. Cancelled(k) \in Job /\ Cancelled(k).state = "cancelled"
    BY <2>3, JobRowsWritten
  <2>6. LawfulWrite(job[k], Cancelled(k))
    BY <2>3, <2>5 DEF LawfulWrite, JobTransitions
  <2>7. <<At(k).state, "cancelled">> \in AttemptTransitions
    BY <2>3 DEF AttemptTransitions
  <2> QED
    BY <1>2, <2>3, <2>4, <2>5, <2>6, <2>7
<1> QED
  BY <1>3, <1>4, <1>5, <1>6, <1>7, <1>8 DEF WorkerStep, RunnerStep

\* No update of a job or of an attempt raises the exception of its trigger.
THEOREM TriggersAreSilent == Spec => TriggersNeverRaise
<1> DEFINE Silent == \A j \in Jobs :
              /\ JobChanges(j) =>
                    /\ <<job[j].state, job'[j].state>> \in JobTransitions
                    /\ Len(attempts'[j]) =
                          IF job'[j].state = "created" THEN Len(attempts[j]) + 1
                          ELSE Len(attempts[j])
              /\ \A n \in 1..Len(attempts[j]) :
                    AttemptChanges(j, n) =>
                       <<attempts[j][n].state, attempts'[j][n].state>> \in AttemptTransitions
<1>1. IInv /\ [Next]_vars => [Silent]_vars
  <2> SUFFICES ASSUME IInv, Next, NEW j \in Jobs PROVE Lawful(j)
    BY DEF Lawful, LawfulJob, LawfulAttempts
  <2> QED
    BY UsersAreLawful, WithdrawalsAreLawful, WorkersAreLawful DEF Next
<1>2. Spec => [][Silent]_vars
  BY <1>1, Inductive, PTL DEF Spec
<1> QED
  BY <1>2 DEF TriggersNeverRaise
-----------------------------------------------------------------------------
(* The queue keeps the promises of LeasedJobs.                             *)

\* What LeasedJobs shows of a job is a row of four columns.
Statuses == {"absent", "waiting", "working", "stopping", "done", "cancelled", "failed"}

Shown == [status : Statuses, attempt : Nat, claims : Nat, output : Nat \X Nat]

LEMMA ShownColumns ==
    \A r \in Shown :
        r = [status |-> r.status, attempt |-> r.attempt, claims |-> r.claims, output |-> r.output]
  BY DEF Shown

\* The steps of LeasedJobs, column by column.
LEMMA QueueShown ==
    ASSUME NEW old \in Shown, old.status \in {"absent", "cancelled", "failed"},
           old.attempt < MaximumAttempts,
           NEW new, new = [status |-> "waiting", attempt |-> old.attempt + 1, claims |-> 0,
                           output |-> old.output]
    PROVE  Leased!Queue(old, new)
<1> DEFINE q == [old EXCEPT !.status = "waiting", !.attempt = @ + 1, !.claims = 0]
<1>0. old.attempt + 1 \in Nat /\ old.claims + 1 \in Nat
      /\ <<old.attempt, old.claims>> \in Nat \X Nat
  BY DEF Shown
<1>1. /\ q \in Shown /\ q.status = "waiting" /\ q.attempt = old.attempt + 1
      /\ q.claims = 0 /\ q.output = old.output
  BY <1>0 DEF Shown, Statuses
<1> HIDE DEF q
<1>2. new = q
  BY <1>1, ShownColumns
<1> QED
  BY <1>2 DEF Leased!Queue, q

LEMMA ClaimShown ==
    ASSUME NEW old \in Shown, old.status \in {"waiting", "working"},
           NEW new, new = [status |-> "working", attempt |-> old.attempt, claims |-> old.claims + 1,
                           output |-> old.output]
    PROVE  Leased!Claim(old, new)
<1> DEFINE q == [old EXCEPT !.status = "working", !.claims = @ + 1]
<1>0. old.attempt + 1 \in Nat /\ old.claims + 1 \in Nat
      /\ <<old.attempt, old.claims>> \in Nat \X Nat
  BY DEF Shown
<1>1. /\ q \in Shown /\ q.status = "working" /\ q.attempt = old.attempt
      /\ q.claims = old.claims + 1 /\ q.output = old.output
  BY <1>0 DEF Shown, Statuses
<1> HIDE DEF q
<1>2. new = q
  BY <1>1, ShownColumns
<1> QED
  BY <1>2 DEF Leased!Claim, q

LEMMA FinishShown ==
    ASSUME NEW old \in Shown, old.status = "working",
           NEW new, new = [status |-> "done", attempt |-> old.attempt, claims |-> old.claims,
                           output |-> <<old.attempt, old.claims>>]
    PROVE  Leased!Finish(old, new)
<1> DEFINE q == [old EXCEPT !.status = "done", !.output = <<old.attempt, old.claims>>]
<1>0. old.attempt + 1 \in Nat /\ old.claims + 1 \in Nat
      /\ <<old.attempt, old.claims>> \in Nat \X Nat
  BY DEF Shown
<1>1. /\ q \in Shown /\ q.status = "done" /\ q.attempt = old.attempt
      /\ q.claims = old.claims /\ q.output = <<old.attempt, old.claims>>
  BY <1>0 DEF Shown, Statuses
<1> HIDE DEF q
<1>2. new = q
  BY <1>1, ShownColumns
<1> QED
  BY <1>2 DEF Leased!Finish, q

LEMMA EndShown ==
    ASSUME NEW old \in Shown,
           NEW status \in Statuses, <<old.status, status>> \in Leased!Endings,
           NEW new, new = [status |-> status, attempt |-> old.attempt, claims |-> old.claims,
                           output |-> old.output]
    PROVE  Leased!End(old, new)
<1> DEFINE q == [old EXCEPT !.status = status]
<1>0. old.attempt + 1 \in Nat /\ old.claims + 1 \in Nat
      /\ <<old.attempt, old.claims>> \in Nat \X Nat
  BY DEF Shown
<1>1. /\ q \in Shown /\ q.status = status /\ q.attempt = old.attempt
      /\ q.claims = old.claims /\ q.output = old.output
  BY <1>0 DEF Shown, Statuses
<1> HIDE DEF q
<1>2. new = q
  BY <1>1, ShownColumns
<1> QED
  BY <1>2 DEF Leased!End, q

Shows(j) == View'[j] = View[j] \/ Leased!Step(View[j], View'[j])

\* What LeasedJobs shows of a job, by its rows.
ShownOf(state, rows, made) ==
    [status |-> Status(state), attempt |-> Len(rows),
     claims |-> IF rows = <<>> THEN 0 ELSE rows[Len(rows)].claims, output |-> Output(made, rows)]

LEMMA ViewIs ==
    ASSUME NEW j \in Jobs
    PROVE  /\ View[j] = ShownOf(job[j].state, attempts[j], ResultsOf(j))
           /\ View'[j] = ShownOf(job'[j].state, attempts'[j], ResultsOf(j)')
  BY DEF View, ShownOf, ResultsOf, At

\* Rows no step writes show nothing.
LEMMA UnwrittenShows ==
    ASSUME NEW j \in Jobs, job'[j] = job[j], attempts'[j] = attempts[j],
           ResultsOf(j)' = ResultsOf(j)
    PROVE  Shows(j)
  BY ViewIs DEF Shows

\* Only a published job has a result to show.
LEMMA NoResultNoOutput ==
    ASSUME IInv, NEW j \in Jobs, job[j].state \notin Published
    PROVE  ResultsOf(j) = {}
  BY DEF IInv, ResultsInv, ResultsOK

\* What a write that publishes nothing may do to the rows of a job.
ShownWrite(state, claims, newState, newClaims) ==
    \/ newState = state /\ newClaims = claims
    \/ state \in Stages /\ newState \in Stages /\ newClaims = claims
    \/ state \in {"created"} \cup Stages /\ newState \in Stages /\ newClaims = claims + 1
    \/ /\ newClaims = claims
       /\ \/ state = "created" /\ newState \in {"cancelled", "failed"}
          \/ state \in Stages /\ newState \in {"cancel-requested", "failed"}
          \/ state = "cancel-requested" /\ newState = "cancelled"

\* The rows of one job, the last of its attempts written.
LastRowWritten(j, a, r) ==
    /\ job'[j] = r
    /\ Len(attempts'[j]) = Len(attempts[j])
    /\ attempts'[j][Len(attempts[j])] = a

\* The statuses of the states.
LEMMA StatusOf ==
    /\ Status("absent") = "absent" /\ Status("created") = "waiting"
    /\ Status("cancel-requested") = "stopping"
    /\ Status("cancelled") = "cancelled" /\ Status("failed") = "failed"
    /\ \A s \in Stages : Status(s) = "working"
    /\ \A s \in Published : Status(s) = "done"
<1>1. \A s \in Stages : Status(s) = "working"
  BY DEF Status, Stages, Published
<1>2. \A s \in Published : Status(s) = "done"
  BY DEF Status, Stages, Published
<1> QED
  BY <1>1, <1>2 DEF Status, Stages, Published

\* Such a write is a step of LeasedJobs, or shows nothing.
LEMMA LastRowShows ==
    ASSUME IInv, NEW j \in Jobs, job[j].state \notin Published \cup {"absent"},
           NEW a \in Attempt, NEW r \in Job, LastRowWritten(j, a, r), results' = results,
           ShownWrite(job[j].state, At(j).claims, r.state, a.claims)
    PROVE  Shows(j)
<1> DEFINE n == Len(attempts[j])
           old == [status |-> Status(job[j].state), attempt |-> n,
                   claims |-> At(j).claims, output |-> <<0, 0>>]
           new == [status |-> Status(r.state), attempt |-> n,
                   claims |-> a.claims, output |-> <<0, 0>>]
<1>1. /\ n \in Nat /\ n # 0 /\ attempts[j] # <<>>
      /\ job[j] \in Job /\ At(j) \in Attempt /\ At(j).claims \in Nat
  BY JobIsAtAnAttempt, RowNumbers DEF IInv
<1>2. ResultsOf(j) = {} /\ ResultsOf(j)' = {}
  BY NoResultNoOutput DEF ResultsOf
<1>3. View[j] = old
  BY <1>1, <1>2, ViewIs DEF ShownOf, Output, At
<1>0. old \in Shown /\ old.status = Status(job[j].state) /\ old.attempt = n
      /\ old.claims = At(j).claims /\ old.output = <<0, 0>>
  <2>1. Status(job[j].state) \in Statuses
    BY <1>1, StatusOf DEF Job, Active, Statuses
  <2> QED
    BY <1>1, <2>1 DEF Shown
<1>4. View'[j] = new
  <2>1. Len(attempts'[j]) = n /\ attempts'[j] # <<>> /\ attempts'[j][n] = a /\ job'[j] = r
    BY <1>1 DEF LastRowWritten
  <2> QED
    BY <1>2, <2>1, ViewIs DEF ShownOf, Output
<1>5. CASE /\ a.claims = At(j).claims
           /\ \/ r.state = job[j].state
              \/ job[j].state \in Stages /\ r.state \in Stages
  BY <1>3, <1>4, <1>5, StatusOf DEF Shows
<1>6. CASE /\ job[j].state \in {"created"} \cup Stages /\ r.state \in Stages
           /\ a.claims = At(j).claims + 1
  <2>1. Status(job[j].state) \in {"waiting", "working"} /\ Status(r.state) = "working"
    BY <1>6, StatusOf
  <2>2. Leased!Claim(old, new)
    <3>1. new = [status |-> "working", attempt |-> n, claims |-> At(j).claims + 1,
                 output |-> <<0, 0>>]
      BY <1>6, <2>1
    <3> HIDE DEF old, new
    <3> QED
      BY <1>0, <2>1, <3>1, ClaimShown
  <2> QED
    BY <1>3, <1>4, <2>2 DEF Shows, Leased!Step
<1>7. CASE /\ a.claims = At(j).claims
           /\ \/ job[j].state = "created" /\ r.state \in {"cancelled", "failed"}
              \/ job[j].state \in Stages /\ r.state \in {"cancel-requested", "failed"}
              \/ job[j].state = "cancel-requested" /\ r.state = "cancelled"
  <2>1. <<Status(job[j].state), Status(r.state)>> \in Leased!Endings
    BY <1>7, StatusOf DEF Leased!Endings
  <2>2. Leased!End(old, new)
    BY <1>7, <2>1 DEF Leased!End
  <2> QED
    BY <1>3, <1>4, <2>2 DEF Shows, Leased!Step
<1> QED
  BY <1>5, <1>6, <1>7 DEF ShownWrite

\* The same of SetRows, which leaves all other jobs.
LEMMA WrittenShows ==
    ASSUME IInv, NEW j \in Jobs, job[j].state \notin Published \cup {"absent"},
           NEW a \in Attempt, NEW r \in Job, SetRows(j, a, r), results' = results,
           ShownWrite(job[j].state, At(j).claims, r.state, a.claims)
    PROVE  \A k \in Jobs : Shows(k)
<1>1. LastRowWritten(j, a, r)
  BY SetRowsEffect DEF IInv, LastRowWritten
<1>2. Shows(j)
  BY <1>1, LastRowShows
<1>3. ASSUME NEW k \in Jobs \ {j} PROVE Shows(k)
  BY SetRowsEffect, UnwrittenShows DEF IInv, ResultsOf
<1> QED
  BY <1>2, <1>3

\* An attempt that ends, or is to end, keeps its claims.
LEMMA EndedClaims ==
    ASSUME NEW j \in Jobs, At(j) \in Attempt,
           NEW state \in {"cancelled", "succeeded", "failed", "cancel-requested"}
    PROVE  /\ Ended(j, state).claims = At(j).claims
           /\ CancelledAttempt(j).claims = At(j).claims
  BY DEF Ended, CancelledAttempt, Attempt

\* A first attempt, and one more, as LeasedJobs shows them.
LEMMA QueuedShows ==
    ASSUME NEW j \in Jobs, NEW status \in {"absent", "cancelled", "failed"},
           NEW n \in Nat, n < MaximumAttempts, NEW claims \in Nat,
           View[j] = [status |-> status, attempt |-> n, claims |-> claims, output |-> <<0, 0>>],
           View'[j] = [status |-> "waiting", attempt |-> n + 1, claims |-> 0, output |-> <<0, 0>>]
    PROVE  Shows(j)
<1> DEFINE old == View[j]  new == View'[j]
<1>1. /\ old \in Shown /\ old.status = status /\ old.attempt = n /\ old.claims = claims
      /\ old.output = <<0, 0>>
  BY DEF Shown, Statuses
<1>2. new = [status |-> "waiting", attempt |-> n + 1, claims |-> 0, output |-> <<0, 0>>]
  OBVIOUS
<1> HIDE DEF old, new
<1>3. Leased!Queue(old, new)
  BY <1>1, <1>2, QueueShown
<1> QED
  BY <1>3 DEF Shows, Leased!Step, old, new

LEMMA UsersShow ==
    ASSUME IInv, NEW k \in Jobs, UserStep(k) \/ LeaseLapses(k), NEW j \in Jobs
    PROVE  Shows(j)
<1>0. ResultsOf(j)' = ResultsOf(j) /\ results' = results
  BY DEF UserStep, LeaseLapses, CreateReads, CreateCommits, Cancel, RetryReads, RetryCommits,
         UserRollsBack, ResultsOf
<1>1. CASE CreateReads(k) \/ RetryReads(k) \/ UserRollsBack(k)
  BY <1>0, <1>1, UnwrittenShows DEF CreateReads, RetryReads, UserRollsBack
<1>2. CASE CreateCommits(k)
  <2>1. /\ job[k].state = "absent" /\ Len(attempts[k]) = 0 /\ attempts[k] = <<>>
        /\ \A i \in Jobs \ {k} : job'[i] = job[i] /\ attempts'[i] = attempts[i]
        /\ job'[k].state = "created" /\ attempts'[k] = <<Queued>>
    BY <1>2 DEF CreateCommits, IInv, RowsInv, UserInv, UserOK, JobRows, Job
  <2>2. ResultsOf(k) = {} /\ ResultsOf(k)' = {}
    BY <1>0, <2>1, NoResultNoOutput DEF Published, ResultsOf
  <2>3. View[k] = [status |-> "absent", attempt |-> 0, claims |-> 0, output |-> <<0, 0>>]
    <3>1. Output({}, <<>>) = <<0, 0>> /\ Len(attempts[k]) = 0
      BY <2>1 DEF Output
    <3>2. View[k] = ShownOf("absent", <<>>, {})
      BY <2>1, <2>2, ViewIs
    <3> QED
      BY <2>1, <3>1, <3>2, StatusOf DEF ShownOf
  <2>4. Len(<<Queued>>) = 1 /\ <<Queued>>[1] = Queued /\ Queued.claims = 0 /\ <<Queued>> # <<>>
    BY DEF Queued
  <2>5. View'[k] = [status |-> "waiting", attempt |-> 0 + 1, claims |-> 0, output |-> <<0, 0>>]
    <3>1. Output({}, <<Queued>>) = <<0, 0>>
      BY DEF Output
    <3>2. View'[k] = ShownOf("created", <<Queued>>, {})
      BY <2>1, <2>2, ViewIs
    <3> QED
      BY <2>4, <3>1, <3>2, StatusOf DEF ShownOf
  <2>6. 0 \in Nat /\ 0 < MaximumAttempts
    BY ReconstructionAssumption
  <2>7. Shows(k)
    BY <2>3, <2>5, <2>6, QueuedShows
  <2> QED
    BY <1>0, <2>1, <2>7, UnwrittenShows
<1>3. CASE RetryCommits(k)
  <2> DEFINE s == attempts[k]  t == Append(s, Queued)
             r == [job[k] EXCEPT !.state = "created", !.retryable = FALSE]
  <2>1. job[k].state \in {"cancelled", "failed"} /\ job[k] \in Job /\ s \in Seq(Attempt)
        /\ Len(s) < MaximumAttempts
    BY <1>3 DEF RetryCommits, IInv, RowsInv, UserInv, UserOK, Retryable
  <2>2. r.state = "created"
    BY <2>1 DEF Job
  <2>3. Len(t) = Len(s) + 1 /\ t[Len(t)] = Queued /\ t # <<>> /\ Len(s) \in Nat
    BY <2>1, AppendProperties
  <2>4. /\ job'[k] = r /\ attempts'[k] = t
        /\ \A i \in Jobs \ {k} : job'[i] = job[i] /\ attempts'[i] = attempts[i]
    BY <1>3 DEF RetryCommits, IInv, RowsInv
  <2> HIDE DEF r, t
  <2>5. ResultsOf(k) = {} /\ ResultsOf(k)' = {}
    BY <1>0, <2>1, NoResultNoOutput DEF Published, ResultsOf
  <2> DEFINE claims == IF s = <<>> THEN 0 ELSE s[Len(s)].claims
  <2>6. claims \in Nat
    <3>1. ASSUME s # <<>> PROVE s[Len(s)] \in Attempt
      BY <2>1, <3>1, ElementOfSeq
    <3> QED
      BY <3>1, RowNumbers
  <2>7. View[k] = [status |-> job[k].state, attempt |-> Len(s), claims |-> claims,
                   output |-> <<0, 0>>]
    BY <2>1, <2>5, ViewIs, StatusOf DEF ShownOf, Output
  <2>8. Queued.claims = 0
    BY DEF Queued
  <2>9. View'[k] = [status |-> "waiting", attempt |-> Len(s) + 1, claims |-> 0,
                    output |-> <<0, 0>>]
    <3>1. Output({}, t) = <<0, 0>>
      BY DEF Output
    <3>2. View'[k] = ShownOf("created", t, {})
      BY <2>2, <2>4, <2>5, ViewIs
    <3> QED
      BY <2>3, <2>8, <3>1, <3>2, StatusOf DEF ShownOf
  <2> HIDE DEF claims
  <2>10. PICK n \in Nat : n = Len(s)
    BY <2>3
  <2>11. Shows(k)
    BY <2>1, <2>6, <2>7, <2>9, <2>10, QueuedShows
  <2> QED
    BY <1>0, <2>4, <2>11, UnwrittenShows
<1>4. CASE Cancel(k)
  <2>1. job[k].state \in Active /\ job[k].state \notin Published \cup {"absent"} /\ job[k] \in Job
    BY <1>4 DEF Cancel, Active, Stages, Published, IInv, RowsInv
  <2>2. CancelledAttempt(k) \in Attempt /\ At(k) \in Attempt
    BY <2>1, CancelledAttemptRow, JobIsAtAnAttempt DEF IInv
  <2>3. CancelledAttempt(k).claims = At(k).claims
    BY <2>2, EndedClaims
  <2>4. CASE job[k].state = "created" /\ SetRows(k, CancelledAttempt(k), Cancelled(k))
    <3>1. Cancelled(k) \in Job /\ Cancelled(k).state = "cancelled"
      BY <2>1, JobRowsWritten
    <3>2. ShownWrite(job[k].state, At(k).claims, Cancelled(k).state, CancelledAttempt(k).claims)
      BY <2>3, <2>4, <3>1 DEF ShownWrite
    <3> QED
      BY <1>0, <2>1, <2>2, <2>4, <3>1, <3>2, WrittenShows
  <2>5. CASE /\ job[k].state \in Stages
             /\ SetRows(k, CancelledAttempt(k), [job[k] EXCEPT !.state = "cancel-requested"])
    <3> DEFINE r == [job[k] EXCEPT !.state = "cancel-requested"]
    <3>1. r \in Job /\ r.state = "cancel-requested"
      BY <2>1, JobRowsWritten DEF Job
    <3>2. SetRows(k, CancelledAttempt(k), r)
      BY <2>5
    <3> HIDE DEF r
    <3>3. ShownWrite(job[k].state, At(k).claims, r.state, CancelledAttempt(k).claims)
      BY <2>3, <2>5, <3>1 DEF ShownWrite
    <3> QED
      BY <1>0, <2>1, <2>2, <3>1, <3>2, <3>3, WrittenShows
  <2> QED
    BY <1>4, <2>4, <2>5 DEF Cancel
<1>5. CASE LeaseLapses(k)
  <2> DEFINE a == [At(k) EXCEPT !.lapsed = TRUE]
  <2>1. job[k].state \notin Published \cup {"absent"} /\ job[k] \in Job
    BY <1>5 DEF LeaseLapses, Stages, Published, IInv, RowsInv
  <2>2. At(k) \in Attempt
    BY <2>1, JobIsAtAnAttempt DEF IInv
  <2>3. a \in Attempt /\ a.claims = At(k).claims
    BY <2>2 DEF Attempt
  <2>4. SetRows(k, a, job[k])
    BY <1>5 DEF SetRows, LeaseLapses, At, IInv, RowsInv
  <2> HIDE DEF a
  <2>5. ShownWrite(job[k].state, At(k).claims, job[k].state, a.claims)
    BY <2>3 DEF ShownWrite
  <2> QED
    BY <1>0, <2>1, <2>3, <2>4, <2>5, WrittenShows
<1> QED
  BY <1>1, <1>2, <1>3, <1>4, <1>5 DEF UserStep

LEMMA WithdrawalsShow ==
    ASSUME IInv, NEW a \in Assets, WithdrawStep(a), NEW j \in Jobs
    PROVE  Shows(j)
<1>0. ResultsOf(j)' = ResultsOf(j) /\ results' = results
  BY DEF WithdrawStep, WithdrawInserts, WithdrawSelects, WithdrawCommits, WithdrawRollsBack,
         ResultsOf
<1>1. CASE ~WithdrawCommits(a)
  BY <1>0, <1>1, UnwrittenShows
  DEF WithdrawStep, WithdrawInserts, WithdrawSelects, WithdrawRollsBack
<1>2. CASE WithdrawCommits(a) /\ j \notin ToWithdraw(a)
  BY <1>0, <1>2, WithdrawnRows, UnwrittenShows
<1>3. CASE WithdrawCommits(a) /\ j \in ToWithdraw(a)
  <2> DEFINE s == attempts[j]
             x == IF job[j].state = "created" THEN Ended(j, "failed") ELSE CancelledAttempt(j)
             r == IF job[j].state = "created" THEN FailedJob(j, FALSE)
                  ELSE [job[j] EXCEPT !.state = "cancel-requested"]
             t == [s EXCEPT ![Len(s)] = x]
  <2>1. job[j].state \in Active /\ job[j].state \notin Published \cup {"absent"}
    BY <1>3, WithdrawnRows DEF Active, Stages, Published
  <2>2. At(j) \in Attempt /\ s \in Seq(Attempt) /\ Len(s) \in 1..Len(s) /\ job[j] \in Job
        /\ CancelledAttempt(j) \in Attempt
    BY <2>1, JobIsAtAnAttempt, CancelledAttemptRow DEF IInv
  <2>3. x \in Attempt /\ x.claims = At(j).claims
    BY <2>2, EndedRow, EndedClaims
  <2>4. /\ r \in Job
        /\ r.state = IF job[j].state = "created" THEN "failed" ELSE "cancel-requested"
    BY <2>2, JobRowsWritten DEF Job
  <2>5. attempts'[j] = t /\ job'[j] = r
    BY <1>3 DEF WithdrawCommits
  <2> HIDE DEF x, r
  <2>6. Len(t) = Len(s) /\ t[Len(s)] = x
    BY <2>2, <2>3, ExceptSeq
  <2> HIDE DEF t
  <2>7. LastRowWritten(j, x, r)
    BY <2>5, <2>6 DEF LastRowWritten
  <2>8. ShownWrite(job[j].state, At(j).claims, r.state, x.claims)
    BY <2>1, <2>3, <2>4 DEF ShownWrite, Active
  <2> QED
    BY <1>0, <2>1, <2>3, <2>4, <2>7, <2>8, LastRowShows
<1> QED
  BY <1>1, <1>2, <1>3

\* What an execution publishes for the attempt at work is its last claim's.
LEMMA PublicationShows ==
    ASSUME IInv, NEW k \in Jobs, job[k].state \in Stages,
           NEW a \in Attempt, a.claims = At(k).claims,
           NEW r \in Job, r.state \in Published, SetRows(k, a, r),
           NEW x, x.job = k, x.attempt = Len(attempts[k]), results' = results \cup {x}
    PROVE  \A j \in Jobs : Shows(j)
<1> DEFINE n == Len(attempts[k])
<1>1. /\ n \in Nat /\ n # 0 /\ attempts[k] # <<>> /\ At(k).claims \in Nat
      /\ job[k].state \notin Published \cup {"absent"}
  <2>1. job[k].state \notin Published \cup {"absent"}
    BY DEF Stages, Published
  <2> QED
    BY <2>1, JobIsAtAnAttempt, RowNumbers DEF IInv
<1>2. LastRowWritten(k, a, r)
  BY <1>1, SetRowsEffect DEF IInv, LastRowWritten
<1>3. ResultsOf(k) = {}
  BY <1>1, NoResultNoOutput
<1>4. ResultsOf(k)' = {x}
  BY <1>3 DEF ResultsOf
<1>5. View[k] = [status |-> "working", attempt |-> n, claims |-> At(k).claims, output |-> <<0, 0>>]
  BY <1>1, <1>3, ViewIs, StatusOf DEF ShownOf, Output, At
<1>6. View'[k] = [status |-> "done", attempt |-> n, claims |-> At(k).claims,
                  output |-> <<n, At(k).claims>>]
  <2>1. /\ job'[k] = r /\ Len(attempts'[k]) = n /\ attempts'[k] # <<>>
        /\ attempts'[k][n] = a /\ a.claims = At(k).claims
    BY <1>1, <1>2 DEF LastRowWritten
  <2>2. Output({x}, attempts'[k]) = <<n, At(k).claims>>
    <3>1. (CHOOSE y \in {x} : TRUE) = x /\ {x} # {}
      OBVIOUS
    <3> QED
      BY <2>1, <3>1 DEF Output
  <2>3. View'[k] = ShownOf(r.state, attempts'[k], {x})
    BY <1>4, <2>1, ViewIs
  <2> QED
    BY <2>1, <2>2, <2>3, StatusOf DEF ShownOf
<1>7. Shows(k)
  <2> DEFINE old == View[k]  new == View'[k]
  <2>1. /\ old \in Shown /\ old.status = "working" /\ old.attempt = n
        /\ old.claims = At(k).claims
    BY <1>1, <1>5 DEF Shown, Statuses
  <2>2. new = [status |-> "done", attempt |-> n, claims |-> At(k).claims,
               output |-> <<n, At(k).claims>>]
    BY <1>6
  <2> HIDE DEF old, new
  <2>3. Leased!Finish(old, new)
    BY <2>1, <2>2, FinishShown
  <2> QED
    BY <2>3 DEF Shows, Leased!Step, old, new
<1>8. ASSUME NEW j \in Jobs \ {k} PROVE Shows(j)
  <2>1. job'[j] = job[j] /\ attempts'[j] = attempts[j]
    BY <1>1, SetRowsEffect DEF IInv
  <2>2. ResultsOf(j)' = ResultsOf(j)
    BY DEF ResultsOf
  <2> QED
    BY <2>1, <2>2, UnwrittenShows
<1> QED
  BY <1>7, <1>8

LEMMA WorkersShow ==
    ASSUME IInv, NEW w \in Workers, WorkerStep(w), NEW j \in Jobs
    PROVE  Shows(j)
<1>1. ASSUME job' = job, attempts' = attempts, results' = results PROVE Shows(j)
  BY <1>1, UnwrittenShows DEF ResultsOf
<1>2. ASSUME NEW k \in Jobs, At(k) \in Attempt, job[k].state \notin Published \cup {"absent"},
             NEW state \in {"cancelled", "failed"}, NEW r \in Job, r.state = state,
             job[k].state \in Stages \/ <<job[k].state, state>> \in
                {<<"created", "failed">>, <<"cancel-requested", "cancelled">>},
             job[k].state \in Stages => state = "failed",
             SetRows(k, Ended(k, state), r), results' = results
      PROVE  Shows(j)
  <2>1. Ended(k, state) \in Attempt /\ Ended(k, state).claims = At(k).claims
    BY <1>2, EndedRow, EndedClaims
  <2>2. ShownWrite(job[k].state, At(k).claims, r.state, Ended(k, state).claims)
    BY <1>2, <2>1 DEF ShownWrite
  <2> QED
    BY <1>2, <2>1, <2>2, WrittenShows
<1>3. CASE (\E k \in Jobs : ClaimReads(w, k)) \/ ClaimRollsBack(w) \/ GiveUp(w) \/ Crash(w)
           \/ Prepare(w) \/ (\E result \in Published : Process(w, result)) \/ HeartbeatEnds(w)
           \/ PublishReads(w) \/ Throws(w)
  <2>1. job' = job /\ attempts' = attempts /\ results' = results
    <3>1. CASE (\E k \in Jobs : ClaimReads(w, k)) \/ ClaimRollsBack(w) \/ GiveUp(w) \/ Crash(w)
      BY <3>1 DEF ClaimReads, ClaimRollsBack, GiveUp, Crash
    <3>2. CASE Prepare(w) \/ PublishReads(w)
      BY <3>2 DEF Prepare, PublishReads
    <3>3. ASSUME NEW result \in Published, Process(w, result)
          PROVE  job' = job /\ attempts' = attempts /\ results' = results
      BY <3>3 DEF Process
    <3>4. CASE HeartbeatEnds(w) \/ Throws(w)
      BY <3>4 DEF HeartbeatEnds, Throws
    <3> QED
      BY <1>3, <3>1, <3>2, <3>3, <3>4
  <2> QED
    BY <1>1, <2>1
<1>4. CASE ClaimCommits(w)
  <2>1. PICK k \in Jobs : k = worker[w].job
    BY <1>4, ClaimsAre DEF IInv, ClaimCommits, ClaimCancels, ClaimFails, ClaimLeases
  <2>2. worker[w].phase = "claiming" /\ results' = results
    BY <1>4 DEF ClaimCommits, ClaimCancels, ClaimFails, ClaimLeases
  <2>3. /\ job[k].state # "absent" /\ Candidate(k) /\ job[k] \in Job /\ At(k) \in Attempt
        /\ Agree(job[k], At(k))
    BY <2>1, <2>2, ClaimsAre, JobIsAtAnAttempt DEF IInv
  <2>4. job[k].state \in {"created", "cancel-requested"} \cup Stages
        /\ job[k].state \notin Published \cup {"absent"}
    <3>1. job[k].state \in {"created", "cancel-requested"} \cup Stages
      BY <2>3 DEF Candidate, CandidateQueued
    <3> QED
      BY <3>1 DEF Stages, Published
  <2>5. CASE ClaimCancels(w)
    <3>1. SetRows(k, Ended(k, "cancelled"), Cancelled(k)) /\ job[k].state = "cancel-requested"
      BY <2>1, <2>5 DEF ClaimCancels
    <3>2. Cancelled(k) \in Job /\ Cancelled(k).state = "cancelled"
      BY <2>3, JobRowsWritten
    <3>3. job[k].state \notin Stages
      BY <3>1 DEF Stages
    <3> QED
      BY <1>2, <2>2, <2>3, <2>4, <3>1, <3>2, <3>3
  <2>6. CASE ClaimFails(w)
    <3>1. SetRows(k, Ended(k, "failed"), FailedJob(k, FALSE)) /\ job[k].state # "cancel-requested"
      BY <2>1, <2>6 DEF ClaimFails
    <3>2. FailedJob(k, FALSE) \in Job /\ FailedJob(k, FALSE).state = "failed"
      BY <2>3, JobRowsWritten
    <3> QED
      BY <1>2, <2>2, <2>3, <2>4, <3>1, <3>2
  <2>7. CASE ClaimLeases(w)
    <3> DEFINE a == [state |-> "leased", stage |-> LeaseStage(k), claims |-> At(k).claims + 1,
                     token |-> At(k).claims + 1, lapsed |-> FALSE]
               r == [job[k] EXCEPT !.state = LeaseStage(k)]
    <3>1. SetRows(k, a, r) /\ job[k].state # "cancel-requested"
      BY <2>1, <2>7 DEF ClaimLeases
    <3>2. a \in Attempt /\ r \in Job /\ r.state \in Stages
      BY <2>3, <3>1, LeasedRow
    <3>3. a.claims = At(k).claims + 1
      OBVIOUS
    <3> HIDE DEF a, r
    <3>4. ShownWrite(job[k].state, At(k).claims, r.state, a.claims)
      BY <2>4, <3>1, <3>2, <3>3 DEF ShownWrite
    <3> QED
      BY <2>2, <2>4, <3>1, <3>2, <3>4, WrittenShows
  <2> QED
    BY <1>4, <2>5, <2>6, <2>7 DEF ClaimCommits
<1>5. CASE \E answered \in BOOLEAN : Advance(w, answered)
  <2>1. Executing(w) /\ MayCommit(w) /\ results' = results
    BY <1>5 DEF Advance, Executing
  <2>2. PICK k \in Jobs : k = worker[w].job
    BY <2>1, ExecutionsAre DEF IInv
  <2>3. /\ At(k) = Row(w) /\ job[k].state = Row(w).stage /\ Row(w).state = "leased"
        /\ At(k) \in Attempt
    BY <2>1, <2>2, ExecutionsAre, CommitterIsAtItsAttempt DEF IInv
  <2>4. PICK stage \in Stages :
           SetRows(k, [At(k) EXCEPT !.stage = stage], [job[k] EXCEPT !.state = stage])
    <3>1. NextStage(w) \in Stages
      BY DEF NextStage, Stages
    <3> QED
      BY <1>5, <2>2, <3>1 DEF Advance
  <2> DEFINE a == [At(k) EXCEPT !.stage = stage]
             r == [job[k] EXCEPT !.state = stage]
  <2>5. a \in Attempt /\ a.claims = At(k).claims /\ r \in Job /\ r.state = stage
    BY <2>1, <2>2, <2>3, AdvancedRow
  <2>6. SetRows(k, a, r)
    BY <2>4
  <2> HIDE DEF a, r
  <2>7. job[k].state \in Stages
    BY <2>3, RowNumbers
  <2>8. job[k].state \notin Published \cup {"absent"}
    BY <2>7 DEF Stages, Published
  <2>9. ShownWrite(job[k].state, At(k).claims, r.state, a.claims)
    BY <2>5, <2>7 DEF ShownWrite
  <2> QED
    BY <2>1, <2>5, <2>6, <2>8, <2>9, WrittenShows
<1>6. CASE \E answered \in BOOLEAN : PublishCommits(w, answered)
  <2>1. worker[w].phase = "committing" /\ Executing(w)
    BY <1>6 DEF PublishCommits, Executing
  <2>2. PICK k \in Jobs : k = worker[w].job
    BY <2>1, ExecutionsAre DEF IInv
  <2>3. /\ job[k].state # "absent" /\ job[k] \in Job /\ At(k) \in Attempt /\ Agree(job[k], At(k))
        /\ worker[w].attempt \in 1..MaximumAttempts /\ worker[w].result \in Published /\ CommitOK(w)
    BY <2>1, <2>2, ExecutionsAre, JobIsAtAnAttempt DEF IInv, ExecutionOK
  <2>4. At(k).state = "leased" /\ worker[w].attempt = Len(attempts[k])
    BY <2>2, <2>3 DEF CommitOK, Row, At
  <2>5. job[k].state \in Stages
    BY <2>3, <2>4 DEF Agree, Job, Active, Over
  <2>6. job[k].state \notin Published \cup {"absent"}
    BY <2>5 DEF Stages, Published
  <2>7. CASE /\ SetRows(k, Ended(k, "succeeded"), [job[k] EXCEPT !.state = worker[w].result,
                                                                !.resultOf = worker[w].attempt])
             /\ results' = results \cup {[job |-> k, attempt |-> worker[w].attempt,
                                          status |-> worker[w].result]}
    <3> DEFINE r == [job[k] EXCEPT !.state = worker[w].result, !.resultOf = worker[w].attempt]
               x == [job |-> k, attempt |-> worker[w].attempt, status |-> worker[w].result]
               a == Ended(k, "succeeded")
    <3>1. r \in Job /\ r.state = worker[w].result
      <4>1. worker[w].attempt \in 0..MaximumAttempts
        BY <2>3, ReconstructionAssumption
      <4> QED
        BY <2>3, <4>1 DEF Job
    <3>2. x.job = k /\ x.attempt = Len(attempts[k])
      BY <2>4
    <3>3. a \in Attempt /\ a.claims = At(k).claims
      BY <2>3, EndedRow, EndedClaims
    <3>4. SetRows(k, a, r) /\ results' = results \cup {x}
      BY <2>7
    <3> HIDE DEF a, r, x
    <3> QED
      BY <2>3, <2>5, <3>1, <3>2, <3>3, <3>4, PublicationShows
  <2>8. CASE SetRows(k, Ended(k, "failed"), FailedJob(k, FALSE)) /\ results' = results
    <3>1. FailedJob(k, FALSE) \in Job /\ FailedJob(k, FALSE).state = "failed"
      BY <2>3, JobRowsWritten
    <3> QED
      BY <1>2, <2>3, <2>5, <2>6, <2>8, <3>1
  <2> QED
    BY <1>6, <2>2, <2>7, <2>8 DEF PublishCommits
<1>7. CASE \E retryable \in BOOLEAN : FailAttempt(w, retryable)
  <2>1. Executing(w) /\ MayCommit(w) /\ results' = results
    BY <1>7 DEF FailAttempt, Executing
  <2>2. PICK k \in Jobs : k = worker[w].job
    BY <2>1, ExecutionsAre DEF IInv
  <2>3. job[k].state # "absent" /\ job[k] \in Job /\ At(k) \in Attempt
    BY <2>1, <2>2, ExecutionsAre, JobIsAtAnAttempt DEF IInv
  <2>4. job[k].state \in Stages
    BY <2>1, <2>2, CommitterIsAtItsAttempt
  <2>5. job[k].state \notin Published \cup {"absent"}
    BY <2>4 DEF Stages, Published
  <2>6. PICK b \in BOOLEAN : SetRows(k, Ended(k, "failed"), FailedJob(k, b))
    BY <1>7, <2>2 DEF FailAttempt
  <2>7. FailedJob(k, b) \in Job /\ FailedJob(k, b).state = "failed"
    BY <2>3, JobRowsWritten
  <2> QED
    BY <1>2, <2>1, <2>3, <2>4, <2>5, <2>6, <2>7
<1>8. CASE Acknowledge(w)
  <2>1. /\ Executing(w) /\ worker[w].phase = "failing" /\ ToAcknowledge(w)
        /\ results' = results
    BY <1>8 DEF Acknowledge, Executing
  <2>2. PICK k \in Jobs : k = worker[w].job
    BY <2>1, ExecutionsAre DEF IInv
  <2>3. /\ job[k].state = "cancel-requested" /\ At(k).state = "cancel-requested"
        /\ job[k] \in Job /\ At(k) \in Attempt
    BY <2>1, <2>2, AcknowledgedJob
  <2>4. SetRows(k, Ended(k, "cancelled"), Cancelled(k))
    BY <1>8, <2>2, <2>3 DEF Acknowledge
  <2>5. Cancelled(k) \in Job /\ Cancelled(k).state = "cancelled"
    BY <2>3, JobRowsWritten
  <2>6. job[k].state \notin Stages \cup Published \cup {"absent"}
    BY <2>3 DEF Stages, Published
  <2> QED
    BY <1>2, <2>1, <2>3, <2>4, <2>5, <2>6
<1> QED
  BY <1>3, <1>4, <1>5, <1>6, <1>7, <1>8 DEF WorkerStep, RunnerStep

\* The queue of C8 keeps the promises of LeasedJobs, although its transactions
\* may be overtaken between what they read and what they write.
THEOREM ReconstructionsAreLeasedJobs == Spec => ImplementsLeasedJobs
<1>1. Init => Leased!Init
  <2> SUFFICES ASSUME Init PROVE Leased!Init
    OBVIOUS
  <2>1. Output({}, <<>>) = <<0, 0>> /\ Len(<<>>) = 0
    BY DEF Output
  <2>2. \A j \in Jobs : View[j] =
            [status |-> "absent", attempt |-> 0, claims |-> 0, output |-> <<0, 0>>]
    <3> SUFFICES ASSUME NEW j \in Jobs
                 PROVE  View[j] = [status |-> "absent", attempt |-> 0, claims |-> 0,
                                   output |-> <<0, 0>>]
      OBVIOUS
    <3>1. job[j].state = "absent" /\ attempts[j] = <<>> /\ ResultsOf(j) = {}
      BY DEF Init, ResultsOf
    <3>2. View[j] = ShownOf("absent", <<>>, {})
      BY <3>1, ViewIs
    <3> QED
      BY <2>1, <3>2, StatusOf DEF ShownOf
  <2> QED
    BY <2>2 DEF View, Leased!Init, Leased!NoOutput
<1>2. IInv /\ [Next]_vars => [Leased!Next]_View
  <2>1. ASSUME IInv, Next PROVE Leased!Next
    <3>1. DOMAIN View' = Jobs
      BY DEF View
    <3>2. \A j \in Jobs : Shows(j)
      BY <2>1, UsersShow, WithdrawalsShow, WorkersShow DEF Next
    <3> QED
      BY <3>1, <3>2 DEF Shows, Leased!Next
  <2>2. UNCHANGED vars => UNCHANGED View
    BY DEF vars, View, At
  <2> QED
    BY <2>1, <2>2
<1> QED
  BY <1>1, <1>2, Inductive, PTL DEF Spec, ImplementsLeasedJobs, Leased!Spec
=============================================================================

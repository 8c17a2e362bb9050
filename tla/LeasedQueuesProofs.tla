------------------------- MODULE LeasedQueuesProofs -------------------------
(***************************************************************************)
(* Proofs about the leased queues, for any constants: about the processing *)
(* jobs of C2, the plan jobs of C6, the option jobs of C12, the fusion     *)
(* jobs of C9 and the scene jobs of C10 here, about the other two in       *)
(* modules of their own, and about the seven together at the end.  What is *)
(* proved of plans, options, fusions and scenes is proved of the instances *)
(* Plans, OptionQueue, Fusions and Scenes.                                 *)
(***************************************************************************)
EXTENDS LeasedQueues, SequenceTheorems, WellFoundedInduction, TLAPS

-----------------------------------------------------------------------------
(* The inductive invariant of the processing jobs of C2.                   *)

\* The lease of a job is the one of its last claim, and an execution's start
\* is recorded with the first claim.
LeasesAreOfTheLastClaim ==
    \A j \in Jobs :
        /\ job[j].status = "leased" => job[j].lease.token = job[j].attempts
        /\ job[j].status = "absent" => job[j].attempts = 0
        /\ job[j].attempts = 0 <=> job[j].started = 0
        /\ job[j].status = "succeeded" <=> job[j].result # None

\* Workers execute claims that were made, each of them one of its own.
ExecutionsAreClaims ==
    /\ \A w \in Workers : worker[w] # Idle =>
          /\ worker[w].token \in 1..job[worker[w].job].attempts
          /\ worker[w].started = job[worker[w].job].started
          /\ worker[w].phase = "writing" => worker[w].outcome \in Outcomes
    /\ \A v, w \in Workers :
          (/\ worker[v] # Idle /\ worker[w] # Idle
           /\ worker[v].job = worker[w].job
           /\ worker[v].token = worker[w].token) => v = w

\* Every derived object of a job is one its executions are to write.
ObjectsOf(j) == {Key(j, kind, job[j].started) : kind \in Kinds}

ObjectsAreDue ==
    \A key \in derived : job[key[1]].started # 0 /\ key \in ObjectsOf(key[1])

\* The registered artifacts are those of the ready assets, all written.
RegisteredAreReady ==
    /\ registered \subseteq derived
    /\ \A j \in Jobs :
          /\ job[j].result = "ready" => ObjectsOf(j) \subseteq registered
          /\ job[j].result # "ready" => \A key \in registered : key[1] # j

IInv ==
    /\ TypeOK
    /\ LeasesAreOfTheLastClaim
    /\ ExecutionsAreClaims
    /\ OnlyTheLastClaimDecides
    /\ AssetFollowsJob
    /\ ObjectsAreDue
    /\ RegisteredAreReady

-----------------------------------------------------------------------------
\* A worker that executes is told from an idle one by its phase.
LEMMA ExecutionIsNotIdle ==
    ASSUME NEW e \in {Idle} \cup Execution
    PROVE  /\ e # Idle <=> e \in Execution
           /\ e # Idle <=> e.phase # "idle"
  BY DEF Idle, Execution

\* The claims, the rows without a lease and the rows without a job are typed.
LEMMA InitialRows ==
    /\ MaximumAttempts \in Nat \ {0}
    /\ NoLease \in Lease
    /\ 0 \in Claims /\ Claims \subseteq Nat
  BY JobsAssumption DEF NoLease, Lease, Claims

\* Init establishes the invariant.
LEMMA InitIInv == Init => IInv
<1> SUFFICES ASSUME Init PROVE IInv
  OBVIOUS
<1> USE InitialRows DEF Init
<1>1. TypeOK
  BY DEF TypeOK, Job
<1>2. LeasesAreOfTheLastClaim /\ OnlyTheLastClaimDecides /\ AssetFollowsJob
  BY DEF LeasesAreOfTheLastClaim, OnlyTheLastClaimDecides, AssetFollowsJob
<1>3. ExecutionsAreClaims /\ ObjectsAreDue
  BY DEF ExecutionsAreClaims, ObjectsAreDue
<1>4. RegisteredAreReady
  <2>1. \A j \in Jobs : job[j].result # "ready"
    BY JobsAssumption
  <2> QED
    BY <2>1 DEF RegisteredAreReady
<1> QED
  BY <1>1, <1>2, <1>3, <1>4 DEF IInv

-----------------------------------------------------------------------------
(* Types.                                                                  *)

\* A released row is a row.
LEMMA ReleasedRows ==
    ASSUME TypeOK, NEW j \in Jobs,
           NEW status \in {"retryable", "succeeded", "failed"}
    PROVE  Released(j, status) \in Job
<1>1. job[j] \in Job
  BY DEF TypeOK
<1> QED
  BY <1>1, InitialRows DEF Released, Job

\* Every step keeps the types.
LEMMA TypeNext == IInv /\ [Next]_vars => TypeOK'
<1> SUFFICES ASSUME IInv, [Next]_vars PROVE TypeOK'
  OBVIOUS
<1> TypeOK /\ ExecutionsAreClaims
  BY DEF IInv
<1> USE InitialRows, JobsAssumption
<1>1. ASSUME NEW j \in Jobs, Enqueue(j) PROVE TypeOK'
  BY <1>1 DEF TypeOK, Enqueue, Job
<1>2. ASSUME NEW j \in Jobs, LeaseLapses(j) PROVE TypeOK'
  <2>1. job[j] \in Job /\ job[j].lease \in Lease
    BY DEF TypeOK, Job
  <2>2. [job[j].lease EXCEPT !.lapsed = TRUE] \in Lease
    BY <2>1 DEF Lease
  <2>3. [job[j] EXCEPT !.lease = [@ EXCEPT !.lapsed = TRUE]] \in Job
    BY <2>1, <2>2 DEF Job
  <2>4. job' \in [Jobs -> Job]
    BY <1>2, <2>3 DEF TypeOK, LeaseLapses
  <2> QED
    BY <1>2, <2>4 DEF TypeOK, LeaseLapses
<1>3. ASSUME NEW j \in Jobs, BecomesDue(j) PROVE TypeOK'
  <2>1. [job[j] EXCEPT !.due = TRUE] \in Job
    BY DEF TypeOK, Job
  <2>2. job' \in [Jobs -> Job]
    BY <1>3, <2>1 DEF TypeOK, BecomesDue
  <2> QED
    BY <1>3, <2>2 DEF TypeOK, BecomesDue
<1>4. ASSUME NEW w \in Workers, NEW j \in Jobs, Claim(w, j) PROVE TypeOK'
  <2>1. job[j] \in Job /\ job[j].attempts + 1 \in Claims /\ Started(j) \in Claims
    BY <1>4 DEF TypeOK, Claim, Claimable, Started, Job, Claims
  <2>2. [owner |-> WorkerId[w], token |-> job[j].attempts + 1, lapsed |-> FALSE] \in Lease
    BY <2>1 DEF Lease
  <2>3. job' \in [Jobs -> Job]
    BY <1>4, <2>1, <2>2 DEF TypeOK, Claim, Job
  <2>4. asset' \in [Jobs -> {"uploading", "uploaded", "processing", "rejected"} \cup Outcomes]
    BY <1>4 DEF TypeOK, Claim
  <2>5. worker' \in [Workers -> {Idle} \cup Execution]
    BY <1>4, <2>1 DEF TypeOK, Claim, Execution
  <2> QED
    BY <1>4, <2>3, <2>4, <2>5 DEF TypeOK, Claim
<1>5. ASSUME NEW w \in Workers, NEW j \in Jobs, RejectInvalidCommand(w, j) PROVE TypeOK'
  BY <1>5 DEF TypeOK, RejectInvalidCommand, Rejected, Job
<1>6. ASSUME NEW w \in Workers, NEW outcome \in Outcomes, Prepare(w, outcome) PROVE TypeOK'
  <2>1. worker[w] \in Execution
    BY <1>6 DEF TypeOK, Prepare, InPhase, Idle
  <2>2. [worker[w] EXCEPT !.phase = "writing", !.outcome = outcome] \in Execution
    BY <2>1 DEF Execution
  <2>3. worker' \in [Workers -> {Idle} \cup Execution]
    BY <1>6, <2>2 DEF TypeOK, Prepare
  <2> QED
    BY <1>6, <2>3 DEF TypeOK, Prepare
<1>7. ASSUME NEW w \in Workers, Write(w) PROVE TypeOK'
  BY <1>7 DEF TypeOK, Write, InPhase, Artifacts, Key, Execution, Idle
<1>8. ASSUME NEW w \in Workers, NEW answered \in BOOLEAN, Complete(w, answered) PROVE TypeOK'
  <2> DEFINE e == worker[w]
  <2>1. e \in Execution
    BY <1>8 DEF TypeOK, Complete, InPhase, Idle
  <2>2. e.job \in Jobs /\ e.outcome \in Outcomes /\ e.token \in Claims
    BY <1>8, <2>1 DEF Execution, ExecutionsAreClaims, Complete, InPhase, Idle
  <2>3. registered' \cup derived' \subseteq Jobs \X Kinds \X Claims
    <3>1. Artifacts(e) \subseteq Jobs \X Kinds \X Claims
      BY <2>1, <2>2 DEF Artifacts, Key, Execution
    <3> QED
      BY <1>8, <3>1 DEF TypeOK, Complete, CommitResult
  <2>4. asset' \in [Jobs -> {"uploading", "uploaded", "processing", "rejected"} \cup Outcomes]
    BY <1>8, <2>2 DEF TypeOK, Complete, CommitResult
  <2>5. job' \in [Jobs -> Job]
    <3>1. Released(e.job, "succeeded") \in Job
      BY <2>2, ReleasedRows
    <3>2. [Released(e.job, "succeeded") EXCEPT !.result = e.outcome, !.completedBy = e.token]
            \in Job
      BY <2>2, <3>1 DEF Job
    <3> QED
      BY <1>8, <3>2 DEF TypeOK, Complete, CommitResult
  <2>6. worker' \in [Workers -> {Idle} \cup Execution]
    BY <1>8, <2>1 DEF TypeOK, Complete, Stops, Goes, Execution
  <2> QED
    BY <2>3, <2>4, <2>5, <2>6 DEF TypeOK
<1>9. ASSUME NEW w \in Workers, Retry(w) PROVE TypeOK'
  <2> DEFINE j == worker[w].job
  <2>1. j \in Jobs
    BY <1>9 DEF TypeOK, Retry, InPhase, Idle, Execution
  <2>2. Released(j, "retryable") \in Job /\ Released(j, "failed") \in Job
    BY <2>1, ReleasedRows
  <2>3. job' \in [Jobs -> Job]
    <3>1. [Released(j, "retryable") EXCEPT !.due = FALSE] \in Job
      BY <2>2 DEF Job
    <3> QED
      BY <1>9, <2>1, <2>2, <3>1 DEF TypeOK, Retry, CommitRetry, RecordFailure
  <2>4. asset' \in [Jobs -> {"uploading", "uploaded", "processing", "rejected"} \cup Outcomes]
    BY <1>9, <2>1 DEF TypeOK, Retry, CommitRetry, RecordFailure, Rejected
  <2>5. worker' \in [Workers -> {Idle} \cup Execution]
    BY <1>9 DEF TypeOK, Retry, Stops
  <2> QED
    BY <1>9, <2>3, <2>4, <2>5 DEF TypeOK, Retry, CommitRetry, RecordFailure
<1>10. ASSUME NEW w \in Workers, Abandon(w) \/ Stop(w) PROVE TypeOK'
  BY <1>10 DEF TypeOK, Abandon, Stop, Stops
<1>11. ASSUME NEW w \in Workers, Fail(w) PROVE TypeOK'
  <2>1. worker[w] \in Execution
    BY <1>11 DEF TypeOK, Fail, Idle
  <2>2. [worker[w] EXCEPT !.phase = "failing"] \in Execution
    BY <2>1 DEF Execution
  <2>3. worker' \in [Workers -> {Idle} \cup Execution]
    BY <1>11, <2>2 DEF TypeOK, Fail, Goes
  <2> QED
    BY <1>11, <2>3 DEF TypeOK, Fail
<1>12. ASSUME NEW w \in Workers, HeartbeatFails(w) PROVE TypeOK'
  <2>1. worker[w] \in Execution
    BY <1>12 DEF TypeOK, HeartbeatFails, Idle
  <2>2. [worker[w] EXCEPT !.lost = TRUE] \in Execution
    BY <2>1 DEF Execution
  <2>3. worker' \in [Workers -> {Idle} \cup Execution]
    BY <1>12, <2>2 DEF TypeOK, HeartbeatFails
  <2> QED
    BY <1>12, <2>3 DEF TypeOK, HeartbeatFails
<1>13. CASE UNCHANGED vars
  BY <1>13 DEF TypeOK, vars
<1> QED
  BY <1>1, <1>2, <1>3, <1>4, <1>5, <1>6, <1>7, <1>8, <1>9, <1>10, <1>11, <1>12, <1>13
  DEF Next, RunnerStep

-----------------------------------------------------------------------------
(* What a step does, as far as the rest of the invariant can tell.         *)

\* What happens to one worker: it stops, or it goes on with its claim; only a
\* prepared execution writes.
Proceeds(w) ==
    \/ worker'[w] = Idle
    \/ /\ worker[w] # Idle /\ worker'[w] # Idle
       /\ worker'[w].job = worker[w].job
       /\ worker'[w].token = worker[w].token
       /\ worker'[w].started = worker[w].started
       /\ worker'[w].phase = "writing" => worker'[w].outcome \in Outcomes

\* Every worker but for a claiming one only proceeds.
LEMMA WorkersProceed ==
    ASSUME IInv, [Next]_vars
    PROVE  \/ \E w \in Workers, j \in Jobs : Claim(w, j)
           \/ \A w \in Workers : Proceeds(w)
<1> TypeOK /\ ExecutionsAreClaims
  BY DEF IInv
<1>0. ASSUME NEW w \in Workers, worker'[w] = worker[w] PROVE Proceeds(w)
  BY <1>0 DEF Proceeds, ExecutionsAreClaims
<1>1. ASSUME NEW w \in Workers,
             \/ Stops(w)
             \/ \E phase \in {"failing"} : worker[w] \in Execution /\ Goes(w, phase)
             \/ worker[w] \in Execution /\ HeartbeatFails(w)
             \/ \E outcome \in Outcomes : worker[w] \in Execution /\ Prepare(w, outcome)
      PROVE  \A v \in Workers : Proceeds(v)
  <2>1. ASSUME NEW v \in Workers, v # w PROVE worker'[v] = worker[v]
    BY <1>1, <2>1 DEF TypeOK, Stops, Goes, HeartbeatFails, Prepare
  <2>2. Proceeds(w)
    <3>1. CASE Stops(w)
      BY <3>1 DEF TypeOK, Stops, Proceeds
    <3>2. CASE \E phase \in {"failing"} : worker[w] \in Execution /\ Goes(w, phase)
      BY <3>2 DEF TypeOK, Goes, Proceeds, Execution, Idle
    <3>3. CASE worker[w] \in Execution /\ HeartbeatFails(w)
      BY <3>3 DEF TypeOK, ExecutionsAreClaims, HeartbeatFails, Proceeds, Execution, Idle
    <3>4. CASE \E outcome \in Outcomes : worker[w] \in Execution /\ Prepare(w, outcome)
      BY <3>4 DEF TypeOK, Prepare, Proceeds, Execution, Idle
    <3> QED
      BY <1>1, <3>1, <3>2, <3>3, <3>4
  <2> QED
    BY <1>0, <2>1, <2>2
<1>2. ASSUME NEW w \in Workers, worker[w] # Idle PROVE worker[w] \in Execution
  BY <1>2 DEF TypeOK
<1>3. ASSUME NEW w \in Workers, NEW phase \in {"processing", "writing", "failing"},
             InPhase(w, phase)
      PROVE  worker[w] \in Execution
  BY <1>2, <1>3 DEF InPhase, Idle
<1>4. ASSUME NEW w \in Workers, RunnerStep(w) PROVE \A v \in Workers : Proceeds(v)
  <2>1. CASE \E outcome \in Outcomes : Prepare(w, outcome)
    BY <1>1, <1>3, <2>1 DEF Prepare
  <2>2. CASE Write(w)
    BY <1>0, <2>2 DEF Write
  <2>3. CASE \E answered \in BOOLEAN : Complete(w, answered)
    BY <1>1, <1>3, <2>3 DEF Complete
  <2>4. CASE Retry(w) \/ Abandon(w)
    BY <1>1, <2>4 DEF Retry, Abandon
  <2> QED
    BY <1>4, <2>1, <2>2, <2>3, <2>4 DEF RunnerStep
<1>5. ASSUME NEW w \in Workers, Fail(w) \/ HeartbeatFails(w) \/ Stop(w)
      PROVE  \A v \in Workers : Proceeds(v)
  <2>1. worker[w] \in Execution
    BY <1>2, <1>5 DEF Fail, HeartbeatFails, Stop, Idle
  <2> QED
    BY <1>1, <1>5, <2>1 DEF Fail, Stop
<1>6. CASE worker' = worker
  BY <1>0, <1>6
<1> QED
  BY <1>4, <1>5, <1>6
  DEF Next, Enqueue, LeaseLapses, BecomesDue, RejectInvalidCommand, vars

\* No step forgets an attempt, or the start of an execution.
StartIsKept(j) ==
    /\ job'[j].attempts >= job[j].attempts
    /\ job[j].started # 0 => job'[j].started = job[j].started

LeaseIsOfTheLastClaim(j) ==
    /\ job[j].status = "leased" => job[j].lease.token = job[j].attempts
    /\ job[j].status = "absent" => job[j].attempts = 0
    /\ job[j].attempts = 0 <=> job[j].started = 0
    /\ job[j].status = "succeeded" <=> job[j].result # None

\* What a step does to a single job.
LEMMA JobsProceed ==
    ASSUME IInv, [Next]_vars, NEW i \in Jobs
    PROVE  /\ StartIsKept(i)
           /\ LeaseIsOfTheLastClaim(i)'
           /\ job'[i].status = "succeeded" => job'[i].completedBy = job'[i].attempts
<1> TypeOK /\ LeasesAreOfTheLastClaim /\ ExecutionsAreClaims /\ OnlyTheLastClaimDecides
  BY DEF IInv
<1> DEFINE Goal == /\ StartIsKept(i)
                   /\ LeaseIsOfTheLastClaim(i)'
                   /\ job'[i].status = "succeeded" => job'[i].completedBy = job'[i].attempts
<1>0. job[i] \in Job /\ job[i].attempts \in Nat /\ MaximumAttempts \in Nat
  BY InitialRows DEF TypeOK, Job
<1>1. ASSUME job'[i] = job[i] PROVE Goal
  BY <1>0, <1>1 DEF StartIsKept, LeaseIsOfTheLastClaim, LeasesAreOfTheLastClaim,
                    OnlyTheLastClaimDecides
<1>2. ASSUME NEW j \in Jobs, Enqueue(j) \/ LeaseLapses(j) \/ BecomesDue(j) PROVE Goal
  <2>1. CASE i # j
    BY <1>1, <1>2, <2>1 DEF Enqueue, LeaseLapses, BecomesDue, TypeOK
  <2>2. CASE i = j
    BY <1>0, <1>2, <2>2 DEF Enqueue, LeaseLapses, BecomesDue, TypeOK, Job, Lease,
          StartIsKept, LeaseIsOfTheLastClaim, LeasesAreOfTheLastClaim, OnlyTheLastClaimDecides
  <2> QED
    BY <2>1, <2>2
<1>3. ASSUME NEW w \in Workers, NEW j \in Jobs, Claim(w, j) PROVE Goal
  <2>1. CASE i # j
    BY <1>1, <1>3, <2>1 DEF Claim, TypeOK
  <2>2. CASE i = j
    BY <1>0, <1>3, <2>2 DEF Claim, Claimable, Started, TypeOK, Job,
          StartIsKept, LeaseIsOfTheLastClaim, LeasesAreOfTheLastClaim
  <2> QED
    BY <2>1, <2>2
<1>4. ASSUME NEW w \in Workers, NEW j \in Jobs, RejectInvalidCommand(w, j) PROVE Goal
  <2>1. CASE i # j
    BY <1>1, <1>4, <2>1 DEF RejectInvalidCommand, TypeOK
  <2>2. CASE i = j
    BY <1>0, <1>4, <2>2 DEF RejectInvalidCommand, Claimable, TypeOK, Job,
          StartIsKept, LeaseIsOfTheLastClaim, LeasesAreOfTheLastClaim
  <2> QED
    BY <2>1, <2>2
<1>5. ASSUME NEW w \in Workers, worker[w] # Idle, CommitResult(w), InPhase(w, "writing")
      PROVE  Goal
  <2> DEFINE e == worker[w]
  <2>1. /\ e.job \in Jobs /\ e.outcome # None
        /\ e.token = job[e.job].attempts
    BY <1>5, JobsAssumption DEF TypeOK, Execution, ExecutionsAreClaims, InPhase, CommitResult,
          Holds, LeasesAreOfTheLastClaim
  <2>2. CASE i # e.job
    BY <1>1, <1>5, <2>1, <2>2 DEF CommitResult, TypeOK
  <2>3. CASE i = e.job
    <3>1. /\ job'[i].status = "succeeded" /\ job'[i].result # None
          /\ job'[i].attempts = job[i].attempts /\ job'[i].started = job[i].started
          /\ job'[i].completedBy = job[i].attempts
      BY <1>0, <1>5, <2>1, <2>3 DEF CommitResult, Released, TypeOK, Job
    <3> QED
      BY <1>0, <3>1 DEF StartIsKept, LeaseIsOfTheLastClaim, LeasesAreOfTheLastClaim
  <2> QED
    BY <2>2, <2>3
<1>6. ASSUME NEW w \in Workers, worker[w] # Idle, CommitRetry(w) PROVE Goal
  <2> DEFINE j == worker[w].job
  <2>1. j \in Jobs /\ job[j].status = "leased"
    BY <1>6 DEF TypeOK, Execution, CommitRetry, Holds
  <2>2. CASE i # j
    BY <1>1, <1>6, <2>1, <2>2 DEF CommitRetry, RecordFailure, TypeOK
  <2>3. CASE i = j
    <3> DEFINE retried == [Released(i, "retryable") EXCEPT !.due = FALSE]
    <3>1. job'[i] = retried \/ job'[i] = Released(i, "failed")
      BY <1>6, <2>1, <2>3 DEF CommitRetry, RecordFailure, TypeOK
    <3>2. \A r \in {retried, Released(i, "failed")} :
             /\ r.status \in {"retryable", "failed"} /\ r.result = job[i].result
             /\ r.attempts = job[i].attempts /\ r.started = job[i].started
      BY <1>0 DEF Released, Job
    <3>3. /\ job'[i].status \in {"retryable", "failed"} /\ job'[i].result = job[i].result
          /\ job'[i].attempts = job[i].attempts /\ job'[i].started = job[i].started
      BY <3>1, <3>2
    <3> QED
      BY <1>0, <2>1, <2>3, <3>3 DEF StartIsKept, LeaseIsOfTheLastClaim, LeasesAreOfTheLastClaim
  <2> QED
    BY <2>2, <2>3
<1>7. ASSUME NEW w \in Workers, RunnerStep(w) PROVE Goal
  <2>1. CASE (\E outcome \in Outcomes : Prepare(w, outcome)) \/ Write(w) \/ Abandon(w)
    BY <1>1, <2>1 DEF Prepare, Write, Abandon
  <2>2. CASE \E answered \in BOOLEAN : Complete(w, answered)
    BY <1>5, <2>2 DEF Complete, InPhase, Idle
  <2>3. CASE Retry(w)
    BY <1>6, <2>3 DEF Retry, InPhase, Idle
  <2> QED
    BY <1>7, <2>1, <2>2, <2>3 DEF RunnerStep
<1>8. CASE job' = job
  BY <1>1, <1>8
<1> QED
  BY <1>2, <1>3, <1>4, <1>7, <1>8 DEF Next, Fail, HeartbeatFails, Stop, vars

\* Every step keeps the leases those of the last claims, and the executions
\* those of claims.
LEMMA ClaimsNext ==
    ASSUME IInv, [Next]_vars
    PROVE  LeasesAreOfTheLastClaim' /\ OnlyTheLastClaimDecides' /\ ExecutionsAreClaims'
<1> TypeOK /\ ExecutionsAreClaims /\ LeasesAreOfTheLastClaim
  BY DEF IInv
<1>1. LeasesAreOfTheLastClaim' /\ OnlyTheLastClaimDecides'
  BY JobsProceed
  DEF LeasesAreOfTheLastClaim, LeaseIsOfTheLastClaim, OnlyTheLastClaimDecides
<1>2. ASSUME NEW w \in Workers, Proceeds(w), worker'[w] # Idle
      PROVE  /\ worker[w] # Idle /\ worker'[w].job = worker[w].job
             /\ worker'[w].token = worker[w].token
             /\ worker'[w].token \in 1..job'[worker'[w].job].attempts
             /\ worker'[w].started = job'[worker'[w].job].started
             /\ worker'[w].phase = "writing" => worker'[w].outcome \in Outcomes
  <2> DEFINE j == worker[w].job
  <2>1. /\ worker[w] # Idle /\ worker'[w].job = j
        /\ worker'[w].token = worker[w].token /\ worker'[w].started = worker[w].started
        /\ worker'[w].phase = "writing" => worker'[w].outcome \in Outcomes
    BY <1>2 DEF Proceeds
  <2>2. j \in Jobs
    BY <2>1 DEF TypeOK, Execution
  <2>3. /\ worker[w].token \in 1..job[j].attempts
        /\ worker[w].started = job[j].started
    BY <2>1 DEF ExecutionsAreClaims
  <2>4. StartIsKept(j) /\ TypeOK'
    BY <2>2, JobsProceed, TypeNext
  <2>5. job[j].attempts \in Nat /\ job'[j].attempts \in Nat
    BY <2>2, <2>4, InitialRows DEF TypeOK, Job
  <2>6. job[j].started # 0
    BY <2>2, <2>3, <2>5 DEF LeasesAreOfTheLastClaim
  <2> QED
    BY <2>1, <2>3, <2>4, <2>5, <2>6 DEF StartIsKept
<1>3. CASE \A w \in Workers : Proceeds(w)
  <2>1. ASSUME NEW u \in Workers, NEW v \in Workers, worker'[u] # Idle, worker'[v] # Idle,
               worker'[u].job = worker'[v].job, worker'[u].token = worker'[v].token
        PROVE  u = v
    <3>1. /\ worker[u] # Idle /\ worker'[u].job = worker[u].job
          /\ worker'[u].token = worker[u].token
      BY <1>2, <1>3, <2>1
    <3>2. /\ worker[v] # Idle /\ worker'[v].job = worker[v].job
          /\ worker'[v].token = worker[v].token
      BY <1>2, <1>3, <2>1
    <3> QED
      BY <2>1, <3>1, <3>2 DEF ExecutionsAreClaims
  <2>2. ASSUME NEW w \in Workers, worker'[w] # Idle
        PROVE  /\ worker'[w].token \in 1..job'[worker'[w].job].attempts
               /\ worker'[w].started = job'[worker'[w].job].started
               /\ worker'[w].phase = "writing" => worker'[w].outcome \in Outcomes
    BY <1>2, <1>3, <2>2
  <2>3. ExecutionsAreClaims'
    BY <2>1, <2>2 DEF ExecutionsAreClaims
  <2> QED
    BY <1>1, <2>3
<1>4. ASSUME NEW w \in Workers, NEW j \in Jobs, Claim(w, j) PROVE ExecutionsAreClaims'
  <2>1. /\ worker'[w].job = j /\ worker'[w].token = job[j].attempts + 1
        /\ worker'[w].started = Started(j) /\ worker'[w].phase = "processing"
        /\ job'[j].attempts = job[j].attempts + 1 /\ job'[j].started = Started(j)
    BY <1>4, InitialRows DEF Claim, TypeOK, Job
  <2>2. job[j].attempts \in Nat
    BY InitialRows DEF TypeOK, Job
  <2>3. ASSUME NEW v \in Workers, v # w PROVE worker'[v] = worker[v] /\ Proceeds(v)
    BY <1>4, <2>3 DEF Claim, TypeOK, Proceeds, ExecutionsAreClaims
  <2>4. ASSUME NEW v \in Workers, v # w, worker'[v] # Idle, worker'[v].job = j
        PROVE  worker'[v].token # worker'[w].token
    BY <2>1, <2>2, <2>3, <2>4 DEF ExecutionsAreClaims
  <2>5. ASSUME NEW v \in Workers, worker'[v] # Idle
        PROVE  /\ worker'[v].token \in 1..job'[worker'[v].job].attempts
               /\ worker'[v].started = job'[worker'[v].job].started
               /\ worker'[v].phase = "writing" => worker'[v].outcome \in Outcomes
    <3>1. CASE v = w
      BY <2>1, <2>2, <3>1
    <3>2. CASE v # w
      BY <1>2, <2>3, <2>5, <3>2
    <3> QED
      BY <3>1, <3>2
  <2>6. ASSUME NEW u \in Workers, NEW v \in Workers, worker'[u] # Idle, worker'[v] # Idle,
               worker'[u].job = worker'[v].job, worker'[u].token = worker'[v].token
        PROVE  u = v
    BY <2>1, <2>3, <2>4, <2>6 DEF ExecutionsAreClaims
  <2> QED
    BY <2>5, <2>6 DEF ExecutionsAreClaims
<1> QED
  BY <1>1, <1>3, <1>4, WorkersProceed

\* The asset of a job, by the status of the job.
AssetFollows(j) ==
    CASE job[j].status = "absent" -> asset[j] = "uploading"
      [] job[j].status = "queued" -> asset[j] = "uploaded"
      [] job[j].status \in {"leased", "retryable"} -> asset[j] = "processing"
      [] job[j].status = "succeeded" -> asset[j] = job[j].result
      [] job[j].status = "failed" -> asset[j] = "rejected"

\* What becomes of the two rows in one step: nothing, or they move together,
\* and never from a settled state.
RowsMove(j) ==
    \/ /\ job'[j].status = job[j].status /\ job'[j].result = job[j].result
       /\ asset'[j] = asset[j]
       /\ job[j].status \in Settled => job'[j] = job[j]
    \/ /\ job[j].status \notin Settled
       /\ AssetFollows(j)'

\* Every step moves the rows of a job so.
LEMMA JobAndAssetMove ==
    ASSUME IInv, [Next]_vars, NEW i \in Jobs
    PROVE  RowsMove(i)
<1> TypeOK /\ ExecutionsAreClaims /\ AssetFollowsJob
  BY DEF IInv
<1>0. job[i] \in Job /\ AssetFollows(i)
  BY DEF TypeOK, AssetFollowsJob, AssetFollows
<1>1. ASSUME job'[i] = job[i], asset'[i] = asset[i] PROVE RowsMove(i)
  BY <1>1 DEF RowsMove
<1>2. ASSUME NEW j \in Jobs, Enqueue(j) \/ LeaseLapses(j) \/ BecomesDue(j) PROVE RowsMove(i)
  <2>1. CASE i # j
    BY <1>1, <1>2, <2>1 DEF Enqueue, LeaseLapses, BecomesDue, TypeOK
  <2>2. CASE i = j
    <3>1. CASE Enqueue(j)
      BY <1>0, <2>2, <3>1 DEF Enqueue, TypeOK, Job, Settled, RowsMove, AssetFollows
    <3>2. CASE LeaseLapses(j) \/ BecomesDue(j)
      <4>1. /\ job'[i].status = job[i].status /\ job'[i].result = job[i].result
            /\ asset'[i] = asset[i] /\ job[i].status \notin Settled
        BY <1>0, <2>2, <3>2 DEF LeaseLapses, BecomesDue, TypeOK, Job, Settled
      <4> QED
        BY <4>1 DEF RowsMove
    <3> QED
      BY <1>2, <3>1, <3>2
  <2> QED
    BY <2>1, <2>2
<1>3. ASSUME NEW w \in Workers, NEW j \in Jobs, Claim(w, j) PROVE RowsMove(i)
  <2>1. CASE i # j
    BY <1>1, <1>3, <2>1 DEF Claim, TypeOK
  <2>2. CASE i = j
    BY <1>0, <1>3, <2>2 DEF Claim, Claimable, TypeOK, Job, Settled, RowsMove, AssetFollows
  <2> QED
    BY <2>1, <2>2
<1>4. ASSUME NEW w \in Workers, NEW j \in Jobs, RejectInvalidCommand(w, j) PROVE RowsMove(i)
  <2>1. CASE i # j
    BY <1>1, <1>4, <2>1 DEF RejectInvalidCommand, TypeOK
  <2>2. CASE i = j
    BY <1>0, <1>4, <2>2 DEF RejectInvalidCommand, Claimable, Rejected, TypeOK, Job, Settled,
          RowsMove, AssetFollows
  <2> QED
    BY <2>1, <2>2
<1>5. ASSUME NEW w \in Workers, worker[w] # Idle, CommitResult(w) PROVE RowsMove(i)
  <2> DEFINE e == worker[w]
  <2>1. e.job \in Jobs /\ job[e.job].status = "leased"
    BY <1>5 DEF TypeOK, Execution, CommitResult, Holds
  <2>2. CASE i # e.job
    BY <1>1, <1>5, <2>1, <2>2 DEF CommitResult, TypeOK
  <2>3. CASE i = e.job
    <3>1. /\ job'[i].status = "succeeded" /\ job'[i].result = e.outcome
          /\ asset'[i] = e.outcome
      BY <1>0, <1>5, <2>1, <2>3 DEF CommitResult, Released, TypeOK, Job
    <3> QED
      BY <2>1, <2>3, <3>1 DEF RowsMove, AssetFollows, Settled
  <2> QED
    BY <2>2, <2>3
<1>6. ASSUME NEW w \in Workers, worker[w] # Idle, CommitRetry(w) PROVE RowsMove(i)
  <2> DEFINE j == worker[w].job
  <2>1. j \in Jobs /\ job[j].status = "leased"
    BY <1>6 DEF TypeOK, Execution, CommitRetry, Holds
  <2>2. CASE i # j
    BY <1>1, <1>6, <2>1, <2>2 DEF CommitRetry, RecordFailure, TypeOK
  <2>3. CASE i = j
    <3>1. asset[i] = "processing"
      BY <1>0, <2>1, <2>3 DEF AssetFollows
    <3>2. \/ job'[i].status = "retryable" /\ asset'[i] = "processing"
          \/ job'[i].status = "failed" /\ asset'[i] = "rejected"
      <4>1. \/ /\ job'[i] = [Released(i, "retryable") EXCEPT !.due = FALSE]
               /\ asset' = asset
            \/ /\ job'[i] = Released(i, "failed")
               /\ asset'[i] = Rejected(i)
        BY <1>6, <2>1, <2>3 DEF CommitRetry, RecordFailure, TypeOK
      <4>2. /\ [Released(i, "retryable") EXCEPT !.due = FALSE].status = "retryable"
            /\ Released(i, "failed").status = "failed"
        BY <1>0 DEF Released, Job
      <4> QED
        BY <3>1, <4>1, <4>2 DEF Rejected
    <3> QED
      BY <2>1, <2>3, <3>2 DEF RowsMove, AssetFollows, Settled
  <2> QED
    BY <2>2, <2>3
<1>7. ASSUME NEW w \in Workers, RunnerStep(w) PROVE RowsMove(i)
  <2>1. CASE (\E outcome \in Outcomes : Prepare(w, outcome)) \/ Write(w) \/ Abandon(w)
    BY <1>1, <2>1 DEF Prepare, Write, Abandon
  <2>2. CASE \E answered \in BOOLEAN : Complete(w, answered)
    BY <1>5, <2>2 DEF Complete, InPhase, Idle
  <2>3. CASE Retry(w)
    BY <1>6, <2>3 DEF Retry, InPhase, Idle
  <2> QED
    BY <1>7, <2>1, <2>2, <2>3 DEF RunnerStep
<1>8. CASE job' = job /\ asset' = asset
  BY <1>1, <1>8
<1> QED
  BY <1>2, <1>3, <1>4, <1>7, <1>8 DEF Next, Fail, HeartbeatFails, Stop, vars

\* Every step keeps jobs and assets in agreement.
LEMMA AssetFollowsNext == IInv /\ [Next]_vars => AssetFollowsJob'
<1> SUFFICES ASSUME IInv, [Next]_vars, NEW j \in Jobs PROVE AssetFollows(j)'
  BY DEF AssetFollowsJob, AssetFollows
<1>1. AssetFollows(j) /\ RowsMove(j)
  BY JobAndAssetMove DEF IInv, AssetFollowsJob, AssetFollows
<1> QED
  BY <1>1 DEF AssetFollows, RowsMove

-----------------------------------------------------------------------------
(* Objects.                                                                *)

\* What a prepared execution is to write are objects of its job.
LEMMA ArtifactsAreObjects ==
    ASSUME IInv, NEW w \in Workers, worker[w] # Idle
    PROVE  LET j == worker[w].job
           IN  /\ j \in Jobs /\ job[j].started # 0
               /\ \A key \in Artifacts(worker[w]) : key[1] = j /\ key \in ObjectsOf(j)
               /\ worker[w].outcome = "ready" => Artifacts(worker[w]) = ObjectsOf(j)
               /\ worker[w].outcome # "ready" => Artifacts(worker[w]) = {}
<1> DEFINE j == worker[w].job
<1>1. j \in Jobs
  BY DEF IInv, TypeOK, Execution
<1>2. worker[w].token \in 1..job[j].attempts /\ worker[w].started = job[j].started
  BY DEF IInv, ExecutionsAreClaims
<1>3. job[j].attempts \in Nat
  BY <1>1, InitialRows DEF IInv, TypeOK, Job
<1>4. job[j].started # 0
  BY <1>1, <1>2, <1>3 DEF IInv, LeasesAreOfTheLastClaim
<1> QED
  BY <1>1, <1>2, <1>4 DEF Artifacts, ObjectsOf, Key

\* The objects a job is to have are the same as long as it has been started.
LEMMA ObjectsStay ==
    ASSUME IInv, [Next]_vars, NEW j \in Jobs, job[j].started # 0
    PROVE  job'[j].started # 0 /\ ObjectsOf(j)' = ObjectsOf(j)
<1>1. job'[j].started = job[j].started
  BY JobsProceed DEF StartIsKept
<1> QED
  BY <1>1 DEF ObjectsOf

\* A step adds to the derived bucket at most an object one of its executions
\* is to write.
LEMMA DerivedGrows ==
    ASSUME IInv, [Next]_vars
    PROVE  /\ derived \subseteq derived'
           /\ \A key \in derived' \ derived :
                 \E w \in Workers : worker[w] # Idle /\ key \in Artifacts(worker[w])
<1>1. CASE derived' = derived
  BY <1>1
<1>2. ASSUME NEW w \in Workers, Write(w)
      PROVE  /\ derived \subseteq derived'
             /\ \A key \in derived' \ derived :
                   worker[w] # Idle /\ key \in Artifacts(worker[w])
  BY <1>2 DEF Write, InPhase, Idle
<1> QED
  BY <1>1, <1>2
  DEF Next, RunnerStep, vars, Enqueue, LeaseLapses, BecomesDue, Claim, RejectInvalidCommand,
      Prepare, Complete, CommitResult, Retry, CommitRetry, RecordFailure, Abandon, Fail,
      HeartbeatFails, Stop

\* Every step keeps the bucket to objects of the jobs.
LEMMA ObjectsNext == IInv /\ [Next]_vars => ObjectsAreDue'
<1> SUFFICES ASSUME IInv, [Next]_vars, NEW key \in derived'
             PROVE  job'[key[1]].started # 0 /\ key \in ObjectsOf(key[1])'
  BY DEF ObjectsAreDue, ObjectsOf
<1>1. key[1] \in Jobs /\ job[key[1]].started # 0 /\ key \in ObjectsOf(key[1])
  <2>1. CASE key \in derived
    BY <2>1 DEF IInv, TypeOK, ObjectsAreDue
  <2>2. CASE key \notin derived
    BY <2>2, DerivedGrows, ArtifactsAreObjects
  <2> QED
    BY <2>1, <2>2
<1> QED
  BY <1>1, ObjectsStay

\* What is registered for one job.
RegisteredIsReady(j) ==
    /\ job[j].result = "ready" => ObjectsOf(j) \subseteq registered
    /\ job[j].result # "ready" => \A key \in registered : key[1] # j

\* A step that registers nothing does not make a result either.
LEMMA RegisteringStep ==
    ASSUME IInv, [Next]_vars
    PROVE  \/ registered' = registered /\ \A j \in Jobs : job'[j].result = job[j].result
           \/ \E w \in Workers : /\ worker[w] # Idle
                                /\ WroteEverything(worker[w]) /\ CommitResult(w)
<1> TypeOK
  BY DEF IInv
<1> DEFINE Nothing == registered' = registered /\ \A j \in Jobs : job'[j].result = job[j].result
<1>0. \A j \in Jobs : job[j] \in Job
  BY DEF TypeOK
<1>1. ASSUME NEW i \in Jobs, Enqueue(i) \/ LeaseLapses(i) \/ BecomesDue(i) PROVE Nothing
  <2>1. ASSUME NEW j \in Jobs, i # j PROVE job'[j] = job[j]
    BY <1>1, <2>1 DEF TypeOK, Enqueue, LeaseLapses, BecomesDue
  <2>2. job'[i].result = job[i].result /\ registered' = registered
    BY <1>0, <1>1 DEF TypeOK, Job, Enqueue, LeaseLapses, BecomesDue
  <2> QED
    BY <2>1, <2>2
<1>5. ASSUME NEW i \in Jobs, NEW w \in Workers, Claim(w, i) \/ RejectInvalidCommand(w, i)
      PROVE  Nothing
  <2>1. ASSUME NEW j \in Jobs, i # j PROVE job'[j] = job[j]
    BY <1>5, <2>1 DEF TypeOK, Claim, RejectInvalidCommand
  <2>2. job'[i].result = job[i].result /\ registered' = registered
    <3>1. CASE Claim(w, i)
      BY <1>0, <3>1 DEF TypeOK, Job, Claim
    <3>2. CASE RejectInvalidCommand(w, i)
      BY <1>0, <3>2 DEF TypeOK, Job, RejectInvalidCommand
    <3> QED
      BY <1>5, <3>1, <3>2
  <2> QED
    BY <2>1, <2>2
<1>2. ASSUME NEW w \in Workers, Retry(w) PROVE Nothing
  <2> DEFINE i == worker[w].job
  <2>1. i \in Jobs
    BY <1>2 DEF TypeOK, Retry, InPhase, Idle, Execution
  <2>2. /\ registered' = registered
        /\ \/ job' = [job EXCEPT ![i] = [Released(i, "retryable") EXCEPT !.due = FALSE]]
           \/ job' = [job EXCEPT ![i] = Released(i, "failed")]
    BY <1>2 DEF Retry, CommitRetry, RecordFailure
  <2>3. job[i] \in Job
    BY <2>1 DEF TypeOK
  <2>4. /\ [Released(i, "retryable") EXCEPT !.due = FALSE].result = job[i].result
        /\ Released(i, "failed").result = job[i].result
    BY <2>3 DEF Released, Job
  <2> QED
    BY <2>1, <2>2, <2>4 DEF TypeOK
<1>3. ASSUME NEW w \in Workers, NEW answered \in BOOLEAN, Complete(w, answered)
      PROVE  worker[w] # Idle /\ WroteEverything(worker[w]) /\ CommitResult(w)
  BY <1>3 DEF Complete, InPhase, Idle
<1>4. CASE registered' = registered /\ job' = job
  BY <1>4
<1> QED
  BY <1>1, <1>2, <1>3, <1>4, <1>5
  DEF Next, RunnerStep, vars, Prepare, Write, Abandon, Fail, HeartbeatFails, Stop

\* Every step keeps the registered artifacts those of the ready assets.
LEMMA RegisteredNext == IInv /\ [Next]_vars => RegisteredAreReady'
<1> SUFFICES ASSUME IInv, [Next]_vars PROVE RegisteredAreReady'
  OBVIOUS
<1> TypeOK /\ RegisteredAreReady /\ LeasesAreOfTheLastClaim /\ ExecutionsAreClaims
  BY DEF IInv
<1>1. derived \subseteq derived'
  BY DerivedGrows
<1>2. CASE registered' = registered /\ \A j \in Jobs : job'[j].result = job[j].result
  <2>1. ASSUME NEW j \in Jobs PROVE RegisteredIsReady(j)'
    <3>1. CASE job[j].result = "ready"
      <4>1. job[j].result # None
        BY <3>1, JobsAssumption
      <4>2. job[j].status = "succeeded"
        BY <4>1 DEF LeasesAreOfTheLastClaim
      <4>3. job'[j] = job[j]
        BY <4>2, JobAndAssetMove DEF RowsMove, Settled
      <4> QED
        BY <1>2, <3>1, <4>3 DEF RegisteredIsReady, RegisteredAreReady, ObjectsOf
    <3>2. CASE job[j].result # "ready"
      BY <1>2, <3>2 DEF RegisteredIsReady, RegisteredAreReady
    <3> QED
      BY <3>1, <3>2
  <2> QED
    BY <1>1, <1>2, <2>1 DEF RegisteredIsReady, RegisteredAreReady
<1>3. ASSUME NEW w \in Workers, worker[w] # Idle, WroteEverything(worker[w]), CommitResult(w)
      PROVE  RegisteredAreReady'
  <2> DEFINE e == worker[w]
  <2>1. /\ e.job \in Jobs /\ job[e.job].started # 0
        /\ \A key \in Artifacts(e) : key[1] = e.job /\ key \in ObjectsOf(e.job)
        /\ e.outcome = "ready" => Artifacts(e) = ObjectsOf(e.job)
        /\ e.outcome # "ready" => Artifacts(e) = {}
    BY <1>3, ArtifactsAreObjects
  <2>2. /\ registered' = registered \cup Artifacts(e) /\ derived' = derived
        /\ Artifacts(e) \subseteq derived
    BY <1>3 DEF CommitResult, WroteEverything
  <2>3. job[e.job].status = "leased"
    BY <1>3 DEF CommitResult, Holds
  <2>4. job[e.job].result # "ready"
    BY <2>1, <2>3, JobsAssumption DEF LeasesAreOfTheLastClaim
  <2>5. PICK i \in Jobs : i = e.job
    BY <2>1
  <2>6. ObjectsOf(i)' = ObjectsOf(i)
    BY <2>1, <2>5, ObjectsStay
  <2>7. job'[i].result = e.outcome
    BY <1>3, <2>1, <2>5 DEF CommitResult, Released, TypeOK, Job
  <2>8. ASSUME NEW j \in Jobs PROVE RegisteredIsReady(j)'
    <3>1. CASE j = i
      BY <2>1, <2>2, <2>4, <2>5, <2>6, <2>7, <3>1 DEF RegisteredIsReady, RegisteredAreReady
    <3>2. CASE j # i
      <4>1. job'[j] = job[j]
        BY <1>3, <2>1, <2>5, <3>2 DEF CommitResult, TypeOK
      <4>2. ObjectsOf(j)' = ObjectsOf(j)
        BY <4>1 DEF ObjectsOf
      <4> QED
        BY <2>1, <2>2, <2>5, <3>2, <4>1, <4>2 DEF RegisteredIsReady, RegisteredAreReady
    <3> QED
      BY <3>1, <3>2
  <2> QED
    BY <2>2, <2>8 DEF RegisteredIsReady, RegisteredAreReady
<1> QED
  BY <1>2, <1>3, RegisteringStep

-----------------------------------------------------------------------------
(* Theorems.                                                               *)

\* The invariant is inductive, so it holds of every reachable state.
THEOREM InvariantHolds == Spec => []IInv
<1>1. IInv /\ [Next]_vars => IInv'
  BY TypeNext, ClaimsNext, AssetFollowsNext, ObjectsNext, RegisteredNext DEF IInv
<1> QED
  BY InitIInv, <1>1, PTL DEF Spec

\* Jobs, leases, executions and objects are of the types declared for them.
THEOREM TypeCorrect == Spec => []TypeOK
<1>1. IInv => TypeOK
  BY DEF IInv
<1> QED
  BY <1>1, InvariantHolds, PTL

\* No two executions hold the lease of a job, though all workers may have the
\* same name: the tokens of the executions of a job are distinct.
THEOREM LeasesAreExclusive == Spec => []OneHolder
<1>1. IInv => OneHolder
  BY DEF IInv, ExecutionsAreClaims, OneHolder, Holds
<1> QED
  BY <1>1, InvariantHolds, PTL

\* A stale worker never commits: the result recorded for a job is the one of
\* its last claim.
THEOREM StaleWorkersAreFenced == Spec => []OnlyTheLastClaimDecides
<1>1. IInv => OnlyTheLastClaimDecides
  BY DEF IInv
<1> QED
  BY <1>1, InvariantHolds, PTL

\* An asset's status is always the one its job's status calls for.
THEOREM AssetsFollowTheirJobs == Spec => []AssetFollowsJob
<1>1. IInv => AssetFollowsJob
  BY DEF IInv
<1> QED
  BY <1>1, InvariantHolds, PTL

\* Repeated executions of a job never leave two objects of the same kind.
THEOREM RetriesAreIdempotent == Spec => []RetriesWriteTheSameObjects
<1>1. ASSUME IInv, NEW k \in derived, NEW l \in derived, k[1] = l[1], k[2] = l[2]
      PROVE  k = l
  <2>1. k \in ObjectsOf(k[1]) /\ l \in ObjectsOf(k[1])
    BY <1>1 DEF IInv, ObjectsAreDue
  <2> QED
    BY <1>1, <2>1 DEF ObjectsOf, Key
<1>2. IInv => RetriesWriteTheSameObjects
  BY <1>1 DEF RetriesWriteTheSameObjects
<1> QED
  BY <1>2, InvariantHolds, PTL

\* A ready asset has all of its artifacts registered and stored, and an asset
\* that is not ready has none registered.
THEOREM ReadyMeansComplete == Spec => []ReadyAssetsAreComplete
<1>1. ASSUME IInv, NEW j \in Jobs
      PROVE  {key \in registered : key[1] = j} =
               IF job[j].result = "ready"
               THEN {key \in derived : key[1] = j /\ key[2] \in Kinds}
               ELSE {}
  <2>1. \A key \in derived : key[2] \in Kinds /\ key \in ObjectsOf(key[1])
    BY <1>1 DEF IInv, TypeOK, ObjectsAreDue
  <2>2. registered \subseteq derived /\ RegisteredIsReady(j)
    BY <1>1 DEF IInv, RegisteredAreReady, RegisteredIsReady
  <2> QED
    BY <2>1, <2>2 DEF RegisteredIsReady
<1>2. IInv => ReadyAssetsAreComplete
  BY <1>1 DEF ReadyAssetsAreComplete
<1> QED
  BY <1>2, InvariantHolds, PTL

\* What is settled is settled: no later step changes a decided job or its
\* asset.
THEOREM DecisionsAreFinal == Spec => SettledForGood
<1> DEFINE Final == \A j \in Jobs : job[j].status \in Settled =>
                       job'[j] = job[j] /\ asset'[j] = asset[j]
<1>1. IInv /\ [Next]_vars => [Final]_vars
  BY JobAndAssetMove DEF RowsMove
<1>2. Spec => [][Final]_vars
  BY <1>1, InvariantHolds, PTL DEF Spec
<1> QED
  BY <1>2 DEF SettledForGood

-----------------------------------------------------------------------------
(* The processing jobs keep the promises of LeasedJobs.                    *)

\* What a step may do to what LeasedJobs shows of a job.
JobMoves(old, new) ==
    \/ /\ new.attempts = old.attempts /\ new.completedBy = old.completedBy
       /\ \/ new.status = old.status
          \/ old.status = "leased" /\ new.status = "retryable"
    \/ /\ old.status = "absent" /\ new.status = "queued"
       /\ new.attempts = old.attempts
    \/ /\ old.status \in {"queued", "retryable", "leased"} /\ new.status = "leased"
       /\ new.attempts = old.attempts + 1
    \/ /\ old.status = "leased" /\ new.status = "succeeded"
       /\ new.attempts = old.attempts /\ new.completedBy = old.attempts
    \/ /\ old.status \in {"queued", "retryable", "leased"} /\ new.status = "failed"
       /\ new.attempts = old.attempts

\* Every step moves every job so.
LEMMA EveryJobMoves ==
    ASSUME IInv, [Next]_vars, NEW i \in Jobs
    PROVE  JobMoves(job[i], job'[i])
<1> TypeOK /\ ExecutionsAreClaims /\ LeasesAreOfTheLastClaim
  BY DEF IInv
<1>0. job[i] \in Job
  BY DEF TypeOK
<1>1. ASSUME job'[i] = job[i] PROVE JobMoves(job[i], job'[i])
  BY <1>1 DEF JobMoves
<1>2. ASSUME NEW j \in Jobs, Enqueue(j) \/ LeaseLapses(j) \/ BecomesDue(j)
      PROVE  JobMoves(job[i], job'[i])
  <2>1. CASE i # j
    BY <1>1, <1>2, <2>1 DEF Enqueue, LeaseLapses, BecomesDue, TypeOK
  <2>2. CASE i = j
    BY <1>0, <1>2, <2>2 DEF Enqueue, LeaseLapses, BecomesDue, TypeOK, Job, JobMoves
  <2> QED
    BY <2>1, <2>2
<1>3. ASSUME NEW w \in Workers, NEW j \in Jobs, Claim(w, j) \/ RejectInvalidCommand(w, j)
      PROVE  JobMoves(job[i], job'[i])
  <2>1. CASE i # j
    BY <1>1, <1>3, <2>1 DEF Claim, RejectInvalidCommand, TypeOK
  <2>2. CASE i = j
    <3>1. CASE Claim(w, j)
      BY <1>0, <2>2, <3>1 DEF Claim, Claimable, TypeOK, Job, JobMoves
    <3>2. CASE RejectInvalidCommand(w, j)
      BY <1>0, <2>2, <3>2 DEF RejectInvalidCommand, Claimable, TypeOK, Job, JobMoves
    <3> QED
      BY <1>3, <3>1, <3>2
  <2> QED
    BY <2>1, <2>2
<1>4. ASSUME NEW w \in Workers, worker[w] # Idle, CommitResult(w)
      PROVE  JobMoves(job[i], job'[i])
  <2> DEFINE e == worker[w]
  <2>1. e.job \in Jobs /\ job[e.job].status = "leased" /\ e.token = job[e.job].attempts
    BY <1>4 DEF TypeOK, Execution, CommitResult, Holds, LeasesAreOfTheLastClaim
  <2>2. CASE i # e.job
    BY <1>1, <1>4, <2>1, <2>2 DEF CommitResult, TypeOK
  <2>3. CASE i = e.job
    <3>1. /\ job'[i].status = "succeeded" /\ job'[i].attempts = job[i].attempts
          /\ job'[i].completedBy = e.token
      BY <1>0, <1>4, <2>1, <2>3 DEF CommitResult, Released, TypeOK, Job
    <3> QED
      BY <2>1, <2>3, <3>1 DEF JobMoves
  <2> QED
    BY <2>2, <2>3
<1>5. ASSUME NEW w \in Workers, worker[w] # Idle, CommitRetry(w)
      PROVE  JobMoves(job[i], job'[i])
  <2> DEFINE j == worker[w].job
  <2>1. j \in Jobs /\ job[j].status = "leased"
    BY <1>5 DEF TypeOK, Execution, CommitRetry, Holds
  <2>2. CASE i # j
    BY <1>1, <1>5, <2>1, <2>2 DEF CommitRetry, RecordFailure, TypeOK
  <2>3. CASE i = j
    <3> DEFINE retried == [Released(i, "retryable") EXCEPT !.due = FALSE]
    <3>1. job'[i] = retried \/ job'[i] = Released(i, "failed")
      BY <1>5, <2>1, <2>3 DEF CommitRetry, RecordFailure, TypeOK
    <3>2. \A r \in {retried, Released(i, "failed")} :
             /\ r.status \in {"retryable", "failed"}
             /\ r.attempts = job[i].attempts /\ r.completedBy = job[i].completedBy
      BY <1>0 DEF Released, Job
    <3>3. /\ job'[i].status \in {"retryable", "failed"}
          /\ job'[i].attempts = job[i].attempts /\ job'[i].completedBy = job[i].completedBy
      BY <3>1, <3>2
    <3> QED
      BY <2>1, <2>3, <3>3 DEF JobMoves
  <2> QED
    BY <2>2, <2>3
<1>6. ASSUME NEW w \in Workers, RunnerStep(w) PROVE JobMoves(job[i], job'[i])
  <2>1. ASSUME NEW outcome \in Outcomes, Prepare(w, outcome) PROVE job' = job
    BY <2>1 DEF Prepare
  <2>2. CASE Write(w) \/ Abandon(w)
    BY <1>1, <2>2 DEF Write, Abandon
  <2>3. CASE \E answered \in BOOLEAN : Complete(w, answered)
    BY <1>4, <2>3 DEF Complete, InPhase, Idle
  <2>4. CASE Retry(w)
    BY <1>5, <2>4 DEF Retry, InPhase, Idle
  <2> QED
    BY <1>1, <1>6, <2>1, <2>2, <2>3, <2>4 DEF RunnerStep
<1>7. CASE job' = job
  BY <1>1, <1>7
<1> QED
  BY <1>2, <1>3, <1>6, <1>7 DEF Next, Fail, HeartbeatFails, Stop, vars

\* What LeasedJobs shows of a job is a row of four columns.
AssetStatuses == {"absent", "waiting", "working", "stopping", "done", "cancelled", "failed"}

AssetShown == [status : AssetStatuses, attempt : Nat, claims : Nat, output : Nat \X Nat]

LEMMA AssetShownColumns ==
    \A r \in AssetShown :
        r = [status |-> r.status, attempt |-> r.attempt, claims |-> r.claims, output |-> r.output]
  BY DEF AssetShown

\* The steps of LeasedJobs, column by column.
LEMMA AssetQueueShown ==
    ASSUME NEW old \in AssetShown, old.status \in {"absent", "cancelled", "failed"},
           old.attempt < 1,
           NEW new, new = [status |-> "waiting", attempt |-> old.attempt + 1, claims |-> 0,
                           output |-> old.output]
    PROVE  Leased!Queue(old, new)
<1> DEFINE q == [old EXCEPT !.status = "waiting", !.attempt = @ + 1, !.claims = 0]
<1>0. old.attempt + 1 \in Nat /\ old.claims + 1 \in Nat
      /\ <<old.attempt, old.claims>> \in Nat \X Nat
  BY DEF AssetShown
<1>1. /\ q \in AssetShown /\ q.status = "waiting" /\ q.attempt = old.attempt + 1
      /\ q.claims = 0 /\ q.output = old.output
  BY <1>0 DEF AssetShown, AssetStatuses
<1> HIDE DEF q
<1>2. new = q
  BY <1>1, AssetShownColumns
<1> QED
  BY <1>2 DEF Leased!Queue, q

LEMMA AssetClaimShown ==
    ASSUME NEW old \in AssetShown, old.status \in {"waiting", "working"},
           NEW new, new = [status |-> "working", attempt |-> old.attempt, claims |-> old.claims + 1,
                           output |-> old.output]
    PROVE  Leased!Claim(old, new)
<1> DEFINE q == [old EXCEPT !.status = "working", !.claims = @ + 1]
<1>0. old.attempt + 1 \in Nat /\ old.claims + 1 \in Nat
      /\ <<old.attempt, old.claims>> \in Nat \X Nat
  BY DEF AssetShown
<1>1. /\ q \in AssetShown /\ q.status = "working" /\ q.attempt = old.attempt
      /\ q.claims = old.claims + 1 /\ q.output = old.output
  BY <1>0 DEF AssetShown, AssetStatuses
<1> HIDE DEF q
<1>2. new = q
  BY <1>1, AssetShownColumns
<1> QED
  BY <1>2 DEF Leased!Claim, q

LEMMA AssetFinishShown ==
    ASSUME NEW old \in AssetShown, old.status = "working",
           NEW new, new = [status |-> "done", attempt |-> old.attempt, claims |-> old.claims,
                           output |-> <<old.attempt, old.claims>>]
    PROVE  Leased!Finish(old, new)
<1> DEFINE q == [old EXCEPT !.status = "done", !.output = <<old.attempt, old.claims>>]
<1>0. old.attempt + 1 \in Nat /\ old.claims + 1 \in Nat
      /\ <<old.attempt, old.claims>> \in Nat \X Nat
  BY DEF AssetShown
<1>1. /\ q \in AssetShown /\ q.status = "done" /\ q.attempt = old.attempt
      /\ q.claims = old.claims /\ q.output = <<old.attempt, old.claims>>
  BY <1>0 DEF AssetShown, AssetStatuses
<1> HIDE DEF q
<1>2. new = q
  BY <1>1, AssetShownColumns
<1> QED
  BY <1>2 DEF Leased!Finish, q

LEMMA AssetEndShown ==
    ASSUME NEW old \in AssetShown,
           NEW status \in AssetStatuses, <<old.status, status>> \in Leased!Endings,
           NEW new, new = [status |-> status, attempt |-> old.attempt, claims |-> old.claims,
                           output |-> old.output]
    PROVE  Leased!End(old, new)
<1> DEFINE q == [old EXCEPT !.status = status]
<1>0. old.attempt + 1 \in Nat /\ old.claims + 1 \in Nat
      /\ <<old.attempt, old.claims>> \in Nat \X Nat
  BY DEF AssetShown
<1>1. /\ q \in AssetShown /\ q.status = status /\ q.attempt = old.attempt
      /\ q.claims = old.claims /\ q.output = old.output
  BY <1>0 DEF AssetShown, AssetStatuses
<1> HIDE DEF q
<1>2. new = q
  BY <1>1, AssetShownColumns
<1> QED
  BY <1>2 DEF Leased!End, q

\* Such a move is a step of LeasedJobs, or does not show.
LEMMA JobMovesAreSteps ==
    ASSUME IInv, TypeOK', NEW j \in Jobs, JobMoves(job[j], job'[j])
    PROVE  View'[j] = View[j] \/ Leased!Step(View[j], View'[j])
<1> DEFINE Attempt(r) == IF r.status = "absent" THEN 0 ELSE 1
           Output(r) == IF r.status = "succeeded" THEN <<1, r.completedBy>> ELSE <<0, 0>>
<1>1. /\ View[j] = [status |-> Status(job[j].status), attempt |-> Attempt(job[j]),
                    claims |-> job[j].attempts, output |-> Output(job[j])]
      /\ View'[j] = [status |-> Status(job'[j].status), attempt |-> Attempt(job'[j]),
                     claims |-> job'[j].attempts, output |-> Output(job'[j])]
  BY DEF View
<1>2. /\ job[j].status \in {"absent", "queued", "leased", "retryable", "succeeded", "failed"}
      /\ job'[j].status \in {"absent", "queued", "leased", "retryable", "succeeded", "failed"}
  BY DEF IInv, TypeOK, Job
<1>3. job[j].status = "absent" => job[j].attempts = 0
  BY DEF IInv, LeasesAreOfTheLastClaim
<1> DEFINE old == View[j]  new == View'[j]
<1>4. /\ old \in AssetShown /\ old.status = Status(job[j].status) /\ old.claims = job[j].attempts
      /\ old.attempt = Attempt(job[j]) /\ old.output = Output(job[j])
  <2>1. /\ job[j].attempts \in Nat /\ job[j].completedBy \in Nat
        /\ Status(job[j].status) \in AssetStatuses
    BY <1>2, InitialRows DEF IInv, TypeOK, Job, Status, AssetStatuses
  <2>2. Output(job[j]) \in Nat \X Nat /\ Attempt(job[j]) \in Nat
    BY <2>1
  <2> QED
    BY <1>1, <2>1, <2>2 DEF AssetShown
<1>5. CASE /\ job'[j].attempts = job[j].attempts /\ job'[j].completedBy = job[j].completedBy
           /\ \/ job'[j].status = job[j].status
              \/ job[j].status = "leased" /\ job'[j].status = "retryable"
  BY <1>1, <1>5 DEF Status
<1>6. CASE /\ job[j].status = "absent" /\ job'[j].status = "queued"
           /\ job'[j].attempts = job[j].attempts
  <2>1. old.status = "absent" /\ old.attempt = 0 /\ old.output = <<0, 0>>
    BY <1>4, <1>6 DEF Status
  <2>2. new = [status |-> "waiting", attempt |-> old.attempt + 1, claims |-> 0,
               output |-> old.output]
    BY <1>1, <1>3, <1>6, <2>1 DEF Status
  <2> HIDE DEF old, new
  <2>3. Leased!Queue(old, new)
    BY <1>4, <2>1, <2>2, AssetQueueShown
  <2> QED
    BY <2>3 DEF Leased!Step, old, new
<1>7. CASE /\ job[j].status \in {"queued", "retryable", "leased"} /\ job'[j].status = "leased"
           /\ job'[j].attempts = job[j].attempts + 1
  <2>1. old.status \in {"waiting", "working"} /\ old.attempt = 1 /\ old.output = <<0, 0>>
    BY <1>4, <1>7 DEF Status
  <2>2. new = [status |-> "working", attempt |-> old.attempt, claims |-> old.claims + 1,
               output |-> old.output]
    BY <1>1, <1>4, <1>7, <2>1 DEF Status
  <2> HIDE DEF old, new
  <2>3. Leased!Claim(old, new)
    BY <1>4, <2>1, <2>2, AssetClaimShown
  <2> QED
    BY <2>3 DEF Leased!Step, old, new
<1>8. CASE /\ job[j].status = "leased" /\ job'[j].status = "succeeded"
           /\ job'[j].attempts = job[j].attempts /\ job'[j].completedBy = job[j].attempts
  <2>1. old.status = "working" /\ old.attempt = 1
    BY <1>4, <1>8 DEF Status
  <2>2. new = [status |-> "done", attempt |-> old.attempt, claims |-> old.claims,
               output |-> <<old.attempt, old.claims>>]
    BY <1>1, <1>4, <1>8, <2>1 DEF Status
  <2> HIDE DEF old, new
  <2>3. Leased!Finish(old, new)
    BY <1>4, <2>1, <2>2, AssetFinishShown
  <2> QED
    BY <2>3 DEF Leased!Step, old, new
<1>9. CASE /\ job[j].status \in {"queued", "retryable", "leased"} /\ job'[j].status = "failed"
           /\ job'[j].attempts = job[j].attempts
  <2>1. Leased!End(View[j], View'[j])
    BY <1>1, <1>9 DEF Status, Leased!End, Leased!Endings
  <2> QED
    BY <2>1 DEF Leased!Step
<1> QED
  BY <1>5, <1>6, <1>7, <1>8, <1>9 DEF JobMoves

\* The queue of assets keeps the promises of LeasedJobs.
THEOREM AssetsAreLeasedJobs == Spec => ImplementsLeasedJobs
<1>1. Init => Leased!Init
  <2> SUFFICES ASSUME Init PROVE Leased!Init
    OBVIOUS
  <2>1. \A j \in Jobs : View[j] =
            [status |-> "absent", attempt |-> 0, claims |-> 0, output |-> <<0, 0>>]
    BY DEF View, Init, Status
  <2> QED
    BY <2>1 DEF View, Leased!Init, Leased!NoOutput
<1>2. IInv /\ IInv' /\ [Next]_vars => [Leased!Next]_View
  <2> SUFFICES ASSUME IInv, IInv', [Next]_vars PROVE Leased!Next
    OBVIOUS
  <2>1. DOMAIN View' = Jobs
    BY DEF View
  <2>2. \A j \in Jobs : View'[j] = View[j] \/ Leased!Step(View[j], View'[j])
    BY EveryJobMoves, JobMovesAreSteps DEF IInv
  <2> QED
    BY <2>1, <2>2 DEF Leased!Next
<1> QED
  BY <1>1, <1>2, InvariantHolds, PTL DEF Spec, ImplementsLeasedJobs, Leased!Spec

-----------------------------------------------------------------------------
(* The inductive invariant of the plan jobs of C6.  A handler is shown to  *)
(* move the last attempt of a root by one of a few transitions, to append  *)
(* one, or to leave it alone; that these keep PlanIInv, and that they are  *)
(* steps of LeasedJobs, is shown once for each.                            *)

PlanJobStates ==
    {"queued", "processing", "cancel-requested", "cancelled", "failed", "abstained", "proposed"}

PlanLive == {"queued", "processing", "cancel-requested"}

PlanPhases == {"normalizing", "parsing", "parsed", "publishing", "failing", "cancelling"}

PlanJobRow == [state : PlanJobStates, retryable : BOOLEAN, claims : Nat, token : Nat,
  lapsed : BOOLEAN]

PlanIds == JobsOf["plans"] \X (Nat \ {0})

PlanResultRow == [id : PlanIds, claim : Nat, status : {"proposal", "abstained"}]

PlanDraftRow == [id : PlanIds, validatedOn : Nat, storedAt : Nat]

PlanRequestRow == {Plans!NoRequest} \cup [id : PlanIds, expects : Nat]

PlanExecution == [phase : PlanPhases, id : PlanIds, token : Nat \ {0}]

PlanWorkerRow == {Plans!Idle} \cup PlanExecution

PlanTypeOK ==
    /\ plans \in [JobsOf["plans"] -> Seq(PlanJobRow)]
    /\ created \in Seq(PlanIds)
    /\ planResults \subseteq PlanResultRow
    /\ branch \in Nat
    /\ request \in PlanRequestRow
    /\ drafts \subseteq PlanDraftRow
    /\ planWorker \in [Workers -> PlanWorkerRow]

\* A row that has a token has the token of its last claim.
PlanRowAgrees(row) ==
    /\ row.state = "queued" => row.claims = 0
    /\ row.state \in {"processing", "cancel-requested"} => row.claims > 0 /\ row.token = row.claims
    /\ row.state \notin {"processing", "cancel-requested"} => row.token = 0

\* Every attempt but the last is one that may be followed.
PlanAttemptsAgree(tries) ==
    \A i \in 1..Len(tries) :
        /\ PlanRowAgrees(tries[i])
        /\ i < Len(tries) => tries[i].state \in {"abstained", "failed"}

PlanRowsAgree == \A r \in JobsOf["plans"] : PlanAttemptsAgree(plans[r])

PlanHasAttempt(all, id) == id[2] <= Len(all[id[1]])

PlanAttemptsExist ==
    /\ \A i \in 1..Len(created) : PlanHasAttempt(plans, created[i])
    /\ \A w \in Workers : planWorker[w] # Plans!Idle => PlanHasAttempt(plans, planWorker[w].id)

PlanStateOf(status) == IF status = "proposal" THEN "proposed" ELSE "abstained"

\* An attempt has one result, and its state.
PlanResultsAgree ==
    /\ \A x \in planResults : PlanHasAttempt(plans, x.id)
         /\ Plans!Row(x.id).state = PlanStateOf(x.status)
    /\ \A x, y \in planResults : x.id = y.id => x = y

PlanDraftsAgree ==
    /\ request # Plans!NoRequest => Plans!IsProposal(request.id)
    /\ \A d \in drafts : d.validatedOn = d.storedAt /\ Plans!IsProposal(d.id)

PlanIInv ==
    /\ PlanTypeOK
    /\ PlanRowsAgree
    /\ PlanAttemptsExist
    /\ PlanResultsAgree
    /\ PlanDraftsAgree

-----------------------------------------------------------------------------
(* What a step may do to the last attempt of a root, and to its attempts.  *)

PlanClaimed(old, new) ==
    /\ old.state \in {"queued", "processing"}
    /\ new.state = "processing" /\ new.claims = old.claims + 1 /\ new.token = new.claims

PlanAskedToStop(old, new) ==
    /\ old.state = "processing" /\ new.state = "cancel-requested"
    /\ new.claims = old.claims /\ new.token = old.token

PlanLapsed(old, new) ==
    /\ old.state \in {"processing", "cancel-requested"} /\ new.state = old.state
    /\ new.claims = old.claims /\ new.token = old.token

PlanEndedAs(old, new, state) ==
    new.state = state /\ new.token = 0 /\ new.claims = old.claims

PlanClosed(old, new) ==
    \/ old.state = "queued" /\ PlanEndedAs(old, new, "cancelled")
    \/ /\ old.state = "processing"
       /\ \E state \in {"failed", "abstained"} : PlanEndedAs(old, new, state)
    \/ old.state = "cancel-requested" /\ PlanEndedAs(old, new, "cancelled")

PlanDone(old, new) == old.state = "processing" /\ PlanEndedAs(old, new, "proposed")

PlanRowStep(old, new) ==
    PlanClaimed(old, new) \/ PlanAskedToStop(old, new) \/ PlanLapsed(old, new)
      \/ PlanClosed(old, new)

PlanSame(r) == plans'[r] = plans[r]

\* The last attempt of a root becomes "new".
PlanLastIs(r, new) ==
    /\ plans[r] # <<>> /\ new \in PlanJobRow
    /\ plans'[r] = [plans[r] EXCEPT ![Len(plans[r])] = new]

PlanMoved(r) == \E new \in PlanJobRow : PlanLastIs(r, new) /\ PlanRowStep(Plans!At(r), new)

PlanAppended(r) ==
    /\ plans[r] # <<>> => Plans!At(r).state \in {"abstained", "failed"}
    /\ Len(plans[r]) < AttemptsOf["plans"]
    /\ plans'[r] = Append(plans[r], Plans!QueuedRow)

PlanFinished(r) == \E new \in PlanJobRow : PlanLastIs(r, new) /\ PlanDone(Plans!At(r), new)

PlanTransition(r) == PlanSame(r) \/ PlanMoved(r) \/ PlanAppended(r)

PlanStepTyped ==
    /\ plans' \in [JobsOf["plans"] -> Seq(PlanJobRow)]
    /\ \/ created' = created
       \/ created' \in Seq(PlanIds)
            /\ \A i \in 1..Len(created') : PlanHasAttempt(plans', created'[i])
    /\ planWorker' \in [Workers -> PlanWorkerRow]
    /\ \A w \in Workers : planWorker'[w] # Plans!Idle => PlanHasAttempt(plans, planWorker'[w].id)

\* A step without a result, and one with a result.
PlanQuiet ==
    /\ PlanStepTyped /\ UNCHANGED <<planResults, branch, request, drafts>>
    /\ \A r \in JobsOf["plans"] : PlanTransition(r)

PlanPublished(r, status) ==
    /\ PlanStepTyped /\ UNCHANGED <<branch, request, drafts>>
    /\ Plans!At(r).state = "processing" /\ \A k \in JobsOf["plans"] \ {r} : PlanSame(k)
    /\ \E new \in PlanJobRow : PlanLastIs(r, new)
         /\ PlanEndedAs(Plans!At(r), new, PlanStateOf(status))
    /\ planResults' = planResults \cup
          {[id |-> <<r, Len(plans[r])>>, claim |-> Plans!At(r).claims, status |-> status]}

-----------------------------------------------------------------------------
(* Attempts.                                                               *)

LEMMA PlanPresentRows ==
    ASSUME PlanIInv, NEW r \in JobsOf["plans"]
    PROVE  /\ PlanTypeOK /\ PlanAttemptsAgree(plans[r]) /\ plans[r] \in Seq(PlanJobRow)
           /\ Len(plans[r]) \in Nat
           /\ plans[r] # <<>> => Len(plans[r]) \in Nat \ {0} /\ Plans!At(r) \in PlanJobRow
                /\ PlanRowAgrees(Plans!At(r))
  <1>1. PlanTypeOK /\ PlanAttemptsAgree(plans[r]) /\ plans[r] \in Seq(PlanJobRow)
    BY DEF PlanIInv, PlanTypeOK, PlanRowsAgree
  <1>2. Len(plans[r]) \in Nat
    BY <1>1, LenProperties
  <1>3. ASSUME plans[r] # <<>>
        PROVE  Len(plans[r]) \in Nat \ {0} /\ Plans!At(r) \in PlanJobRow
                 /\ PlanRowAgrees(Plans!At(r))
    <2>1. Len(plans[r]) \in Nat \ {0}
      BY <1>1, <1>3, EmptySeq
    <2>2. Len(plans[r]) \in 1..Len(plans[r])
      BY <2>1
    <2> QED
      BY <1>1, <2>1, <2>2, ElementOfSeq DEF Plans!At, PlanAttemptsAgree
  <1> QED
    BY <1>1, <1>2, <1>3

LEMMA PlanLastChanged ==
    ASSUME NEW s \in Seq(PlanJobRow), s # <<>>, NEW new \in PlanJobRow,
           NEW t, t = [s EXCEPT ![Len(s)] = new]
    PROVE  /\ Len(s) \in Nat \ {0} /\ t \in Seq(PlanJobRow) /\ t # <<>> /\ Len(t) = Len(s)
           /\ t[Len(s)] = new
           /\ \A i \in 1..Len(s) : i < Len(s) => t[i] = s[i]
  <1>1. Len(s) \in Nat \ {0}
    BY EmptySeq
  <1>2. Len(s) \in 1..Len(s)
    BY <1>1
  <1>3. /\ t \in Seq(PlanJobRow) /\ Len(t) = Len(s)
        /\ \A i \in 1..Len(s) : t[i] = IF i = Len(s) THEN new ELSE s[i]
    BY <1>2, ExceptSeq
  <1>4. t # <<>>
    BY <1>1, <1>3, EmptySeq
  <1>5. ASSUME NEW i \in 1..Len(s), i < Len(s) PROVE t[i] = s[i]
    <2>1. t[i] = IF i = Len(s) THEN new ELSE s[i]
      BY <1>3
    <2>2. i # Len(s)
      BY <1>1, <1>5
    <2> QED
      BY <2>1, <2>2
  <1>6. t[Len(s)] = new
    BY <1>2, <1>3
  <1> QED
    BY <1>1, <1>3, <1>4, <1>5, <1>6

\* Row transitions keep a row's agreement.
LEMMA PlanRowStepsAgree ==
    ASSUME NEW old \in PlanJobRow, NEW new \in PlanJobRow, PlanRowAgrees(old),
           PlanRowStep(old, new) \/ PlanDone(old, new)
    PROVE  PlanRowAgrees(new) /\ old.state \in PlanLive
  BY DEF PlanRowStep, PlanClaimed, PlanAskedToStop, PlanLapsed, PlanClosed, PlanDone, PlanEndedAs,
           PlanRowAgrees, PlanJobRow, PlanLive

LEMMA PlanQueuedRowAgrees == Plans!QueuedRow \in PlanJobRow /\ PlanRowAgrees(Plans!QueuedRow)
  BY DEF Plans!QueuedRow, PlanJobRow, PlanJobStates, PlanRowAgrees

\* What a step does to the attempts of a root: they stay in agreement, none
\* disappears, and those that are over stay as they are.
LEMMA PlanAttemptsAfter ==
    ASSUME PlanIInv, NEW r \in JobsOf["plans"], PlanTransition(r) \/ PlanFinished(r)
    PROVE  /\ PlanAttemptsAgree(plans'[r])
           /\ plans'[r] \in Seq(PlanJobRow) /\ Len(plans'[r]) >= Len(plans[r])
           /\ \A i \in 1..Len(plans[r]) : plans[r][i].state \notin PlanLive
                => plans'[r][i] = plans[r][i]
  <1>1. /\ PlanAttemptsAgree(plans[r]) /\ plans[r] \in Seq(PlanJobRow) /\ Len(plans[r]) \in Nat
        /\ plans[r] # <<>> => Len(plans[r]) \in Nat \ {0} /\ Plans!At(r) \in PlanJobRow
             /\ PlanRowAgrees(Plans!At(r))
    BY PlanPresentRows
  <1>2. CASE PlanSame(r)
    BY <1>1, <1>2 DEF PlanSame
  <1>3. ASSUME NEW new \in PlanJobRow, PlanLastIs(r, new), PlanRowStep(Plans!At(r), new)
                 \/ PlanDone(Plans!At(r), new)
        PROVE  /\ PlanAttemptsAgree(plans'[r])
               /\ plans'[r] \in Seq(PlanJobRow) /\ Len(plans'[r]) >= Len(plans[r])
               /\ \A i \in 1..Len(plans[r]) : plans[r][i].state \notin PlanLive
                    => plans'[r][i] = plans[r][i]
    <2>1. plans[r] # <<>> /\ plans'[r] = [plans[r] EXCEPT ![Len(plans[r])] = new]
      BY <1>3 DEF PlanLastIs
    <2>2. /\ plans'[r] \in Seq(PlanJobRow) /\ Len(plans'[r]) = Len(plans[r])
               /\ plans'[r][Len(plans[r])] = new
          /\ \A i \in 1..Len(plans[r]) : i < Len(plans[r]) => plans'[r][i] = plans[r][i]
      BY <1>1, <2>1, PlanLastChanged
    <2>3. PlanRowAgrees(new) /\ plans[r][Len(plans[r])].state \in PlanLive
      BY <1>1, <1>3, <2>1, PlanRowStepsAgree DEF Plans!At
    <2>4. \A i \in 1..Len(plans[r]) : i = Len(plans[r]) \/ i < Len(plans[r])
      BY <1>1
    <2>5. PlanAttemptsAgree(plans'[r])
      BY <1>1, <2>2, <2>3, <2>4 DEF PlanAttemptsAgree
    <2> QED
      BY <1>1, <2>2, <2>3, <2>4, <2>5
  <1>4. CASE PlanAppended(r)
    <2>1. /\ plans'[r] \in Seq(PlanJobRow) /\ Len(plans'[r]) = Len(plans[r]) + 1
          /\ plans'[r][Len(plans[r]) + 1] = Plans!QueuedRow
          /\ \A i \in 1..Len(plans[r]) : plans'[r][i] = plans[r][i]
      BY <1>1, <1>4, PlanQueuedRowAgrees, AppendProperties DEF PlanAppended
    <2>2. ASSUME NEW i \in 1..Len(plans[r])
          PROVE  plans[r][i].state \in {"abstained", "failed"}
      <3>1. plans[r] # <<>>
        BY <1>1, EmptySeq
      <3>2. CASE i = Len(plans[r])
        BY <1>4, <3>1, <3>2 DEF PlanAppended, Plans!At
      <3>3. CASE i < Len(plans[r])
        BY <1>1, <3>3 DEF PlanAttemptsAgree
      <3> QED
        BY <1>1, <3>2, <3>3
    <2>3. \A i \in 1..Len(plans'[r]) : i \in 1..Len(plans[r]) \/ i = Len(plans'[r])
      BY <1>1, <2>1
    <2>4. PlanAttemptsAgree(plans'[r])
      BY <1>1, <2>1, <2>2, <2>3, PlanQueuedRowAgrees DEF PlanAttemptsAgree
    <2> QED
      BY <1>1, <2>1, <2>4
  <1> QED
    BY <1>2, <1>3, <1>4 DEF PlanTransition, PlanMoved, PlanFinished

\* Of all roots: attempts stay, with the states of those that are over.
LEMMA PlanAttemptsStay ==
    ASSUME PlanIInv, \A r \in JobsOf["plans"] : PlanTransition(r)
             \/ PlanFinished(r), NEW id \in PlanIds, PlanHasAttempt(plans, id)
    PROVE  PlanHasAttempt(plans', id)
             /\ (Plans!Row(id).state \notin PlanLive => Plans!Row(id)' = Plans!Row(id))
  <1>1. id[1] \in JobsOf["plans"] /\ id[2] \in Nat \ {0}
    BY DEF PlanIds
  <1>2. /\ Len(plans[id[1]]) \in Nat /\ plans'[id[1]] \in Seq(PlanJobRow)
        /\ Len(plans'[id[1]]) >= Len(plans[id[1]])
        /\ \A i \in 1..Len(plans[id[1]]) :
              plans[id[1]][i].state \notin PlanLive => plans'[id[1]][i] = plans[id[1]][i]
    BY <1>1, PlanAttemptsAfter, PlanPresentRows
  <1>3. Len(plans'[id[1]]) \in Nat
    BY <1>2, LenProperties
  <1>4. id[2] \in 1..Len(plans[id[1]])
    BY <1>1, <1>2 DEF PlanHasAttempt
  <1> QED
    BY <1>1, <1>2, <1>3, <1>4 DEF PlanHasAttempt, Plans!Row

\* What of the invariant does not depend on the results.
LEMMA PlanAttemptsKeep ==
    ASSUME PlanIInv, PlanStepTyped, \A r \in JobsOf["plans"] : PlanTransition(r) \/ PlanFinished(r)
    PROVE  PlanRowsAgree' /\ PlanAttemptsExist' /\ created' \in Seq(PlanIds)
  <1>1. PlanRowsAgree'
    BY PlanAttemptsAfter DEF PlanRowsAgree
  <1>2. created' \in Seq(PlanIds) /\ \A i \in 1..Len(created') : PlanHasAttempt(plans', created'[i])
    <2>1. CASE created' = created
      <3>1. created \in Seq(PlanIds) /\ \A i \in 1..Len(created) : PlanHasAttempt(plans, created[i])
        BY DEF PlanIInv, PlanTypeOK, PlanAttemptsExist
      <3>2. \A i \in 1..Len(created) : created[i] \in PlanIds
        BY <3>1, ElementOfSeq
      <3>3. ASSUME NEW i \in 1..Len(created) PROVE PlanHasAttempt(plans', created[i])
        <4>1. PICK id \in PlanIds : id = created[i]
          BY <3>2
        <4>2. PlanHasAttempt(plans', id)
          BY <3>1, <4>1, PlanAttemptsStay
        <4> QED
          BY <2>1, <4>1, <4>2
      <3> QED
        BY <2>1, <3>1, <3>3
    <2> QED
      BY <2>1 DEF PlanStepTyped
  <1>3. ASSUME NEW w \in Workers, planWorker'[w] # Plans!Idle
                 PROVE PlanHasAttempt(plans', planWorker'[w].id)
    <2>1. planWorker'[w] \in PlanWorkerRow /\ PlanHasAttempt(plans, planWorker'[w].id)
      BY <1>3 DEF PlanStepTyped
    <2>2. PICK id \in PlanIds : id = planWorker'[w].id
      BY <1>3, <2>1 DEF PlanWorkerRow, PlanExecution
    <2>3. PlanHasAttempt(plans', id)
      BY <2>1, <2>2, PlanAttemptsStay
    <2> QED
      BY <2>2, <2>3 DEF PlanHasAttempt
  <1> QED
    BY <1>1, <1>2, <1>3 DEF PlanAttemptsExist

\* Results stay those of the attempts they were published for.
LEMMA PlanResultsStay ==
    ASSUME PlanIInv, \A r \in JobsOf["plans"] : PlanTransition(r)
             \/ PlanFinished(r), NEW x \in planResults
    PROVE  PlanHasAttempt(plans', x.id) /\ plans'[x.id[1]][x.id[2]].state = PlanStateOf(x.status)
  <1>1. x.id \in PlanIds /\ PlanHasAttempt(plans, x.id)
          /\ Plans!Row(x.id).state = PlanStateOf(x.status)
    BY DEF PlanIInv, PlanTypeOK, PlanResultRow, PlanResultsAgree
  <1>2. PICK id \in PlanIds : id = x.id
    BY <1>1
  <1>3. Plans!Row(id).state \notin PlanLive
    BY <1>1, <1>2 DEF PlanStateOf, PlanLive
  <1>4. PlanHasAttempt(plans', id) /\ Plans!Row(id)' = Plans!Row(id)
    BY <1>1, <1>2, <1>3, PlanAttemptsStay
  <1> QED
    BY <1>1, <1>2, <1>4 DEF Plans!Row

LEMMA PlanQuietKeeps ==
    ASSUME PlanIInv, PlanQuiet
    PROVE  PlanIInv'
  <1>1. PlanRowsAgree' /\ PlanAttemptsExist' /\ created' \in Seq(PlanIds)
    BY PlanAttemptsKeep DEF PlanQuiet
  <1>2. PlanTypeOK'
    BY <1>1 DEF PlanIInv, PlanTypeOK, PlanQuiet, PlanStepTyped
  <1>3. PlanResultsAgree'
    BY PlanResultsStay DEF PlanIInv, PlanResultsAgree, PlanQuiet, Plans!Row
  <1>4. PlanDraftsAgree'
    BY DEF PlanIInv, PlanDraftsAgree, PlanQuiet, Plans!IsProposal
  <1> QED
    BY <1>1, <1>2, <1>3, <1>4 DEF PlanIInv

LEMMA PlanPublishedKeeps ==
    ASSUME PlanIInv, NEW r \in JobsOf["plans"], NEW status \in {"proposal", "abstained"},
             PlanPublished(r, status)
    PROVE  PlanIInv'
  <1> DEFINE result == [id |-> <<r, Len(plans[r])>>, claim |-> Plans!At(r).claims,
        status |-> status]
  <1>1. PICK new \in PlanJobRow : PlanLastIs(r, new)
          /\ PlanEndedAs(Plans!At(r), new, PlanStateOf(status))
    BY DEF PlanPublished
  <1>2. Plans!At(r).state = "processing" /\ plans[r] # <<>>
    BY <1>1 DEF PlanPublished, PlanLastIs
  <1>3. /\ plans[r] \in Seq(PlanJobRow) /\ Len(plans[r]) \in Nat \ {0} /\ Plans!At(r) \in PlanJobRow
        /\ plans'[r] = [plans[r] EXCEPT ![Len(plans[r])] = new]
    BY <1>1, <1>2, PlanPresentRows DEF PlanLastIs
  <1>4. plans'[r][Len(plans[r])] = new /\ Len(plans'[r]) = Len(plans[r])
    BY <1>2, <1>3, PlanLastChanged
  <1>5. result \in PlanResultRow /\ result.id[1] = r /\ result.id[2] = Len(plans[r])
          /\ result.status = status
    BY <1>3 DEF PlanResultRow, PlanIds, PlanJobRow
  <1>6. planResults' = planResults \cup {result}
    BY DEF PlanPublished
  <1>7. \A x \in planResults : x.id # result.id
    BY <1>2 DEF PlanIInv, PlanResultsAgree, PlanStateOf, Plans!Row, Plans!At
  <1> HIDE DEF result
  <1>8. \A k \in JobsOf["plans"] : PlanTransition(k) \/ PlanFinished(k)
    <2>1. CASE status = "proposal"
      BY <1>1, <1>2, <2>1 DEF PlanPublished, PlanTransition, PlanFinished, PlanDone, PlanStateOf
    <2>2. CASE status = "abstained"
      <3>1. PlanRowStep(Plans!At(r), new)
        BY <1>1, <1>2, <2>2 DEF PlanRowStep, PlanClosed, PlanStateOf
      <3> QED
        BY <1>1, <3>1 DEF PlanPublished, PlanTransition, PlanMoved
    <2> QED
      BY <2>1, <2>2
  <1>9. PlanRowsAgree' /\ PlanAttemptsExist' /\ created' \in Seq(PlanIds)
    BY <1>8, PlanAttemptsKeep DEF PlanPublished
  <1>10. PlanTypeOK'
    BY <1>5, <1>6, <1>9 DEF PlanIInv, PlanTypeOK, PlanPublished, PlanStepTyped
  <1>11. PlanResultsAgree'
    <2>1. ASSUME NEW x \in planResults'
          PROVE  PlanHasAttempt(plans', x.id)
                   /\ plans'[x.id[1]][x.id[2]].state = PlanStateOf(x.status)
      <3>1. CASE x \in planResults
        BY <1>8, <3>1, PlanResultsStay
      <3>2. CASE x = result
        BY <1>1, <1>3, <1>4, <1>5, <3>2 DEF PlanHasAttempt, PlanEndedAs
      <3> QED
        BY <1>6, <3>1, <3>2
    <2>2. \A x, y \in planResults' : x.id = y.id => x = y
      BY <1>6, <1>7 DEF PlanIInv, PlanResultsAgree
    <2> QED
      BY <2>1, <2>2 DEF PlanResultsAgree, Plans!Row
  <1>12. PlanDraftsAgree'
    <2>1. \A id : Plans!IsProposal(id) => Plans!IsProposal(id)'
      BY <1>6 DEF Plans!IsProposal
    <2> QED
      BY <2>1 DEF PlanIInv, PlanDraftsAgree, PlanPublished
  <1> QED
    BY <1>9, <1>10, <1>11, <1>12 DEF PlanIInv

-----------------------------------------------------------------------------
(* The handlers that move one root or none.                                *)

LEMMA PlanOneMoves ==
    ASSUME NEW r \in JobsOf["plans"], PlanTransition(r),
             \A k \in JobsOf["plans"] \ {r} : PlanSame(k), PlanStepTyped,
           UNCHANGED <<planResults, branch, request, drafts>>
    PROVE  PlanQuiet
  BY DEF PlanQuiet, PlanTransition

\* Workers that stay, stop or go on have the attempts they had.
PlanWorkersKeep ==
    /\ planWorker' \in [Workers -> PlanWorkerRow]
    /\ \A w \in Workers : planWorker'[w] # Plans!Idle => planWorker[w] # Plans!Idle
         /\ planWorker'[w].id = planWorker[w].id

LEMMA PlanNoneMoves ==
    ASSUME PlanIInv, UNCHANGED <<plans, created, planResults, branch, request, drafts>>,
             PlanWorkersKeep
    PROVE  PlanQuiet
  BY DEF PlanQuiet, PlanStepTyped, PlanTransition, PlanSame, PlanIInv, PlanTypeOK,
           PlanAttemptsExist, PlanWorkersKeep

LEMMA PlanSameWorkers ==
    ASSUME PlanTypeOK, planWorker' = planWorker
    PROVE  PlanWorkersKeep
  BY DEF PlanWorkersKeep, PlanTypeOK

LEMMA PlanWorkerStops ==
    ASSUME PlanTypeOK, NEW w \in Workers, Plans!Stop(w)
    PROVE  PlanWorkersKeep
  BY DEF PlanWorkersKeep, PlanTypeOK, PlanWorkerRow, Plans!Stop

LEMMA PlanWorkerGoes ==
    ASSUME PlanTypeOK, NEW w \in Workers, NEW phase \in PlanPhases, planWorker[w].phase # "idle",
             Plans!Goes(w, phase)
    PROVE  PlanWorkersKeep
  <1>1. planWorker[w] \in PlanExecution
    BY DEF PlanTypeOK, PlanWorkerRow, Plans!Idle
  <1> DEFINE e == [planWorker[w] EXCEPT !.phase = phase]
  <1>2. e \in PlanExecution /\ e.id = planWorker[w].id
    BY <1>1 DEF PlanExecution
  <1>3. planWorker' = [planWorker EXCEPT ![w] = e]
    BY DEF Plans!Goes, PlanTypeOK
  <1> HIDE DEF e
  <1>4. planWorker[w] # Plans!Idle
    BY DEF Plans!Idle
  <1> QED
    BY <1>2, <1>3, <1>4 DEF PlanTypeOK, PlanWorkerRow, PlanWorkersKeep

\* What SetRow makes of the last attempt of a root.
LEMMA PlanLastSet ==
    ASSUME PlanIInv, NEW r \in JobsOf["plans"], plans[r] # <<>>, NEW new \in PlanJobRow,
           Plans!SetRow(<<r, Len(plans[r])>>, new), created' = created, PlanWorkersKeep
    PROVE  PlanLastIs(r, new) /\ PlanStepTyped /\ \A k \in JobsOf["plans"] \ {r} : PlanSame(k)
  <1>1. PlanTypeOK /\ plans[r] \in Seq(PlanJobRow)
    BY PlanPresentRows
  <1> DEFINE tries == [plans[r] EXCEPT ![Len(plans[r])] = new]
  <1>2. tries \in Seq(PlanJobRow)
    BY <1>1, PlanLastChanged
  <1>3. plans' = [plans EXCEPT ![r] = tries]
    BY <1>1 DEF Plans!SetRow, PlanTypeOK
  <1>4. plans'[r] = tries
    BY <1>1, <1>3 DEF PlanTypeOK
  <1>5. PlanLastIs(r, new)
    BY <1>4 DEF PlanLastIs
  <1> HIDE DEF tries
  <1>6. plans' \in [JobsOf["plans"] -> Seq(PlanJobRow)]
          /\ \A k \in JobsOf["plans"] \ {r} : PlanSame(k)
    BY <1>1, <1>2, <1>3 DEF PlanTypeOK, PlanSame
  <1>7. \A w \in Workers : planWorker'[w] # Plans!Idle => PlanHasAttempt(plans, planWorker'[w].id)
    BY DEF PlanWorkersKeep, PlanIInv, PlanAttemptsExist
  <1> QED
    BY <1>5, <1>6, <1>7 DEF PlanStepTyped, PlanWorkersKeep

\* The same when it is not a result.
LEMMA PlanLastMoves ==
    ASSUME PlanIInv, NEW r \in JobsOf["plans"], plans[r] # <<>>, NEW new \in PlanJobRow,
           Plans!SetRow(<<r, Len(plans[r])>>, new), PlanRowStep(Plans!At(r), new), PlanWorkersKeep,
           UNCHANGED <<created, planResults, branch, request, drafts>>
    PROVE  PlanQuiet
  <1>1. PlanLastIs(r, new) /\ PlanStepTyped /\ \A k \in JobsOf["plans"] \ {r} : PlanSame(k)
    BY PlanLastSet
  <1>2. PlanTransition(r)
    BY <1>1 DEF PlanTransition, PlanMoved
  <1> QED
    BY <1>1, <1>2, PlanOneMoves

LEMMA PlanEndedRow ==
    ASSUME NEW row \in PlanJobRow, NEW state \in PlanJobStates, NEW retryable \in BOOLEAN
    PROVE  Plans!Ended(row, state, retryable) \in PlanJobRow
             /\ PlanEndedAs(row, Plans!Ended(row, state, retryable), state)
  BY DEF Plans!Ended, PlanJobRow, PlanEndedAs

\* One more attempt of a root.
LEMMA PlanAppendMoves ==
    ASSUME PlanIInv, NEW r \in JobsOf["plans"], plans[r] # <<>>
             => Plans!At(r).state \in {"abstained", "failed"},
           Len(plans[r]) < AttemptsOf["plans"],
           plans' = [plans EXCEPT ![r] = Append(plans[r], Plans!QueuedRow)],
           created' = Append(created, <<r, Len(plans[r]) + 1>>),
           UNCHANGED <<planResults, branch, request, drafts, planWorker>>
    PROVE  PlanQuiet
  <1>1. PlanTypeOK /\ plans[r] \in Seq(PlanJobRow) /\ Len(plans[r]) \in Nat
    BY PlanPresentRows
  <1>2. Append(plans[r], Plans!QueuedRow) \in Seq(PlanJobRow)
          /\ Len(Append(plans[r], Plans!QueuedRow)) = Len(plans[r]) + 1
    BY <1>1, PlanQueuedRowAgrees, AppendProperties
  <1>3. plans' \in [JobsOf["plans"] -> Seq(PlanJobRow)]
          /\ plans'[r] = Append(plans[r], Plans!QueuedRow)
        /\ \A k \in JobsOf["plans"] \ {r} : PlanSame(k)
    BY <1>1, <1>2 DEF PlanTypeOK, PlanSame
  <1>4. PlanAppended(r)
    BY <1>3 DEF PlanAppended
  <1>5. \A k \in JobsOf["plans"] : PlanTransition(k)
    BY <1>3, <1>4 DEF PlanTransition
  <1> DEFINE id == <<r, Len(plans[r]) + 1>>
  <1>6. id \in PlanIds /\ id[1] = r /\ id[2] = Len(plans[r]) + 1
    BY <1>1 DEF PlanIds
  <1>7. PlanHasAttempt(plans', id)
    BY <1>1, <1>2, <1>3, <1>6 DEF PlanHasAttempt
  <1> HIDE DEF id
  <1>8. /\ created' \in Seq(PlanIds) /\ Len(created) \in Nat /\ Len(created') = Len(created) + 1
        /\ created'[Len(created) + 1] = id /\ \A i \in 1..Len(created) : created'[i] = created[i]
    BY <1>1, <1>6, AppendProperties, LenProperties DEF PlanTypeOK, id
  <1>9. ASSUME NEW i \in 1..Len(created') PROVE PlanHasAttempt(plans', created'[i])
    <2>1. CASE i = Len(created')
      BY <1>7, <1>8, <2>1
    <2>2. CASE i \in 1..Len(created)
      <3>1. PlanHasAttempt(plans, created[i]) /\ created[i] \in PlanIds
        BY <1>1, <2>2, ElementOfSeq DEF PlanIInv, PlanAttemptsExist, PlanTypeOK
      <3>2. PICK old \in PlanIds : old = created[i]
        BY <3>1
      <3>3. PlanHasAttempt(plans', old)
        BY <1>5, <3>1, <3>2, PlanAttemptsStay
      <3> QED
        BY <1>8, <2>2, <3>2, <3>3
    <2> QED
      BY <1>8, <2>1, <2>2
  <1>10. PlanStepTyped
    BY <1>1, <1>3, <1>8, <1>9 DEF PlanStepTyped, PlanTypeOK, PlanIInv, PlanAttemptsExist
  <1> QED
    BY <1>5, <1>10 DEF PlanQuiet

-----------------------------------------------------------------------------
(* The requests.                                                           *)

LEMMA PlanCreateJobMoves ==
    ASSUME Plans!PlanConstants, PlanIInv, NEW r \in JobsOf["plans"], Plans!CreateJob(r)
    PROVE  PlanQuiet
  <1>1. plans[r] = <<>> /\ Len(plans[r]) = 0
    BY DEF Plans!CreateJob
  <1>2. Append(plans[r], Plans!QueuedRow) = <<Plans!QueuedRow>>
    BY <1>1
  <1>3. plans' = [plans EXCEPT ![r] = Append(plans[r], Plans!QueuedRow)]
    BY <1>2 DEF Plans!CreateJob
  <1>4. created' = Append(created, <<r, Len(plans[r]) + 1>>)
    BY <1>1 DEF Plans!CreateJob
  <1>5. Len(plans[r]) < AttemptsOf["plans"]
    BY <1>1 DEF Plans!PlanConstants
  <1> QED
    BY <1>1, <1>3, <1>4, <1>5, PlanAppendMoves DEF Plans!CreateJob

LEMMA PlanRetryJobMoves ==
    ASSUME PlanIInv, NEW r \in JobsOf["plans"], NEW attempt \in Nat, Plans!RetryJob(r, attempt)
    PROVE  PlanQuiet
  <1>1. plans' = [plans EXCEPT ![r] = Append(plans[r], Plans!QueuedRow)]
    BY DEF Plans!RetryJob, PlanIInv, PlanTypeOK
  <1>2. created' = Append(created, <<r, Len(plans[r]) + 1>>) /\ Len(plans[r]) < AttemptsOf["plans"]
    BY DEF Plans!RetryJob
  <1>3. Plans!At(r).state \in {"abstained", "failed"}
    BY DEF Plans!RetryJob, Plans!At
  <1> QED
    BY <1>1, <1>2, <1>3, PlanAppendMoves DEF Plans!RetryJob

LEMMA PlanCancelJobMoves ==
    ASSUME PlanIInv, NEW r \in JobsOf["plans"], Plans!CancelJob(r)
    PROVE  PlanQuiet
  <1>1. PlanTypeOK /\ plans[r] # <<>> /\ Plans!At(r) \in PlanJobRow
    BY PlanPresentRows DEF Plans!CancelJob
  <1>2. PlanWorkersKeep /\ UNCHANGED <<created, planResults, branch, request, drafts>>
    BY <1>1, PlanSameWorkers DEF Plans!CancelJob
  <1>3. CASE /\ Plans!At(r).state = "queued"
             /\ Plans!SetRow(<<r, Len(plans[r])>>, Plans!Ended(Plans!At(r), "cancelled", FALSE))
    <2>1. PICK new \in PlanJobRow :
              new = Plans!Ended(Plans!At(r), "cancelled", FALSE)
                /\ PlanEndedAs(Plans!At(r), new, "cancelled")
      BY <1>1, PlanEndedRow DEF PlanJobStates
    <2>2. PlanRowStep(Plans!At(r), new)
      BY <1>3, <2>1 DEF PlanRowStep, PlanClosed
    <2> QED
      BY <1>1, <1>2, <1>3, <2>1, <2>2, PlanLastMoves
  <1>4. CASE /\ Plans!At(r).state = "processing"
             /\ Plans!SetRow(<<r, Len(plans[r])>>,
                  [Plans!At(r) EXCEPT !.state = "cancel-requested"])
    <2>1. PICK new \in PlanJobRow :
              new = [Plans!At(r) EXCEPT !.state = "cancel-requested"]
                /\ PlanAskedToStop(Plans!At(r), new)
      BY <1>1, <1>4 DEF PlanJobRow, PlanJobStates, PlanAskedToStop
    <2>2. PlanRowStep(Plans!At(r), new)
      BY <2>1 DEF PlanRowStep
    <2> QED
      BY <1>1, <1>2, <1>4, <2>1, <2>2, PlanLastMoves
  <1> QED
    BY <1>3, <1>4 DEF Plans!CancelJob

LEMMA PlanLeaseLapsesMoves ==
    ASSUME PlanIInv, NEW r \in JobsOf["plans"], Plans!LeaseLapses(r)
    PROVE  PlanQuiet
  <1>1. PlanTypeOK /\ plans[r] # <<>> /\ Plans!At(r) \in PlanJobRow
    BY PlanPresentRows DEF Plans!LeaseLapses
  <1>2. PlanWorkersKeep /\ UNCHANGED <<created, planResults, branch, request, drafts>>
    BY <1>1, PlanSameWorkers DEF Plans!LeaseLapses
  <1>3. PICK new \in PlanJobRow : new = [Plans!At(r) EXCEPT !.lapsed = TRUE]
          /\ PlanLapsed(Plans!At(r), new)
    <2>1. Plans!At(r).state \in {"processing", "cancel-requested"}
      BY DEF Plans!LeaseLapses
    <2>2. \A old \in PlanJobRow :
              LET q == [old EXCEPT !.lapsed = TRUE]
              IN  q \in PlanJobRow /\ q.state = old.state /\ q.claims = old.claims
                    /\ q.token = old.token
      BY DEF PlanJobRow
    <2> QED
      BY <1>1, <2>1, <2>2 DEF PlanLapsed
  <1>4. Plans!SetRow(<<r, Len(plans[r])>>, new)
    BY <1>3 DEF Plans!LeaseLapses, Plans!SetRow, Plans!At
  <1>5. PlanRowStep(Plans!At(r), new)
    BY <1>3 DEF PlanRowStep
  <1> QED
    BY <1>1, <1>2, <1>4, <1>5, PlanLastMoves

\* The steps of drafts and of their branch: a draft is stored on the head its
\* operations were reduced on.
LEMMA PlanDraftingKeeps ==
    ASSUME PlanIInv,
           \/ \E r \in JobsOf["plans"], attempt \in 1..AttemptsOf["plans"] :
                Plans!ValidateDraft(r, attempt)
           \/ Plans!DraftStep
    PROVE  PlanIInv' /\ UNCHANGED <<plans, planResults>>
  <1>1. PlanTypeOK /\ UNCHANGED <<plans, created, planResults, planWorker>>
    BY DEF PlanIInv, Plans!DraftStep, Plans!ValidateDraft, Plans!BranchMoves, Plans!StoreDraft,
             Plans!DraftRefused
  <1>2. PlanRowsAgree' /\ PlanAttemptsExist' /\ PlanResultsAgree'
    BY <1>1 DEF PlanIInv, PlanRowsAgree, PlanAttemptsExist, PlanResultsAgree, Plans!Row
  <1>3. \A id : Plans!IsProposal(id)' <=> Plans!IsProposal(id)
    BY <1>1 DEF Plans!IsProposal
  <1>4. CASE \E r \in JobsOf["plans"], attempt \in 1..AttemptsOf["plans"] :
          Plans!ValidateDraft(r, attempt)
    <2>1. PICK r \in JobsOf["plans"], attempt \in 1..AttemptsOf["plans"] :
            Plans!ValidateDraft(r, attempt)
      BY <1>4
    <2> DEFINE askedFor == [id |-> <<r, attempt>>, expects |-> branch]
    <2>2. askedFor \in PlanRequestRow /\ askedFor.id = <<r, attempt>>
      BY <1>1 DEF PlanTypeOK, PlanRequestRow, PlanIds
    <2>3. request' = askedFor /\ Plans!IsProposal(<<r, attempt>>) /\ UNCHANGED <<branch, drafts>>
      BY <2>1 DEF Plans!ValidateDraft
    <2> HIDE DEF askedFor
    <2>4. PlanTypeOK'
      BY <1>1, <2>2, <2>3 DEF PlanTypeOK
    <2>5. PlanDraftsAgree'
      BY <1>3, <2>2, <2>3 DEF PlanIInv, PlanDraftsAgree
    <2> QED
      BY <1>1, <1>2, <2>4, <2>5 DEF PlanIInv
  <1>5. CASE Plans!BranchMoves
    <2>1. PlanTypeOK' /\ PlanDraftsAgree'
      BY <1>1, <1>3, <1>5 DEF Plans!BranchMoves, PlanTypeOK, PlanIInv, PlanDraftsAgree
    <2> QED
      BY <1>1, <1>2, <2>1 DEF PlanIInv
  <1>6. CASE Plans!StoreDraft
    <2> DEFINE draft == [id |-> request.id, validatedOn |-> request.expects, storedAt |-> branch]
    <2>1. request \in [id : PlanIds, expects : Nat]
      BY <1>1, <1>6 DEF Plans!StoreDraft, PlanTypeOK, PlanRequestRow
    <2>2. draft \in PlanDraftRow /\ draft.validatedOn = draft.storedAt /\ draft.id = request.id
      BY <1>1, <1>6, <2>1 DEF Plans!StoreDraft, PlanTypeOK, PlanDraftRow
    <2>3. drafts' = drafts \cup {draft} /\ request' = Plans!NoRequest /\ branch' = branch
      BY <1>6 DEF Plans!StoreDraft
    <2> HIDE DEF draft
    <2>4. PlanTypeOK'
      BY <1>1, <2>2, <2>3 DEF PlanTypeOK, PlanRequestRow
    <2>5. PlanDraftsAgree'
      BY <1>3, <1>6, <2>2, <2>3 DEF PlanIInv, PlanDraftsAgree, Plans!StoreDraft
    <2> QED
      BY <1>1, <1>2, <2>4, <2>5 DEF PlanIInv
  <1>7. CASE Plans!DraftRefused
    <2>1. PlanTypeOK' /\ PlanDraftsAgree'
      BY <1>1, <1>3, <1>7 DEF Plans!DraftRefused, PlanTypeOK, PlanRequestRow, PlanIInv,
           PlanDraftsAgree
    <2> QED
      BY <1>1, <1>2, <2>1 DEF PlanIInv
  <1> QED
    BY <1>4, <1>5, <1>6, <1>7 DEF Plans!DraftStep

-----------------------------------------------------------------------------
(* claimNext.                                                              *)

\* Only the last attempt of a root may be live.
LEMMA PlanLiveIsLast ==
    ASSUME PlanIInv, NEW id \in PlanIds, PlanHasAttempt(plans, id), Plans!Row(id).state \in PlanLive
    PROVE  /\ id[1] \in JobsOf["plans"] /\ plans[id[1]] # <<>> /\ id = <<id[1], Len(plans[id[1]])>>
           /\ Plans!Row(id) = Plans!At(id[1])
  <1>1. id[1] \in JobsOf["plans"] /\ id[2] \in Nat \ {0} /\ id = <<id[1], id[2]>>
    BY DEF PlanIds
  <1>2. Len(plans[id[1]]) \in Nat /\ PlanAttemptsAgree(plans[id[1]])
    BY <1>1, PlanPresentRows
  <1>3. id[2] \in 1..Len(plans[id[1]])
    BY <1>1, <1>2 DEF PlanHasAttempt
  <1>4. id[2] = Len(plans[id[1]])
    <2> SUFFICES ASSUME id[2] < Len(plans[id[1]]) PROVE FALSE
      BY <1>2, <1>3
    <2> QED
      BY <1>2, <1>3 DEF PlanAttemptsAgree, Plans!Row, PlanLive
  <1>5. plans[id[1]] # <<>>
    BY <1>3
  <1> QED
    BY <1>1, <1>4, <1>5 DEF Plans!Row, Plans!At

\* The sweep ends the last attempt of a root, or leaves the root alone.
LEMMA PlanSweptRoot ==
    ASSUME PlanIInv, NEW r \in JobsOf["plans"]
    PROVE  /\ Plans!Swept[r] \in Seq(PlanJobRow)
           /\ \/ Plans!Swept[r] = plans[r]
              \/ /\ plans[r] # <<>> /\ Plans!At(r).state = "cancel-requested"
                 /\ Plans!Swept[r] = [plans[r] EXCEPT ![Len(plans[r])] = Plans!Ended(Plans!At(r),
                      "cancelled", FALSE)]
  <1>1. PlanAttemptsAgree(plans[r]) /\ plans[r] \in Seq(PlanJobRow) /\ Len(plans[r]) \in Nat
    BY PlanPresentRows
  <1>2. plans[r] \in [1..Len(plans[r]) -> PlanJobRow] /\ DOMAIN plans[r] = 1..Len(plans[r])
    BY <1>1, LenProperties
  <1>3. Plans!Swept[r] = [i \in 1..Len(plans[r]) |->
                       IF Plans!IsOverdue(plans[r][i])
                         THEN Plans!Ended(plans[r][i], "cancelled", FALSE) ELSE plans[r][i]]
    BY <1>2 DEF Plans!Swept
  <1>4. ASSUME NEW i \in 1..Len(plans[r]), Plans!IsOverdue(plans[r][i]) PROVE i = Len(plans[r])
    <2> SUFFICES ASSUME i < Len(plans[r]) PROVE FALSE
      BY <1>1
    <2> QED
      BY <1>1, <1>4 DEF PlanAttemptsAgree, Plans!IsOverdue
  <1>5. CASE \E i \in 1..Len(plans[r]) : Plans!IsOverdue(plans[r][i])
    <2>1. Len(plans[r]) \in 1..Len(plans[r]) /\ Plans!IsOverdue(Plans!At(r)) /\ plans[r] # <<>>
      BY <1>4, <1>5 DEF Plans!At
    <2>2. PICK new \in PlanJobRow : new = Plans!Ended(Plans!At(r), "cancelled", FALSE)
      BY <2>1, PlanPresentRows, PlanEndedRow DEF PlanJobStates
    <2>3. \A i \in 1..Len(plans[r]) :
              (IF Plans!IsOverdue(plans[r][i]) THEN Plans!Ended(plans[r][i], "cancelled", FALSE)
                ELSE plans[r][i])
                = (IF i = Len(plans[r]) THEN new ELSE plans[r][i])
      BY <1>4, <2>1, <2>2 DEF Plans!At
    <2>4. Plans!Swept[r] = [plans[r] EXCEPT ![Len(plans[r])] = new]
      BY <1>2, <1>3, <2>3
    <2>5. [plans[r] EXCEPT ![Len(plans[r])] = new] \in Seq(PlanJobRow)
      BY <1>1, <2>1, ExceptSeq
    <2> QED
      BY <2>1, <2>2, <2>4, <2>5 DEF Plans!IsOverdue
  <1>6. CASE ~\E i \in 1..Len(plans[r]) : Plans!IsOverdue(plans[r][i])
    BY <1>1, <1>2, <1>3, <1>6
  <1> QED
    BY <1>5, <1>6

LEMMA PlanSweptMoves ==
    ASSUME PlanIInv, NEW r \in JobsOf["plans"], plans'[r] = Plans!Swept[r]
    PROVE  PlanTransition(r)
  <1>1. CASE Plans!Swept[r] = plans[r]
    BY <1>1 DEF PlanTransition, PlanSame
  <1>2. CASE Plans!Swept[r] # plans[r]
    <2>1. /\ plans[r] # <<>> /\ Plans!At(r).state = "cancel-requested"
          /\ Plans!Swept[r] = [plans[r] EXCEPT ![Len(plans[r])] = Plans!Ended(Plans!At(r),
               "cancelled", FALSE)]
      BY <1>2, PlanSweptRoot
    <2>2. PICK new \in PlanJobRow :
              new = Plans!Ended(Plans!At(r), "cancelled", FALSE)
                /\ PlanEndedAs(Plans!At(r), new, "cancelled")
      BY <2>1, PlanPresentRows, PlanEndedRow DEF PlanJobStates
    <2>3. PlanLastIs(r, new) /\ PlanRowStep(Plans!At(r), new)
      BY <2>1, <2>2 DEF PlanLastIs, PlanRowStep, PlanClosed
    <2> QED
      BY <2>3 DEF PlanTransition, PlanMoved
  <1> QED
    BY <1>1, <1>2

LEMMA PlanSweepOnlyMoves ==
    ASSUME PlanIInv, NEW w \in Workers, Plans!SweepOnly(w)
    PROVE  PlanQuiet
  <1>1. plans' = Plans!Swept /\ UNCHANGED <<created, planResults, branch, request, drafts,
          planWorker>>
    BY DEF Plans!SweepOnly
  <1>2. plans' \in [JobsOf["plans"] -> Seq(PlanJobRow)]
    <2>1. Plans!Swept = [r \in JobsOf["plans"] |-> Plans!Swept[r]]
      BY DEF Plans!Swept
    <2> QED
      BY <1>1, <2>1, PlanSweptRoot
  <1>3. \A r \in JobsOf["plans"] : PlanTransition(r)
    BY <1>1, PlanSweptMoves
  <1> QED
    BY <1>1, <1>2, <1>3 DEF PlanQuiet, PlanStepTyped, PlanIInv, PlanTypeOK, PlanAttemptsExist

LEMMA PlanLeastMember ==
    ASSUME NEW S, S \subseteq Nat, S # {}
    PROVE  Plans!Min(S) \in S
  <1>1. PICK x \in S : \A y \in S : <<y, x>> \notin OpToRel(<, Nat)
    BY WFMin, NatLessThanWellFounded, Zenon
  <1>2. \A y \in S : <<y, x>> \notin {ss \in Nat \X Nat : ss[1] < ss[2]}
    BY <1>1, Zenon DEF OpToRel
  <1>3. ASSUME NEW y \in S PROVE x <= y
    <2>1. ~(y < x)
      <3>1. DEFINE p == <<y, x>>
      <3>2. p \notin {ss \in Nat \X Nat : ss[1] < ss[2]}
        BY <1>2
      <3>3. p \in Nat \X Nat /\ p[1] = y /\ p[2] = x
        OBVIOUS
      <3> QED
        BY <3>2, <3>3
    <2> QED
      BY <2>1
  <1> QED
    BY <1>3 DEF Plans!Min

LEMMA PlanClaimMoves ==
    ASSUME PlanIInv, NEW w \in Workers, Plans!Claim(w)
    PROVE  PlanQuiet
  <1>1. Plans!Claimable \subseteq Nat /\ created \in Seq(PlanIds)
          /\ DOMAIN created = 1..Len(created)
    BY LenProperties DEF Plans!Claimable, PlanIInv, PlanTypeOK
  <1>2. Plans!Min(Plans!Claimable) \in Plans!Claimable
    BY <1>1, PlanLeastMember DEF Plans!Claim
  <1>3. PICK i \in 1..Len(created) : i = Plans!Min(Plans!Claimable)
          /\ Plans!IsClaimable(Plans!Row(created[i]))
    BY <1>1, <1>2 DEF Plans!Claimable
  <1>4. PICK id \in PlanIds : id = created[i]
    BY <1>1, ElementOfSeq
  <1>5. PlanHasAttempt(plans, id) /\ Plans!IsClaimable(Plans!Row(id))
    BY <1>3, <1>4 DEF PlanIInv, PlanAttemptsExist
  <1>6. Plans!Row(id).state \in {"queued", "processing"}
    BY <1>5 DEF Plans!IsClaimable
  <1>7. PICK r \in JobsOf["plans"] : id = <<r, Len(plans[r])>> /\ plans[r] # <<>>
          /\ Plans!Row(id) = Plans!At(r)
    BY <1>5, <1>6, PlanLiveIsLast DEF PlanLive
  <1>8. PlanTypeOK /\ plans[r] \in Seq(PlanJobRow) /\ Len(plans[r]) \in Nat \ {0}
          /\ Plans!At(r) \in PlanJobRow
    BY <1>7, PlanPresentRows
  <1>9. PICK claim \in Nat \ {0} : claim = Plans!At(r).claims + 1
    BY <1>8 DEF PlanJobRow
  <1> DEFINE new == [state |-> "processing", retryable |-> FALSE, claims |-> claim,
                     token |-> claim, lapsed |-> FALSE]
             e == [phase |-> "normalizing", id |-> id, token |-> claim]
  <1>10. new \in PlanJobRow /\ PlanRowStep(Plans!At(r), new)
    BY <1>6, <1>7, <1>9 DEF PlanJobRow, PlanJobStates, PlanRowStep, PlanClaimed
  <1>11. e \in PlanExecution /\ e.id = id
    BY DEF PlanExecution, PlanPhases
  <1>12. /\ plans' = [Plans!Swept EXCEPT ![r][Len(plans[r])] = new]
              /\ planWorker' = [planWorker EXCEPT ![w] = e]
         /\ UNCHANGED <<created, planResults, branch, request, drafts>>
    <2>1. id[1] = r /\ id[2] = Len(plans[r]) /\ claim = Plans!Row(id).claims + 1
            /\ id = created[Plans!Min(Plans!Claimable)]
      BY <1>3, <1>4, <1>7, <1>9
    <2>2. /\ plans' = [Plans!Swept EXCEPT ![id[1]][id[2]] =
                [state |-> "processing", retryable |-> FALSE, claims |-> Plans!Row(id).claims + 1,
                 token |-> Plans!Row(id).claims + 1, lapsed |-> FALSE]]
          /\ planWorker' = [planWorker EXCEPT ![w] =
                [phase |-> "normalizing", id |-> id, token |-> Plans!Row(id).claims + 1]]
          /\ UNCHANGED <<created, planResults, branch, request, drafts>>
      BY <2>1 DEF Plans!Claim
    <2> QED
      BY <2>1, <2>2
  <1> HIDE DEF new, e
  <1>13. Plans!Swept[r] = plans[r]
    BY <1>6, <1>7, PlanSweptRoot
  <1> DEFINE tries == [plans[r] EXCEPT ![Len(plans[r])] = new]
  <1>14. tries \in Seq(PlanJobRow)
    BY <1>7, <1>8, <1>10, PlanLastChanged
  <1>15. Plans!Swept \in [JobsOf["plans"] -> Seq(PlanJobRow)]
    <2>1. Plans!Swept = [k \in JobsOf["plans"] |-> Plans!Swept[k]]
      BY DEF Plans!Swept
    <2> QED
      BY <2>1, PlanSweptRoot
  <1>16. plans' = [Plans!Swept EXCEPT ![r] = tries]
    BY <1>12, <1>13, <1>15
  <1>17. plans'[r] = tries
    BY <1>15, <1>16
  <1>18. PlanLastIs(r, new)
    BY <1>7, <1>10, <1>17 DEF PlanLastIs
  <1> HIDE DEF tries
  <1>19. plans' \in [JobsOf["plans"] -> Seq(PlanJobRow)]
           /\ \A k \in JobsOf["plans"] \ {r} : plans'[k] = Plans!Swept[k]
    BY <1>14, <1>15, <1>16
  <1>20. \A k \in JobsOf["plans"] : PlanTransition(k)
    BY <1>10, <1>18, <1>19, PlanSweptMoves DEF PlanTransition, PlanMoved
  <1>21. planWorker' \in [Workers -> PlanWorkerRow]
    BY <1>8, <1>11, <1>12 DEF PlanTypeOK, PlanWorkerRow
  <1>22. \A v \in Workers : planWorker'[v] # Plans!Idle => PlanHasAttempt(plans, planWorker'[v].id)
    BY <1>5, <1>8, <1>11, <1>12 DEF PlanIInv, PlanAttemptsExist, PlanTypeOK
  <1> QED
    BY <1>12, <1>19, <1>20, <1>21, <1>22 DEF PlanQuiet, PlanStepTyped

-----------------------------------------------------------------------------
(* The runner.                                                             *)

\* A worker that is busy; and a lease with its token, which is of the last
\* attempt of a root.
LEMMA PlanBusyWorker ==
    ASSUME PlanIInv, NEW w \in Workers, planWorker[w].phase # "idle"
    PROVE  /\ PlanTypeOK /\ planWorker[w] \in PlanExecution /\ planWorker[w].id \in PlanIds
           /\ planWorker[w].token \in Nat \ {0} /\ PlanHasAttempt(plans, planWorker[w].id)
  <1>1. PlanTypeOK /\ planWorker[w] \in PlanExecution
    BY DEF PlanIInv, PlanTypeOK, PlanWorkerRow, Plans!Idle
  <1>2. planWorker[w] # Plans!Idle
    BY DEF Plans!Idle
  <1> QED
    BY <1>1, <1>2 DEF PlanExecution, PlanIInv, PlanAttemptsExist

LEMMA PlanTokenIsOfTheLast ==
    ASSUME PlanIInv, NEW w \in Workers, planWorker[w].phase # "idle", Plans!HasToken(w)
    PROVE  \E r \in JobsOf["plans"] :
              /\ planWorker[w].id = <<r, Len(plans[r])>> /\ plans[r] # <<>>
                   /\ Plans!Row(planWorker[w].id) = Plans!At(r)
              /\ Plans!At(r) \in PlanJobRow /\ planWorker[w].token = Plans!At(r).claims
              /\ Plans!At(r).state \in {"processing", "cancel-requested"}
  <1>1. PICK id \in PlanIds : id = planWorker[w].id /\ PlanHasAttempt(plans, id)
    BY PlanBusyWorker
  <1>2. Plans!Row(id).token = planWorker[w].token /\ planWorker[w].token \in Nat \ {0}
    BY <1>1, PlanBusyWorker DEF Plans!HasToken
  <1>3. id[1] \in JobsOf["plans"] /\ id[2] \in Nat \ {0}
    BY DEF PlanIds
  <1>4. PlanRowAgrees(Plans!Row(id))
    <2>1. PlanAttemptsAgree(plans[id[1]]) /\ Len(plans[id[1]]) \in Nat
      BY <1>3, PlanPresentRows
    <2>2. id[2] \in 1..Len(plans[id[1]])
      BY <1>1, <1>3, <2>1 DEF PlanHasAttempt
    <2> QED
      BY <2>1, <2>2 DEF PlanAttemptsAgree, Plans!Row
  <1>5. Plans!Row(id).state \in {"processing", "cancel-requested"}
          /\ Plans!Row(id).token = Plans!Row(id).claims
    BY <1>2, <1>4 DEF PlanRowAgrees
  <1>6. PICK r \in JobsOf["plans"] : id = <<r, Len(plans[r])>> /\ plans[r] # <<>>
          /\ Plans!Row(id) = Plans!At(r)
    BY <1>1, <1>5, PlanLiveIsLast DEF PlanLive
  <1>7. Plans!At(r) \in PlanJobRow
    BY <1>6, PlanPresentRows
  <1> QED
    BY <1>1, <1>2, <1>5, <1>6, <1>7

\* A worker goes on, gives up or is gone.
LEMMA PlanWorkerOnlyMoves ==
    ASSUME PlanIInv, NEW w \in Workers,
           \/ Plans!Heartbeat(w) \/ Plans!HeartbeatCancels(w) \/ Plans!HeartbeatLost(w)
                \/ Plans!Parse(w)
           \/ Plans!PublishFenced(w) \/ Plans!Throws(w) \/ Plans!Crash(w)
    PROVE  PlanQuiet
  <1>1. PlanTypeOK /\ UNCHANGED <<plans, created, planResults, branch, request, drafts>>
    BY DEF PlanIInv, Plans!Heartbeat, Plans!HeartbeatCancels, Plans!HeartbeatLost, Plans!Parse,
             Plans!PublishFenced, Plans!Throws, Plans!Crash
  <1>2. DOMAIN Plans!Beats = {"normalizing", "parsed"}
    BY DEF Plans!Beats
  <1>3. PlanWorkersKeep
    <2>1. CASE Plans!HeartbeatLost(w) \/ Plans!PublishFenced(w) \/ Plans!Crash(w)
      BY <1>1, <2>1, PlanWorkerStops DEF Plans!HeartbeatLost, Plans!PublishFenced, Plans!Crash
    <2>2. CASE Plans!Heartbeat(w)
      <3>1. PICK phase \in PlanPhases : phase = Plans!Beats[planWorker[w].phase]
        BY <1>2, <2>2 DEF Plans!Heartbeat, Plans!Beats, PlanPhases
      <3> QED
        BY <1>1, <1>2, <2>2, <3>1, PlanWorkerGoes DEF Plans!Heartbeat
    <2>3. CASE Plans!HeartbeatCancels(w) \/ Plans!Parse(w) \/ Plans!Throws(w)
      BY <1>1, <1>2, <2>3, PlanWorkerGoes
           DEF Plans!HeartbeatCancels, Plans!Parse, Plans!Throws, PlanPhases
    <2> QED
      BY <2>1, <2>2, <2>3
  <1> QED
    BY <1>1, <1>3, PlanNoneMoves

\* The holder of a token ends its attempt without a result.
LEMMA PlanEndingMoves ==
    ASSUME PlanIInv, NEW w \in Workers, planWorker[w].phase # "idle", Plans!HasToken(w),
           NEW state \in {"cancelled", "failed"}, NEW retryable \in BOOLEAN,
           Plans!Row(planWorker[w].id).state =
               (IF state = "cancelled" THEN "cancel-requested" ELSE "processing"),
           Plans!SetRow(planWorker[w].id,
             Plans!Ended(Plans!Row(planWorker[w].id), state, retryable)), Plans!Stop(w),
           UNCHANGED <<created, planResults, branch, request, drafts>>
    PROVE  PlanQuiet
  <1>1. PICK r \in JobsOf["plans"] :
            /\ planWorker[w].id = <<r, Len(plans[r])>> /\ plans[r] # <<>>
            /\ Plans!Row(planWorker[w].id) = Plans!At(r) /\ Plans!At(r) \in PlanJobRow
    BY PlanTokenIsOfTheLast
  <1>2. PICK new \in PlanJobRow : new = Plans!Ended(Plans!At(r), state, retryable)
          /\ PlanEndedAs(Plans!At(r), new, state)
    BY <1>1, PlanEndedRow DEF PlanJobStates
  <1>3. Plans!SetRow(<<r, Len(plans[r])>>, new)
    BY <1>1, <1>2
  <1>4. PlanRowStep(Plans!At(r), new)
    BY <1>1, <1>2 DEF PlanRowStep, PlanClosed
  <1>5. PlanWorkersKeep
    BY PlanWorkerStops DEF PlanIInv
  <1> QED
    BY <1>1, <1>3, <1>4, <1>5, PlanLastMoves

LEMMA PlanFailMoves ==
    ASSUME PlanIInv, NEW w \in Workers, NEW retryable \in BOOLEAN, Plans!Fail(w, retryable)
    PROVE  PlanQuiet
  <1>1. /\ planWorker[w].phase = "failing" /\ Plans!Stop(w)
        /\ UNCHANGED <<created, planResults, branch, request, drafts>>
    BY DEF Plans!Fail
  <1>2. CASE /\ Plans!CancelIsRequested(w)
             /\ Plans!SetRow(planWorker[w].id,
                  Plans!Ended(Plans!Row(planWorker[w].id), "cancelled", FALSE))
    BY <1>1, <1>2, PlanEndingMoves DEF Plans!CancelIsRequested
  <1>3. CASE /\ Plans!Holds(w)
             /\ Plans!SetRow(planWorker[w].id,
                       Plans!Ended(Plans!Row(planWorker[w].id), "failed",
                         Plans!MayRetry(planWorker[w].id, retryable)))
    <2>1. PICK may \in BOOLEAN : may = Plans!MayRetry(planWorker[w].id, retryable)
      BY DEF Plans!MayRetry
    <2> QED
      BY <1>1, <1>3, <2>1, PlanEndingMoves DEF Plans!Holds
  <1>4. CASE UNCHANGED plans
    BY <1>1, <1>4, PlanWorkerStops, PlanNoneMoves DEF PlanIInv
  <1> QED
    BY <1>2, <1>3, <1>4 DEF Plans!Fail

LEMMA PlanAcknowledgeMoves ==
    ASSUME PlanIInv, NEW w \in Workers, Plans!Acknowledge(w)
    PROVE  PlanQuiet
  <1>1. /\ planWorker[w].phase = "cancelling" /\ Plans!Stop(w)
        /\ UNCHANGED <<created, planResults, branch, request, drafts>>
    BY DEF Plans!Acknowledge
  <1>2. CASE /\ Plans!CancelIsRequested(w)
             /\ Plans!SetRow(planWorker[w].id,
                  Plans!Ended(Plans!Row(planWorker[w].id), "cancelled", FALSE))
    BY <1>1, <1>2, PlanEndingMoves DEF Plans!CancelIsRequested
  <1>3. CASE UNCHANGED plans
    BY <1>1, <1>3, PlanWorkerStops, PlanNoneMoves DEF PlanIInv
  <1> QED
    BY <1>2, <1>3 DEF Plans!Acknowledge

LEMMA PlanPublishMoves ==
    ASSUME PlanIInv, NEW w \in Workers, NEW status \in {"proposal", "abstained"},
           NEW retryable \in BOOLEAN, NEW answered \in BOOLEAN,
           Plans!Publish(w, status, retryable, answered)
    PROVE  \E r \in JobsOf["plans"] : PlanPublished(r, status)
  <1>1. planWorker[w].phase = "publishing" /\ Plans!Holds(w) /\ Plans!HasToken(w) /\ PlanTypeOK
    BY DEF Plans!Publish, Plans!Holds, PlanIInv
  <1>2. PICK r \in JobsOf["plans"] :
            /\ planWorker[w].id = <<r, Len(plans[r])>> /\ plans[r] # <<>>
            /\ Plans!Row(planWorker[w].id) = Plans!At(r) /\ Plans!At(r) \in PlanJobRow
                 /\ planWorker[w].token = Plans!At(r).claims
    BY <1>1, PlanTokenIsOfTheLast
  <1>3. PlanWorkersKeep
    <2>1. CASE answered
      BY <1>1, <2>1, PlanWorkerStops DEF Plans!Publish
    <2>2. CASE ~answered
      BY <1>1, <2>2, PlanWorkerGoes DEF Plans!Publish, PlanPhases
    <2> QED
      BY <2>1, <2>2
  <1>4. PICK may \in BOOLEAN : may = (status = "abstained"
          /\ Plans!MayRetry(planWorker[w].id, retryable))
    BY DEF Plans!MayRetry
  <1>5. PICK new \in PlanJobRow :
            /\ new = Plans!Ended(Plans!At(r), PlanStateOf(status), may)
            /\ PlanEndedAs(Plans!At(r), new, PlanStateOf(status))
    BY <1>2, PlanEndedRow DEF PlanJobStates, PlanStateOf
  <1>6. /\ Plans!SetRow(<<r, Len(plans[r])>>, new)
        /\ planResults' = planResults \cup {[id |-> <<r, Len(plans[r])>>,
             claim |-> Plans!At(r).claims, status |-> status]}
        /\ UNCHANGED <<created, branch, request, drafts>>
    BY <1>2, <1>4, <1>5 DEF Plans!Publish, PlanStateOf
  <1>7. PlanLastIs(r, new) /\ PlanStepTyped /\ \A k \in JobsOf["plans"] \ {r} : PlanSame(k)
    BY <1>2, <1>3, <1>6, PlanLastSet
  <1>8. Plans!At(r).state = "processing"
    BY <1>1, <1>2 DEF Plans!Holds
  <1> QED
    BY <1>5, <1>6, <1>7, <1>8 DEF PlanPublished

LEMMA PlanNextMoves ==
    ASSUME Plans!PlanConstants, PlanIInv, [Plans!Next]_(Plans!vars)
    PROVE  \/ PlanQuiet
           \/ \E r \in JobsOf["plans"],
                status \in {"proposal", "abstained"} : PlanPublished(r, status)
           \/ (PlanIInv' /\ UNCHANGED <<plans, planResults>>)
  <1>1. ASSUME NEW r \in JobsOf["plans"], Plans!UserStep(r)
        PROVE  PlanQuiet \/ (PlanIInv' /\ UNCHANGED <<plans, planResults>>)
    <2>1. CASE Plans!CreateJob(r) \/ Plans!CancelJob(r)
      BY <2>1, PlanCreateJobMoves, PlanCancelJobMoves
    <2>2. ASSUME NEW attempt \in 1..AttemptsOf["plans"],
                 Plans!RetryJob(r, attempt) \/ Plans!ValidateDraft(r, attempt)
          PROVE  PlanQuiet \/ (PlanIInv' /\ UNCHANGED <<plans, planResults>>)
      <3>1. attempt \in Nat
        BY DEF Plans!PlanConstants
      <3> QED
        BY <2>2, <3>1, PlanRetryJobMoves, PlanDraftingKeeps
    <2> QED
      BY <1>1, <2>1, <2>2 DEF Plans!UserStep
  <1>2. ASSUME NEW w \in Workers, Plans!WorkerStep(w)
        PROVE  PlanQuiet \/ \E r \in JobsOf["plans"],
                 status \in {"proposal", "abstained"} : PlanPublished(r, status)
    <2>1. CASE Plans!ClaimStep(w)
      BY <2>1, PlanClaimMoves, PlanSweepOnlyMoves DEF Plans!ClaimStep
    <2>2. CASE Plans!RunnerStep(w)
      BY <2>2, PlanWorkerOnlyMoves, PlanFailMoves, PlanAcknowledgeMoves, PlanPublishMoves
           DEF Plans!RunnerStep
    <2> QED
      BY <1>2, <2>1, <2>2, PlanWorkerOnlyMoves DEF Plans!WorkerStep
  <1>3. CASE UNCHANGED Plans!vars
    BY <1>3, PlanNoneMoves, PlanSameWorkers DEF Plans!vars, PlanIInv
  <1> QED
    BY <1>1, <1>2, <1>3, PlanLeaseLapsesMoves, PlanDraftingKeeps DEF Plans!Next

\* The attempts of a root follow one another, each with its one result, and
\* drafts are of proposals and of the head they were reduced on.
THEOREM PlansAreSound ==
    ASSUME Plans!PlanConstants
    PROVE  Plans!Spec => []PlanIInv
  <1>1. Plans!Init => PlanIInv
    <2> SUFFICES ASSUME Plans!Init PROVE PlanIInv
      OBVIOUS
    <2>1. PlanTypeOK
      BY EmptySeq DEF Plans!Init, PlanTypeOK, PlanRequestRow, PlanWorkerRow
    <2>2. \A r \in JobsOf["plans"] : Len(plans[r]) = 0
      BY DEF Plans!Init
    <2>3. PlanRowsAgree
      BY <2>2 DEF PlanRowsAgree, PlanAttemptsAgree
    <2>4. Len(created) = 0
      BY DEF Plans!Init
    <2>5. PlanAttemptsExist
      BY <2>4 DEF Plans!Init, PlanAttemptsExist
    <2> QED
      BY <2>1, <2>3, <2>5 DEF Plans!Init, PlanIInv, PlanResultsAgree, PlanDraftsAgree
  <1>2. PlanIInv /\ [Plans!Next]_(Plans!vars) => PlanIInv'
    BY PlanNextMoves, PlanQuietKeeps, PlanPublishedKeeps
  <1> QED
    BY <1>1, <1>2, PTL DEF Plans!Spec

\* A draft was reduced on the head it is stored for, and its proposal is for
\* good.
THEOREM PlanDraftsAreOfTheirHead ==
    ASSUME Plans!PlanConstants
    PROVE  Plans!Spec => []Plans!DraftsFitTheirBranch
  <1>1. PlanIInv => Plans!DraftsFitTheirBranch
    <2> SUFFICES ASSUME PlanIInv, NEW d \in drafts
                 PROVE  /\ d.validatedOn = d.storedAt /\ Plans!Row(d.id).state = "proposed"
                        /\ \E x \in planResults : {y \in planResults : y.id = d.id} = {x}
      BY DEF Plans!DraftsFitTheirBranch
    <2>1. d.validatedOn = d.storedAt /\ Plans!IsProposal(d.id)
      BY DEF PlanIInv, PlanDraftsAgree
    <2>2. PICK x \in planResults : x.id = d.id /\ x.status = "proposal"
      BY <2>1 DEF Plans!IsProposal
    <2>3. Plans!Row(d.id).state = "proposed"
      BY <2>2 DEF PlanIInv, PlanResultsAgree, PlanStateOf
    <2>4. {y \in planResults : y.id = d.id} = {x}
      BY <2>2 DEF PlanIInv, PlanResultsAgree
    <2> QED
      BY <2>1, <2>2, <2>3, <2>4
  <1> QED
    BY <1>1, PlansAreSound, PTL

-----------------------------------------------------------------------------
(* The refinement of LeasedJobs: what the transitions are in its terms.    *)

\* What the view shows of a job.
PlanStatuses == {"absent", "waiting", "working", "stopping", "done", "cancelled", "failed"}

PlanShown == [status : PlanStatuses, attempt : Nat, claims : Nat, output : Nat \X Nat]

LEMMA PlanShownColumns ==
    \A r \in PlanShown :
        r = [status |-> r.status, attempt |-> r.attempt, claims |-> r.claims, output |-> r.output]
  BY DEF PlanShown

LEMMA PlanStatusOfState ==
    ASSUME NEW state \in PlanJobStates \cup {"absent"}
    PROVE  /\ Plans!Status(state) \in PlanStatuses
           /\ state = "queued" => Plans!Status(state) = "waiting"
           /\ state = "processing" => Plans!Status(state) = "working"
           /\ state = "cancel-requested" => Plans!Status(state) = "stopping"
           /\ state = "proposed" => Plans!Status(state) = "done"
           /\ state = "abstained" => Plans!Status(state) = "failed"
           /\ state \in {"absent", "cancelled", "failed"} => Plans!Status(state) = state
  BY DEF Plans!Status, PlanJobStates, PlanStatuses

\* The proposals of a root.
PlanRowsOf(r, all) == {x \in all : x.id[1] = r /\ x.status = "proposal"}

LEMMA PlanOutputOfRows ==
    ASSUME NEW given, given \subseteq PlanResultRow
    PROVE  Plans!Output(given) \in Nat \X Nat
  <1>1. CASE given = {}
    BY <1>1 DEF Plans!Output
  <1>2. CASE given # {}
    <2> DEFINE x == CHOOSE x \in given : TRUE
    <2>1. x \in given
      BY <1>2
    <2>2. Plans!Output(given) = <<x.id[2], x.claim>>
      BY <1>2 DEF Plans!Output
    <2>3. x.id[2] \in Nat /\ x.claim \in Nat
      BY <2>1 DEF PlanResultRow, PlanIds
    <2> HIDE DEF x
    <2> QED
      BY <2>2, <2>3
  <1> QED
    BY <1>1, <1>2

\* What is shown of attempts.
LEMMA PlanShownAttempts ==
    ASSUME NEW tries \in Seq(PlanJobRow)
    PROVE  /\ Plans!State(tries) \in PlanJobStates \cup {"absent"} /\ Plans!Claims(tries) \in Nat
           /\ Len(tries) \in Nat
  <1>1. CASE tries = <<>>
    BY <1>1 DEF Plans!State, Plans!Claims
  <1>2. CASE tries # <<>>
    <2>1. Len(tries) \in 1..Len(tries)
      BY <1>2, EmptySeq
    <2>2. tries[Len(tries)] \in PlanJobRow
      BY <2>1, ElementOfSeq
    <2> QED
      BY <1>2, <2>2, LenProperties DEF Plans!State, Plans!Claims, PlanJobRow
  <1> QED
    BY <1>1, <1>2

LEMMA PlanViewOfJob ==
    ASSUME NEW r \in JobsOf["plans"], NEW tries \in Seq(PlanJobRow),
           NEW all, all \subseteq PlanResultRow,
           NEW shown,
           shown = [status |-> Plans!Status(Plans!State(tries)), attempt |-> Len(tries),
                    claims |-> Plans!Claims(tries), output |-> Plans!Output(PlanRowsOf(r, all))]
    PROVE  /\ shown \in PlanShown
           /\ shown.status = Plans!Status(Plans!State(tries)) /\ shown.attempt = Len(tries)
           /\ shown.claims = Plans!Claims(tries) /\ shown.output = Plans!Output(PlanRowsOf(r, all))
  <1>1. Plans!Status(Plans!State(tries)) \in PlanStatuses /\ Plans!Claims(tries) \in Nat
          /\ Len(tries) \in Nat
    BY PlanStatusOfState, PlanShownAttempts
  <1>2. Plans!Output(PlanRowsOf(r, all)) \in Nat \X Nat
    BY PlanOutputOfRows DEF PlanRowsOf
  <1> QED
    BY <1>1, <1>2 DEF PlanShown

\* What the view shows before and after a step.
LEMMA PlanViewBefore ==
    ASSUME PlanTypeOK, NEW r \in JobsOf["plans"]
    PROVE  /\ Plans!View[r] \in PlanShown
           /\ Plans!View[r].status = Plans!Status(Plans!State(plans[r]))
                /\ Plans!View[r].attempt = Len(plans[r])
           /\ Plans!View[r].claims = Plans!Claims(plans[r])
                /\ Plans!View[r].output = Plans!Output(PlanRowsOf(r, planResults))
  <1>1. Plans!View[r] = [status |-> Plans!Status(Plans!State(plans[r])), attempt |-> Len(plans[r]),
                   claims |-> Plans!Claims(plans[r]),
                     output |-> Plans!Output(PlanRowsOf(r, planResults))]
    BY DEF Plans!View, PlanRowsOf
  <1>2. plans[r] \in Seq(PlanJobRow) /\ planResults \subseteq PlanResultRow
    BY DEF PlanTypeOK
  <1> QED
    BY <1>1, <1>2, PlanViewOfJob

LEMMA PlanViewAfter ==
    ASSUME PlanTypeOK', NEW r \in JobsOf["plans"]
    PROVE  /\ Plans!View'[r] \in PlanShown
           /\ Plans!View'[r].status = Plans!Status(Plans!State(plans'[r]))
                /\ Plans!View'[r].attempt = Len(plans'[r])
           /\ Plans!View'[r].claims = Plans!Claims(plans'[r])
                /\ Plans!View'[r].output = Plans!Output(PlanRowsOf(r, planResults'))
  <1>1. Plans!View'[r] = [status |-> Plans!Status(Plans!State(plans'[r])),
          attempt |-> Len(plans'[r]),
                    claims |-> Plans!Claims(plans'[r]),
                      output |-> Plans!Output(PlanRowsOf(r, planResults'))]
    BY DEF Plans!View, PlanRowsOf
  <1>2. plans'[r] \in Seq(PlanJobRow) /\ planResults' \subseteq PlanResultRow
    BY DEF PlanTypeOK
  <1> QED
    BY <1>1, <1>2, PlanViewOfJob

\* Two views with the same columns.
LEMMA PlanSameShown ==
    ASSUME NEW old \in PlanShown, NEW new \in PlanShown,
           new.status = old.status, new.attempt = old.attempt, new.claims = old.claims,
           new.output = old.output
    PROVE  new = old
  BY PlanShownColumns

\* The steps of LeasedJobs, column by column.
LEMMA PlanQueueColumns ==
    ASSUME NEW old \in PlanShown, NEW new \in PlanShown,
           old.status \in {"absent", "cancelled", "failed"}, old.attempt < AttemptsOf["plans"],
           new.status = "waiting", new.attempt = old.attempt + 1, new.claims = 0,
           new.output = old.output
    PROVE  Plans!Leased!Queue(old, new)
  <1> DEFINE q == [old EXCEPT !.status = "waiting", !.attempt = @ + 1, !.claims = 0]
  <1>1. /\ q \in PlanShown /\ q.status = "waiting" /\ q.attempt = old.attempt + 1 /\ q.claims = 0
        /\ q.output = old.output
    BY DEF PlanShown, PlanStatuses
  <1> HIDE DEF q
  <1>2. new = q
    BY <1>1, PlanSameShown
  <1> QED
    BY <1>2 DEF Plans!Leased!Queue, q

LEMMA PlanClaimColumns ==
    ASSUME NEW old \in PlanShown, NEW new \in PlanShown,
           old.status \in {"waiting", "working"},
           new.status = "working", new.attempt = old.attempt, new.claims = old.claims + 1,
           new.output = old.output
    PROVE  Plans!Leased!Claim(old, new)
  <1> DEFINE q == [old EXCEPT !.status = "working", !.claims = @ + 1]
  <1>1. /\ q \in PlanShown /\ q.status = "working" /\ q.attempt = old.attempt
        /\ q.claims = old.claims + 1 /\ q.output = old.output
    BY DEF PlanShown, PlanStatuses
  <1> HIDE DEF q
  <1>2. new = q
    BY <1>1, PlanSameShown
  <1> QED
    BY <1>2 DEF Plans!Leased!Claim, q

LEMMA PlanEndColumns ==
    ASSUME NEW old \in PlanShown, NEW new \in PlanShown,
           <<old.status, new.status>> \in Plans!Leased!Endings,
           new.attempt = old.attempt, new.claims = old.claims, new.output = old.output
    PROVE  Plans!Leased!End(old, new)
  <1> DEFINE q == [old EXCEPT !.status = new.status]
  <1>1. /\ q \in PlanShown /\ q.status = new.status /\ q.attempt = old.attempt
        /\ q.claims = old.claims /\ q.output = old.output
    BY DEF PlanShown
  <1> HIDE DEF q
  <1>2. new = q
    BY <1>1, PlanSameShown
  <1> QED
    BY <1>2 DEF Plans!Leased!End, q

LEMMA PlanFinishColumns ==
    ASSUME NEW old \in PlanShown, NEW new \in PlanShown,
           old.status = "working", new.status = "done",
           new.attempt = old.attempt, new.claims = old.claims,
           new.output = <<old.attempt, old.claims>>
    PROVE  Plans!Leased!Finish(old, new)
  <1> DEFINE q == [old EXCEPT !.status = "done", !.output = <<old.attempt, old.claims>>]
  <1>1. /\ q \in PlanShown /\ q.status = "done" /\ q.attempt = old.attempt
        /\ q.claims = old.claims /\ q.output = <<old.attempt, old.claims>>
    BY DEF PlanShown, PlanStatuses
  <1> HIDE DEF q
  <1>2. new = q
    BY <1>1, PlanSameShown
  <1> QED
    BY <1>2 DEF Plans!Leased!Finish, q

\* A root that keeps its attempts and its proposals looks the same.
LEMMA PlanKeptIsShown ==
    ASSUME NEW r \in JobsOf["plans"], PlanSame(r),
             PlanRowsOf(r, planResults') = PlanRowsOf(r, planResults)
    PROVE  Plans!View'[r] = Plans!View[r]
  BY DEF Plans!View, PlanRowsOf, PlanSame

\* The attempts of a root, their last one moved.
LEMMA PlanLastShown ==
    ASSUME PlanIInv, NEW r \in JobsOf["plans"], NEW new \in PlanJobRow, PlanLastIs(r, new)
    PROVE  /\ Plans!State(plans[r]) = Plans!At(r).state
                /\ Plans!Claims(plans[r]) = Plans!At(r).claims
           /\ Plans!State(plans'[r]) = new.state /\ Plans!Claims(plans'[r]) = new.claims
           /\ Len(plans'[r]) = Len(plans[r]) /\ Plans!At(r) \in PlanJobRow
  <1>1. /\ plans[r] \in Seq(PlanJobRow) /\ plans[r] # <<>> /\ Plans!At(r) \in PlanJobRow
        /\ plans'[r] = [plans[r] EXCEPT ![Len(plans[r])] = new]
    BY PlanPresentRows DEF PlanLastIs
  <1>2. plans'[r] # <<>> /\ Len(plans'[r]) = Len(plans[r]) /\ plans'[r][Len(plans[r])] = new
    BY <1>1, PlanLastChanged
  <1> QED
    BY <1>1, <1>2 DEF Plans!State, Plans!Claims, Plans!At

\* A transition is a step of LeasedJobs, or shows nothing.
LEMMA PlanTransitionIsAStep ==
    ASSUME PlanIInv, PlanTypeOK', NEW r \in JobsOf["plans"], PlanTransition(r),
             PlanRowsOf(r, planResults') = PlanRowsOf(r, planResults)
    PROVE  Plans!View'[r] = Plans!View[r] \/ Plans!Leased!Step(Plans!View[r], Plans!View'[r])
  <1>1. /\ Plans!View[r] \in PlanShown
        /\ Plans!View[r].status = Plans!Status(Plans!State(plans[r]))
             /\ Plans!View[r].attempt = Len(plans[r])
        /\ Plans!View[r].claims = Plans!Claims(plans[r])
             /\ Plans!View[r].output = Plans!Output(PlanRowsOf(r, planResults))
    BY PlanViewBefore DEF PlanIInv
  <1>2. /\ Plans!View'[r] \in PlanShown
        /\ Plans!View'[r].status = Plans!Status(Plans!State(plans'[r]))
             /\ Plans!View'[r].attempt = Len(plans'[r])
        /\ Plans!View'[r].claims = Plans!Claims(plans'[r])
             /\ Plans!View'[r].output = Plans!Output(PlanRowsOf(r, planResults))
    BY PlanViewAfter
  <1>3. CASE PlanSame(r)
    BY <1>3, PlanKeptIsShown
  <1>4. CASE PlanAppended(r)
    <2>1. /\ Plans!State(plans[r]) \in {"absent", "abstained", "failed"}
               /\ Len(plans[r]) < AttemptsOf["plans"]
          /\ Plans!State(plans[r]) \in PlanJobStates \cup {"absent"}
      BY <1>4, PlanShownAttempts DEF PlanAppended, Plans!State, Plans!At, PlanIInv, PlanTypeOK
    <2>2. /\ plans'[r] # <<>> /\ Len(plans'[r]) = Len(plans[r]) + 1
          /\ plans'[r][Len(plans'[r])] = Plans!QueuedRow
      BY <1>4, PlanPresentRows, PlanQueuedRowAgrees, AppendProperties DEF PlanAppended
    <2>3. Plans!State(plans'[r]) = "queued" /\ Plans!Claims(plans'[r]) = 0
      BY <2>2 DEF Plans!State, Plans!Claims, Plans!QueuedRow
    <2>4. Plans!View[r].status \in {"absent", "failed"}
      BY <1>1, <2>1, PlanStatusOfState
    <2>5. Plans!View'[r].status = "waiting"
      BY <1>2, <2>3, PlanStatusOfState DEF PlanJobStates
    <2> QED
      BY <1>1, <1>2, <2>1, <2>2, <2>3, <2>4, <2>5, PlanQueueColumns DEF Plans!Leased!Step
  <1>5. ASSUME NEW new \in PlanJobRow, PlanLastIs(r, new), PlanRowStep(Plans!At(r), new)
        PROVE  Plans!View'[r] = Plans!View[r] \/ Plans!Leased!Step(Plans!View[r], Plans!View'[r])
    <2>1. PICK old \in PlanJobRow :
              /\ old = Plans!At(r) /\ Plans!State(plans[r]) = old.state
                   /\ Plans!Claims(plans[r]) = old.claims
              /\ Plans!State(plans'[r]) = new.state /\ Plans!Claims(plans'[r]) = new.claims
              /\ Len(plans'[r]) = Len(plans[r])
      BY <1>5, PlanLastShown
    <2>2. old.state \in PlanJobStates /\ new.state \in PlanJobStates /\ PlanRowStep(old, new)
      BY <1>5, <2>1 DEF PlanJobRow
    <2>3. CASE PlanClaimed(old, new)
      BY <1>1, <1>2, <2>1, <2>2, <2>3, PlanStatusOfState, PlanClaimColumns
           DEF PlanClaimed, Plans!Leased!Step
    <2>4. CASE PlanLapsed(old, new)
      BY <1>1, <1>2, <2>1, <2>4, PlanSameShown DEF PlanLapsed
    <2>5. CASE PlanAskedToStop(old, new) \/ PlanClosed(old, new)
      <3>1. <<Plans!Status(old.state), Plans!Status(new.state)>> \in Plans!Leased!Endings
        BY <2>2, <2>5, PlanStatusOfState
             DEF PlanAskedToStop, PlanClosed, PlanEndedAs, Plans!Leased!Endings
      <3>2. new.claims = old.claims
        BY <2>5 DEF PlanAskedToStop, PlanClosed, PlanEndedAs
      <3> QED
        BY <1>1, <1>2, <2>1, <3>1, <3>2, PlanEndColumns DEF Plans!Leased!Step
    <2> QED
      BY <2>2, <2>3, <2>4, <2>5 DEF PlanRowStep
  <1> QED
    BY <1>3, <1>4, <1>5 DEF PlanTransition, PlanMoved

\* A proposal is the step that finishes.
LEMMA PlanProposedIsAStep ==
    ASSUME PlanIInv, PlanTypeOK', NEW r \in JobsOf["plans"], PlanPublished(r, "proposal")
    PROVE  Plans!Leased!Finish(Plans!View[r], Plans!View'[r])
  <1> DEFINE result == [id |-> <<r, Len(plans[r])>>, claim |-> Plans!At(r).claims,
        status |-> "proposal"]
  <1>1. PICK new \in PlanJobRow :
            /\ PlanLastIs(r, new) /\ new.state = "proposed" /\ new.claims = Plans!At(r).claims
            /\ Plans!At(r).state = "processing" /\ planResults' = planResults \cup {result}
    BY DEF PlanPublished, PlanEndedAs, PlanStateOf
  <1>2. /\ result.id[1] = r /\ result.id[2] = Len(plans[r]) /\ result.claim = Plans!At(r).claims
        /\ result.status = "proposal"
    OBVIOUS
  <1> HIDE DEF result
  <1>3. /\ Plans!State(plans[r]) = "processing" /\ Plans!Claims(plans[r]) = Plans!At(r).claims
        /\ Plans!State(plans'[r]) = "proposed" /\ Plans!Claims(plans'[r]) = Plans!At(r).claims
        /\ Len(plans'[r]) = Len(plans[r])
    BY <1>1, PlanLastShown
  <1>4. PlanRowsOf(r, planResults) = {}
    <2> SUFFICES ASSUME NEW x \in planResults, x.id[1] = r, x.status = "proposal" PROVE FALSE
      BY DEF PlanRowsOf
    <2>1. x.id \in PlanIds /\ PlanHasAttempt(plans, x.id) /\ Plans!Row(x.id).state = "proposed"
      BY DEF PlanIInv, PlanTypeOK, PlanResultRow, PlanResultsAgree, PlanStateOf
    <2>2. Len(plans[r]) \in Nat \ {0} /\ PlanAttemptsAgree(plans[r]) /\ x.id[2] \in Nat \ {0}
      BY <1>1, <2>1, PlanPresentRows DEF PlanLastIs, PlanIds
    <2>3. x.id[2] \in 1..Len(plans[r]) /\ plans[r][x.id[2]].state = "proposed"
      BY <2>1, <2>2 DEF PlanHasAttempt, Plans!Row
    <2>4. x.id[2] = Len(plans[r])
      BY <2>2, <2>3 DEF PlanAttemptsAgree
    <2> QED
      BY <1>1, <2>3, <2>4 DEF Plans!At
  <1>5. PlanRowsOf(r, planResults') = {result}
    BY <1>1, <1>2, <1>4 DEF PlanRowsOf
  <1>6. Plans!Output(PlanRowsOf(r, planResults')) = <<Len(plans[r]), Plans!At(r).claims>>
    BY <1>2, <1>5 DEF Plans!Output
  <1>7. /\ Plans!View[r] \in PlanShown /\ Plans!View[r].status = "working"
        /\ Plans!View[r].attempt = Len(plans[r]) /\ Plans!View[r].claims = Plans!At(r).claims
    BY <1>3, PlanViewBefore, PlanStatusOfState DEF PlanIInv, PlanJobStates
  <1>8. /\ Plans!View'[r] \in PlanShown /\ Plans!View'[r].status = "done"
        /\ Plans!View'[r].attempt = Len(plans[r]) /\ Plans!View'[r].claims = Plans!At(r).claims
        /\ Plans!View'[r].output = <<Len(plans[r]), Plans!At(r).claims>>
    BY <1>3, <1>6, PlanViewAfter, PlanStatusOfState DEF PlanJobStates
  <1> QED
    BY <1>7, <1>8, PlanFinishColumns

\* Publications show themselves only in the root they are of.
LEMMA PlanPublishedIsAStep ==
    ASSUME PlanIInv, PlanTypeOK', NEW r \in JobsOf["plans"],
             NEW status \in {"proposal", "abstained"}, PlanPublished(r, status)
    PROVE  /\ Plans!View'[r] = Plans!View[r] \/ Plans!Leased!Step(Plans!View[r], Plans!View'[r])
           /\ \A k \in JobsOf["plans"] \ {r} : Plans!View'[k] = Plans!View[k]
  <1> DEFINE result == [id |-> <<r, Len(plans[r])>>, claim |-> Plans!At(r).claims,
        status |-> status]
  <1>1. planResults' = planResults \cup {result} /\ result.id[1] = r /\ result.status = status
    BY DEF PlanPublished
  <1> HIDE DEF result
  <1>2. ASSUME NEW k \in JobsOf["plans"] \ {r} PROVE Plans!View'[k] = Plans!View[k]
    <2>1. PlanRowsOf(k, planResults') = PlanRowsOf(k, planResults)
      BY <1>1 DEF PlanRowsOf
    <2> QED
      BY <2>1, PlanKeptIsShown DEF PlanPublished
  <1>3. CASE status = "proposal"
    BY <1>2, <1>3, PlanProposedIsAStep DEF Plans!Leased!Step
  <1>4. CASE status = "abstained"
    <2>1. PlanRowsOf(r, planResults') = PlanRowsOf(r, planResults)
      BY <1>1, <1>4 DEF PlanRowsOf
    <2>2. PlanTransition(r)
      BY <1>4 DEF PlanPublished, PlanStateOf, PlanTransition, PlanMoved, PlanRowStep, PlanClosed
    <2> QED
      BY <1>2, <2>1, <2>2, PlanTransitionIsAStep
  <1> QED
    BY <1>2, <1>3, <1>4

LEMMA PlanNextIsLeased ==
    ASSUME Plans!PlanConstants, PlanIInv, PlanIInv', [Plans!Next]_(Plans!vars)
    PROVE  Plans!Leased!Next \/ Plans!View' = Plans!View
  <1>1. PlanTypeOK' /\ DOMAIN Plans!View' = JobsOf["plans"]
    BY DEF PlanIInv, Plans!View
  <1>2. CASE PlanQuiet
    BY <1>1, <1>2, PlanTransitionIsAStep DEF PlanQuiet, Plans!Leased!Next
  <1>3. CASE \E r \in JobsOf["plans"],
          status \in {"proposal", "abstained"} : PlanPublished(r, status)
    BY <1>1, <1>3, PlanPublishedIsAStep DEF Plans!Leased!Next
  <1>4. CASE UNCHANGED <<plans, planResults>>
    BY <1>4 DEF Plans!View
  <1> QED
    BY <1>2, <1>3, <1>4, PlanNextMoves

\* The chains of plan attempts keep the promises of LeasedJobs.
THEOREM PlansAreLeasedJobs ==
    ASSUME Plans!PlanConstants
    PROVE  Plans!Spec => Plans!ImplementsLeasedJobs
  <1>1. Plans!Init => Plans!Leased!Init
    <2> SUFFICES ASSUME Plans!Init PROVE Plans!Leased!Init
      OBVIOUS
    <2>1. /\ Plans!Status("absent") = "absent" /\ Plans!Output({}) = <<0, 0>>
          /\ Plans!State(<<>>) = "absent" /\ Plans!Claims(<<>>) = 0
      BY DEF Plans!Status, Plans!State, Plans!Claims, Plans!Output
    <2>2. \A r \in JobsOf["plans"] : {x \in planResults : x.id[1] = r /\ x.status = "proposal"} = {}
      BY DEF Plans!Init
    <2>3. \A r \in JobsOf["plans"] : Plans!View[r] =
              [status |-> "absent", attempt |-> 0, claims |-> 0, output |-> <<0, 0>>]
      BY <2>1, <2>2 DEF Plans!View, Plans!Init
    <2> QED
      BY <2>3 DEF Plans!View, Plans!Leased!Init, Plans!Leased!NoOutput
  <1>2. PlanIInv /\ PlanIInv' /\ [Plans!Next]_(Plans!vars) => [Plans!Leased!Next]_(Plans!View)
    BY PlanNextIsLeased
  <1> QED
    BY <1>1, <1>2, PlansAreSound, PTL DEF Plans!Spec, Plans!ImplementsLeasedJobs, Plans!Leased!Spec

-----------------------------------------------------------------------------
(* The inductive invariant of the option jobs of C12, which move likewise. *)

OptionJobStates ==
    {"absent", "queued", "running", "cancel-requested", "cancelled", "failed", "abstained",
      "succeeded"}

OptionRowStates == {"queued", "leased", "cancel-requested", "cancelled", "failed", "succeeded"}

OptionStageNames ==
    {"queued", "deriving-constraints", "generating", "validating", "publishing", "complete"}

OptionPhases == OptionQueue!Calls \cup {"planning", "failing", "acknowledging"}

OptionJobRow ==
    [state : OptionJobStates, stage : OptionStageNames, retryable : BOOLEAN, attempt : Nat,
      version : Nat]

OptionAttemptRow == [state : OptionRowStates, version : Nat, claims : Nat, token : Nat,
  lapsed : BOOLEAN]

OptionExecution == [phase : OptionPhases, job : JobsOf["options"], attempt : Nat, token : Nat,
  version : Nat]

OptionWorkerRow == {OptionQueue!Idle} \cup OptionExecution

OptionSetRow == [job : JobsOf["options"], attempt : Nat, claim : Nat]

OptionTypeOK ==
    /\ option \in [JobsOf["options"] -> OptionJobRow]
    /\ optionRow \in [JobsOf["options"] -> OptionAttemptRow]
    /\ optionWorker \in [Workers -> OptionWorkerRow]
    /\ asked \in [JobsOf["options"] -> Nat]
    /\ sets \subseteq OptionSetRow

\* A job and the row of its attempt move together, and a row that has a token
\* has the token of its last claim.
OptionRowAgrees(j) ==
    /\ option[j].state = "absent" => option[j].attempt = 0 /\ option[j].version = 0
    /\ option[j].state \in {"absent", "queued"} => optionRow[j].state = "queued"
         /\ optionRow[j].claims = 0
    /\ option[j].state = "running" => optionRow[j].state = "leased"
    /\ option[j].state \in {"cancel-requested", "cancelled", "failed", "succeeded"} =>
          optionRow[j].state = option[j].state
    /\ option[j].state = "abstained" => optionRow[j].state = "failed"
    /\ optionRow[j].state \in {"leased", "cancel-requested"} =>
          optionRow[j].claims > 0 /\ optionRow[j].token = optionRow[j].claims
    /\ optionRow[j].state \notin {"leased", "cancel-requested"} => optionRow[j].token = 0

OptionRowsAgree == \A j \in JobsOf["options"] : OptionRowAgrees(j)

\* A retry that was asked for a version of the job finds it as it was asked
\* for, or finds another version.
OptionAskedAgrees(j) ==
    /\ asked[j] <= option[j].version
    /\ asked[j] # 0 /\ asked[j] = option[j].version
         => option[j].state \in {"failed", "cancelled", "abstained"}

OptionRetriesAgree == \A j \in JobsOf["options"] : OptionAskedAgrees(j)

OptionSetsAreOfSucceeded == \A s \in sets : option[s.job].state = "succeeded"

OptionIInv ==
    /\ OptionTypeOK
    /\ OptionRowsAgree
    /\ OptionRetriesAgree
    /\ OptionSetsAreOfSucceeded

-----------------------------------------------------------------------------
(* What a step may do to a job and the row of its attempt.                 *)

OptionSame(j) == option'[j] = option[j] /\ optionRow'[j] = optionRow[j]

\* A first attempt, or one more.
OptionQueuedAgain(j) ==
    /\ option[j].state \in {"absent", "cancelled", "failed", "abstained"}
    /\ option[j].attempt < AttemptsOf["options"]
    /\ option'[j].state = "queued" /\ option'[j].attempt = option[j].attempt + 1
    /\ optionRow'[j].state = "queued" /\ optionRow'[j].claims = 0 /\ optionRow'[j].token = 0

OptionWorked(j) ==
    /\ option'[j].state = "running" /\ option'[j].attempt = option[j].attempt
    /\ optionRow'[j].state = "leased" /\ optionRow'[j].token = optionRow'[j].claims

OptionClaimed(j) ==
    /\ option[j].state \in {"queued", "running"} /\ OptionWorked(j)
    /\ optionRow'[j].claims = optionRow[j].claims + 1

OptionAdvanced(j) ==
    /\ option[j].state = "running" /\ OptionWorked(j)
    /\ optionRow'[j].claims = optionRow[j].claims

OptionAskedToStop(j) ==
    /\ option[j].state = "running"
    /\ option'[j].state = "cancel-requested" /\ option'[j].attempt = option[j].attempt
    /\ optionRow'[j].state = "cancel-requested"
    /\ optionRow'[j].claims = optionRow[j].claims /\ optionRow'[j].token = optionRow[j].token

OptionLapsed(j) ==
    /\ option[j].state \in {"running", "cancel-requested"} /\ option'[j] = option[j]
    /\ optionRow'[j].state = optionRow[j].state
    /\ optionRow'[j].claims = optionRow[j].claims /\ optionRow'[j].token = optionRow[j].token

OptionEndsAs(state) == IF state = "abstained" THEN "failed" ELSE state

OptionEndedAs(j, state) ==
    /\ option'[j].state = state /\ option'[j].attempt = option[j].attempt
    /\ optionRow'[j].state = OptionEndsAs(state) /\ optionRow'[j].token = 0
         /\ optionRow'[j].claims = optionRow[j].claims

OptionClosed(j) ==
    \/ option[j].state = "queued" /\ \E state \in {"cancelled", "failed"} : OptionEndedAs(j, state)
    \/ option[j].state = "running" /\ \E state \in {"failed", "abstained"} : OptionEndedAs(j, state)
    \/ option[j].state = "cancel-requested" /\ OptionEndedAs(j, "cancelled")

OptionDone(j) == option[j].state = "running" /\ OptionEndedAs(j, "succeeded")

OptionTransition(j) ==
    \/ OptionSame(j) \/ OptionQueuedAgain(j) \/ OptionClaimed(j) \/ OptionAdvanced(j)
         \/ OptionAskedToStop(j) \/ OptionLapsed(j)
    \/ OptionClosed(j)

\* Whatever changes the job's state gives it a later version.
OptionVersioned(j) ==
    \/ option'[j].version = option[j].version /\ option'[j].state = option[j].state
    \/ option'[j].version = option[j].version + 1

\* A retry is asked for as the job is, or answered.
OptionAsked(j) ==
    \/ asked'[j] = asked[j]
    \/ asked'[j] = 0
    \/ /\ asked'[j] = option[j].version /\ option'[j] = option[j]
       /\ option[j].state \in {"failed", "cancelled", "abstained"}

OptionRowsTyped ==
    /\ option' \in [JobsOf["options"] -> OptionJobRow]
         /\ optionRow' \in [JobsOf["options"] -> OptionAttemptRow]
    /\ optionWorker' \in [Workers -> OptionWorkerRow] /\ asked' \in [JobsOf["options"] -> Nat]
    /\ \A j \in JobsOf["options"] : OptionVersioned(j) /\ OptionAsked(j)

\* A step that publishes nothing.
OptionQuiet == OptionRowsTyped /\ (\A j \in JobsOf["options"] : OptionTransition(j)) /\ sets' = sets

\* The step that does.
OptionPublished(j) ==
    /\ OptionRowsTyped /\ OptionDone(j) /\ \A k \in JobsOf["options"] \ {j} : OptionSame(k)
    /\ sets' = sets \cup {[job |-> j, attempt |-> option[j].attempt, claim |-> optionRow[j].claims]}

-----------------------------------------------------------------------------
(* Transitions keep the invariant.                                         *)

LEMMA OptionPresentRows ==
    ASSUME OptionIInv, NEW j \in JobsOf["options"]
    PROVE  /\ OptionTypeOK /\ OptionRowAgrees(j) /\ OptionAskedAgrees(j)
           /\ option[j] \in OptionJobRow /\ optionRow[j] \in OptionAttemptRow
  BY DEF OptionIInv, OptionTypeOK, OptionRowsAgree, OptionRetriesAgree

LEMMA OptionTransitionsAgree ==
    ASSUME OptionIInv, OptionRowsTyped, NEW j \in JobsOf["options"], OptionTransition(j)
             \/ OptionDone(j)
    PROVE  OptionRowAgrees(j)'
  <1>1. OptionRowAgrees(j) /\ option[j] \in OptionJobRow /\ optionRow[j] \in OptionAttemptRow
    BY OptionPresentRows
  <1>2. option'[j] \in OptionJobRow /\ optionRow'[j] \in OptionAttemptRow
    BY DEF OptionRowsTyped
  <1>3. CASE OptionSame(j)
    BY <1>1, <1>3 DEF OptionSame, OptionRowAgrees
  <1>4. CASE OptionQueuedAgain(j)
    BY <1>1, <1>4 DEF OptionQueuedAgain, OptionRowAgrees
  <1>5. CASE OptionClaimed(j)
    BY <1>1, <1>2, <1>5 DEF OptionClaimed, OptionWorked, OptionRowAgrees, OptionAttemptRow
  <1>6. CASE OptionAdvanced(j)
    BY <1>1, <1>2, <1>6 DEF OptionAdvanced, OptionWorked, OptionRowAgrees, OptionAttemptRow
  <1>7. CASE OptionAskedToStop(j)
    BY <1>1, <1>2, <1>7 DEF OptionAskedToStop, OptionRowAgrees, OptionAttemptRow
  <1>8. CASE OptionLapsed(j)
    BY <1>1, <1>2, <1>8 DEF OptionLapsed, OptionRowAgrees, OptionAttemptRow
  <1>9. CASE OptionClosed(j)
    BY <1>1, <1>2, <1>9 DEF OptionClosed, OptionEndedAs, OptionEndsAs, OptionRowAgrees,
         OptionAttemptRow
  <1>10. CASE OptionDone(j)
    BY <1>1, <1>2, <1>10 DEF OptionDone, OptionEndedAs, OptionEndsAs, OptionRowAgrees,
         OptionAttemptRow
  <1> QED
    BY <1>3, <1>4, <1>5, <1>6, <1>7, <1>8, <1>9, <1>10 DEF OptionTransition

LEMMA OptionRetriesStayAgreed ==
    ASSUME OptionIInv, OptionRowsTyped
    PROVE  OptionRetriesAgree'
  <1> SUFFICES ASSUME NEW j \in JobsOf["options"] PROVE OptionAskedAgrees(j)'
    BY DEF OptionRetriesAgree
  <1>1. OptionAskedAgrees(j) /\ option[j] \in OptionJobRow /\ asked[j] \in Nat
    BY OptionPresentRows DEF OptionTypeOK
  <1>2. OptionVersioned(j) /\ OptionAsked(j) /\ option'[j] \in OptionJobRow /\ asked'[j] \in Nat
    BY DEF OptionRowsTyped
  <1>3. option[j].version \in Nat /\ option'[j].version \in Nat
    BY <1>1, <1>2 DEF OptionJobRow
  <1> QED
    BY <1>1, <1>2, <1>3 DEF OptionAskedAgrees, OptionVersioned, OptionAsked

\* A job that has succeeded stays so.
LEMMA OptionSucceededStays ==
    ASSUME NEW j \in JobsOf["options"], OptionTransition(j), option[j].state = "succeeded"
    PROVE  option'[j].state = "succeeded"
  BY DEF OptionTransition, OptionSame, OptionQueuedAgain, OptionClaimed, OptionAdvanced,
           OptionAskedToStop, OptionLapsed, OptionClosed

LEMMA OptionQuietKeeps ==
    ASSUME OptionIInv, OptionQuiet
    PROVE  OptionIInv'
  <1>1. OptionTypeOK'
    BY DEF OptionIInv, OptionTypeOK, OptionQuiet, OptionRowsTyped
  <1>2. OptionRowsAgree' /\ OptionRetriesAgree'
    BY OptionTransitionsAgree, OptionRetriesStayAgreed DEF OptionRowsAgree, OptionQuiet
  <1>3. OptionSetsAreOfSucceeded'
    BY OptionSucceededStays DEF OptionIInv, OptionTypeOK, OptionSetRow, OptionSetsAreOfSucceeded,
         OptionQuiet
  <1> QED
    BY <1>1, <1>2, <1>3 DEF OptionIInv

LEMMA OptionPublishedKeeps ==
    ASSUME OptionIInv, NEW j \in JobsOf["options"], OptionPublished(j)
    PROVE  OptionIInv'
  <1> DEFINE made == [job |-> j, attempt |-> option[j].attempt, claim |-> optionRow[j].claims]
  <1>1. OptionTypeOK /\ option[j] \in OptionJobRow /\ optionRow[j] \in OptionAttemptRow
    BY OptionPresentRows
  <1>2. made \in OptionSetRow /\ made.job = j /\ sets' = sets \cup {made}
    BY <1>1 DEF OptionSetRow, OptionJobRow, OptionAttemptRow, OptionPublished
  <1> HIDE DEF made
  <1>3. OptionTypeOK'
    BY <1>1, <1>2 DEF OptionTypeOK, OptionPublished, OptionRowsTyped
  <1>4. OptionRowsAgree' /\ OptionRetriesAgree'
    BY OptionTransitionsAgree, OptionRetriesStayAgreed
         DEF OptionRowsAgree, OptionPublished, OptionTransition
  <1>5. option'[j].state = "succeeded" /\ \A k \in JobsOf["options"] \ {j} : option'[k] = option[k]
    BY DEF OptionPublished, OptionDone, OptionEndedAs, OptionSame
  <1>6. OptionSetsAreOfSucceeded'
    BY <1>1, <1>2, <1>5 DEF OptionIInv, OptionTypeOK, OptionSetRow, OptionSetsAreOfSucceeded
  <1> QED
    BY <1>3, <1>4, <1>6 DEF OptionIInv

-----------------------------------------------------------------------------
(* Rows.                                                                   *)

OptionSetRows(j, newRow, state, stage, retryable) ==
    OptionQueue!SetJob(j, state, stage, retryable) /\ optionRow' = [optionRow EXCEPT ![j] = newRow]

\* What SetJob makes of a job, with the row of its attempt.
LEMMA OptionRowsAfter ==
    ASSUME OptionTypeOK, NEW j \in JobsOf["options"], NEW newRow \in OptionAttemptRow,
             NEW state \in OptionJobStates,
           NEW stage \in OptionStageNames, NEW retryable \in BOOLEAN,
           OptionSetRows(j, newRow, state, stage, retryable),
           optionWorker' \in [Workers -> OptionWorkerRow], asked' = asked
    PROVE  /\ OptionRowsTyped
           /\ option'[j].state = state /\ option'[j].attempt = option[j].attempt
                /\ optionRow'[j] = newRow
           /\ \A k \in JobsOf["options"] \ {j} : OptionSame(k)
  <1>1. /\ option \in [JobsOf["options"] -> OptionJobRow]
             /\ optionRow \in [JobsOf["options"] -> OptionAttemptRow]
                  /\ asked \in [JobsOf["options"] -> Nat]
        /\ option[j].version \in Nat
    BY DEF OptionTypeOK, OptionJobRow
  <1> DEFINE new == [option[j] EXCEPT !.state = state, !.stage = stage, !.retryable = retryable,
                                   !.version = @ + 1]
  <1>2. /\ new \in OptionJobRow /\ new.state = state /\ new.attempt = option[j].attempt
        /\ new.version = option[j].version + 1
    <2>1. PICK newVersion \in Nat : newVersion = option[j].version + 1
      BY <1>1
    <2>2. \A r \in OptionJobRow :
              LET q == [r EXCEPT !.state = state, !.stage = stage, !.retryable = retryable,
                                 !.version = newVersion]
              IN  /\ q \in OptionJobRow /\ q.state = state /\ q.attempt = r.attempt
                  /\ q.version = newVersion
      BY DEF OptionJobRow
    <2>3. option[j] \in OptionJobRow
      BY <1>1
    <2>4. new = [option[j] EXCEPT !.state = state, !.stage = stage, !.retryable = retryable,
                               !.version = newVersion]
      BY <2>1
    <2> HIDE DEF new
    <2> QED
      BY <2>1, <2>2, <2>3, <2>4
  <1>3. option' = [option EXCEPT ![j] = new]
    BY <1>1 DEF OptionSetRows, OptionQueue!SetJob
  <1> HIDE DEF new
  <1>4. /\ option' \in [JobsOf["options"] -> OptionJobRow]
             /\ optionRow' \in [JobsOf["options"] -> OptionAttemptRow] /\ option'[j] = new
        /\ optionRow'[j] = newRow /\ \A k \in JobsOf["options"] \ {j} : OptionSame(k)
    BY <1>1, <1>2, <1>3 DEF OptionSame, OptionSetRows
  <1>5. \A k \in JobsOf["options"] : OptionVersioned(k) /\ OptionAsked(k)
    BY <1>1, <1>2, <1>4 DEF OptionVersioned, OptionAsked, OptionSame
  <1> QED
    BY <1>1, <1>2, <1>4, <1>5 DEF OptionRowsTyped

\* Ending an attempt.
LEMMA OptionEndingMoves ==
    ASSUME OptionTypeOK, NEW j \in JobsOf["options"], NEW state \in OptionJobStates,
             OptionEndsAs(state) \in OptionRowStates,
           NEW retryable \in BOOLEAN, OptionQueue!SetJob(j, state, "complete", retryable),
           OptionQueue!EndRow(j, OptionEndsAs(state), option[j].version + 1),
           optionWorker' \in [Workers -> OptionWorkerRow], asked' = asked
    PROVE  OptionRowsTyped /\ OptionEndedAs(j, state)
             /\ \A k \in JobsOf["options"] \ {j} : OptionSame(k)
  <1>1. optionRow[j] \in OptionAttemptRow /\ option[j].version + 1 \in Nat
    BY DEF OptionTypeOK, OptionJobRow
  <1> DEFINE aRow == [optionRow[j] EXCEPT !.state = OptionEndsAs(state),
        !.version = option[j].version + 1,
                                    !.token = 0, !.lapsed = FALSE]
  <1>2. /\ aRow \in OptionAttemptRow /\ aRow.state = OptionEndsAs(state) /\ aRow.token = 0
        /\ aRow.claims = optionRow[j].claims
    BY <1>1 DEF OptionAttemptRow
  <1>3. optionRow' = [optionRow EXCEPT ![j] = aRow]
    BY DEF OptionQueue!EndRow, OptionTypeOK
  <1> HIDE DEF aRow
  <1>4. /\ OptionRowsTyped /\ option'[j].state = state /\ option'[j].attempt = option[j].attempt
        /\ optionRow'[j] = aRow /\ \A k \in JobsOf["options"] \ {j} : OptionSame(k)
    <2>1. "complete" \in OptionStageNames
      BY DEF OptionStageNames
    <2>2. OptionSetRows(j, aRow, state, "complete", retryable)
      BY <1>3 DEF OptionSetRows
    <2> QED
      BY <1>2, <2>1, <2>2, OptionRowsAfter
  <1> QED
    BY <1>2, <1>4 DEF OptionEndedAs

\* The step of one row, and of none.
LEMMA OptionOneMoves ==
    ASSUME NEW j \in JobsOf["options"], OptionTransition(j),
             \A k \in JobsOf["options"] \ {j} : OptionSame(k), OptionRowsTyped, sets' = sets
    PROVE  OptionQuiet
  BY DEF OptionQuiet, OptionTransition

LEMMA OptionNoneMoves ==
    ASSUME OptionTypeOK, UNCHANGED <<option, optionRow, asked, sets>>,
             optionWorker' \in [Workers -> OptionWorkerRow]
    PROVE  OptionQuiet
  BY DEF OptionQuiet, OptionTransition, OptionSame, OptionTypeOK, OptionRowsTyped, OptionVersioned,
           OptionAsked

LEMMA OptionWorkerGoes ==
    ASSUME OptionTypeOK, NEW w \in Workers, NEW phase \in OptionPhases,
             optionWorker[w].phase # "idle", OptionQueue!Goes(w, phase)
    PROVE  optionWorker' \in [Workers -> OptionWorkerRow]
  <1>1. optionWorker[w] \in OptionExecution
    BY DEF OptionTypeOK, OptionWorkerRow, OptionQueue!Idle
  <1>2. [optionWorker[w] EXCEPT !.phase = phase] \in OptionExecution
    BY <1>1 DEF OptionExecution
  <1> QED
    BY <1>2 DEF OptionQueue!Goes, OptionTypeOK, OptionWorkerRow

LEMMA OptionWorkerStops ==
    ASSUME OptionTypeOK, NEW w \in Workers, OptionQueue!Stop(w)
    PROVE  optionWorker' \in [Workers -> OptionWorkerRow]
  BY DEF OptionTypeOK, OptionWorkerRow, OptionQueue!Stop

LEMMA OptionCallsAre ==
    /\ DOMAIN OptionQueue!AfterHeartbeat = {"starting", "planned"}
    /\ DOMAIN OptionQueue!AfterAdvance = {"generating", "validating", "publishing"}
    /\ OptionQueue!Calls = {"starting", "planned", "generating", "validating", "publishing",
         "abstaining", "storing"}
  BY DEF OptionQueue!Calls, OptionQueue!AfterHeartbeat, OptionQueue!AfterAdvance

-----------------------------------------------------------------------------
(* The handlers of the queue.                                              *)

LEMMA OptionCreateMoves ==
    ASSUME OptionQueue!OptionConstants, OptionIInv, NEW j \in JobsOf["options"],
             OptionQueue!Create(j)
    PROVE  OptionQuiet
  <1>1. OptionTypeOK /\ OptionRowAgrees(j) /\ option[j] \in OptionJobRow
    BY OptionPresentRows
  <1> DEFINE aJob == [option[j] EXCEPT !.state = "queued", !.attempt = 1, !.version = 1]
  <1>2. aJob \in OptionJobRow /\ aJob.state = "queued" /\ aJob.attempt = 1 /\ aJob.version = 1
    BY <1>1 DEF OptionJobRow, OptionJobStates
  <1>3. OptionQueue!QueuedRow(1) \in OptionAttemptRow
    BY DEF OptionAttemptRow, OptionRowStates, OptionQueue!QueuedRow
  <1>4. option' = [option EXCEPT ![j] = aJob]
          /\ optionRow' = [optionRow EXCEPT ![j] = OptionQueue!QueuedRow(1)]
    BY DEF OptionQueue!Create
  <1> HIDE DEF aJob
  <1>5. option' \in [JobsOf["options"] -> OptionJobRow]
          /\ optionRow' \in [JobsOf["options"] -> OptionAttemptRow] /\ option'[j] = aJob
        /\ optionRow'[j] = OptionQueue!QueuedRow(1)
             /\ \A k \in JobsOf["options"] \ {j} : OptionSame(k)
    BY <1>1, <1>2, <1>3, <1>4 DEF OptionTypeOK, OptionSame
  <1>6. option[j].version = 0 /\ option[j].attempt = 0
    BY <1>1 DEF OptionRowAgrees, OptionQueue!Create
  <1>7. \A k \in JobsOf["options"] : OptionVersioned(k) /\ OptionAsked(k)
    BY <1>2, <1>5, <1>6 DEF OptionVersioned, OptionAsked, OptionSame, OptionQueue!Create
  <1>8. OptionRowsTyped
    BY <1>1, <1>5, <1>7 DEF OptionRowsTyped, OptionQueue!Create, OptionTypeOK
  <1>9. OptionQueuedAgain(j)
    BY <1>2, <1>5, <1>6 DEF OptionQueue!Create, OptionQueuedAgain, OptionQueue!QueuedRow,
         OptionQueue!OptionConstants
  <1> QED
    BY <1>5, <1>8, <1>9, OptionOneMoves DEF OptionQueue!Create, OptionTransition

LEMMA OptionCancelMoves ==
    ASSUME OptionIInv, NEW j \in JobsOf["options"], OptionQueue!Cancel(j)
    PROVE  OptionQuiet
  <1>1. OptionTypeOK /\ OptionRowAgrees(j) /\ option[j] \in OptionJobRow
          /\ optionRow[j] \in OptionAttemptRow
    BY OptionPresentRows
  <1>2. optionWorker' \in [Workers -> OptionWorkerRow] /\ asked' = asked /\ sets' = sets
    BY <1>1 DEF OptionQueue!Cancel, OptionTypeOK
  <1> DEFINE aRow(state) == [optionRow[j] EXCEPT !.state = state]
  <1>3. \A state \in OptionRowStates :
            /\ aRow(state) \in OptionAttemptRow /\ aRow(state).state = state
            /\ aRow(state).claims = optionRow[j].claims /\ aRow(state).token = optionRow[j].token
    BY <1>1 DEF OptionAttemptRow
  <1>4. CASE /\ option[j].state = "queued"
             /\ OptionQueue!SetJob(j, "cancelled", "complete", TRUE)
             /\ optionRow' = [optionRow EXCEPT ![j].state = "cancelled"]
    <2>1. OptionSetRows(j, aRow("cancelled"), "cancelled", "complete", TRUE)
      BY <1>1, <1>4 DEF OptionSetRows, OptionTypeOK
    <2>2. "cancelled" \in OptionRowStates /\ "cancelled" \in OptionJobStates
            /\ "complete" \in OptionStageNames
      BY DEF OptionRowStates, OptionJobStates, OptionStageNames
    <2> HIDE DEF aRow
    <2>3. /\ OptionRowsTyped
          /\ option'[j].state = "cancelled" /\ option'[j].attempt = option[j].attempt
          /\ optionRow'[j] = aRow("cancelled") /\ \A k \in JobsOf["options"] \ {j} : OptionSame(k)
      BY <1>1, <1>2, <1>3, <2>1, <2>2, OptionRowsAfter
    <2>4. optionRow[j].token = 0
      BY <1>1, <1>4 DEF OptionRowAgrees
    <2>5. OptionEndedAs(j, "cancelled")
      BY <1>3, <2>2, <2>3, <2>4 DEF OptionEndedAs, OptionEndsAs
    <2>6. OptionClosed(j)
      BY <1>4, <2>5 DEF OptionClosed
    <2> QED
      BY <1>2, <2>3, <2>6, OptionOneMoves DEF OptionTransition
  <1>5. CASE /\ option[j].state = "running"
             /\ OptionQueue!SetJob(j, "cancel-requested", option[j].stage, FALSE)
             /\ optionRow' = [optionRow EXCEPT ![j].state = "cancel-requested"]
    <2>1. OptionSetRows(j, aRow("cancel-requested"), "cancel-requested", option[j].stage, FALSE)
      BY <1>1, <1>5 DEF OptionSetRows, OptionTypeOK
    <2>2. "cancel-requested" \in OptionRowStates /\ "cancel-requested" \in OptionJobStates
          /\ option[j].stage \in OptionStageNames
      BY <1>1 DEF OptionRowStates, OptionJobStates, OptionJobRow
    <2> HIDE DEF aRow
    <2>3. /\ OptionRowsTyped
          /\ option'[j].state = "cancel-requested" /\ option'[j].attempt = option[j].attempt
          /\ optionRow'[j] = aRow("cancel-requested")
               /\ \A k \in JobsOf["options"] \ {j} : OptionSame(k)
      BY <1>1, <1>2, <1>3, <2>1, <2>2, OptionRowsAfter
    <2>4. OptionAskedToStop(j)
      BY <1>3, <1>5, <2>2, <2>3 DEF OptionAskedToStop
    <2> QED
      BY <1>2, <2>3, <2>4, OptionOneMoves DEF OptionTransition
  <1> QED
    BY <1>4, <1>5 DEF OptionQueue!Cancel

LEMMA OptionAskRetryMoves ==
    ASSUME OptionIInv, NEW j \in JobsOf["options"], OptionQueue!AskRetry(j)
    PROVE  OptionQuiet
  <1>1. OptionTypeOK /\ option[j].version \in Nat
    BY OptionPresentRows DEF OptionJobRow
  <1>2. asked' \in [JobsOf["options"] -> Nat]
    BY <1>1 DEF OptionQueue!AskRetry, OptionTypeOK
  <1>3. \A k \in JobsOf["options"] : OptionSame(k) /\ OptionVersioned(k) /\ OptionAsked(k)
    BY <1>1 DEF OptionQueue!AskRetry, OptionQueue!IsRetryable, OptionTypeOK, OptionSame,
                  OptionVersioned, OptionAsked
  <1> QED
    BY <1>1, <1>2, <1>3 DEF OptionQuiet, OptionRowsTyped, OptionTransition, OptionQueue!AskRetry,
         OptionTypeOK

LEMMA OptionRetryMoves ==
    ASSUME OptionIInv, NEW j \in JobsOf["options"], OptionQueue!Retry(j)
    PROVE  OptionQuiet
  <1>1. OptionTypeOK /\ OptionAskedAgrees(j) /\ option[j] \in OptionJobRow
    BY OptionPresentRows
  <1>2. asked' \in [JobsOf["options"] -> Nat]
          /\ \A k \in JobsOf["options"] : asked'[k] \in {asked[k], 0}
    BY <1>1 DEF OptionQueue!Retry, OptionTypeOK
  <1>3. optionWorker' \in [Workers -> OptionWorkerRow] /\ sets' = sets
    BY <1>1 DEF OptionQueue!Retry, OptionTypeOK
  <1>4. CASE option[j].version = asked[j] /\ option[j].attempt < AttemptsOf["options"]
    <2>0. option[j].attempt + 1 \in Nat /\ option[j].version + 1 \in Nat
      BY <1>1 DEF OptionJobRow
    <2>1. PICK attempt \in Nat, newVersion \in Nat :
              attempt = option[j].attempt + 1 /\ newVersion = option[j].version + 1
      BY <2>0
    <2> DEFINE aJob == [option[j] EXCEPT !.state = "queued", !.stage = "queued",
          !.retryable = FALSE,
                                      !.attempt = @ + 1, !.version = @ + 1]
    <2>2. aJob \in OptionJobRow /\ aJob.state = "queued" /\ aJob.attempt = attempt
            /\ aJob.version = newVersion
      <3>1. \A r \in OptionJobRow :
                LET q == [r EXCEPT !.state = "queued", !.stage = "queued", !.retryable = FALSE,
                                   !.attempt = attempt, !.version = newVersion]
                IN  /\ q \in OptionJobRow /\ q.state = "queued" /\ q.attempt = attempt
                    /\ q.version = newVersion
        BY DEF OptionJobRow, OptionJobStates, OptionStageNames
      <3> QED
        BY <1>1, <2>1, <3>1
    <2>3. option' = [option EXCEPT ![j] = aJob]
            /\ optionRow' = [optionRow EXCEPT ![j] = OptionQueue!QueuedRow(newVersion)]
      BY <1>4, <2>1 DEF OptionQueue!Retry
    <2>4. OptionQueue!QueuedRow(newVersion) \in OptionAttemptRow
      BY DEF OptionAttemptRow, OptionRowStates, OptionQueue!QueuedRow
    <2> HIDE DEF aJob
    <2>5. option' \in [JobsOf["options"] -> OptionJobRow]
            /\ optionRow' \in [JobsOf["options"] -> OptionAttemptRow] /\ option'[j] = aJob
          /\ optionRow'[j] = OptionQueue!QueuedRow(newVersion)
               /\ \A k \in JobsOf["options"] \ {j} : OptionSame(k)
      BY <1>1, <2>2, <2>3, <2>4 DEF OptionTypeOK, OptionSame
    <2>6. \A k \in JobsOf["options"] : OptionVersioned(k) /\ OptionAsked(k)
      BY <1>2, <2>1, <2>2, <2>5 DEF OptionVersioned, OptionAsked, OptionSame
    <2>7. OptionRowsTyped
      BY <1>2, <1>3, <2>5, <2>6 DEF OptionRowsTyped
    <2>8. option[j].state \in {"failed", "cancelled", "abstained"}
      BY <1>1, <1>4 DEF OptionQueue!Retry, OptionAskedAgrees
    <2>9. OptionQueuedAgain(j)
      BY <1>4, <2>1, <2>2, <2>5, <2>8 DEF OptionQueuedAgain, OptionQueue!QueuedRow
    <2> QED
      BY <1>3, <2>5, <2>7, <2>9, OptionOneMoves DEF OptionTransition
  <1>5. CASE ~(option[j].version = asked[j] /\ option[j].attempt < AttemptsOf["options"])
    <2>1. UNCHANGED <<option, optionRow>>
      BY <1>5 DEF OptionQueue!Retry
    <2>2. \A k \in JobsOf["options"] : OptionSame(k) /\ OptionVersioned(k) /\ OptionAsked(k)
      BY <1>2, <2>1 DEF OptionSame, OptionVersioned, OptionAsked
    <2> QED
      BY <1>1, <1>2, <1>3, <2>1, <2>2
           DEF OptionQuiet, OptionRowsTyped, OptionTransition, OptionTypeOK
  <1> QED
    BY <1>4, <1>5

LEMMA OptionClaimMoves ==
    ASSUME OptionIInv, NEW w \in Workers, OptionQueue!Claim(w)
    PROVE  OptionQuiet
  <1>1. PICK j \in OptionQueue!Candidates : IF j \in exact THEN OptionQueue!Lease(w, j)
          ELSE OptionQueue!FailInexact(w, j)
    BY DEF OptionQueue!Claim
  <1>2. j \in JobsOf["options"] /\ option[j].state \in {"queued", "running"}
    BY DEF OptionQueue!Candidates
  <1>3. OptionTypeOK /\ OptionRowAgrees(j) /\ option[j] \in OptionJobRow
          /\ optionRow[j] \in OptionAttemptRow
    BY <1>2, OptionPresentRows
  <1>4. asked' = asked /\ sets' = sets
    BY DEF OptionQueue!Claim
  <1>5. CASE j \in exact
    <2>1. PICK claim \in Nat, newVersion \in Nat :
              /\ claim = optionRow[j].claims + 1
              /\ newVersion = IF option[j].state = "queued" THEN option[j].version + 1
                   ELSE option[j].version
      BY <1>3 DEF OptionJobRow, OptionAttemptRow
    <2> DEFINE aRow == [state |-> "leased", version |-> newVersion, claims |-> claim,
                        token |-> claim, lapsed |-> FALSE]
               e == [phase |-> "starting", job |-> j, attempt |-> option[j].attempt,
                 token |-> claim,
                     version |-> newVersion]
    <2>2. /\ IF option[j].state = "queued"
               THEN OptionQueue!SetJob(j, "running", "deriving-constraints", FALSE)
                                        ELSE UNCHANGED option
          /\ optionRow' = [optionRow EXCEPT ![j] = aRow]
               /\ optionWorker' = [optionWorker EXCEPT ![w] = e]
      BY <1>1, <1>5, <2>1 DEF OptionQueue!Lease
    <2>3. aRow \in OptionAttemptRow /\ aRow.state = "leased" /\ aRow.claims = claim
            /\ aRow.token = claim
      BY DEF OptionAttemptRow, OptionRowStates
    <2>4. e \in OptionExecution
      BY <1>2, <1>3, OptionCallsAre DEF OptionExecution, OptionPhases, OptionJobRow
    <2> HIDE DEF aRow, e
    <2>5. optionWorker' \in [Workers -> OptionWorkerRow]
      BY <1>3, <2>2, <2>4 DEF OptionTypeOK, OptionWorkerRow
    <2>6. /\ OptionRowsTyped /\ option'[j].state = "running"
               /\ option'[j].attempt = option[j].attempt
          /\ optionRow'[j] = aRow /\ \A k \in JobsOf["options"] \ {j} : OptionSame(k)
      <3>1. CASE option[j].state = "queued"
        <4>1. OptionSetRows(j, aRow, "running", "deriving-constraints", FALSE)
          BY <2>2, <3>1 DEF OptionSetRows
        <4> QED
          BY <1>2, <1>3, <1>4, <2>3, <2>5, <4>1, OptionRowsAfter
               DEF OptionJobStates, OptionStageNames
      <3>2. CASE option[j].state # "queued"
        <4>1. option' = option
          BY <2>2, <3>2
        <4>2. \A k \in JobsOf["options"] : OptionVersioned(k) /\ OptionAsked(k)
          BY <1>4, <4>1 DEF OptionVersioned, OptionAsked
        <4> QED
          BY <1>2, <1>3, <1>4, <2>2, <2>3, <2>5, <3>2, <4>1, <4>2
               DEF OptionRowsTyped, OptionTypeOK, OptionSame
      <3> QED
        BY <3>1, <3>2
    <2>7. OptionClaimed(j)
      BY <1>2, <2>1, <2>3, <2>6 DEF OptionClaimed, OptionWorked
    <2> QED
      BY <1>2, <1>4, <2>6, <2>7, OptionOneMoves DEF OptionTransition
  <1>6. CASE j \notin exact
    <2>1. /\ OptionQueue!SetJob(j, "failed", "complete", TRUE)
          /\ OptionQueue!EndRow(j, OptionEndsAs("failed"), option[j].version + 1)
          /\ optionWorker' = optionWorker
      BY <1>1, <1>6 DEF OptionQueue!FailInexact, OptionEndsAs
    <2>2. OptionRowsTyped /\ OptionEndedAs(j, "failed")
            /\ \A k \in JobsOf["options"] \ {j} : OptionSame(k)
      BY <1>2, <1>3, <1>4, <2>1, OptionEndingMoves
           DEF OptionJobStates, OptionRowStates, OptionEndsAs, OptionTypeOK
    <2>3. OptionClosed(j)
      BY <1>2, <2>2 DEF OptionClosed
    <2> QED
      BY <1>2, <1>4, <2>2, <2>3, OptionOneMoves DEF OptionTransition
  <1> QED
    BY <1>5, <1>6

LEMMA OptionLeaseLapsesMoves ==
    ASSUME OptionIInv, NEW j \in JobsOf["options"], OptionQueue!LeaseLapses(j)
    PROVE  OptionQuiet
  <1>1. OptionTypeOK /\ OptionRowAgrees(j) /\ option[j] \in OptionJobRow
          /\ optionRow[j] \in OptionAttemptRow
    BY OptionPresentRows
  <1> DEFINE aRow == [optionRow[j] EXCEPT !.lapsed = TRUE]
  <1>2. /\ aRow \in OptionAttemptRow /\ aRow.state = optionRow[j].state
        /\ aRow.claims = optionRow[j].claims /\ aRow.token = optionRow[j].token
    BY <1>1 DEF OptionAttemptRow
  <1>3. optionRow' = [optionRow EXCEPT ![j] = aRow]
          /\ UNCHANGED <<option, optionWorker, asked, sets>>
    BY DEF OptionQueue!LeaseLapses
  <1> HIDE DEF aRow
  <1>4. option[j].state \in {"running", "cancel-requested"}
    BY <1>1 DEF OptionQueue!LeaseLapses, OptionRowAgrees, OptionJobRow, OptionJobStates
  <1>5. \A k \in JobsOf["options"] : OptionVersioned(k) /\ OptionAsked(k)
    BY <1>3 DEF OptionVersioned, OptionAsked
  <1>6. OptionLapsed(j) /\ OptionRowsTyped /\ \A k \in JobsOf["options"] \ {j} : OptionSame(k)
    BY <1>1, <1>2, <1>3, <1>4, <1>5 DEF OptionLapsed, OptionRowsTyped, OptionSame, OptionTypeOK
  <1> QED
    BY <1>3, <1>6, OptionOneMoves DEF OptionTransition

-----------------------------------------------------------------------------
(* The handlers of the runner.                                             *)

\* A worker that is busy, and the job of a lease that is held.
LEMMA OptionBusyWorker ==
    ASSUME OptionIInv, NEW w \in Workers, optionWorker[w].phase # "idle"
    PROVE  /\ OptionTypeOK /\ optionWorker[w] \in OptionExecution
                /\ optionWorker[w].job \in JobsOf["options"]
           /\ optionWorker[w].attempt \in Nat /\ optionWorker[w].token \in Nat
  BY DEF OptionIInv, OptionTypeOK, OptionWorkerRow, OptionExecution, OptionQueue!Idle

LEMMA OptionHeldJob ==
    ASSUME OptionIInv, NEW w \in Workers, optionWorker[w].phase # "idle", OptionQueue!Holds(w)
    PROVE  /\ optionWorker[w].attempt = option[optionWorker[w].job].attempt
           /\ optionWorker[w].token = optionRow[optionWorker[w].job].claims
           /\ option[optionWorker[w].job].state = "running"
           /\ optionRow[optionWorker[w].job].state = "leased"
           /\ optionRow[optionWorker[w].job].token = optionRow[optionWorker[w].job].claims
  <1>1. optionWorker[w].job \in JobsOf["options"]
    BY OptionBusyWorker
  <1>2. OptionRowAgrees(optionWorker[w].job) /\ option[optionWorker[w].job] \in OptionJobRow
    BY <1>1, OptionPresentRows
  <1> QED
    BY <1>2 DEF OptionQueue!Holds, OptionQueue!IsFenced, OptionRowAgrees, OptionJobRow,
                  OptionJobStates

\* A worker goes on, gives up or is gone.
LEMMA OptionWorkerOnlyMoves ==
    ASSUME OptionIInv, NEW w \in Workers,
           OptionQueue!Heartbeat(w) \/ OptionQueue!Plan(w) \/ OptionQueue!Refused(w)
             \/ OptionQueue!Throws(w) \/ OptionQueue!Crash(w)
    PROVE  OptionQuiet
  <1>1. OptionTypeOK /\ UNCHANGED <<option, optionRow, asked, sets>>
    BY DEF OptionIInv, OptionQueue!Heartbeat, OptionQueue!Plan, OptionQueue!Refused,
             OptionQueue!Throws, OptionQueue!Crash
  <1>2. optionWorker' \in [Workers -> OptionWorkerRow]
    <2>1. CASE OptionQueue!Heartbeat(w)
      <3>1. optionWorker[w].phase \in {"starting", "planned"}
        BY <2>1, OptionCallsAre DEF OptionQueue!Heartbeat
      <3>2. PICK phase \in OptionQueue!AfterHeartbeat[optionWorker[w].phase] :
              OptionQueue!Goes(w, phase)
        BY <2>1 DEF OptionQueue!Heartbeat
      <3>3. phase \in OptionPhases
        BY <3>1, <3>2, OptionCallsAre DEF OptionQueue!AfterHeartbeat, OptionPhases
      <3> QED
        BY <1>1, <3>1, <3>2, <3>3, OptionWorkerGoes
    <2>2. CASE OptionQueue!Plan(w)
      BY <1>1, <2>2, OptionCallsAre, OptionWorkerGoes DEF OptionQueue!Plan, OptionPhases
    <2>3. CASE OptionQueue!Refused(w) \/ OptionQueue!Throws(w)
      BY <1>1, <2>3, OptionCallsAre, OptionWorkerGoes
           DEF OptionQueue!Refused, OptionQueue!Throws, OptionPhases
    <2>4. CASE OptionQueue!Crash(w)
      BY <1>1, <2>4, OptionWorkerStops DEF OptionQueue!Crash
    <2> QED
      BY <2>1, <2>2, <2>3, <2>4
  <1> QED
    BY <1>1, <1>2, OptionNoneMoves

LEMMA OptionAdvanceMoves ==
    ASSUME OptionIInv, NEW w \in Workers, NEW answered \in BOOLEAN, OptionQueue!Advance(w, answered)
    PROVE  OptionQuiet
  <1>1. optionWorker[w].phase \in {"generating", "validating", "publishing"} /\ OptionQueue!Holds(w)
    BY OptionCallsAre DEF OptionQueue!Advance
  <1>2. PICK j \in JobsOf["options"] : j = optionWorker[w].job
    BY <1>1, OptionBusyWorker
  <1>3. OptionTypeOK /\ option[j] \in OptionJobRow /\ optionRow[j] \in OptionAttemptRow
          /\ optionWorker[w] \in OptionExecution
    BY <1>1, OptionPresentRows, OptionBusyWorker
  <1>4. PICK newVersion \in Nat : newVersion = option[j].version + 1
    BY <1>3 DEF OptionJobRow
  <1>5. asked' = asked /\ sets' = sets
    BY DEF OptionQueue!Advance
  <1> DEFINE aRow == [optionRow[j] EXCEPT !.version = newVersion]
             e == [optionWorker[w] EXCEPT !.phase
               = OptionQueue!AfterAdvance[optionWorker[w].phase], !.version = newVersion]
  <1>6. /\ aRow \in OptionAttemptRow /\ aRow.state = optionRow[j].state
        /\ aRow.claims = optionRow[j].claims /\ aRow.token = optionRow[j].token
    BY <1>3 DEF OptionAttemptRow
  <1>7. optionWorker' \in [Workers -> OptionWorkerRow]
    <2>1. CASE answered
      <3>1. optionWorker' = [optionWorker EXCEPT ![w] = e]
        BY <1>2, <1>4, <2>1 DEF OptionQueue!Advance
      <3>2. OptionQueue!AfterAdvance[optionWorker[w].phase] \in OptionPhases
        BY <1>1, OptionCallsAre DEF OptionQueue!AfterAdvance, OptionPhases
      <3>3. e \in OptionExecution
        BY <1>3, <3>2 DEF OptionExecution
      <3> QED
        BY <1>3, <3>1, <3>3 DEF OptionTypeOK, OptionWorkerRow
    <2>2. CASE ~answered
      BY <1>1, <1>3, <2>2, OptionWorkerGoes DEF OptionQueue!Advance, OptionPhases
    <2> QED
      BY <2>1, <2>2
  <1>8. OptionSetRows(j, aRow, "running", optionWorker[w].phase, FALSE)
    BY <1>2, <1>3, <1>4 DEF OptionQueue!Advance, OptionSetRows, OptionTypeOK
  <1>9. optionWorker[w].phase \in OptionStageNames /\ "running" \in OptionJobStates
    BY <1>1 DEF OptionStageNames, OptionJobStates
  <1> HIDE DEF aRow
  <1>10. /\ OptionRowsTyped /\ option'[j].state = "running"
              /\ option'[j].attempt = option[j].attempt
         /\ optionRow'[j] = aRow /\ \A k \in JobsOf["options"] \ {j} : OptionSame(k)
    BY <1>3, <1>5, <1>6, <1>7, <1>8, <1>9, OptionRowsAfter
  <1>11. OptionAdvanced(j)
    BY <1>1, <1>2, <1>6, <1>10, OptionHeldJob DEF OptionAdvanced, OptionWorked
  <1> QED
    BY <1>5, <1>10, <1>11, OptionOneMoves DEF OptionTransition

\* An attempt that its holder ends without a set.
LEMMA OptionFinishMoves ==
    ASSUME OptionIInv, NEW w \in Workers, optionWorker[w].phase # "idle", OptionQueue!Holds(w),
           NEW state \in {"failed", "abstained"}, NEW retryable \in BOOLEAN,
           OptionQueue!FinishAttempt(optionWorker[w].job, state, retryable), OptionQueue!Stop(w),
             asked' = asked, sets' = sets
    PROVE  OptionQuiet
  <1>1. PICK j \in JobsOf["options"] : j = optionWorker[w].job
    BY OptionBusyWorker
  <1>2. OptionTypeOK /\ optionWorker' \in [Workers -> OptionWorkerRow]
          /\ option[j].state = "running"
    BY <1>1, OptionWorkerStops, OptionHeldJob DEF OptionIInv
  <1>3. OptionEndsAs(state) = "failed" /\ state \in OptionJobStates
    BY DEF OptionEndsAs, OptionJobStates
  <1>4. OptionRowsTyped /\ OptionEndedAs(j, state)
          /\ \A k \in JobsOf["options"] \ {j} : OptionSame(k)
    BY <1>1, <1>2, <1>3, OptionEndingMoves DEF OptionQueue!FinishAttempt, OptionRowStates
  <1>5. OptionClosed(j)
    BY <1>2, <1>4 DEF OptionClosed
  <1> QED
    BY <1>4, <1>5, OptionOneMoves DEF OptionTransition

LEMMA OptionAbstainMoves ==
    ASSUME OptionIInv, NEW w \in Workers, OptionQueue!Abstain(w)
    PROVE  OptionQuiet
  BY OptionFinishMoves DEF OptionQueue!Abstain

LEMMA OptionFailMoves ==
    ASSUME OptionIInv, NEW w \in Workers, NEW retryable \in BOOLEAN, OptionQueue!Fail(w, retryable)
    PROVE  OptionQuiet
  <1>1. CASE OptionQueue!Holds(w)
    BY <1>1, OptionFinishMoves DEF OptionQueue!Fail
  <1>2. CASE ~OptionQueue!Holds(w)
    BY <1>2, OptionWorkerStops, OptionNoneMoves DEF OptionQueue!Fail, OptionIInv
  <1> QED
    BY <1>1, <1>2

LEMMA OptionAcknowledgeMoves ==
    ASSUME OptionIInv, NEW w \in Workers, OptionQueue!Acknowledge(w)
    PROVE  OptionQuiet
  <1>1. /\ optionWorker[w].phase = "acknowledging" /\ OptionQueue!Stop(w) /\ OptionTypeOK
             /\ asked' = asked /\ sets' = sets
    BY DEF OptionQueue!Acknowledge, OptionIInv
  <1>2. PICK j \in JobsOf["options"] : j = optionWorker[w].job
    BY <1>1, OptionBusyWorker
  <1>3. optionWorker' \in [Workers -> OptionWorkerRow]
    BY <1>1, OptionWorkerStops
  <1>4. CASE /\ option[j].state = "cancel-requested"
             /\ OptionQueue!SetJob(j, "cancelled", "complete", TRUE)
             /\ OptionQueue!EndRow(j, "cancelled", option[j].version + 1)
    <2>1. OptionEndsAs("cancelled") = "cancelled"
      BY DEF OptionEndsAs
    <2>2. OptionRowsTyped /\ OptionEndedAs(j, "cancelled")
            /\ \A k \in JobsOf["options"] \ {j} : OptionSame(k)
      BY <1>1, <1>3, <1>4, <2>1, OptionEndingMoves DEF OptionRowStates, OptionJobStates
    <2>3. OptionClosed(j)
      BY <1>4, <2>2 DEF OptionClosed
    <2> QED
      BY <1>1, <2>2, <2>3, OptionOneMoves DEF OptionTransition
  <1>5. CASE UNCHANGED <<option, optionRow>>
    BY <1>1, <1>3, <1>5, OptionNoneMoves
  <1> QED
    BY <1>2, <1>4, <1>5 DEF OptionQueue!Acknowledge

\* A publication is the work of the last claim.
LEMMA OptionPublishMoves ==
    ASSUME OptionIInv, NEW w \in Workers, NEW answered \in BOOLEAN, OptionQueue!Publish(w, answered)
    PROVE  \E j \in JobsOf["options"] : OptionPublished(j)
  <1>1. optionWorker[w].phase = "storing" /\ OptionQueue!Holds(w) /\ OptionTypeOK /\ asked' = asked
    BY DEF OptionQueue!Publish, OptionIInv
  <1>2. PICK j \in JobsOf["options"] : j = optionWorker[w].job
    BY <1>1, OptionBusyWorker
  <1>3. optionWorker' \in [Workers -> OptionWorkerRow]
    <2>1. CASE answered
      BY <1>1, <2>1, OptionWorkerStops DEF OptionQueue!Publish
    <2>2. CASE ~answered
      BY <1>1, <2>2, OptionWorkerGoes DEF OptionQueue!Publish, OptionPhases
    <2> QED
      BY <2>1, <2>2
  <1>4. /\ optionWorker[w].attempt = option[j].attempt
             /\ optionWorker[w].token = optionRow[j].claims
        /\ option[j].state = "running"
    BY <1>1, <1>2, OptionHeldJob
  <1>5. OptionEndsAs("succeeded") = "succeeded"
    BY DEF OptionEndsAs
  <1>6. OptionRowsTyped /\ OptionEndedAs(j, "succeeded")
          /\ \A k \in JobsOf["options"] \ {j} : OptionSame(k)
    BY <1>1, <1>2, <1>3, <1>5, OptionEndingMoves
         DEF OptionQueue!Publish, OptionRowStates, OptionJobStates
  <1> QED
    BY <1>2, <1>4, <1>6 DEF OptionQueue!Publish, OptionPublished, OptionDone

LEMMA OptionNextMoves ==
    ASSUME OptionQueue!OptionConstants, OptionIInv, [OptionQueue!Next]_(OptionQueue!vars)
    PROVE  OptionQuiet \/ \E j \in JobsOf["options"] : OptionPublished(j)
  <1>1. ASSUME NEW j \in JobsOf["options"], OptionQueue!UserStep(j) PROVE OptionQuiet
    <2>1. CASE OptionQueue!Reopen(j)
      BY <2>1, OptionNoneMoves DEF OptionQueue!Reopen, OptionIInv, OptionTypeOK
    <2> QED
      BY <1>1, <2>1, OptionCreateMoves, OptionCancelMoves, OptionAskRetryMoves, OptionRetryMoves
           DEF OptionQueue!UserStep
  <1>2. ASSUME NEW w \in Workers, OptionQueue!WorkerStep(w)
        PROVE  OptionQuiet \/ \E j \in JobsOf["options"] : OptionPublished(j)
    <2>1. CASE OptionQueue!RunnerStep(w)
      BY <2>1, OptionWorkerOnlyMoves, OptionAdvanceMoves, OptionAbstainMoves, OptionFailMoves,
           OptionAcknowledgeMoves, OptionPublishMoves
         DEF OptionQueue!RunnerStep
    <2> QED
      BY <1>2, <2>1, OptionClaimMoves, OptionWorkerOnlyMoves DEF OptionQueue!WorkerStep
  <1>3. CASE UNCHANGED OptionQueue!vars
    BY <1>3, OptionNoneMoves DEF OptionQueue!vars, OptionIInv, OptionTypeOK
  <1> QED
    BY <1>1, <1>2, <1>3, OptionLeaseLapsesMoves DEF OptionQueue!Next

\* Each job and its attempt's row agree, retries are of the job they were
\* asked for, and option sets are of jobs that have succeeded.
THEOREM OptionsAreSound ==
    ASSUME OptionQueue!OptionConstants
    PROVE  OptionQueue!Spec => []OptionIInv
  <1>1. OptionQueue!Init => OptionIInv
    <2> SUFFICES ASSUME OptionQueue!Init PROVE OptionIInv
      OBVIOUS
    <2>1. OptionTypeOK
      BY DEF OptionQueue!Init, OptionTypeOK, OptionJobRow, OptionAttemptRow, OptionJobStates,
               OptionRowStates, OptionStageNames, OptionQueue!NoJob, OptionQueue!QueuedRow,
                 OptionWorkerRow
    <2>2. OptionRowsAgree
      BY DEF OptionQueue!Init, OptionRowsAgree, OptionRowAgrees, OptionQueue!NoJob,
               OptionQueue!QueuedRow
    <2> QED
      BY <2>1, <2>2 DEF OptionQueue!Init, OptionIInv, OptionQueue!NoJob, OptionRetriesAgree,
           OptionAskedAgrees, OptionSetsAreOfSucceeded
  <1>2. OptionIInv /\ [OptionQueue!Next]_(OptionQueue!vars) => OptionIInv'
    BY OptionNextMoves, OptionQuietKeeps, OptionPublishedKeeps
  <1> QED
    BY <1>1, <1>2, PTL DEF OptionQueue!Spec

-----------------------------------------------------------------------------
(* The refinement of LeasedJobs: what the transitions are in its terms.    *)

\* What the view shows of a job.
OptionStatuses == {"absent", "waiting", "working", "stopping", "done", "cancelled", "failed"}

OptionShown == [status : OptionStatuses, attempt : Nat, claims : Nat, output : Nat \X Nat]

LEMMA OptionShownColumns ==
    \A r \in OptionShown :
        r = [status |-> r.status, attempt |-> r.attempt, claims |-> r.claims, output |-> r.output]
  BY DEF OptionShown

LEMMA OptionStatusOfState ==
    ASSUME NEW state \in OptionJobStates
    PROVE  /\ OptionQueue!Status(state) \in OptionStatuses
           /\ state = "queued" => OptionQueue!Status(state) = "waiting"
           /\ state = "running" => OptionQueue!Status(state) = "working"
           /\ state = "cancel-requested" => OptionQueue!Status(state) = "stopping"
           /\ state = "succeeded" => OptionQueue!Status(state) = "done"
           /\ state = "abstained" => OptionQueue!Status(state) = "failed"
           /\ state \in {"absent", "cancelled", "failed"} => OptionQueue!Status(state) = state
  BY DEF OptionQueue!Status, OptionJobStates, OptionStatuses

\* The sets of a job.
OptionRowsOf(j, all) == {s \in all : s.job = j}

LEMMA OptionOutputOfRows ==
    ASSUME NEW rows, rows \subseteq OptionSetRow
    PROVE  OptionQueue!Output(rows) \in Nat \X Nat
  <1>1. CASE rows = {}
    BY <1>1 DEF OptionQueue!Output
  <1>2. CASE rows # {}
    <2> DEFINE s == CHOOSE s \in rows : TRUE
    <2>1. s \in rows
      BY <1>2
    <2>2. OptionQueue!Output(rows) = <<s.attempt, s.claim>>
      BY <1>2 DEF OptionQueue!Output
    <2> QED
      BY <2>1, <2>2 DEF OptionSetRow
  <1> QED
    BY <1>1, <1>2

LEMMA OptionViewOfJob ==
    ASSUME NEW j \in JobsOf["options"], NEW aJob \in OptionJobRow, NEW aRow \in OptionAttemptRow,
           NEW all, all \subseteq OptionSetRow,
           NEW shown,
           shown = [status |-> OptionQueue!Status(aJob.state), attempt |-> aJob.attempt,
                    claims |-> aRow.claims, output |-> OptionQueue!Output(OptionRowsOf(j, all))]
    PROVE  /\ shown \in OptionShown
           /\ shown.status = OptionQueue!Status(aJob.state) /\ shown.attempt = aJob.attempt
           /\ shown.claims = aRow.claims /\ shown.output = OptionQueue!Output(OptionRowsOf(j, all))
  <1>1. OptionQueue!Status(aJob.state) \in OptionStatuses
    BY OptionStatusOfState DEF OptionJobRow
  <1>2. OptionQueue!Output(OptionRowsOf(j, all)) \in Nat \X Nat
    BY OptionOutputOfRows DEF OptionRowsOf
  <1> QED
    BY <1>1, <1>2 DEF OptionShown, OptionJobRow, OptionAttemptRow

\* What the view shows before and after a step.
LEMMA OptionViewBefore ==
    ASSUME OptionTypeOK, NEW j \in JobsOf["options"]
    PROVE  /\ OptionQueue!View[j] \in OptionShown
           /\ OptionQueue!View[j].status = OptionQueue!Status(option[j].state)
                /\ OptionQueue!View[j].attempt = option[j].attempt
           /\ OptionQueue!View[j].claims = optionRow[j].claims
                /\ OptionQueue!View[j].output = OptionQueue!Output(OptionRowsOf(j, sets))
  <1>1. OptionQueue!View[j] = [status |-> OptionQueue!Status(option[j].state),
          attempt |-> option[j].attempt,
                   claims |-> optionRow[j].claims,
                     output |-> OptionQueue!Output(OptionRowsOf(j, sets))]
    BY DEF OptionQueue!View, OptionRowsOf
  <1> QED
    BY <1>1, OptionViewOfJob DEF OptionTypeOK

LEMMA OptionViewAfter ==
    ASSUME OptionTypeOK', NEW j \in JobsOf["options"]
    PROVE  /\ OptionQueue!View'[j] \in OptionShown
           /\ OptionQueue!View'[j].status = OptionQueue!Status(option'[j].state)
                /\ OptionQueue!View'[j].attempt = option'[j].attempt
           /\ OptionQueue!View'[j].claims = optionRow'[j].claims
                /\ OptionQueue!View'[j].output = OptionQueue!Output(OptionRowsOf(j, sets'))
  <1>1. OptionQueue!View'[j] = [status |-> OptionQueue!Status(option'[j].state),
          attempt |-> option'[j].attempt,
                    claims |-> optionRow'[j].claims,
                      output |-> OptionQueue!Output(OptionRowsOf(j, sets'))]
    BY DEF OptionQueue!View, OptionRowsOf
  <1> QED
    BY <1>1, OptionViewOfJob DEF OptionTypeOK

\* Two views with the same columns.
LEMMA OptionSameShown ==
    ASSUME NEW old \in OptionShown, NEW new \in OptionShown,
           new.status = old.status, new.attempt = old.attempt, new.claims = old.claims,
           new.output = old.output
    PROVE  new = old
  BY OptionShownColumns

\* The steps of LeasedJobs, column by column.
LEMMA OptionQueueColumns ==
    ASSUME NEW old \in OptionShown, NEW new \in OptionShown,
           old.status \in {"absent", "cancelled", "failed"}, old.attempt < AttemptsOf["options"],
           new.status = "waiting", new.attempt = old.attempt + 1, new.claims = 0,
           new.output = old.output
    PROVE  OptionQueue!Leased!Queue(old, new)
  <1> DEFINE q == [old EXCEPT !.status = "waiting", !.attempt = @ + 1, !.claims = 0]
  <1>1. /\ q \in OptionShown /\ q.status = "waiting" /\ q.attempt = old.attempt + 1 /\ q.claims = 0
        /\ q.output = old.output
    BY DEF OptionShown, OptionStatuses
  <1> HIDE DEF q
  <1>2. new = q
    BY <1>1, OptionSameShown
  <1> QED
    BY <1>2 DEF OptionQueue!Leased!Queue, q

LEMMA OptionClaimColumns ==
    ASSUME NEW old \in OptionShown, NEW new \in OptionShown,
           old.status \in {"waiting", "working"},
           new.status = "working", new.attempt = old.attempt, new.claims = old.claims + 1,
           new.output = old.output
    PROVE  OptionQueue!Leased!Claim(old, new)
  <1> DEFINE q == [old EXCEPT !.status = "working", !.claims = @ + 1]
  <1>1. /\ q \in OptionShown /\ q.status = "working" /\ q.attempt = old.attempt
        /\ q.claims = old.claims + 1 /\ q.output = old.output
    BY DEF OptionShown, OptionStatuses
  <1> HIDE DEF q
  <1>2. new = q
    BY <1>1, OptionSameShown
  <1> QED
    BY <1>2 DEF OptionQueue!Leased!Claim, q

LEMMA OptionEndColumns ==
    ASSUME NEW old \in OptionShown, NEW new \in OptionShown,
           <<old.status, new.status>> \in OptionQueue!Leased!Endings,
           new.attempt = old.attempt, new.claims = old.claims, new.output = old.output
    PROVE  OptionQueue!Leased!End(old, new)
  <1> DEFINE q == [old EXCEPT !.status = new.status]
  <1>1. /\ q \in OptionShown /\ q.status = new.status /\ q.attempt = old.attempt
        /\ q.claims = old.claims /\ q.output = old.output
    BY DEF OptionShown
  <1> HIDE DEF q
  <1>2. new = q
    BY <1>1, OptionSameShown
  <1> QED
    BY <1>2 DEF OptionQueue!Leased!End, q

LEMMA OptionFinishColumns ==
    ASSUME NEW old \in OptionShown, NEW new \in OptionShown,
           old.status = "working", new.status = "done",
           new.attempt = old.attempt, new.claims = old.claims,
           new.output = <<old.attempt, old.claims>>
    PROVE  OptionQueue!Leased!Finish(old, new)
  <1> DEFINE q == [old EXCEPT !.status = "done", !.output = <<old.attempt, old.claims>>]
  <1>1. /\ q \in OptionShown /\ q.status = "done" /\ q.attempt = old.attempt
        /\ q.claims = old.claims /\ q.output = <<old.attempt, old.claims>>
    BY DEF OptionShown, OptionStatuses
  <1> HIDE DEF q
  <1>2. new = q
    BY <1>1, OptionSameShown
  <1> QED
    BY <1>2 DEF OptionQueue!Leased!Finish, q

\* No column the view shows changes.
OptionKeepsItsColumns(j) ==
    /\ option'[j].state = option[j].state /\ option'[j].attempt = option[j].attempt
    /\ optionRow'[j].claims = optionRow[j].claims

\* A job that keeps its columns and its sets looks the same.
LEMMA OptionKeptIsShown ==
    ASSUME OptionTypeOK, OptionTypeOK', NEW j \in JobsOf["options"], OptionKeepsItsColumns(j),
             OptionRowsOf(j, sets') = OptionRowsOf(j, sets)
    PROVE  OptionQueue!View'[j] = OptionQueue!View[j]
  BY OptionViewBefore, OptionViewAfter, OptionSameShown DEF OptionKeepsItsColumns

\* A transition is a step of LeasedJobs, or shows nothing.
LEMMA OptionTransitionIsAStep ==
    ASSUME OptionTypeOK, OptionTypeOK', NEW j \in JobsOf["options"], OptionRowAgrees(j),
             OptionTransition(j),
           OptionRowsOf(j, sets') = OptionRowsOf(j, sets)
    PROVE  OptionQueue!View'[j] = OptionQueue!View[j]
             \/ OptionQueue!Leased!Step(OptionQueue!View[j], OptionQueue!View'[j])
  <1>1. /\ OptionQueue!View[j] \in OptionShown
        /\ OptionQueue!View[j].status = OptionQueue!Status(option[j].state)
             /\ OptionQueue!View[j].attempt = option[j].attempt
        /\ OptionQueue!View[j].claims = optionRow[j].claims
             /\ OptionQueue!View[j].output = OptionQueue!Output(OptionRowsOf(j, sets))
    BY OptionViewBefore
  <1>2. /\ OptionQueue!View'[j] \in OptionShown
        /\ OptionQueue!View'[j].status = OptionQueue!Status(option'[j].state)
             /\ OptionQueue!View'[j].attempt = option'[j].attempt
        /\ OptionQueue!View'[j].claims = optionRow'[j].claims
             /\ OptionQueue!View'[j].output = OptionQueue!Output(OptionRowsOf(j, sets))
    BY OptionViewAfter
  <1>3. option[j].state \in OptionJobStates /\ option'[j].state \in OptionJobStates
    BY DEF OptionTypeOK, OptionJobRow
  <1>4. CASE OptionSame(j) \/ OptionLapsed(j)
    BY <1>4, OptionKeptIsShown DEF OptionSame, OptionLapsed, OptionKeepsItsColumns
  <1>5. CASE OptionQueuedAgain(j)
    BY <1>1, <1>2, <1>3, <1>5, OptionStatusOfState, OptionQueueColumns
         DEF OptionQueuedAgain, OptionQueue!Leased!Step
  <1>6. CASE OptionClaimed(j)
    BY <1>1, <1>2, <1>3, <1>6, OptionStatusOfState, OptionClaimColumns
         DEF OptionClaimed, OptionWorked, OptionQueue!Leased!Step
  <1>7. CASE OptionAdvanced(j)
    BY <1>1, <1>2, <1>3, <1>7, OptionStatusOfState, OptionSameShown DEF OptionAdvanced, OptionWorked
  <1>8. CASE OptionAskedToStop(j) \/ OptionClosed(j)
    <2>1. <<OptionQueue!Status(option[j].state),
            OptionQueue!Status(option'[j].state)>> \in OptionQueue!Leased!Endings
      BY <1>3, <1>8, OptionStatusOfState
           DEF OptionAskedToStop, OptionClosed, OptionEndedAs, OptionQueue!Leased!Endings
    <2>2. option'[j].attempt = option[j].attempt /\ optionRow'[j].claims = optionRow[j].claims
      BY <1>8 DEF OptionAskedToStop, OptionClosed, OptionEndedAs
    <2> QED
      BY <1>1, <1>2, <2>1, <2>2, OptionEndColumns DEF OptionQueue!Leased!Step
  <1> QED
    BY <1>4, <1>5, <1>6, <1>7, <1>8 DEF OptionTransition

\* A publication is the step that finishes.
LEMMA OptionPublishedIsAStep ==
    ASSUME OptionIInv, OptionTypeOK', NEW j \in JobsOf["options"], OptionPublished(j)
    PROVE  OptionQueue!Leased!Finish(OptionQueue!View[j], OptionQueue!View'[j])
  <1> DEFINE made == [job |-> j, attempt |-> option[j].attempt, claim |-> optionRow[j].claims]
  <1>1. OptionTypeOK /\ option[j].state = "running" /\ OptionEndedAs(j, "succeeded")
    BY DEF OptionIInv, OptionPublished, OptionDone
  <1>2. sets' = sets \cup {made}
    BY DEF OptionPublished
  <1>3. made.job = j /\ made.attempt = option[j].attempt /\ made.claim = optionRow[j].claims
    OBVIOUS
  <1> HIDE DEF made
  <1>4. OptionRowsOf(j, sets) = {}
    BY <1>1 DEF OptionIInv, OptionSetsAreOfSucceeded, OptionRowsOf
  <1>5. OptionRowsOf(j, sets') = {made}
    BY <1>2, <1>3, <1>4 DEF OptionRowsOf
  <1>6. OptionQueue!Output(OptionRowsOf(j, sets')) = <<option[j].attempt, optionRow[j].claims>>
    BY <1>3, <1>5 DEF OptionQueue!Output
  <1>7. /\ OptionQueue!View[j] \in OptionShown /\ OptionQueue!View[j].status = "working"
        /\ OptionQueue!View[j].attempt = option[j].attempt
             /\ OptionQueue!View[j].claims = optionRow[j].claims
    BY <1>1, OptionViewBefore, OptionStatusOfState DEF OptionJobStates
  <1>8. /\ OptionQueue!View'[j] \in OptionShown /\ OptionQueue!View'[j].status = "done"
        /\ OptionQueue!View'[j].attempt = option[j].attempt
             /\ OptionQueue!View'[j].claims = optionRow[j].claims
        /\ OptionQueue!View'[j].output = <<option[j].attempt, optionRow[j].claims>>
    BY <1>1, <1>6, OptionViewAfter, OptionStatusOfState DEF OptionJobStates, OptionEndedAs
  <1> QED
    BY <1>7, <1>8, OptionFinishColumns

LEMMA OptionNextIsLeased ==
    ASSUME OptionQueue!OptionConstants, OptionIInv, OptionIInv',
             [OptionQueue!Next]_(OptionQueue!vars)
    PROVE  OptionQueue!Leased!Next \/ OptionQueue!View' = OptionQueue!View
  <1>1. OptionTypeOK /\ OptionTypeOK' /\ \A j \in JobsOf["options"] : OptionRowAgrees(j)
    BY DEF OptionIInv, OptionRowsAgree
  <1>2. DOMAIN OptionQueue!View' = JobsOf["options"]
    BY DEF OptionQueue!View
  <1>3. CASE OptionQuiet
    BY <1>1, <1>2, <1>3, OptionTransitionIsAStep DEF OptionQuiet, OptionQueue!Leased!Next
  <1>4. ASSUME NEW j \in JobsOf["options"], OptionPublished(j)
        PROVE  OptionQueue!Leased!Next
    <2>1. OptionQueue!Leased!Step(OptionQueue!View[j], OptionQueue!View'[j])
      BY <1>1, <1>4, OptionPublishedIsAStep DEF OptionQueue!Leased!Step
    <2>2. ASSUME NEW k \in JobsOf["options"] \ {j} PROVE OptionQueue!View'[k] = OptionQueue!View[k]
      <3>1. OptionKeepsItsColumns(k)
        BY <1>4 DEF OptionPublished, OptionSame, OptionKeepsItsColumns
      <3>2. OptionRowsOf(k, sets') = OptionRowsOf(k, sets)
        BY <1>4 DEF OptionPublished, OptionRowsOf
      <3> QED
        BY <1>1, <3>1, <3>2, OptionKeptIsShown
    <2> QED
      BY <1>2, <2>1, <2>2 DEF OptionQueue!Leased!Next
  <1> QED
    BY <1>3, <1>4, OptionNextMoves

\* The queue of options keeps the promises of LeasedJobs.
THEOREM OptionsAreLeasedJobs ==
    ASSUME OptionQueue!OptionConstants
    PROVE  OptionQueue!Spec => OptionQueue!ImplementsLeasedJobs
  <1>1. OptionQueue!Init => OptionQueue!Leased!Init
    <2> SUFFICES ASSUME OptionQueue!Init PROVE OptionQueue!Leased!Init
      OBVIOUS
    <2>1. OptionQueue!Status("absent") = "absent" /\ OptionQueue!Output({}) = <<0, 0>>
      BY DEF OptionQueue!Status, OptionQueue!Output
    <2>2. \A j \in JobsOf["options"] : {s \in sets : s.job = j} = {}
      BY DEF OptionQueue!Init
    <2>3. \A j \in JobsOf["options"] : OptionQueue!View[j] =
              [status |-> "absent", attempt |-> 0, claims |-> 0, output |-> <<0, 0>>]
      BY <2>1, <2>2 DEF OptionQueue!View, OptionQueue!Init, OptionQueue!NoJob, OptionQueue!QueuedRow
    <2> QED
      BY <2>3 DEF OptionQueue!View, OptionQueue!Leased!Init, OptionQueue!Leased!NoOutput
  <1>2. OptionIInv /\ OptionIInv' /\ [OptionQueue!Next]_(OptionQueue!vars)
          => [OptionQueue!Leased!Next]_(OptionQueue!View)
    BY OptionNextIsLeased
  <1> QED
    BY <1>1, <1>2, OptionsAreSound, PTL
         DEF OptionQueue!Spec, OptionQueue!ImplementsLeasedJobs, OptionQueue!Leased!Spec

-----------------------------------------------------------------------------
(* The inductive invariant of the fusion jobs of C9, which move likewise.  *)

FusionJobStates ==
    Fusions!Active \cup {"absent", "queued", "cancel-requested", "cancelled", "failed",
      "abstained", "proposed"}

FusionRowStates == {"queued", "leased", "cancel-requested", "cancelled", "failed", "succeeded"}

FusionPhases ==
    {"registering", "fitting", "comparing", "abstaining", "failing", "failing-retryable",
      "acknowledging"}

FusionJobRow == [state : FusionJobStates, retryable : BOOLEAN, attempt : Nat]

FusionAttemptRow ==
    [state : FusionRowStates, stage : Fusions!Active, claims : Nat, token : Nat, lapsed : BOOLEAN]

FusionStopped == [phase |-> "stopped"]

FusionExecution == [phase : FusionPhases, job : JobsOf["fusions"], attempt : Nat, token : Nat]

FusionWorkerRow == {Fusions!Idle, FusionStopped} \cup FusionExecution

FusionProposalRow == [job : JobsOf["fusions"], attempt : Nat, claim : Nat,
  status : {"proposed", "abstained"}]

FusionDecisionRow ==
    [job : JobsOf["fusions"], discrepancy : Discrepancies, version : Nat \ {0}, accepted : BOOLEAN]

FusionTypeOK ==
    /\ fusion \in [JobsOf["fusions"] -> FusionJobRow]
    /\ fusionRow \in [JobsOf["fusions"] -> FusionAttemptRow]
    /\ fusionWorker \in [Workers -> FusionWorkerRow]
    /\ fusionProposals \subseteq FusionProposalRow
    /\ version \in [JobsOf["fusions"] -> Nat]
    /\ decisions \subseteq FusionDecisionRow
    /\ fusionDrafts \subseteq [job : JobsOf["fusions"], version : Nat \ {0},
         decisions : SUBSET decisions]

\* A job and the row of its attempt move together, and a row that has a token
\* has the token of its last claim.
FusionRowAgrees(j) ==
    /\ fusion[j].state = "absent" => fusion[j].attempt = 0
    /\ fusion[j].state \in {"absent", "queued"} => fusionRow[j] = Fusions!QueuedRow
    /\ fusion[j].state \in Fusions!Active => fusionRow[j].state = "leased"
         /\ fusionRow[j].stage = fusion[j].state
    /\ fusion[j].state \in {"cancel-requested", "cancelled", "failed"}
         => fusionRow[j].state = fusion[j].state
    /\ fusion[j].state \in {"abstained", "proposed"} => fusionRow[j].state = "succeeded"
    /\ fusionRow[j].state \in {"leased", "cancel-requested"} =>
          fusionRow[j].claims > 0 /\ fusionRow[j].token = fusionRow[j].claims
    /\ fusionRow[j].state \notin {"leased", "cancel-requested"} => fusionRow[j].token = 0

FusionRowsAgree == \A j \in JobsOf["fusions"] : FusionRowAgrees(j)

\* Only a proposed job has a proposal that is not an abstention, and reviews.
FusionProposalsAgree ==
    /\ \A p \in fusionProposals : p.status = "proposed" => fusion[p.job].state = "proposed"
    /\ \A j \in JobsOf["fusions"] : fusion[j].state # "proposed" => version[j] = 0

\* No decision or draft is ahead of the review's version.
FusionReviewsAgree ==
    /\ \A d \in decisions : d.version <= version[d.job]
    /\ \A draft \in fusionDrafts : draft.version <= version[draft.job]

FusionIInv ==
    /\ FusionTypeOK
    /\ FusionRowsAgree
    /\ FusionProposalsAgree
    /\ FusionReviewsAgree
    /\ Fusions!DraftsFollowTheReview

-----------------------------------------------------------------------------
(* What a step may do to a job and the row of its attempt.                 *)

FusionSame(j) == fusion'[j] = fusion[j] /\ fusionRow'[j] = fusionRow[j]

\* A first attempt, or one more.
FusionQueuedAgain(j) ==
    /\ fusion[j].state \in {"absent", "cancelled", "failed", "abstained"}
    /\ fusion[j].attempt < AttemptsOf["fusions"]
    /\ fusion'[j].state = "queued" /\ fusion'[j].attempt = fusion[j].attempt + 1
    /\ fusionRow'[j] = Fusions!QueuedRow

FusionWorked(j) ==
    /\ fusion'[j].state \in Fusions!Active /\ fusion'[j].attempt = fusion[j].attempt
    /\ fusionRow'[j].state = "leased" /\ fusionRow'[j].stage = fusion'[j].state
    /\ fusionRow'[j].token = fusionRow'[j].claims

FusionClaimed(j) ==
    /\ fusion[j].state \in Fusions!Active \cup {"queued"} /\ FusionWorked(j)
    /\ fusionRow'[j].claims = fusionRow[j].claims + 1

FusionAdvanced(j) ==
    /\ fusion[j].state \in Fusions!Active /\ FusionWorked(j)
    /\ fusionRow'[j].claims = fusionRow[j].claims

FusionAskedToStop(j) ==
    /\ fusion[j].state \in Fusions!Active
    /\ fusion'[j].state = "cancel-requested" /\ fusion'[j].attempt = fusion[j].attempt
    /\ fusionRow'[j].state = "cancel-requested"
    /\ fusionRow'[j].claims = fusionRow[j].claims /\ fusionRow'[j].token = fusionRow[j].token

FusionLapsed(j) ==
    /\ fusion[j].state \in Fusions!Active \cup {"cancel-requested"} /\ fusion'[j] = fusion[j]
    /\ fusionRow'[j].state = fusionRow[j].state /\ fusionRow'[j].stage = fusionRow[j].stage
    /\ fusionRow'[j].claims = fusionRow[j].claims /\ fusionRow'[j].token = fusionRow[j].token

FusionEndsAs(state) == IF state \in {"abstained", "proposed"} THEN "succeeded" ELSE state

FusionEndedAs(j, state) ==
    /\ fusion'[j].state = state /\ fusion'[j].attempt = fusion[j].attempt
    /\ fusionRow'[j].state = FusionEndsAs(state) /\ fusionRow'[j].token = 0
         /\ fusionRow'[j].claims = fusionRow[j].claims

FusionClosed(j) ==
    \/ fusion[j].state = "queued" /\ \E state \in {"cancelled", "failed"} : FusionEndedAs(j, state)
    \/ fusion[j].state \in Fusions!Active
         /\ \E state \in {"failed", "abstained"} : FusionEndedAs(j, state)
    \/ fusion[j].state = "cancel-requested" /\ FusionEndedAs(j, "cancelled")

FusionDone(j) == fusion[j].state \in Fusions!Active /\ FusionEndedAs(j, "proposed")

FusionTransition(j) ==
    \/ FusionSame(j) \/ FusionQueuedAgain(j) \/ FusionClaimed(j) \/ FusionAdvanced(j)
         \/ FusionAskedToStop(j) \/ FusionLapsed(j)
    \/ FusionClosed(j)

FusionRowsOf(j, all) == {p \in all : p.job = j /\ p.status = "proposed"}

FusionRowsTyped ==
    fusion' \in [JobsOf["fusions"] -> FusionJobRow]
      /\ fusionRow' \in [JobsOf["fusions"] -> FusionAttemptRow]
           /\ fusionWorker' \in [Workers -> FusionWorkerRow]

\* A step of the queue that publishes no proposal, but may an abstention.
FusionQuiet ==
    /\ FusionRowsTyped /\ \A j \in JobsOf["fusions"] : FusionTransition(j)
    /\ fusionProposals' \subseteq FusionProposalRow
         /\ \A j \in JobsOf["fusions"] :
              FusionRowsOf(j, fusionProposals') = FusionRowsOf(j, fusionProposals)
    /\ UNCHANGED <<version, Fusions!reviewVars>>

\* The step that does.
FusionPublished(j) ==
    /\ FusionRowsTyped /\ FusionDone(j) /\ \A k \in JobsOf["fusions"] \ {j} : FusionSame(k)
    /\ fusionProposals' = fusionProposals \cup
          {[job |-> j, attempt |-> fusion[j].attempt, claim |-> fusionRow[j].claims,
            status |-> "proposed"]}
    /\ version' = [version EXCEPT ![j] = 1]
    /\ UNCHANGED Fusions!reviewVars

-----------------------------------------------------------------------------
(* Transitions keep the invariant.                                         *)

LEMMA FusionPresentRows ==
    ASSUME FusionIInv, NEW j \in JobsOf["fusions"]
    PROVE  /\ FusionTypeOK /\ FusionRowAgrees(j)
           /\ fusion[j] \in FusionJobRow /\ fusionRow[j] \in FusionAttemptRow
  BY DEF FusionIInv, FusionTypeOK, FusionRowsAgree

LEMMA FusionTransitionsAgree ==
    ASSUME FusionIInv, FusionRowsTyped, NEW j \in JobsOf["fusions"], FusionTransition(j)
             \/ FusionDone(j)
    PROVE  FusionRowAgrees(j)'
  <1>1. FusionRowAgrees(j) /\ fusion[j] \in FusionJobRow /\ fusionRow[j] \in FusionAttemptRow
    BY FusionPresentRows
  <1>2. fusion'[j] \in FusionJobRow /\ fusionRow'[j] \in FusionAttemptRow
    BY DEF FusionRowsTyped
  <1>3. CASE FusionSame(j)
    BY <1>1, <1>3 DEF FusionSame, FusionRowAgrees, Fusions!QueuedRow
  <1>4. CASE FusionQueuedAgain(j)
    BY <1>1, <1>4 DEF FusionQueuedAgain, FusionRowAgrees, Fusions!QueuedRow, Fusions!Active
  <1>5. CASE FusionClaimed(j)
    BY <1>1, <1>2, <1>5 DEF FusionClaimed, FusionWorked, FusionRowAgrees, Fusions!Active,
         FusionAttemptRow
  <1>6. CASE FusionAdvanced(j)
    BY <1>1, <1>2, <1>6 DEF FusionAdvanced, FusionWorked, FusionRowAgrees, Fusions!Active,
         FusionAttemptRow
  <1>7. CASE FusionAskedToStop(j)
    BY <1>1, <1>2, <1>7 DEF FusionAskedToStop, FusionRowAgrees, Fusions!Active, FusionAttemptRow
  <1>8. CASE FusionLapsed(j)
    BY <1>1, <1>2, <1>8 DEF FusionLapsed, FusionRowAgrees, Fusions!Active, FusionAttemptRow
  <1>9. CASE FusionClosed(j)
    BY <1>1, <1>2, <1>9 DEF FusionClosed, FusionEndedAs, FusionEndsAs, FusionRowAgrees,
         Fusions!Active, FusionAttemptRow
  <1>10. CASE FusionDone(j)
    BY <1>1, <1>2, <1>10 DEF FusionDone, FusionEndedAs, FusionEndsAs, FusionRowAgrees,
         Fusions!Active, FusionAttemptRow
  <1> QED
    BY <1>3, <1>4, <1>5, <1>6, <1>7, <1>8, <1>9, <1>10 DEF FusionTransition

\* Who is proposed stays so.
LEMMA FusionTransitionsOfProposed ==
    ASSUME NEW j \in JobsOf["fusions"], FusionTransition(j)
    PROVE  fusion'[j].state = "proposed" <=> fusion[j].state = "proposed"
  BY DEF FusionTransition, FusionSame, FusionQueuedAgain, FusionClaimed, FusionAdvanced,
           FusionWorked, FusionAskedToStop, FusionLapsed, FusionClosed,
     FusionEndedAs, Fusions!Active

LEMMA FusionQuietKeeps ==
    ASSUME FusionIInv, FusionQuiet
    PROVE  FusionIInv'
  <1>1. FusionTypeOK'
    BY DEF FusionIInv, FusionTypeOK, FusionQuiet, FusionRowsTyped, Fusions!reviewVars
  <1>2. FusionRowsAgree'
    BY FusionTransitionsAgree DEF FusionRowsAgree, FusionQuiet
  <1>3. FusionProposalsAgree'
    <2>1. ASSUME NEW p \in fusionProposals', p.status = "proposed"
          PROVE  fusion'[p.job].state = "proposed"
      <3>1. p.job \in JobsOf["fusions"]
        BY DEF FusionQuiet, FusionProposalRow
      <3>2. p \in FusionRowsOf(p.job, fusionProposals)
        BY <2>1, <3>1 DEF FusionQuiet, FusionRowsOf
      <3> QED
        BY <2>1, <3>1, <3>2, FusionTransitionsOfProposed
             DEF FusionIInv, FusionProposalsAgree, FusionQuiet, FusionRowsOf
    <2> QED
      BY <2>1, FusionTransitionsOfProposed DEF FusionIInv, FusionProposalsAgree, FusionQuiet
  <1>4. FusionReviewsAgree' /\ Fusions!DraftsFollowTheReview'
    BY DEF FusionIInv, FusionReviewsAgree, Fusions!DraftsFollowTheReview, FusionQuiet,
             Fusions!reviewVars
  <1> QED
    BY <1>1, <1>2, <1>3, <1>4 DEF FusionIInv

LEMMA FusionPublishedKeeps ==
    ASSUME FusionIInv, NEW j \in JobsOf["fusions"], FusionPublished(j)
    PROVE  FusionIInv'
  <1> DEFINE proposal ==
          [job |-> j, attempt |-> fusion[j].attempt, claim |-> fusionRow[j].claims,
            status |-> "proposed"]
  <1>1. FusionTypeOK /\ fusion[j] \in FusionJobRow /\ fusionRow[j] \in FusionAttemptRow
    BY FusionPresentRows
  <1>2. proposal \in FusionProposalRow /\ proposal.job = j
    BY <1>1 DEF FusionProposalRow, FusionJobRow, FusionAttemptRow
  <1>3. fusionProposals' = fusionProposals \cup {proposal}
    BY DEF FusionPublished
  <1> HIDE DEF proposal
  <1>4. version' \in [JobsOf["fusions"] -> Nat] /\ version'[j] = 1
          /\ \A k \in JobsOf["fusions"] \ {j} : version'[k] = version[k]
    BY <1>1 DEF FusionPublished, FusionTypeOK
  <1>5. FusionTypeOK'
    BY <1>1, <1>2, <1>3, <1>4 DEF FusionTypeOK, FusionPublished, FusionRowsTyped, Fusions!reviewVars
  <1>6. FusionRowsAgree'
    BY FusionTransitionsAgree DEF FusionRowsAgree, FusionPublished, FusionTransition
  <1>7. fusion[j].state # "proposed" /\ fusion'[j].state = "proposed"
        /\ \A k \in JobsOf["fusions"] \ {j} : fusion'[k] = fusion[k]
    BY DEF FusionPublished, FusionDone, FusionEndedAs, FusionSame, Fusions!Active
  <1>8. FusionProposalsAgree'
    BY <1>1, <1>2, <1>3, <1>4, <1>7
         DEF FusionIInv, FusionTypeOK, FusionProposalsAgree, FusionProposalRow
  <1>9. version[j] = 0
    BY <1>7 DEF FusionIInv, FusionProposalsAgree
  <1>10. FusionReviewsAgree'
    <2>1. ASSUME NEW d \in decisions PROVE d.version <= version'[d.job]
      <3>1. d.version \in Nat \ {0} /\ d.job \in JobsOf["fusions"] /\ d.version <= version[d.job]
        BY <1>1 DEF FusionTypeOK, FusionDecisionRow, FusionIInv, FusionReviewsAgree
      <3> QED
        BY <1>4, <1>9, <3>1
    <2>2. ASSUME NEW d \in fusionDrafts PROVE d.version <= version'[d.job]
      <3>1. d.version \in Nat \ {0} /\ d.job \in JobsOf["fusions"] /\ d.version <= version[d.job]
        BY <1>1 DEF FusionTypeOK, FusionIInv, FusionReviewsAgree
      <3> QED
        BY <1>4, <1>9, <3>1
    <2> QED
      BY <2>1, <2>2 DEF FusionReviewsAgree, FusionPublished, Fusions!reviewVars
  <1>11. Fusions!DraftsFollowTheReview'
    BY DEF FusionIInv, Fusions!DraftsFollowTheReview, FusionPublished, Fusions!reviewVars
  <1> QED
    BY <1>5, <1>6, <1>8, <1>10, <1>11 DEF FusionIInv

-----------------------------------------------------------------------------
(* The reviews.                                                            *)

LEMMA FusionReviewKeeps ==
    ASSUME FusionIInv, NEW j \in JobsOf["fusions"], NEW seen,
             NEW discrepancies \in SUBSET Discrepancies,
           NEW accepted \in BOOLEAN, Fusions!Review(j, seen, discrepancies, accepted)
    PROVE  FusionIInv'
  <1>1. FusionTypeOK /\ version[j] \in Nat
    BY DEF FusionIInv, FusionTypeOK
  <1> DEFINE added == {[job |-> j, discrepancy |-> d, version |-> version[j] + 1,
        accepted |-> accepted] :
                          d \in discrepancies}
  <1>2. \A d \in added : d \in FusionDecisionRow /\ d.job = j /\ d.version = version[j] + 1
    BY <1>1 DEF FusionDecisionRow
  <1>3. decisions' = decisions \cup added
    BY DEF Fusions!Review
  <1> HIDE DEF added
  <1>4. /\ version' \in [JobsOf["fusions"] -> Nat] /\ version'[j] = version[j] + 1
        /\ \A k \in JobsOf["fusions"] \ {j} : version'[k] = version[k]
    BY <1>1 DEF Fusions!Review, FusionTypeOK
  <1>5. FusionTypeOK'
    BY <1>1, <1>2, <1>3, <1>4 DEF FusionTypeOK, Fusions!Review
  <1>6. FusionRowsAgree'
    BY DEF FusionIInv, FusionRowsAgree, FusionRowAgrees, Fusions!Review, Fusions!QueuedRow
  <1>7. FusionProposalsAgree'
    BY <1>4 DEF FusionIInv, FusionProposalsAgree, Fusions!Review
  <1>8. FusionReviewsAgree'
    <2>1. ASSUME NEW d \in decisions' PROVE d.version <= version'[d.job]
      <3>1. CASE d \in added
        BY <1>1, <1>2, <1>4, <3>1
      <3>2. CASE d \in decisions
        <4>1. d.version \in Nat /\ d.job \in JobsOf["fusions"] /\ d.version <= version[d.job]
          BY <1>1, <3>2 DEF FusionTypeOK, FusionDecisionRow, FusionIInv, FusionReviewsAgree
        <4> QED
          BY <1>1, <1>4, <4>1
      <3> QED
        BY <1>3, <3>1, <3>2
    <2>2. ASSUME NEW d \in fusionDrafts PROVE d.version <= version'[d.job]
      <3>1. d.version \in Nat /\ d.job \in JobsOf["fusions"] /\ d.version <= version[d.job]
        BY <1>1 DEF FusionTypeOK, FusionIInv, FusionReviewsAgree
      <3> QED
        BY <1>1, <1>4, <3>1
    <2> QED
      BY <2>1, <2>2 DEF FusionReviewsAgree, Fusions!Review
  <1>9. Fusions!DraftsFollowTheReview'
    <2> SUFFICES ASSUME NEW draft \in fusionDrafts, NEW d \in draft.decisions, NEW e \in decisions',
                        e.job = d.job, d.version < e.version, e.version <= draft.version,
                        e.discrepancy = d.discrepancy
                 PROVE  FALSE
      BY DEF Fusions!DraftsFollowTheReview, FusionIInv, Fusions!Review
    <2>1. d.job = draft.job /\ e \notin decisions
      BY DEF FusionIInv, Fusions!DraftsFollowTheReview
    <2>2. e \in added
      BY <1>3, <2>1
    <2>3. draft.job = j /\ draft.version \in Nat /\ draft.version <= version[j]
      BY <1>1, <1>2, <2>1, <2>2 DEF FusionTypeOK, FusionIInv, FusionReviewsAgree
    <2>4. e.version = version[j] + 1
      BY <1>2, <2>2
    <2> QED
      BY <1>1, <2>3, <2>4
  <1> QED
    BY <1>5, <1>6, <1>7, <1>8, <1>9 DEF FusionIInv

LEMMA FusionCreateOperationDraftKeeps ==
    ASSUME FusionIInv, NEW j \in JobsOf["fusions"], NEW seen \in Nat \ {0},
             NEW chosen \in SUBSET decisions,
           Fusions!CreateOperationDraft(j, seen, chosen)
    PROVE  FusionIInv'
  <1> DEFINE draft == [job |-> j, version |-> seen, decisions |-> chosen]
  <1>1. FusionTypeOK /\ version[j] = seen
          /\ chosen \subseteq {d \in Fusions!Latest(decisions) : d.job = j}
    BY DEF FusionIInv, Fusions!CreateOperationDraft
  <1>2. /\ draft \in [job : JobsOf["fusions"], version : Nat \ {0}, decisions : SUBSET decisions]
        /\ draft.job = j /\ draft.version = seen /\ draft.decisions = chosen
    OBVIOUS
  <1>3. fusionDrafts' = fusionDrafts \cup {draft}
    BY DEF Fusions!CreateOperationDraft
  <1> HIDE DEF draft
  <1>4. UNCHANGED <<fusion, fusionRow, fusionWorker, fusionProposals, version, decisions>>
    BY DEF Fusions!CreateOperationDraft, Fusions!queueVars
  <1>5. FusionTypeOK'
    BY <1>1, <1>2, <1>3, <1>4 DEF FusionTypeOK
  <1>6. FusionRowsAgree' /\ FusionProposalsAgree'
    BY <1>4 DEF FusionIInv, FusionRowsAgree, FusionRowAgrees, FusionProposalsAgree,
                  Fusions!QueuedRow
  <1>7. FusionReviewsAgree'
    BY <1>1, <1>2, <1>3, <1>4 DEF FusionIInv, FusionReviewsAgree
  <1>8. ASSUME NEW d \in chosen
        PROVE  /\ d.job = j /\ d.version <= seen
               /\ ~\E e \in decisions : /\ e.job = d.job /\ e.discrepancy = d.discrepancy
                                        /\ d.version < e.version /\ e.version <= seen
    <2>1. d \in Fusions!Latest(decisions) /\ d.job = j /\ d \in decisions
      BY <1>1, <1>8
    <2>2. d.version <= seen /\ d.version \in Nat
      BY <1>1, <2>1 DEF FusionIInv, FusionReviewsAgree, FusionTypeOK, FusionDecisionRow
    <2>3. \A e \in decisions : e.version \in Nat
      BY <1>1 DEF FusionTypeOK, FusionDecisionRow
    <2> QED
      BY <2>1, <2>2, <2>3 DEF Fusions!Latest
  <1>9. Fusions!DraftsFollowTheReview'
    BY <1>2, <1>3, <1>4, <1>8 DEF FusionIInv, Fusions!DraftsFollowTheReview
  <1> QED
    BY <1>5, <1>6, <1>7, <1>9 DEF FusionIInv

-----------------------------------------------------------------------------
(* Rows.                                                                   *)

LEMMA FusionLeastMember ==
    ASSUME NEW S, S \subseteq Nat, S # {}
    PROVE  Fusions!Min(S) \in S
  <1>1. PICK x \in S : \A y \in S : <<y, x>> \notin OpToRel(<, Nat)
    BY WFMin, NatLessThanWellFounded, Zenon
  <1>2. \A y \in S : <<y, x>> \notin {ss \in Nat \X Nat : ss[1] < ss[2]}
    BY <1>1, Zenon DEF OpToRel
  <1>3. ASSUME NEW y \in S PROVE x <= y
    <2>1. ~(y < x)
      <3>1. DEFINE p == <<y, x>>
      <3>2. p \notin {ss \in Nat \X Nat : ss[1] < ss[2]}
        BY <1>2
      <3>3. p \in Nat \X Nat /\ p[1] = y /\ p[2] = x
        OBVIOUS
      <3> QED
        BY <3>2, <3>3
    <2> QED
      BY <2>1
  <1> QED
    BY <1>3 DEF Fusions!Min

\* What SetRows makes of a job, and leaves of the others.
LEMMA FusionRowsAfter ==
    ASSUME FusionTypeOK, NEW j \in JobsOf["fusions"], NEW newRow \in FusionAttemptRow,
             NEW state \in FusionJobStates,
           NEW retryable \in BOOLEAN, Fusions!SetRows(j, newRow, state, retryable)
    PROVE  /\ fusion' \in [JobsOf["fusions"] -> FusionJobRow]
                /\ fusionRow' \in [JobsOf["fusions"] -> FusionAttemptRow]
           /\ fusion'[j].state = state /\ fusion'[j].attempt = fusion[j].attempt
                /\ fusionRow'[j] = newRow
           /\ \A k \in JobsOf["fusions"] \ {j} : FusionSame(k)
  <1>1. fusion \in [JobsOf["fusions"] -> FusionJobRow]
          /\ fusionRow \in [JobsOf["fusions"] -> FusionAttemptRow]
    BY DEF FusionTypeOK
  <1> DEFINE new == [fusion[j] EXCEPT !.state = state, !.retryable = retryable]
  <1>2. new \in FusionJobRow /\ new.state = state /\ new.attempt = fusion[j].attempt
    BY <1>1 DEF FusionJobRow
  <1>3. fusion' = [fusion EXCEPT ![j] = new] /\ fusionRow' = [fusionRow EXCEPT ![j] = newRow]
    BY <1>1 DEF Fusions!SetRows
  <1> HIDE DEF new
  <1> QED
    BY <1>1, <1>2, <1>3 DEF FusionSame

\* What ends an attempt.
LEMMA FusionEndedRow ==
    ASSUME FusionTypeOK, NEW j \in JobsOf["fusions"], NEW state \in FusionRowStates
    PROVE  /\ Fusions!Ended(j, state) \in FusionAttemptRow
           /\ Fusions!Ended(j, state).state = state /\ Fusions!Ended(j, state).token = 0
           /\ Fusions!Ended(j, state).claims = fusionRow[j].claims
  BY DEF FusionTypeOK, Fusions!Ended, FusionAttemptRow

\* Ending it.
LEMMA FusionEndingMoves ==
    ASSUME FusionTypeOK, NEW j \in JobsOf["fusions"], NEW state \in FusionJobStates,
             FusionEndsAs(state) \in FusionRowStates,
           NEW retryable \in BOOLEAN,
             Fusions!SetRows(j, Fusions!Ended(j, FusionEndsAs(state)), state, retryable)
    PROVE  /\ fusion' \in [JobsOf["fusions"] -> FusionJobRow]
                /\ fusionRow' \in [JobsOf["fusions"] -> FusionAttemptRow]
           /\ FusionEndedAs(j, state) /\ \A k \in JobsOf["fusions"] \ {j} : FusionSame(k)
  <1> DEFINE aRow == Fusions!Ended(j, FusionEndsAs(state))
  <1>1. /\ aRow \in FusionAttemptRow /\ aRow.state = FusionEndsAs(state) /\ aRow.token = 0
        /\ aRow.claims = fusionRow[j].claims
    BY FusionEndedRow
  <1> HIDE DEF aRow
  <1>2. /\ fusion' \in [JobsOf["fusions"] -> FusionJobRow]
             /\ fusionRow' \in [JobsOf["fusions"] -> FusionAttemptRow]
        /\ fusion'[j].state = state /\ fusion'[j].attempt = fusion[j].attempt
             /\ fusionRow'[j] = aRow
        /\ \A k \in JobsOf["fusions"] \ {j} : FusionSame(k)
    BY <1>1, FusionRowsAfter DEF aRow
  <1> QED
    BY <1>1, <1>2 DEF FusionEndedAs

\* The step of one row.
LEMMA FusionOneMoves ==
    ASSUME NEW j \in JobsOf["fusions"], FusionTransition(j),
             \A k \in JobsOf["fusions"] \ {j} : FusionSame(k), FusionRowsTyped,
           FusionTypeOK, UNCHANGED <<fusionProposals, version, Fusions!reviewVars>>
    PROVE  FusionQuiet
  BY DEF FusionQuiet, FusionTransition, FusionTypeOK, FusionRowsOf

\* A step of no row.
LEMMA FusionNoneMoves ==
    ASSUME FusionTypeOK, UNCHANGED <<fusion, fusionRow, fusionProposals, version,
             Fusions!reviewVars>>,
           fusionWorker' \in [Workers -> FusionWorkerRow]
    PROVE  FusionQuiet
  BY DEF FusionQuiet, FusionTransition, FusionSame, FusionTypeOK, FusionRowsOf, FusionRowsTyped

LEMMA FusionWorkerGoes ==
    ASSUME FusionTypeOK, NEW w \in Workers, NEW phase \in FusionPhases,
             fusionWorker[w].phase \notin {"idle", "stopped"},
           Fusions!Goes(w, phase)
    PROVE  fusionWorker' \in [Workers -> FusionWorkerRow]
  <1>1. fusionWorker[w] \in FusionExecution
    BY DEF FusionTypeOK, FusionWorkerRow, Fusions!Idle, FusionStopped
  <1>2. [fusionWorker[w] EXCEPT !.phase = phase] \in FusionExecution
    BY <1>1 DEF FusionExecution
  <1> QED
    BY <1>2 DEF Fusions!Goes, FusionTypeOK, FusionWorkerRow

LEMMA FusionWorkerStops ==
    ASSUME FusionTypeOK, NEW w \in Workers, Fusions!Stop(w)
    PROVE  fusionWorker' \in [Workers -> FusionWorkerRow]
  BY DEF FusionTypeOK, FusionWorkerRow, Fusions!Stop

LEMMA FusionWorkerFails ==
    ASSUME FusionTypeOK, NEW w \in Workers, NEW retryable \in BOOLEAN,
           fusionWorker[w].phase \notin {"idle", "stopped"}, Fusions!Fails(w, retryable)
    PROVE  fusionWorker' \in [Workers -> FusionWorkerRow]
  <1>1. (IF retryable THEN "failing-retryable" ELSE "failing") \in FusionPhases
    BY DEF FusionPhases
  <1> QED
    BY <1>1, FusionWorkerGoes DEF Fusions!Fails

-----------------------------------------------------------------------------
(* The handlers of the queue.                                              *)

LEMMA FusionCreateMoves ==
    ASSUME Fusions!FusionConstants, FusionIInv, NEW j \in JobsOf["fusions"], Fusions!Create(j)
    PROVE  FusionQuiet
  <1>1. FusionTypeOK /\ FusionRowAgrees(j)
    BY FusionPresentRows
  <1>2. [state |-> "queued", retryable |-> FALSE, attempt |-> 1] \in FusionJobRow
          /\ Fusions!QueuedRow \in FusionAttemptRow
    BY DEF FusionJobRow, FusionJobStates, FusionAttemptRow, FusionRowStates, Fusions!Active,
             Fusions!QueuedRow
  <1>3. FusionRowsTyped /\ \A k \in JobsOf["fusions"] \ {j} : FusionSame(k)
    BY <1>1, <1>2 DEF Fusions!Create, FusionTypeOK, FusionRowsTyped, FusionSame
  <1>4. FusionQueuedAgain(j)
    BY <1>1 DEF Fusions!Create, FusionTypeOK, FusionQueuedAgain, FusionRowAgrees,
                  Fusions!FusionConstants
  <1> QED
    BY <1>1, <1>3, <1>4, FusionOneMoves DEF Fusions!Create, FusionTransition

LEMMA FusionRetryMoves ==
    ASSUME FusionIInv, NEW j \in JobsOf["fusions"], Fusions!Retry(j)
    PROVE  FusionQuiet
  <1>1. FusionTypeOK /\ fusion[j] \in FusionJobRow
    BY FusionPresentRows
  <1> DEFINE aJob == [state |-> "queued", retryable |-> FALSE, attempt |-> fusion[j].attempt + 1]
  <1>2. aJob \in FusionJobRow /\ Fusions!QueuedRow \in FusionAttemptRow /\ aJob.state = "queued"
        /\ aJob.attempt = fusion[j].attempt + 1
    BY <1>1 DEF FusionJobRow, FusionJobStates, FusionAttemptRow, FusionRowStates, Fusions!Active,
                  Fusions!QueuedRow
  <1>3. fusion' = [fusion EXCEPT ![j] = aJob]
    BY DEF Fusions!Retry
  <1> HIDE DEF aJob
  <1>4. FusionRowsTyped /\ \A k \in JobsOf["fusions"] \ {j} : FusionSame(k)
    BY <1>1, <1>2, <1>3 DEF Fusions!Retry, FusionTypeOK, FusionRowsTyped, FusionSame
  <1>5. FusionQueuedAgain(j)
    BY <1>1, <1>2, <1>3 DEF Fusions!Retry, FusionTypeOK, FusionQueuedAgain
  <1> QED
    BY <1>1, <1>4, <1>5, FusionOneMoves DEF Fusions!Retry, FusionTransition

\* Where nothing is published.
FusionUnpublished == UNCHANGED <<fusionProposals, version, Fusions!reviewVars>>

LEMMA FusionCancelAttemptMoves ==
    ASSUME FusionIInv, NEW j \in JobsOf["fusions"],
             fusion[j].state \in {"queued", "cancel-requested"}, Fusions!CancelAttempt(j),
           fusionWorker' \in [Workers -> FusionWorkerRow], FusionUnpublished
    PROVE  FusionQuiet
  <1>1. FusionTypeOK
    BY FusionPresentRows
  <1>2. FusionEndsAs("cancelled") = "cancelled"
    BY DEF FusionEndsAs
  <1>3. /\ fusion' \in [JobsOf["fusions"] -> FusionJobRow]
             /\ fusionRow' \in [JobsOf["fusions"] -> FusionAttemptRow]
        /\ FusionEndedAs(j, "cancelled") /\ \A k \in JobsOf["fusions"] \ {j} : FusionSame(k)
    BY <1>1, <1>2, FusionEndingMoves DEF Fusions!CancelAttempt, FusionJobStates, FusionRowStates
  <1> QED
    BY <1>1, <1>3, FusionOneMoves DEF FusionRowsTyped, FusionTransition, FusionClosed,
         FusionUnpublished

LEMMA FusionCancelMoves ==
    ASSUME FusionIInv, NEW j \in JobsOf["fusions"], Fusions!Cancel(j)
    PROVE  FusionQuiet
  <1>1. FusionTypeOK /\ fusion[j] \in FusionJobRow /\ fusionRow[j] \in FusionAttemptRow
    BY FusionPresentRows
  <1>2. fusionWorker' \in [Workers -> FusionWorkerRow] /\ FusionUnpublished
    BY <1>1 DEF Fusions!Cancel, FusionTypeOK, FusionUnpublished
  <1>3. CASE fusion[j].state = "queued" /\ Fusions!CancelAttempt(j)
    BY <1>2, <1>3, FusionCancelAttemptMoves
  <1>4. CASE /\ fusion[j].state \in Fusions!Active
             /\ Fusions!SetRows(j, [fusionRow[j] EXCEPT !.state = "cancel-requested"],
                  "cancel-requested", FALSE)
    <2> DEFINE aRow == [fusionRow[j] EXCEPT !.state = "cancel-requested"]
    <2>1. /\ aRow \in FusionAttemptRow /\ aRow.state = "cancel-requested"
          /\ aRow.claims = fusionRow[j].claims /\ aRow.token = fusionRow[j].token
      BY <1>1 DEF FusionAttemptRow, FusionRowStates
    <2> HIDE DEF aRow
    <2>2. /\ fusion' \in [JobsOf["fusions"] -> FusionJobRow]
               /\ fusionRow' \in [JobsOf["fusions"] -> FusionAttemptRow]
          /\ fusion'[j].state = "cancel-requested" /\ fusion'[j].attempt = fusion[j].attempt
               /\ fusionRow'[j] = aRow
          /\ \A k \in JobsOf["fusions"] \ {j} : FusionSame(k)
      BY <1>1, <1>4, <2>1, FusionRowsAfter DEF aRow, FusionJobStates
    <2>3. FusionAskedToStop(j)
      BY <1>4, <2>1, <2>2 DEF FusionAskedToStop
    <2> QED
      BY <1>1, <1>2, <2>2, <2>3, FusionOneMoves
           DEF FusionTransition, FusionRowsTyped, FusionUnpublished
  <1> QED
    BY <1>3, <1>4 DEF Fusions!Cancel

\* A withdrawal moves every job of its source that is not over.
LEMMA FusionWithdrawSourceMoves ==
    ASSUME FusionIInv, NEW s \in Fusions!Sources, Fusions!WithdrawSource(s)
    PROVE  FusionQuiet
  <1>1. FusionTypeOK
    BY DEF FusionIInv
  <1> DEFINE affected == {j \in JobsOf["fusions"] : s \in SourcesOf[j]
        /\ fusion[j].state \in Fusions!Active \cup {"queued"}}
             aJob(j) == [fusion[j] EXCEPT !.retryable = FALSE,
                                       !.state = IF @ = "queued" THEN "failed"
                                         ELSE "cancel-requested"]
             aRow(j) == [fusionRow[j] EXCEPT !.state = IF @ = "queued" THEN "failed"
               ELSE "cancel-requested"]
  <1>2. ASSUME NEW j \in affected
        PROVE  /\ aJob(j) \in FusionJobRow /\ aRow(j) \in FusionAttemptRow
               /\ aJob(j).state = (IF fusion[j].state = "queued" THEN "failed"
                    ELSE "cancel-requested")
               /\ aJob(j).attempt = fusion[j].attempt
               /\ aRow(j).state = (IF fusionRow[j].state = "queued" THEN "failed"
                    ELSE "cancel-requested")
               /\ aRow(j).claims = fusionRow[j].claims /\ aRow(j).token = fusionRow[j].token
    <2>1. fusion[j] \in FusionJobRow /\ fusionRow[j] \in FusionAttemptRow
      BY <1>1 DEF FusionTypeOK
    <2> QED
      BY <2>1 DEF FusionJobRow, FusionAttemptRow, FusionJobStates, FusionRowStates
  <1>3. \A j \in affected : fusion'[j] = aJob(j) /\ fusionRow'[j] = aRow(j)
    BY DEF Fusions!WithdrawSource
  <1>4. \A j \in JobsOf["fusions"] \ affected : FusionSame(j)
    BY DEF Fusions!WithdrawSource, FusionSame
  <1>5. FusionRowsTyped
    <2>1. fusion' \in [JobsOf["fusions"] -> FusionJobRow]
      BY <1>1, <1>2, <1>3, <1>4 DEF Fusions!WithdrawSource, FusionTypeOK, FusionSame
    <2>2. fusionRow' \in [JobsOf["fusions"] -> FusionAttemptRow]
      BY <1>1, <1>2, <1>3, <1>4 DEF Fusions!WithdrawSource, FusionTypeOK, FusionSame
    <2> QED
      BY <1>1, <2>1, <2>2 DEF FusionRowsTyped, Fusions!WithdrawSource, FusionTypeOK
  <1>6. ASSUME NEW j \in affected PROVE FusionTransition(j)
    <2>1. FusionRowAgrees(j) /\ fusion[j].state \in Fusions!Active \cup {"queued"}
      BY FusionPresentRows
    <2>2. CASE fusion[j].state = "queued"
      <3>1. fusionRow[j].state = "queued" /\ fusionRow[j].token = 0
        BY <2>1, <2>2 DEF FusionRowAgrees, Fusions!QueuedRow
      <3>2. FusionEndedAs(j, "failed")
        BY <1>2, <1>3, <2>2, <3>1 DEF FusionEndedAs, FusionEndsAs
      <3> QED
        BY <2>2, <3>2 DEF FusionTransition, FusionClosed
    <2>3. CASE fusion[j].state \in Fusions!Active
      <3>1. fusionRow[j].state = "leased" /\ fusion[j].state # "queued"
        BY <2>1, <2>3 DEF FusionRowAgrees, Fusions!Active
      <3>2. FusionAskedToStop(j)
        BY <1>2, <1>3, <2>3, <3>1 DEF FusionAskedToStop
      <3> QED
        BY <3>2 DEF FusionTransition
    <2> QED
      BY <2>1, <2>2, <2>3
  <1> HIDE DEF affected
  <1>7. \A j \in JobsOf["fusions"] : FusionTransition(j)
    BY <1>4, <1>6 DEF FusionTransition
  <1> QED
    BY <1>1, <1>5, <1>7 DEF FusionQuiet, Fusions!WithdrawSource, FusionTypeOK, FusionRowsOf

LEMMA FusionCandidateRow ==
    ASSUME Fusions!FusionConstants, FusionIInv, Fusions!Candidates # {}
    PROVE  /\ Fusions!Min(Fusions!Candidates) \in JobsOf["fusions"]
                /\ Fusions!Min(Fusions!Candidates) \in Fusions!Candidates
           /\ fusion[Fusions!Min(Fusions!Candidates)].state \in Fusions!Active \cup {"queued",
                "cancel-requested"}
  BY FusionLeastMember DEF Fusions!Candidates, Fusions!FusionConstants

LEMMA FusionClaimMoves ==
    ASSUME Fusions!FusionConstants, FusionIInv, NEW w \in Workers, Fusions!Claim(w)
    PROVE  FusionQuiet
  <1>1. PICK j \in JobsOf["fusions"] : j = Fusions!Min(Fusions!Candidates)
    BY FusionCandidateRow DEF Fusions!Claim
  <1>2. /\ FusionTypeOK /\ FusionRowAgrees(j) /\ fusion[j] \in FusionJobRow
             /\ fusionRow[j] \in FusionAttemptRow
        /\ fusion[j].state \in Fusions!Active \cup {"queued", "cancel-requested"}
    BY <1>1, FusionPresentRows, FusionCandidateRow DEF Fusions!Claim
  <1>3. FusionUnpublished
    BY DEF Fusions!Claim, FusionUnpublished
  <1>4. CASE fusion[j].state = "cancel-requested"
    <2>1. Fusions!CancelAttempt(j) /\ fusionWorker' = fusionWorker
      BY <1>1, <1>4 DEF Fusions!Claim
    <2> QED
      BY <1>2, <1>3, <1>4, <2>1, FusionCancelAttemptMoves DEF FusionTypeOK
  <1>5. CASE fusion[j].state # "cancel-requested"
    <2> DEFINE claim == fusionRow[j].claims + 1
               stage == IF fusion[j].state = "queued" THEN "registering" ELSE fusion[j].state
               aRow == [state |-> "leased", stage |-> stage, claims |-> claim,
                        token |-> claim, lapsed |-> FALSE]
               e == [phase |-> "registering", job |-> j, attempt |-> fusion[j].attempt,
                 token |-> claim]
    <2>1. Fusions!SetRows(j, aRow, stage, fusion[j].retryable)
            /\ fusionWorker' = [fusionWorker EXCEPT ![w] = e]
      BY <1>1, <1>5 DEF Fusions!Claim
    <2>2. claim \in Nat /\ claim = fusionRow[j].claims + 1 /\ stage \in Fusions!Active
      BY <1>2, <1>5 DEF FusionAttemptRow, Fusions!Active
    <2> HIDE DEF claim, stage
    <2>3. aRow \in FusionAttemptRow /\ e \in FusionWorkerRow
      BY <1>2, <2>2 DEF FusionAttemptRow, FusionRowStates, FusionWorkerRow, FusionExecution,
           FusionPhases, FusionJobRow
    <2>4. /\ aRow.state = "leased" /\ aRow.stage = stage /\ aRow.claims = claim
               /\ aRow.token = claim
      OBVIOUS
    <2>5. fusion[j].retryable \in BOOLEAN /\ stage \in FusionJobStates
      BY <1>2, <2>2 DEF FusionJobRow, FusionJobStates
    <2> HIDE DEF aRow, e
    <2>6. /\ fusion' \in [JobsOf["fusions"] -> FusionJobRow]
               /\ fusionRow' \in [JobsOf["fusions"] -> FusionAttemptRow]
          /\ fusion'[j].state = stage /\ fusion'[j].attempt = fusion[j].attempt
               /\ fusionRow'[j] = aRow
          /\ \A k \in JobsOf["fusions"] \ {j} : FusionSame(k)
      BY <1>2, <2>1, <2>3, <2>5, FusionRowsAfter
    <2>7. FusionClaimed(j)
      BY <1>2, <1>5, <2>2, <2>4, <2>6 DEF FusionClaimed, FusionWorked
    <2>8. FusionRowsTyped
      BY <1>2, <2>1, <2>3, <2>6 DEF FusionRowsTyped, FusionTypeOK
    <2> QED
      BY <1>2, <1>3, <2>6, <2>7, <2>8, FusionOneMoves DEF FusionTransition, FusionUnpublished
  <1> QED
    BY <1>4, <1>5

\* Only a job that waits is failed: a leased row has a token.
LEMMA FusionClaimWithoutRightsMoves ==
    ASSUME Fusions!FusionConstants, FusionIInv, NEW w \in Workers, Fusions!ClaimWithoutRights(w)
    PROVE  FusionQuiet
  <1>1. PICK j \in JobsOf["fusions"] : j = Fusions!Min(Fusions!Candidates)
    BY FusionCandidateRow DEF Fusions!ClaimWithoutRights
  <1>2. /\ FusionTypeOK /\ FusionRowAgrees(j) /\ fusion[j] \in FusionJobRow
             /\ fusionRow[j] \in FusionAttemptRow
        /\ fusion[j].state \in Fusions!Active \cup {"queued", "cancel-requested"}
    BY <1>1, FusionPresentRows, FusionCandidateRow DEF Fusions!ClaimWithoutRights
  <1>3. FusionUnpublished /\ fusion[j].state # "cancel-requested"
    BY <1>1 DEF Fusions!ClaimWithoutRights, FusionUnpublished
  <1>4. CASE fusionRow[j].token = 0
    <2> DEFINE aRow == [fusionRow[j] EXCEPT !.state = "failed"]
    <2>1. Fusions!SetRows(j, aRow, "failed", FALSE) /\ fusionWorker' = fusionWorker
      BY <1>1, <1>4 DEF Fusions!ClaimWithoutRights
    <2>2. /\ aRow \in FusionAttemptRow /\ aRow.state = "failed" /\ aRow.token = 0
          /\ aRow.claims = fusionRow[j].claims
      BY <1>2, <1>4 DEF FusionAttemptRow, FusionRowStates
    <2> HIDE DEF aRow
    <2>3. /\ fusion' \in [JobsOf["fusions"] -> FusionJobRow]
               /\ fusionRow' \in [JobsOf["fusions"] -> FusionAttemptRow]
          /\ fusion'[j].state = "failed" /\ fusion'[j].attempt = fusion[j].attempt
               /\ fusionRow'[j] = aRow
          /\ \A k \in JobsOf["fusions"] \ {j} : FusionSame(k)
      BY <1>2, <2>1, <2>2, FusionRowsAfter DEF FusionJobStates
    <2>4. fusion[j].state = "queued"
      BY <1>2, <1>3, <1>4 DEF FusionRowAgrees, FusionAttemptRow
    <2>5. FusionClosed(j)
      BY <2>2, <2>3, <2>4 DEF FusionClosed, FusionEndedAs, FusionEndsAs
    <2> QED
      BY <1>2, <1>3, <2>1, <2>3, <2>5, FusionOneMoves
           DEF FusionTransition, FusionRowsTyped, FusionUnpublished, FusionTypeOK
  <1>5. CASE fusionRow[j].token # 0
    <2>1. fusionWorker' = [fusionWorker EXCEPT ![w] = FusionStopped]
            /\ UNCHANGED <<fusion, fusionRow>>
      BY <1>1, <1>5 DEF Fusions!ClaimWithoutRights, FusionStopped
    <2> QED
      BY <1>2, <1>3, <2>1, FusionNoneMoves DEF FusionUnpublished, FusionTypeOK, FusionWorkerRow
  <1> QED
    BY <1>4, <1>5

LEMMA FusionLeaseLapsesMoves ==
    ASSUME FusionIInv, NEW j \in JobsOf["fusions"], Fusions!LeaseLapses(j)
    PROVE  FusionQuiet
  <1>1. FusionTypeOK /\ FusionRowAgrees(j) /\ fusion[j] \in FusionJobRow
          /\ fusionRow[j] \in FusionAttemptRow
    BY FusionPresentRows
  <1> DEFINE aRow == [fusionRow[j] EXCEPT !.lapsed = TRUE]
  <1>2. /\ aRow \in FusionAttemptRow /\ aRow.state = fusionRow[j].state
             /\ aRow.stage = fusionRow[j].stage
        /\ aRow.claims = fusionRow[j].claims /\ aRow.token = fusionRow[j].token
    BY <1>1 DEF FusionAttemptRow
  <1>3. fusionRow' = [fusionRow EXCEPT ![j] = aRow] /\ UNCHANGED <<fusion, fusionWorker>>
    BY DEF Fusions!LeaseLapses
  <1> HIDE DEF aRow
  <1>4. fusion[j].state \in Fusions!Active \cup {"cancel-requested"}
    BY <1>1 DEF Fusions!LeaseLapses, FusionRowAgrees, Fusions!QueuedRow, FusionJobRow,
                  FusionJobStates
  <1>5. FusionLapsed(j) /\ FusionRowsTyped /\ \A k \in JobsOf["fusions"] \ {j} : FusionSame(k)
    BY <1>1, <1>2, <1>3, <1>4 DEF FusionLapsed, FusionRowsTyped, FusionSame, FusionTypeOK
  <1> QED
    BY <1>1, <1>5, FusionOneMoves DEF FusionTransition, Fusions!LeaseLapses

\* A worker that is busy, and the job of a lease that is held.
LEMMA FusionBusyWorker ==
    ASSUME FusionIInv, NEW w \in Workers, fusionWorker[w].phase \notin {"idle", "stopped"}
    PROVE  /\ FusionTypeOK /\ fusionWorker[w] \in FusionExecution
                /\ fusionWorker[w].job \in JobsOf["fusions"]
           /\ fusionWorker[w].attempt \in Nat /\ fusionWorker[w].token \in Nat
  BY DEF FusionIInv, FusionTypeOK, FusionWorkerRow, FusionExecution, Fusions!Idle, FusionStopped

LEMMA FusionHeldJob ==
    ASSUME FusionIInv, NEW w \in Workers, fusionWorker[w].phase \notin {"idle", "stopped"},
             Fusions!Holds(w)
    PROVE  /\ fusionWorker[w].attempt = fusion[fusionWorker[w].job].attempt
           /\ fusionWorker[w].token = fusionRow[fusionWorker[w].job].claims
           /\ fusion[fusionWorker[w].job].state \in Fusions!Active
           /\ fusionRow[fusionWorker[w].job].stage = fusion[fusionWorker[w].job].state
  <1>1. fusionWorker[w].job \in JobsOf["fusions"]
    BY FusionBusyWorker
  <1>2. FusionRowAgrees(fusionWorker[w].job) /\ fusion[fusionWorker[w].job] \in FusionJobRow
    BY <1>1, FusionPresentRows
  <1> QED
    BY <1>2 DEF Fusions!Holds, Fusions!IsToken, FusionRowAgrees, Fusions!QueuedRow, FusionJobRow,
                  FusionJobStates

LEMMA FusionAdvanceMoves ==
    ASSUME FusionIInv, NEW w \in Workers, Fusions!Advance(w)
    PROVE  FusionQuiet
  <1>1. fusionWorker[w].phase \in {"registering", "fitting"}
    BY DEF Fusions!Advance
  <1>2. PICK j \in JobsOf["fusions"] : j = fusionWorker[w].job
    BY <1>1, FusionBusyWorker
  <1>3. PICK stage \in {"fitting", "comparing"} : stage = Fusions!NextStage(fusionWorker[w].phase)
    BY DEF Fusions!NextStage
  <1>4. FusionTypeOK /\ FusionRowAgrees(j) /\ fusion[j] \in FusionJobRow
          /\ fusionRow[j] \in FusionAttemptRow
    BY FusionPresentRows
  <1>5. FusionUnpublished
    BY DEF Fusions!Advance, FusionUnpublished
  <1>6. CASE Fusions!Holds(w) /\ <<fusionRow[j].stage, stage>> \in Fusions!Allowed
    <2> DEFINE aRow == [fusionRow[j] EXCEPT !.stage = stage]
    <2>1. Fusions!SetRows(j, aRow, stage, fusion[j].retryable) /\ Fusions!Goes(w, stage)
      BY <1>2, <1>3, <1>6 DEF Fusions!Advance
    <2>2. /\ aRow \in FusionAttemptRow /\ aRow.stage = stage /\ aRow.state = fusionRow[j].state
          /\ aRow.claims = fusionRow[j].claims /\ aRow.token = fusionRow[j].token
      BY <1>4 DEF FusionAttemptRow, Fusions!Active
    <2> HIDE DEF aRow
    <2>3. fusion[j].retryable \in BOOLEAN /\ stage \in FusionJobStates
      BY <1>4 DEF FusionJobRow, FusionJobStates, Fusions!Active
    <2>4. /\ fusion' \in [JobsOf["fusions"] -> FusionJobRow]
               /\ fusionRow' \in [JobsOf["fusions"] -> FusionAttemptRow]
          /\ fusion'[j].state = stage /\ fusion'[j].attempt = fusion[j].attempt
               /\ fusionRow'[j] = aRow
          /\ \A k \in JobsOf["fusions"] \ {j} : FusionSame(k)
      BY <1>4, <2>1, <2>2, <2>3, FusionRowsAfter
    <2>5. fusion[j].state \in Fusions!Active /\ fusionRow[j].state = "leased"
            /\ fusionRow[j].token = fusionRow[j].claims
      BY <1>1, <1>2, <1>4, <1>6, FusionHeldJob DEF Fusions!Holds, FusionRowAgrees
    <2>6. FusionAdvanced(j)
      BY <2>2, <2>4, <2>5 DEF FusionAdvanced, FusionWorked, Fusions!Active
    <2>7. fusionWorker' \in [Workers -> FusionWorkerRow]
      BY <1>1, <1>4, <2>1, FusionWorkerGoes DEF FusionPhases
    <2> QED
      BY <1>4, <1>5, <2>4, <2>6, <2>7, FusionOneMoves
           DEF FusionTransition, FusionRowsTyped, FusionUnpublished
  <1>7. CASE ~(Fusions!Holds(w) /\ <<fusionRow[j].stage, stage>> \in Fusions!Allowed)
    <2>1. Fusions!Fails(w, FALSE) /\ UNCHANGED <<fusion, fusionRow>>
      BY <1>2, <1>3, <1>7 DEF Fusions!Advance
    <2> QED
      BY <1>1, <1>4, <1>5, <2>1, FusionWorkerFails, FusionNoneMoves DEF FusionUnpublished
  <1> QED
    BY <1>6, <1>7

\* A worker goes on, gives up or is gone.
LEMMA FusionWorkerOnlyMoves ==
    ASSUME FusionIInv, NEW w \in Workers,
           \/ Fusions!Abstain(w) \/ Fusions!Crash(w) \/ Fusions!Restart(w)
           \/ \E retryable \in BOOLEAN : Fusions!Throws(w, retryable)
    PROVE  FusionQuiet
  <1>1. FusionTypeOK /\ UNCHANGED <<Fusions!queueVars, Fusions!rightsVars, Fusions!reviewVars>>
    BY DEF FusionIInv, Fusions!Abstain, Fusions!Crash, Fusions!Restart, Fusions!Throws
  <1>2. fusionWorker' \in [Workers -> FusionWorkerRow]
    <2>1. CASE Fusions!Abstain(w)
      BY <1>1, <2>1, FusionWorkerGoes DEF Fusions!Abstain, FusionPhases
    <2>2. CASE Fusions!Crash(w) \/ Fusions!Restart(w)
      BY <1>1, <2>2, FusionWorkerStops DEF Fusions!Crash, Fusions!Restart, Fusions!Stop
    <2>3. CASE \E retryable \in BOOLEAN : Fusions!Throws(w, retryable)
      BY <1>1, <2>3, FusionWorkerFails DEF Fusions!Throws, Fusions!Executing
    <2> QED
      BY <2>1, <2>2, <2>3
  <1> QED
    BY <1>1, <1>2, FusionNoneMoves DEF Fusions!queueVars

LEMMA FusionFailMoves ==
    ASSUME FusionIInv, NEW w \in Workers, Fusions!Fail(w)
    PROVE  FusionQuiet
  <1>1. fusionWorker[w].phase \in {"failing", "failing-retryable"} /\ FusionUnpublished
    BY DEF Fusions!Fail, FusionUnpublished
  <1>2. PICK j \in JobsOf["fusions"] : j = fusionWorker[w].job
    BY <1>1, FusionBusyWorker
  <1>3. FusionTypeOK
    BY DEF FusionIInv
  <1>4. CASE Fusions!Holds(w)
    <2>1. PICK retryable \in BOOLEAN :
              retryable = (fusionWorker[w].phase = "failing-retryable"
                /\ fusionWorker[w].attempt < AttemptsOf["fusions"])
      OBVIOUS
    <2>2. Fusions!SetRows(j, Fusions!Ended(j, FusionEndsAs("failed")), "failed", retryable)
            /\ Fusions!Stop(w)
      BY <1>2, <1>4, <2>1 DEF Fusions!Fail, FusionEndsAs
    <2>3. /\ fusion' \in [JobsOf["fusions"] -> FusionJobRow]
               /\ fusionRow' \in [JobsOf["fusions"] -> FusionAttemptRow]
          /\ FusionEndedAs(j, "failed") /\ \A k \in JobsOf["fusions"] \ {j} : FusionSame(k)
      BY <1>3, <2>2, FusionEndingMoves DEF FusionJobStates, FusionRowStates, FusionEndsAs
    <2>4. fusion[j].state \in Fusions!Active
      BY <1>1, <1>2, <1>4, FusionHeldJob
    <2>5. fusionWorker' \in [Workers -> FusionWorkerRow]
      BY <1>3, <2>2, FusionWorkerStops
    <2> QED
      BY <1>1, <1>3, <2>3, <2>4, <2>5, FusionOneMoves
           DEF FusionRowsTyped, FusionTransition, FusionClosed, FusionUnpublished
  <1>5. CASE ~Fusions!Holds(w)
    BY <1>1, <1>3, <1>5, FusionWorkerGoes, FusionNoneMoves
         DEF Fusions!Fail, FusionUnpublished, FusionPhases
  <1> QED
    BY <1>4, <1>5

LEMMA FusionAcknowledgeMoves ==
    ASSUME FusionIInv, NEW w \in Workers, Fusions!Acknowledge(w)
    PROVE  FusionQuiet
  <1>1. /\ fusionWorker[w].phase = "acknowledging" /\ FusionUnpublished
        /\ Fusions!Stop(w) /\ FusionTypeOK
    BY DEF Fusions!Acknowledge, FusionUnpublished, FusionIInv
  <1>2. PICK j \in JobsOf["fusions"] : j = fusionWorker[w].job
    BY <1>1, FusionBusyWorker
  <1>3. fusionWorker' \in [Workers -> FusionWorkerRow]
    BY <1>1, FusionWorkerStops
  <1>4. CASE Fusions!IsToken(w) /\ fusionRow[j].state = "cancel-requested" /\ ~fusionRow[j].lapsed
    <2>1. FusionRowAgrees(j) /\ fusion[j] \in FusionJobRow
      BY FusionPresentRows
    <2>2. fusion[j].state = "cancel-requested"
      BY <1>4, <2>1 DEF FusionRowAgrees, Fusions!QueuedRow, FusionJobRow, FusionJobStates
    <2>3. Fusions!CancelAttempt(j)
      BY <1>2, <1>4 DEF Fusions!Acknowledge
    <2> QED
      BY <1>1, <1>3, <2>2, <2>3, FusionCancelAttemptMoves
  <1>5. CASE ~(Fusions!IsToken(w) /\ fusionRow[j].state = "cancel-requested"
          /\ ~fusionRow[j].lapsed)
    BY <1>1, <1>2, <1>3, <1>5, FusionNoneMoves DEF Fusions!Acknowledge, FusionUnpublished
  <1> QED
    BY <1>4, <1>5

\* Of a publication the holder's job is the one that moves.
LEMMA FusionPublishMoves ==
    ASSUME FusionIInv, NEW w \in Workers, NEW answered \in BOOLEAN, Fusions!Publish(w, answered)
    PROVE  FusionQuiet \/ \E j \in JobsOf["fusions"] : FusionPublished(j)
  <1>1. fusionWorker[w].phase \in {"abstaining", "comparing"} /\ UNCHANGED Fusions!reviewVars
          /\ FusionTypeOK
    BY DEF Fusions!Publish, FusionIInv
  <1>2. PICK j \in JobsOf["fusions"] : j = fusionWorker[w].job
    BY <1>1, FusionBusyWorker
  <1>3. fusionWorker[w].attempt \in Nat
    BY <1>1, FusionBusyWorker
  <1>4. PICK status \in {"abstained", "proposed"} :
            status = IF fusionWorker[w].phase = "abstaining" THEN "abstained" ELSE "proposed"
    OBVIOUS
  <1>5. Fusions!Stop(w) \/ Fusions!Fails(w, FALSE) => fusionWorker' \in [Workers -> FusionWorkerRow]
    BY <1>1, FusionWorkerStops, FusionWorkerFails
  <1>6. CASE ~Fusions!Holds(w) \/ (status = "proposed" /\ fusion[j].state # "comparing")
    <2>1. Fusions!Fails(w, FALSE) /\ UNCHANGED Fusions!queueVars
      BY <1>2, <1>4, <1>6 DEF Fusions!Publish
    <2> QED
      BY <1>1, <1>5, <2>1, FusionNoneMoves DEF Fusions!queueVars
  <1>7. CASE /\ ~(~Fusions!Holds(w) \/ (status = "proposed" /\ fusion[j].state # "comparing"))
             /\ ~Fusions!RightsActive(j)
    <2>1. /\ Fusions!SetRows(j, Fusions!Ended(j, FusionEndsAs("failed")), "failed", FALSE)
               /\ Fusions!Fails(w, FALSE)
          /\ UNCHANGED <<fusionProposals, version>>
      BY <1>2, <1>4, <1>7 DEF Fusions!Publish, FusionEndsAs
    <2>2. /\ fusion' \in [JobsOf["fusions"] -> FusionJobRow]
               /\ fusionRow' \in [JobsOf["fusions"] -> FusionAttemptRow]
          /\ FusionEndedAs(j, "failed") /\ \A k \in JobsOf["fusions"] \ {j} : FusionSame(k)
      BY <1>1, <2>1, FusionEndingMoves DEF FusionJobStates, FusionRowStates, FusionEndsAs
    <2>3. fusion[j].state \in Fusions!Active
      BY <1>1, <1>2, <1>7, FusionHeldJob
    <2> QED
      BY <1>1, <1>5, <2>1, <2>2, <2>3, FusionOneMoves
           DEF FusionRowsTyped, FusionTransition, FusionClosed
  <1>8. CASE /\ ~(~Fusions!Holds(w) \/ (status = "proposed" /\ fusion[j].state # "comparing"))
             /\ Fusions!RightsActive(j)
    <2>1. PICK retryable \in BOOLEAN :
              retryable = (status = "abstained" /\ fusionWorker[w].attempt < AttemptsOf["fusions"])
      OBVIOUS
    <2>2. /\ fusionWorker[w].attempt = fusion[j].attempt
               /\ fusionWorker[w].token = fusionRow[j].claims
          /\ fusion[j].state \in Fusions!Active
      BY <1>1, <1>2, <1>8, FusionHeldJob
    <2> DEFINE proposal ==
            [job |-> j, attempt |-> fusion[j].attempt, claim |-> fusionRow[j].claims,
              status |-> status]
    <2>3. /\ fusionProposals' = fusionProposals \cup {proposal}
          /\ version' = IF status = "proposed" THEN [version EXCEPT ![j] = 1] ELSE version
          /\ Fusions!SetRows(j, Fusions!Ended(j, "succeeded"), status, retryable)
          /\ Fusions!Stop(w) \/ Fusions!Fails(w, FALSE)
      BY <1>2, <1>4, <1>8, <2>1, <2>2 DEF Fusions!Publish
    <2>4. FusionEndsAs(status) = "succeeded"
      BY DEF FusionEndsAs
    <2>5. /\ fusion' \in [JobsOf["fusions"] -> FusionJobRow]
               /\ fusionRow' \in [JobsOf["fusions"] -> FusionAttemptRow]
          /\ FusionEndedAs(j, status) /\ \A k \in JobsOf["fusions"] \ {j} : FusionSame(k)
      BY <1>1, <2>3, <2>4, FusionEndingMoves DEF FusionJobStates, FusionRowStates
    <2>6. FusionRowsTyped
      BY <1>5, <2>3, <2>5 DEF FusionRowsTyped
    <2>7. fusion[j] \in FusionJobRow /\ fusionRow[j] \in FusionAttemptRow
      BY FusionPresentRows
    <2>8. proposal \in FusionProposalRow /\ proposal.job = j /\ proposal.status = status
      BY <2>7 DEF FusionProposalRow, FusionJobRow, FusionAttemptRow
    <2>9. CASE status = "abstained"
      <3> HIDE DEF proposal
      <3>1. \A k \in JobsOf["fusions"] :
              FusionRowsOf(k, fusionProposals') = FusionRowsOf(k, fusionProposals)
        BY <2>3, <2>8, <2>9 DEF FusionRowsOf
      <3>2. \A k \in JobsOf["fusions"] : FusionTransition(k)
        BY <2>2, <2>5, <2>9 DEF FusionTransition, FusionClosed
      <3> QED
        BY <1>1, <2>3, <2>6, <2>8, <2>9, <3>1, <3>2 DEF FusionQuiet, FusionTypeOK
    <2>10. CASE status = "proposed"
      BY <1>1, <2>2, <2>3, <2>5, <2>6, <2>10 DEF FusionPublished, FusionDone
    <2> QED
      BY <2>9, <2>10
  <1> QED
    BY <1>6, <1>7, <1>8

\* Every step moves the rows, is a review, or is about rights.
LEMMA FusionNextMoves ==
    ASSUME Fusions!FusionConstants, FusionIInv, [Fusions!Next]_(Fusions!vars)
    PROVE  \/ FusionQuiet \/ \E j \in JobsOf["fusions"] : FusionPublished(j)
           \/ (FusionIInv' /\ UNCHANGED <<fusion, fusionRow, fusionProposals>>)
  <1>1. ASSUME NEW j \in JobsOf["fusions"], Fusions!UserStep(j)
        PROVE  FusionQuiet \/ (FusionIInv' /\ UNCHANGED <<fusion, fusionRow, fusionProposals>>)
    <2>1. ASSUME NEW seen \in 1..MaximumVersion, NEW discrepancies \in SUBSET Discrepancies,
                 NEW accepted \in BOOLEAN, Fusions!Review(j, seen, discrepancies, accepted)
          PROVE  FusionIInv' /\ UNCHANGED <<fusion, fusionRow, fusionProposals>>
      <3>1. FusionIInv'
        BY <2>1, FusionReviewKeeps
      <3> QED
        BY <2>1, <3>1 DEF Fusions!Review
    <2>2. ASSUME NEW seen \in 1..MaximumVersion, NEW chosen \in SUBSET decisions,
                 Fusions!CreateOperationDraft(j, seen, chosen)
          PROVE  FusionIInv' /\ UNCHANGED <<fusion, fusionRow, fusionProposals>>
      <3>1. seen \in Nat \ {0}
        BY DEF Fusions!CreateOperationDraft, FusionIInv, FusionTypeOK
      <3>2. FusionIInv'
        BY <2>2, <3>1, FusionCreateOperationDraftKeeps
      <3> QED
        BY <2>2, <3>2 DEF Fusions!CreateOperationDraft, Fusions!queueVars
    <2>3. CASE Fusions!Create(j) \/ Fusions!Cancel(j) \/ Fusions!Retry(j)
      BY <2>3, FusionCreateMoves, FusionCancelMoves, FusionRetryMoves
    <2>4. CASE \E seen \in 1..MaximumVersion :
                  \E discrepancies \in SUBSET Discrepancies, accepted \in BOOLEAN :
                     Fusions!Review(j, seen, discrepancies, accepted)
      BY <2>1, <2>4
    <2>5. CASE \E seen \in 1..MaximumVersion :
                  \E chosen \in SUBSET decisions : Fusions!CreateOperationDraft(j, seen, chosen)
      BY <2>2, <2>5
    <2> QED
      BY <1>1, <2>3, <2>4, <2>5 DEF Fusions!UserStep
  <1>2. ASSUME NEW s \in Fusions!Sources, Fusions!RightsEnd(s) PROVE FusionQuiet
    BY <1>2, FusionNoneMoves DEF Fusions!RightsEnd, Fusions!queueVars, FusionIInv, FusionTypeOK
  <1>3. ASSUME NEW w \in Workers, Fusions!WorkerStep(w)
        PROVE  FusionQuiet \/ \E j \in JobsOf["fusions"] : FusionPublished(j)
    <2>1. ASSUME Fusions!RunnerStep(w) PROVE FusionQuiet
                   \/ \E j \in JobsOf["fusions"] : FusionPublished(j)
      BY <2>1, FusionAdvanceMoves, FusionFailMoves, FusionAcknowledgeMoves, FusionPublishMoves
           DEF Fusions!RunnerStep
    <2> QED
      BY <1>3, <2>1, FusionClaimMoves, FusionClaimWithoutRightsMoves, FusionWorkerOnlyMoves
           DEF Fusions!WorkerStep
  <1>4. CASE UNCHANGED Fusions!vars
    BY <1>4, FusionNoneMoves DEF Fusions!vars, Fusions!queueVars, FusionIInv, FusionTypeOK
  <1> QED
    BY <1>1, <1>2, <1>3, <1>4, FusionLeaseLapsesMoves, FusionWithdrawSourceMoves DEF Fusions!Next

\* Each job and its attempt's row agree, and drafts are not ahead of reviews.
THEOREM FusionsAreSound ==
    ASSUME Fusions!FusionConstants
    PROVE  Fusions!Spec => []FusionIInv
  <1>1. Fusions!Init => FusionIInv
    <2> SUFFICES ASSUME Fusions!Init PROVE FusionIInv
      OBVIOUS
    <2>1. FusionTypeOK
      BY DEF Fusions!Init, FusionTypeOK, FusionJobRow, FusionAttemptRow, FusionJobStates,
               FusionRowStates, Fusions!QueuedRow, Fusions!Active, FusionWorkerRow
    <2>2. FusionRowsAgree
      BY DEF Fusions!Init, FusionRowsAgree, FusionRowAgrees, Fusions!QueuedRow, Fusions!Active
    <2> QED
      BY <2>1, <2>2 DEF Fusions!Init, FusionIInv, FusionProposalsAgree, FusionReviewsAgree,
           Fusions!DraftsFollowTheReview
  <1>2. FusionIInv /\ [Fusions!Next]_(Fusions!vars) => FusionIInv'
    BY FusionNextMoves, FusionQuietKeeps, FusionPublishedKeeps
  <1> QED
    BY <1>1, <1>2, PTL DEF Fusions!Spec

\* A draft never overlooks a reviewer's later word.
THEOREM FusionDraftsHoldTheLastWord ==
    ASSUME Fusions!FusionConstants
    PROVE  Fusions!Spec => []Fusions!DraftsFollowTheReview
  <1>1. FusionIInv => Fusions!DraftsFollowTheReview
    BY DEF FusionIInv
  <1> QED
    BY <1>1, FusionsAreSound, PTL

-----------------------------------------------------------------------------
(* The refinement of LeasedJobs: what the transitions are in its terms.    *)

\* What the view shows of a job.
FusionStatuses == {"absent", "waiting", "working", "stopping", "done", "cancelled", "failed"}

FusionShown == [status : FusionStatuses, attempt : Nat, claims : Nat, output : Nat \X Nat]

LEMMA FusionShownColumns ==
    \A r \in FusionShown :
        r = [status |-> r.status, attempt |-> r.attempt, claims |-> r.claims, output |-> r.output]
  BY DEF FusionShown

LEMMA FusionStatusOfState ==
    ASSUME NEW state \in FusionJobStates
    PROVE  /\ Fusions!Status(state) \in FusionStatuses
           /\ state = "queued" => Fusions!Status(state) = "waiting"
           /\ state \in Fusions!Active => Fusions!Status(state) = "working"
           /\ state = "cancel-requested" => Fusions!Status(state) = "stopping"
           /\ state = "proposed" => Fusions!Status(state) = "done"
           /\ state = "abstained" => Fusions!Status(state) = "failed"
           /\ state \in {"absent", "cancelled", "failed"} => Fusions!Status(state) = state
  BY DEF Fusions!Status, Fusions!Active, FusionJobStates, FusionStatuses

LEMMA FusionOutputOfRows ==
    ASSUME NEW rows, rows \subseteq FusionProposalRow
    PROVE  Fusions!Output(rows) \in Nat \X Nat
  <1>1. CASE rows = {}
    BY <1>1 DEF Fusions!Output
  <1>2. CASE rows # {}
    <2> DEFINE s == CHOOSE s \in rows : TRUE
    <2>1. s \in rows
      BY <1>2
    <2>2. Fusions!Output(rows) = <<s.attempt, s.claim>>
      BY <1>2 DEF Fusions!Output
    <2> QED
      BY <2>1, <2>2 DEF FusionProposalRow
  <1> QED
    BY <1>1, <1>2

LEMMA FusionViewOfJob ==
    ASSUME NEW j \in JobsOf["fusions"], NEW aJob \in FusionJobRow, NEW aRow \in FusionAttemptRow,
           NEW all, all \subseteq FusionProposalRow,
           NEW shown,
           shown = [status |-> Fusions!Status(aJob.state), attempt |-> aJob.attempt,
                    claims |-> aRow.claims, output |-> Fusions!Output(FusionRowsOf(j, all))]
    PROVE  /\ shown \in FusionShown
           /\ shown.status = Fusions!Status(aJob.state) /\ shown.attempt = aJob.attempt
           /\ shown.claims = aRow.claims /\ shown.output = Fusions!Output(FusionRowsOf(j, all))
  <1>1. Fusions!Status(aJob.state) \in FusionStatuses
    BY FusionStatusOfState DEF FusionJobRow
  <1>2. Fusions!Output(FusionRowsOf(j, all)) \in Nat \X Nat
    BY FusionOutputOfRows DEF FusionRowsOf
  <1> QED
    BY <1>1, <1>2 DEF FusionShown, FusionJobRow, FusionAttemptRow

\* What the view shows before and after a step.
LEMMA FusionViewBefore ==
    ASSUME FusionTypeOK, NEW j \in JobsOf["fusions"]
    PROVE  /\ Fusions!View[j] \in FusionShown
           /\ Fusions!View[j].status = Fusions!Status(fusion[j].state)
                /\ Fusions!View[j].attempt = fusion[j].attempt
           /\ Fusions!View[j].claims = fusionRow[j].claims
                /\ Fusions!View[j].output = Fusions!Output(FusionRowsOf(j, fusionProposals))
  <1>1. Fusions!View[j] = [status |-> Fusions!Status(fusion[j].state),
          attempt |-> fusion[j].attempt,
                   claims |-> fusionRow[j].claims,
                     output |-> Fusions!Output(FusionRowsOf(j, fusionProposals))]
    BY DEF Fusions!View, FusionRowsOf
  <1> QED
    BY <1>1, FusionViewOfJob DEF FusionTypeOK

LEMMA FusionViewAfter ==
    ASSUME FusionTypeOK', NEW j \in JobsOf["fusions"]
    PROVE  /\ Fusions!View'[j] \in FusionShown
           /\ Fusions!View'[j].status = Fusions!Status(fusion'[j].state)
                /\ Fusions!View'[j].attempt = fusion'[j].attempt
           /\ Fusions!View'[j].claims = fusionRow'[j].claims
                /\ Fusions!View'[j].output = Fusions!Output(FusionRowsOf(j, fusionProposals'))
  <1>1. Fusions!View'[j] = [status |-> Fusions!Status(fusion'[j].state),
          attempt |-> fusion'[j].attempt,
                    claims |-> fusionRow'[j].claims,
                      output |-> Fusions!Output(FusionRowsOf(j, fusionProposals'))]
    BY DEF Fusions!View, FusionRowsOf
  <1> QED
    BY <1>1, FusionViewOfJob DEF FusionTypeOK

\* Two views with the same columns.
LEMMA FusionSameShown ==
    ASSUME NEW old \in FusionShown, NEW new \in FusionShown,
           new.status = old.status, new.attempt = old.attempt, new.claims = old.claims,
           new.output = old.output
    PROVE  new = old
  BY FusionShownColumns

\* The steps of LeasedJobs, column by column.
LEMMA FusionQueueColumns ==
    ASSUME NEW old \in FusionShown, NEW new \in FusionShown,
           old.status \in {"absent", "cancelled", "failed"}, old.attempt < AttemptsOf["fusions"],
           new.status = "waiting", new.attempt = old.attempt + 1, new.claims = 0,
           new.output = old.output
    PROVE  Fusions!Leased!Queue(old, new)
  <1> DEFINE q == [old EXCEPT !.status = "waiting", !.attempt = @ + 1, !.claims = 0]
  <1>1. /\ q \in FusionShown /\ q.status = "waiting" /\ q.attempt = old.attempt + 1 /\ q.claims = 0
        /\ q.output = old.output
    BY DEF FusionShown, FusionStatuses
  <1> HIDE DEF q
  <1>2. new = q
    BY <1>1, FusionSameShown
  <1> QED
    BY <1>2 DEF Fusions!Leased!Queue, q

LEMMA FusionClaimColumns ==
    ASSUME NEW old \in FusionShown, NEW new \in FusionShown,
           old.status \in {"waiting", "working"},
           new.status = "working", new.attempt = old.attempt, new.claims = old.claims + 1,
           new.output = old.output
    PROVE  Fusions!Leased!Claim(old, new)
  <1> DEFINE q == [old EXCEPT !.status = "working", !.claims = @ + 1]
  <1>1. /\ q \in FusionShown /\ q.status = "working" /\ q.attempt = old.attempt
        /\ q.claims = old.claims + 1 /\ q.output = old.output
    BY DEF FusionShown, FusionStatuses
  <1> HIDE DEF q
  <1>2. new = q
    BY <1>1, FusionSameShown
  <1> QED
    BY <1>2 DEF Fusions!Leased!Claim, q

LEMMA FusionEndColumns ==
    ASSUME NEW old \in FusionShown, NEW new \in FusionShown,
           <<old.status, new.status>> \in Fusions!Leased!Endings,
           new.attempt = old.attempt, new.claims = old.claims, new.output = old.output
    PROVE  Fusions!Leased!End(old, new)
  <1> DEFINE q == [old EXCEPT !.status = new.status]
  <1>1. /\ q \in FusionShown /\ q.status = new.status /\ q.attempt = old.attempt
        /\ q.claims = old.claims /\ q.output = old.output
    BY DEF FusionShown
  <1> HIDE DEF q
  <1>2. new = q
    BY <1>1, FusionSameShown
  <1> QED
    BY <1>2 DEF Fusions!Leased!End, q

LEMMA FusionFinishColumns ==
    ASSUME NEW old \in FusionShown, NEW new \in FusionShown,
           old.status = "working", new.status = "done",
           new.attempt = old.attempt, new.claims = old.claims,
           new.output = <<old.attempt, old.claims>>
    PROVE  Fusions!Leased!Finish(old, new)
  <1> DEFINE q == [old EXCEPT !.status = "done", !.output = <<old.attempt, old.claims>>]
  <1>1. /\ q \in FusionShown /\ q.status = "done" /\ q.attempt = old.attempt
        /\ q.claims = old.claims /\ q.output = <<old.attempt, old.claims>>
    BY DEF FusionShown, FusionStatuses
  <1> HIDE DEF q
  <1>2. new = q
    BY <1>1, FusionSameShown
  <1> QED
    BY <1>2 DEF Fusions!Leased!Finish, q

\* No column the view shows changes.
FusionKeepsItsColumns(j) ==
    /\ fusion'[j].state = fusion[j].state /\ fusion'[j].attempt = fusion[j].attempt
    /\ fusionRow'[j].claims = fusionRow[j].claims

\* A job that keeps its columns and its proposals looks the same.
LEMMA FusionKeptIsShown ==
    ASSUME FusionTypeOK, FusionTypeOK', NEW j \in JobsOf["fusions"], FusionKeepsItsColumns(j),
             FusionRowsOf(j, fusionProposals') = FusionRowsOf(j, fusionProposals)
    PROVE  Fusions!View'[j] = Fusions!View[j]
  BY FusionViewBefore, FusionViewAfter, FusionSameShown DEF FusionKeepsItsColumns

\* A transition is a step of LeasedJobs, or shows nothing.
LEMMA FusionTransitionIsAStep ==
    ASSUME FusionTypeOK, FusionTypeOK', NEW j \in JobsOf["fusions"], FusionRowAgrees(j),
             FusionTransition(j),
           FusionRowsOf(j, fusionProposals') = FusionRowsOf(j, fusionProposals)
    PROVE  Fusions!View'[j] = Fusions!View[j]
             \/ Fusions!Leased!Step(Fusions!View[j], Fusions!View'[j])
  <1>1. /\ Fusions!View[j] \in FusionShown
        /\ Fusions!View[j].status = Fusions!Status(fusion[j].state)
             /\ Fusions!View[j].attempt = fusion[j].attempt
        /\ Fusions!View[j].claims = fusionRow[j].claims
             /\ Fusions!View[j].output = Fusions!Output(FusionRowsOf(j, fusionProposals))
    BY FusionViewBefore
  <1>2. /\ Fusions!View'[j] \in FusionShown
        /\ Fusions!View'[j].status = Fusions!Status(fusion'[j].state)
             /\ Fusions!View'[j].attempt = fusion'[j].attempt
        /\ Fusions!View'[j].claims = fusionRow'[j].claims
             /\ Fusions!View'[j].output = Fusions!Output(FusionRowsOf(j, fusionProposals))
    BY FusionViewAfter
  <1>3. fusion[j].state \in FusionJobStates /\ fusion'[j].state \in FusionJobStates
    BY DEF FusionTypeOK, FusionJobRow
  <1>4. CASE FusionSame(j) \/ FusionLapsed(j)
    BY <1>4, FusionKeptIsShown DEF FusionSame, FusionLapsed, FusionKeepsItsColumns
  <1>5. CASE FusionQueuedAgain(j)
    BY <1>1, <1>2, <1>3, <1>5, FusionStatusOfState, FusionQueueColumns
         DEF FusionQueuedAgain, Fusions!QueuedRow, Fusions!Leased!Step
  <1>6. CASE FusionClaimed(j)
    BY <1>1, <1>2, <1>3, <1>6, FusionStatusOfState, FusionClaimColumns
         DEF FusionClaimed, FusionWorked, Fusions!Leased!Step
  <1>7. CASE FusionAdvanced(j)
    BY <1>1, <1>2, <1>3, <1>7, FusionStatusOfState, FusionSameShown DEF FusionAdvanced, FusionWorked
  <1>8. CASE FusionAskedToStop(j) \/ FusionClosed(j)
    <2>1. <<Fusions!Status(fusion[j].state),
            Fusions!Status(fusion'[j].state)>> \in Fusions!Leased!Endings
      BY <1>3, <1>8, FusionStatusOfState
           DEF FusionAskedToStop, FusionClosed, FusionEndedAs, Fusions!Leased!Endings
    <2>2. fusion'[j].attempt = fusion[j].attempt /\ fusionRow'[j].claims = fusionRow[j].claims
      BY <1>8 DEF FusionAskedToStop, FusionClosed, FusionEndedAs
    <2> QED
      BY <1>1, <1>2, <2>1, <2>2, FusionEndColumns DEF Fusions!Leased!Step
  <1> QED
    BY <1>4, <1>5, <1>6, <1>7, <1>8 DEF FusionTransition

\* A publication is the step that finishes.
LEMMA FusionPublishedIsAStep ==
    ASSUME FusionIInv, FusionTypeOK', NEW j \in JobsOf["fusions"], FusionPublished(j)
    PROVE  Fusions!Leased!Finish(Fusions!View[j], Fusions!View'[j])
  <1> DEFINE proposal ==
          [job |-> j, attempt |-> fusion[j].attempt, claim |-> fusionRow[j].claims,
            status |-> "proposed"]
  <1>1. FusionTypeOK /\ fusion[j].state \in Fusions!Active /\ FusionEndedAs(j, "proposed")
    BY DEF FusionIInv, FusionPublished, FusionDone
  <1>2. fusionProposals' = fusionProposals \cup {proposal}
    BY DEF FusionPublished
  <1>3. /\ proposal.job = j /\ proposal.status = "proposed"
        /\ proposal.attempt = fusion[j].attempt /\ proposal.claim = fusionRow[j].claims
    OBVIOUS
  <1> HIDE DEF proposal
  <1>4. FusionRowsOf(j, fusionProposals) = {}
    BY <1>1 DEF FusionIInv, FusionProposalsAgree, FusionRowsOf, Fusions!Active
  <1>5. FusionRowsOf(j, fusionProposals') = {proposal}
    BY <1>2, <1>3, <1>4 DEF FusionRowsOf
  <1>6. Fusions!Output(FusionRowsOf(j, fusionProposals')) = <<fusion[j].attempt,
          fusionRow[j].claims>>
    BY <1>3, <1>5 DEF Fusions!Output
  <1>7. /\ Fusions!View[j] \in FusionShown /\ Fusions!View[j].status = "working"
        /\ Fusions!View[j].attempt = fusion[j].attempt
             /\ Fusions!View[j].claims = fusionRow[j].claims
    BY <1>1, FusionViewBefore, FusionStatusOfState DEF FusionJobStates
  <1>8. /\ Fusions!View'[j] \in FusionShown /\ Fusions!View'[j].status = "done"
        /\ Fusions!View'[j].attempt = fusion[j].attempt
             /\ Fusions!View'[j].claims = fusionRow[j].claims
        /\ Fusions!View'[j].output = <<fusion[j].attempt, fusionRow[j].claims>>
    BY <1>1, <1>6, FusionViewAfter, FusionStatusOfState DEF FusionJobStates, FusionEndedAs
  <1> QED
    BY <1>7, <1>8, FusionFinishColumns

LEMMA FusionNextIsLeased ==
    ASSUME Fusions!FusionConstants, FusionIInv, FusionIInv', [Fusions!Next]_(Fusions!vars)
    PROVE  Fusions!Leased!Next \/ Fusions!View' = Fusions!View
  <1>1. FusionTypeOK /\ FusionTypeOK' /\ \A j \in JobsOf["fusions"] : FusionRowAgrees(j)
    BY DEF FusionIInv, FusionRowsAgree
  <1>2. DOMAIN Fusions!View' = JobsOf["fusions"]
    BY DEF Fusions!View
  <1>3. CASE FusionQuiet
    BY <1>1, <1>2, <1>3, FusionTransitionIsAStep DEF FusionQuiet, Fusions!Leased!Next
  <1>4. ASSUME NEW j \in JobsOf["fusions"], FusionPublished(j)
        PROVE  Fusions!Leased!Next
    <2>1. Fusions!Leased!Step(Fusions!View[j], Fusions!View'[j])
      BY <1>1, <1>4, FusionPublishedIsAStep DEF Fusions!Leased!Step
    <2>2. ASSUME NEW k \in JobsOf["fusions"] \ {j} PROVE Fusions!View'[k] = Fusions!View[k]
      <3>1. FusionKeepsItsColumns(k)
        BY <1>4 DEF FusionPublished, FusionSame, FusionKeepsItsColumns
      <3>2. FusionRowsOf(k, fusionProposals') = FusionRowsOf(k, fusionProposals)
        BY <1>4 DEF FusionPublished, FusionRowsOf
      <3> QED
        BY <1>1, <3>1, <3>2, FusionKeptIsShown
    <2> QED
      BY <1>2, <2>1, <2>2 DEF Fusions!Leased!Next
  <1>5. CASE UNCHANGED <<fusion, fusionRow, fusionProposals>>
    BY <1>5 DEF Fusions!View
  <1> QED
    BY <1>3, <1>4, <1>5, FusionNextMoves

\* The queue of fusions keeps the promises of LeasedJobs.
THEOREM FusionsAreLeasedJobs ==
    ASSUME Fusions!FusionConstants
    PROVE  Fusions!Spec => Fusions!ImplementsLeasedJobs
  <1>1. Fusions!Init => Fusions!Leased!Init
    <2> SUFFICES ASSUME Fusions!Init PROVE Fusions!Leased!Init
      OBVIOUS
    <2>1. Fusions!Status("absent") = "absent" /\ Fusions!Output({}) = <<0, 0>>
      BY DEF Fusions!Status, Fusions!Active, Fusions!Output
    <2>2. \A j \in JobsOf["fusions"] :
            {p \in fusionProposals : p.job = j /\ p.status = "proposed"} = {}
      BY DEF Fusions!Init
    <2>3. \A j \in JobsOf["fusions"] : Fusions!View[j] =
              [status |-> "absent", attempt |-> 0, claims |-> 0, output |-> <<0, 0>>]
      BY <2>1, <2>2 DEF Fusions!View, Fusions!Init, Fusions!QueuedRow
    <2> QED
      BY <2>3 DEF Fusions!View, Fusions!Leased!Init, Fusions!Leased!NoOutput
  <1>2. FusionIInv /\ FusionIInv' /\ [Fusions!Next]_(Fusions!vars)
          => [Fusions!Leased!Next]_(Fusions!View)
    BY FusionNextIsLeased
  <1> QED
    BY <1>1, <1>2, FusionsAreSound, PTL
         DEF Fusions!Spec, Fusions!ImplementsLeasedJobs, Fusions!Leased!Spec

-----------------------------------------------------------------------------
(* The inductive invariant of the scene jobs of C10.  What the properties  *)
(* say of published scenes and of stages rests on the lease: SceneIInv     *)
(* ties each worker's claim to the row it was given.                       *)

SceneJobStates ==
    Scenes!Active \cup {"absent", "queued", "cancel-requested", "cancelled", "failed", "succeeded"}

SceneRowStates == {"queued", "leased", "cancel-requested", "cancelled", "failed", "succeeded"}

ScenePhases ==
    {"loading", "compiling", "compiled", "publishing", "storing", "failing", "cancelling"}

SceneJobRow == [state : SceneJobStates, retryable : BOOLEAN, attempt : Nat]

SceneAttemptRow ==
    [state : SceneRowStates, stage : Scenes!Active, claims : Nat, token : Nat, lapsed : BOOLEAN]

SceneExecution ==
    [phase : ScenePhases, job : JobsOf["scenes"], attempt : Nat, token : Nat \ {0},
      stage : Scenes!Active]

SceneTypeOK ==
    /\ scene \in [JobsOf["scenes"] -> SceneJobRow]
    /\ sceneRow \in [JobsOf["scenes"] -> SceneAttemptRow]
    /\ sceneWorker \in [Workers -> {Scenes!Idle} \cup SceneExecution]
    /\ scenes \subseteq [job : JobsOf["scenes"], attempt : Nat, claim : Nat]
    /\ stored \subseteq JobsOf["scenes"]

\* A job and the row of its attempt move together, and a row that has a token
\* has the token of its last claim.
SceneRowAgrees(j) ==
    /\ scene[j].state = "absent" => scene[j].attempt = 0
    /\ scene[j].state \in {"absent", "queued"} => sceneRow[j] = Scenes!QueuedRow
    /\ scene[j].state \in Scenes!Active => sceneRow[j].state = "leased"
         /\ sceneRow[j].stage = scene[j].state
    /\ scene[j].state \in {"cancel-requested", "cancelled", "failed", "succeeded"} =>
          sceneRow[j].state = scene[j].state
    /\ sceneRow[j].state \in {"leased", "cancel-requested"} =>
          sceneRow[j].claims > 0 /\ sceneRow[j].token = sceneRow[j].claims
    /\ sceneRow[j].state \notin {"leased", "cancel-requested"} => sceneRow[j].token = 0

SceneRowsAgree == \A j \in JobsOf["scenes"] : SceneRowAgrees(j)

\* A worker's claim is one of the attempt's claims so far; as long as it is the
\* last, the worker and the row are at the same stage; and a worker about to
\* publish has put its GLB.
SceneClaimIsRecorded(w) ==
    LET e == sceneWorker[w]
    IN  /\ e.attempt <= scene[e.job].attempt
        /\ e.attempt = scene[e.job].attempt => e.token <= sceneRow[e.job].claims
        /\ Scenes!IsToken(w) /\ sceneRow[e.job].state = "leased" => e.stage = sceneRow[e.job].stage
        /\ e.phase \in {"compiling", "compiled"} => e.stage # "leased"
        /\ e.phase = "storing" => e.job \in stored

SceneClaimsAreRecorded == \A w \in Workers : sceneWorker[w] # Scenes!Idle => SceneClaimIsRecorded(w)

SceneSameClaim(v, w) ==
    /\ sceneWorker[v].job = sceneWorker[w].job
    /\ sceneWorker[v].attempt = sceneWorker[w].attempt
    /\ sceneWorker[v].token = sceneWorker[w].token

\* No two workers have the same claim.
SceneClaimsAreDistinct ==
    \A v, w \in Workers :
        sceneWorker[v] # Scenes!Idle /\ sceneWorker[w] # Scenes!Idle /\ SceneSameClaim(v, w)
          => v = w

\* A job has a scene when it has succeeded, one, in the store.
ScenesAreOfSucceeded ==
    \A s \in scenes :
        /\ scene[s.job].state = "succeeded" /\ s.job \in stored
        /\ \A t \in scenes : t.job = s.job => t = s

SceneIInv ==
    /\ SceneTypeOK
    /\ SceneRowsAgree
    /\ SceneClaimsAreRecorded
    /\ SceneClaimsAreDistinct
    /\ ScenesAreOfSucceeded

-----------------------------------------------------------------------------
(* Helpers.                                                                *)

\* The stages in their order.
LEMMA SceneOrderOfStages ==
    Scenes!Order("leased") = 1 /\ Scenes!Order("compiling") = 2 /\ Scenes!Order("publishing") = 3
  BY DEF Scenes!Order, Scenes!Stages

\* The stage of a heartbeat is a stage, past the lease's first.
LEMMA SceneAskedStage ==
    ASSUME NEW w, sceneWorker[w].stage \in Scenes!Active, NEW stage \in {"compiling", "publishing"}
    PROVE  Scenes!Asks(w, stage) \in {"compiling", "publishing"}
  BY SceneOrderOfStages DEF Scenes!Asks, Scenes!Active

\* An execution is not idleness.
LEMMA SceneExecutionsAreNotIdle ==
    \A e \in SceneExecution : e # Scenes!Idle /\ e.phase # "idle"
  BY DEF SceneExecution, Scenes!Idle, ScenePhases

\* A set of naturals has a least member.
LEMMA SceneLeastMember ==
    ASSUME NEW S, S \subseteq Nat, S # {}
    PROVE  Scenes!Min(S) \in S
  <1>1. PICK x \in S : \A y \in S : <<y, x>> \notin OpToRel(<, Nat)
    BY WFMin, NatLessThanWellFounded, Zenon
  <1>2. \A y \in S : <<y, x>> \notin {ss \in Nat \X Nat : ss[1] < ss[2]}
    BY <1>1, Zenon DEF OpToRel
  <1>3. ASSUME NEW y \in S PROVE x <= y
    <2>1. ~(y < x)
      <3>1. DEFINE p == <<y, x>>
      <3>2. p \notin {ss \in Nat \X Nat : ss[1] < ss[2]}
        BY <1>2
      <3>3. p \in Nat \X Nat /\ p[1] = y /\ p[2] = x
        OBVIOUS
      <3> QED
        BY <3>2, <3>3
    <2> QED
      BY <2>1
  <1> QED
    BY <1>3 DEF Scenes!Min

\* A row is its columns.
LEMMA SceneJobColumns ==
    \A r \in SceneJobRow : r = [state |-> r.state, retryable |-> r.retryable, attempt |-> r.attempt]
  BY DEF SceneJobRow

LEMMA SceneAttemptColumns ==
    \A r \in SceneAttemptRow :
        r = [state |-> r.state, stage |-> r.stage, claims |-> r.claims, token |-> r.token,
             lapsed |-> r.lapsed]
  BY DEF SceneAttemptRow

\* What SetRows makes of a job.
LEMMA SceneJobAfter ==
    ASSUME SceneTypeOK, NEW j \in JobsOf["scenes"], NEW newRow \in SceneAttemptRow,
             NEW state \in SceneJobStates,
           NEW retryable \in BOOLEAN, Scenes!SetRows(j, newRow, state, retryable)
    PROVE  /\ scene' = [scene EXCEPT ![j] = [state |-> state, retryable |-> retryable,
                                         attempt |-> scene[j].attempt]]
           /\ scene' \in [JobsOf["scenes"] -> SceneJobRow]
           /\ sceneRow' = [sceneRow EXCEPT ![j] = newRow]
                /\ sceneRow' \in [JobsOf["scenes"] -> SceneAttemptRow]
  <1>1. scene \in [JobsOf["scenes"] -> SceneJobRow]
          /\ sceneRow \in [JobsOf["scenes"] -> SceneAttemptRow]
    BY DEF SceneTypeOK
  <1> DEFINE new == [scene[j] EXCEPT !.state = state, !.retryable = retryable]
  <1>2. /\ new \in SceneJobRow
        /\ new.state = state /\ new.retryable = retryable /\ new.attempt = scene[j].attempt
    <2>1. \A r \in SceneJobRow :
              LET q == [r EXCEPT !.state = state, !.retryable = retryable]
              IN  /\ q \in SceneJobRow
                  /\ q.state = state /\ q.retryable = retryable /\ q.attempt = r.attempt
      BY DEF SceneJobRow
    <2> QED
      BY <1>1, <2>1
  <1>3. scene' = [scene EXCEPT ![j] = new]
    BY <1>1 DEF Scenes!SetRows
  <1> HIDE DEF new
  <1>4. new = [state |-> state, retryable |-> retryable, attempt |-> scene[j].attempt]
    BY <1>2, SceneJobColumns
  <1> QED
    BY <1>1, <1>2, <1>3, <1>4 DEF Scenes!SetRows

\* What ends an attempt.
LEMMA SceneEndedRow ==
    ASSUME SceneTypeOK, NEW j \in JobsOf["scenes"], NEW state \in SceneRowStates
    PROVE  /\ Scenes!Ended(j, state) = [state |-> state, stage |-> sceneRow[j].stage,
                claims |-> sceneRow[j].claims,
                                 token |-> 0, lapsed |-> FALSE]
           /\ Scenes!Ended(j, state) \in SceneAttemptRow
  <1>1. sceneRow[j] \in SceneAttemptRow
    BY DEF SceneTypeOK
  <1> DEFINE new == Scenes!Ended(j, state)
  <1>2. /\ new \in SceneAttemptRow /\ new.state = state /\ new.stage = sceneRow[j].stage
        /\ new.claims = sceneRow[j].claims /\ new.token = 0 /\ new.lapsed = FALSE
    BY <1>1 DEF Scenes!Ended, SceneAttemptRow
  <1> HIDE DEF new
  <1>3. new = [state |-> state, stage |-> sceneRow[j].stage, claims |-> sceneRow[j].claims,
               token |-> 0, lapsed |-> FALSE]
    BY <1>2, SceneAttemptColumns
  <1> QED
    BY <1>2, <1>3 DEF new

\* A worker that goes on keeps its claim.
LEMMA SceneWorkerAfter ==
    ASSUME SceneTypeOK, NEW w \in Workers, NEW phase \in ScenePhases, sceneWorker[w] # Scenes!Idle,
             Scenes!Goes(w, phase)
    PROVE  /\ sceneWorker[w] \in SceneExecution
           /\ sceneWorker' = [sceneWorker EXCEPT ![w] =
                 [phase |-> phase, job |-> sceneWorker[w].job, attempt |-> sceneWorker[w].attempt,
                  token |-> sceneWorker[w].token, stage |-> sceneWorker[w].stage]]
           /\ sceneWorker' \in [Workers -> {Scenes!Idle} \cup SceneExecution]
           /\ sceneWorker'[w] # Scenes!Idle
  <1>1. sceneWorker[w] \in SceneExecution
    BY DEF SceneTypeOK
  <1>2. [sceneWorker[w] EXCEPT !.phase = phase] =
            [phase |-> phase, job |-> sceneWorker[w].job, attempt |-> sceneWorker[w].attempt,
             token |-> sceneWorker[w].token, stage |-> sceneWorker[w].stage]
    BY <1>1 DEF SceneExecution
  <1>3. [sceneWorker[w] EXCEPT !.phase = phase] \in SceneExecution
    BY <1>1, <1>2 DEF SceneExecution
  <1>4. sceneWorker' = [sceneWorker EXCEPT ![w] = [sceneWorker[w] EXCEPT !.phase = phase]]
    BY DEF Scenes!Goes
  <1> QED
    BY <1>1, <1>2, <1>3, <1>4, SceneExecutionsAreNotIdle DEF SceneTypeOK

\* A step of a worker that changes no row, and keeps the worker's claim.
LEMMA SceneGoesKeeps ==
    ASSUME SceneIInv, NEW w \in Workers, NEW phase \in ScenePhases, sceneWorker[w] # Scenes!Idle,
             Scenes!Goes(w, phase),
           phase \in {"compiling", "compiled"} => sceneWorker[w].stage # "leased",
           phase = "storing" => sceneWorker[w].job \in stored',
           UNCHANGED <<scene, sceneRow, scenes>>, stored \subseteq stored',
             stored' \subseteq JobsOf["scenes"]
    PROVE  SceneIInv'
  <1> USE SceneWorkerAfter, SceneExecutionsAreNotIdle
  <1>0. SceneTypeOK
    BY DEF SceneIInv
  <1>1. SceneTypeOK'
    BY <1>0 DEF SceneTypeOK
  <1>2. SceneRowsAgree'
    BY DEF SceneIInv, SceneRowsAgree, SceneRowAgrees, Scenes!QueuedRow
  <1>3. SceneClaimsAreRecorded'
    BY <1>0 DEF SceneIInv, SceneClaimsAreRecorded, SceneClaimIsRecorded, Scenes!IsToken
  <1>4. SceneClaimsAreDistinct'
    BY <1>0 DEF SceneIInv, SceneClaimsAreDistinct, SceneSameClaim
  <1>5. ScenesAreOfSucceeded'
    BY DEF SceneIInv, ScenesAreOfSucceeded
  <1> QED
    BY <1>1, <1>2, <1>3, <1>4, <1>5 DEF SceneIInv

\* Compilation returns.
LEMMA SceneCompileKeeps ==
    ASSUME Scenes!SceneConstants, SceneIInv, NEW w \in Workers, Scenes!Compile(w)
    PROVE  SceneIInv'
  <1>1. sceneWorker[w] # Scenes!Idle /\ sceneWorker[w].phase # "idle"
    BY DEF Scenes!Compile, Scenes!Idle
  <1>2. Scenes!Goes(w, "compiled")
    BY DEF Scenes!Compile, Scenes!Goes
  <1> QED
    BY <1>1, <1>2, SceneGoesKeeps DEF Scenes!Compile, SceneIInv, SceneTypeOK, SceneExecution,
         ScenePhases, SceneClaimsAreRecorded, SceneClaimIsRecorded

\* An error.
LEMMA SceneThrowsKeeps ==
    ASSUME Scenes!SceneConstants, SceneIInv, NEW w \in Workers, Scenes!Throws(w)
    PROVE  SceneIInv'
  <1>1. sceneWorker[w] # Scenes!Idle /\ sceneWorker[w].phase # "idle"
    BY DEF Scenes!Throws, Scenes!Executing, Scenes!Idle
  <1>2. Scenes!Goes(w, "failing")
    BY DEF Scenes!Throws, Scenes!Executing
  <1> QED
    BY <1>1, <1>2, SceneGoesKeeps DEF Scenes!Throws, Scenes!Executing, SceneIInv, SceneTypeOK,
         SceneExecution, ScenePhases, SceneClaimsAreRecorded, SceneClaimIsRecorded

\* The GLB is put.
LEMMA SceneStoreKeeps ==
    ASSUME Scenes!SceneConstants, SceneIInv, NEW w \in Workers, Scenes!Store(w)
    PROVE  SceneIInv'
  <1>1. sceneWorker[w] # Scenes!Idle /\ sceneWorker[w].phase # "idle"
    BY DEF Scenes!Store, Scenes!Idle
  <1>2. Scenes!Goes(w, "storing")
    BY DEF Scenes!Store
  <1> QED
    BY <1>1, <1>2, SceneGoesKeeps DEF Scenes!Store, SceneIInv, SceneTypeOK, SceneExecution,
         ScenePhases, SceneClaimsAreRecorded, SceneClaimIsRecorded

\* The worker stops
LEMMA SceneStopKeeps ==
    ASSUME Scenes!SceneConstants, SceneIInv, NEW w \in Workers, UNCHANGED <<scene, sceneRow,
             stored, scenes>>, Scenes!Stop(w)
    PROVE  SceneIInv'
  <1>1. SceneTypeOK'
    BY SceneExecutionsAreNotIdle DEF Scenes!Stop, SceneIInv, SceneTypeOK
  <1>2. SceneRowsAgree'
    BY DEF SceneIInv, SceneRowsAgree, SceneRowAgrees, Scenes!QueuedRow
  <1>3. SceneClaimsAreRecorded'
    BY DEF Scenes!Stop, SceneIInv, SceneTypeOK, SceneClaimsAreRecorded, SceneClaimIsRecorded,
             Scenes!IsToken
  <1>4. SceneClaimsAreDistinct'
    BY DEF Scenes!Stop, SceneIInv, SceneTypeOK, SceneClaimsAreDistinct, SceneSameClaim
  <1>5. ScenesAreOfSucceeded'
    BY DEF SceneIInv, ScenesAreOfSucceeded
  <1> QED
    BY <1>1, <1>2, <1>3, <1>4, <1>5 DEF SceneIInv

-----------------------------------------------------------------------------
(* Steps on the row of a job.                                              *)

\* The workers go on with their claims, stop, or fail.
SceneWorkersFollow ==
    /\ sceneWorker' \in [Workers -> {Scenes!Idle} \cup SceneExecution]
    /\ \A w \in Workers :
          sceneWorker'[w] # Scenes!Idle =>
              /\ sceneWorker[w] # Scenes!Idle
              /\ sceneWorker'[w].job = sceneWorker[w].job
                   /\ sceneWorker'[w].attempt = sceneWorker[w].attempt
              /\ sceneWorker'[w].token = sceneWorker[w].token
                   /\ sceneWorker'[w].stage = sceneWorker[w].stage
              /\ sceneWorker'[w].phase \in {sceneWorker[w].phase, "failing"}

\* A new attempt, or the same one with no claim but those it had.
SceneRowFollows(j, aJob, aRow) ==
    \/ aJob.attempt > scene[j].attempt /\ aRow.claims = 0
    \/ /\ aJob.attempt = scene[j].attempt /\ aRow.claims = sceneRow[j].claims
       /\ aRow.state = "leased" =>
             sceneRow[j].state = "leased" /\ aRow.stage = sceneRow[j].stage
               /\ aRow.token = sceneRow[j].token

LEMMA SceneWorkersThatStay ==
    ASSUME SceneTypeOK, sceneWorker' = sceneWorker
    PROVE  SceneWorkersFollow
  BY DEF SceneTypeOK, SceneWorkersFollow

LEMMA SceneWorkersThatStop ==
    ASSUME SceneTypeOK, NEW w \in Workers, Scenes!Stop(w)
    PROVE  SceneWorkersFollow
  BY SceneExecutionsAreNotIdle DEF SceneTypeOK, SceneWorkersFollow, Scenes!Stop

LEMMA SceneWorkersThatFail ==
    ASSUME SceneTypeOK, NEW w \in Workers, sceneWorker[w] # Scenes!Idle, Scenes!Goes(w, "failing")
    PROVE  SceneWorkersFollow
  BY SceneWorkerAfter, SceneExecutionsAreNotIdle DEF SceneTypeOK, SceneWorkersFollow, ScenePhases

LEMMA SceneRowStep ==
    ASSUME SceneIInv, NEW j \in JobsOf["scenes"], NEW aJob \in SceneJobRow,
             NEW aRow \in SceneAttemptRow,
           scene' = [scene EXCEPT ![j] = aJob], sceneRow' = [sceneRow EXCEPT ![j] = aRow],
           SceneRowAgrees(j)', SceneRowFollows(j, aJob, aRow), SceneWorkersFollow, stored' = stored
    PROVE  /\ scene' \in [JobsOf["scenes"] -> SceneJobRow]
                /\ sceneRow' \in [JobsOf["scenes"] -> SceneAttemptRow]
           /\ sceneWorker' \in [Workers -> {Scenes!Idle} \cup SceneExecution]
           /\ SceneRowsAgree' /\ SceneClaimsAreRecorded' /\ SceneClaimsAreDistinct'
  <1> USE SceneExecutionsAreNotIdle
  <1>1. scene' \in [JobsOf["scenes"] -> SceneJobRow]
          /\ sceneRow' \in [JobsOf["scenes"] -> SceneAttemptRow]
    BY DEF SceneIInv, SceneTypeOK
  <1>2. SceneRowsAgree'
    BY DEF SceneIInv, SceneTypeOK, SceneRowsAgree, SceneRowAgrees
  <1>3. SceneClaimsAreRecorded'
    <2> SUFFICES ASSUME NEW w \in Workers, sceneWorker'[w] # Scenes!Idle
          PROVE SceneClaimIsRecorded(w)'
      BY DEF SceneClaimsAreRecorded
    <2>1. SceneClaimIsRecorded(w) /\ sceneWorker[w] \in SceneExecution
            /\ sceneWorker[w] # Scenes!Idle
      BY DEF SceneIInv, SceneTypeOK, SceneClaimsAreRecorded, SceneWorkersFollow
    <2>2. scene[sceneWorker[w].job] \in SceneJobRow
            /\ sceneRow[sceneWorker[w].job] \in SceneAttemptRow
      BY <2>1 DEF SceneIInv, SceneTypeOK, SceneExecution
    <2>3. CASE sceneWorker[w].job # j
      BY <2>1, <2>3 DEF SceneClaimIsRecorded, Scenes!IsToken, SceneWorkersFollow, SceneIInv,
           SceneTypeOK, SceneExecution
    <2>4. CASE sceneWorker[w].job = j
      BY <2>1, <2>2, <2>4 DEF SceneClaimIsRecorded, Scenes!IsToken, SceneWorkersFollow, SceneIInv,
           SceneTypeOK, SceneExecution,
        SceneRowFollows, SceneJobRow, SceneAttemptRow
    <2> QED
      BY <2>3, <2>4
  <1>4. SceneClaimsAreDistinct'
    BY DEF SceneIInv, SceneClaimsAreDistinct, SceneSameClaim, SceneWorkersFollow
  <1> QED
    BY <1>1, <1>2, <1>3, <1>4 DEF SceneWorkersFollow

\* The same where no scene is published: the job was not done.
LEMMA SceneQuietRowStep ==
    ASSUME SceneIInv, NEW j \in JobsOf["scenes"], NEW aJob \in SceneJobRow,
             NEW aRow \in SceneAttemptRow,
           scene' = [scene EXCEPT ![j] = aJob], sceneRow' = [sceneRow EXCEPT ![j] = aRow],
           SceneRowAgrees(j)', SceneRowFollows(j, aJob, aRow), SceneWorkersFollow,
           UNCHANGED <<stored, scenes>>, scene[j].state # "succeeded"
    PROVE  SceneIInv'
  <1>1. ScenesAreOfSucceeded'
    BY DEF SceneIInv, SceneTypeOK, ScenesAreOfSucceeded
  <1> QED
    BY <1>1, SceneRowStep DEF SceneIInv, SceneTypeOK

\* The present rows and the successors of an attempt's row.
LEMMA ScenePresentRows ==
    ASSUME SceneIInv, NEW j \in JobsOf["scenes"]
    PROVE  /\ SceneTypeOK /\ SceneRowAgrees(j)
           /\ scene[j] \in SceneJobRow /\ sceneRow[j] \in SceneAttemptRow
  BY DEF SceneIInv, SceneTypeOK, SceneRowsAgree

LEMMA SceneCancelAttemptKeeps ==
    ASSUME SceneIInv, NEW j \in JobsOf["scenes"], scene[j].state \in {"queued", "cancel-requested"},
           Scenes!CancelAttempt(j), SceneWorkersFollow, UNCHANGED <<stored, scenes>>
    PROVE  SceneIInv'
  <1> DEFINE aRow == Scenes!Ended(j, "cancelled")
             aJob == [state |-> "cancelled", retryable |-> TRUE, attempt |-> scene[j].attempt]
  <1>1. SceneTypeOK /\ SceneRowAgrees(j) /\ scene[j] \in SceneJobRow
          /\ sceneRow[j] \in SceneAttemptRow
    BY ScenePresentRows
  <1>2. aRow \in SceneAttemptRow /\ aRow.state = "cancelled" /\ aRow.token = 0
        /\ aRow.claims = sceneRow[j].claims
    BY <1>1, SceneEndedRow DEF SceneRowStates
  <1>3. Scenes!SetRows(j, aRow, "cancelled", TRUE)
    BY DEF Scenes!CancelAttempt
  <1> HIDE DEF aRow
  <1>4. scene' = [scene EXCEPT ![j] = aJob] /\ sceneRow' = [sceneRow EXCEPT ![j] = aRow]
    <2> DEFINE state == "cancelled"
               retryable == TRUE
    <2>1. state \in SceneJobStates /\ retryable \in BOOLEAN
      BY DEF SceneJobStates
    <2>2. Scenes!SetRows(j, aRow, state, retryable)
      BY <1>3
    <2>3. aJob = [state |-> state, retryable |-> retryable, attempt |-> scene[j].attempt]
      OBVIOUS
    <2> HIDE DEF state, retryable, aJob
    <2> QED
      BY <1>1, <1>2, <2>1, <2>2, <2>3, SceneJobAfter
  <1>5. aJob \in SceneJobRow /\ aJob.state = "cancelled" /\ aJob.attempt = scene[j].attempt
    BY <1>1 DEF SceneJobRow, SceneJobStates
  <1> HIDE DEF aJob
  <1>6. scene'[j] = aJob /\ sceneRow'[j] = aRow
    BY <1>1, <1>4 DEF SceneTypeOK
  <1>7. SceneRowAgrees(j)'
    BY <1>2, <1>5, <1>6 DEF SceneRowAgrees, Scenes!Active
  <1>8. SceneRowFollows(j, aJob, aRow)
    BY <1>2, <1>5 DEF SceneRowFollows
  <1> QED
    BY <1>2, <1>4, <1>5, <1>7, <1>8, SceneQuietRowStep

\* createJob.
LEMMA SceneCreateKeeps ==
    ASSUME SceneIInv, NEW j \in JobsOf["scenes"], Scenes!Create(j)
    PROVE  SceneIInv'
  <1> DEFINE aJob == [state |-> "queued", retryable |-> FALSE, attempt |-> 1]
  <1>1. SceneTypeOK /\ SceneRowAgrees(j) /\ scene[j] \in SceneJobRow
          /\ sceneRow[j] \in SceneAttemptRow
    BY ScenePresentRows
  <1>2. aJob \in SceneJobRow /\ Scenes!QueuedRow \in SceneAttemptRow
    BY DEF SceneJobRow, SceneJobStates, SceneAttemptRow, SceneRowStates, Scenes!Active,
             Scenes!QueuedRow
  <1>3. SceneRowAgrees(j)'
    BY <1>1 DEF SceneTypeOK, Scenes!Create, SceneRowAgrees, Scenes!QueuedRow, Scenes!Active
  <1>4. SceneRowFollows(j, aJob, Scenes!QueuedRow)
    BY <1>1 DEF SceneRowFollows, Scenes!QueuedRow, SceneRowAgrees, Scenes!Create
  <1>5. SceneWorkersFollow
    BY <1>1, SceneWorkersThatStay DEF Scenes!Create
  <1> QED
    BY <1>2, <1>3, <1>4, <1>5, SceneQuietRowStep DEF Scenes!Create

\* A retry.
LEMMA SceneRetryKeeps ==
    ASSUME SceneIInv, NEW j \in JobsOf["scenes"], Scenes!Retry(j)
    PROVE  SceneIInv'
  <1> DEFINE aJob == [state |-> "queued", retryable |-> FALSE, attempt |-> scene[j].attempt + 1]
  <1>1. SceneTypeOK /\ SceneRowAgrees(j) /\ scene[j] \in SceneJobRow
          /\ sceneRow[j] \in SceneAttemptRow
    BY ScenePresentRows
  <1>2. aJob \in SceneJobRow /\ Scenes!QueuedRow \in SceneAttemptRow
    BY <1>1 DEF SceneJobRow, SceneJobStates, SceneAttemptRow, SceneRowStates, Scenes!Active,
                  Scenes!QueuedRow
  <1>3. scene' = [scene EXCEPT ![j] = aJob]
    BY DEF Scenes!Retry
  <1>4. SceneRowAgrees(j)'
    BY <1>1, <1>3 DEF SceneTypeOK, Scenes!Retry, SceneRowAgrees, Scenes!QueuedRow, Scenes!Active
  <1>5. SceneRowFollows(j, aJob, Scenes!QueuedRow)
    BY <1>1 DEF SceneRowFollows, Scenes!QueuedRow, SceneJobRow
  <1>6. SceneWorkersFollow
    BY <1>1, SceneWorkersThatStay DEF Scenes!Retry
  <1> HIDE DEF aJob
  <1> QED
    BY <1>2, <1>3, <1>4, <1>5, <1>6, SceneQuietRowStep DEF Scenes!Retry

\* A cancellation, done at once or asked of the worker.
LEMMA SceneCancelKeeps ==
    ASSUME SceneIInv, NEW j \in JobsOf["scenes"], Scenes!Cancel(j)
    PROVE  SceneIInv'
  <1>1. SceneTypeOK /\ SceneRowAgrees(j) /\ scene[j] \in SceneJobRow
          /\ sceneRow[j] \in SceneAttemptRow
    BY ScenePresentRows
  <1>2. SceneWorkersFollow
    BY <1>1, SceneWorkersThatStay DEF Scenes!Cancel
  <1>3. CASE scene[j].state = "queued" /\ Scenes!CancelAttempt(j)
    BY <1>2, <1>3, SceneCancelAttemptKeeps DEF Scenes!Cancel
  <1>4. CASE /\ scene[j].state \in Scenes!Active
             /\ Scenes!SetRows(j, [sceneRow[j] EXCEPT !.state = "cancel-requested"],
                  "cancel-requested", FALSE)
    <2> DEFINE aRow == [sceneRow[j] EXCEPT !.state = "cancel-requested"]
               aJob == [state |-> "cancel-requested", retryable |-> FALSE,
                        attempt |-> scene[j].attempt]
    <2>1. /\ aRow \in SceneAttemptRow /\ aRow.state = "cancel-requested"
          /\ aRow.token = sceneRow[j].token /\ aRow.claims = sceneRow[j].claims
      BY <1>1 DEF SceneAttemptRow, SceneRowStates
    <2> HIDE DEF aRow
    <2>2. scene' = [scene EXCEPT ![j] = aJob] /\ sceneRow' = [sceneRow EXCEPT ![j] = aRow]
      BY <1>1, <1>4, <2>1, SceneJobAfter DEF aRow, SceneJobStates
    <2>3. aJob \in SceneJobRow /\ aJob.state = "cancel-requested" /\ aJob.attempt = scene[j].attempt
      BY <1>1 DEF SceneJobRow, SceneJobStates
    <2> HIDE DEF aJob
    <2>4. scene'[j] = aJob /\ sceneRow'[j] = aRow
      BY <1>1, <2>2 DEF SceneTypeOK
    <2>5. SceneRowAgrees(j)'
      BY <1>1, <1>4, <2>1, <2>3, <2>4 DEF SceneRowAgrees, Scenes!Active
    <2>6. SceneRowFollows(j, aJob, aRow)
      BY <2>1, <2>3 DEF SceneRowFollows
    <2> QED
      BY <1>2, <1>4, <2>1, <2>2, <2>3, <2>5, <2>6, SceneQuietRowStep
           DEF Scenes!Cancel, Scenes!Active
  <1> QED
    BY <1>3, <1>4 DEF Scenes!Cancel

\* A lease lapses.
LEMMA SceneLeaseLapsesKeeps ==
    ASSUME SceneIInv, NEW j \in JobsOf["scenes"], Scenes!LeaseLapses(j)
    PROVE  SceneIInv'
  <1> DEFINE aRow == [sceneRow[j] EXCEPT !.lapsed = TRUE]
  <1>1. SceneTypeOK /\ SceneRowAgrees(j) /\ scene[j] \in SceneJobRow
          /\ sceneRow[j] \in SceneAttemptRow
    BY ScenePresentRows
  <1>2. /\ aRow \in SceneAttemptRow /\ aRow.state = sceneRow[j].state
             /\ aRow.stage = sceneRow[j].stage
        /\ aRow.token = sceneRow[j].token /\ aRow.claims = sceneRow[j].claims
    BY <1>1 DEF SceneAttemptRow
  <1>3. sceneRow' = [sceneRow EXCEPT ![j] = aRow]
    BY DEF Scenes!LeaseLapses
  <1> HIDE DEF aRow
  <1>4. sceneRow'[j] = aRow /\ scene'[j] = scene[j]
    BY <1>1, <1>3 DEF SceneTypeOK, Scenes!LeaseLapses
  <1>5. SceneRowAgrees(j)'
    BY <1>1, <1>2, <1>4 DEF SceneRowAgrees, Scenes!LeaseLapses, Scenes!QueuedRow, Scenes!Active
  <1>6. SceneRowFollows(j, scene[j], aRow)
    BY <1>2 DEF SceneRowFollows
  <1>7. SceneWorkersFollow
    BY <1>1, SceneWorkersThatStay DEF Scenes!LeaseLapses
  <1>8. scene' = [scene EXCEPT ![j] = scene[j]]
    BY <1>1 DEF Scenes!LeaseLapses, SceneTypeOK
  <1> QED
    BY <1>1, <1>2, <1>3, <1>5, <1>6, <1>7, <1>8, SceneQuietRowStep
         DEF Scenes!LeaseLapses, SceneRowAgrees

\* failAttempt.
LEMMA SceneFailKeeps ==
    ASSUME Scenes!SceneConstants, SceneIInv, NEW w \in Workers, Scenes!Fail(w)
    PROVE  SceneIInv'
  <1>1. sceneWorker[w] # Scenes!Idle /\ sceneWorker[w] \in SceneExecution
    BY DEF Scenes!Fail, Scenes!Idle, SceneIInv, SceneTypeOK
  <1>2. CASE ~Scenes!Holds(w)
    BY <1>2, SceneStopKeeps DEF Scenes!Fail
  <1>3. CASE Scenes!Holds(w)
    <2>0. PICK j \in JobsOf["scenes"] : j = sceneWorker[w].job
      BY <1>1 DEF SceneExecution
    <2> DEFINE retryable == sceneWorker[w].attempt < AttemptsOf["scenes"]
               aRow == Scenes!Ended(j, "failed")
               aJob == [state |-> "failed", retryable |-> retryable, attempt |-> scene[j].attempt]
    <2>1. retryable \in BOOLEAN /\ "failed" \in SceneJobStates
      BY DEF SceneJobStates
    <2>2. Scenes!SetRows(j, aRow, "failed", retryable) /\ sceneRow[j].state = "leased"
      BY <1>3, <2>0 DEF Scenes!Fail, Scenes!Holds
    <2>3. SceneWorkersFollow /\ UNCHANGED <<stored, scenes>>
      BY SceneWorkersThatStop DEF Scenes!Fail, SceneIInv
    <2> HIDE DEF retryable
    <2>4. SceneTypeOK /\ SceneRowAgrees(j) /\ scene[j] \in SceneJobRow
            /\ sceneRow[j] \in SceneAttemptRow
      BY <2>1, ScenePresentRows
    <2>5. aRow \in SceneAttemptRow /\ aRow.state = "failed" /\ aRow.token = 0
          /\ aRow.claims = sceneRow[j].claims
      BY <2>1, <2>4, SceneEndedRow DEF SceneRowStates
    <2> HIDE DEF aRow
    <2>6. scene' = [scene EXCEPT ![j] = aJob] /\ sceneRow' = [sceneRow EXCEPT ![j] = aRow]
      BY <2>1, <2>2, <2>4, <2>5, SceneJobAfter
    <2>7. aJob \in SceneJobRow /\ aJob.state = "failed" /\ aJob.attempt = scene[j].attempt
      BY <2>1, <2>4 DEF SceneJobRow, SceneJobStates
    <2> HIDE DEF aJob
    <2>8. scene'[j] = aJob /\ sceneRow'[j] = aRow
      BY <2>1, <2>4, <2>6 DEF SceneTypeOK
    <2>9. SceneRowAgrees(j)'
      BY <2>5, <2>7, <2>8 DEF SceneRowAgrees, Scenes!Active
    <2>10. SceneRowFollows(j, aJob, aRow)
      BY <2>5, <2>7 DEF SceneRowFollows
    <2> QED
      BY <2>1, <2>2, <2>3, <2>4, <2>5, <2>6, <2>7, <2>9, <2>10, SceneQuietRowStep DEF SceneRowAgrees
  <1> QED
    BY <1>2, <1>3

\* acknowledgeCancellation.
LEMMA SceneAcknowledgeKeeps ==
    ASSUME Scenes!SceneConstants, SceneIInv, NEW w \in Workers, Scenes!Acknowledge(w)
    PROVE  SceneIInv'
  <1>1. sceneWorker[w] # Scenes!Idle /\ sceneWorker[w] \in SceneExecution
    BY DEF Scenes!Acknowledge, Scenes!Idle, SceneIInv, SceneTypeOK
  <1>2. CASE ~(Scenes!CancellationRequested(w) /\ ~sceneRow[sceneWorker[w].job].lapsed)
    BY <1>2, SceneStopKeeps DEF Scenes!Acknowledge
  <1>3. CASE Scenes!CancellationRequested(w) /\ ~sceneRow[sceneWorker[w].job].lapsed
    <2>1. sceneWorker[w].job \in JobsOf["scenes"]
      BY <1>1 DEF SceneExecution
    <2>2. SceneRowAgrees(sceneWorker[w].job) /\ scene[sceneWorker[w].job] \in SceneJobRow
      BY <2>1, ScenePresentRows
    <2>3. scene[sceneWorker[w].job].state = "cancel-requested"
      BY <1>3, <2>2 DEF Scenes!CancellationRequested, SceneRowAgrees, Scenes!QueuedRow,
           SceneJobRow, SceneJobStates
    <2>4. SceneWorkersFollow
      BY SceneWorkersThatStop DEF Scenes!Acknowledge, SceneIInv
    <2> QED
      BY <1>3, <2>1, <2>3, <2>4, SceneCancelAttemptKeeps DEF Scenes!Acknowledge
  <1> QED
    BY <1>2, <1>3

\* A refused heartbeat or publication.
LEMMA SceneRefusedKeeps ==
    ASSUME Scenes!SceneConstants, SceneIInv, NEW w \in Workers, Scenes!Refused(w)
    PROVE  SceneIInv'
  <1>1. sceneWorker[w] # Scenes!Idle
    BY DEF Scenes!Refused, Scenes!Executing, Scenes!Idle
  <1>2. Scenes!Goes(w, "cancelling") => SceneIInv'
    BY <1>1, SceneGoesKeeps DEF Scenes!Refused, SceneIInv, SceneTypeOK, ScenePhases
  <1> QED
    BY <1>2, SceneStopKeeps DEF Scenes!Refused, Scenes!LeaseIsLost

\* A lease that is held is of a job that is worked on.
LEMMA SceneHeldJob ==
    ASSUME SceneIInv, NEW w \in Workers, sceneWorker[w] # Scenes!Idle, Scenes!Holds(w)
    PROVE  /\ sceneWorker[w] \in SceneExecution /\ sceneWorker[w].job \in JobsOf["scenes"]
           /\ sceneWorker[w].attempt = scene[sceneWorker[w].job].attempt
           /\ sceneWorker[w].token = sceneRow[sceneWorker[w].job].claims
           /\ sceneWorker[w].stage = sceneRow[sceneWorker[w].job].stage
           /\ scene[sceneWorker[w].job].state \in Scenes!Active
           /\ scene[sceneWorker[w].job].state = sceneWorker[w].stage
  <1>1. sceneWorker[w] \in SceneExecution /\ sceneWorker[w].job \in JobsOf["scenes"]
          /\ SceneClaimIsRecorded(w)
    BY DEF SceneIInv, SceneTypeOK, SceneClaimsAreRecorded, SceneExecution
  <1>2. SceneRowAgrees(sceneWorker[w].job) /\ scene[sceneWorker[w].job] \in SceneJobRow
    BY <1>1, ScenePresentRows
  <1>3. scene[sceneWorker[w].job].state \in Scenes!Active
    BY <1>2 DEF Scenes!Holds, SceneRowAgrees, Scenes!QueuedRow, SceneJobRow, SceneJobStates
  <1> QED
    BY <1>1, <1>2, <1>3 DEF Scenes!Holds, Scenes!IsToken, SceneRowAgrees, SceneClaimIsRecorded

\* publishScene.
LEMMA ScenePublishSceneKeeps ==
    ASSUME SceneIInv, NEW w \in Workers, NEW answered \in BOOLEAN, Scenes!PublishScene(w, answered)
    PROVE  SceneIInv'
  <1>1. sceneWorker[w] # Scenes!Idle /\ sceneWorker[w].phase = "storing" /\ Scenes!Holds(w)
    BY DEF Scenes!PublishScene, Scenes!Idle
  <1>2. PICK j \in JobsOf["scenes"] : j = sceneWorker[w].job
    BY <1>1, SceneHeldJob
  <1>3. /\ sceneWorker[w] \in SceneExecution /\ scene[j].attempt = sceneWorker[w].attempt
        /\ sceneWorker[w].token = sceneRow[j].claims /\ scene[j].state = "publishing"
    BY <1>1, <1>2, SceneHeldJob DEF Scenes!PublishScene
  <1>4. SceneTypeOK /\ SceneRowAgrees(j) /\ scene[j] \in SceneJobRow
          /\ sceneRow[j] \in SceneAttemptRow
    BY ScenePresentRows
  <1>5. SceneWorkersFollow
    BY <1>1, <1>4, SceneWorkersThatStop, SceneWorkersThatFail DEF Scenes!PublishScene
  <1> DEFINE aRow == Scenes!Ended(j, "succeeded")
             aJob == [state |-> "succeeded", retryable |-> FALSE, attempt |-> scene[j].attempt]
             published == [job |-> j, attempt |-> sceneWorker[w].attempt,
               claim |-> sceneWorker[w].token]
  <1>6. Scenes!SetRows(j, aRow, "succeeded", FALSE)
    BY <1>2 DEF Scenes!PublishScene
  <1>7. aRow \in SceneAttemptRow /\ aRow.state = "succeeded" /\ aRow.token = 0
        /\ aRow.claims = sceneRow[j].claims
    BY <1>4, SceneEndedRow DEF SceneRowStates
  <1> HIDE DEF aRow
  <1>8. scene' = [scene EXCEPT ![j] = aJob] /\ sceneRow' = [sceneRow EXCEPT ![j] = aRow]
    BY <1>4, <1>6, <1>7, SceneJobAfter DEF SceneJobStates
  <1>9. aJob \in SceneJobRow /\ aJob.state = "succeeded" /\ aJob.attempt = scene[j].attempt
    BY <1>4 DEF SceneJobRow, SceneJobStates
  <1> HIDE DEF aJob
  <1>10. scene'[j] = aJob /\ sceneRow'[j] = aRow
    BY <1>4, <1>8 DEF SceneTypeOK
  <1>11. SceneRowAgrees(j)'
    BY <1>7, <1>9, <1>10 DEF SceneRowAgrees, Scenes!Active
  <1>12. SceneRowFollows(j, aJob, aRow)
    BY <1>7, <1>9 DEF SceneRowFollows
  <1>13. /\ scene' \in [JobsOf["scenes"] -> SceneJobRow]
              /\ sceneRow' \in [JobsOf["scenes"] -> SceneAttemptRow]
         /\ sceneWorker' \in [Workers -> {Scenes!Idle} \cup SceneExecution]
         /\ SceneRowsAgree' /\ SceneClaimsAreRecorded' /\ SceneClaimsAreDistinct'
    BY <1>5, <1>7, <1>8, <1>9, <1>11, <1>12, SceneRowStep DEF Scenes!PublishScene
  <1>14. scenes' = scenes \cup {published} /\ stored' = stored /\ ~\E s \in scenes : s.job = j
    BY <1>2 DEF Scenes!PublishScene
  <1>15. published \in [job : JobsOf["scenes"], attempt : Nat, claim : Nat] /\ published.job = j
    BY <1>3 DEF SceneExecution
  <1> HIDE DEF published
  <1>16. SceneTypeOK'
    BY <1>4, <1>13, <1>14, <1>15 DEF SceneTypeOK
  <1>17. j \in stored
    BY <1>1, <1>2 DEF SceneIInv, SceneClaimsAreRecorded, SceneClaimIsRecorded
  <1>18. ScenesAreOfSucceeded'
    BY <1>4, <1>8, <1>9, <1>10, <1>14, <1>15, <1>17 DEF SceneIInv, SceneTypeOK, ScenesAreOfSucceeded
  <1> QED
    BY <1>13, <1>16, <1>18 DEF SceneIInv

\* A step in which a worker is given a claim, or a later stage.
LEMMA SceneClaimStep ==
    ASSUME SceneIInv, NEW w \in Workers, NEW e \in SceneExecution, NEW j \in JobsOf["scenes"],
           NEW aJob \in SceneJobRow, NEW aRow \in SceneAttemptRow,
           scene' = [scene EXCEPT ![j] = aJob], sceneRow' = [sceneRow EXCEPT ![j] = aRow],
           sceneWorker' = [sceneWorker EXCEPT ![w] = e], UNCHANGED <<stored, scenes>>,
           scene[j].state # "succeeded", aJob.attempt = scene[j].attempt,
             aRow.claims >= sceneRow[j].claims,
           SceneRowAgrees(j)', SceneClaimIsRecorded(w)',
           e.job = j /\ e.attempt = aJob.attempt /\ e.token = aRow.token
             /\ aRow.token = aRow.claims,
           \A v \in Workers :
               sceneWorker[v] # Scenes!Idle /\ sceneWorker[v].job = j
                 /\ sceneWorker[v].attempt = e.attempt
                   /\ sceneWorker[v].token = e.token => v = w
    PROVE  SceneIInv'
  <1> USE SceneExecutionsAreNotIdle
  <1>1. SceneTypeOK'
    BY DEF SceneIInv, SceneTypeOK
  <1>2. SceneRowsAgree'
    BY DEF SceneIInv, SceneTypeOK, SceneRowsAgree, SceneRowAgrees
  <1>3. SceneClaimsAreRecorded'
    <2> SUFFICES ASSUME NEW v \in Workers, sceneWorker'[v] # Scenes!Idle, v # w
          PROVE SceneClaimIsRecorded(v)'
      BY DEF SceneClaimsAreRecorded
    <2>1. SceneClaimIsRecorded(v) /\ sceneWorker'[v] = sceneWorker[v]
            /\ sceneWorker[v] \in SceneExecution
      BY DEF SceneIInv, SceneTypeOK, SceneClaimsAreRecorded
    <2>2. CASE sceneWorker[v].job # j
      BY <2>1, <2>2 DEF SceneClaimIsRecorded, Scenes!IsToken, SceneIInv, SceneTypeOK, SceneExecution
    <2>3. CASE sceneWorker[v].job = j
      <3>1. scene'[j] = aJob /\ sceneRow'[j] = aRow
        BY DEF SceneIInv, SceneTypeOK
      <3>2. sceneWorker[v].token \in Nat /\ sceneRow[j].claims \in Nat /\ aRow.claims \in Nat
        BY <2>1 DEF SceneExecution, SceneIInv, SceneTypeOK, SceneAttemptRow
      <3>3. ~Scenes!IsToken(v)'
        BY <2>1, <2>3, <3>1 DEF Scenes!IsToken
      <3> QED
        BY <2>1, <2>3, <3>1, <3>2, <3>3 DEF SceneClaimIsRecorded
    <2> QED
      BY <2>2, <2>3
  <1>4. SceneClaimsAreDistinct'
    BY DEF SceneIInv, SceneTypeOK, SceneClaimsAreDistinct, SceneSameClaim
  <1>5. ScenesAreOfSucceeded'
    BY DEF SceneIInv, SceneTypeOK, ScenesAreOfSucceeded
  <1> QED
    BY <1>1, <1>2, <1>3, <1>4, <1>5 DEF SceneIInv

\* An accepted heartbeat.
LEMMA SceneHeartbeatKeeps ==
    ASSUME SceneIInv, NEW w \in Workers, Scenes!Heartbeat(w)
    PROVE  SceneIInv'
  <1>1. sceneWorker[w] # Scenes!Idle /\ Scenes!Holds(w)
          /\ sceneWorker[w].phase \in Scenes!Heartbeats
    BY DEF Scenes!Heartbeat, Scenes!Heartbeats, Scenes!Idle
  <1>2. PICK j \in JobsOf["scenes"] : j = sceneWorker[w].job
    BY <1>1, SceneHeldJob
  <1>3. /\ sceneWorker[w] \in SceneExecution /\ scene[j].attempt = sceneWorker[w].attempt
        /\ sceneWorker[w].token = sceneRow[j].claims /\ scene[j].state \in Scenes!Active
    BY <1>1, <1>2, SceneHeldJob
  <1>4. SceneTypeOK /\ SceneRowAgrees(j) /\ scene[j] \in SceneJobRow
          /\ sceneRow[j] \in SceneAttemptRow
    BY ScenePresentRows
  <1>5. PICK stage \in {"compiling", "publishing"} : stage = Scenes!Asks(w,
          Scenes!Wanted(sceneWorker[w].phase))
    BY <1>1, <1>3, SceneAskedStage DEF Scenes!Wanted, SceneExecution
  <1>6. PICK phase \in {"compiling", "publishing"} :
            phase = IF sceneWorker[w].phase = "loading" THEN "compiling" ELSE "publishing"
    OBVIOUS
  <1> DEFINE aRow == [sceneRow[j] EXCEPT !.stage = stage]
             aJob == [state |-> stage, retryable |-> scene[j].retryable,
               attempt |-> scene[j].attempt]
             e == [sceneWorker[w] EXCEPT !.stage = stage, !.phase = phase]
  <1>7. /\ aRow \in SceneAttemptRow /\ aRow.stage = stage /\ aRow.state = sceneRow[j].state
        /\ aRow.claims = sceneRow[j].claims /\ aRow.token = sceneRow[j].token
    BY <1>4 DEF SceneAttemptRow, Scenes!Active
  <1>8. e \in SceneExecution /\ e.job = j /\ e.attempt = scene[j].attempt
          /\ e.token = sceneRow[j].claims
        /\ e.stage = stage /\ e.phase = phase
    BY <1>2, <1>3 DEF SceneExecution, Scenes!Active, ScenePhases
  <1>9. Scenes!SetRows(j, aRow, stage, scene[j].retryable)
          /\ sceneWorker' = [sceneWorker EXCEPT ![w] = e]
    BY <1>2, <1>5, <1>6 DEF Scenes!Heartbeat
  <1>10. scene[j].retryable \in BOOLEAN /\ stage \in SceneJobStates
    BY <1>4 DEF SceneJobRow, SceneJobStates, Scenes!Active
  <1> HIDE DEF aRow, e
  <1>11. scene' = [scene EXCEPT ![j] = aJob] /\ sceneRow' = [sceneRow EXCEPT ![j] = aRow]
    BY <1>4, <1>7, <1>9, <1>10, SceneJobAfter
  <1>12. aJob \in SceneJobRow /\ aJob.state = stage /\ aJob.attempt = scene[j].attempt
    BY <1>4, <1>10 DEF SceneJobRow
  <1> HIDE DEF aJob
  <1>13. scene'[j] = aJob /\ sceneRow'[j] = aRow /\ sceneWorker'[w] = e
    BY <1>4, <1>9, <1>11 DEF SceneTypeOK
  <1>14. sceneRow[j].state = "leased" /\ sceneRow[j].token = sceneRow[j].claims
    BY <1>1, <1>2, <1>4 DEF Scenes!Holds, SceneRowAgrees
  <1>15. SceneRowAgrees(j)'
    BY <1>4, <1>7, <1>12, <1>13, <1>14 DEF SceneRowAgrees, Scenes!Active
  <1>16. SceneClaimIsRecorded(w)'
    BY <1>3, <1>4, <1>7, <1>8, <1>12, <1>13, <1>14
         DEF SceneClaimIsRecorded, Scenes!IsToken, SceneJobRow, SceneAttemptRow
  <1>17. \A v \in Workers :
             sceneWorker[v] # Scenes!Idle /\ sceneWorker[v].job = j
               /\ sceneWorker[v].attempt = e.attempt
                 /\ sceneWorker[v].token = e.token => v = w
    BY <1>1, <1>2, <1>3, <1>8 DEF SceneIInv, SceneClaimsAreDistinct, SceneSameClaim
  <1>18. UNCHANGED <<stored, scenes>> /\ scene[j].state # "succeeded"
    BY <1>3 DEF Scenes!Heartbeat, Scenes!Active
  <1>19. /\ aRow.claims >= sceneRow[j].claims /\ e.attempt = aJob.attempt /\ e.token = aRow.token
         /\ aRow.token = aRow.claims
    BY <1>4, <1>7, <1>8, <1>12, <1>14 DEF SceneAttemptRow
  <1> QED
    BY <1>7, <1>8, <1>9, <1>11, <1>12, <1>15, <1>16, <1>17, <1>18, <1>19, SceneClaimStep

\* The job that is claimed.
LEMMA SceneClaimedJob ==
    ASSUME Scenes!SceneConstants, SceneIInv, Scenes!Candidates # {}
    PROVE  /\ Scenes!Min(Scenes!Candidates) \in JobsOf["scenes"]
                /\ Scenes!Min(Scenes!Candidates) \in Scenes!Candidates
  BY SceneLeastMember DEF Scenes!Candidates, Scenes!SceneConstants

\* claimNext.
LEMMA SceneClaimKeeps ==
    ASSUME Scenes!SceneConstants, SceneIInv, NEW w \in Workers, Scenes!Claim(w)
    PROVE  SceneIInv'
  <1>1. PICK j \in JobsOf["scenes"] : j = Scenes!Min(Scenes!Candidates) /\ j \in Scenes!Candidates
    BY SceneClaimedJob DEF Scenes!Claim
  <1>2. SceneTypeOK /\ SceneRowAgrees(j) /\ scene[j] \in SceneJobRow
          /\ sceneRow[j] \in SceneAttemptRow
    BY ScenePresentRows
  <1>3. CASE scene[j].state = "cancel-requested"
    BY <1>1, <1>2, <1>3, SceneCancelAttemptKeeps, SceneWorkersThatStay DEF Scenes!Claim
  <1>4. CASE scene[j].state # "cancel-requested"
    <2> DEFINE claim == sceneRow[j].claims + 1
               stage == Scenes!ClaimStage(j)
               aRow == [state |-> "leased", stage |-> stage, claims |-> claim, token |-> claim,
                        lapsed |-> FALSE]
               aJob == [state |-> stage, retryable |-> scene[j].retryable,
                 attempt |-> scene[j].attempt]
               e == [phase |-> "loading", job |-> j, attempt |-> scene[j].attempt, token |-> claim,
                     stage |-> stage]
    <2>1. Scenes!SetRows(j, aRow, stage, scene[j].retryable)
            /\ sceneWorker' = [sceneWorker EXCEPT ![w] = e]
          /\ UNCHANGED <<stored, scenes>>
      BY <1>1, <1>4 DEF Scenes!Claim
    <2>2. claim \in Nat \ {0} /\ stage \in Scenes!Active /\ claim > sceneRow[j].claims
      BY <1>2 DEF SceneAttemptRow, Scenes!ClaimStage, Scenes!Active
    <2>3. scene[j].state \in Scenes!Active \cup {"queued"}
      BY <1>1, <1>4 DEF Scenes!Candidates
    <2> HIDE DEF claim, stage
    <2>4. aRow \in SceneAttemptRow /\ e \in SceneExecution
      BY <1>2, <2>2 DEF SceneAttemptRow, SceneRowStates, SceneExecution, ScenePhases, SceneJobRow
    <2>5. scene[j].retryable \in BOOLEAN /\ stage \in SceneJobStates
      BY <1>2, <2>2 DEF SceneJobRow, SceneJobStates
    <2>6. scene' = [scene EXCEPT ![j] = aJob] /\ sceneRow' = [sceneRow EXCEPT ![j] = aRow]
      BY <1>2, <2>1, <2>4, <2>5, SceneJobAfter
    <2>7. aJob \in SceneJobRow
      BY <1>2, <2>5 DEF SceneJobRow
    <2>8. scene'[j] = aJob /\ sceneRow'[j] = aRow /\ sceneWorker'[w] = e
      BY <1>2, <2>1, <2>6 DEF SceneTypeOK
    <2>9. SceneRowAgrees(j)'
      BY <2>2, <2>8 DEF SceneRowAgrees, Scenes!Active
    <2>10. SceneClaimIsRecorded(w)'
      BY <1>2, <2>2, <2>8 DEF SceneClaimIsRecorded, Scenes!IsToken, SceneJobRow
    <2>11. ASSUME NEW v \in Workers, sceneWorker[v] # Scenes!Idle, sceneWorker[v].job = j,
                  sceneWorker[v].attempt = e.attempt, sceneWorker[v].token = e.token
           PROVE  v = w
      <3>1. sceneWorker[v].token <= sceneRow[j].claims
        BY <2>11 DEF SceneIInv, SceneClaimsAreRecorded, SceneClaimIsRecorded
      <3> QED
        BY <1>2, <2>2, <2>11, <3>1 DEF SceneAttemptRow
    <2>12. /\ aRow.claims >= sceneRow[j].claims /\ aJob.attempt = scene[j].attempt
           /\ e.job = j /\ e.attempt = aJob.attempt /\ e.token = aRow.token
           /\ aRow.token = aRow.claims
      BY <1>2, <2>2 DEF SceneAttemptRow
    <2>13. scene[j].state # "succeeded"
      BY <2>3 DEF Scenes!Active
    <2> HIDE DEF aRow, aJob, e
    <2>14. \A v \in Workers :
               sceneWorker[v] # Scenes!Idle /\ sceneWorker[v].job = j
                 /\ sceneWorker[v].attempt = e.attempt
                   /\ sceneWorker[v].token = e.token => v = w
      BY <2>11
    <2> QED
      BY <2>1, <2>4, <2>6, <2>7, <2>9, <2>10, <2>12, <2>13, <2>14, SceneClaimStep
  <1> QED
    BY <1>3, <1>4

-----------------------------------------------------------------------------
(* The invariant, and what follows from it.                                *)

LEMMA SceneInitEstablishes ==
    ASSUME Scenes!Init
    PROVE  SceneIInv
  <1>1. SceneTypeOK
    BY DEF Scenes!Init, SceneTypeOK, SceneJobRow, SceneAttemptRow, SceneJobStates, SceneRowStates,
             Scenes!QueuedRow, Scenes!Active
  <1>2. SceneRowsAgree
    BY DEF Scenes!Init, SceneRowsAgree, SceneRowAgrees, Scenes!QueuedRow, Scenes!Active
  <1> QED
    BY <1>1, <1>2 DEF Scenes!Init, SceneIInv, SceneClaimsAreRecorded, SceneClaimsAreDistinct,
         ScenesAreOfSucceeded

LEMMA SceneStutterKeeps ==
    ASSUME SceneIInv, UNCHANGED Scenes!vars
    PROVE  SceneIInv'
  BY DEF Scenes!vars, SceneIInv, SceneTypeOK, SceneRowsAgree, SceneRowAgrees,
           SceneClaimsAreRecorded, SceneClaimIsRecorded, Scenes!IsToken,
     SceneClaimsAreDistinct, SceneSameClaim, ScenesAreOfSucceeded, Scenes!QueuedRow

\* The step of one worker or of one user.
LEMMA SceneNextKeeps ==
    ASSUME Scenes!SceneConstants, SceneIInv, [Scenes!Next]_(Scenes!vars)
    PROVE  SceneIInv'
  <1>1. ASSUME NEW j \in JobsOf["scenes"], Scenes!UserStep(j) \/ Scenes!LeaseLapses(j)
                 PROVE SceneIInv'
    BY <1>1, SceneCreateKeeps, SceneCancelKeeps, SceneRetryKeeps, SceneLeaseLapsesKeeps
         DEF Scenes!UserStep
  <1>2. ASSUME NEW w \in Workers, Scenes!WorkerStep(w) PROVE SceneIInv'
    <2>1. ASSUME Scenes!RunnerStep(w) PROVE SceneIInv'
      BY <2>1, SceneHeartbeatKeeps, SceneRefusedKeeps, SceneCompileKeeps, SceneStoreKeeps,
           ScenePublishSceneKeeps, SceneFailKeeps,
         SceneAcknowledgeKeeps DEF Scenes!RunnerStep
    <2>2. ASSUME Scenes!GoesSilent(w) \/ Scenes!Crash(w) PROVE SceneIInv'
      BY <2>2, SceneStopKeeps DEF Scenes!GoesSilent, Scenes!Crash
    <2> QED
      BY <1>2, <2>1, <2>2, SceneClaimKeeps, SceneThrowsKeeps DEF Scenes!WorkerStep
  <1> QED
    BY <1>1, <1>2, SceneStutterKeeps DEF Scenes!Next

\* Each worker's claim is as the row it was given tells.
THEOREM SceneLeasesAreSound ==
    ASSUME Scenes!SceneConstants
    PROVE  Scenes!Spec => []SceneIInv
  <1>1. Scenes!Init => SceneIInv
    BY SceneInitEstablishes
  <1>2. SceneIInv /\ [Scenes!Next]_(Scenes!vars) => SceneIInv'
    BY SceneNextKeeps
  <1> QED
    BY <1>1, <1>2, PTL DEF Scenes!Spec

\* A published scene can be fetched: its GLB was put before.
THEOREM ScenesStayStored ==
    ASSUME Scenes!SceneConstants
    PROVE  Scenes!Spec => []Scenes!ScenesAreStored
  <1>1. SceneIInv => Scenes!ScenesAreStored
    BY DEF SceneIInv, ScenesAreOfSucceeded, Scenes!ScenesAreStored
  <1> QED
    BY <1>1, SceneLeasesAreSound, PTL

\* A worker whose lease holds asks for a stage the row allows.
LEMMA SceneHolderAsks ==
    ASSUME SceneIInv
    PROVE  Scenes!HolderMayHeartbeat
  <1> SUFFICES ASSUME NEW w \in Workers, Scenes!Executing(w), Scenes!Holds(w),
        sceneWorker[w].phase \in Scenes!Heartbeats
               PROVE  Scenes!Asks(w,
                        Scenes!Wanted(sceneWorker[w].phase))
                          \in Scenes!Allowed(sceneRow[sceneWorker[w].job].stage)
    BY DEF Scenes!HolderMayHeartbeat, Scenes!MayAsk
  <1>1. sceneWorker[w] # Scenes!Idle
    BY DEF Scenes!Heartbeats, Scenes!Idle
  <1>2. /\ sceneWorker[w].stage = sceneRow[sceneWorker[w].job].stage
             /\ sceneWorker[w].stage \in Scenes!Active
        /\ sceneWorker[w].phase = "compiled" => sceneWorker[w].stage # "leased"
    BY <1>1, SceneHeldJob DEF SceneExecution, SceneIInv, SceneClaimsAreRecorded,
         SceneClaimIsRecorded
  <1>3. PICK stage \in Scenes!Active : stage = sceneWorker[w].stage
    BY <1>2
  <1>4. \A s \in Scenes!Active : Scenes!Order(s) \in {Scenes!Order(stage), Scenes!Order(stage) + 1}
          => s \in Scenes!Allowed(stage)
    BY DEF Scenes!Allowed
  <1>5. ASSUME sceneWorker[w].phase = "loading"
        PROVE  Scenes!Asks(w, "compiling") \in Scenes!Allowed(stage)
    <2>1. CASE stage = "leased"
      BY <1>3, <1>4, <2>1, SceneOrderOfStages DEF Scenes!Asks, Scenes!Active
    <2>2. CASE stage = "compiling"
      BY <1>3, <1>4, <2>2, SceneOrderOfStages DEF Scenes!Asks, Scenes!Active
    <2>3. CASE stage = "publishing"
      BY <1>3, <1>4, <2>3, SceneOrderOfStages DEF Scenes!Asks, Scenes!Active
    <2> QED
      BY <2>1, <2>2, <2>3 DEF Scenes!Active
  <1>6. ASSUME sceneWorker[w].phase = "compiled"
        PROVE  Scenes!Asks(w, "publishing") \in Scenes!Allowed(stage)
    <2>1. CASE stage = "compiling"
      BY <1>3, <1>4, <2>1, SceneOrderOfStages DEF Scenes!Asks, Scenes!Active
    <2>2. CASE stage = "publishing"
      BY <1>3, <1>4, <2>2, SceneOrderOfStages DEF Scenes!Asks, Scenes!Active
    <2> QED
      BY <1>2, <1>3, <1>6, <2>1, <2>2 DEF Scenes!Active
  <1> QED
    BY <1>2, <1>3, <1>5, <1>6 DEF Scenes!Heartbeats, Scenes!Wanted

\* A worker that holds a lease is never refused for its stage.
THEOREM SceneHoldersMayHeartbeat ==
    ASSUME Scenes!SceneConstants
    PROVE  Scenes!Spec => []Scenes!HolderMayHeartbeat
  <1>1. SceneIInv => Scenes!HolderMayHeartbeat
    BY SceneHolderAsks
  <1> QED
    BY <1>1, SceneLeasesAreSound, PTL

-----------------------------------------------------------------------------
(* The refinement of LeasedJobs.  First, what a step does to the rows of a *)
(* job; then, what that is in the terms of LeasedJobs.                     *)

\* No column the view shows changes.
SceneKept(k) ==
    /\ scene'[k].state = scene[k].state /\ scene'[k].attempt = scene[k].attempt
    /\ sceneRow'[k].claims = sceneRow[k].claims

SceneQueuedAgain(j) ==
    /\ scene[j].state \in {"absent", "cancelled", "failed"}
         /\ scene[j].attempt < AttemptsOf["scenes"]
    /\ scene'[j].state = "queued" /\ scene'[j].attempt = scene[j].attempt + 1
    /\ sceneRow'[j].claims = 0

SceneClaimed(j) ==
    /\ scene[j].state \in Scenes!Active \cup {"queued"} /\ scene'[j].state \in Scenes!Active
    /\ scene'[j].attempt = scene[j].attempt /\ sceneRow'[j].claims = sceneRow[j].claims + 1

SceneProgressed(j) ==
    /\ scene[j].state \in Scenes!Active /\ scene'[j].state \in Scenes!Active
    /\ scene'[j].attempt = scene[j].attempt /\ sceneRow'[j].claims = sceneRow[j].claims

SceneClosed(j) ==
    /\ \/ scene[j].state = "queued" /\ scene'[j].state = "cancelled"
       \/ scene[j].state \in Scenes!Active /\ scene'[j].state \in {"cancel-requested", "failed"}
       \/ scene[j].state = "cancel-requested" /\ scene'[j].state = "cancelled"
    /\ scene'[j].attempt = scene[j].attempt /\ sceneRow'[j].claims = sceneRow[j].claims

ScenePublished(j) ==
    /\ scene[j].state \in Scenes!Active /\ scene'[j].state = "succeeded"
    /\ scene'[j].attempt = scene[j].attempt /\ sceneRow'[j].claims = sceneRow[j].claims
    /\ ~\E s \in scenes : s.job = j
    /\ scenes' = scenes \cup {[job |-> j, attempt |-> scene[j].attempt,
         claim |-> sceneRow[j].claims]}

SceneMoved(j) ==
    /\ \A k \in JobsOf["scenes"] \ {j} : SceneKept(k)
    /\ \/ /\ SceneKept(j) \/ SceneQueuedAgain(j) \/ SceneClaimed(j) \/ SceneProgressed(j)
               \/ SceneClosed(j)
          /\ scenes' = scenes
       \/ ScenePublished(j)

SceneAllKept == (\A k \in JobsOf["scenes"] : SceneKept(k)) /\ scenes' = scenes

\* The columns after SetRows.
LEMMA SceneRowsAfter ==
    ASSUME SceneTypeOK, NEW j \in JobsOf["scenes"], NEW newRow \in SceneAttemptRow,
             NEW state \in SceneJobStates,
           NEW retryable \in BOOLEAN, Scenes!SetRows(j, newRow, state, retryable)
    PROVE  /\ \A k \in JobsOf["scenes"] \ {j} : SceneKept(k)
           /\ scene'[j].state = state /\ scene'[j].attempt = scene[j].attempt
                /\ sceneRow'[j] = newRow
  BY SceneJobAfter DEF SceneTypeOK, SceneKept

LEMMA SceneCancelAttemptMoves ==
    ASSUME SceneIInv, NEW j \in JobsOf["scenes"],
             scene[j].state \in {"queued", "cancel-requested"}, Scenes!CancelAttempt(j),
           scenes' = scenes
    PROVE  SceneMoved(j)
  <1> DEFINE aRow == Scenes!Ended(j, "cancelled")
  <1>1. SceneTypeOK /\ aRow \in SceneAttemptRow /\ aRow.claims = sceneRow[j].claims
    BY ScenePresentRows, SceneEndedRow DEF SceneRowStates
  <1>2. Scenes!SetRows(j, aRow, "cancelled", TRUE)
    BY DEF Scenes!CancelAttempt
  <1> HIDE DEF aRow
  <1>3. /\ \A k \in JobsOf["scenes"] \ {j} : SceneKept(k)
        /\ scene'[j].state = "cancelled" /\ scene'[j].attempt = scene[j].attempt
             /\ sceneRow'[j] = aRow
    BY <1>1, <1>2, SceneRowsAfter DEF SceneJobStates
  <1> QED
    BY <1>1, <1>3 DEF SceneMoved, SceneClosed

\* A user's step.
LEMMA SceneUserStepMoves ==
    ASSUME Scenes!SceneConstants, SceneIInv, NEW j \in JobsOf["scenes"], Scenes!UserStep(j)
    PROVE  SceneMoved(j)
  <1>1. SceneTypeOK /\ SceneRowAgrees(j) /\ scene[j] \in SceneJobRow
          /\ sceneRow[j] \in SceneAttemptRow
    BY ScenePresentRows
  <1>2. CASE Scenes!Create(j)
    <2>1. \A k \in JobsOf["scenes"] \ {j} : SceneKept(k)
      BY <1>1, <1>2 DEF Scenes!Create, SceneTypeOK, SceneKept
    <2>2. SceneQueuedAgain(j)
      BY <1>1, <1>2 DEF Scenes!Create, SceneTypeOK, SceneQueuedAgain, SceneRowAgrees,
           Scenes!QueuedRow, Scenes!SceneConstants
    <2> QED
      BY <1>2, <2>1, <2>2 DEF SceneMoved, Scenes!Create
  <1>3. CASE Scenes!Retry(j)
    <2>1. \A k \in JobsOf["scenes"] \ {j} : SceneKept(k)
      BY <1>1, <1>3 DEF Scenes!Retry, SceneTypeOK, SceneKept
    <2>2. SceneQueuedAgain(j)
      BY <1>1, <1>3 DEF Scenes!Retry, SceneTypeOK, SceneQueuedAgain, Scenes!QueuedRow
    <2> QED
      BY <1>3, <2>1, <2>2 DEF SceneMoved, Scenes!Retry
  <1>4. CASE Scenes!Cancel(j)
    <2>1. CASE scene[j].state = "queued" /\ Scenes!CancelAttempt(j)
      BY <1>4, <2>1, SceneCancelAttemptMoves DEF Scenes!Cancel
    <2>2. CASE /\ scene[j].state \in Scenes!Active
               /\ Scenes!SetRows(j, [sceneRow[j] EXCEPT !.state = "cancel-requested"],
                    "cancel-requested", FALSE)
      <3> DEFINE aRow == [sceneRow[j] EXCEPT !.state = "cancel-requested"]
      <3>1. aRow \in SceneAttemptRow /\ aRow.claims = sceneRow[j].claims
        BY <1>1 DEF SceneAttemptRow, SceneRowStates
      <3> HIDE DEF aRow
      <3>2. /\ \A k \in JobsOf["scenes"] \ {j} : SceneKept(k)
            /\ scene'[j].state = "cancel-requested" /\ scene'[j].attempt = scene[j].attempt
            /\ sceneRow'[j] = aRow
        BY <1>1, <2>2, <3>1, SceneRowsAfter DEF SceneJobStates, aRow
      <3> QED
        BY <1>4, <2>2, <3>1, <3>2 DEF SceneMoved, SceneClosed, Scenes!Cancel
    <2> QED
      BY <1>4, <2>1, <2>2 DEF Scenes!Cancel
  <1> QED
    BY <1>2, <1>3, <1>4 DEF Scenes!UserStep

\* A lease that lapses.
LEMMA SceneLeaseLapsesMoves ==
    ASSUME SceneIInv, NEW j \in JobsOf["scenes"], Scenes!LeaseLapses(j)
    PROVE  SceneAllKept
  <1>1. [sceneRow[j] EXCEPT !.lapsed = TRUE].claims = sceneRow[j].claims
    BY ScenePresentRows DEF SceneAttemptRow
  <1> QED
    BY <1>1, ScenePresentRows DEF Scenes!LeaseLapses, SceneAllKept, SceneKept, SceneTypeOK

\* A claim.
LEMMA SceneClaimMoves ==
    ASSUME Scenes!SceneConstants, SceneIInv, NEW w \in Workers, Scenes!Claim(w)
    PROVE  \E j \in JobsOf["scenes"] : SceneMoved(j)
  <1>1. PICK j \in JobsOf["scenes"] : j = Scenes!Min(Scenes!Candidates) /\ j \in Scenes!Candidates
    BY SceneClaimedJob DEF Scenes!Claim
  <1>2. SceneTypeOK /\ SceneRowAgrees(j) /\ scene[j] \in SceneJobRow
          /\ sceneRow[j] \in SceneAttemptRow
    BY ScenePresentRows
  <1>3. CASE scene[j].state = "cancel-requested"
    BY <1>1, <1>3, SceneCancelAttemptMoves DEF Scenes!Claim
  <1>4. CASE scene[j].state # "cancel-requested"
    <2> DEFINE claim == sceneRow[j].claims + 1
               stage == Scenes!ClaimStage(j)
               aRow == [state |-> "leased", stage |-> stage, claims |-> claim, token |-> claim,
                        lapsed |-> FALSE]
    <2>1. Scenes!SetRows(j, aRow, stage, scene[j].retryable) /\ scenes' = scenes
      BY <1>1, <1>4 DEF Scenes!Claim
    <2>2. claim \in Nat /\ stage \in Scenes!Active /\ scene[j].retryable \in BOOLEAN
      BY <1>2 DEF SceneAttemptRow, SceneJobRow, Scenes!ClaimStage, Scenes!Active
    <2>3. scene[j].state \in Scenes!Active \cup {"queued"}
      BY <1>1, <1>4 DEF Scenes!Candidates
    <2> HIDE DEF stage
    <2>4. aRow \in SceneAttemptRow /\ stage \in SceneJobStates
      BY <2>2 DEF SceneAttemptRow, SceneRowStates, SceneJobStates
    <2>5. aRow.claims = sceneRow[j].claims + 1
      OBVIOUS
    <2> HIDE DEF aRow
    <2>6. /\ \A k \in JobsOf["scenes"] \ {j} : SceneKept(k)
          /\ scene'[j].state = stage /\ scene'[j].attempt = scene[j].attempt /\ sceneRow'[j] = aRow
      BY <1>2, <2>1, <2>2, <2>4, SceneRowsAfter
    <2>7. SceneClaimed(j)
      BY <2>2, <2>3, <2>5, <2>6 DEF SceneClaimed
    <2> QED
      BY <2>1, <2>6, <2>7 DEF SceneMoved
  <1> QED
    BY <1>3, <1>4

\* A heartbeat.
LEMMA SceneHeartbeatMoves ==
    ASSUME SceneIInv, NEW w \in Workers, Scenes!Heartbeat(w)
    PROVE  \E j \in JobsOf["scenes"] : SceneMoved(j)
  <1>1. sceneWorker[w] # Scenes!Idle /\ Scenes!Holds(w)
    BY DEF Scenes!Heartbeat, Scenes!Heartbeats, Scenes!Idle
  <1>2. PICK j \in JobsOf["scenes"] : j = sceneWorker[w].job
    BY <1>1, SceneHeldJob
  <1>3. SceneTypeOK /\ scene[j] \in SceneJobRow /\ sceneRow[j] \in SceneAttemptRow
          /\ scene[j].state \in Scenes!Active
    BY <1>1, <1>2, ScenePresentRows, SceneHeldJob
  <1>4. PICK stage \in {"compiling", "publishing"} : stage = Scenes!Asks(w,
          Scenes!Wanted(sceneWorker[w].phase))
    BY <1>1, SceneHeldJob, SceneAskedStage DEF Scenes!Wanted, SceneExecution
  <1> DEFINE aRow == [sceneRow[j] EXCEPT !.stage = stage]
  <1>5. aRow \in SceneAttemptRow /\ aRow.claims = sceneRow[j].claims
    BY <1>3 DEF SceneAttemptRow, Scenes!Active
  <1>6. Scenes!SetRows(j, aRow, stage, scene[j].retryable) /\ scenes' = scenes
    BY <1>2, <1>4 DEF Scenes!Heartbeat
  <1>7. scene[j].retryable \in BOOLEAN /\ stage \in SceneJobStates
    BY <1>3 DEF SceneJobRow, SceneJobStates, Scenes!Active
  <1> HIDE DEF aRow
  <1>8. /\ \A k \in JobsOf["scenes"] \ {j} : SceneKept(k)
        /\ scene'[j].state = stage /\ scene'[j].attempt = scene[j].attempt /\ sceneRow'[j] = aRow
    BY <1>3, <1>5, <1>6, <1>7, SceneRowsAfter
  <1>9. SceneProgressed(j)
    BY <1>3, <1>5, <1>8 DEF SceneProgressed, Scenes!Active
  <1> QED
    BY <1>6, <1>8, <1>9 DEF SceneMoved

\* publishScene.
LEMMA ScenePublishSceneMoves ==
    ASSUME SceneIInv, NEW w \in Workers, NEW answered \in BOOLEAN, Scenes!PublishScene(w, answered)
    PROVE  \E j \in JobsOf["scenes"] : SceneMoved(j)
  <1>1. sceneWorker[w] # Scenes!Idle /\ Scenes!Holds(w)
    BY DEF Scenes!PublishScene, Scenes!Idle
  <1>2. PICK j \in JobsOf["scenes"] : j = sceneWorker[w].job
    BY <1>1, SceneHeldJob
  <1>3. /\ SceneTypeOK /\ scene[j] \in SceneJobRow /\ sceneRow[j] \in SceneAttemptRow
             /\ scene[j].state \in Scenes!Active
        /\ sceneWorker[w].attempt = scene[j].attempt /\ sceneWorker[w].token = sceneRow[j].claims
    BY <1>1, <1>2, ScenePresentRows, SceneHeldJob
  <1> DEFINE aRow == Scenes!Ended(j, "succeeded")
  <1>4. aRow \in SceneAttemptRow /\ aRow.claims = sceneRow[j].claims
    BY <1>3, SceneEndedRow DEF SceneRowStates
  <1>5. /\ Scenes!SetRows(j, aRow, "succeeded", FALSE) /\ ~\E s \in scenes : s.job = j
        /\ scenes' = scenes \cup
              {[job |-> j, attempt |-> scene[j].attempt, claim |-> sceneRow[j].claims]}
    BY <1>2, <1>3 DEF Scenes!PublishScene
  <1> HIDE DEF aRow
  <1>6. /\ \A k \in JobsOf["scenes"] \ {j} : SceneKept(k)
        /\ scene'[j].state = "succeeded" /\ scene'[j].attempt = scene[j].attempt
             /\ sceneRow'[j] = aRow
    BY <1>3, <1>4, <1>5, SceneRowsAfter DEF SceneJobStates
  <1>7. ScenePublished(j)
    BY <1>3, <1>4, <1>5, <1>6 DEF ScenePublished
  <1> QED
    BY <1>6, <1>7 DEF SceneMoved

\* failAttempt.
LEMMA SceneFailMoves ==
    ASSUME Scenes!SceneConstants, SceneIInv, NEW w \in Workers, Scenes!Fail(w)
    PROVE  SceneAllKept \/ \E j \in JobsOf["scenes"] : SceneMoved(j)
  <1>1. CASE ~Scenes!Holds(w)
    BY <1>1 DEF Scenes!Fail, SceneAllKept, SceneKept
  <1>2. CASE Scenes!Holds(w)
    <2>1. sceneWorker[w] # Scenes!Idle /\ scenes' = scenes
      BY DEF Scenes!Fail, Scenes!Idle
    <2>2. PICK j \in JobsOf["scenes"] : j = sceneWorker[w].job
      BY <1>2, <2>1, SceneHeldJob
    <2>3. SceneTypeOK /\ scene[j].state \in Scenes!Active
      BY <1>2, <2>1, <2>2, ScenePresentRows, SceneHeldJob
    <2> DEFINE retryable == sceneWorker[w].attempt < AttemptsOf["scenes"]
               aRow == Scenes!Ended(j, "failed")
    <2>4. retryable \in BOOLEAN
      OBVIOUS
    <2>5. Scenes!SetRows(j, aRow, "failed", retryable)
      BY <1>2, <2>2 DEF Scenes!Fail
    <2>6. aRow \in SceneAttemptRow /\ aRow.claims = sceneRow[j].claims
      BY <2>3, SceneEndedRow DEF SceneRowStates
    <2> HIDE DEF aRow, retryable
    <2>7. /\ \A k \in JobsOf["scenes"] \ {j} : SceneKept(k)
          /\ scene'[j].state = "failed" /\ scene'[j].attempt = scene[j].attempt
               /\ sceneRow'[j] = aRow
      BY <2>3, <2>4, <2>5, <2>6, SceneRowsAfter DEF SceneJobStates
    <2> QED
      BY <2>1, <2>3, <2>6, <2>7 DEF SceneMoved, SceneClosed
  <1> QED
    BY <1>1, <1>2

\* acknowledgeCancellation.
LEMMA SceneAcknowledgeMoves ==
    ASSUME SceneIInv, NEW w \in Workers, Scenes!Acknowledge(w)
    PROVE  SceneAllKept \/ \E j \in JobsOf["scenes"] : SceneMoved(j)
  <1>1. CASE ~(Scenes!CancellationRequested(w) /\ ~sceneRow[sceneWorker[w].job].lapsed)
    BY <1>1 DEF Scenes!Acknowledge, SceneAllKept, SceneKept
  <1>2. CASE Scenes!CancellationRequested(w) /\ ~sceneRow[sceneWorker[w].job].lapsed
    <2>1. PICK j \in JobsOf["scenes"] : j = sceneWorker[w].job
      BY DEF Scenes!Acknowledge, Scenes!Idle, SceneIInv, SceneTypeOK, SceneExecution
    <2>2. SceneRowAgrees(j) /\ scene[j] \in SceneJobRow
      BY ScenePresentRows
    <2>3. scene[j].state = "cancel-requested"
      BY <1>2, <2>1, <2>2 DEF Scenes!CancellationRequested, SceneRowAgrees, Scenes!QueuedRow,
           SceneJobRow, SceneJobStates
    <2> QED
      BY <1>2, <2>1, <2>3, SceneCancelAttemptMoves DEF Scenes!Acknowledge
  <1> QED
    BY <1>1, <1>2

\* Every step moves at most one job.
LEMMA SceneNextMoves ==
    ASSUME Scenes!SceneConstants, SceneIInv, [Scenes!Next]_(Scenes!vars)
    PROVE  SceneAllKept \/ \E j \in JobsOf["scenes"] : SceneMoved(j)
  <1>1. ASSUME NEW w \in Workers, Scenes!WorkerStep(w)
        PROVE  SceneAllKept \/ \E j \in JobsOf["scenes"] : SceneMoved(j)
    <2>1. ASSUME UNCHANGED <<scene, sceneRow, scenes>> PROVE SceneAllKept
      BY <2>1 DEF SceneAllKept, SceneKept
    <2>2. Scenes!GoesSilent(w) \/ Scenes!Crash(w) \/ Scenes!Throws(w) \/ Scenes!Refused(w)
            \/ Scenes!Compile(w) \/ Scenes!Store(w)
             => UNCHANGED <<scene, sceneRow, scenes>>
      BY DEF Scenes!GoesSilent, Scenes!Crash, Scenes!Throws, Scenes!Refused, Scenes!Compile,
               Scenes!Store
    <2> QED
      BY <1>1, <2>1, <2>2, SceneClaimMoves, SceneHeartbeatMoves, ScenePublishSceneMoves,
           SceneFailMoves,
         SceneAcknowledgeMoves DEF Scenes!WorkerStep, Scenes!RunnerStep
  <1>2. UNCHANGED Scenes!vars => SceneAllKept
    BY DEF Scenes!vars, SceneAllKept, SceneKept
  <1> QED
    BY <1>1, <1>2, SceneUserStepMoves, SceneLeaseLapsesMoves DEF Scenes!Next

\* What the view shows of a job.
SceneStatuses == {"absent", "waiting", "working", "stopping", "done", "cancelled", "failed"}

SceneShown == [status : SceneStatuses, attempt : Nat, claims : Nat, output : Nat \X Nat]

LEMMA SceneShownColumns ==
    \A r \in SceneShown :
        r = [status |-> r.status, attempt |-> r.attempt, claims |-> r.claims, output |-> r.output]
  BY DEF SceneShown

LEMMA SceneStatusOfState ==
    ASSUME NEW state \in SceneJobStates
    PROVE  /\ Scenes!Status(state) \in SceneStatuses
           /\ state = "queued" => Scenes!Status(state) = "waiting"
           /\ state \in Scenes!Active => Scenes!Status(state) = "working"
           /\ state = "cancel-requested" => Scenes!Status(state) = "stopping"
           /\ state = "succeeded" => Scenes!Status(state) = "done"
           /\ state \in {"absent", "cancelled", "failed"} => Scenes!Status(state) = state
  BY DEF Scenes!Status, Scenes!Active, SceneJobStates, SceneStatuses

LEMMA SceneOutputOfRows ==
    ASSUME NEW rows, rows \subseteq [job : JobsOf["scenes"], attempt : Nat, claim : Nat]
    PROVE  Scenes!Output(rows) \in Nat \X Nat
  <1>1. CASE rows = {}
    BY <1>1 DEF Scenes!Output
  <1>2. CASE rows # {}
    <2> DEFINE s == CHOOSE s \in rows : TRUE
    <2>1. s \in rows
      BY <1>2
    <2>2. Scenes!Output(rows) = <<s.attempt, s.claim>>
      BY <1>2 DEF Scenes!Output
    <2> QED
      BY <2>1, <2>2
  <1> QED
    BY <1>1, <1>2

SceneRowsOf(j, all) == {s \in all : s.job = j}

LEMMA SceneViewOfJob ==
    ASSUME NEW j \in JobsOf["scenes"], NEW aJob \in SceneJobRow, NEW aRow \in SceneAttemptRow,
           NEW all, all \subseteq [job : JobsOf["scenes"], attempt : Nat, claim : Nat],
           NEW shown,
           shown = [status |-> Scenes!Status(aJob.state), attempt |-> aJob.attempt,
                    claims |-> aRow.claims, output |-> Scenes!Output(SceneRowsOf(j, all))]
    PROVE  /\ shown \in SceneShown
           /\ shown.status = Scenes!Status(aJob.state) /\ shown.attempt = aJob.attempt
           /\ shown.claims = aRow.claims /\ shown.output = Scenes!Output(SceneRowsOf(j, all))
  <1>1. Scenes!Status(aJob.state) \in SceneStatuses
    BY SceneStatusOfState DEF SceneJobRow
  <1>2. Scenes!Output(SceneRowsOf(j, all)) \in Nat \X Nat
    BY SceneOutputOfRows DEF SceneRowsOf
  <1> QED
    BY <1>1, <1>2 DEF SceneShown, SceneJobRow, SceneAttemptRow

\* What the view shows before and after a step.
LEMMA SceneViewBefore ==
    ASSUME SceneTypeOK, NEW j \in JobsOf["scenes"]
    PROVE  /\ Scenes!View[j] \in SceneShown
           /\ Scenes!View[j].status = Scenes!Status(scene[j].state)
                /\ Scenes!View[j].attempt = scene[j].attempt
           /\ Scenes!View[j].claims = sceneRow[j].claims
                /\ Scenes!View[j].output = Scenes!Output(SceneRowsOf(j, scenes))
  <1>1. Scenes!View[j] = [status |-> Scenes!Status(scene[j].state), attempt |-> scene[j].attempt,
                   claims |-> sceneRow[j].claims, output |-> Scenes!Output(SceneRowsOf(j, scenes))]
    BY DEF Scenes!View, SceneRowsOf
  <1> QED
    BY <1>1, SceneViewOfJob DEF SceneTypeOK

LEMMA SceneViewAfter ==
    ASSUME SceneTypeOK', NEW j \in JobsOf["scenes"]
    PROVE  /\ Scenes!View'[j] \in SceneShown
           /\ Scenes!View'[j].status = Scenes!Status(scene'[j].state)
                /\ Scenes!View'[j].attempt = scene'[j].attempt
           /\ Scenes!View'[j].claims = sceneRow'[j].claims
                /\ Scenes!View'[j].output = Scenes!Output(SceneRowsOf(j, scenes'))
  <1>1. Scenes!View'[j] = [status |-> Scenes!Status(scene'[j].state), attempt |-> scene'[j].attempt,
                    claims |-> sceneRow'[j].claims,
                      output |-> Scenes!Output(SceneRowsOf(j, scenes'))]
    BY DEF Scenes!View, SceneRowsOf
  <1> QED
    BY <1>1, SceneViewOfJob DEF SceneTypeOK

\* Two views with the same columns.
LEMMA SceneSameShown ==
    ASSUME NEW old \in SceneShown, NEW new \in SceneShown,
           new.status = old.status, new.attempt = old.attempt, new.claims = old.claims,
           new.output = old.output
    PROVE  new = old
  BY SceneShownColumns

\* The steps of LeasedJobs, column by column.
LEMMA SceneQueueColumns ==
    ASSUME NEW old \in SceneShown, NEW new \in SceneShown,
           old.status \in {"absent", "cancelled", "failed"}, old.attempt < AttemptsOf["scenes"],
           new.status = "waiting", new.attempt = old.attempt + 1, new.claims = 0,
           new.output = old.output
    PROVE  Scenes!Leased!Queue(old, new)
  <1> DEFINE q == [old EXCEPT !.status = "waiting", !.attempt = @ + 1, !.claims = 0]
  <1>1. /\ q \in SceneShown /\ q.status = "waiting" /\ q.attempt = old.attempt + 1 /\ q.claims = 0
        /\ q.output = old.output
    BY DEF SceneShown, SceneStatuses
  <1> HIDE DEF q
  <1>2. new = q
    BY <1>1, SceneSameShown
  <1> QED
    BY <1>2 DEF Scenes!Leased!Queue, q

LEMMA SceneClaimColumns ==
    ASSUME NEW old \in SceneShown, NEW new \in SceneShown,
           old.status \in {"waiting", "working"},
           new.status = "working", new.attempt = old.attempt, new.claims = old.claims + 1,
           new.output = old.output
    PROVE  Scenes!Leased!Claim(old, new)
  <1> DEFINE q == [old EXCEPT !.status = "working", !.claims = @ + 1]
  <1>1. /\ q \in SceneShown /\ q.status = "working" /\ q.attempt = old.attempt
        /\ q.claims = old.claims + 1 /\ q.output = old.output
    BY DEF SceneShown, SceneStatuses
  <1> HIDE DEF q
  <1>2. new = q
    BY <1>1, SceneSameShown
  <1> QED
    BY <1>2 DEF Scenes!Leased!Claim, q

LEMMA SceneEndColumns ==
    ASSUME NEW old \in SceneShown, NEW new \in SceneShown,
           <<old.status, new.status>> \in Scenes!Leased!Endings,
           new.attempt = old.attempt, new.claims = old.claims, new.output = old.output
    PROVE  Scenes!Leased!End(old, new)
  <1> DEFINE q == [old EXCEPT !.status = new.status]
  <1>1. /\ q \in SceneShown /\ q.status = new.status /\ q.attempt = old.attempt
        /\ q.claims = old.claims /\ q.output = old.output
    BY DEF SceneShown
  <1> HIDE DEF q
  <1>2. new = q
    BY <1>1, SceneSameShown
  <1> QED
    BY <1>2 DEF Scenes!Leased!End, q

LEMMA SceneFinishColumns ==
    ASSUME NEW old \in SceneShown, NEW new \in SceneShown,
           old.status = "working", new.status = "done",
           new.attempt = old.attempt, new.claims = old.claims,
           new.output = <<old.attempt, old.claims>>
    PROVE  Scenes!Leased!Finish(old, new)
  <1> DEFINE q == [old EXCEPT !.status = "done", !.output = <<old.attempt, old.claims>>]
  <1>1. /\ q \in SceneShown /\ q.status = "done" /\ q.attempt = old.attempt
        /\ q.claims = old.claims /\ q.output = <<old.attempt, old.claims>>
    BY DEF SceneShown, SceneStatuses
  <1> HIDE DEF q
  <1>2. new = q
    BY <1>1, SceneSameShown
  <1> QED
    BY <1>2 DEF Scenes!Leased!Finish, q

\* A job that keeps its columns and its scenes looks the same.
LEMMA SceneKeptIsShown ==
    ASSUME SceneTypeOK, SceneTypeOK', NEW j \in JobsOf["scenes"], SceneKept(j),
             SceneRowsOf(j, scenes') = SceneRowsOf(j, scenes)
    PROVE  Scenes!View'[j] = Scenes!View[j]
  BY SceneViewBefore, SceneViewAfter, SceneSameShown DEF SceneKept

\* What a job does is a step of LeasedJobs.
LEMMA SceneMovedIsAStep ==
    ASSUME SceneTypeOK, SceneTypeOK', NEW j \in JobsOf["scenes"], SceneMoved(j)
    PROVE  Scenes!View'[j] = Scenes!View[j] \/ Scenes!Leased!Step(Scenes!View[j], Scenes!View'[j])
  <1>1. /\ Scenes!View[j] \in SceneShown
        /\ Scenes!View[j].status = Scenes!Status(scene[j].state)
             /\ Scenes!View[j].attempt = scene[j].attempt
        /\ Scenes!View[j].claims = sceneRow[j].claims
             /\ Scenes!View[j].output = Scenes!Output(SceneRowsOf(j, scenes))
    BY SceneViewBefore
  <1>2. /\ Scenes!View'[j] \in SceneShown
        /\ Scenes!View'[j].status = Scenes!Status(scene'[j].state)
             /\ Scenes!View'[j].attempt = scene'[j].attempt
        /\ Scenes!View'[j].claims = sceneRow'[j].claims
             /\ Scenes!View'[j].output = Scenes!Output(SceneRowsOf(j, scenes'))
    BY SceneViewAfter
  <1>3. scene[j].state \in SceneJobStates /\ scene'[j].state \in SceneJobStates
    BY DEF SceneTypeOK, SceneJobRow
  <1>4. CASE ~ScenePublished(j)
    <2>0. SceneRowsOf(j, scenes') = SceneRowsOf(j, scenes)
      BY <1>4 DEF SceneMoved
    <2>1. CASE SceneKept(j)
      BY <2>0, <2>1, SceneKeptIsShown
    <2>2. CASE SceneQueuedAgain(j)
      BY <1>1, <1>2, <1>3, <2>0, <2>2, SceneStatusOfState, SceneQueueColumns
           DEF SceneQueuedAgain, Scenes!Leased!Step
    <2>3. CASE SceneClaimed(j)
      BY <1>1, <1>2, <1>3, <2>0, <2>3, SceneStatusOfState, SceneClaimColumns
           DEF SceneClaimed, Scenes!Leased!Step
    <2>4. CASE SceneProgressed(j)
      BY <1>1, <1>2, <1>3, <2>0, <2>4, SceneStatusOfState, SceneSameShown DEF SceneProgressed
    <2>5. CASE SceneClosed(j)
      <3>1. <<Scenes!Status(scene[j].state),
              Scenes!Status(scene'[j].state)>> \in Scenes!Leased!Endings
        BY <1>3, <2>5, SceneStatusOfState DEF SceneClosed, Scenes!Leased!Endings
      <3> QED
        BY <1>1, <1>2, <2>0, <2>5, <3>1, SceneEndColumns DEF SceneClosed, Scenes!Leased!Step
    <2> QED
      BY <1>4, <2>1, <2>2, <2>3, <2>4, <2>5 DEF SceneMoved
  <1>5. CASE ScenePublished(j)
    <2> DEFINE published == [job |-> j, attempt |-> scene[j].attempt, claim |-> sceneRow[j].claims]
    <2>1. published.job = j /\ published.attempt = scene[j].attempt
            /\ published.claim = sceneRow[j].claims
      OBVIOUS
    <2>2. scenes' = scenes \cup {published} /\ ~\E s \in scenes : s.job = j
      BY <1>5 DEF ScenePublished
    <2> HIDE DEF published
    <2>3. SceneRowsOf(j, scenes') = {published}
      BY <2>1, <2>2 DEF SceneRowsOf
    <2>4. Scenes!Output(SceneRowsOf(j, scenes')) = <<scene[j].attempt, sceneRow[j].claims>>
      BY <2>1, <2>3 DEF Scenes!Output
    <2> QED
      BY <1>1, <1>2, <1>3, <1>5, <2>4, SceneStatusOfState, SceneFinishColumns
           DEF ScenePublished, Scenes!Leased!Step
  <1> QED
    BY <1>4, <1>5

LEMMA SceneNextIsLeased ==
    ASSUME Scenes!SceneConstants, SceneIInv, SceneIInv', [Scenes!Next]_(Scenes!vars)
    PROVE  Scenes!Leased!Next
  <1>1. SceneTypeOK /\ SceneTypeOK'
    BY DEF SceneIInv
  <1>2. DOMAIN Scenes!View' = JobsOf["scenes"]
    BY DEF Scenes!View
  <1>3. CASE SceneAllKept
    BY <1>1, <1>2, <1>3, SceneKeptIsShown DEF SceneAllKept, Scenes!Leased!Next
  <1>4. ASSUME NEW j \in JobsOf["scenes"], SceneMoved(j)
        PROVE  Scenes!Leased!Next
    <2>1. Scenes!View'[j] = Scenes!View[j] \/ Scenes!Leased!Step(Scenes!View[j], Scenes!View'[j])
      BY <1>1, <1>4, SceneMovedIsAStep
    <2>2. ASSUME NEW k \in JobsOf["scenes"] \ {j} PROVE Scenes!View'[k] = Scenes!View[k]
      <3>1. SceneKept(k)
        BY <1>4 DEF SceneMoved
      <3>2. SceneRowsOf(k, scenes') = SceneRowsOf(k, scenes)
        BY <1>4 DEF SceneMoved, ScenePublished, SceneRowsOf
      <3> QED
        BY <1>1, <3>1, <3>2, SceneKeptIsShown
    <2> QED
      BY <1>2, <2>1, <2>2 DEF Scenes!Leased!Next
  <1> QED
    BY <1>3, <1>4, SceneNextMoves

\* The queue of scenes keeps the promises of LeasedJobs.
THEOREM ScenesAreLeasedJobs ==
    ASSUME Scenes!SceneConstants
    PROVE  Scenes!Spec => Scenes!ImplementsLeasedJobs
  <1>1. Scenes!Init => Scenes!Leased!Init
    <2> SUFFICES ASSUME Scenes!Init PROVE Scenes!Leased!Init
      OBVIOUS
    <2>1. Scenes!Status("absent") = "absent" /\ Scenes!Output({}) = <<0, 0>>
      BY DEF Scenes!Status, Scenes!Active, Scenes!Output
    <2>2. \A j \in JobsOf["scenes"] : {s \in scenes : s.job = j} = {}
      BY DEF Scenes!Init
    <2>3. \A j \in JobsOf["scenes"] : Scenes!View[j] =
              [status |-> "absent", attempt |-> 0, claims |-> 0, output |-> <<0, 0>>]
      BY <2>1, <2>2 DEF Scenes!View, Scenes!Init, Scenes!QueuedRow
    <2> QED
      BY <2>3 DEF Scenes!View, Scenes!Leased!Init, Scenes!Leased!NoOutput
  <1>2. SceneIInv /\ SceneIInv' /\ [Scenes!Next]_(Scenes!vars) => [Scenes!Leased!Next]_(Scenes!View)
    BY SceneNextIsLeased
  <1> QED
    BY <1>1, <1>2, SceneLeasesAreSound, PTL
         DEF Scenes!Spec, Scenes!ImplementsLeasedJobs, Scenes!Leased!Spec

-----------------------------------------------------------------------------
(* Every queue of the system is that queue.                                *)

LEMMA AssetsRun == QueuesSpec => Spec
  <1>1. QueuesInit => Init
    BY DEF QueuesInit
  <1>2. [QueuesNext]_<<queue, assets, renders, scenesVars, captures, plansVars, options, fusions>>
          => [Next]_vars
    BY DEF QueuesNext, AssetsNext, RendersNext, ScenesNext, CapturesNext, PlansNext, OptionsNext,
           FusionsNext, assets
  <1> QED
    BY <1>1, <1>2, PTL DEF QueuesSpec, Spec

LEMMA RendersRun == QueuesSpec => Renders!Spec
  <1>1. QueuesInit => Renders!Init
    BY DEF QueuesInit
  <1>2. [QueuesNext]_<<queue, assets, renders, scenesVars, captures, plansVars, options, fusions>>
          => [Renders!Next]_(Renders!vars)
    BY DEF QueuesNext, AssetsNext, RendersNext, ScenesNext, CapturesNext, PlansNext, OptionsNext,
           FusionsNext, renders, Renders!vars
  <1> QED
    BY <1>1, <1>2, PTL DEF QueuesSpec, Renders!Spec

LEMMA ScenesRun == QueuesSpec => Scenes!Spec
  <1>1. QueuesInit => Scenes!Init
    BY DEF QueuesInit
  <1>2. [QueuesNext]_<<queue, assets, renders, scenesVars, captures, plansVars, options, fusions>>
          => [Scenes!Next]_(Scenes!vars)
    BY DEF QueuesNext, AssetsNext, RendersNext, ScenesNext, CapturesNext, PlansNext, OptionsNext,
           FusionsNext, scenesVars, Scenes!vars
  <1> QED
    BY <1>1, <1>2, PTL DEF QueuesSpec, Scenes!Spec

LEMMA CapturesRun == QueuesSpec => Captures!Spec
  <1>1. QueuesInit => Captures!Init
    BY DEF QueuesInit
  <1>2. [QueuesNext]_<<queue, assets, renders, scenesVars, captures, plansVars, options, fusions>>
          => [Captures!Next]_(Captures!vars)
    BY DEF QueuesNext, AssetsNext, RendersNext, ScenesNext, CapturesNext, PlansNext, OptionsNext,
           FusionsNext, captures, Captures!vars
  <1> QED
    BY <1>1, <1>2, PTL DEF QueuesSpec, Captures!Spec

LEMMA PlansRun == QueuesSpec => Plans!Spec
  <1>1. QueuesInit => Plans!Init
    BY DEF QueuesInit
  <1>2. [QueuesNext]_<<queue, assets, renders, scenesVars, captures, plansVars, options, fusions>>
          => [Plans!Next]_(Plans!vars)
    BY DEF QueuesNext, AssetsNext, RendersNext, ScenesNext, CapturesNext, PlansNext, OptionsNext,
           FusionsNext, plansVars, Plans!vars
  <1> QED
    BY <1>1, <1>2, PTL DEF QueuesSpec, Plans!Spec

LEMMA OptionsRun == QueuesSpec => OptionQueue!Spec
  <1>1. QueuesInit => OptionQueue!Init
    BY DEF QueuesInit
  <1>2. [QueuesNext]_<<queue, assets, renders, scenesVars, captures, plansVars, options, fusions>>
          => [OptionQueue!Next]_(OptionQueue!vars)
    BY DEF QueuesNext, AssetsNext, RendersNext, ScenesNext, CapturesNext, PlansNext, OptionsNext,
           FusionsNext, options, OptionQueue!vars
  <1> QED
    BY <1>1, <1>2, PTL DEF QueuesSpec, OptionQueue!Spec

LEMMA FusionsRun == QueuesSpec => Fusions!Spec
  <1>1. QueuesInit => Fusions!Init
    BY DEF QueuesInit
  <1>2. [QueuesNext]_<<queue, assets, renders, scenesVars, captures, plansVars, options, fusions>>
          => [Fusions!Next]_(Fusions!vars)
    BY DEF QueuesNext, AssetsNext, RendersNext, ScenesNext, CapturesNext, PlansNext, OptionsNext,
           FusionsNext, fusions, Fusions!vars, Fusions!queueVars, Fusions!rightsVars,
           Fusions!reviewVars
  <1> QED
    BY <1>1, <1>2, PTL DEF QueuesSpec, Fusions!Spec

-----------------------------------------------------------------------------
(* What the run of the queues checks, of those with theorems of their own. *)

\* Render reservations follow the leases, and no volume is overbooked.
THEOREM QueuesReserveForLeases == QueuesSpec => []ReservationsFollowLeases
  <1>1. Renders!Spec => []Renders!ReservationsFollowLeases
    BY Renders!ReservationsAreOfLeases, QueueConstants
  <1>2. Renders!Spec => []Renders!DiskIsNotOverbooked
    BY Renders!DiskIsNeverOverbooked, QueueConstants
  <1> QED
    BY <1>1, <1>2, RendersRun, PTL DEF ReservationsFollowLeases

\* A published scene's GLB is in the store.
THEOREM QueuesStoreScenes == QueuesSpec => []ScenesAreStored
  <1>1. Scenes!Spec => []Scenes!ScenesAreStored
    BY ScenesStayStored, QueueConstants
  <1> QED
    BY <1>1, ScenesRun, PTL DEF ScenesAreStored

\* The holder of a scene's lease is never refused for its stage.
THEOREM QueuesLetHoldersHeartbeat == QueuesSpec => []HolderMayHeartbeat
  <1>1. Scenes!Spec => []Scenes!HolderMayHeartbeat
    BY SceneHoldersMayHeartbeat, QueueConstants
  <1> QED
    BY <1>1, ScenesRun, PTL DEF HolderMayHeartbeat

\* Packages are complete, and sessions follow their attempts.
THEOREM QueuesCompletePackages == QueuesSpec => []PackagesAreComplete
  <1>1. Captures!Spec => []Captures!PackagesAreComplete
    BY Captures!PackagesStayComplete, QueueConstants
  <1>2. Captures!Spec => []Captures!SessionFollowsAttempt
    BY Captures!SessionsFollowAttempts, QueueConstants
  <1> QED
    BY <1>1, <1>2, CapturesRun, PTL DEF PackagesAreComplete

\* A draft of C6 was reduced on the head it is stored for, and one of C9 holds
\* the reviewers' last words.
THEOREM QueuesKeepDraftsOfTheirBase == QueuesSpec => []DraftsFitTheirBase
  <1>1. Plans!Spec => []Plans!DraftsFitTheirBranch
    BY PlanDraftsAreOfTheirHead, QueueConstants
  <1>2. Fusions!Spec => []Fusions!DraftsFollowTheReview
    BY FusionDraftsHoldTheLastWord, QueueConstants
  <1> QED
    BY <1>1, <1>2, PlansRun, FusionsRun, PTL DEF DraftsFitTheirBase

\* Seven queues, written apart, keep the same promises.
THEOREM QueuesKeepThePromises == QueuesSpec => QueuesImplementLeasedJobs
  <1>1. Renders!Spec => Renders!ImplementsLeasedJobs
    BY Renders!RendersAreLeasedJobs, QueueConstants
  <1>2. Scenes!Spec => Scenes!ImplementsLeasedJobs
    BY ScenesAreLeasedJobs, QueueConstants
  <1>3. Captures!Spec => Captures!ImplementsLeasedJobs
    BY Captures!CapturesAreLeasedJobs, QueueConstants
  <1>4. Plans!Spec => Plans!ImplementsLeasedJobs
    BY PlansAreLeasedJobs, QueueConstants
  <1>5. OptionQueue!Spec => OptionQueue!ImplementsLeasedJobs
    BY OptionsAreLeasedJobs, QueueConstants
  <1>6. Fusions!Spec => Fusions!ImplementsLeasedJobs
    BY FusionsAreLeasedJobs, QueueConstants
  <1> QED
    BY <1>1, <1>2, <1>3, <1>4, <1>5, <1>6, AssetsAreLeasedJobs, AssetsRun, RendersRun, ScenesRun,
       CapturesRun, PlansRun,
       OptionsRun, FusionsRun, PTL DEF QueuesImplementLeasedJobs
=============================================================================

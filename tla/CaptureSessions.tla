-------------------------- MODULE CaptureSessions --------------------------
(***************************************************************************)
(* The C7 capture sessions: the API (PostgresCaptureBackend), which takes  *)
(* artifacts, packages them or accepts an envelope of them, and ends       *)
(* sessions; the queue of the RoomPlan workers over the same rows          *)
(* (PostgresRoomPlanQueue); and their runner (RoomPlanProcessingRunner).   *)
(*                                                                         *)
(* A method is one transaction and one action; its calls of the object     *)
(* store are not undone when it is rolled back.  A brief runs out for the  *)
(* API and the database at once.  Refused and replayed requests change     *)
(* nothing and are left out, as are audit and outbox rows; the payloads    *)
(* (manifest, envelope, result) are those their schemas accept.            *)
(***************************************************************************)
EXTENDS Integers, Sequences, FiniteSets

CONSTANTS
    Sessions,         \* capture sessions that may be created
    ArkitSessions,    \* those whose brief is for a device without RoomPlan
    ArtifactsOf,      \* the artifacts that may be registered for a session
    Workers,          \* worker processes
    MaximumAttempts,  \* MAXIMUM_ATTEMPTS
    MaximumMishaps    \* bound: claims of one attempt that may end without
                      \* the worker's word

\* What holds of the constants: a package may be processed.
CaptureConstants == MaximumAttempts \in Nat \ {0}

VARIABLES
    session,         \* capture_sessions, with the rights and the expiry of
                     \* the brief
    upload,          \* the artifact and upload rows, and the upload at the
                     \* provider
    package,         \* the artifacts of a session's package; or NoPackage
    attempts,        \* capture_processing_attempts, by attempt_number
    results,         \* capture_results
    envelope,        \* capture_envelopes, with their sources; or NoEnvelope
    mediaWithdrawn,  \* the rights of the media assets were withdrawn (C8)
    worker           \* what each worker is doing

vars == <<session, upload, package, attempts, results, envelope, mediaWithdrawn, worker>>

-----------------------------------------------------------------------------
(* Rows.                                                                   *)

NoPackage == {}

NoEnvelope == [depth |-> {}, plans |-> {}, accepted |-> FALSE]

QueuedAttempt == [state |-> "queued", claims |-> 0, token |-> 0, lapsed |-> FALSE]

\* The last attempt of a session.
At(s) == attempts[s][Len(attempts[s])]

AttemptEnds(row, state) == [row EXCEPT !.state = state, !.token = 0, !.lapsed = FALSE]

WithLast(rows, row) == [rows EXCEPT ![Len(rows)] = row]

HasAttemptIn(s, state) == attempts[s] # <<>> /\ At(s).state = state

SessionBecomes(row, state, retryable) == [row EXCEPT !.state = state, !.retryable = retryable]

\* assertCurrentRights and assertUnexpired.
Current(s) == session[s].permitted /\ ~session[s].expired

TakesArtifacts(s) == session[s].state \in {"created", "uploading"}

Registered(s) == {a \in ArtifactsOf[s] : upload[s][a].row # "absent"}

Completed(s) == {a \in ArtifactsOf[s] : upload[s][a].row = "completed"}

IsOpen(u) == u.row \in {"initiated", "uploading"}

-----------------------------------------------------------------------------
(* The client's requests.                                                  *)

CreateSession(s) ==
    /\ session[s].state = "absent"
    /\ session' = [session EXCEPT ![s].state = "created", ![s].permitted = TRUE]
    /\ UNCHANGED <<upload, package, attempts, results, envelope, mediaWithdrawn, worker>>

\* Creates the provider's upload; when the transaction fails it is aborted.
CreateArtifactUpload(s, a) ==
    /\ TakesArtifacts(s) /\ Current(s)
    /\ upload[s][a].row = "absent"
    /\ upload' = [upload EXCEPT ![s][a] = [row |-> "initiated", at |-> "open"]]
    /\ UNCHANGED <<session, package, attempts, results, envelope, mediaWithdrawn, worker>>

SignArtifactPart(s, a) ==
    /\ IsOpen(upload[s][a]) /\ TakesArtifacts(s) /\ Current(s)
    /\ upload' = [upload EXCEPT ![s][a].row = "uploading"]
    /\ session' = [session EXCEPT ![s].state = "uploading"]
    /\ UNCHANGED <<package, attempts, results, envelope, mediaWithdrawn, worker>>

\* With every part declared.  The provider completes the upload, or had when
\* an earlier transaction was rolled back, as this one may be.
CompleteArtifactUpload(s, a, commits) ==
    /\ upload[s][a].row = "uploading" /\ upload[s][a].at \in {"open", "stored"}
    /\ TakesArtifacts(s) /\ Current(s)
    /\ upload' = [upload EXCEPT ![s][a].at = "stored",
                                ![s][a].row = IF commits THEN "completed" ELSE @]
    /\ UNCHANGED <<session, package, attempts, results, envelope, mediaWithdrawn, worker>>

FinalizeIncomplete(s) ==
    /\ session[s].state = "uploading" /\ Current(s)
    /\ Completed(s) # {}
    /\ package' = [package EXCEPT ![s] = Completed(s)]
    /\ attempts' = [attempts EXCEPT ![s] = <<QueuedAttempt>>]
    /\ session' = [session EXCEPT ![s] = SessionBecomes(@, "uploaded", FALSE)]
    /\ UNCHANGED <<upload, results, envelope, mediaWithdrawn, worker>>

\* The package of exactly the registered artifacts, and its first attempt.
FinalizePackage(s) ==
    /\ session[s].state = "uploading" /\ Current(s)
    /\ Registered(s) # {} /\ Completed(s) = Registered(s)
    /\ package' = [package EXCEPT ![s] = Registered(s)]
    /\ attempts' = [attempts EXCEPT ![s] = <<QueuedAttempt>>]
    /\ session' = [session EXCEPT ![s] = SessionBecomes(@, "uploaded", FALSE)]
    /\ UNCHANGED <<upload, results, envelope, mediaWithdrawn, worker>>

IsPackaged(p) == p \notin ArkitSessions /\ package[p] # NoPackage /\ session[p].permitted

\* A RoomPlan source: the package of another session that has its result.
IsPlanSource(p) ==
    /\ p \notin ArkitSessions
    /\ session[p].state \in {"proposed", "abstained"} /\ session[p].permitted

\* The envelope of completed depth artifacts, RoomPlan packages and media.
AcceptEnvelope(s, depth, plans) ==
    /\ TakesArtifacts(s) /\ Current(s)
    /\ s \in ArkitSessions
    /\ ~mediaWithdrawn
    /\ depth \subseteq Completed(s)
    /\ \A p \in plans : IsPlanSource(p)
    /\ envelope' = [envelope EXCEPT ![s] = [depth |-> depth, plans |-> plans, accepted |-> TRUE]]
    /\ session' = [session EXCEPT ![s] = SessionBecomes(@, "accepted", FALSE)]
    /\ UNCHANGED <<upload, package, attempts, results, mediaWithdrawn, worker>>

RetrySession(s) ==
    /\ session[s].state = "failed" /\ session[s].retryable /\ Current(s)
    /\ package[s] # NoPackage /\ Len(attempts[s]) < MaximumAttempts
    /\ attempts' = [attempts EXCEPT ![s] = Append(@, QueuedAttempt)]
    /\ session' = [session EXCEPT ![s] = SessionBecomes(@, "uploaded", FALSE)]
    /\ UNCHANGED <<upload, package, results, envelope, mediaWithdrawn, worker>>

-----------------------------------------------------------------------------
(* The ways a session is ended.                                            *)

\* The provider's part of #abortOpenUploads; a failure there is ignored.
GoneAtProvider(u) == [u EXCEPT !.at = IF @ = "open" THEN "gone" ELSE @]

\* #abortOpenUploads
Aborted(s, succeeds) ==
    [a \in ArtifactsOf[s] |->
        IF ~IsOpen(upload[s][a]) THEN upload[s][a]
        ELSE [IF succeeds THEN GoneAtProvider(upload[s][a]) ELSE upload[s][a]
              EXCEPT !.row = "aborted"]]

\* The live attempt of a session in processing is asked to stop.
StopsProcessing(s) ==
    /\ session[s].state = "processing"
    /\ session' = [session EXCEPT ![s] = SessionBecomes(@, "cancel-requested", FALSE)]
    /\ attempts' = [attempts EXCEPT ![s] = WithLast(@, [At(s) EXCEPT !.state = "cancel-requested"])]
    /\ UNCHANGED <<upload, package, results, envelope, mediaWithdrawn, worker>>

\* Its uploads are aborted and its queued attempt is cancelled.
StillQueued(s) == attempts[s]

Closed(s) ==
    IF HasAttemptIn(s, "queued")
    THEN WithLast(attempts[s], AttemptEnds(At(s), "cancelled"))
    ELSE attempts[s]

BeforeProcessing == {"created", "uploading", "uploaded", "failed"}

CancelSession(s, succeeds) ==
    \/ StopsProcessing(s)
    \/ /\ session[s].state \in BeforeProcessing
       /\ upload' = [upload EXCEPT ![s] = Aborted(s, succeeds)]
       /\ attempts' = [attempts EXCEPT ![s] = Closed(s)]
       /\ session' = [session EXCEPT ![s] = SessionBecomes(@, "cancelled", FALSE)]
       /\ UNCHANGED <<package, results, envelope, mediaWithdrawn, worker>>

\* withdrawRights: an accepted session stays accepted.
WithdrawRights(s, succeeds) ==
    LET row == [session[s] EXCEPT !.permitted = FALSE]
        state == session[s].state
    IN  /\ session[s].permitted
        /\ session' = [session EXCEPT ![s] =
              CASE state = "processing" -> SessionBecomes(row, "cancel-requested", FALSE)
                [] state \in BeforeProcessing -> SessionBecomes(row, "cancelled", FALSE)
                [] OTHER -> row]
        /\ attempts' = [attempts EXCEPT ![s] =
              IF state = "processing"
              THEN WithLast(@, [At(s) EXCEPT !.state = "cancel-requested"])
              ELSE Closed(s)]
        /\ upload' = [upload EXCEPT ![s] =
              IF state \in BeforeProcessing \cup {"accepted"} THEN Aborted(s, succeeds) ELSE @]
        /\ UNCHANGED <<package, results, envelope, mediaWithdrawn, worker>>

Expirable(s) ==
    session[s].expired /\ session[s].state \in {"created", "uploading", "uploaded", "processing"}

\* expireOpenSessions, in one transaction.
ExpireOpenSessions(succeeds) ==
    LET due == {s \in Sessions : Expirable(s)}
    IN  /\ due # {}
        /\ session' = [s \in Sessions |->
              IF s \notin due THEN session[s]
              ELSE SessionBecomes(session[s],
                       IF session[s].state = "processing" THEN "cancel-requested" ELSE "failed",
                       FALSE)]
        /\ attempts' = [s \in Sessions |->
              IF s \notin due \/ attempts[s] = <<>> THEN attempts[s]
              ELSE WithLast(attempts[s],
                       IF session[s].state = "processing"
                       THEN [At(s) EXCEPT !.state = "cancel-requested"]
                       ELSE AttemptEnds(At(s), "failed"))]
        /\ upload' = [s \in Sessions |->
              IF s \in due /\ session[s].state # "processing" THEN Aborted(s, succeeds)
              ELSE upload[s]]
        /\ UNCHANGED <<package, results, envelope, mediaWithdrawn, worker>>

\* One of these transactions is rolled back after it aborted the uploads.
EndingRollsBack(s) ==
    /\ TakesArtifacts(s)
    /\ \E a \in ArtifactsOf[s] : upload[s][a].at = "open"
    /\ upload' = [upload EXCEPT ![s] =
          [a \in ArtifactsOf[s] |-> GoneAtProvider(upload[s][a])]]
    /\ UNCHANGED <<session, package, attempts, results, envelope, mediaWithdrawn, worker>>

\* The brief runs out.
BriefExpires(s) ==
    /\ session[s].state # "absent" /\ ~session[s].expired
    /\ session' = [session EXCEPT ![s].expired = TRUE]
    /\ UNCHANGED <<upload, package, attempts, results, envelope, mediaWithdrawn, worker>>

\* reconstruction_rights_withdrawals, in C8.
WithdrawMedia ==
    /\ ~mediaWithdrawn
    /\ mediaWithdrawn' = TRUE
    /\ UNCHANGED <<session, upload, package, attempts, results, envelope, worker>>

-----------------------------------------------------------------------------
(* The workers' queue.                                                     *)

Idle == [phase |-> "idle"]

\* claimNext: the cancellations it completes, and the attempts it may take.
Overdue(s) == HasAttemptIn(s, "cancel-requested") /\ At(s).lapsed

Claimable(s) == HasAttemptIn(s, "queued") \/ (HasAttemptIn(s, "leased") /\ At(s).lapsed)

Leasable(s) ==
    /\ session[s].state \in {"uploaded", "processing"} /\ Current(s)
    /\ package[s] = Registered(s) /\ package[s] = Completed(s)

\* What one claim does to the sessions it sweeps, rejects and leases.
ClaimedSession(s, rejected, leased) ==
    CASE Overdue(s) -> SessionBecomes(session[s], "cancelled", FALSE)
      [] s \in rejected -> SessionBecomes(session[s], "failed", FALSE)
      [] s \in leased -> [session[s] EXCEPT !.state = "processing"]
      [] OTHER -> session[s]

ClaimedAttempts(s, rejected, leased) ==
    CASE Overdue(s) -> WithLast(attempts[s], AttemptEnds(At(s), "cancelled"))
      [] s \in rejected -> WithLast(attempts[s], AttemptEnds(At(s), "failed"))
      [] s \in leased -> WithLast(attempts[s],
                            [state |-> "leased", claims |-> At(s).claims + 1,
                             token |-> At(s).claims + 1, lapsed |-> FALSE])
      [] OTHER -> attempts[s]

\* Overdue cancellations are completed; attempts that may no longer run are
\* failed until one is found that may: it is leased.
Claim(w, leased) ==
    LET mayNot == {s \in Sessions : Claimable(s) /\ ~Leasable(s)}
    IN  /\ worker[w] = Idle
        /\ \A s \in leased : Claimable(s) /\ Leasable(s)
        /\ \E rejected \in SUBSET mayNot :
              /\ leased = {} => rejected = mayNot /\ \A s \in Sessions : Claimable(s) => ~Leasable(s)
              /\ leased # {} \/ rejected # {} \/ \E s \in Sessions : Overdue(s)
              /\ session' = [s \in Sessions |-> ClaimedSession(s, rejected, leased)]
              /\ attempts' = [s \in Sessions |-> ClaimedAttempts(s, rejected, leased)]
        /\ worker' = [worker EXCEPT ![w] =
              IF leased = {} THEN Idle
              ELSE LET s == CHOOSE s \in leased : TRUE
                   IN  [phase |-> "working", session |-> s, attempt |-> Len(attempts[s]),
                        token |-> At(s).claims + 1, retryable |-> FALSE]]
        /\ UNCHANGED <<upload, package, results, envelope, mediaWithdrawn>>

-----------------------------------------------------------------------------
(* The runner and the methods it calls with its lease.                     *)

Row(w) == attempts[worker[w].session][worker[w].attempt]

SessionOf(w) == session[worker[w].session]

IsToken(w) == Row(w).token = worker[w].token

HoldsAnyLease(w) ==
    /\ Row(w).state = "leased" /\ ~Row(w).lapsed
    /\ SessionOf(w).state = "processing" /\ Current(worker[w].session)

\* What heartbeat and publish demand.
Holds(w) ==
    /\ IsToken(w) /\ Row(w).state = "leased" /\ ~Row(w).lapsed
    /\ SessionOf(w).state = "processing" /\ Current(worker[w].session)

CancellationRequested(w) ==
    IsToken(w) /\ (Row(w).state = "cancel-requested" \/ SessionOf(w).state = "cancel-requested")

Stop(w) == worker' = [worker EXCEPT ![w] = Idle]

Goes(w, phase) == worker' = [worker EXCEPT ![w].phase = phase]

\* The attempt and the session change together.
SetLease(w, row, state, retryable) ==
    /\ attempts' = [attempts EXCEPT ![worker[w].session][worker[w].attempt] = row]
    /\ session' = [session EXCEPT ![worker[w].session] = SessionBecomes(@, state, retryable)]
    /\ UNCHANGED <<upload, package, envelope, mediaWithdrawn>>

NothingButTheWorker == UNCHANGED <<session, upload, package, attempts, results, envelope, mediaWithdrawn>>

\* The sources are verified and converted, and the last heartbeat is accepted.
Convert(w) ==
    /\ worker[w].phase = "working" /\ Holds(w)
    /\ Goes(w, "publishing")
    /\ NothingButTheWorker

\* A heartbeat is refused: RoomPlanLeaseEnded.
LeaseEnds(w) ==
    /\ worker[w].phase = "working" /\ ~Holds(w)
    /\ IF CancellationRequested(w) THEN Goes(w, "cancelling") ELSE Stop(w)
    /\ NothingButTheWorker

\* A source that fails its validation is published as an abstention, without
\* another heartbeat.
Abstains(w) ==
    /\ worker[w].phase = "working"
    /\ Goes(w, "abstaining")
    /\ NothingButTheWorker

\* Anything else that is thrown, a heartbeat without an answer among it.
Throws(w, retryable) ==
    /\ worker[w].phase = "working"
    /\ worker' = [worker EXCEPT ![w].phase = "failing", ![w].retryable = retryable]
    /\ NothingButTheWorker

\* publish: fenced, it changes nothing.  Its answer may be lost.
Publish(w, state, answered) ==
    LET s == worker[w].session
    IN  /\ worker[w].phase \in (IF state = "proposed" THEN {"publishing"}
                                ELSE {"publishing", "abstaining"})
        /\ Holds(w) /\ ~\E r \in results : r.session = s
        /\ results' = results \cup {[session |-> s, attempt |-> worker[w].attempt,
                                     claim |-> worker[w].token]}
        /\ SetLease(w, AttemptEnds(Row(w), "succeeded"), state, FALSE)
        /\ IF answered \/ worker[w].phase = "abstaining" THEN Stop(w) ELSE Goes(w, "failing")

PublishIsFenced(w) ==
    /\ worker[w].phase \in {"publishing", "abstaining"} /\ ~Holds(w)
    /\ Stop(w)
    /\ NothingButTheWorker

\* fail
Fail(w) ==
    /\ worker[w].phase = "failing"
    /\ \/ /\ CancellationRequested(w)
          /\ SetLease(w, AttemptEnds(Row(w), "cancelled"), "cancelled", FALSE)
       \/ /\ IsToken(w) /\ Row(w).state = "leased" /\ ~Row(w).lapsed
          /\ SessionOf(w).state = "processing"
          /\ LET canRetry == worker[w].retryable /\ worker[w].attempt < MaximumAttempts
             IN  SetLease(w, AttemptEnds(Row(w), "failed"), "failed", canRetry)
    /\ Stop(w)
    /\ UNCHANGED results

\* acknowledgeCancellation, also after the lease has lapsed.
Acknowledge(w) ==
    /\ worker[w].phase = "cancelling"
    /\ IsToken(w) /\ Row(w).state = "cancel-requested"
    /\ SetLease(w, AttemptEnds(Row(w), "cancelled"), "cancelled", FALSE)
    /\ Stop(w)
    /\ UNCHANGED results

\* fail or acknowledgeCancellation returns false.
GivesUp(w) ==
    /\ worker[w].phase \in {"failing", "cancelling"}
    /\ ~IsToken(w) \/ (Row(w).state = "leased" /\ Row(w).lapsed)
    /\ Stop(w)
    /\ NothingButTheWorker

MayMishap(token) == token <= MaximumMishaps

\* The process stops, or its last call fails.
Crash(w) ==
    /\ worker[w] # Idle /\ MayMishap(worker[w].token)
    /\ Stop(w)
    /\ NothingButTheWorker

\* lease_expires_at passes.
LeaseLapses(s) ==
    /\ HasAttemptIn(s, "leased") \/ HasAttemptIn(s, "cancel-requested")
    /\ ~At(s).lapsed
    /\ MayMishap(At(s).token) \/ At(s).state = "cancel-requested" \/ ~Current(s)
    /\ attempts' = [attempts EXCEPT ![s] = WithLast(@, [At(s) EXCEPT !.lapsed = TRUE])]
    /\ UNCHANGED <<session, upload, package, results, envelope, mediaWithdrawn, worker>>

-----------------------------------------------------------------------------

Init ==
    /\ session = [s \in Sessions |->
          [state |-> "absent", retryable |-> FALSE, permitted |-> FALSE, expired |-> FALSE]]
    /\ upload = [s \in Sessions |-> [a \in ArtifactsOf[s] |-> [row |-> "absent", at |-> "none"]]]
    /\ package = [s \in Sessions |-> NoPackage]
    /\ attempts = [s \in Sessions |-> <<>>]
    /\ results = {}
    /\ envelope = [s \in Sessions |-> NoEnvelope]
    /\ mediaWithdrawn = FALSE
    /\ worker = [w \in Workers |-> Idle]

ClientStep(s) ==
    \/ CreateSession(s) \/ FinalizePackage(s) \/ RetrySession(s)
    \/ \E a \in ArtifactsOf[s] :
          \/ CreateArtifactUpload(s, a) \/ SignArtifactPart(s, a)
          \/ \E commits \in BOOLEAN : CompleteArtifactUpload(s, a, commits)
    \/ \E depth \in SUBSET ArtifactsOf[s], plans \in SUBSET (Sessions \ {s}) :
          AcceptEnvelope(s, depth, plans)

EndStep(s) ==
    \/ \E succeeds \in BOOLEAN : CancelSession(s, succeeds) \/ WithdrawRights(s, succeeds)
    \/ EndingRollsBack(s) \/ BriefExpires(s) \/ LeaseLapses(s)

ClaimStep(w) ==
    \E leased \in {{}} \cup {{s} : s \in Sessions} : Claim(w, leased)

RunnerStep(w) ==
    \/ Convert(w) \/ LeaseEnds(w) \/ PublishIsFenced(w)
    \/ \E state \in {"proposed", "abstained"}, answered \in BOOLEAN : Publish(w, state, answered)
    \/ Fail(w) \/ Acknowledge(w) \/ GivesUp(w)

WorkerStep(w) ==
    \/ ClaimStep(w) \/ RunnerStep(w)
    \/ Abstains(w) \/ \E retryable \in BOOLEAN : Throws(w, retryable)
    \/ Crash(w)

ExpiryStep == \E succeeds \in BOOLEAN : ExpireOpenSessions(succeeds)

Next ==
    \/ \E s \in Sessions : ClientStep(s) \/ EndStep(s)
    \/ ExpiryStep \/ WithdrawMedia
    \/ \E w \in Workers : WorkerStep(w)

Spec == Init /\ [][Next]_vars

\* No process executes the lease any more, so none renews it.
Abandoned(s) ==
    ~\E w \in Workers : worker[w] # Idle /\ worker[w].session = s /\ IsToken(w)

\* Time passes, the expiry is run again and again, the runners poll and go on,
\* and an abandoned lease lapses.
Fairness ==
    /\ \A s \in Sessions :
          /\ WF_vars(BriefExpires(s))
          /\ WF_vars(Abandoned(s) /\ LeaseLapses(s))
    /\ WF_vars(ExpiryStep)
    /\ \A w \in Workers : WF_vars(ClaimStep(w)) /\ WF_vars(RunnerStep(w))

FairSpec == Spec /\ Fairness

-----------------------------------------------------------------------------
(* Properties.                                                             *)

\* The two sides write session and attempt together, whoever ends the work:
\* the worker, the client, the rights system, the expiry or another worker.
\* No attempt stays live under a session that is over, and none is missing
\* under one that waits for a result.
SessionFollowsAttempt ==
    \A s \in Sessions :
        /\ (package[s] # NoPackage) = (attempts[s] # <<>>)
        /\ \A i \in 1..(Len(attempts[s]) - 1) : attempts[s][i].state = "failed"
        /\ \A pair \in {<<"uploaded", "queued">>, <<"processing", "leased">>,
                        <<"cancel-requested", "cancel-requested">>} :
              (session[s].state = pair[1]) = HasAttemptIn(s, pair[2])
        /\ (session[s].state \in {"proposed", "abstained"}) = HasAttemptIn(s, "succeeded")
        /\ (session[s].state \in {"proposed", "abstained"}) = (\E r \in results : r.session = s)

\* A package is exactly what the client registered, all of it stored, and
\* nothing of the session can still be uploaded once it is packaged or over,
\* whatever rolled back in between.  (An accepted session keeps its open
\* uploads: acceptEnvelope does not abort them.)
PackagesAreComplete ==
    \A s \in Sessions :
        /\ \A a \in Completed(s) : upload[s][a].at = "stored"
        /\ package[s] # NoPackage => package[s] = Registered(s) /\ package[s] = Completed(s)
        /\ session[s].state \notin {"absent", "created", "uploading", "accepted"} =>
              \A a \in ArtifactsOf[s] : ~IsOpen(upload[s][a])

\* #findEnvelopeInTransaction
EnvelopeIsShown(s) ==
    /\ envelope[s].accepted
    /\ session[s].permitted
    /\ ~mediaWithdrawn
    /\ \A p \in envelope[s].plans : session[p].permitted

\* Whatever is shown of a capture is still there and may still be used: its
\* depth artifacts are stored, and its RoomPlan packages have the rights, the
\* one result and the artifacts they were accepted with.
ShownEnvelopesHold ==
    \A s \in Sessions :
        EnvelopeIsShown(s) =>
            /\ session[s].state = "accepted"
            /\ \A a \in envelope[s].depth : upload[s][a].at = "stored"
            /\ \A p \in envelope[s].plans :
                  /\ session[p].permitted /\ package[p] # NoPackage
                  /\ Cardinality({r \in results : r.session = p}) = 1
                  /\ \A a \in package[p] : upload[p][a].at = "stored"

Status(state, rows) ==
    IF rows = <<>> THEN "absent"
    ELSE CASE state = "uploaded" -> "waiting"
           [] state = "processing" -> "working"
           [] state = "cancel-requested" -> "stopping"
           [] state \in {"proposed", "abstained"} -> "done"
           [] OTHER -> state

\* The result rows of a session: at most one, as LeasedJobs has it.
Output(rows) ==
    IF rows = {} THEN <<0, 0>> ELSE LET r == CHOOSE r \in rows : TRUE IN <<r.attempt, r.claim>>

\* How often the last of a session's attempts has been claimed.
ClaimsOf(rows) == IF rows = <<>> THEN 0 ELSE rows[Len(rows)].claims

View ==
    [s \in Sessions |->
        [status |-> Status(session[s].state, attempts[s]), attempt |-> Len(attempts[s]),
         claims |-> ClaimsOf(attempts[s]), output |-> Output({r \in results : r.session = s})]]

Leased == INSTANCE LeasedJobs WITH Jobs <- Sessions, view <- View

\* The processing of a package keeps the promises of LeasedJobs.
ImplementsLeasedJobs == Leased!Spec

\* With the expiry run again and again, no session stays open: neither one the
\* client forgets, nor one whose worker falls silent, nor one whose uploads
\* can no longer be completed.
CapturesEnd ==
    \A s \in Sessions :
        session[s].state # "absent" ~>
            session[s].state \in {"accepted", "proposed", "abstained", "cancelled", "failed"}
=============================================================================

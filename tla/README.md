# Interior-Design in TLA+

A verification project kept beside the code of the Interior-Design platform:
TLA+ modules of its stateful parts, TLC configurations that check them on small
instances, and TLAPS proofs of what matters most for every value of the
constants. Paths below are relative to the repository root, `src/`;
`PROJECT.json` gives, for every definition that models code, the lines it was
translated from.

- [1. The system](#1-the-system): inventory of components
- [2. Plan](#2-plan): what is done and what is next
- [3. The models](#3-the-models): modules, state, actions, correspondence
- [4. What the runs check and show](#4-what-the-runs-check-and-show)
- [5. What is proved](#5-what-is-proved)
- [6. Disagreements found](#6-disagreements-found)
- [7. What is not modelled](#7-what-is-not-modelled)

## 1. The system

The platform turns evidence about a home (plans, photos, videos, RoomPlan
captures) into a canonical spatial model, lets people and agents edit that
model through typed operations, and derives design options, specifications,
scenes and rendered stills from it. A TypeScript API (`services/platform-api`)
keeps everything in PostgreSQL and hands large objects to an S3-compatible
store; worker processes (`services/spatial-worker`, `workers/blender-renderer`)
take jobs from tables of the same database under leases; a web application and
an iOS capture application are its clients. The checkpoints C1 to C14 of
`docs/orchestration/checkpoints` name the parts.

| Component | State it keeps | Operations | Hard behaviour | What makes it correct | Model |
|---|---|---|---|---|---|
| **C5 model operations** `modules/models/operations` `packages/model-operations` | snapshots and profile pointer, branches, previews, commits, envelopes, idempotency records, audit, outbox | initialize, createBranch, preview, commit, restore, cleanupExpiredPreviews, verifyReplay, reads | callers act on stale revisions and hashes, the same hash comes back after an edit and its inverse; repeated requests; expiry by two clocks; verification beside commits | one linear, replayable history per branch; a commit follows what its sender saw and equals what was previewed; a key executes once | `ModelBranches` `BranchHistory` `ReplayVerification` |
| **C2 upload sessions** `modules/assets/postgres.ts`, `lifecycle.ts`, `storage/s3.ts` | assets, rights, upload sessions, parts; S3 multipart uploads and objects outside the database | create, sign, complete, abort, cleanup of expired sessions, issueAccess | the store cannot be rolled back with the rows; requests that take effect after their caller gave up; expiry | a completed upload is stored as declared; an ended session stays ended and closed; a job exists exactly for completed uploads | `UploadSession` |
| **C2 processing** `spatial-worker/src/jobs.ts`, `runner.ts`, `processor.ts`, `storage.ts` | processing jobs with leases, asset states, derived artifacts and objects, each worker's execution | claim, renew, complete, retry, heartbeat, shutdown | lapsed leases and late answers, shared worker names, crashes between writes, a commit whose answer is lost | fencing; job and asset rows agree; idempotent derived writes; a ready asset is complete; jobs settle | `AssetProcessing` |
| **C1 intake, C3 property** `modules/identity` `projects` `intake` `property` | intakes and properties with revisions, dossier versions, idempotency records, the home workspace | update the intake, resolve, select, refresh and read a dossier, initialize the home | versions that begin again with every property; delayed and repeated requests; what a request read before its transaction | no lost update; a key executes once; every dossier is of a selected property | `HomeSetup` |
| **C4 canonical model** `modules/models/core` `packages/domain-model` | snapshots, profile | import and read a snapshot | canonical JSON and hashing | the hash of a snapshot is that of its content | rows in `ModelBranches` |
| **C6 plan processing** `modules/plan-processing`, worker `plan-processing` | jobs chained by retries, results, calibrations, operation drafts, outbox | create, cancel, retry, claim, heartbeat, publish, fail, calibrate, draft operations | leases; drafts made on a model that has moved on | as C2 processing; a draft fits the head it names | `PlanJobs` |
| **C7 capture and RoomPlan** `modules/capture`, worker `roomplan` | capture sessions, artifacts, upload sessions, packages, envelopes, attempts, results | upload, finalise, accept an envelope, cancel, retry, withdraw, expire, process | a store that completes what the rows roll back; withdrawals and expiry that meet a publishing worker | a package is whole and closed; withdrawal stops processing and hides what was accepted | `CaptureSessions` |
| **C7 iOS guided capture** `apps/ios-capture` | the draft in memory and in the protected journal, the screen, ARKit's session, files, what the server has | capture, review, transitions, submission, relaunch, acceptance | everything awaited goes on while the person or the system does something else; kills, interruptions, lost answers, retries | what counts as retained survives a kill; segments have one world origin; accepted is what the server accepted | `GuidedCapture` |
| **C8 reconstruction** `modules/reconstruction/postgres.ts`, `spatial-worker/src/reconstruction/runner.ts`, `source.ts` | jobs, attempts with leases and stages, results, rights withdrawals, audit, outbox; each worker's execution and heartbeat | create, cancel, retry, claimNext, advance, heartbeat, publish, fail, acknowledge, withdrawSource | rights withdrawn while transactions that have read them are open; late workers; cancellations of silent workers; rows stamped by several clocks | rows agree; a result only under the lease and the rights; cancellations and withdrawn work end | `ReconstructionJobs` `ReconstructionStamps` |
| **C9 model fusion** `modules/model-fusion`, worker `model-fusion` | jobs, attempts, proposals, reviews, discrepancies, operation drafts | create, cancel, retry, withdraw, claim, advance, publish, fail, decide, draft | rights that end in another component; decisions against an older review; drafts on a head that moved | one result per job, made with the rights; drafts come only from decided, current proposals | `FusionJobs` |
| **C10 scenes** `modules/scenes`, worker `scene-compile` | jobs, attempts, artifacts in the store, results | create, cancel, retry, claim, heartbeat, publish, fail | the GLB is stored before the row; a reclaimed attempt repeats stages | a published scene is stored; the holder may always go on | `SceneJobs` |
| **C11 briefs and consultations** `modules/briefs` `design-agent` | brief revisions, acceptance, sessions, turns, proposals, keys | update, accept, open, send a message, propose, confirm, cancel | a turn waits for a model while everything moves; two sessions about one revision | every revision is what one person asked or confirmed on the revision shown | `Consultations` |
| **C12 design options** `modules/design-options`, worker `design-options` | jobs, attempts with versions, option sets, confirmations | create, cancel, retry, claim, publish, fail, acknowledge; confirm into a branch | three copies of one version; options of several jobs confirmed into one profile | a cancellation ends; a confirmed branch is the option's | `OptionJobs` `Specifications` |
| **C13 specifications** `modules/specifications` | specifications, revisions, board selections, substitution previews, confirmations, scene requests | create, select, preview, confirm, request a scene, withdraw rights | a substitution confirmed after edits; a scene asked for outside the transaction | a specification describes the branch it names | `Specifications` `ProposedHistory` |
| **C14 render stills** `modules/render-stills`, worker `render-stills` | jobs, attempts and heads, volumes and disk reservations, results | create, cancel, retry, claim with admission, heartbeat, publish, enhance, fail, acknowledge | two admissions from one measurement; reclaims that keep a reservation | disk is reserved for exactly the running attempts | `RenderStills` |
| **Editor core** `packages/editor-core`, `apps/web/src/features/editor-2d` | one person's pending commands, undo and redo stacks, preview; requests in flight | append, undo, redo, preview, commit, load | answers lost or late; forms that append while a request is in flight | a command is committed at most once and never lost silently | `EditorSession` |
| **Geometry kernel** `packages/geometry-kernel` | none | validate paths, boundaries, rooms, openings | comparisons with zero, collinear and touching segments | findings are what the geometry is | `HomeGeometry` |
| **Contracts, authorization, scene compiler, catalog, UI, web** | none of their own | pure functions, schemas, views | numerical robustness | left to the repository's property tests | none |

How they interact: C2 `completeUpload` inserts the processing job that a worker
claims; C6, C8 and C9 read `ready` assets and end in operation drafts that only
C5 can turn into a commit; C12 and C13 make and edit branches of a *proposed*
profile beside the one C5 edits; C10, C12, C13 and C14 refer to exact snapshots
and heads of C5 by identifier and hash. The interaction is by rows of one
database (transactions, row locks and foreign keys) and by objects in the store
that rows name; processes do not call one another.

## 2. Plan

Done, in the order of importance:

1. *C5* (`ModelBranches`): everything else derives from its histories. The
   abstract specification `BranchHistory` says what it promises; that the tables
   implement it is checked and proved.
2. *C2 processing* (`AssetProcessing`) and the abstract `LeasedJobs`, which it
   and the queues of C6, C7, C8, C9, C10, C12 and C14, written one after the
   other, all implement (`QueuesImplementLeasedJobs`, and `ImplementsLeasedJobs`
   of C8).
3. *C8 reconstruction* (`ReconstructionJobs`, `ReconstructionStamps`), proved.
4. *C2 uploads* (`UploadSession`), *C7* (`CaptureSessions`).
5. *C12 and C13* over branches (`Specifications`, which implements
   `ProposedHistory`, the histories of `BranchHistory` that may begin as a
   proposal), *C11* (`Consultations`), *C1 and C3* (`HomeSetup`).
6. *Clients*: `EditorSession` over C5, `GuidedCapture` over C2 and C7.
7. *Pure decisions*: `HomeGeometry`.

Next:

- `EvidencePipeline`, the composition of uploads and processing (a completed
  upload becomes a ready or a rejected asset);
- the registration and the fusion analysis of C9, which choose among
  correspondences by exact rules, and the scene compiler's openings;
- *C7's device, the rest*: the RoomPlan packages' resumable synchronisation.

## 3. The models

`Rows` has the operators for tables (functions from identifiers to rows) the
other modules share.

In all of them a method that runs in one transaction under the lock of the rows
it depends on is one action, and one that reads before, or calls something
outside, is several, with the other actors in between. Refused requests roll
back and repetitions of an answered request only read, so both stutter, unless
a property is about them. Identifiers are UUIDs and a fresh one is an unused
one; SHA-256 of canonical JSON is injective, so a hash is its content.

### ModelBranches (C5)

`PostgresModelOperationRepository`, one model profile. The variables are its
tables: `snapshots`, `profile` (the pointer), `branches`, `commits` (keyed by
branch and revision, with the envelope), `previews`, `idempotency`, `outbox`;
`apiExpired` and `dbExpired` say which previews' `expires_at` has been reached
by the API host's clock (which `commit` reads) and by the database's (which the
cleanup reads).

Every mutating method runs in one transaction that starts by locking the
project row, so each is one action: `Initialize`, `CreateBranch`, `Preview`,
`CommitPreview`, `Restore`, `CleanupExpiredPreviews`. `PersistCommit` is
`#persistCommit`, shared by commit and restore. What a repetition answers is
`ReplayedResponse`. What remains concurrent is what clients know: a request
carries any revision and any hash its sender may have seen, current or not.

`Reduce` stands for `reduceModelOperations`, any function from contents and
operations to a content or to `Blocked`; nothing else is assumed of it.
Timestamps, labels and summaries are left out.

`EveryBranchReplays` evaluates `ReplayVerified`, the translation of
`replayModelOperationHistory` and of `verifyReplay`'s comparison, in every
state. `ReplayVerification` adds the command itself as it runs: without a lock,
in READ COMMITTED, reading the branch in one statement and the commits in a
later one.

`BranchHistory` is the abstract specification: a branch is an append-only list
of contents, each with the operations that made it of the one before, or taken
over from a history. `ModelBranches` maps `history` to the source and the
committed snapshots of each branch, with their envelopes (`EntryAt`).

### AssetProcessing (C2 processing)

The table `asset_processing_jobs` (`job`), the state of each job's asset, the
registered artifacts, the keys in the derived bucket, and for every worker
process what it is executing. `Enqueue` is the INSERT of `completeUpload`;
`Claim` and `RejectInvalidCommand` are `claim`, `CommitResult` is `complete`,
`CommitRetry` is `retry`, each one transaction on the locked job. `renew` is the
guard `Holds` of `Prepare`; its effect is to put the lapse of the lease off,
which any behaviour of `LeaseLapses` covers. The runner's `#execute` is the
phases `processing`, `writing` and `failing`, with one `Write` for each derived
object; `HeartbeatFails` sets `lost`, as the aborted `leaseController` does;
`Stop` is a crash, a shutdown or an error of `retry` itself. `Complete(w, FALSE)`
is a commit whose answer is lost.

The token of a lease and the moment of a claim are both the number of the claim
(`attempt_count`, incremented by every claim), and `processing_started_at` is
the first claim's. Derived keys are made of the content (`Key`): only the
manifest contains a time, `processing_started_at`. Inspection and transcoding
of media are the choice of an outcome.

### LeasedJobs, and the queues that implement it

`LeasedJobs` is what a queue promises of a job, whatever its stages: it is
worked on under one claim at a time; a cancelled or failed job may be tried
again a bounded number of times; what a finished job shows was made under its
last claim and never changes again. A step may move several jobs, since a
withdrawal ends all jobs of a source in one transaction. `View` and `Leased` of
each module are the refinement mapping. An asset of C2 has one attempt there: its
tries are claims of it, and a job that waits to be retried is still at work
(`Status`). A reconstruction of C8 shows the length of its attempts, the claims of
the last row and the result; what its transactions have only read is not shown.

The queues were written one after the other in the code, with different
columns, fences and stages, and the modules keep those differences:

- `RenderStills` (C14) has the admission of `claim_render_job`
  (migration 0014): an advisory lock is held between reading the reservations
  of a volume and adding one, so the claim is two actions, and every way an
  attempt ends must release its reservation. The runner asks for its stages in
  order, from the first, also after a reclaim. The enhancement child is a job
  of its own once its parent is published.
- `SceneJobs` (C10) puts the compiled GLB into the store before the publishing
  transaction; `Store` and `PublishScene` are two steps with the lapse of the
  lease, cancellations and other workers between them.
- `CaptureSessions` (C7) has the artifacts and their multipart uploads, the
  package, envelopes of several sessions, and the attempts of the RoomPlan
  worker on the same rows. The store acts although the transaction is rolled
  back (`CompleteArtifactUpload(s, a, FALSE)`). `ExpireOpenSessions` is the scheduled
  command.
- `PlanJobs` (C6) makes of every retry a row of its own, chained to the first by
  `root_job_id`. A draft is reduced on the branch as the service read it and
  stored later (`ValidateDraft`, `StoreDraft`), while commits move the branch.
- `OptionJobs` (C12) fences by token *and* by the version of the job that the
  attempt recorded; the job's version, the attempt's copy and the runner's copy
  are three variables.
- `FusionJobs` (C9) has rights of sources that end by `withdrawSource`, which
  ends their jobs, or elsewhere, of which C9 learns at its next check. An
  exception that leaves `FusionProcessingRunner.run` ends the process
  (`ClaimWithoutRights`), which is then restarted (`Restart`). Reviews are numbered; a decision names
  the review it was made on, and a draft the decisions and the head.

### UploadSession (C2 uploads)

`PostgresAssetBackend` and the object store behind it. The rows are `session`,
`asset`, `recorded` (declared part checksums) and `jobs`; the store is `upload`,
`stored` and `object`; `urls` are the signed part URLs clients hold; `inflight`
are store requests whose sender has given up and that may still take effect.
Two clocks again: the API's and the one of the cleanup. Each handler comes as an
action that commits and one whose rows are rolled back after the store may have
acted (`CompleteFails`, `AbortFails`, `CleanUpFails`, `CreateFails`). `Recovers`
is the branch of `completeMultipartUpload` that takes NoSuchUpload with a HEAD
of the right size for a completion that happened before. When the store has
completed and the rows are rolled back, a later abort or cleanup takes the same
error for success: the session then ends aborted or expired while its source
object exists, which the model has and no property forbids. The store itself is
not in the repository; it is modelled from the calls `s3.ts` makes and the
errors it expects.

### ReconstructionJobs (C8)

`PostgresReconstructionRepository` and the `ReconstructionProcessingRunner` of
every spatial worker. The tables are `job`, `attempts` (a sequence of rows per
job), `results` and, in `withdrawal`, the rows of withdrawn rights; the open
transactions are in `user` (a creation or a retry), `withdrawal` (its phases
before `committed`) and `worker` (`claiming`, `committing`); the rest of
`worker` is the local state of `#process`.

A method is one transaction. Where what it writes depends only on rows it has
locked, it is one action (`Cancel`, `Advance`, `FailAttempt`, `Acknowledge`).
Rights withdrawals are covered by no lock of their readers, so the methods that
read them are two actions each (`CreateReads`, `CreateCommits`; `RetryReads`,
`RetryCommits`; `ClaimReads`, `ClaimCommits`; `PublishReads`, `PublishCommits`),
between which a withdrawal may commit. `withdrawSource` is three:
`WithdrawInserts`, `WithdrawSelects` (the jobs its snapshot shows) and
`WithdrawCommits`, which waits for their locks; PostgreSQL then evaluates the
WHERE of the SELECT again on the current rows (`ToWithdraw`). `Locked` is the
FOR UPDATE of the job's row, which delays the other writers, or makes
`claimNext` skip the job. Any open transaction may roll back, which covers lost
connections and the transactions PostgreSQL aborts to break the deadlocks that
the opposite lock orders of workers and users allow.

`HeartbeatEnds` is the heartbeat that finds the cancellation, finds no lease or
cannot be reached; a successful one only puts `LeaseLapses` off. `Throws` is
anything that makes `#process` reach its catch, `Crash` a process that stops.
`Advance` and `PublishCommits` have a variant whose answer is lost.
The job is chosen among the candidates in any order, a superset of
`ORDER BY created_at`.

`ReconstructionStamps` is the `updated_at` of a job and of its attempt: two
triggers demand that every update move them forward, `nextTimestamp` computes
them from a host's clock and from a previous stamp that is the job's, the
attempt's, the later of the two or none, depending on the method.

### Specifications and ProposedHistory (C12 confirmations, C13)

From an option to a specification. `profile`, `branches` and their contents are
those of the proposed model; C5 edits the same branches (`Edit`). A content is
the list of the changes that made it of the derived base, so that two branches
with the same elements in another order differ, as their hashes do. The
mutations run under the project's lock and are one action each;
a confirmation is three steps of the service: the transaction
(`ConfirmSubstitution`), the request for a scene (`RequestScene`) and the link to
it (`RecordRequested`, `RecordRetryRequired`), and another request for the same
confirmation (`ConfirmAgain`, `RetryScene`) may be between any two of them.

One instance of the module, `Specs`, is of all the jobs, options and calls;
`SpecificationsNext` takes those of the size explored (`pairs`, `previews`,
`races`), so that what is proved of the instance holds of each.

`ProposedHistory` extends `BranchHistory`: a branch may begin as a proposal, with
operations on a content of its own. `Specifications` and `Consultations`, whose
brief is one branch, both implement these histories.

### Consultations (C11)

The brief, its revisions and acceptance; sessions, their messages, turns and
proposals; the keys of repeated requests. A turn is two actions, `SubmitTurn`
and `AppendTurn`, around the call of the model, whose answer is a choice. The
kernel's patches are applied to the entries as the code does, with the check of
the revision, the acceptance and the expiry by time.

### EditorSession (editor core and its workspace)

The session of `packages/editor-core` (head, pending commands, undo and redo
stacks, preview), `busy` of the workspace, one request in flight, and the branch
of C5 with the entries of others. The buttons are disabled while a request is in
flight; the forms of the inspector are not, so `AppendCommand` is always
possible. An
answer may be lost before, while or after the server acts.

### HomeSetup (C1, C3)

The intake with its revision, the property with its version, the dossiers with
theirs, the three tables of idempotency keys and the home workspace. A client
asks once with a key; what it asked may reach the server late, repeatedly or
never. `ReadDossier` reads the dossier that `Initialize` uses in a later
transaction.

### HomeGeometry

What `packages/geometry-kernel/src/validator.ts` decides in the plane, each
decision beside a definition of what its finding means: intersection of
segments, simple paths and boundaries, rounds of walls, overlapping openings,
lengths; and C13's point in polygon. A figure grows by a point, a wall or an
opening at a time and is validated at every size.

### GuidedCapture (C7 on the device)

The model behind the screen of the guided capture, the protected journal and
what the server has: session, RGB assets, envelope. `draft` is in memory and
`journal` on disk; `state` is the screen; `running`, `armed` and `runs` are the
camera, each run with its own world origin; `task` has everything the model
awaits, and `active` the one task it can cancel. Each continuation after an
`await` is an action of its own, with the check (`assertCurrent`, `Fine` here)
where the code has one and without it where it has none: after the saves of the
session, the depth receipt and the acceptance the code goes on unchecked. The
app may be killed between any two steps (`Relaunch`), the screen left and
opened again (`Activate`), the camera interrupted, the answer of a request
lost after it was carried out (`AnswerLost`), and whatever is awaited may fail.

Three assumptions are in the module. The journal is an actor and is taken to
serve its callers in the order of their calls (`turn`). The person is slower
than the journal, the camera and the task that a tap starts (`Local`), though
not slower than the server; and a cancelled request ends before the person's next
tap, as URLSession reports a cancellation at once (`UserStep`). Section 6 says what
happens without the last. Checks of the sources, which only read, are made one
at a time.

## 4. What the runs check and show

All bounds are CONSTANTS of the cfg files or definitions of the MC modules.
Deadlock is not checked in any run: bounded identifiers run out, and a system
without requests rests.

| Run | Instance | Result |
|---|---|---|
| `model_branches` | 2 users, 5 keys, 4 snapshots, 2 branches, 2 previews, 2 contents, 2 operations | passes, 342 315 states |
| `reconstruction_jobs` | 2 workers, 1 job, 2 assets, 2 attempts, 1 mishap per attempt | passes, 1 894 772 states |
| `leased_queues` | 2 workers on one of seven queues | passes, 833 359 states |
| `queues_drain` | 1 worker on one of eight queues or sessions, fairness | passes, 66 506 states |
| `records` | one of thirteen parts | passes, 1 439 347 states |
| `preview_cleanup` | 2 snapshots, 1 branch, 2 previews, 4 keys, fairness | **violated**: `ExpiredPreviewsGo` |
| `verify_under_commits` | 2 branches, 1 preview, 3 keys | **violated**: `IntactHistoryIsVerified` |
| `exhausted_jobs` | 1 worker, 1 job, 2 attempts, fairness | **violated**: `ExhaustedJobsFail` |
| `cancel_after_heartbeat` | 2 hosts, times 0..`MaximumTime` | **violated**: `CancellationsPass` |
| `reclaimed_renders` | as `leased_queues` | **violated**: `ReclaimedRendersResume` |
| `option_cancellations` | as `leased_queues` | **violated**: `AcknowledgementsCancel` |
| `withdrawn_fusions` | as `queues_drain`, fusions only, fairness | **violated**: `WorkWithoutRightsEnds` |

*`model_branches`.* The two contents are toggled by one operation, so a head
hash comes back after two commits and only the revision betrays the lost update
(the run fails when the revision comparison is dropped). The other operation is
blocked on one of the contents. Five keys are enough for an initialisation, two
previews and two commits that conflict, or for a branch, a restore and a preview
between them; four snapshots for a commit on each branch after the import and a
restore. Keys are interchangeable until used and are taken in order
(`KeysInOrder`), users are symmetric. Checked: every branch replays
(`EveryBranchReplays`), commits form one chain (`HistoryIsOneChain`), a commit
follows the revision and hash its sender named
(`CommitsFollowWhatTheCallerSaw`) and is what its preview showed, once
(`CommitsAreTheirPreviews`), versions are gap-free and the pointer newest across
branches (`ProfilePointsToNewest`), every commit is in the outbox and has its
one key (`CommitsAreOnRecord`, of `EventsMatchHistory` and
`EveryCommitHasItsKey`), the answer to a repeated commit is stable
(`CommitReplaysAreStable`), and the whole implements `BranchHistory`
(`ImplementsBranchHistory`).

*`reconstruction_jobs`.* Two workers, of which one may be late; two attempts,
so that a late worker meets a newer attempt; `MaximumMishaps` bounds the claims
of an attempt that end without the worker's word (with one, a job is reclaimed
once per attempt, so two executions of one attempt and one of the next can
coexist). The job's appearance is optional, for the longer path of stages.
Checked: job and attempt rows tell one story (`RowsAgree`), a job is published
if and only if it has its one result (`ResultsArePublished`), a publication
still has its lease when it commits (`PublicationsHoldTheirLease`; it fails when
a row lock is dropped), a worker that holds the lease is at the row's stage
(`HolderIsInStep`), no handler ever asks for a transition that the triggers
refuse (`TriggersNeverRaise`), and once the rights are lost no lease and no
result comes any more (`RightsStayLost`), where the exception it makes for
transactions that had read before is stated in `RightsLost`; and the queue
implements `LeasedJobs` (`ImplementsLeasedJobs`): although transactions read first
and write later, none reopens a job, claims one that is over or was asked to stop,
or publishes but for the last claim of the attempt at work.
The job has two sources, so that two withdrawals may
select it and the second find it ended (without the re-evaluated WHERE,
`ToWithdraw`, the rows come to disagree).

*`leased_queues`.* The queues share no table and no worker, so a behaviour of
them all is one of each; the initial state chooses the queue that is used and
the others rest, which loses nothing and keeps the run small. Two workers are
enough for a late holder and a second claim, since a worker that stopped may
come back for the third; in `AssetProcessing` both have the same name, as the
default of `C2_WORKER_ID` gives them, so that the token alone fences. Sizes: C2
two jobs (one with an invalid command), three attempts; C14 two jobs on one
volume with room for one or for both, two attempts of two tries, one mishap;
C10 one job, three attempts, two mishaps; C7 a session with two artifacts and
two attempts; C6 a chain of one root with one revision of the branch; C12 one
job, two attempts, two mishaps; C9 one job with a source that may lose its
rights, two discrepancies, two attempts, two reviews. Checked: only the last
claim decides what becomes of a job (a part of `QueuesImplementLeasedJobs`), and one
execution at most still holds it (`OneHolder`); asset and job agree
(`AssetFollowsJob`), a ready asset has all its artifacts
(`ReadyAssetsAreComplete`), repeated executions write the same objects
(`RetriesWriteTheSameObjects`); disk is reserved for exactly the attempts that
run, and never more than was measured (`ReservationsFollowLeases`); a published
scene is in the store (`ScenesAreStored`), and a worker that holds a scene's
lease is never refused a stage (`HolderMayHeartbeat`); a capture's package is
whole, its uploads closed, and session and attempt agree
(`PackagesAreComplete`); a plan's draft is the reduction of the head it names
(`DraftsFitTheirBase`); a settled job stays as it is (`SettledForGood`); and
the queues of C2, C14, C10, C7, C6, C12 and C9 implement `LeasedJobs`
(`QueuesImplementLeasedJobs`).

*`queues_drain`.* The queues of C2, C14, C10, C7, C6 and C9 with C8 and the
upload sessions of C2: one worker, one or two jobs or sessions, one mishap per
attempt, under fairness.
The initial state again chooses one of them; no action of the others is ever
enabled, so their fairness asks nothing. Checked: everything opened is ended
(`QueuesDrain`, which names its two exceptions: the asset whose last attempt
ended without an answer, and the fusion whose rights ended elsewhere, both shown
real by the runs `exhausted_jobs` and `withdrawn_fusions`), and cancelled or
withdrawn reconstructions end (`CancellationsEnd`).

*`records`.* The parts that are not queues, one at a time as above:
two clocks that run apart by up to `MaximumTime` = 5 ms (only differences
matter, and one millisecond decides); two upload sessions, of two parts and of
one, with two checksums, for the cleanup that ends several in one transaction,
the part that is missing and the one declared twice; capture envelopes of two sessions under withdrawals;
specifications of two options (`pairs`), of two previews of one (`previews`) and
with requests that race for a scene (`races`), with edits by C5 between them; a
brief of one entry with two sessions and two clients (`talks`) and of two
entries with one of each (`briefs`), three revisions and four keys; the editor
with two commands and two revisions of other people; the home with four keys
and counts up to two; the geometry on a grid of three by three with paths of up
to five points, four openings and rooms of up to six corners (every way two
segments can meet occurs on it; a grid of four by four with paths of four
points was checked besides). The guided
capture has two keyframes, one of them with depth, two rooms, two segments,
three tasks under way and two launches or visits: enough for a submission that
is cancelled while its continuation is still to come, a second one, and a
relaunch in between. Checked:

- `StampsPass`: no update of a worker is refused for its stamp;
- `CompletedUploadsAreStored`: a completed upload is in the store as declared;
  `EndedUploadsStayClosed`: an ended session has no open upload, its job and
  asset agree, and late requests change nothing;
- `ShownEnvelopesHold`: whatever of a capture may be shown is still stored and
  permitted, its packages with their one result;
- `SpecificationsDescribeTheirModel`: a specification, its revisions and its
  substitutions are those of the head they name, across edits and other
  confirmations; `SceneLinksAreTruthful`: a confirmation links to a scene
  only of its own head;
- `RevisionsAreWhatWasAsked`: every revision of a brief is an update or a
  confirmed proposal, applied to the revision its sender was shown, once;
- `CommandsAreKeptOnce`: a command of the editor is pending, undone or in the
  branch, at most once, and leaves the session only by a commit, a load or the
  person's own doing;
- `SetupIsWhatWasAsked`: intake, properties, dossiers and the workspace are made
  of requests that were asked, each once, in the place they were asked for;
- `FindingsAreRight`: the algorithms on paths and on walls agree with the
  definitions beside them;
- `CapturedEvidenceIsKept`: what the screen counts as retained is in the
  journal, views of one segment come from one run of ARKit, and what the app
  takes for accepted is, entire, what the server accepted;
- `ImplementsBranchHistory`: confirmations and brief revisions implement
  append-only histories.

Fairness. Nothing is assumed of users, cancellations, heartbeats, failures,
withdrawals or of a lease that is being executed. What is assumed is what the
code schedules: every runner's loop goes on (its subprocesses and requests have
deadlines; failures are actions of their own, of which nothing is assumed,
neither that they happen nor that they stop) and polls again; a lease that no
execution renews lapses; retries become due. In addition, of
`ReconstructionJobs` strong fairness of `ClaimCommits` (a claim that rolls back
is started again, not for ever), of `RenderStills` strong fairness of the second
half of the claim (the advisory lock is released by every holder) and a volume
with room for every job; of `CaptureSessions` the scheduled command `expire`
(`c7.ts:273`) and of `UploadSession` the scheduled `cleanup-expired`, which the
runbook requires and which once succeeds for all expired sessions together; of
`FusionJobs` that a process that ended is restarted (`FusionsSpec` of
`QueuesDrainMC`). `CleanedSpec`, of `preview_cleanup`, assumes `cleanup-previews`
is run again and again. The other modules state no fairness, as nothing in them
must happen.

## 5. What is proved

For every value of the constants, checked by TLAPS.

`ModelBranchesProofs` assumes `ReduceAssumption` (the reducer is a function into
contents and `Blocked`, which is no content) and `NoneAssumption` (an absent
reference is no identifier). The inductive invariant `IInv` has, beside
`TypeOK`: references lead to rows (`ReferencesOK`); the commits of a branch are
those of its revisions and no other (`CommitKeysOK`), which is what makes the
new key of a commit fresh; parents and head form a chain (`ChainOK`); every
envelope replays (`EnvelopesOK`); a preview is recorded with its key, so that its
identifier is never given out again, its base is what its branch was at and its
result the reduction (`PreviewsOK`); and the two properties about callers and
previews themselves. The step is one lemma
per handler; the two that persist a commit share lemmas on `PersistCommit`. From
`IInv` follow `TypeOK`, `HistoryIsOneChain`, `EveryBranchReplays`,
`CommitsAreTheirPreviews` and `CommitsFollowWhatTheCallerSaw`.

What the tables beside the commits say is a second invariant over the first,
`RecordsInv`: the versions of the snapshots are 1 to the profile's
(`ProfilePointsToNewest`), every commit has one event and one key, an
initialisation is answered with a snapshot there is, and every snapshot is one
some branch was at, without which a key of one commit could answer with the
snapshot of another. For both this invariant and the refinement all that
matters of a step is which of four kinds it is (`HistoryStep`: a profile begins,
a commit is appended, a branch is created, or no history changes): the handlers
are shown to be of a kind once, and `CommitsAreOnRecord`,
`CommitReplaysAreStable` (an action property) and `ImplementsBranchHistory` (each
kind is a step or a stutter of `BranchHistory`) follow from the kinds.

About `AssetProcessing` `LeasedQueuesProofs` assumes `JobsAssumption` (at least one
attempt, worker names are names, `ready` is an outcome, absent values are neither).
`IInv` adds:
a lease is that of the last claim (`LeasesAreOfTheLastClaim`); an execution's
token is a claim made before, and two executions of a job have different ones
(`ExecutionsAreClaims`), which with the token comparison gives `OneHolder`; an
object in the bucket has the start of its job in its key (`ObjectsAreDue`),
which gives idempotency; what is registered is what a ready result lists
(`RegisteredAreReady`). Its invariants and the action property
`SettledForGood` are theorems.

`RecordsProofs` proves of `ReconstructionStamps`, for any hosts and clocks, that the
job's row is never stamped later than its attempt's (`JobNeverAheadOfItsAttempt`,
which is inductive with the types: only heartbeats write one row without the
other), and
hence that the triggers refuse no stamp of a worker (`StampsPass`): the methods
that look at the attempt alone are right to.

Of `UploadSession` (the instance `Upload` of `Records`) it assumes that every
upload has a part (`UploadConstants`; `expectedPartCount` refuses a plan without).
A completed session cannot be known to be in the store from the rows alone: the
store may have completed, or may still complete, what a rolled back handler
asked. The inductive invariant says of what: an object and a completion in
flight are of exactly the recorded checksums of all the parts
(`UploadObjectsAreDeclared`). When all the parts are declared no declaration can
change, so it stays so. With that a session has an upload at the store and a
completed one its object (`UploadSessionsAgree`), and `CompletedUploadsAreStored`,
`JobsAreForCompletedUploads`, `EndedUploadsAreClosed` and the action property
`EndedOnce` follow. A step that writes no row is shown once to keep the
invariant if the provider only moved forward (`UploadProviderAlone`): that covers
every handler that is rolled back and every late request.

Of `HomeSetup` (the instance `Setup`) it assumes that the absent reference is no
key and no request (`SetupConstants`). That a key makes one thing, as it was
asked, and an address one property is inductive with the types: a transaction
makes one thing more with its key and none with another (`SetupMakesOne`), and a
claimed key has made none (`SetupOneThingMore`); the tables differ only in where
they keep it. A refresh keeps the properties there are and adds to the dossiers
of the last, which is why a delayed one must be claimed and not only expect the
right version.

Of `EditorSession` (the instance `Editor`) it assumes that the absent reference is
not the origin of a command (`EditorConstants`). `CommandsCommitOnce` follows from
the unique constraint at each of the three ways onto the branch. That no command is
lost is not seen in one step, since what a session gives up was sent two requests
before: `EditorIntentIsCovered` says that the preview, the request for it, and the
commit of it each name all that is pending (`EditorCovers`) but for what was
appended beside a request; that a commit that was answered is on the branch; and
that nothing calm is pending when the branch is loaded after it. With these
`IntentStep` holds of every step.

At its end `RecordsProofs` brings these, and the theorem on envelopes, to the
system of the records: `StampsPass`, `CompletedUploadsAreStored`,
`EndedUploadsStayClosed`, `ShownEnvelopesHold`, `SpecificationsDescribeTheirModel`,
`SceneLinksAreTruthful`, `SetupIsWhatWasAsked`, `CommandsAreKeptOnce`,
`CapturedEvidenceIsKept`, `RevisionsAreWhatWasAsked` and `ImplementsBranchHistory`
are theorems of `RecordsSpec` as the run states them.

The specifications, in the same module, assume that every option is of a job
(`SpecificationConstants`, one of `RecordsConstants`). `SpecIInv` has a part for
C5's tables, one for the specifications, one for previews and one for links. A
snapshot is numbered by its branch and revision, and a branch has all of its own
and its head last (`SpecSnapshotsInv`, `SpecBranchesInv`); none is ever changed
(`SpecModelGrows`), so that a snapshot pinned once holds for good what it held. The first
snapshot of a branch has the option's own asset (`SpecFirstsInv`), which is what a
new specification says. A confirmed preview
is the revision after the one it was made on, and its snapshot the preview's base
and one change (`SpecIsConfirmed`). Links, scenes and requests under way are of
confirmed previews, and who is about to record a link knows that the scene is there
(`SpecLinksInv`). That a commit is a step of `ProposedHistory` needs the entry
before it to be on the branch, which `SpecBranchInv` says of every revision. The
brief implements the same histories, and `RecordsAreHistories` is about both.

`ConsultationsProofs` assumes nothing of the constants. `IInv` has a part for the
brief, one for the sessions and one for the clients, which meet in `Confirm`. An
effect that made a revision was asked for on the one before it, and no two
effects made the same (`EffectsMadeRevisions`); what is accepted is on record and
never beyond the latest (`AcceptedAreOnRecord`). Of a session (`SessionInv`): its
proposals are numbered by its turns, only the last can be pending, only while the
session is active, and each has the session's base, so that the revision a
confirmation makes is the one after it. What a client's request has read may be
stale by the time it is used, and all the invariant says of it is that the rows are
still there: the transaction checks the rest again. Every step makes a revision or
is quiet (`StepsOfTheBrief`), which gives the refinement of `ProposedHistory`. In
the records the brief is one of two instances (`Talks`, `Briefs`), and
`BriefsIInv` is the invariant of the one that runs.

`GuidedCaptureProofs` assumes that tasks are finitely many, as their places in the
journal's queue are counted, and that the absent reference is no task and no row
(`GuidedConstants`). What the properties say of the screen is made good, or
broken, by continuations that come later with a draft of their own; so `IInv`
says of every task what it may still find when it goes on:

- wherever a draft is, in memory, in the journal or with a task, its segments
  are each of one run of ARKit and its acceptance is of all of it (`DraftsInv`,
  `TasksInv`);
- the journal's callers have different places, from the first (`PlacesInv`); a
  frame that is retained goes last, submissions and transitions wait alone, and
  what a screen that is gone left behind comes before the load of the next
  (`QueueInv`, `LoadsInv`). Order is all that keeps an old draft out of a journal
  that has a newer one;
- who is at work beside whom: a frame that was not given up is of the run and the
  segment there are, a transition or a submission is alone on the screen and the
  camera off (`NowInv`, `ScreenInv`); beside an accepted draft nothing is saved
  any more (`AcceptedInv`);
- what the screen has counted is in the journal and in every draft that will
  still be saved there (`ProtectedInv`), and so is what is being submitted, or
  was, though the screen may have gone in between (`SentInv`): what is said of the
  envelope's views stays true because none of them is ever taken anew.

TLC checked `IInv` on the instance of the run before it was proved. Each action is
shown to keep it part by part; the continuations that only end, and the ways
they fail, share lemmas on the queue when its first leaves. Hence
`RetainedIsProtected`, `SegmentsAreNeverJoined` and `AcceptancesAreTheServers`.

`ReconstructionJobsProofs` assumes `ReconstructionAssumption`. Its types and
the properties of the run `reconstruction_jobs` are theorems. None of them
is inductive, since transactions are open over several steps; `IInv` adds

- the row lock of a job has one holder (`LocksInv`), and two executions never
  have the same lease (`LeasesInv`), because tokens are claims already counted;
- what each open transaction has checked and may rely on: a creation that the
  job is absent, a retry that it is retryable, a claim that it is a candidate, a
  publication that its lease is current (`UserInv`, `WorkerInv`), and that a
  runner with a current lease is at the row's stage;
- how the row of a job, its latest attempt and the lease columns fit
  (`RowsInv`), and which results a job has (`ResultsInv`).

A step writes the rows of few jobs. It leaves the rows of the jobs others have
locked (`Kept`) and gives no runner a lease it did not have (`Fenced`), and then
what the other transactions rely on survives (`Undisturbed`): each handler is
shown to be of that kind, and its own transaction is treated apart. The one
exception is `Advance`, which moves the stage of a live lease, and which only
the one execution with that lease can take. `RightsStayLost` and
`TriggersNeverRaise` are about steps: for each handler, from `IInv`, the
transition of every row it writes. So is `ImplementsLeasedJobs`: a write of the two
rows of a job shows a step of `LeasedJobs` (`ShownWrite`), what is written is what
the transaction had locked or has found again, and the other jobs show nothing.

`RenderStillsProofs`, `CaptureSessionsProofs` and what `LeasedQueuesProofs` says of
`SceneJobs` (its instance `Scenes`) assume what `RenderConstants`,
`CaptureConstants` and `SceneConstants` say: at least one attempt, job numbers that
are numbers, a volume for every worker. `LeasedQueues` assumes the same of its
instances of these modules (`QueueConstants`), where TLC evaluates it. In each of
them the invariant (`IInv`, `SceneIInv`) says that the job's row and that of its
last attempt go together, state by state, that a row with a token has the token
of its last claim, and that a worker's claim is one of the claims so far. With these the comparison of tokens
fences: a worker whose token is the row's has the last claim. Beside that

- of scenes: two workers never have the same claim, a worker about to publish
  has put its GLB, and as long as it is the last, a worker's claim and the row are
  at the same stage. Hence `ScenesAreStored` and `HolderMayHeartbeat`;
- of renders: there is one reservation for every job in use, and no other, and
  the candidate an admission has read under its locks stays a candidate, of no
  other admission, until it is written or rolled back (`CandidatesStay`). Hence
  `ReservationsFollowLeases`. That the estimates of a volume's reservations fit
  its free bytes (`DiskIsNotOverbooked`) is about sums over sets of any size:
  `CountingUp` and the lemmas after it (`WeightsAgree`, `BytesOfTheOthers`,
  `BytesOfFewer`) do by hand the induction that the prover has not, on the
  elements counted up so far. `DiskInv` is its invariant. It holds although an
  admission never compares with the estimates of the others' full footprints,
  because an estimate is at most half the floor that stays free
  (`DiskConstants`: the column's check, 2^31, against 15 GiB);
- of captures: what a transaction may do to a session's state and attempts is
  one of a few moves (`Move`): the session changes alone, an attempt is queued, or
  the last attempt is leased, lapses, is asked to stop or ends with it. Each
  handler is shown to make only moves; that they keep the agreement, the claims
  and the results is shown once. `UploadsAgree` and `EnvelopeAgrees` say the rest:
  packages are of the completed artifacts, sources of envelopes are done and stay
  so. Hence `SessionFollowsAttempt`, `PackagesAreComplete` and
  `ShownEnvelopesHold`.

About `FusionJobs`, `PlanJobs` and `OptionJobs` (all in `LeasedQueuesProofs`, whose
theorems are of the instances `Fusions`, `Plans` and `OptionQueue`) the proofs go by transitions: a handler is shown to move the row
of a job, with that of its attempt, by one of a few (queued again, claimed,
advanced, asked to stop, lapsed, closed, done), or not at all; that transitions
keep `IInv` and that each is a step of `LeasedJobs` or shows nothing is shown
once. All that is assumed is that there is an attempt (`FusionConstants`,
`PlanConstants`, `OptionConstants`). Beside rows and leases

- of fusions: proposals are of jobs that ended with one, and no decision or
  draft is ahead of the version of its review, so that a later decision is never
  one a draft should have had. Hence `DraftsFollowTheReview`;
- of plans: every attempt of a chain but the last is one that may be followed,
  the order of creation, from which the oldest is claimed, names attempts there
  are, an attempt has one result and its state, and what has been validated is of
  a proposal. Hence `DraftsFitTheirBranch`;
- of options: a retry whose inputs were verified for a version of the job finds
  the job in the state it had, or at a later version (`RetriesAgree`).

All of them implement `LeasedJobs`, and so do C2 and C8: `View` is the refinement
mapping, and every step moves each job's view by a step of `LeasedJobs` or not at
all. Of C2 a step is shown to create, claim, finish or end a job, or to show
nothing of it (`JobMoves`), of which the refinement follows. An output names the
last claim because whoever publishes holds the row's token. A root of `PlanJobs`,
with its chain of attempts, is one job there.

`LeasedQueuesProofs` brings these results to the system of the queues: a
behaviour of `QueuesSpec` is one of each queue (`RendersRun`, `ScenesRun` and the
others), so that what holds of the queue holds here, as the run states it. All
the invariants of the run `leased_queues` and its two properties are theorems.

Type correctness of these sixteen components is proved rather than checked; the
MC modules do not list it.

Only model-checked: liveness (`QueuesDrain`, `CancellationsEnd`), which the
prover does not reach, and `FindingsAreRight` of `HomeGeometry`, which is about
functions on data of every size, for which the prover has no induction.

## 6. Disagreements found

Shown by runs:

- **Expired previews** (`preview_cleanup`). `cleanupExpiredPreviews` is one
  DELETE of all expired previews; commits refer to previews ON DELETE RESTRICT.
  After the first committed preview expires the command always fails, and no
  expired preview is deleted any more. The runbook and the C5 contract say
  expired previews can be deleted.
- **Verification** (`verify_under_commits`). `verifyReplay` can report that an
  intact history does not reproduce its head when a commit lands between its
  statements.
- **Exhausted jobs** (`exhausted_jobs`). A job whose last attempt crashes or
  loses its lease is never claimed again, nor failed: it stays leased and its
  asset in processing. The runbook says it becomes failed.
- **Cancellations after a heartbeat** (`cancel_after_heartbeat`). `#transition`
  stamps job and attempt with a time after the job's last stamp only. Heartbeats
  stamp the attempt alone, so that a cancellation within the heartbeat's
  millisecond, or from an API host whose clock is behind the worker's last
  stamp, is refused by the trigger on attempts and rolled back with an error;
  the runbook says it becomes `cancel-requested`. `publishResult` and
  `withdrawSource` share the defect: their transactions roll back the same way.
  `ReconstructionJobs` leaves the stamps out: such a refusal is there one of the
  rollbacks, or a cancellation that is not made.
- **Reclaimed renders** (`reclaimed_renders`). The runner's first heartbeat asks
  for `preparing`; a reclaimed attempt that was further on refuses it with an
  error that is not retryable, and the render fails for good.
- **Cancelled option jobs** (`option_cancellations`). The runner acknowledges
  with the job's version after the cancellation, the repository compares it with
  the version recorded in the attempt, which the cancellation does not touch:
  every acknowledgement is refused, and the job stays in `cancel-requested`.
- **Fusions without rights** (`withdrawn_fusions`). A claim that finds the rights
  gone fails the attempt without clearing its lease columns, which a constraint
  refuses for an attempt that was leased; the exception ends the process with
  all its runners, and the restarted process claims the same job.

Met while modelling, without a run of their own:

- Repetitions of `createBranch` answer with the branch as it is now, those of
  `preview` fail after the cleanup, though `c5-model-operations.md:64` promises
  the original response; for commit, restore and initialize it holds.
- A command appended in the editor while a preview is in flight is dropped when
  that preview is committed; `CommandsAreKeptOnce` states the exception.
- The first and the last segment of a wall path are never compared with their
  neighbours, so a path that doubles back at its end, such as (0,1),(0,0),(0,2),
  is accepted; the consistency of a room with its walls compares sets of
  vertices, so that walls in another order, or doubled, pass. The containment of
  a substituted product tests four corners, so that the notch of a concave room
  may cut its envelope, though the error says it "crosses its exact room
  boundary".
- A refresh of the dossier asked of one property may be executed on the next one
  selected, whose versions are the same numbers again; the home workspace may be
  linked to a property no longer selected, as the dossier is read before the
  transaction; the same key after a reselection is refused as a conflict.
- A consultation whose base revision moved on can only be cancelled.
- The guided capture sends its envelope under a key made of the session alone, with
  the times of reconciliation in its body: after a lost answer, or a "Pause safely"
  during the acceptance, a later envelope under that key is a conflict, whose
  message says "no envelope was accepted" (`C14_8GuidedCaptureModel.swift:1544`)
  although one was. The client can read the envelope but never does.
- After the saves of the session, of a depth receipt and of the acceptance the
  guided capture sets `draft` without a check: a save that ends after the person
  has opened another project puts the old draft into the new screen. If a
  cancelled request lingers past the person's next taps, its end can turn the
  screen of a second submission to the review, the camera be started again, and
  the draft go back to the old segment, so that views of two runs of ARKit share
  it.
- A keyframe whose save was under way when the app went to the background may be
  in the journal without its file, which the failure's clean-up removes: if the
  draft in memory, which has no such keyframe, is not saved any more, the capture
  can be reviewed and not submitted.
- `createDraft` that fails after the screen was left sets `failed` on whoever is
  there; a rejected frame sets `ready` after an interruption.
- `CaptureSyncEngine.swift:412` wants the artifact of an upload session to have
  the client's identifier, where `capture/postgres.ts` gives one of its own: a
  real upload of a RoomPlan package is refused at its first artifact.
- The evidence upload signs a part under keys that end in 0, 1 and 2 and begins
  again at 0 when it is resumed (`EvidenceRepository.swift:422`,
  `EvidenceService.swift:587`), and `signUploadPart` answers a known key with
  the stored answer and its old address: once three addresses of a part have
  expired, a resumed upload is only given those, until its session expires.

## 7. What is not modelled

Components without a module:

- *C4's own routes*: not composed where C5 is, whose `initialize` replaces them
  (`typedMutationCompositions`); canonicalisation and hashing are taken as
  injective.
- *C8, C9 and C12 numerical and generative stages*: media tools, reconstruction,
  registration and semantic fusion, the design engine and the model gateway, the
  inference worker: floating-point or external, and in the models a choice among
  the outcomes they report.
- *The scene compiler, catalog placement and Blender*: mesh generation and a
  subprocess, also outcomes.
- *C7's RoomPlan synchronisation on iOS*: its requests are accepted in any order by
  `CaptureSessions`, and its journal is left out. Of the guided capture: the
  selection of frames, coverage, diagnostics, the finding of RoomPlan packages,
  several projects, roles that change, files, and the times that the wire
  contract bounds.
- *Contracts, authorization, provenance, UI and the rest of the web
  application*: schemas, rendering, and workspaces that keep the state of a screen.
  Authorization is assumed to have admitted the actor, schemas to have accepted
  the payload.
- *The evaluation scripts of C8* (`ml/reconstruction`): images and scripts that
  run candidates on a workstation; no state that the services share.

Within modelled components: reads; audit, event and outbox rows where no
property is about them; `issueAccess` and the idempotency records of C2; rights
assertions, which are inserted with the session and never change; the geometry
of the reducer (a parameter); planes of surfaces, stairs and levels, and the
budget of comparisons, of the geometry validator; C13's price books, quantities
and exports; identities and the list of projects of C1; the clock of
`lease_expires_at` (a lease lapses at any moment).

Hazards that are known and have no property: the API-side queue
`modules/assets/processing-jobs.ts`, which no process of the repository runs; the
invalid-command branch of `claim` for a command that was valid when first
leased; a cleanup that aborts up to 100 uploads in one transaction, which one
failing abort rolls back; provider uploads orphaned by a crash before the session
row is committed; jobs that crash their worker, since reclaims are not counted; a
full volume whose oldest render blocks those that would fit; errors of a moment
that runners do not retry; the stamps of C6 and C14, whose triggers are like
those of C8; a failed scene job without a lease, and a scene cache keyed by
content; scene links left pending by a crash; substitution previews that keep
expired C5 previews from being deleted; repeated board selections; the opposite
lock orders of workers and users in C8, which PostgreSQL resolves by aborting
one; option and fusion jobs reclaimed past their first stage, which fail as
reclaimed renders do.

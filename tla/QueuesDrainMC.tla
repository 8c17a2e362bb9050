---------------------------- MODULE QueuesDrainMC ----------------------------
(***************************************************************************)
(* The liveness of the uploads and of the leased queues for TLC, with one  *)
(* worker: that they drain.  As in LeasedQueuesMC the initial state        *)
(* chooses which of them is explored.  No action of the others is enabled  *)
(* then, so that the fairness stated of them asks for nothing.             *)
(***************************************************************************)
EXTENDS Integers

CONSTANTS w1, u1, c1, c2, j1, a1, r1, r2, volume, scan, a, b, p1, p2, None

VARIABLES
    queue,
    session, asset, recorded, jobs, urls, apiExpired, cleanerExpired, upload, parts, object, inflight,
    asJob, asAsset, registered, derived, asWorker,
    reJob, reAttempts, reResults, withdrawal, user, reWorker,
    render, heads, reserved, results, enhancement, renderWorker,
    scene, sceneRow, stored, scenes, sceneWorker,
    capture, captureUpload, package, attempts, proposals, envelope, mediaWithdrawn, captureWorker,
    plans, created, planResults, branch, request, drafts, planWorker,
    fusion, fusionRow, withdrawn, ended, fusionProposals, version, decisions, fusionDrafts, fusionWorker

Workers == {w1}

Uploads == INSTANCE UploadSession WITH
    Sessions <- {u1}, PartsOf <- [s \in {u1} |-> {1, 2}], Checksums <- {c1, c2}, stored <- parts

AssetQueue == INSTANCE AssetProcessing WITH
    Owners <- {"spatial-worker-local"},
    WorkerId <- [w \in Workers |-> "spatial-worker-local"],
    Jobs <- {1, 2}, InvalidJobs <- {2}, MaximumAttempts <- 3,
    Kinds <- {"preview", "metadata-manifest"}, Manifest <- "metadata-manifest",
    Outcomes <- {"ready", "quarantined", "rejected"},
    job <- asJob, asset <- asAsset, worker <- asWorker

Reconstructions == INSTANCE ReconstructionJobs WITH
    Jobs <- {j1}, Assets <- {a1}, SourcesOf <- [j \in {j1} |-> {a1}], OptionalAppearance <- {},
    MaximumAttempts <- 2, MaximumMishaps <- 1,
    job <- reJob, attempts <- reAttempts, results <- reResults, worker <- reWorker

Renders == INSTANCE RenderStills WITH
    Jobs <- {r1, r2}, Volumes <- {volume}, VolumeOf <- [w \in Workers |-> volume],
    Estimate <- [j \in {r1, r2} |-> 1], Floor <- 15, FreeBytes <- {17},
    MaximumAttempts <- 1, MaximumTries <- 2, MaximumMishaps <- 1,
    job <- render, worker <- renderWorker

Scenes == INSTANCE SceneJobs WITH
    Jobs <- {1, 2}, MaximumAttempts <- 1, MaximumMishaps <- 1,
    job <- scene, row <- sceneRow, worker <- sceneWorker

Captures == INSTANCE CaptureSessions WITH
    Sessions <- {scan}, ArkitSessions <- {}, ArtifactsOf <- [s \in {scan} |-> {a, b}],
    MaximumAttempts <- 2, MaximumMishaps <- 1,
    session <- capture, upload <- captureUpload, results <- proposals, worker <- captureWorker

Plans == INSTANCE PlanJobs WITH
    Roots <- {p1, p2}, MaximumAttempts <- 1, MaximumMishaps <- 1, MaximumRevision <- 0,
    rows <- plans, results <- planResults, worker <- planWorker

Fusions == INSTANCE FusionJobs WITH
    Jobs <- {1}, SourcesOf <- [j \in {1} |-> {scan}], Discrepancies <- {},
    MaximumAttempts <- 2, MaximumMishaps <- 1, MaximumVersion <- 1,
    job <- fusion, row <- fusionRow, proposals <- fusionProposals, drafts <- fusionDrafts,
    worker <- fusionWorker

uploadVars ==
    <<session, asset, recorded, jobs, urls, apiExpired, cleanerExpired, upload, parts, object, inflight>>
assetVars == <<asJob, asAsset, registered, derived, asWorker>>
reconstructionVars == <<reJob, reAttempts, reResults, withdrawal, user, reWorker>>
renderVars == <<render, heads, reserved, results, enhancement, renderWorker>>
sceneVars == <<scene, sceneRow, stored, scenes, sceneWorker>>
captureVars ==
    <<capture, captureUpload, package, attempts, proposals, envelope, mediaWithdrawn, captureWorker>>
planVars == <<plans, created, planResults, branch, request, drafts, planWorker>>
fusionVars ==
    <<fusion, fusionRow, withdrawn, ended, fusionProposals, version, decisions, fusionDrafts, fusionWorker>>

vars ==
    <<queue, uploadVars, assetVars, reconstructionVars, renderVars, sceneVars, captureVars, planVars,
      fusionVars>>

Queues ==
    {"uploads", "assets", "reconstructions", "renders", "scenes", "captures", "plans", "fusions"}

Init ==
    /\ queue \in Queues
    /\ Uploads!Init /\ AssetQueue!Init /\ Reconstructions!Init /\ Renders!Init /\ Scenes!Init
    /\ Captures!Init /\ Plans!Init /\ Fusions!Init

\* The variables of the other queues stay as they are.
Only(name) ==
    /\ queue = name /\ UNCHANGED queue
    /\ name # "uploads" => UNCHANGED uploadVars
    /\ name # "assets" => UNCHANGED assetVars
    /\ name # "reconstructions" => UNCHANGED reconstructionVars
    /\ name # "renders" => UNCHANGED renderVars
    /\ name # "scenes" => UNCHANGED sceneVars
    /\ name # "captures" => UNCHANGED captureVars
    /\ name # "plans" => UNCHANGED planVars
    /\ name # "fusions" => UNCHANGED fusionVars

Next ==
    \/ Only("uploads") /\ Uploads!Next
    \/ Only("assets") /\ AssetQueue!Next
    \/ Only("reconstructions") /\ Reconstructions!Next
    \/ Only("renders") /\ Renders!Next
    \/ Only("scenes") /\ Scenes!Next
    \/ Only("captures") /\ Captures!Next
    \/ Only("plans") /\ Plans!Next
    \/ Only("fusions") /\ Fusions!Next

Spec == Init /\ [][Next]_vars

FairSpec ==
    /\ Spec
    /\ Uploads!Fairness /\ AssetQueue!Fairness /\ Reconstructions!Fairness /\ Renders!Fairness
    /\ Scenes!Fairness /\ Captures!Fairness /\ Plans!Fairness
    /\ Fusions!Fairness

\* C9 alone.
FusionsSpec ==
    /\ Spec /\ queue = "fusions"
    /\ WF_fusionVars(Fusions!RunnerStep(w1)) /\ WF_fusionVars(Fusions!Restart(w1))
    /\ WF_fusionVars(Fusions!Claim(w1) \/ Fusions!ClaimWithoutRights(w1))
    /\ WF_fusionVars(Fusions!Abandoned(1) /\ Fusions!LeaseLapses(1))

-----------------------------------------------------------------------------

\* No upload stays open and no job of a queue waits or is worked on for ever;
\* an asset's job may end without an answer when its attempts are exhausted,
\* and a fusion may hang when its rights end elsewhere.
QueuesDrain ==
    /\ Uploads!SessionsEnd
    /\ AssetQueue!JobsSettleOrStrand
    /\ Reconstructions!JobsEnd
    /\ Renders!ReservationsEnd
    /\ Scenes!ScenesEnd
    /\ Captures!CapturesEnd
    /\ Plans!PlansEnd
    /\ Fusions!FusionsEnd

\* A requested cancellation of a reconstruction ends, and so does all work
\* over a withdrawn source.
CancellationsEnd == Reconstructions!CancellationsEnd /\ Reconstructions!WithdrawnWorkEnds

\* A fusion without its rights ends: what its contract says and the code does
\* not do.
WorkWithoutRightsEnds == Fusions!WorkWithoutRightsEnds
=============================================================================

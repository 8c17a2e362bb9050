---------------------------- MODULE LeasedQueues ----------------------------
(***************************************************************************)
(* The leased queues of C2, C14, C10, C7, C6, C12 and C9 in one system.    *)
(* They share neither tables nor workers, so nothing is lost by exploring  *)
(* one at a time: the initial state chooses which, the others stay empty.  *)
(* Two are instances of the modules that prove theorems about them, so     *)
(* that the theorems are at hand for the system; the theorems of the other *)
(* five are in LeasedQueuesProofs.                                         *)
(***************************************************************************)
EXTENDS AssetProcessing

CONSTANTS
    JobsOf, AttemptsOf, MishapsOf,     \* Jobs, MaximumAttempts and MaximumMishaps of each queue
    Volumes, VolumeOf, Estimate, Floor, FreeBytes, MaximumTries,
    ArkitSessions, ArtifactsOf,
    MaximumRevision,
    SourcesOf, Discrepancies, MaximumVersion

VARIABLES
    queue,
    render, heads, reserved, results, enhancement, renderWorker,
    scene, sceneRow, stored, scenes, sceneWorker,
    session, upload, package, attempts, proposals, envelope, mediaWithdrawn, captureWorker,
    plans, created, planResults, branch, request, drafts, planWorker,
    option, optionRow, exact, asked, sets, optionWorker,
    fusion, fusionRow, withdrawn, ended, fusionProposals, version, decisions, fusionDrafts, fusionWorker

assets == vars
renders == <<render, heads, reserved, results, enhancement, renderWorker>>
scenesVars == <<scene, sceneRow, stored, scenes, sceneWorker>>
captures == <<session, upload, package, attempts, proposals, envelope, mediaWithdrawn, captureWorker>>
plansVars == <<plans, created, planResults, branch, request, drafts, planWorker>>
options == <<option, optionRow, exact, asked, sets, optionWorker>>
fusions ==
    <<fusion, fusionRow, withdrawn, ended, fusionProposals, version, decisions, fusionDrafts, fusionWorker>>

Renders == INSTANCE RenderStillsProofs WITH
    Jobs <- JobsOf["renders"], MaximumAttempts <- AttemptsOf["renders"],
    MaximumMishaps <- MishapsOf["renders"],
    job <- render, worker <- renderWorker

Scenes == INSTANCE SceneJobs WITH
    Jobs <- JobsOf["scenes"], MaximumAttempts <- AttemptsOf["scenes"],
    MaximumMishaps <- MishapsOf["scenes"],
    job <- scene, row <- sceneRow, worker <- sceneWorker

Captures == INSTANCE CaptureSessionsProofs WITH
    Sessions <- JobsOf["captures"], MaximumAttempts <- AttemptsOf["captures"],
    MaximumMishaps <- MishapsOf["captures"],
    results <- proposals, worker <- captureWorker

Plans == INSTANCE PlanJobs WITH
    Roots <- JobsOf["plans"], MaximumAttempts <- AttemptsOf["plans"],
    MaximumMishaps <- MishapsOf["plans"],
    rows <- plans, results <- planResults, worker <- planWorker

OptionQueue == INSTANCE OptionJobs WITH
    Jobs <- JobsOf["options"], MaximumAttempts <- AttemptsOf["options"],
    MaximumMishaps <- MishapsOf["options"],
    job <- option, row <- optionRow, worker <- optionWorker

Fusions == INSTANCE FusionJobs WITH
    Jobs <- JobsOf["fusions"], MaximumAttempts <- AttemptsOf["fusions"],
    MaximumMishaps <- MishapsOf["fusions"],
    job <- fusion, row <- fusionRow, proposals <- fusionProposals, drafts <- fusionDrafts,
    worker <- fusionWorker

\* What the theorems about these queues assume of their constants.
ASSUME QueueConstants ==
    /\ Renders!RenderConstants /\ Renders!DiskConstants
    /\ Scenes!SceneConstants
    /\ Captures!CaptureConstants
    /\ Plans!PlanConstants
    /\ OptionQueue!OptionConstants
    /\ Fusions!FusionConstants

QueuesInit ==
    /\ queue \in {"assets", "renders", "scenes", "captures", "plans", "options", "fusions"}
    /\ Init /\ Renders!Init /\ Scenes!Init /\ Captures!Init /\ Plans!Init /\ OptionQueue!Init
    /\ Fusions!Init

AssetsNext ==
    /\ queue = "assets" /\ Next
    /\ UNCHANGED <<queue, renders, scenesVars, captures, plansVars, options, fusions>>

RendersNext ==
    /\ queue = "renders" /\ Renders!Next
    /\ UNCHANGED <<queue, assets, scenesVars, captures, plansVars, options, fusions>>

ScenesNext ==
    /\ queue = "scenes" /\ Scenes!Next
    /\ UNCHANGED <<queue, assets, renders, captures, plansVars, options, fusions>>

CapturesNext ==
    /\ queue = "captures" /\ Captures!Next
    /\ UNCHANGED <<queue, assets, renders, scenesVars, plansVars, options, fusions>>

PlansNext ==
    /\ queue = "plans" /\ Plans!Next
    /\ UNCHANGED <<queue, assets, renders, scenesVars, captures, options, fusions>>

OptionsNext ==
    /\ queue = "options" /\ OptionQueue!Next
    /\ UNCHANGED <<queue, assets, renders, scenesVars, captures, plansVars, fusions>>

FusionsNext ==
    /\ queue = "fusions" /\ Fusions!Next
    /\ UNCHANGED <<queue, assets, renders, scenesVars, captures, plansVars, options>>

QueuesNext ==
    \/ AssetsNext \/ RendersNext \/ ScenesNext \/ CapturesNext \/ PlansNext \/ OptionsNext
    \/ FusionsNext

QueuesSpec ==
    /\ QueuesInit
    /\ [][QueuesNext]_<<queue, assets, renders, scenesVars, captures, plansVars, options, fusions>>

-----------------------------------------------------------------------------
(* The properties of the queues beside those of AssetProcessing.           *)

\* A disk reservation lives as long as the attempt it was made for, and
\* concurrent admissions never promise more of a volume than it has.
ReservationsFollowLeases == Renders!ReservationsFollowLeases /\ Renders!DiskIsNotOverbooked

\* A published scene's GLB is in the store.
ScenesAreStored == Scenes!ScenesAreStored

\* The holder of a scene's lease is never refused for its stage.
HolderMayHeartbeat == Scenes!HolderMayHeartbeat

\* A package is complete, and nothing can be uploaded to it any more; from
\* then on a capture session and its processing attempt move together.
PackagesAreComplete == Captures!PackagesAreComplete /\ Captures!SessionFollowsAttempt

\* An operation draft of C6 was reduced on the head it is stored for; one of
\* C9 holds the reviewers' last words.
DraftsFitTheirBase == Plans!DraftsFitTheirBranch /\ Fusions!DraftsFollowTheReview

\* Seven queues, written apart, keep the same promises.
QueuesImplementLeasedJobs ==
    /\ ImplementsLeasedJobs
    /\ Renders!ImplementsLeasedJobs
    /\ Scenes!ImplementsLeasedJobs
    /\ Captures!ImplementsLeasedJobs
    /\ Plans!ImplementsLeasedJobs
    /\ OptionQueue!ImplementsLeasedJobs
    /\ Fusions!ImplementsLeasedJobs

\* A reclaimed render goes on; and a cancellation the exact worker has
\* acknowledged is done: what the documents say and the code does not do.
ReclaimedRendersResume == Renders!ReclaimedRendersResume

AcknowledgementsCancel == OptionQueue!AcknowledgementsCancel
=============================================================================

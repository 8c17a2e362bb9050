------------------------------- MODULE Records -------------------------------
(***************************************************************************)
(* What the tables of parts that do not touch one another record: the      *)
(* stamps of C8, the upload sessions of C2, the envelopes of C7, the       *)
(* specifications of C12 and C13, the brief of C11 with its consultations, *)
(* the editor of C5, the setup of C1 and C3, the guided capture of the iOS *)
(* client, and (though nothing is recorded of them) figures that are       *)
(* validated.  They are explored one at a time: the initial state chooses  *)
(* which, and of some the size.                                            *)
(***************************************************************************)
EXTENDS ReconstructionStamps, Sequences

CONSTANTS
    None,
    Uploads, PartsOf, Checksums,
    Scans, ArkitScans, ArtifactsOf, CaptureWorkers, CaptureAttempts, CaptureMishaps,
    DesignJobs, Options, JobOf, SceneCalls, SpecificationRevisions, MaximumPreviews, Assets,
    JobsIn, OptionsIn, CallsIn, RevisionsIn, PreviewsIn,   \* of each size
    EntriesIn, TalksIn, MessagesIn, ClientsIn, BriefRevisions, MaximumKeys, MaximumTurns,
    Commands, MaximumPending, EditorRevisions,
    Keys, MaximumCount,
    Keyframes, DepthFrames, Notes, Tasks, MaximumRooms, MaximumSegments, MaximumActivations,
    Size, MaximumPoints, MaximumOpenings, Corners

VARIABLES
    part,
    session, asset, recorded, jobs, urls, apiExpired, cleanerExpired, upload, parts, object, inflight,
    capture, captureUpload, package, attempts, proposals, envelope, mediaWithdrawn, captureWorker,
    base, snapshots, profile, branches, specs, previews, overdue, withdrawn, links, scenes, request,
    revisions, brief, acceptances, effects, talks, turns, late, confirmations, client,
    branch, editor, workspace, call, lateCall, origin,
    requests, intake, resolutions, properties, home,
    draft, journal, screen, armed, seen, running, runs, runOf, task, active, activations, server,
    figure

Upload == INSTANCE UploadSession WITH Sessions <- Uploads, stored <- parts

Captures == INSTANCE CaptureSessionsProofs WITH
    Sessions <- Scans, ArkitSessions <- ArkitScans, Workers <- CaptureWorkers,
    MaximumAttempts <- CaptureAttempts, MaximumMishaps <- CaptureMishaps,
    session <- capture, upload <- captureUpload, results <- proposals, worker <- captureWorker

Specs == INSTANCE Specifications WITH
    Jobs <- DesignJobs, Requests <- SceneCalls, MaximumRevision <- SpecificationRevisions

Talks == INSTANCE ConsultationsProofs WITH
    Entries <- EntriesIn["talks"], Sessions <- TalksIn["talks"], Messages <- MessagesIn["talks"],
    Clients <- ClientsIn["talks"], MaximumRevision <- BriefRevisions,
    sessions <- talks, proposals <- turns, overdue <- late

Briefs == INSTANCE ConsultationsProofs WITH
    Entries <- EntriesIn["briefs"], Sessions <- TalksIn["briefs"], Messages <- MessagesIn["briefs"],
    Clients <- ClientsIn["briefs"], MaximumRevision <- BriefRevisions,
    sessions <- talks, proposals <- turns, overdue <- late

Editor == INSTANCE EditorSession WITH
    MaximumRevision <- EditorRevisions, request <- call, late <- lateCall

Setup == INSTANCE HomeSetup

Guided == INSTANCE GuidedCaptureProofs WITH state <- screen

Geometry == INSTANCE HomeGeometry

\* What the theorems about these parts assume of their constants.
ASSUME RecordsConstants ==
    /\ Upload!UploadConstants /\ Captures!CaptureConstants
    /\ Setup!SetupConstants /\ Editor!EditorConstants
    /\ Specs!SpecificationConstants /\ Guided!GuidedConstants
    /\ \A size \in {"pairs", "previews", "races"} :
          /\ JobsIn[size] \subseteq DesignJobs /\ OptionsIn[size] \subseteq Options
          /\ CallsIn[size] \subseteq SceneCalls
    /\ EntriesIn["talks"] \subseteq EntriesIn["briefs"]

stamps == vars
uploads ==
    <<session, asset, recorded, jobs, urls, apiExpired, cleanerExpired, upload, parts, object, inflight>>
captures ==
    <<capture, captureUpload, package, attempts, proposals, envelope, mediaWithdrawn, captureWorker>>
specifications ==
    <<base, snapshots, profile, branches, specs, previews, overdue, withdrawn, links, scenes, request>>
briefs ==
    <<revisions, brief, acceptances, effects, talks, turns, late, confirmations, client>>
editors ==
    <<branch, editor, workspace, call, lateCall, origin>>
setups ==
    <<requests, intake, resolutions, properties, home>>
guideds ==
    <<draft, journal, screen, armed, seen, running, runs, runOf, task, active, activations, server>>

RecordsInit ==
    /\ part \in {"stamps", "upload", "captures", "pairs", "previews", "races", "talks", "briefs",
                 "editor", "setup", "guided", "geometry"}
    /\ Init /\ Upload!Init /\ Captures!Init /\ Specs!Init /\ Editor!Init /\ Setup!Init /\ Guided!Init
    /\ IF part = "briefs" THEN Briefs!Init ELSE Talks!Init
    /\ IF part = "geometry" THEN Geometry!Init ELSE figure = None

StampsNext ==
    /\ part = "stamps" /\ Next
    /\ UNCHANGED <<part, uploads, captures, specifications, briefs, editors, setups, guideds, figure>>

UploadNext ==
    /\ part = "upload" /\ Upload!Next
    /\ UNCHANGED <<part, stamps, captures, specifications, briefs, editors, setups, guideds, figure>>

CapturesNext ==
    /\ part = "captures" /\ Captures!Next
    /\ UNCHANGED <<part, stamps, uploads, specifications, briefs, editors, setups, guideds, figure>>

SpecificationsNext ==
    /\ part \in {"pairs", "previews", "races"}
    /\ \/ \E j \in JobsIn[part] : Specs!CreateJob(j)
       \/ \E o \in OptionsIn[part] : Specs!OptionStep(o)
       \/ \E q \in CallsIn[part] : Specs!RequestStep(q)
       \/ \E x \in OptionsIn[part] \cup DOMAIN previews : Specs!Expire(x)
       \/ \E item \in Assets : Specs!Withdraw(item)
    /\ Len(previews') <= PreviewsIn[part]
    /\ \A o \in DOMAIN branches' : branches'[o].revision <= RevisionsIn[part]
    /\ \A o \in DOMAIN specs' : Len(specs'[o]) <= RevisionsIn[part]
    /\ UNCHANGED <<part, stamps, uploads, captures, briefs, editors, setups, guideds, figure>>

TalksNext ==
    /\ part = "talks" /\ Talks!Next
    /\ UNCHANGED <<part, stamps, uploads, captures, specifications, editors, setups, guideds, figure>>

BriefsNext ==
    /\ part = "briefs" /\ Briefs!Next
    /\ UNCHANGED <<part, stamps, uploads, captures, specifications, editors, setups, guideds, figure>>

EditorNext ==
    /\ part = "editor" /\ Editor!Next
    /\ UNCHANGED <<part, stamps, uploads, captures, specifications, briefs, setups, guideds, figure>>

SetupNext ==
    /\ part = "setup" /\ Setup!Next
    /\ UNCHANGED <<part, stamps, uploads, captures, specifications, briefs, editors, guideds, figure>>

GuidedNext ==
    /\ part = "guided" /\ Guided!Next
    /\ UNCHANGED <<part, stamps, uploads, captures, specifications, briefs, editors, setups, figure>>

GeometryNext ==
    /\ part = "geometry" /\ Geometry!Next
    /\ UNCHANGED <<part, stamps, uploads, captures, specifications, briefs, editors, setups, guideds>>

RecordsNext ==
    \/ StampsNext \/ UploadNext \/ CapturesNext
    \/ SpecificationsNext \/ TalksNext \/ BriefsNext
    \/ EditorNext \/ SetupNext \/ GuidedNext \/ GeometryNext

recordsVars ==
    <<part, stamps, uploads, captures, specifications, briefs, editors, setups, guideds, figure>>

RecordsSpec == RecordsInit /\ [][RecordsNext]_recordsVars

-----------------------------------------------------------------------------
(* The properties of the parts beside StampsPass.                          *)

\* A completed upload is in the store, made of the parts that were declared,
\* and session, asset and job of it tell the same story.
CompletedUploadsAreStored ==
    Upload!CompletedUploadsAreStored /\ Upload!JobsAreForCompletedUploads

\* An upload ends once, and whatever has ended is closed at the provider.
EndedUploadsStayClosed == [][Upload!EndedUploadsAreClosed' /\ Upload!EndOnce]_uploads

\* What is shown of a capture is stored and may be used.
ShownEnvelopesHold == Captures!ShownEnvelopesHold

\* A specification says what the snapshot it pins holds, and a confirmed
\* substitution is the one that was previewed.
SpecificationsDescribeTheirModel ==
    Specs!SpecificationsDescribeTheirModel /\ Specs!SubstitutionsAreTheirPreviews

\* A scene link that says "requested" is true.
SceneLinksAreTruthful == Specs!SceneLinksAreTruthful

\* Every revision of a brief is what one request made of what it had seen,
\* and a consultation ends with the confirmation of one of its proposals.
RevisionsAreWhatWasAsked ==
    IF part = "briefs"
    THEN Briefs!RevisionsAreWhatWasAsked /\ Briefs!SessionsEndWithOneProposal
    ELSE Talks!RevisionsAreWhatWasAsked /\ Talks!SessionsEndWithOneProposal

\* A command of the editor is not lost but by its user, nor committed twice.
CommandsAreKeptOnce == [][Editor!IntentStep /\ Editor!CommandsCommitOnce']_editors

\* What a project's home is set up from was asked for, once.
SetupIsWhatWasAsked == Setup!SetupIsWhatWasAsked

\* What the validator finds of paths, and of walls, is so.
FindingsAreRight ==
    part = "geometry" => Geometry!FindingsOfPathsAreRight /\ Geometry!FindingsOfWallsAreRight

\* What is captured is in the journal before it counts, in a segment of one world
\* origin, and accepted is what the server has accepted.
CapturedEvidenceIsKept ==
    part = "guided" =>
        Guided!RetainedIsProtected /\ Guided!SegmentsAreNeverJoined /\ Guided!AcceptancesAreTheServers

\* Confirmations, and what a brief becomes, keep the promise of C5's branches.
ImplementsBranchHistory == Specs!ImplementsBranchHistory /\ Briefs!ImplementsBranchHistory
=============================================================================

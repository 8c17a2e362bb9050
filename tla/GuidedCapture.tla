---------------------------- MODULE GuidedCapture ----------------------------
(***************************************************************************)
(* The guided capture of the iOS client for one project: the model behind  *)
(* the screen (C14_8GuidedCaptureModel), the protected journal             *)
(* (C14_8ProtectedCaptureStore), and what the server has of the capture.   *)
(*                                                                         *)
(* Everything the model awaits is a task of its own here, which goes on    *)
(* when the journal, the camera or the server answers, in any order and    *)
(* perhaps long after the user has gone on, paused or left.  Of activeTask *)
(* the model remembers one; a task is cancelled by a flag that it looks at *)
(* when it says so (assertCurrent).  The buttons are those of              *)
(* C14_8GuidedCaptureView.  The app may be killed at any time.             *)
(*                                                                         *)
(* The journal is an actor and serves its callers one by one, in the order *)
(* of their calls (turn).  It refuses a draft older than the one it holds; *)
(* a draft is dated when it is brought, so that no call in turn is late.   *)
(* What the user declares about the rooms is one note; the length of a     *)
(* segment, the files, the roles of the actor and the optional diagnostics *)
(* are left out, and so is every change of project but to the same one.    *)
(***************************************************************************)
EXTENDS Integers, FiniteSets, FiniteSetsExt

CONSTANTS
    Keyframes,
    DepthFrames,          \* keyframes taken with depth
    Notes,                \* what the user may declare
    Tasks,                \* bound: what is under way at once
    MaximumRooms,         \* bound: rooms of a capture
    MaximumSegments,      \* bound: coordinate segments of a capture
    MaximumActivations,   \* bound: launches of the app and visits of the screen
    None                  \* an absent reference

VARIABLES
    draft,        \* the draft in memory
    journal,      \* the draft in the protected store
    state,        \* C14_8GuidedCaptureState; "stopped" is failed(retryable: false)
    armed,        \* captureArmed
    seen,         \* liveTelemetry: the engine has shown something since the screen was opened
    running,      \* the engine delivers frames and events
    runs,         \* how often the engine was started: each run has its own world origin
    runOf,        \* the run a keyframe was taken in
    task,         \* what is under way
    active,       \* activeTask
    activations,  \* launches and visits so far
    server        \* the capture session (by its rooms), the RGB assets, the envelope

camera == <<armed, seen, running, runs>>

vars == <<draft, journal, state, camera, runOf, task, active, activations, server>>

-----------------------------------------------------------------------------
(* Drafts and tasks.                                                       *)

\* createDraft
Empty ==
    [samples |-> [k \in {} |-> 0], segment |-> 1, rooms |-> 1, note |-> None,
     session |-> FALSE, receipts |-> {}, depths |-> {}, acceptance |-> None]

KeyframesOf(d) == DOMAIN d.samples

EnvelopeRows ==
    [samples : UNION {[K -> Nat] : K \in SUBSET Keyframes}, rooms : Nat, note : Notes \cup {None}]

DraftRows ==
    [samples : UNION {[K -> Nat] : K \in SUBSET Keyframes}, segment : Nat, rooms : Nat,
     note : Notes \cup {None}, session : BOOLEAN, receipts : SUBSET Keyframes,
     depths : SUBSET Keyframes, acceptance : EnvelopeRows \cup {None}]

Steps ==
    {"load", "resume", "create", "ask", "shoot", "depth", "retain", "move", "save", "prepare",
     "open", "bind", "upload", "receipt", "send", "accept", "seal", "check", "reconstruct"}

TaskRows ==
    [step : Steps, draft : DraftRows \cup {None}, turn : Nat, todo : SUBSET Keyframes,
     sent : Keyframes \cup {None}, cancelled : BOOLEAN, current : BOOLEAN]

\* What holds of the constants: an absent reference is nothing else.
GuidedConstants ==
    /\ IsFiniteSet(Tasks)
    /\ None \notin Tasks \cup DraftRows \cup TaskRows \cup EnvelopeRows

\* currentSegmentKeyframeCount
InSegment(d) == {k \in KeyframesOf(d) : d.samples[k] = d.segment}

Retaining(d, k, segment) ==
    [d EXCEPT !.samples = [i \in KeyframesOf(d) \cup {k} |-> IF i = k THEN segment ELSE d.samples[i]]]

\* appendSegment
Segmented(d) == [d EXCEPT !.segment = @ + 1]

\* buildEnvelope
Envelope(d) == [samples |-> d.samples, rooms |-> d.rooms, note |-> d.note]

Free == {t \in Tasks : task[t] = None}

Under == Tasks \ Free

Task(step, d) ==
    [step |-> step, draft |-> d, turn |-> 0, todo |-> {}, sent |-> None,
     cancelled |-> FALSE, current |-> TRUE]

\* r calls the journal
Called(tasks, r) ==
    [r EXCEPT !.turn = 1 + Cardinality({u \in Tasks : tasks[u] # None /\ tasks[u].turn > 0})]

Calling(step, d) == Called(task, Task(step, d))

Cancelled(tasks, t) == IF t = None THEN tasks ELSE [tasks EXCEPT ![t].cancelled = TRUE]

\* It is t's turn at the journal
Turn(t) == task[t].turn = 1

\* The tasks when the journal has answered the first of them
Served ==
    [u \in Tasks |-> IF task[u] = None \/ task[u].turn = 0 THEN task[u]
                     ELSE [task[u] EXCEPT !.turn = @ - 1]]

\* activeTask is replaced, and cancelled first or not
Track(tasks, r) ==
    \E t \in Free :
        /\ t = Min(Free)
        /\ task' = [tasks EXCEPT ![t] = r]
        /\ active' = t

\* A task nobody keeps
Spawn(r) ==
    \E t \in Free : t = Min(Free) /\ task' = [task EXCEPT ![t] = r] /\ UNCHANGED active

\* assertCurrent
Fine(t) == ~task[t].cancelled /\ task[t].current

\* t ends, and what it was for has not changed since: the screen shows s
Stop(tasks, t, s) ==
    /\ task' = [tasks EXCEPT ![t] = None]
    /\ active' = IF active = t THEN None ELSE active
    /\ state' = IF task[t].current THEN s ELSE state

At(t, step) == t \in Under /\ task[t].step = step

StartEngine ==
    running' = TRUE /\ seen' = TRUE /\ armed' = FALSE /\ runs' = runs + 1

StopEngine == running' = FALSE /\ armed' = FALSE /\ UNCHANGED <<seen, runs>>

-----------------------------------------------------------------------------
(* The user at the screen.                                                 *)

\* An edit of the draft, saved by a task of its own: renameCurrentRoom, addZone,
\* cycleCoverage, updateSemantic, setRoomPlanSource
Edit(note) ==
    /\ state \in {"ready", "review"} /\ draft # None
    /\ draft.acceptance = None /\ note # draft.note
    /\ draft' = [draft EXCEPT !.note = note]
    /\ Spawn(Calling("save", draft'))
    /\ UNCHANGED <<journal, state, camera, runOf, activations, server>>

Arm ==
    /\ state = "ready" /\ draft # None /\ seen /\ ~armed /\ InSegment(draft) = {}
    /\ armed' = TRUE
    /\ UNCHANGED <<draft, journal, state, seen, running, runs, runOf, task, active, activations, server>>

\* captureKeyframe, by hand or by considerAutomaticCapture
Capture ==
    /\ state = "ready" /\ armed /\ draft # None
    /\ state' = "capturing"
    /\ Track(task, Task("shoot", draft))
    /\ UNCHANGED <<draft, journal, camera, runOf, activations, server>>

FinishRoomReview ==
    /\ draft # None /\ KeyframesOf(draft) # {} /\ draft.acceptance = None
    /\ \/ state = "ready" /\ armed /\ InSegment(draft) # {}
       \/ state = "failed"
    /\ state' = "review"
    /\ StopEngine
    /\ Track(task, Calling("save", draft))
    /\ UNCHANGED <<draft, journal, runOf, activations, server>>

\* persistTransitionThenStart: the task it waits for has ended when the user acts
Transition(next) ==
    /\ next.segment <= MaximumSegments
    /\ draft' = next
    /\ state' = "checking"
    /\ Track(task, Calling("move", next))
    /\ UNCHANGED <<journal, runOf, activations, server>>

CaptureMore ==
    /\ state = "review" /\ draft # None /\ draft.acceptance = None
    /\ Transition(Segmented(draft))
    /\ UNCHANGED camera

AddRoom ==
    /\ state = "review" /\ draft # None /\ draft.acceptance = None /\ draft.rooms < MaximumRooms
    /\ Transition([Segmented(draft) EXCEPT !.rooms = @ + 1])
    /\ running' = FALSE /\ UNCHANGED <<armed, seen, runs>>

RecoverAfterInterruption ==
    /\ draft # None /\ draft.acceptance = None
    /\ state = "interrupted" \/ (state = "failed" /\ KeyframesOf(draft) = {})
    /\ Transition(Segmented(draft))
    /\ UNCHANGED camera

Submit ==
    /\ state = "review" /\ draft # None
    /\ KeyframesOf(draft) # {} /\ draft.acceptance = None
    /\ running' = FALSE /\ UNCHANGED <<armed, seen, runs>>
    /\ Track(Cancelled(task, active), Calling("prepare", draft))
    /\ UNCHANGED <<draft, journal, state, runOf, activations, server>>

\* A mutant: the screen returns to the review, and the submission goes on
LeaveSubmission ==
    /\ state = "submitting"
    /\ state' = "review"
    /\ UNCHANGED <<draft, journal, camera, runOf, task, active, activations, server>>

CancelSubmission ==
    /\ state = "submitting"
    /\ task' = Cancelled(task, active)
    /\ state' = "review"
    /\ UNCHANGED <<draft, journal, camera, runOf, active, activations, server>>

\* A check only reads: one at a time is enough
CheckSourceReadiness ==
    /\ state \in {"accepted", "failed"} /\ draft # None /\ draft.acceptance # None
    /\ \A t \in Under : task[t].step # "check"
    /\ Spawn(Task("check", None))
    /\ UNCHANGED <<draft, journal, state, camera, runOf, activations, server>>

StartReconstruction ==
    /\ state = "usable" /\ draft # None /\ draft.acceptance # None
    /\ state' = "starting"
    /\ Track(task, Task("reconstruct", None))
    /\ UNCHANGED <<draft, journal, camera, runOf, activations, server>>

RequestPermission ==
    /\ state = "blocked"
    /\ Track(Cancelled(task, active), Task("ask", None))
    /\ UNCHANGED <<draft, journal, state, camera, runOf, activations, server>>

-----------------------------------------------------------------------------
(* What happens to the screen.                                             *)

\* handleBackgrounding: the app leaves the foreground, or ARKit is interrupted
HandleBackgrounding ==
    /\ state \in {"ready", "capturing"} /\ draft # None
    /\ StopEngine
    /\ state' = "interrupted"
    /\ Track(Cancelled(task, active), Calling("save", draft))
    /\ UNCHANGED <<draft, journal, runOf, activations, server>>

\* ARKit fails
RuntimeFailure ==
    /\ running /\ draft # None
    /\ state' = "failed"
    /\ IF state \in {"ready", "capturing"}
       THEN StopEngine /\ Track(Cancelled(task, active), Calling("save", draft))
       ELSE UNCHANGED <<camera, task, active>>
    /\ UNCHANGED <<draft, journal, runOf, activations, server>>

\* An interruption ends of which only ARKit has taken notice
InterruptionEnded ==
    /\ running /\ state # "interrupted"
    /\ state' = "interrupted"
    /\ UNCHANGED <<draft, journal, camera, runOf, task, active, activations, server>>

\* resetMemory, then activate: the user has left the screen and comes back
Activate ==
    /\ activations < MaximumActivations
    /\ activations' = activations + 1
    /\ draft' = None
    /\ running' = FALSE /\ seen' = FALSE /\ armed' = FALSE /\ UNCHANGED runs
    /\ \E t \in Free :
        /\ t = Min(Free)
        /\ task' = [u \in Tasks |->
                      CASE u = t -> Called(task, Task("load", None))
                        [] task[u] # None -> [Cancelled(task, active)[u] EXCEPT !.current = FALSE]
                        [] OTHER -> None]
    /\ active' = None
    /\ UNCHANGED <<journal, state, runOf, server>>

\* The app is killed, and launched again
Relaunch ==
    /\ activations < MaximumActivations
    /\ activations' = activations + 1
    /\ draft' = None /\ active' = None /\ state' = "checking"
    /\ running' = FALSE /\ seen' = FALSE /\ armed' = FALSE /\ UNCHANGED runs
    /\ task' = [t \in Tasks |-> IF t = Min(Tasks) THEN [Task("load", None) EXCEPT !.turn = 1] ELSE None]
    /\ UNCHANGED <<journal, runOf, server>>

-----------------------------------------------------------------------------
(* The tasks that open a capture and start the camera.                     *)

Quiet == UNCHANGED <<activations, server>>

\* preflight: the camera may be used or not
Preflight(tasks, t, d) ==
    \/ Stop(tasks, t, "blocked") /\ draft' = d /\ UNCHANGED camera
    \/ /\ d # None
       /\ StartEngine /\ draft' = d
       /\ Stop(tasks, t, "ready")
    \/ /\ d = None
       /\ task' = [tasks EXCEPT ![t] = Called(tasks, [Task("create", Empty) EXCEPT !.cancelled = task[t].cancelled])]
       /\ UNCHANGED <<draft, state, camera, active>>

\* activate, when the journal was read
Load(t) ==
    /\ At(t, "load") /\ Turn(t) /\ UNCHANGED <<journal, runOf>> /\ Quiet
    /\ LET tasks == Served
       IN  IF ~task[t].current THEN Stop(tasks, t, state) /\ UNCHANGED <<draft, camera>>
           ELSE IF journal = None THEN Preflight(tasks, t, draft)
           ELSE /\ UNCHANGED camera
                /\ draft' = journal
                /\ CASE journal.acceptance # None ->
                          /\ state' = "accepted"
                          /\ task' = [tasks EXCEPT ![t] = Task("check", None)]
                          /\ UNCHANGED active
                     [] journal.acceptance = None /\ KeyframesOf(journal) # {} -> Stop(tasks, t, "review")
                     [] OTHER ->
                          /\ journal.segment < MaximumSegments
                          /\ task' = [tasks EXCEPT ![t] = Called(tasks, Task("resume", Segmented(journal)))]
                          /\ UNCHANGED <<state, active>>

LoadFails(t) ==
    /\ At(t, "load") /\ Turn(t)
    /\ Stop(Served, t, "failed")
    /\ UNCHANGED <<draft, journal, camera, runOf>> /\ Quiet

\* The fresh segment of a capture without keyframes is saved
Resume(t) ==
    /\ At(t, "resume") /\ Turn(t) /\ UNCHANGED runOf /\ Quiet
    /\ journal' = task[t].draft
    /\ IF task[t].current THEN Preflight(Served, t, task[t].draft)
       ELSE Stop(Served, t, state) /\ UNCHANGED <<draft, camera>>

\* The system's answer about the camera
Ask(t) ==
    /\ At(t, "ask") /\ UNCHANGED <<journal, runOf>> /\ Quiet
    /\ IF ~task[t].current THEN Stop(task, t, state) /\ UNCHANGED <<draft, camera>>
       ELSE IF draft # None /\ task[t].cancelled 
       THEN (\E s \in {"failed", "blocked"} : Stop(task, t, s)) /\ UNCHANGED <<draft, camera>>
       ELSE Preflight(task, t, draft)

\* createDraft, when the draft is saved; preflight shows its failure to whoever is there
Create(t) ==
    /\ At(t, "create") /\ Turn(t) /\ UNCHANGED runOf /\ Quiet
    /\ journal' = task[t].draft
    /\ task' = [Served EXCEPT ![t] = None]
    /\ active' = IF active = t THEN None ELSE active
    /\ IF Fine(t) THEN draft' = task[t].draft /\ state' = "ready" /\ StartEngine
       ELSE state' = "failed" /\ UNCHANGED <<draft, camera>>

CreateFails(t) ==
    /\ At(t, "create") /\ Turn(t)
    /\ task' = [Served EXCEPT ![t] = None] /\ state' = "failed"
    /\ active' = IF active = t THEN None ELSE active
    /\ UNCHANGED <<draft, journal, camera, runOf>> /\ Quiet

\* persistTransitionThenStart, when the fresh segment is saved
Move(t) ==
    /\ At(t, "move") /\ Turn(t) /\ UNCHANGED runOf /\ Quiet
    /\ journal' = task[t].draft
    /\ IF Fine(t) THEN draft' = task[t].draft /\ StartEngine /\ Stop(Served, t, "ready")
       ELSE Stop(Served, t, state) /\ UNCHANGED <<draft, camera>>

\* A save nobody waits for, written or not
Save(t) ==
    /\ At(t, "save") /\ UNCHANGED <<draft, camera, runOf>> /\ Quiet
    /\ \/ Turn(t) /\ journal' = task[t].draft /\ Stop(Served, t, state)
       \/ Turn(t) /\ UNCHANGED journal /\ Stop(Served, t, state)

-----------------------------------------------------------------------------
(* captureKeyframe                                                         *)

\* The engine has retained a frame, of the run it is or was in
Shoot(t, k) ==
    /\ At(t, "shoot") /\ Fine(t) /\ draft # None
    /\ \A d \in {draft, journal} \cup {task[u].draft : u \in Under} : d # None => k \notin KeyframesOf(d)
    /\ runOf' = [runOf EXCEPT ![k] = runs]
    /\ LET next == Retaining(draft, k, task[t].draft.segment)
       IN  task' = [task EXCEPT ![t] = IF k \in DepthFrames THEN Task("depth", next) ELSE Calling("retain", next)]
    /\ UNCHANGED <<draft, journal, state, camera, active>> /\ Quiet

\* The last look at the frame rejects it
RejectCandidate(t) ==
    /\ At(t, "shoot") /\ Stop(task, t, "ready")
    /\ UNCHANGED <<draft, journal, camera, runOf>> /\ Quiet

\* The depth of the frame is stored
StoreDepth(t) ==
    /\ At(t, "depth") /\ Fine(t)
    /\ task' = [task EXCEPT ![t] = Calling("retain", task[t].draft)]
    /\ UNCHANGED <<draft, journal, state, camera, runOf, active>> /\ Quiet

\* A mutant: what was saved counts, whatever happened meanwhile
AfterAnySave(t) == draft' = task[t].draft /\ Stop(Served, t, "ready")

\* C14_8ProtectedCaptureStore.save has the draft; assertCurrent looks once more
AfterSave(t) ==
    IF Fine(t) THEN draft' = task[t].draft /\ Stop(Served, t, "ready")
    ELSE UNCHANGED draft /\ Stop(Served, t, "failed")

Retain(t) ==
    /\ At(t, "retain") /\ Turn(t)
    /\ journal' = task[t].draft
    /\ AfterSave(t)
    /\ UNCHANGED <<camera, runOf>> /\ Quiet

-----------------------------------------------------------------------------
(* performSubmission                                                       *)

\* What is left to do before the envelope can be sent
Going(d, todo) ==
    IF todo # {} THEN "upload"
    ELSE IF (KeyframesOf(d) \cap DepthFrames) \ d.depths # {} THEN "send" ELSE "accept"

\* t goes on with draft d
Onward(tasks, t, d, todo) ==
    /\ task' = [tasks EXCEPT ![t] = [task[t] EXCEPT
                    !.step = Going(d, todo), !.draft = d, !.turn = 0, !.todo = todo, !.sent = None]]
    /\ state' = "submitting"
    /\ UNCHANGED active

Pending(d) == KeyframesOf(d) \ d.receipts

\* t saves r
Calls(t, r) == task' = [task EXCEPT ![t] = Called(task, r)]

\* t was cancelled, or its screen is gone
GivenUp(tasks, t) == Stop(tasks, t, "review")

\* The draft of prepareSubmissionDraft is saved
Prepare(t) ==
    /\ At(t, "prepare") /\ Turn(t) /\ UNCHANGED <<camera, runOf>> /\ Quiet
    /\ journal' = task[t].draft
    /\ IF ~Fine(t) THEN GivenUp(Served, t) /\ UNCHANGED draft
       ELSE /\ draft' = task[t].draft
            /\ IF task[t].draft.session
               THEN Onward(Served, t, task[t].draft, Pending(task[t].draft))
               ELSE /\ state' = "submitting" /\ UNCHANGED active
                    /\ task' = [Served EXCEPT ![t].step = "open"]

\* createSession, whose key is that of the capture: for other rooms it is a conflict
OpenSession(t) ==
    /\ At(t, "open") /\ server.session \in {0, task[t].draft.rooms}
    /\ server' = [server EXCEPT !.session = task[t].draft.rooms]
    /\ IF Fine(t)
       THEN /\ Calls(t, [task[t] EXCEPT !.step = "bind", !.draft.session = TRUE])
            /\ UNCHANGED <<state, active>>
       ELSE GivenUp(task, t)
    /\ UNCHANGED <<draft, journal, camera, runOf, activations>>

BindSession(t) ==
    /\ At(t, "bind") /\ Turn(t)
    /\ journal' = task[t].draft /\ draft' = task[t].draft
    /\ Onward(Served, t, task[t].draft, Pending(task[t].draft))
    /\ UNCHANGED <<camera, runOf>> /\ Quiet

\* C8ImmutableEvidenceUploader.upload finds or makes the asset of the keyframe
Upload(t, k) ==
    /\ At(t, "upload") /\ k \in task[t].todo
    /\ server' = [server EXCEPT !.assets = @ \cup {k}]
    /\ IF Fine(t)
       THEN /\ Calls(t, [task[t] EXCEPT !.step = "receipt", !.todo = @ \ {k}, !.sent = k])
            /\ UNCHANGED <<state, active>>
       ELSE GivenUp(task, t)
    /\ UNCHANGED <<draft, journal, camera, runOf, activations>>

\* recordMediaReceipt works on what the journal holds
RecordMediaReceipt(t) ==
    /\ At(t, "receipt") /\ Turn(t)
    /\ journal # None /\ journal.acceptance = None /\ task[t].sent \in KeyframesOf(journal)
    /\ journal' = [journal EXCEPT !.receipts = @ \cup {task[t].sent}]
    /\ IF Fine(t) THEN draft' = journal' /\ Onward(Served, t, journal', task[t].todo)
       ELSE UNCHANGED draft /\ GivenUp(Served, t)
    /\ UNCHANGED <<camera, runOf>> /\ Quiet

\* C14_8DepthUploader.upload
SendDepth(t, k) ==
    /\ At(t, "send")
    /\ k \in (KeyframesOf(task[t].draft) \cap DepthFrames) \ task[t].draft.depths
    /\ IF Fine(t)
       THEN /\ Calls(t, [task[t] EXCEPT !.step = "bind", !.draft.depths = @ \cup {k}])
            /\ UNCHANGED <<state, active>>
       ELSE GivenUp(task, t)
    /\ UNCHANGED <<draft, journal, camera, runOf>> /\ Quiet

\* A mutant: another envelope under the key of the session is taken for a repetition
IsAnything == TRUE

\* The session has no envelope: another one would be a conflict
IsFirst == server.envelope = None

\* The server accepts the envelope; its key is the session's, and its body has the time
\* in it, so that no second one is a repetition of the first
AcceptEnvelope(t) ==
    /\ At(t, "accept") /\ Pending(task[t].draft) = {} /\ IsFirst
    /\ KeyframesOf(task[t].draft) \subseteq server.assets
    /\ LET envelope == Envelope(task[t].draft)
       IN  /\ server' = [server EXCEPT !.envelope = IF @ = None THEN envelope ELSE @]
           /\ IF Fine(t)
              THEN Calls(t, [task[t] EXCEPT !.step = "seal", !.draft.acceptance = envelope]) /\ UNCHANGED <<state, active>>
              ELSE GivenUp(task, t)
    /\ UNCHANGED <<draft, journal, camera, runOf, activations>>

Seal(t) ==
    /\ At(t, "seal") /\ Turn(t)
    /\ journal' = task[t].draft /\ draft' = task[t].draft
    /\ state' = "accepted"
    /\ task' = [Served EXCEPT ![t] = [Task("check", None) EXCEPT !.cancelled = task[t].cancelled]]
    /\ UNCHANGED <<camera, runOf, active>> /\ Quiet

\* A request is carried out but its answer lost
AnswerLost(t) ==
    /\ \/ At(t, "open") /\ server.session = 0 /\ server' = [server EXCEPT !.session = task[t].draft.rooms]
       \/ At(t, "upload") /\ \E k \in task[t].todo : server' = [server EXCEPT !.assets = @ \cup {k}]
       \/ /\ At(t, "accept") /\ Pending(task[t].draft) = {} /\ server.envelope = None
          /\ KeyframesOf(task[t].draft) \subseteq server.assets
          /\ server' = [server EXCEPT !.envelope = Envelope(task[t].draft)]
    /\ \E s \in {"failed", "stopped"} : Stop(task, t, s)
    /\ UNCHANGED <<draft, journal, camera, runOf, activations>>

\* What t waits for does not happen: the journal, the camera or the server refuses
Fails(t) ==
    /\ t \in Under /\ (task[t].turn = 0 \/ Turn(t))
    /\ task[t].step \notin {"load", "ask", "create", "save", "check", "reconstruct"}
    /\ LET tasks == IF Turn(t) THEN Served ELSE task
       IN  \/ Stop(tasks, t, "failed")
           \/ /\ task[t].step \in {"prepare", "open", "bind", "upload", "receipt", "send", "accept", "seal"}
              /\ \E s \in {"review", "stopped"} : Stop(tasks, t, s)
    /\ UNCHANGED <<draft, journal, camera, runOf>> /\ Quiet

\* The end of checkSourceReadiness, and of startReconstruction
Answered(t) ==
    /\ \/ At(t, "check") /\ \E s \in {"accepted", "usable", "failed", "stopped"} : Stop(task, t, s)
       \/ At(t, "reconstruct") /\ \E s \in {"reconstructed", "usable", "failed"} : Stop(task, t, s)
    /\ UNCHANGED <<draft, journal, camera, runOf>> /\ Quiet

-----------------------------------------------------------------------------
Init ==
    /\ draft = None /\ journal = None /\ state = "checking"
    /\ armed = FALSE /\ seen = FALSE /\ running = FALSE /\ runs = 0
    /\ runOf = [k \in Keyframes |-> 0]
    /\ task = [t \in Tasks |-> IF t = Min(Tasks) THEN [Task("load", None) EXCEPT !.turn = 1] ELSE None]
    /\ active = None
    /\ activations = 1
    /\ server = [session |-> 0, assets |-> {}, envelope |-> None]

\* What the app does by itself, in a moment
Local ==
    {"load", "ask", "resume", "create", "move", "save", "shoot", "depth", "retain",
     "prepare", "bind", "receipt", "seal"}

\* The user is slower than the journal and the camera, and perhaps faster than the
\* server; of a request that was cancelled URLSession does not wait for the answer
UserStep ==
    /\ \A t \in Under : task[t].step \notin Local /\ ~task[t].cancelled
    /\ \/ \E note \in Notes : Edit(note)
       \/ Arm \/ FinishRoomReview \/ CaptureMore \/ AddRoom \/ RecoverAfterInterruption
       \/ Submit \/ CancelSubmission \/ CheckSourceReadiness
       \/ StartReconstruction \/ RequestPermission

SystemStep ==
    Capture \/ HandleBackgrounding \/ RuntimeFailure \/ InterruptionEnded \/ Activate \/ Relaunch

TaskStep(t) ==
    \/ Load(t) \/ LoadFails(t) \/ Resume(t) \/ Ask(t) \/ Create(t) \/ CreateFails(t)
    \/ Move(t) \/ Save(t)
    \/ RejectCandidate(t) \/ StoreDepth(t) \/ Retain(t)
    \/ \E k \in Keyframes : Shoot(t, k) \/ Upload(t, k) \/ SendDepth(t, k)
    \/ Prepare(t) \/ OpenSession(t) \/ BindSession(t) \/ RecordMediaReceipt(t)
    \/ AcceptEnvelope(t) \/ Seal(t) \/ AnswerLost(t) \/ Fails(t) \/ Answered(t)

Next == UserStep \/ SystemStep \/ \E t \in Tasks : TaskStep(t)

Spec == Init /\ [][Next]_vars

-----------------------------------------------------------------------------
\* No keyframe that the screen has counted as retained is lost with the app: the
\* journal has it.
RetainedIsProtected ==
    draft # None => journal # None /\ KeyframesOf(draft) \subseteq KeyframesOf(journal)

\* Segments are never joined: views of one segment come from one run of ARKit.
SegmentsAreNeverJoined ==
    \A samples \in {d.samples : d \in {draft, journal, server.envelope} \ {None}} :
        \A k, l \in DOMAIN samples : samples[k] = samples[l] => runOf[k] = runOf[l]

\* What the app takes for accepted is what the server has accepted, entire.
AcceptancesAreTheServers ==
    \A d \in {draft, journal} \ {None} :
        d.acceptance # None =>
            /\ d.acceptance = Envelope(d) /\ d.acceptance = server.envelope
            /\ Pending(d) = {} /\ KeyframesOf(d) \cap DepthFrames \subseteq d.depths
=============================================================================

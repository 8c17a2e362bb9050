---------------------------- MODULE EditorSession ----------------------------
(***************************************************************************)
(* The 2D editor of one person on one branch of C5: the session of         *)
(* packages/editor-core, the handlers of EditorWorkspace around it, and    *)
(* the requests they have in flight.                                       *)
(*                                                                         *)
(* The buttons are disabled while a request is in flight (busy); the forms *)
(* of the inspector, which append commands, are not.  A request may fail   *)
(* for the browser before, while or after the server handles it.  A        *)
(* command goes by its clientOperationId, and a preview by what it is of:   *)
(* what it found is a verdict, and that it has expired one of the reasons  *)
(* of a refusal.  Other people's commits, and restores, are entries of the *)
(* branch without commands of this session.  Left out are what is only     *)
(* shown, and the change of branch or profile, which begins a new session. *)
(***************************************************************************)
EXTENDS Integers, Sequences, SequencesExt

CONSTANTS
    Commands,         \* clientOperationIds
    MaximumPending,   \* maximumPendingEditorCommands
    MaximumRevision,  \* bound: commits on the branch
    None              \* an absent reference

\* What holds of the constants: a command that is not appended has no origin.
EditorConstants == None \notin {"calm", "hasty"}

VARIABLES
    branch,     \* the commits, each with its commands
    editor,     \* EditorSessionState
    workspace,  \* revision of the branch that is shown
    request,    \* the request in flight; its answer when there is one
    late,       \* a mutation still under way after the browser gave up on it
    origin      \* how each command was appended: "calm", or "hasty" beside a request

vars == <<branch, editor, workspace, request, late, origin>>

Revision == Len(branch)

Idle == [kind |-> "none"]

Busy == request # Idle

-----------------------------------------------------------------------------
(* editorSessionReducer                                                    *)

\* createEditorSession
Session(base) ==
    [base |-> base, pending |-> <<>>, redo |-> <<>>, phase |-> "clean",
     preview |-> None, acknowledged |-> FALSE, conflict |-> FALSE]

PhaseOf(pending) == IF pending = <<>> THEN "clean" ELSE "editing"

\* A change of the commands that keeps the preview
Kept(pending, redo) == [editor EXCEPT !.pending = pending, !.redo = redo]

\* invalidatePreview
Edited(pending, redo) ==
    [Session(editor.base) EXCEPT !.pending = pending, !.redo = redo, !.phase = PhaseOf(pending)]

\* preview.requested, preview.failed, conflict.received
To(phase) == [editor EXCEPT !.phase = phase, !.preview = None, !.conflict = FALSE]

Failed == To(PhaseOf(editor.pending))

Conflicting == [To("conflict") EXCEPT !.conflict = TRUE]

\* conflict.reapply
Reapplied(base) == [Edited(editor.pending, editor.redo) EXCEPT !.base = base]

-----------------------------------------------------------------------------
(* What the user does.                                                     *)

\* appendCommand
AppendCommand(c) ==
    /\ origin[c] = None /\ Len(editor.pending) < MaximumPending
    /\ editor' = Edited(Append(editor.pending, c), <<>>)
    /\ origin' = [origin EXCEPT ![c] = IF Busy THEN "hasty" ELSE "calm"]
    /\ UNCHANGED <<branch, workspace, request, late>>

Undo ==
    /\ ~Busy /\ editor.pending # <<>>
    /\ editor' = Edited(Front(editor.pending), Append(editor.redo, Last(editor.pending)))
    /\ UNCHANGED <<branch, workspace, request, late, origin>>

Redo ==
    /\ ~Busy /\ editor.redo # <<>> /\ Len(editor.pending) < MaximumPending
    /\ editor' = Edited(Append(editor.pending, Last(editor.redo)), Front(editor.redo))
    /\ UNCHANGED <<branch, workspace, request, late, origin>>

Discard ==
    /\ ~Busy /\ editor.pending # <<>>
    /\ editor' = Session(editor.base)
    /\ UNCHANGED <<branch, workspace, request, late, origin>>

\* warning.acknowledge, of a warning that is shown
Acknowledge ==
    /\ editor.preview # None /\ editor.preview.verdict = "warned"
    /\ editor' = [editor EXCEPT !.acknowledged = TRUE]
    /\ UNCHANGED <<branch, workspace, request, late, origin>>

Send(kind, base, subject) ==
    request' = [kind |-> kind, base |-> base, subject |-> subject, answer |-> None]

\* preview, up to the request
AskForPreview ==
    /\ ~Busy /\ editor.pending # <<>>
    /\ editor' = To("previewing")
    /\ Send("preview", editor.base, editor.pending)
    /\ UNCHANGED <<branch, workspace, late, origin>>

\* editorCanCommit
CanCommit ==
    /\ editor.phase = "preview-ready" /\ editor.preview.verdict # "blocked"
    /\ editor.preview.verdict = "warned" => editor.acknowledged

\* commit, up to the request
AskToCommit ==
    /\ ~Busy /\ CanCommit
    /\ editor' = [editor EXCEPT !.phase = "committing"]
    /\ Send("commit", editor.base, editor.preview)
    /\ UNCHANGED <<branch, workspace, late, origin>>

\* restoreSource
AskToRestore ==
    /\ ~Busy
    /\ Send("restore", workspace, None)
    /\ UNCHANGED <<branch, editor, workspace, late, origin>>

\* reloadConflictHead and reapplyConflictIntent
AskForHead(kind) ==
    /\ ~Busy /\ editor.conflict
    /\ Send(kind, editor.base, None)
    /\ UNCHANGED <<branch, editor, workspace, late, origin>>

-----------------------------------------------------------------------------
(* What the server does, as ModelBranches has it.                          *)

Answer(kind, value) == request' = [request EXCEPT !.answer = [kind |-> kind, value |-> value]]

Unanswered(kinds) == Busy /\ request.kind \in kinds /\ request.answer = None

MakePreview ==
    /\ Unanswered({"preview"})
    /\ IF request.base # Revision THEN Answer("conflict", Revision)
       ELSE \E verdict \in {"clean", "warned", "blocked"} :
               Answer("done", [base |-> Revision, commands |-> request.subject, verdict |-> verdict])
    /\ UNCHANGED <<branch, editor, workspace, late, origin>>

\* Without the constraint below.
Unchecked(commands) == Range(commands) \subseteq Commands

\* UNIQUE (..., branch_id, client_operation_id)
AllNew(commands) == \A revision \in DOMAIN branch : Range(commands) \cap branch[revision] = {}

\* What a commit or a restore does to the branch, if it is accepted.
Persist(r) ==
    /\ r.base = Revision /\ Revision < MaximumRevision
    /\ IF r.kind = "restore" THEN branch' = Append(branch, {})
       ELSE /\ r.subject.base = Revision /\ AllNew(r.subject.commands)
            /\ branch' = Append(branch, Range(r.subject.commands))

Mutate ==
    /\ Unanswered({"commit", "restore"})
    /\ Persist(request) /\ Answer("done", Revision + 1)
    /\ UNCHANGED <<editor, workspace, late, origin>>

\* It is stale, or refused for another reason: the preview has expired, a
\* command is already on the branch, the service is in trouble.
Refuse ==
    /\ Unanswered({"commit", "restore"})
    /\ Answer(IF request.base # Revision THEN "conflict" ELSE "refused", Revision)
    /\ UNCHANGED <<branch, editor, workspace, late, origin>>

GetBranch ==
    /\ Unanswered({"load", "reload", "reapply"})
    /\ Answer("done", Revision)
    /\ UNCHANGED <<branch, editor, workspace, late, origin>>

\* A mutation nobody waits for any more.
MutateLate ==
    /\ late # Idle /\ Persist(late) /\ late' = Idle
    /\ UNCHANGED <<editor, workspace, request, origin>>

\* Somebody else commits.
CommitElsewhere ==
    /\ Revision < MaximumRevision
    /\ branch' = Append(branch, {})
    /\ UNCHANGED <<editor, workspace, request, late, origin>>

-----------------------------------------------------------------------------
(* The answer, or its absence.                                             *)

Answered(kinds, answer) ==
    Busy /\ request.kind \in kinds /\ request.answer # None /\ request.answer.kind = answer

PreviewReceived ==
    /\ Answered({"preview"}, "done")
    /\ editor' = [To("preview-ready") EXCEPT !.preview = request.answer.value, !.acknowledged = FALSE]
    /\ request' = Idle
    /\ UNCHANGED <<branch, workspace, late, origin>>

\* commit.succeeded, or a restore; the branch is loaded next.
Succeeded ==
    /\ Answered({"commit", "restore"}, "done")
    /\ editor' = IF request.kind = "commit" THEN Session(request.answer.value) ELSE editor
    /\ Send("load", editor.base, request.kind)
    /\ UNCHANGED <<branch, workspace, late, origin>>

\* loadBranch, with installWorkspace, and the reapplication of the commands
Loaded ==
    /\ Answered({"load", "reload", "reapply"}, "done")
    /\ workspace' = request.answer.value
    /\ editor' = CASE request.kind = "load" -> Session(request.answer.value)
                   [] request.kind = "reapply" -> Reapplied(request.answer.value)
                   [] OTHER -> editor
    /\ request' = Idle
    /\ UNCHANGED <<branch, late, origin>>

\* receiveConflict
ConflictReceived ==
    /\ Answered({"preview", "commit", "restore"}, "conflict")
    /\ editor' = Conflicting
    /\ request' = Idle
    /\ UNCHANGED <<branch, workspace, late, origin>>

\* The request is refused, or the browser cannot reach the server.
Fails ==
    /\ Busy
    /\ editor' = IF request.kind \in {"preview", "commit"} THEN Failed ELSE editor
    /\ late' = IF Unanswered({"commit", "restore"}) THEN request ELSE late
    /\ request' = Idle
    /\ UNCHANGED <<branch, workspace, origin>>

-----------------------------------------------------------------------------

Init ==
    /\ branch = <<>>
    /\ editor = Session(0) /\ workspace = 0
    /\ request = Idle /\ late = Idle
    /\ origin = [c \in Commands |-> None]

UserStep ==
    \/ \E c \in Commands : AppendCommand(c)
    \/ Undo \/ Redo \/ Discard \/ Acknowledge
    \/ AskForPreview \/ AskToCommit \/ AskToRestore
    \/ \E kind \in {"reload", "reapply"} : AskForHead(kind)

ServerStep ==
    MakePreview \/ Mutate \/ Refuse \/ GetBranch \/ MutateLate \/ CommitElsewhere

AnswerStep == PreviewReceived \/ Succeeded \/ Loaded \/ ConflictReceived \/ Fails

Next == UserStep \/ ServerStep \/ AnswerStep

Spec == Init /\ [][Next]_vars

-----------------------------------------------------------------------------
(* Properties.                                                             *)

\* No command gets on the branch twice, whatever answers were lost and however
\* often it was applied again to a newer head.
CommandsCommitOnce ==
    \A r1, r2 \in DOMAIN branch : branch[r1] \cap branch[r2] # {} => r1 = r2

\* A pending command leaves the session only onto the branch, or because the
\* user discards it (nothing is in flight then) or restores the source; so no
\* failure, conflict or reload loses one.  Those appended beside a request
\* are not safe: the commit of a preview made without them drops them too.
IntentStep ==
    \A c \in Range(editor.pending) \ Range(editor'.pending \o editor'.redo) :
        \/ ~Busy
        \/ request.kind = "load" /\ request.subject = "restore"
        \/ \E revision \in DOMAIN branch : c \in branch[revision]
        \/ origin[c] = "hasty"

IntentIsKept == [][IntentStep]_vars
=============================================================================

--------------------------- MODULE Specifications ---------------------------
(***************************************************************************)
(* From an option to a specification: confirmOption of C12 and the C13     *)
(* specifications (PostgresSpecificationRepository with its service) on    *)
(* the branches of the proposed profile, which C5 edits as well.           *)
(*                                                                         *)
(* Every mutation is one transaction under the lock of the project, so it  *)
(* is one action; what a request reads before it is verified again inside. *)
(* A content is the list of the changes that made it of the derived base.  *)
(* Every option places one element; a specification is named by the option *)
(* it was made of, a scene job by the preview whose confirmation asked for *)
(* it.  Refused requests, and replays except for the scene they ask for    *)
(* again, change nothing and are left out.                                 *)
(***************************************************************************)
EXTENDS Integers, Sequences, SequencesExt, FiniteSets, Rows

CONSTANTS
    Jobs,             \* design option jobs, each with its set published
    Options,          \* their options
    JobOf,            \* the job of an option
    Assets,           \* catalog asset versions that may replace the element
    Requests,         \* calls of the service that ask C10 for a scene
    MaximumRevision,  \* bound: the revision of a branch or a specification
    MaximumPreviews,  \* bound: substitution previews
    None              \* an absent reference

\* What holds of the constants: every option is of a job.
SpecificationConstants == JobOf \in [Options -> Jobs]

VARIABLES
    base,       \* working_snapshot_id of every job; None before the job
    snapshots,  \* canonical_model_snapshots of the profile: id -> version, content
    profile,    \* canonical_model_profiles: the current snapshot, or None
    branches,   \* model_branches made by confirmations: option -> source, head, revision
    specs,      \* specifications: option -> its specification_revisions
    previews,   \* specification_substitution_previews with their heads
    overdue,    \* options and previews whose expires_at has passed
    withdrawn,  \* assets no longer approved
    links,      \* specification_scene_links: preview -> state
    scenes,     \* what C10 has a job for: preview -> snapshot
    request     \* what each call is doing

model == <<snapshots, profile, branches>>
vars == <<base, snapshots, profile, branches, specs, previews, overdue, withdrawn,
          links, scenes, request>>

-----------------------------------------------------------------------------
(* Snapshots.  The working snapshot of job j is <<j, 0>>, the snapshot of  *)
(* revision r of the branch of option o is <<o, r>>.                       *)

Version(id) == snapshots[id].version

Content(id) == snapshots[id].content

NextVersion(table, current) == IF current = None THEN 1 ELSE table[current].version + 1

\* A change: the bundle that places the element of option o, its replacement
\* by an asset, or anything else.
Bundle(o) == <<o, None>>

Replacement(o, asset) == <<o, asset>>

OtherChange == <<None, None>>

\* A commit: its snapshot, the profile's pointer and the branch's head.
Commit(table, o, branch, content) ==
    LET id == <<o, branch.revision + 1>>
    IN  /\ snapshots' = Put(table, id, [version |-> NextVersion(table, profile), content |-> content])
        /\ profile' = id
        /\ branches' = Put(branches, o, [branch EXCEPT !.head = id, !.revision = @ + 1])

-----------------------------------------------------------------------------
(* C12.                                                                    *)

\* createJob: the working model.  Without a proposed model it is a new clone
\* of the source; from the proposed source it is the current snapshot.
CreateJob(j) ==
    /\ base[j] = None
    /\ base' = [base EXCEPT ![j] = IF profile = None THEN <<j, 0>> ELSE profile]
    /\ UNCHANGED <<model, specs, previews, overdue, withdrawn, links, scenes, request>>

\* The exact working base is there, or it can be seeded.
BaseIsFree(j) == base[j] \in DOMAIN snapshots \/ profile = None

\* The content the option's bundle is applied to.
CurrentContent(table, source, current) == table[current].content

BaseContent(table, source, current) == table[source].content

\* confirmOption: the base is seeded if need be, and the option becomes the
\* first commit of a branch of its own.
Seeded(id) ==
    IF id \in DOMAIN snapshots THEN snapshots ELSE Put(snapshots, id, [version |-> 1, content |-> <<>>])

ConfirmOption(o) ==
    LET source == base[JobOf[o]]
        table == Seeded(source)
        current == IF profile = None THEN source ELSE profile
        id == <<o, 1>>
    IN  /\ o \notin DOMAIN branches /\ o \notin overdue
        /\ source # None /\ BaseIsFree(JobOf[o])
        /\ snapshots' = Put(table, id, [version |-> NextVersion(table, current),
                                        content |-> Append(BaseContent(table, source, current), Bundle(o))])
        /\ profile' = id
        /\ branches' = Put(branches, o, [source |-> source, head |-> id, revision |-> 1])
        /\ UNCHANGED <<base, specs, previews, overdue, withdrawn, links, scenes, request>>

\* C5 commits operations of a user to a branch.
Edit(o, change) ==
    /\ o \in DOMAIN branches /\ branches[o].revision < MaximumRevision
    /\ Commit(snapshots, o, branches[o], Append(Content(branches[o].head), change))
    /\ UNCHANGED <<base, specs, previews, overdue, withdrawn, links, scenes, request>>

-----------------------------------------------------------------------------
(* C13: specifications and previews.                                       *)

\* The last change of the option's element in a content.
LastChange(o, content) ==
    CHOOSE i \in DOMAIN content :
        content[i][1] = o /\ \A k \in DOMAIN content : k > i => content[k][1] # o

\* The asset of that element; None is the one the option placed.
AssetIn(o, content) == content[LastChange(o, content)][2]

Current(o) == Last(specs[o])

\* What a revision pins and says.
Revision(branchRevision, snapshot, asset) ==
    [branchRevision |-> branchRevision, snapshot |-> snapshot, asset |-> asset]

\* createSpecification, once per confirmation, while the branch stands where
\* the confirmation left it.
CreateSpecification(o) ==
    /\ o \in DOMAIN branches \ DOMAIN specs
    /\ branches[o].revision = 1
    /\ specs' = Put(specs, o, <<Revision(1, branches[o].head, None)>>)
    /\ UNCHANGED <<base, model, previews, overdue, withdrawn, links, scenes, request>>

NextBoardAtHead(o) == Revision(branches[o].revision, branches[o].head, Current(o).asset)

\* updateSelectionBoard: one more revision with the same pins, wherever the
\* branch is now.
NextBoard(o) == Current(o)

UpdateSelectionBoard(o) ==
    /\ o \in DOMAIN specs /\ Len(specs[o]) < MaximumRevision
    /\ specs' = [specs EXCEPT ![o] = Append(@, NextBoard(o))]
    /\ UNCHANGED <<base, model, previews, overdue, withdrawn, links, scenes, request>>

\* The specification pins the very head of its branch.
PinsHead(o) ==
    /\ Current(o).branchRevision = branches[o].revision
    /\ Current(o).snapshot = branches[o].head

\* createPreview: resolveSubstitutionSource and persistSubstitutionPreview.
CreatePreview(o, asset) ==
    /\ o \in DOMAIN specs /\ PinsHead(o) /\ asset \notin withdrawn
    /\ Len(previews) < MaximumPreviews
    /\ previews' = Append(previews,
           [spec |-> o, specRevision |-> Len(specs[o]), branchRevision |-> branches[o].revision,
            base |-> branches[o].head, asset |-> asset, state |-> "pending"])
    /\ UNCHANGED <<base, model, specs, overdue, withdrawn, links, scenes, request>>

-----------------------------------------------------------------------------
(* C13: confirmations and their scenes.                                    *)

Idle == [phase |-> "idle"]

Asks(q, phase, p) == request' = [request EXCEPT ![q] = [phase |-> phase, preview |-> p]]

AnyBranch(preview) == TRUE

\* The branch is where the preview found it.
BranchIsExact(preview) ==
    /\ branches[preview.spec].revision = preview.branchRevision
    /\ branches[preview.spec].head = preview.base

MayConfirm(p) ==
    LET preview == previews[p]
        o == preview.spec
    IN  /\ preview.state = "pending" /\ p \notin overdue
        /\ Len(specs[o]) = preview.specRevision
        /\ BranchIsExact(preview)
        /\ Current(o).branchRevision = preview.branchRevision
        /\ Current(o).snapshot = preview.base
        /\ preview.asset \notin withdrawn

\* confirmSubstitution: the commit, the revision that pins it, the preview's
\* head and the pending scene link, in one transaction.
ConfirmSubstitution(q, p) ==
    LET preview == previews[p]
        o == preview.spec
        revision == branches[o].revision + 1
    IN  /\ request[q] = Idle /\ MayConfirm(p) /\ branches[o].revision < MaximumRevision
        /\ Commit(snapshots, o, branches[o], Append(Content(branches[o].head), Replacement(o, preview.asset)))
        /\ specs' = [specs EXCEPT ![o] = Append(@, Revision(revision, <<o, revision>>, preview.asset))]
        /\ previews' = [previews EXCEPT ![p].state = "confirmed"]
        /\ links' = Put(links, p, "pending")
        /\ Asks(q, "requesting", p)
        /\ UNCHANGED <<base, overdue, withdrawn, scenes>>

\* The confirmation is sent again with its key, or retryScene is called.
ConfirmAgain(q, p) ==
    /\ request[q] = Idle /\ p \in DOMAIN links
    /\ Asks(q, "requesting", p)
    /\ UNCHANGED <<base, model, specs, previews, overdue, withdrawn, links, scenes>>

RetryScene(q, p) ==
    /\ request[q] = Idle /\ p \in DOMAIN links
    /\ Asks(q, "retrying", p)
    /\ UNCHANGED <<base, model, specs, previews, overdue, withdrawn, links, scenes>>

\* The revision that confirmed a preview.
ConfirmedRevision(p) == specs[previews[p].spec][previews[p].specRevision + 1]

HeadSnapshot(p) == branches[previews[p].spec].head

SceneSnapshot(p) == ConfirmedRevision(p).snapshot

Stop(q) == request' = [request EXCEPT ![q] = Idle]

Goes(q, phase) == request' = [request EXCEPT ![q].phase = phase]

\* requestExactRevision: the C10 job has the link's id and is made once.  Its
\* answer may be lost, or C10 fails.
RequestScene(q, made, answered) ==
    LET p == request[q].preview
    IN  /\ request[q].phase \in {"requesting", "retrying"}
        /\ answered => made
        /\ scenes' = IF made /\ p \notin DOMAIN scenes
                     THEN Put(scenes, p, SceneSnapshot(p))
                     ELSE scenes
        /\ CASE answered -> Goes(q, IF request[q].phase = "retrying" THEN "noting" ELSE "recording")
             [] ~answered /\ request[q].phase = "requesting" -> Goes(q, "excusing")
             [] OTHER -> Stop(q)
        /\ UNCHANGED <<base, model, specs, previews, overdue, withdrawn, links>>

\* recordSceneRequest(requested); for a confirmation its failure is recorded.
RecordRequested(q, recorded) ==
    /\ request[q].phase \in {"recording", "noting"}
    /\ links' = IF recorded THEN [links EXCEPT ![request[q].preview] = "requested"] ELSE links
    /\ IF recorded \/ request[q].phase = "noting" THEN Stop(q) ELSE Goes(q, "excusing")
    /\ UNCHANGED <<base, model, specs, previews, overdue, withdrawn, scenes>>

\* recordSceneRequest(retry-required): c13_validate_scene_link refuses to take
\* back a request.
StaysRequested(p) == links[p] = "requested"

RecordRetryRequired(q) ==
    LET p == request[q].preview
    IN  /\ request[q].phase = "excusing"
        /\ links' = IF StaysRequested(p) THEN links ELSE [links EXCEPT ![p] = "retry-required"]
        /\ Stop(q)
        /\ UNCHANGED <<base, model, specs, previews, overdue, withdrawn, scenes>>

\* The process stops between two transactions.
Crash(q) ==
    /\ request[q] # Idle
    /\ Stop(q)
    /\ UNCHANGED <<base, model, specs, previews, overdue, withdrawn, links, scenes>>

-----------------------------------------------------------------------------

\* expires_at passes; an asset is withdrawn.
Expire(x) ==
    /\ overdue' = overdue \cup {x}
    /\ UNCHANGED <<base, model, specs, previews, withdrawn, links, scenes, request>>

Withdraw(asset) ==
    /\ withdrawn' = withdrawn \cup {asset}
    /\ UNCHANGED <<base, model, specs, previews, overdue, links, scenes, request>>

Init ==
    /\ base = [j \in Jobs |-> None]
    /\ snapshots = NoRows
    /\ profile = None
    /\ branches = NoRows
    /\ specs = NoRows
    /\ previews = <<>>
    /\ overdue = {}
    /\ withdrawn = {}
    /\ links = NoRows
    /\ scenes = NoRows
    /\ request = [q \in Requests |-> Idle]

Changes == (Options \X (Assets \cup {None})) \cup {OtherChange}

OptionStep(o) ==
    \/ ConfirmOption(o) \/ CreateSpecification(o) \/ UpdateSelectionBoard(o)
    \/ \E change \in ({o} \X Assets) \cup {OtherChange} : Edit(o, change)
    \/ \E asset \in Assets : CreatePreview(o, asset)

RequestStep(q) ==
    \/ \E p \in DOMAIN previews : ConfirmSubstitution(q, p) \/ ConfirmAgain(q, p) \/ RetryScene(q, p)
    \/ \E made, answered \in BOOLEAN : RequestScene(q, made, answered)
    \/ \E recorded \in BOOLEAN : RecordRequested(q, recorded)
    \/ RecordRetryRequired(q) \/ Crash(q)

Next ==
    \/ \E j \in Jobs : CreateJob(j)
    \/ \E o \in Options : OptionStep(o)
    \/ \E q \in Requests : RequestStep(q)
    \/ \E x \in Options \cup DOMAIN previews : Expire(x)
    \/ \E asset \in Assets : Withdraw(asset)

Spec == Init /\ [][Next]_vars

-----------------------------------------------------------------------------
(* Properties.                                                             *)

\* Every revision of a specification pins a snapshot of its own branch at the
\* revision it names, and says of the element what that snapshot holds,
\* whatever C5 commits to the branch meanwhile.
SpecificationsDescribeTheirModel ==
    \A o \in DOMAIN specs :
        \A r \in DOMAIN specs[o] :
            LET revision == specs[o][r]
            IN  /\ revision.snapshot = <<o, revision.branchRevision>>
                /\ revision.asset = AssetIn(o, Content(revision.snapshot))

\* A confirmed substitution is its preview and nothing else: its revision
\* follows the previewed one, on both sides, and its snapshot is the previewed
\* snapshot with the previewed asset.
SubstitutionsAreTheirPreviews ==
    \A p \in DOMAIN previews :
        LET preview == previews[p]
            confirmed == ConfirmedRevision(p)
        IN  preview.state = "confirmed" =>
                /\ confirmed.branchRevision = preview.branchRevision + 1
                /\ Content(confirmed.snapshot) = 
                       Append(Content(preview.base), Replacement(preview.spec, preview.asset))

\* A link that says "requested" is true: C10 has the scene job of that id, for
\* the snapshot the confirmed revision pins, however its requests raced.
SceneLinksAreTruthful ==
    \A p \in DOMAIN links :
        links[p] = "requested" =>
            p \in DOMAIN scenes /\ scenes[p] = ConfirmedRevision(p).snapshot

\* The history of every branch: its source, then one change after the other.
Entry(o, r) ==
    IF r = 0 THEN [content |-> Content(branches[o].source), operations |-> {}]
    ELSE [content |-> Content(<<o, r>>), operations |-> {Last(Content(<<o, r>>))}]

BranchHistories == [o \in DOMAIN branches |-> [r \in 0..branches[o].revision |-> Entry(o, r)]]

History == INSTANCE ProposedHistory WITH
    Derived <- <<>>, BranchIds <- Options, Contents <- Seq(Changes), Operations <- Changes,
    Reduce <- [change \in Seq(Changes) \X Changes |-> Append(change[1], change[2])],
    history <- BranchHistories

\* Confirmations write the tables of C5 themselves, and keep its promise: a
\* branch is an append-only list of contents, each made of the one before by
\* the operations committed with it.
ImplementsBranchHistory == History!ProposalSpec
=============================================================================

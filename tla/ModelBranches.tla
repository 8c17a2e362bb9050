---------------------------- MODULE ModelBranches ----------------------------
(***************************************************************************)
(* The C5 model-operation repository (PostgresModelOperationRepository):   *)
(* one canonical model profile with its immutable snapshots, its branches, *)
(* the commits of every branch, expiring previews, idempotency records and *)
(* the transactional outbox.                                               *)
(*                                                                         *)
(* Every mutating handler is one database transaction that begins by       *)
(* locking the project row (lockProject), so a handler is one action.      *)
(* What remains concurrent is what clients know: a request carries the     *)
(* revision and head hash its sender last saw, which may be stale, and may *)
(* be sent twice.  A request that the handler refuses, and the replay of a *)
(* request already answered, change nothing and are stuttering steps; what *)
(* a replay answers is ReplayedResponse.                                   *)
(*                                                                         *)
(* Canonical JSON is deterministic and SHA-256 is taken as injective, so a *)
(* snapshot's hash is its content.  The same content may occur in several  *)
(* snapshots: an edit and its inverse give back the first hash.            *)
(***************************************************************************)
EXTENDS Naturals, Rows

CONSTANTS
    Actors,       \* users allowed to edit the project
    Keys,         \* Idempotency-Key values
    SnapshotIds,  \* bounds the snapshots of the profile
    BranchIds,    \* bounds its branches
    PreviewIds,   \* bounds the previews ever made
    Contents,     \* canonical snapshot contents, that is, their hashes
    Operations,   \* lists of typed operations a client may ask for
    Reduce,       \* reduceModelOperations
    Blocked,      \* the result of a reduction with blocking findings
    None          \* an absent reference

ASSUME ReduceAssumption ==
    /\ Blocked \notin Contents
    /\ Reduce \in [Contents \X Operations -> Contents \cup {Blocked}]

\* NULL is no row and no reference to one.
ASSUME NoneAssumption ==
    None \notin SnapshotIds \cup PreviewIds \cup [snapshot : SnapshotIds, version : Nat]

VARIABLES
    snapshots,    \* canonical_model_snapshots: id -> version and content
    profile,      \* canonical_model_profiles: the current snapshot pointer
    branches,     \* model_branches: id -> source, head, revision
    commits,      \* model_operation_commits with their envelopes,
                  \* by <<branch, revision>>
    previews,     \* model_operation_previews
    apiExpired,   \* previews whose expires_at the API clock has reached
    dbExpired,    \* previews whose expires_at the database clock has reached
    idempotency,  \* model_operation_idempotency: key -> request and response
    outbox        \* model_transactional_outbox (model_domain_audit_events
                  \* gets the same rows)

vars == <<snapshots, profile, branches, commits, previews, apiExpired,
          dbExpired, idempotency, outbox>>

history == <<snapshots, profile, branches, commits, outbox>>
clocks == <<apiExpired, dbExpired>>

-----------------------------------------------------------------------------
(* Rows.                                                                   *)

Snapshot == [version : Nat \ {0}, content : Contents]
Branch == [source : SnapshotIds, head : SnapshotIds, revision : Nat]

\* The operation envelopes of a commit: a list of public operations, or the
\* single internal operation that names the snapshot it takes over.
Envelope ==
    [type : {"operations"}, operations : Operations] \cup
    [type : {"snapshot.initialize.v1", "snapshot.restore.v1"}, source : SnapshotIds]

Commit ==
    [preview : PreviewIds \cup {None}, parent : SnapshotIds,
     snapshot : SnapshotIds, envelope : Envelope, committedBy : Actors]

PreviewRow ==
    [branch : BranchIds, createdBy : Actors, baseRevision : Nat,
     base : SnapshotIds, operations : Operations, result : Contents \cup {Blocked}]

ContentOf(snapshot) == snapshots[snapshot].content
HeadContent(b) == ContentOf(branches[b].head)

-----------------------------------------------------------------------------
(* Parts the handlers share.                                               *)

\* claimIdempotency: the INSERT ... ON CONFLICT DO NOTHING took the key.  A
\* key already taken is a replay when actor, operation, body and branch are
\* the recorded ones, a conflict otherwise; neither changes anything.
ClaimsAnyKey(key) == TRUE

Claims(key) == key \notin DOMAIN idempotency

\* completeIdempotency, in the transaction that claimed the key.
Complete(key, request, kind, response) ==
    idempotency' = Put(idempotency, key,
        [request |-> request, kind |-> kind, response |-> response])

\* insertSnapshot: the next version of the profile, and the profile pointer.
InsertSnapshotKeepingPointer(id, version, content) ==
    /\ snapshots' = Put(snapshots, id, [version |-> version, content |-> content])
    /\ profile' = [snapshot |-> IF profile = None THEN id ELSE profile.snapshot,
                   version |-> version]

InsertSnapshot(id, version, content) ==
    /\ snapshots' = Put(snapshots, id, [version |-> version, content |-> content])
    /\ profile' = [snapshot |-> id, version |-> version]

\* appendAuditAndOutbox.
RestoreWithoutEvent(event, b, revision, snapshot) ==
    outbox' = outbox \cup
        {[event |-> e, branch |-> b, revision |-> revision, snapshot |-> snapshot] :
            e \in {event} \ {"snapshot.restore.v1"}}

AppendAuditAndOutbox(event, b, revision, snapshot) ==
    outbox' = outbox \cup
        {[event |-> event, branch |-> b, revision |-> revision, snapshot |-> snapshot]}

\* assertExpectedBranch: the caller saw this very revision and this head.
ExpectedHashOnly(b, revision, sha) == HeadContent(b) = sha

ExpectedBranch(b, revision, sha) ==
    /\ branches[b].revision = revision
    /\ HeadContent(b) = sha

UsedPreviewIds ==
    {idempotency[k].response :
        k \in {key \in DOMAIN idempotency : idempotency[key].kind = "preview"}}

CommittedPreviews == {commits[c].preview : c \in DOMAIN commits}

\* The row of the branch after a commit: revision plus one, head moved.
AdvancedWithoutHead(b, snapshot) ==
    [source |-> branches[b].source, head |-> branches[b].head,
     revision |-> branches[b].revision + 1]

Advanced(b, snapshot) ==
    [source |-> branches[b].source, head |-> snapshot,
     revision |-> branches[b].revision + 1]

\* The snapshot a new commit of the branch builds on.
ParentFromProfile(b) == profile.snapshot

Parent(b) == branches[b].head

\* #persistCommit: snapshot, commit, envelopes, branch head, audit and outbox.
PersistCommit(actor, b, content, envelope, preview, event) ==
    LET snapshot == Fresh(SnapshotIds, DOMAIN snapshots)
        revision == branches[b].revision + 1
    IN  /\ SnapshotIds \ DOMAIN snapshots # {}
        /\ InsertSnapshot(snapshot, profile.version + 1, content)
        /\ <<b, revision>> \notin DOMAIN commits
        /\ commits' = Put(commits, <<b, revision>>,
              [preview |-> preview, parent |-> Parent(b),
               snapshot |-> snapshot, envelope |-> envelope, committedBy |-> actor])
        /\ branches' = Put(branches, b, Advanced(b, snapshot))
        /\ AppendAuditAndOutbox(event, b, revision, snapshot)

-----------------------------------------------------------------------------
(* Handlers.                                                               *)

\* initialize: the first snapshot of the profile, the branch Main from it and
\* Main's first commit, whose parent and result are that snapshot.
Initialize(key, actor, content) ==
    LET request == [operation |-> "snapshot.initialize.v1", actor |-> actor,
                    snapshot |-> content]
        id == Fresh(SnapshotIds, DOMAIN snapshots)
        b == Fresh(BranchIds, DOMAIN branches)
    IN  /\ Claims(key)
        /\ profile = None
        /\ SnapshotIds \ DOMAIN snapshots # {} /\ BranchIds \ DOMAIN branches # {}
        /\ InsertSnapshot(id, 1, content)
        /\ branches' = Put(branches, b, [source |-> id, head |-> id, revision |-> 1])
        /\ commits' = Put(commits, <<b, 1>>,
              [preview |-> None, parent |-> id, snapshot |-> id, committedBy |-> actor,
               envelope |-> [type |-> "snapshot.initialize.v1", source |-> id]])
        /\ AppendAuditAndOutbox("snapshot.initialize.v1", b, 1, id)
        /\ Complete(key, request, "snapshot", id)
        /\ UNCHANGED <<previews, clocks>>

\* createBranch: revision 0 on an exact snapshot of the profile.
CreateBranch(key, actor, source, sha) ==
    LET request == [operation |-> "model.branch.create", actor |-> actor,
                    source |-> source, sha |-> sha]
        b == Fresh(BranchIds, DOMAIN branches)
    IN  /\ source \in DOMAIN snapshots /\ ContentOf(source) = sha
        /\ Claims(key)
        /\ BranchIds \ DOMAIN branches # {}
        /\ branches' = Put(branches, b, [source |-> source, head |-> source, revision |-> 0])
        /\ AppendAuditAndOutbox("model.branch.created.v1", b, 0, source)
        /\ Complete(key, request, "branch", b)
        /\ UNCHANGED <<snapshots, profile, commits, previews, clocks>>

\* preview: reduces the operations on the head and keeps the outcome, blocking
\* findings included; the model itself is untouched.
Preview(key, actor, b, revision, sha, operations) ==
    LET request == [operation |-> "model.operation.preview", actor |-> actor, branch |-> b,
                    revision |-> revision, sha |-> sha, operations |-> operations]
        p == Fresh(PreviewIds, UsedPreviewIds)
    IN  /\ b \in DOMAIN branches
        /\ Claims(key)
        /\ ExpectedBranch(b, revision, sha)
        /\ PreviewIds \ UsedPreviewIds # {}
        /\ previews' = Put(previews, p,
              [branch |-> b, createdBy |-> actor, baseRevision |-> branches[b].revision,
               base |-> branches[b].head, operations |-> operations,
               result |-> Reduce[<<HeadContent(b), operations>>]])
        /\ Complete(key, request, "preview", p)
        /\ UNCHANGED <<history, clocks>>

\* The preview was made on the present revision and head of the branch.
MadeOnHashOnly(p, b) == ContentOf(previews[p].base) = HeadContent(b)

MadeOnHead(p, b) ==
    /\ previews[p].baseRevision = branches[b].revision
    /\ ContentOf(previews[p].base) = HeadContent(b)

\* A preview with a blocking finding is kept but never committed.
HasNoBlockingFindings(p) == previews[p].result # Blocked

\* The preview a commit names can be confirmed: it was never committed, it is
\* this actor's, unexpired by the API clock, made on the present head, and it
\* has no blocking finding.
Confirmable(p, actor, b) ==
    /\ p \notin CommittedPreviews
    /\ p \in DOMAIN previews
    /\ previews[p].branch = b
    /\ previews[p].createdBy = actor
    /\ p \notin apiExpired
    /\ MadeOnHead(p, b)
    /\ HasNoBlockingFindings(p)

\* commit: recomputes the preview on the head and persists the result.
CommitPreview(key, actor, b, revision, sha, p) ==
    LET request == [operation |-> "model.operation.commit", actor |-> actor, branch |-> b,
                    revision |-> revision, sha |-> sha, preview |-> p]
        result == Reduce[<<HeadContent(b), previews[p].operations>>]
    IN  /\ b \in DOMAIN branches
        /\ Claims(key)
        /\ ExpectedBranch(b, revision, sha)
        /\ Confirmable(p, actor, b)
        /\ result = previews[p].result
        /\ PersistCommit(actor, b, result,
              [type |-> "operations", operations |-> previews[p].operations], p,
              "model.operations.committed.v1")
        /\ Complete(key, request, "commit", <<b, branches[b].revision + 1>>)
        /\ UNCHANGED <<previews, clocks>>

\* restore: takes over the content of an exact historical snapshot.
Restore(key, actor, b, revision, sha, source, sourceSha) ==
    LET request == [operation |-> "model.branch.restore", actor |-> actor, branch |-> b,
                    revision |-> revision, sha |-> sha,
                    source |-> source, sourceSha |-> sourceSha]
    IN  /\ b \in DOMAIN branches
        /\ Claims(key)
        /\ ExpectedBranch(b, revision, sha)
        /\ source \in DOMAIN snapshots /\ ContentOf(source) = sourceSha
        /\ PersistCommit(actor, b, sourceSha,
              [type |-> "snapshot.restore.v1", source |-> source], None,
              "snapshot.restore.v1")
        /\ Complete(key, request, "commit", <<b, branches[b].revision + 1>>)
        /\ UNCHANGED <<previews, clocks>>

\* expires_at is compared with the API clock by commit and with the database
\* clock by the cleanup; the clocks differ, and so may those of two API hosts.
ExpireForApi(p) ==
    /\ p \in DOMAIN previews \ apiExpired
    /\ apiExpired' = apiExpired \cup {p}
    /\ UNCHANGED <<history, previews, dbExpired, idempotency>>

ExpireForDatabase(p) ==
    /\ p \in DOMAIN previews \ dbExpired
    /\ dbExpired' = dbExpired \cup {p}
    /\ UNCHANGED <<history, previews, apiExpired, idempotency>>

\* cleanupExpiredPreviews: one DELETE of every expired preview.  A commit's
\* reference to its preview is ON DELETE RESTRICT, so a single expired preview
\* that was committed makes the statement fail and keeps them all.
CleanupExpiredPreviews ==
    LET expired == DOMAIN previews \cap dbExpired
    IN  /\ expired # {}
        /\ expired \cap CommittedPreviews = {}
        /\ previews' = Without(previews, expired)
        /\ apiExpired' = apiExpired \ expired
        /\ dbExpired' = dbExpired \ expired
        /\ UNCHANGED <<history, idempotency>>

-----------------------------------------------------------------------------
Init ==
    /\ snapshots = NoRows
    /\ profile = None
    /\ branches = NoRows
    /\ commits = NoRows
    /\ previews = NoRows
    /\ apiExpired = {}
    /\ dbExpired = {}
    /\ idempotency = NoRows
    /\ outbox = {}

\* What a client may put in a request: any revision and any hash it has seen.
Revisions == {branches[b].revision : b \in DOMAIN branches} \cup
             {c[2] - 1 : c \in DOMAIN commits}

\* Every handler claims its key first; an answered one is only replayed.
HandlerStep(key, actor) ==
    /\ Claims(key)
    /\ \/ \E content \in Contents : Initialize(key, actor, content)
       \/ \E source \in SnapshotIds, sha \in Contents : CreateBranch(key, actor, source, sha)
       \/ \E b \in BranchIds, revision \in Revisions, sha \in Contents :
             \/ \E operations \in Operations : Preview(key, actor, b, revision, sha, operations)
             \/ \E p \in PreviewIds : CommitPreview(key, actor, b, revision, sha, p)
             \/ \E source \in SnapshotIds, sourceSha \in Contents :
                   Restore(key, actor, b, revision, sha, source, sourceSha)

Next ==
    \/ \E key \in Keys, actor \in Actors : HandlerStep(key, actor)
    \/ \E p \in PreviewIds : ExpireForApi(p) \/ ExpireForDatabase(p)
    \/ CleanupExpiredPreviews

Spec == Init /\ [][Next]_vars

-----------------------------------------------------------------------------
(* Replay of the retained history (replayModelOperationHistory) and of     *)
(* requests already answered.                                              *)

RevisionsOf(b) == {c[2] : c \in {d \in DOMAIN commits : d[1] = b}}

\* The snapshot a branch was at when it had this revision.
SnapshotAt(b, revision) ==
    IF revision = 0 THEN branches[b].source ELSE commits[<<b, revision>>].snapshot

\* The content replay has reached before the commit of this revision: every
\* earlier commit has been compared with its retained hash by then.
ContentBefore(b, revision) == ContentOf(SnapshotAt(b, revision - 1))

\* Replaying one commit's envelope on that content gives the committed hash.
EnvelopeReplays(b, revision) ==
    LET c == commits[<<b, revision>>]
        current == ContentBefore(b, revision)
    IN  \/ /\ c.envelope.type = "snapshot.initialize.v1"
           /\ revision = 1
           /\ c.envelope.source = branches[b].source
           /\ current = ContentOf(c.snapshot)
        \/ /\ c.envelope.type = "snapshot.restore.v1"
           /\ c.envelope.source \in DOMAIN snapshots
           /\ ContentOf(c.envelope.source) = ContentOf(c.snapshot)
        \/ /\ c.envelope.type = "operations"
           /\ Reduce[<<current, c.envelope.operations>>] = ContentOf(c.snapshot)

\* verifyReplay of one branch, run on a single state of the database.
ReplayVerified(b) ==
    /\ RevisionsOf(b) = 1..branches[b].revision
    /\ \A revision \in 1..branches[b].revision : EnvelopeReplays(b, revision)
    /\ HeadContent(b) = ContentBefore(b, branches[b].revision + 1)

\* #loadCommitResponse: the branch as the commit left it, not as it is now.
CommitResponseOfBranch(c) ==
    [head |-> branches[c[1]].head, revision |-> branches[c[1]].revision, commit |-> commits[c]]

CommitResponse(c) ==
    [head |-> commits[c].snapshot, revision |-> c[2], commit |-> commits[c]]

\* What a handler answers to the exact repetition of the request of this key.
ReplayedResponse(key) ==
    LET id == idempotency[key].response
    IN  CASE idempotency[key].kind = "snapshot" -> snapshots[id]
          [] idempotency[key].kind = "branch" -> branches[id]
          [] idempotency[key].kind = "preview" ->
               IF id \in DOMAIN previews THEN previews[id] ELSE None
          [] idempotency[key].kind = "commit" -> CommitResponse(id)

-----------------------------------------------------------------------------
(* Properties.                                                             *)

TypeOK ==
    /\ DOMAIN snapshots \subseteq SnapshotIds
    /\ \A s \in DOMAIN snapshots : snapshots[s] \in Snapshot
    /\ profile = None \/ profile \in [snapshot : DOMAIN snapshots, version : Nat \ {0}]
    /\ DOMAIN branches \subseteq BranchIds
    /\ \A b \in DOMAIN branches : branches[b] \in Branch
    /\ DOMAIN commits \subseteq BranchIds \X (Nat \ {0})
    /\ \A c \in DOMAIN commits : commits[c] \in Commit
    /\ DOMAIN previews \subseteq PreviewIds
    /\ \A p \in DOMAIN previews : previews[p] \in PreviewRow
    /\ apiExpired \subseteq DOMAIN previews
    /\ dbExpired \subseteq DOMAIN previews
    /\ DOMAIN idempotency \subseteq Keys
    /\ \A e \in outbox : e.branch \in DOMAIN branches /\ e.snapshot \in DOMAIN snapshots

\* Replaying the retained envelopes of any branch from its source reproduces
\* every committed hash and ends at the branch head (C5 contract, replay).
EveryBranchReplays == \A b \in DOMAIN branches : ReplayVerified(b)

\* Commits of a branch form one chain of snapshots from source to head: no
\* commit builds on anything but the commit right before it, so none is lost.
HistoryIsOneChain ==
    \A b \in DOMAIN branches :
        /\ RevisionsOf(b) = 1..branches[b].revision
        /\ \A revision \in 1..branches[b].revision :
              commits[<<b, revision>>].parent = SnapshotAt(b, revision - 1)
        /\ branches[b].head = SnapshotAt(b, branches[b].revision)

\* Optimistic concurrency as clients rely on it: the commit a request made is
\* the one right after the revision its sender had seen, on the hash it had
\* seen, even when an edit and its inverse brought the same hash back.
CommitsFollowWhatTheCallerSaw ==
    \A k \in DOMAIN idempotency :
        LET request == idempotency[k].request
            c == idempotency[k].response
        IN  idempotency[k].kind = "commit" =>
              /\ c \in DOMAIN commits
              /\ c[1] = request.branch
              /\ c[2] = request.revision + 1
              /\ ContentOf(commits[c].parent) = request.sha

\* What is committed from a preview is what its author was shown: the same
\* branch, base and result, confirmed by the author, and only once.
CommitsAreTheirPreviews ==
    \A c \in DOMAIN commits :
        LET p == commits[c].preview
        IN  p # None =>
              /\ p \in DOMAIN previews
              /\ previews[p].branch = c[1]
              /\ previews[p].createdBy = commits[c].committedBy
              /\ previews[p].baseRevision + 1 = c[2]
              /\ previews[p].base = commits[c].parent
              /\ previews[p].result = ContentOf(commits[c].snapshot)
              /\ \A d \in DOMAIN commits : commits[d].preview = p => d = c

\* Snapshot versions are unique and gap-free across the branches that share
\* the profile, and the profile pointer names the newest snapshot.
ProfilePointsToNewest ==
    IF profile = None THEN snapshots = NoRows
    ELSE /\ snapshots[profile.snapshot].version = profile.version
         /\ {snapshots[s].version : s \in DOMAIN snapshots} = 1..profile.version
         /\ \A s, t \in DOMAIN snapshots :
               snapshots[s].version = snapshots[t].version => s = t

\* The outbox (and the audit) has one event for each commit and each created
\* branch, naming the snapshot that was committed, and nothing else.
EventsMatchHistory ==
    /\ \A c \in DOMAIN commits :
          \E e \in outbox : /\ e.branch = c[1] /\ e.revision = c[2]
                            /\ e.snapshot = commits[c].snapshot
    /\ \A e \in outbox : e.revision > 0 =>
          /\ <<e.branch, e.revision>> \in DOMAIN commits
          /\ commits[<<e.branch, e.revision>>].snapshot = e.snapshot
    /\ \A e, f \in outbox : e.branch = f.branch /\ e.revision = f.revision => e = f

\* A request is executed once however often it is repeated: each commit is the
\* recorded outcome of exactly one key (of an initialisation: its snapshot).
EveryCommitHasItsKey ==
    \A c \in DOMAIN commits :
        LET ProducedBy(k) ==
              \/ idempotency[k].kind = "commit" /\ idempotency[k].response = c
              \/ /\ idempotency[k].kind = "snapshot"
                 /\ idempotency[k].response = commits[c].snapshot
        IN  \E k \in DOMAIN idempotency :
              /\ ProducedBy(k)
              /\ \A j \in DOMAIN idempotency : ProducedBy(j) => j = k

\* What the tables beside the commits say of them is true: one event and one
\* key each.
CommitsAreOnRecord == EventsMatchHistory /\ EveryCommitHasItsKey

\* The answer to a repeated commit, restore or initialisation is the original
\* one, whatever has been committed since.
CommitReplaysAreStable ==
    [][\A k \in DOMAIN idempotency :
          idempotency[k].kind \in {"commit", "snapshot"} =>
             ReplayedResponse(k)' = ReplayedResponse(k)]_vars

-----------------------------------------------------------------------------
(* Refinement.                                                             *)

\* The history a branch stands for: its source, then one entry per commit.
EntryAt(b, revision) ==
    [content |-> ContentOf(SnapshotAt(b, revision)),
     operations |->
        IF revision = 0 \/ commits[<<b, revision>>].envelope.type # "operations" THEN {}
        ELSE {commits[<<b, revision>>].envelope.operations}]

Histories == [b \in DOMAIN branches |-> [r \in 0..branches[b].revision |-> EntryAt(b, r)]]

History == INSTANCE BranchHistory WITH history <- Histories

\* The repository implements append-only branch histories: previews, expiry,
\* cleanup, refused and repeated requests are invisible, and a commit or a
\* restore appends to exactly one branch what the abstract history allows.
ImplementsBranchHistory == History!Spec
=============================================================================

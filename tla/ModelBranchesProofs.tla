------------------------- MODULE ModelBranchesProofs -------------------------
(***************************************************************************)
(* Proofs about ModelBranches for every set of actors, keys, identifiers,  *)
(* contents and operations.  TypeOK is not inductive by itself; IInv adds  *)
(* what the handlers rely on, RecordsInv what the tables beside the        *)
(* commits say.                                                            *)
(***************************************************************************)
EXTENDS ModelBranches, TLAPS

-----------------------------------------------------------------------------
(* The inductive invariant.                                                *)

\* Every reference to a snapshot is to a row of the snapshot table, and a
\* profile that has snapshots has a current one.
ReferencesOK ==
    /\ \A s \in DOMAIN snapshots : profile \in [snapshot : DOMAIN snapshots, version : Nat \ {0}]
    /\ \A b \in DOMAIN branches :
          /\ branches[b].source \in DOMAIN snapshots
          /\ branches[b].head \in DOMAIN snapshots
    /\ \A c \in DOMAIN commits :
          /\ commits[c].parent \in DOMAIN snapshots
          /\ commits[c].snapshot \in DOMAIN snapshots
          /\ commits[c].envelope.type = "snapshot.restore.v1" =>
                commits[c].envelope.source \in DOMAIN snapshots
    /\ \A p \in DOMAIN previews : previews[p].base \in DOMAIN snapshots

\* The commits of a branch carry exactly the revisions 1..revision.
CommitKeysOK ==
    \A b \in BranchIds, r \in Nat \ {0} :
        <<b, r>> \in DOMAIN commits <=> b \in DOMAIN branches /\ r <= branches[b].revision

\* Every commit builds on the snapshot the branch had just before it, and the
\* head is the snapshot of the last one.
ChainOK ==
    /\ \A b \in DOMAIN branches : branches[b].head = SnapshotAt(b, branches[b].revision)
    /\ \A c \in DOMAIN commits : commits[c].parent = SnapshotAt(c[1], c[2] - 1)

\* Every retained envelope replays to the retained hash.
EnvelopesOK == \A c \in DOMAIN commits : EnvelopeReplays(c[1], c[2])

\* A preview's identifier is recorded with its key, so it is never given out
\* again; its base is what its branch was at; its result is the reduction.
PreviewsOK ==
    \A p \in DOMAIN previews :
        LET row == previews[p]
        IN  /\ p \in UsedPreviewIds
            /\ row.branch \in DOMAIN branches
            /\ row.baseRevision <= branches[row.branch].revision
            /\ row.base = SnapshotAt(row.branch, row.baseRevision)
            /\ row.result = Reduce[<<ContentOf(row.base), row.operations>>]

IInv ==
    /\ TypeOK
    /\ ReferencesOK
    /\ CommitKeysOK
    /\ ChainOK
    /\ EnvelopesOK
    /\ PreviewsOK
    /\ CommitsAreTheirPreviews
    /\ CommitsFollowWhatTheCallerSaw

-----------------------------------------------------------------------------
(* Tables.                                                                 *)

\* A fresh identifier is one of the identifiers and was not used.
LEMMA FreshIsUnused ==
    ASSUME NEW ids, NEW used, ids \ used # {}
    PROVE  Fresh(ids, used) \in ids \ used
  BY DEF Fresh

-----------------------------------------------------------------------------
(* What a step does to the history, handler by handler.                    *)

\* The rows #persistCommit adds: snapshot s and the commit of revision n.
RowsAdded(s, n, actor, b, content, envelope, preview) ==
    /\ n = branches[b].revision + 1
    /\ DOMAIN snapshots' = DOMAIN snapshots \cup {s}
    /\ snapshots'[s] \in Snapshot /\ snapshots'[s].content = content
    /\ \A t \in DOMAIN snapshots : snapshots'[t] = snapshots[t]
    /\ profile' \in [snapshot : DOMAIN snapshots', version : Nat \ {0}]
    /\ <<b, n>> \notin DOMAIN commits
    /\ DOMAIN commits' = DOMAIN commits \cup {<<b, n>>}
    /\ commits'[<<b, n>>] =
          [preview |-> preview, parent |-> branches[b].head, snapshot |-> s,
           envelope |-> envelope, committedBy |-> actor]
    /\ \A c \in DOMAIN commits : commits'[c] = commits[c]
    /\ DOMAIN branches' = DOMAIN branches
    /\ branches'[b] = [source |-> branches[b].source, head |-> s, revision |-> n]
    /\ \A a \in DOMAIN branches : a # b => branches'[a] = branches[a]

\* #persistCommit adds one snapshot and one commit, and advances one branch.
LEMMA PersistCommitRows ==
    ASSUME TypeOK, ReferencesOK,
           NEW actor \in Actors, NEW b \in DOMAIN branches, NEW content \in Contents,
           NEW envelope \in Envelope, NEW preview \in PreviewIds \cup {None}, NEW event,
           PersistCommit(actor, b, content, envelope, preview, event)
    PROVE  \E s \in SnapshotIds \ DOMAIN snapshots, n \in Nat \ {0} :
              /\ RowsAdded(s, n, actor, b, content, envelope, preview)
              /\ outbox' = outbox \cup
                    {[event |-> event, branch |-> b, revision |-> n, snapshot |-> s]}
  <1> DEFINE s == Fresh(SnapshotIds, DOMAIN snapshots)
             new == branches[b].revision + 1
  <1>1. s \in SnapshotIds \ DOMAIN snapshots
    BY FreshIsUnused DEF PersistCommit
  <1>2. /\ snapshots' = Put(snapshots, s, [version |-> profile.version + 1, content |-> content])
        /\ profile' = [snapshot |-> s, version |-> profile.version + 1]
    BY DEF PersistCommit, InsertSnapshot
  <1>3. new \in Nat \ {0} /\ profile.version \in Nat
    BY DEF TypeOK, Branch, ReferencesOK
  <1>4. /\ DOMAIN snapshots' = DOMAIN snapshots \cup {s}
        /\ snapshots'[s] = [version |-> profile.version + 1, content |-> content]
        /\ \A t \in DOMAIN snapshots : snapshots'[t] = snapshots[t]
    BY <1>1, <1>2 DEF Put
  <1>5. snapshots'[s] \in Snapshot
    BY <1>3, <1>4 DEF Snapshot
  <1>6. profile' \in [snapshot : DOMAIN snapshots', version : Nat \ {0}]
    BY <1>2, <1>3, <1>4
  <1>7. /\ <<b, new>> \notin DOMAIN commits
        /\ commits' = Put(commits, <<b, new>>,
              [preview |-> preview, parent |-> branches[b].head, snapshot |-> s,
               envelope |-> envelope, committedBy |-> actor])
    BY DEF PersistCommit, Parent
  <1>8. /\ DOMAIN commits' = DOMAIN commits \cup {<<b, new>>}
        /\ commits'[<<b, new>>] =
              [preview |-> preview, parent |-> branches[b].head, snapshot |-> s,
               envelope |-> envelope, committedBy |-> actor]
        /\ \A c \in DOMAIN commits : commits'[c] = commits[c]
    BY <1>7 DEF Put
  <1>9. branches' = Put(branches, b,
            [source |-> branches[b].source, head |-> s, revision |-> new])
    BY DEF PersistCommit, Advanced
  <1>10. /\ DOMAIN branches' = DOMAIN branches
         /\ branches'[b] = [source |-> branches[b].source, head |-> s, revision |-> new]
         /\ \A a \in DOMAIN branches : a # b => branches'[a] = branches[a]
    BY <1>9 DEF Put
  <1>11. outbox' = outbox \cup
            {[event |-> event, branch |-> b, revision |-> new, snapshot |-> s]}
    BY DEF PersistCommit, AppendAuditAndOutbox
  <1> HIDE DEF s, new
  <1>12. RowsAdded(s, new, actor, b, content, envelope, preview)
    BY <1>4, <1>5, <1>6, <1>7, <1>8, <1>10 DEF new, RowsAdded
  <1> QED
    BY <1>1, <1>3, <1>11, <1>12

\* completeIdempotency in the transaction that claimed the key.
LEMMA CompleteRows ==
    ASSUME NEW key \in Keys, NEW request, NEW kind, NEW response,
           Claims(key), Complete(key, request, kind, response)
    PROVE  /\ DOMAIN idempotency' = DOMAIN idempotency \cup {key}
           /\ key \notin DOMAIN idempotency
           /\ idempotency'[key] = [request |-> request, kind |-> kind, response |-> response]
           /\ \A k \in DOMAIN idempotency : idempotency'[k] = idempotency[k]
           /\ UsedPreviewIds \subseteq UsedPreviewIds'
           /\ kind = "preview" => response \in UsedPreviewIds'
  <1>1. /\ DOMAIN idempotency' = DOMAIN idempotency \cup {key}
        /\ key \notin DOMAIN idempotency
        /\ idempotency'[key] = [request |-> request, kind |-> kind, response |-> response]
        /\ \A k \in DOMAIN idempotency : idempotency'[k] = idempotency[k]
    BY DEF Claims, Complete, Put
  <1>2. UsedPreviewIds \subseteq UsedPreviewIds'
    BY <1>1 DEF UsedPreviewIds
  <1>3. kind = "preview" => response \in UsedPreviewIds'
    BY <1>1 DEF UsedPreviewIds
  <1> QED
    BY <1>1, <1>2, <1>3

\* A commit leaves what every branch was at before as it was.
LEMMA PastIsKept ==
    ASSUME CommitKeysOK, TypeOK,
           \A c \in DOMAIN commits : c \in DOMAIN commits' /\ commits'[c] = commits[c],
           \A a \in DOMAIN branches :
              a \in DOMAIN branches' /\ branches'[a].source = branches[a].source,
           NEW a \in DOMAIN branches, NEW r \in Nat, r <= branches[a].revision
    PROVE  SnapshotAt(a, r)' = SnapshotAt(a, r)
  <1>1. CASE r = 0
    BY <1>1 DEF SnapshotAt
  <1>2. CASE r # 0
    <2>1. <<a, r>> \in DOMAIN commits
      BY <1>2 DEF CommitKeysOK, TypeOK
    <2> QED
      BY <2>1, <1>2 DEF SnapshotAt
  <1> QED
    BY <1>1, <1>2

\* #persistCommit keeps the parts of the invariant that speak of the history.
LEMMA PersistCommitKeepsHistory ==
    ASSUME TypeOK, ReferencesOK, CommitKeysOK, ChainOK, EnvelopesOK,
           NEW actor \in Actors, NEW b \in DOMAIN branches, NEW content \in Contents,
           NEW envelope \in Envelope, NEW preview \in PreviewIds \cup {None}, NEW event,
           PersistCommit(actor, b, content, envelope, preview, event),
           \/ /\ envelope.type = "snapshot.restore.v1"
              /\ envelope.source \in DOMAIN snapshots
              /\ ContentOf(envelope.source) = content
           \/ /\ envelope.type = "operations"
              /\ Reduce[<<HeadContent(b), envelope.operations>>] = content,
           UNCHANGED previews
    PROVE  ReferencesOK' /\ CommitKeysOK' /\ ChainOK' /\ EnvelopesOK'
  <1>1. PICK s \in SnapshotIds \ DOMAIN snapshots, n \in Nat \ {0} :
              RowsAdded(s, n, actor, b, content, envelope, preview)
    BY PersistCommitRows
  <1>2. \A a \in DOMAIN branches, r \in Nat :
            r <= branches[a].revision => SnapshotAt(a, r)' = SnapshotAt(a, r)
    BY <1>1, PastIsKept DEF RowsAdded
  <1>3. n = branches[b].revision + 1 /\ branches[b].revision \in Nat
    BY <1>1 DEF RowsAdded, TypeOK, Branch
  <1>4. ReferencesOK'
    BY <1>1 DEF ReferencesOK, RowsAdded
  <1>5. CommitKeysOK'
    <2> SUFFICES ASSUME NEW a \in BranchIds, NEW r \in Nat \ {0}
                 PROVE  <<a, r>> \in DOMAIN commits' <=>
                           a \in DOMAIN branches' /\ r <= branches'[a].revision
      BY DEF CommitKeysOK
    <2>1. CASE a = b
      <3>1. <<a, r>> \in DOMAIN commits' <=> r <= branches[b].revision \/ r = n
        BY <1>1, <2>1 DEF CommitKeysOK, RowsAdded
      <3> QED
        BY <3>1, <2>1, <1>1, <1>3 DEF RowsAdded
    <2>2. CASE a # b
      BY <2>2, <1>1 DEF CommitKeysOK, RowsAdded
    <2> QED
      BY <2>1, <2>2
  <1>6. SnapshotAt(b, n)' = s
    BY <1>1, <1>3 DEF SnapshotAt, RowsAdded
  <1>7. \A c \in DOMAIN commits : /\ c[1] \in DOMAIN branches /\ c[2] - 1 \in Nat
                                  /\ c[2] \in Nat /\ c[2] <= branches[c[1]].revision
                                  /\ c = <<c[1], c[2]>>
                                  /\ branches[c[1]].revision \in Nat
    BY DEF CommitKeysOK, TypeOK, Branch
  <1>8. \A c \in DOMAIN commits : SnapshotAt(c[1], c[2] - 1)' = SnapshotAt(c[1], c[2] - 1)
    BY <1>2, <1>7
  <1>9. ChainOK'
    <2>1. \A a \in DOMAIN branches' : branches'[a].head = SnapshotAt(a, branches[a].revision)'
      <3> SUFFICES ASSUME NEW a \in DOMAIN branches
                   PROVE  branches'[a].head = SnapshotAt(a, branches[a].revision)'
        BY <1>1 DEF RowsAdded
      <3>1. CASE a = b
        BY <3>1, <1>1, <1>6 DEF RowsAdded
      <3>2. CASE a # b
        <4>1. PICK r \in Nat : r = branches[a].revision /\ branches'[a] = branches[a]
          BY <3>2, <1>1 DEF TypeOK, Branch, RowsAdded
        <4>2. SnapshotAt(a, r)' = SnapshotAt(a, r)
          BY <4>1, <1>2
        <4> QED
          BY <4>1, <4>2 DEF ChainOK
      <3> QED
        BY <3>1, <3>2
    <2>2. \A c \in DOMAIN commits' : commits'[c].parent = SnapshotAt(c[1], c[2] - 1)'
      <3> SUFFICES ASSUME NEW c \in DOMAIN commits'
                   PROVE  commits'[c].parent = SnapshotAt(c[1], c[2] - 1)'
        OBVIOUS
      <3>1. CASE c \in DOMAIN commits
        BY <3>1, <1>1, <1>8 DEF ChainOK, RowsAdded
      <3>2. CASE c = <<b, n>>
        <4>1. SnapshotAt(b, n - 1)' = SnapshotAt(b, n - 1) /\ n - 1 = branches[b].revision
          BY <1>2, <1>3
        <4> QED
          BY <4>1, <3>2, <1>1 DEF ChainOK, RowsAdded
      <3> QED
        BY <3>1, <3>2, <1>1 DEF RowsAdded
    <2> QED
      BY <2>1, <2>2 DEF ChainOK
  <1>10. \A c \in DOMAIN commits : ContentBefore(c[1], c[2])' = ContentBefore(c[1], c[2])
    <2> SUFFICES ASSUME NEW c \in DOMAIN commits
                 PROVE  ContentBefore(c[1], c[2])' = ContentBefore(c[1], c[2])
      OBVIOUS
    <2>1. SnapshotAt(c[1], c[2] - 1) \in DOMAIN snapshots
      BY <1>7 DEF ReferencesOK, ChainOK
    <2> QED
      BY <2>1, <1>8, <1>1 DEF ContentBefore, ContentOf, RowsAdded
  <1>11. EnvelopesOK'
    <2> SUFFICES ASSUME NEW c \in DOMAIN commits'
                 PROVE  EnvelopeReplays(c[1], c[2])'
      BY DEF EnvelopesOK
    <2>1. CASE c \in DOMAIN commits
      <3>1. /\ EnvelopeReplays(c[1], c[2])
            /\ c = <<c[1], c[2]>>
            /\ commits'[c] = commits[c]
            /\ ContentOf(commits[c].snapshot)' = ContentOf(commits[c].snapshot)
            /\ branches'[c[1]].source = branches[c[1]].source
        BY <2>1, <1>1, <1>7 DEF EnvelopesOK, RowsAdded, ReferencesOK, ContentOf
      <3>2. commits[c].envelope.type = "snapshot.restore.v1" =>
               /\ commits[c].envelope.source \in DOMAIN snapshots'
               /\ ContentOf(commits[c].envelope.source)' = ContentOf(commits[c].envelope.source)
        BY <2>1, <1>1 DEF RowsAdded, ReferencesOK, ContentOf
      <3> QED
        BY <3>1, <3>2, <2>1, <1>10 DEF EnvelopeReplays
    <2>2. CASE c = <<b, n>>
      <3>1. ContentBefore(b, n)' = HeadContent(b)
        <4>1. SnapshotAt(b, n - 1)' = SnapshotAt(b, n - 1) /\ n - 1 = branches[b].revision
          BY <1>2, <1>3
        <4> QED
          BY <4>1, <1>1 DEF ContentBefore, HeadContent, ContentOf, ChainOK, ReferencesOK, RowsAdded
      <3>2. /\ commits'[c].envelope = envelope
            /\ ContentOf(commits[c].snapshot)' = content
        BY <2>2, <1>1 DEF RowsAdded, ContentOf
      <3>3. envelope.type = "snapshot.restore.v1" =>
               /\ envelope.source \in DOMAIN snapshots'
               /\ ContentOf(envelope.source)' = content
        BY <1>1 DEF RowsAdded, ContentOf
      <3> QED
        BY <3>1, <3>2, <3>3, <2>2 DEF EnvelopeReplays
    <2> QED
      BY <2>1, <2>2, <1>1 DEF RowsAdded
  <1> QED
    BY <1>4, <1>5, <1>9, <1>11

\* #persistCommit keeps the types.
LEMMA PersistCommitKeepsTypes ==
    ASSUME TypeOK, ReferencesOK,
           NEW actor \in Actors, NEW b \in DOMAIN branches, NEW content \in Contents,
           NEW envelope \in Envelope, NEW preview \in PreviewIds \cup {None}, NEW event,
           PersistCommit(actor, b, content, envelope, preview, event),
           DOMAIN idempotency' \subseteq Keys, UNCHANGED <<previews, clocks>>
    PROVE  TypeOK'
  <1>1. PICK s \in SnapshotIds \ DOMAIN snapshots, n \in Nat \ {0} :
              /\ RowsAdded(s, n, actor, b, content, envelope, preview)
              /\ outbox' = outbox \cup
                    {[event |-> event, branch |-> b, revision |-> n, snapshot |-> s]}
    BY PersistCommitRows
  <1>2. /\ DOMAIN snapshots' \subseteq SnapshotIds
        /\ \A t \in DOMAIN snapshots' : snapshots'[t] \in Snapshot
    BY <1>1 DEF RowsAdded, TypeOK
  <1>3. /\ DOMAIN branches' \subseteq BranchIds
        /\ \A a \in DOMAIN branches' : branches'[a] \in Branch
    BY <1>1 DEF RowsAdded, TypeOK, Branch
  <1>4. /\ DOMAIN commits' \subseteq BranchIds \X (Nat \ {0})
        /\ \A c \in DOMAIN commits' : commits'[c] \in Commit
    <2>1. commits'[<<b, n>>] \in Commit
      BY <1>1 DEF RowsAdded, TypeOK, Branch, Commit
    <2> QED
      BY <2>1, <1>1 DEF RowsAdded, TypeOK
  <1>5. \A e \in outbox' : e.branch \in DOMAIN branches' /\ e.snapshot \in DOMAIN snapshots'
    BY <1>1 DEF RowsAdded, TypeOK
  <1>6. profile' \in [snapshot : DOMAIN snapshots', version : Nat \ {0}]
    BY <1>1 DEF RowsAdded
  <1> QED
    BY <1>2, <1>3, <1>4, <1>5, <1>6 DEF TypeOK, clocks

\* #persistCommit from a preview that was never committed, or from none, keeps
\* previews and commits matched.
LEMMA PersistCommitKeepsPreviews ==
    ASSUME TypeOK, ReferencesOK, CommitKeysOK, ChainOK, PreviewsOK, CommitsAreTheirPreviews,
           NEW actor \in Actors, NEW b \in DOMAIN branches, NEW content \in Contents,
           NEW envelope \in Envelope, NEW preview \in PreviewIds \cup {None}, NEW event,
           PersistCommit(actor, b, content, envelope, preview, event),
           UNCHANGED previews, UsedPreviewIds \subseteq UsedPreviewIds',
           preview # None =>
              /\ preview \notin CommittedPreviews
              /\ preview \in DOMAIN previews
              /\ previews[preview].branch = b
              /\ previews[preview].createdBy = actor
              /\ previews[preview].baseRevision = branches[b].revision
              /\ previews[preview].result = content
    PROVE  PreviewsOK' /\ CommitsAreTheirPreviews'
  <1>1. PICK s \in SnapshotIds \ DOMAIN snapshots, n \in Nat \ {0} :
              RowsAdded(s, n, actor, b, content, envelope, preview)
    BY PersistCommitRows
  <1>2. \A a \in DOMAIN branches, r \in Nat :
            r <= branches[a].revision => SnapshotAt(a, r)' = SnapshotAt(a, r)
    BY <1>1, PastIsKept DEF RowsAdded
  <1>3. n = branches[b].revision + 1 /\ branches[b].revision \in Nat
    BY <1>1 DEF RowsAdded, TypeOK, Branch
  <1>4. PreviewsOK'
    <2> SUFFICES ASSUME NEW p \in DOMAIN previews
                 PROVE  /\ p \in UsedPreviewIds'
                        /\ previews[p].branch \in DOMAIN branches'
                        /\ previews[p].baseRevision <= branches'[previews[p].branch].revision
                        /\ previews[p].base = SnapshotAt(previews[p].branch, previews[p].baseRevision)'
                        /\ previews[p].result =
                              Reduce[<<ContentOf(previews[p].base)', previews[p].operations>>]
      BY DEF PreviewsOK
    <2>1. PICK a \in DOMAIN branches, r \in Nat :
              a = previews[p].branch /\ r = previews[p].baseRevision /\ r <= branches[a].revision
      BY DEF PreviewsOK, TypeOK, PreviewRow
    <2>2. branches[a].revision \in Nat /\ branches'[a].revision >= branches[a].revision
      BY <1>1, <1>3 DEF RowsAdded, TypeOK, Branch
    <2>3. SnapshotAt(a, r)' = SnapshotAt(a, r)
      BY <2>1, <1>2
    <2>4. previews[p].base \in DOMAIN snapshots
      BY DEF ReferencesOK
    <2>5. ContentOf(previews[p].base)' = ContentOf(previews[p].base)
      BY <2>4, <1>1 DEF RowsAdded, ContentOf
    <2>6. a \in DOMAIN branches' /\ previews' = previews
      BY <1>1 DEF RowsAdded
    <2>7. SnapshotAt(previews[p].branch, previews[p].baseRevision)' = SnapshotAt(a, r)'
      BY <2>1, <2>6 DEF SnapshotAt
    <2>8. r <= branches'[a].revision
      BY <2>1, <2>2, <1>1 DEF RowsAdded
    <2> QED
      BY <2>1, <2>3, <2>5, <2>6, <2>7, <2>8 DEF PreviewsOK
  <1>5. CommitsAreTheirPreviews'
    <2> SUFFICES ASSUME NEW c \in DOMAIN commits', commits'[c].preview # None
                 PROVE  /\ commits'[c].preview \in DOMAIN previews
                        /\ previews[commits'[c].preview].branch = c[1]
                        /\ previews[commits'[c].preview].createdBy = commits'[c].committedBy
                        /\ previews[commits'[c].preview].baseRevision + 1 = c[2]
                        /\ previews[commits'[c].preview].base = commits'[c].parent
                        /\ previews[commits'[c].preview].result = snapshots'[commits'[c].snapshot].content
                        /\ \A d \in DOMAIN commits' :
                              commits'[d].preview = commits'[c].preview => d = c
      BY DEF CommitsAreTheirPreviews, ContentOf
    <2>1. \A d \in DOMAIN commits : d # <<b, n>> /\ commits'[d] = commits[d]
      BY <1>1 DEF RowsAdded
    <2>2. preview # None => \A d \in DOMAIN commits : commits[d].preview # preview
      BY DEF CommittedPreviews
    <2>3. CASE c \in DOMAIN commits
      <3>1. snapshots'[commits[c].snapshot].content = ContentOf(commits[c].snapshot)
        BY <2>3, <1>1 DEF RowsAdded, ReferencesOK, ContentOf
      <3> QED
        BY <3>1, <2>1, <2>2, <2>3, <1>1 DEF RowsAdded, CommitsAreTheirPreviews
    <2>4. CASE c = <<b, n>>
      <3> preview # None
        BY <2>4, <1>1 DEF RowsAdded
      <3>1. /\ previews[preview].base = SnapshotAt(b, branches[b].revision)
            /\ branches[b].head = SnapshotAt(b, branches[b].revision)
        BY DEF PreviewsOK, ChainOK
      <3> QED
        BY <3>1, <2>1, <2>2, <2>4, <1>1, <1>3 DEF RowsAdded
    <2> QED
      BY <2>3, <2>4, <1>1 DEF RowsAdded
  <1> QED
    BY <1>4, <1>5

\* #persistCommit for a request that saw the branch as it is.
LEMMA PersistCommitKeepsCallers ==
    ASSUME TypeOK, ReferencesOK, CommitsFollowWhatTheCallerSaw,
           NEW actor \in Actors, NEW b \in DOMAIN branches, NEW content \in Contents,
           NEW envelope \in Envelope, NEW preview \in PreviewIds \cup {None}, NEW event,
           NEW key \in Keys, NEW request, request.branch = b,
           request.revision = branches[b].revision, request.sha = HeadContent(b),
           PersistCommit(actor, b, content, envelope, preview, event),
           Claims(key), Complete(key, request, "commit", <<b, branches[b].revision + 1>>)
    PROVE  CommitsFollowWhatTheCallerSaw'
  <1>1. PICK s \in SnapshotIds \ DOMAIN snapshots, n \in Nat \ {0} :
              RowsAdded(s, n, actor, b, content, envelope, preview)
    BY PersistCommitRows
  <1>2. /\ DOMAIN idempotency' = DOMAIN idempotency \cup {key}
        /\ idempotency'[key] = [request |-> request, kind |-> "commit", response |-> <<b, n>>]
        /\ \A k \in DOMAIN idempotency : idempotency'[k] = idempotency[k]
    BY <1>1 DEF RowsAdded, Claims, Complete, Put
  <1> SUFFICES ASSUME NEW k \in DOMAIN idempotency', idempotency'[k].kind = "commit"
               PROVE  /\ idempotency'[k].response \in DOMAIN commits'
                      /\ idempotency'[k].response[1] = idempotency'[k].request.branch
                      /\ idempotency'[k].response[2] = idempotency'[k].request.revision + 1
                      /\ snapshots'[commits'[idempotency'[k].response].parent].content
                            = idempotency'[k].request.sha
    BY DEF CommitsFollowWhatTheCallerSaw, ContentOf
  <1>3. CASE k = key
    BY <1>1, <1>2, <1>3 DEF RowsAdded, ReferencesOK, HeadContent, ContentOf
  <1>4. CASE k \in DOMAIN idempotency
    BY <1>1, <1>2, <1>4 DEF RowsAdded, ReferencesOK, CommitsFollowWhatTheCallerSaw, ContentOf
  <1> QED
    BY <1>2, <1>3, <1>4

-----------------------------------------------------------------------------
(* Every handler keeps the invariant.                                      *)

\* The empty tables satisfy the invariant.
LEMMA InitIInv == Init => IInv
  BY DEF Init, IInv, NoRows, TypeOK, ReferencesOK, CommitKeysOK, ChainOK, EnvelopesOK,
         PreviewsOK, CommitsAreTheirPreviews, CommitsFollowWhatTheCallerSaw

\* commit keeps the invariant.
LEMMA CommitKeepsIInv ==
    ASSUME IInv, NEW key \in Keys, NEW actor \in Actors, NEW b \in BranchIds, NEW revision,
           NEW sha \in Contents, NEW p \in PreviewIds,
           CommitPreview(key, actor, b, revision, sha, p)
    PROVE  IInv'
  <1> USE DEF IInv
  <1> DEFINE envelope == [type |-> "operations", operations |-> previews[p].operations]
             request == [operation |-> "model.operation.commit", actor |-> actor, branch |-> b,
                         revision |-> revision, sha |-> sha, preview |-> p]
             content == Reduce[<<HeadContent(b), previews[p].operations>>]
  <1>1. /\ b \in DOMAIN branches
        /\ Claims(key)
        /\ ExpectedBranch(b, revision, sha)
        /\ Confirmable(p, actor, b)
        /\ content = previews[p].result
        /\ PersistCommit(actor, b, content, envelope, p, "model.operations.committed.v1")
        /\ Complete(key, request, "commit", <<b, branches[b].revision + 1>>)
        /\ UNCHANGED <<previews, clocks>>
    BY DEF CommitPreview
  <1>2. /\ p \in DOMAIN previews /\ p \notin CommittedPreviews
        /\ previews[p].branch = b /\ previews[p].createdBy = actor
        /\ previews[p].baseRevision = branches[b].revision
        /\ previews[p].result # Blocked
    BY <1>1 DEF Confirmable, MadeOnHead, HasNoBlockingFindings
  <1>3. previews[p].operations \in Operations /\ content \in Contents
    BY <1>1, <1>2 DEF TypeOK, PreviewRow
  <1>4. /\ envelope \in Envelope /\ envelope.type = "operations"
        /\ envelope.operations = previews[p].operations
    BY <1>3 DEF Envelope
  <1>5. /\ request.branch = b /\ request.revision = branches[b].revision
        /\ request.sha = HeadContent(b)
    BY <1>1 DEF ExpectedBranch
  <1>6. DOMAIN idempotency' \subseteq Keys /\ UsedPreviewIds \subseteq UsedPreviewIds'
    BY <1>1, CompleteRows DEF TypeOK
  <1>7. Reduce[<<HeadContent(b), envelope.operations>>] = content
    BY <1>4
  <1> HIDE DEF envelope, request, content
  <1>8. UNCHANGED previews
    BY <1>1
  <1>9. TypeOK'
    BY <1>1, <1>3, <1>4, <1>6, PersistCommitKeepsTypes
  <1>10. ReferencesOK' /\ CommitKeysOK' /\ ChainOK' /\ EnvelopesOK'
    BY <1>1, <1>3, <1>4, <1>7, <1>8, PersistCommitKeepsHistory
  <1>11. PreviewsOK' /\ CommitsAreTheirPreviews'
    BY <1>1, <1>2, <1>3, <1>4, <1>6, <1>8, PersistCommitKeepsPreviews
  <1>12. CommitsFollowWhatTheCallerSaw'
    BY <1>1, <1>3, <1>4, <1>5, PersistCommitKeepsCallers
  <1> QED
    BY <1>9, <1>10, <1>11, <1>12

\* restore keeps the invariant.
LEMMA RestoreKeepsIInv ==
    ASSUME IInv, NEW key \in Keys, NEW actor \in Actors, NEW b \in BranchIds, NEW revision,
           NEW sha \in Contents, NEW source \in SnapshotIds, NEW sourceSha \in Contents,
           Restore(key, actor, b, revision, sha, source, sourceSha)
    PROVE  IInv'
  <1> USE DEF IInv
  <1> DEFINE envelope == [type |-> "snapshot.restore.v1", source |-> source]
             request == [operation |-> "model.branch.restore", actor |-> actor, branch |-> b,
                         revision |-> revision, sha |-> sha,
                         source |-> source, sourceSha |-> sourceSha]
  <1>1. /\ b \in DOMAIN branches
        /\ Claims(key)
        /\ ExpectedBranch(b, revision, sha)
        /\ source \in DOMAIN snapshots /\ ContentOf(source) = sourceSha
        /\ PersistCommit(actor, b, sourceSha, envelope, None, "snapshot.restore.v1")
        /\ Complete(key, request, "commit", <<b, branches[b].revision + 1>>)
        /\ UNCHANGED <<previews, clocks>>
    BY DEF Restore
  <1>2. /\ envelope \in Envelope /\ envelope.type = "snapshot.restore.v1"
        /\ envelope.source \in DOMAIN snapshots /\ ContentOf(envelope.source) = sourceSha
    BY <1>1 DEF Envelope
  <1>3. /\ request.branch = b /\ request.revision = branches[b].revision
        /\ request.sha = HeadContent(b)
    BY <1>1 DEF ExpectedBranch
  <1>4. DOMAIN idempotency' \subseteq Keys /\ UsedPreviewIds \subseteq UsedPreviewIds'
    BY <1>1, CompleteRows DEF TypeOK
  <1> HIDE DEF envelope, request
  <1>5. UNCHANGED previews /\ None \in PreviewIds \cup {None}
    BY <1>1
  <1>6. TypeOK'
    BY <1>1, <1>2, <1>4, <1>5, PersistCommitKeepsTypes
  <1>7. ReferencesOK' /\ CommitKeysOK' /\ ChainOK' /\ EnvelopesOK'
    BY <1>1, <1>2, <1>5, PersistCommitKeepsHistory
  <1>8. PreviewsOK' /\ CommitsAreTheirPreviews'
    BY <1>1, <1>2, <1>4, <1>5, PersistCommitKeepsPreviews
  <1>9. CommitsFollowWhatTheCallerSaw'
    BY <1>1, <1>2, <1>3, <1>5, PersistCommitKeepsCallers
  <1> QED
    BY <1>6, <1>7, <1>8, <1>9

\* The rows of a new branch, with its first commit (revision 1) or with none;
\* every other row of the history stays as it was.
BranchAdded(b, source, revision, actor, event) ==
    /\ DOMAIN snapshots' \subseteq SnapshotIds
    /\ source \in DOMAIN snapshots'
    /\ \A t \in DOMAIN snapshots' : snapshots'[t] \in Snapshot
    /\ \A t \in DOMAIN snapshots : t \in DOMAIN snapshots' /\ snapshots'[t] = snapshots[t]
    /\ profile' \in [snapshot : DOMAIN snapshots', version : Nat \ {0}]
    /\ DOMAIN branches' = DOMAIN branches \cup {b}
    /\ branches'[b] = [source |-> source, head |-> source, revision |-> revision]
    /\ \A a \in DOMAIN branches : branches'[a] = branches[a]
    /\ DOMAIN commits' = DOMAIN commits \cup {<<b, r>> : r \in 1..revision}
    /\ revision = 1 => commits'[<<b, 1>>] =
          [preview |-> None, parent |-> source, snapshot |-> source, committedBy |-> actor,
           envelope |-> [type |-> "snapshot.initialize.v1", source |-> source]]
    /\ \A c \in DOMAIN commits : commits'[c] = commits[c]
    /\ outbox' = outbox \cup
          {[event |-> event, branch |-> b, revision |-> revision, snapshot |-> source]}
    /\ previews' = previews /\ apiExpired' = apiExpired /\ dbExpired' = dbExpired

\* No recorded request changes, and none is recorded as a commit.
NoCommitRecorded ==
    /\ DOMAIN idempotency' \subseteq Keys
    /\ \A k \in DOMAIN idempotency' :
          idempotency'[k].kind = "commit" =>
             k \in DOMAIN idempotency /\ idempotency'[k] = idempotency[k]
    /\ UsedPreviewIds \subseteq UsedPreviewIds'

\* A key completed with another response than a commit makes no commit.
LEMMA CompleteRecordsNoCommit ==
    ASSUME IInv, NEW key \in Keys, NEW request, NEW kind, NEW id,
           Claims(key), Complete(key, request, kind, id), kind # "commit"
    PROVE  NoCommitRecorded
  <1>1. DOMAIN idempotency' \subseteq Keys
    BY DEF Complete, Put, IInv, TypeOK
  <1>2. \A k \in DOMAIN idempotency' :
            k # key => k \in DOMAIN idempotency /\ idempotency'[k] = idempotency[k]
    BY DEF Complete, Put
  <1>3. idempotency'[key].kind = kind
    BY DEF Complete, Put
  <1>4. UsedPreviewIds \subseteq UsedPreviewIds'
    BY CompleteRows
  <1> QED
    BY <1>1, <1>2, <1>3, <1>4 DEF NoCommitRecorded

\* A new branch with its first rows keeps the invariant.
LEMMA AddedBranchKeepsIInv ==
    ASSUME IInv, NEW b \in BranchIds, b \notin DOMAIN branches, NEW source,
           NEW revision \in 0..1, NEW actor \in Actors, NEW event,
           BranchAdded(b, source, revision, actor, event), NoCommitRecorded
    PROVE  IInv'
  <1> USE DEF IInv, BranchAdded
  <1>1. /\ \A k \in DOMAIN idempotency' : idempotency'[k].kind = "commit" =>
              k \in DOMAIN idempotency /\ idempotency'[k] = idempotency[k]
        /\ DOMAIN idempotency' \subseteq Keys
        /\ UsedPreviewIds \subseteq UsedPreviewIds'
    BY DEF NoCommitRecorded
  <1>2. \A a \in DOMAIN branches, r \in Nat :
            r <= branches[a].revision => SnapshotAt(a, r)' = SnapshotAt(a, r)
    BY PastIsKept
  <1>3. \A r \in Nat \ {0} : <<b, r>> \notin DOMAIN commits
    BY DEF CommitKeysOK
  <1>4. \A c \in DOMAIN commits : /\ c[1] \in DOMAIN branches /\ c[1] # b
                                  /\ c[2] - 1 \in Nat /\ c[2] \in Nat \ {0}
                                  /\ c[2] <= branches[c[1]].revision /\ c = <<c[1], c[2]>>
                                  /\ branches[c[1]].revision \in Nat
    BY DEF CommitKeysOK, TypeOK, Branch
  <1>5. \A c \in DOMAIN commits' : c \notin DOMAIN commits => c = <<b, 1>> /\ revision = 1
    OBVIOUS
  <1>6. SnapshotAt(b, 0)' = source /\ (revision = 1 => SnapshotAt(b, 1)' = source)
    BY DEF SnapshotAt
  <1>7. TypeOK'
    <2>1. \A a \in DOMAIN branches' : branches'[a] \in Branch
      BY DEF TypeOK, Branch
    <2>2. DOMAIN commits' \subseteq BranchIds \X (Nat \ {0})
      BY DEF TypeOK
    <2>3. \A c \in DOMAIN commits' : commits'[c] \in Commit
      <3> SUFFICES ASSUME NEW c \in DOMAIN commits' PROVE commits'[c] \in Commit
        OBVIOUS
      <3>1. CASE c \in DOMAIN commits
        BY <3>1 DEF TypeOK
      <3>2. CASE c \notin DOMAIN commits
        <4>1. [type |-> "snapshot.initialize.v1", source |-> source] \in Envelope
          BY DEF Envelope
        <4> QED
          BY <4>1, <3>2, <1>5 DEF Commit
      <3> QED
        BY <3>1, <3>2
    <2> QED
      BY <2>1, <2>2, <2>3, <1>1 DEF TypeOK, clocks
  <1>8. ReferencesOK'
    BY <1>5 DEF ReferencesOK
  <1>9. CommitKeysOK'
    <2> SUFFICES ASSUME NEW a \in BranchIds, NEW r \in Nat \ {0}
                 PROVE  <<a, r>> \in DOMAIN commits' <=>
                           a \in DOMAIN branches' /\ r <= branches'[a].revision
      BY DEF CommitKeysOK
    <2>1. CASE a = b
      BY <2>1, <1>3
    <2>2. CASE a # b
      BY <2>2 DEF CommitKeysOK
    <2> QED
      BY <2>1, <2>2
  <1>10. ChainOK'
    <2>1. \A a \in DOMAIN branches : branches'[a].head = SnapshotAt(a, branches[a].revision)'
      <3> SUFFICES ASSUME NEW a \in DOMAIN branches
                   PROVE  branches'[a].head = SnapshotAt(a, branches[a].revision)'
        OBVIOUS
      <3>1. PICK r \in Nat : r = branches[a].revision /\ branches'[a] = branches[a]
        BY DEF TypeOK, Branch
      <3> QED
        BY <3>1, <1>2 DEF ChainOK
    <2>2. branches'[b].head = SnapshotAt(b, branches[b].revision)'
      BY <1>6
    <2>3. \A c \in DOMAIN commits : commits'[c].parent = SnapshotAt(c[1], c[2] - 1)'
      BY <1>2, <1>4 DEF ChainOK
    <2>4. \A c \in DOMAIN commits' : c \notin DOMAIN commits =>
              commits'[c].parent = SnapshotAt(c[1], c[2] - 1)'
      BY <1>5, <1>6
    <2> QED
      BY <2>1, <2>2, <2>3, <2>4 DEF ChainOK
  <1>11. EnvelopesOK'
    <2> SUFFICES ASSUME NEW c \in DOMAIN commits' PROVE EnvelopeReplays(c[1], c[2])'
      BY DEF EnvelopesOK
    <2>1. CASE c \in DOMAIN commits
      <3>1. SnapshotAt(c[1], c[2] - 1)' = SnapshotAt(c[1], c[2] - 1)
        BY <2>1, <1>2, <1>4
      <3>2. SnapshotAt(c[1], c[2] - 1) \in DOMAIN snapshots
        BY <2>1, <1>4 DEF ChainOK, ReferencesOK
      <3>3. ContentBefore(c[1], c[2])' = ContentBefore(c[1], c[2])
        BY <3>1, <3>2 DEF ContentBefore, ContentOf
      <3>4. /\ EnvelopeReplays(c[1], c[2])
            /\ commits'[c] = commits[c]
            /\ ContentOf(commits[c].snapshot)' = ContentOf(commits[c].snapshot)
            /\ branches'[c[1]].source = branches[c[1]].source
        BY <2>1, <1>4 DEF EnvelopesOK, ReferencesOK, ContentOf
      <3>5. commits[c].envelope.type = "snapshot.restore.v1" =>
               /\ commits[c].envelope.source \in DOMAIN snapshots'
               /\ ContentOf(commits[c].envelope.source)' = ContentOf(commits[c].envelope.source)
        BY <2>1 DEF ReferencesOK, ContentOf
      <3> QED
        BY <3>3, <3>4, <3>5, <2>1, <1>4 DEF EnvelopeReplays
    <2>2. CASE c \notin DOMAIN commits
      <3>1. c = <<b, 1>> /\ revision = 1
        BY <2>2, <1>5
      <3>2. ContentBefore(b, 1)' = snapshots'[source].content
        BY <1>6 DEF ContentBefore, ContentOf
      <3> QED
        BY <3>1, <3>2 DEF EnvelopeReplays, ContentOf
    <2> QED
      BY <2>1, <2>2
  <1>12. PreviewsOK'
    <2> SUFFICES ASSUME NEW p \in DOMAIN previews
                 PROVE  /\ p \in UsedPreviewIds'
                        /\ previews[p].branch \in DOMAIN branches'
                        /\ previews[p].baseRevision <= branches'[previews[p].branch].revision
                        /\ previews[p].base = SnapshotAt(previews[p].branch, previews[p].baseRevision)'
                        /\ previews[p].result =
                              Reduce[<<ContentOf(previews[p].base)', previews[p].operations>>]
      BY DEF PreviewsOK
    <2>1. PICK a \in DOMAIN branches, r \in Nat :
              a = previews[p].branch /\ r = previews[p].baseRevision /\ r <= branches[a].revision
      BY DEF PreviewsOK, TypeOK, PreviewRow
    <2>2. SnapshotAt(a, r)' = SnapshotAt(a, r)
      BY <2>1, <1>2
    <2>3. ContentOf(previews[p].base)' = ContentOf(previews[p].base)
      BY DEF ReferencesOK, ContentOf
    <2>4. SnapshotAt(previews[p].branch, previews[p].baseRevision)' = SnapshotAt(a, r)'
      BY <2>1 DEF SnapshotAt
    <2> QED
      BY <2>1, <2>2, <2>3, <2>4, <1>1 DEF PreviewsOK
  <1>13. CommitsAreTheirPreviews'
    <2>1. \A c \in DOMAIN commits' : commits'[c].preview # None =>
              c \in DOMAIN commits /\ commits'[c] = commits[c]
      BY <1>5
    <2>2. \A c \in DOMAIN commits :
              snapshots'[commits[c].snapshot].content = snapshots[commits[c].snapshot].content
      BY DEF ReferencesOK
    <2>3. previews' = previews /\ CommitsAreTheirPreviews
      OBVIOUS
    <2> HIDE DEF IInv, BranchAdded
    <2> QED
      BY <2>1, <2>2, <2>3 DEF CommitsAreTheirPreviews, ContentOf
  <1>14. CommitsFollowWhatTheCallerSaw'
    BY <1>1 DEF CommitsFollowWhatTheCallerSaw, ReferencesOK, ContentOf
  <1> QED
    BY <1>7, <1>8, <1>9, <1>10, <1>11, <1>12, <1>13, <1>14

\* initialize keeps the invariant.
LEMMA InitializeKeepsIInv ==
    ASSUME IInv, NEW key \in Keys, NEW actor \in Actors, NEW content \in Contents,
           Initialize(key, actor, content)
    PROVE  IInv'
  <1> USE DEF IInv
  <1> DEFINE id == Fresh(SnapshotIds, DOMAIN snapshots)
             b == Fresh(BranchIds, DOMAIN branches)
             request == [operation |-> "snapshot.initialize.v1", actor |-> actor,
                         snapshot |-> content]
             first == [preview |-> None, parent |-> id, snapshot |-> id,
                       committedBy |-> actor,
                       envelope |-> [type |-> "snapshot.initialize.v1", source |-> id]]
  <1>1. id \in SnapshotIds \ DOMAIN snapshots /\ b \in BranchIds \ DOMAIN branches
    BY FreshIsUnused DEF Initialize
  <1>2. /\ Claims(key)
        /\ snapshots' = Put(snapshots, id, [version |-> 1, content |-> content])
        /\ profile' = [snapshot |-> id, version |-> 1]
        /\ branches' = Put(branches, b, [source |-> id, head |-> id, revision |-> 1])
        /\ commits' = Put(commits, <<b, 1>>, first)
        /\ outbox' = outbox \cup {[event |-> "snapshot.initialize.v1", branch |-> b,
                                   revision |-> 1, snapshot |-> id]}
        /\ Complete(key, request, "snapshot", id)
        /\ UNCHANGED <<previews, clocks>>
    BY DEF Initialize, InsertSnapshot, AppendAuditAndOutbox
  <1> HIDE DEF id, b, request
  <1>3. <<b, 1>> \notin DOMAIN commits
    BY <1>1 DEF CommitKeysOK
  <1>4. /\ DOMAIN snapshots' = DOMAIN snapshots \cup {id}
        /\ \A t \in DOMAIN snapshots : snapshots'[t] = snapshots[t]
        /\ snapshots'[id] \in Snapshot
    BY <1>1, <1>2 DEF Put, Snapshot
  <1>5. /\ DOMAIN branches' = DOMAIN branches \cup {b}
        /\ branches'[b] = [source |-> id, head |-> id, revision |-> 1]
        /\ \A a \in DOMAIN branches : branches'[a] = branches[a]
    BY <1>1, <1>2 DEF Put
  <1>6. /\ DOMAIN commits' = DOMAIN commits \cup {<<b, r>> : r \in 1..1}
        /\ commits'[<<b, 1>>] = first
        /\ \A c \in DOMAIN commits : commits'[c] = commits[c]
    BY <1>2, <1>3 DEF Put
  <1>7. profile' \in [snapshot : DOMAIN snapshots', version : Nat \ {0}]
    BY <1>2, <1>4
  <1>8. /\ DOMAIN snapshots' \subseteq SnapshotIds
        /\ \A t \in DOMAIN snapshots' : snapshots'[t] \in Snapshot
        /\ \A t \in DOMAIN snapshots : t \in DOMAIN snapshots' /\ snapshots'[t] = snapshots[t]
    BY <1>1, <1>4 DEF TypeOK
  <1>9. BranchAdded(b, id, 1, actor, "snapshot.initialize.v1")
    BY <1>2, <1>4, <1>5, <1>6, <1>7, <1>8 DEF BranchAdded, clocks
  <1>10. NoCommitRecorded
    BY <1>2, CompleteRecordsNoCommit
  <1> QED
    BY <1>1, <1>9, <1>10, AddedBranchKeepsIInv

\* createBranch keeps the invariant.
LEMMA CreateBranchKeepsIInv ==
    ASSUME IInv, NEW key \in Keys, NEW actor \in Actors, NEW source \in SnapshotIds,
           NEW sha \in Contents, CreateBranch(key, actor, source, sha)
    PROVE  IInv'
  <1> USE DEF IInv
  <1> DEFINE b == Fresh(BranchIds, DOMAIN branches)
             request == [operation |-> "model.branch.create", actor |-> actor,
                         source |-> source, sha |-> sha]
  <1>1. b \in BranchIds \ DOMAIN branches
    BY FreshIsUnused DEF CreateBranch
  <1>2. /\ source \in DOMAIN snapshots
        /\ Claims(key)
        /\ branches' = Put(branches, b, [source |-> source, head |-> source, revision |-> 0])
        /\ outbox' = outbox \cup {[event |-> "model.branch.created.v1", branch |-> b,
                                   revision |-> 0, snapshot |-> source]}
        /\ Complete(key, request, "branch", b)
        /\ UNCHANGED <<snapshots, profile, commits>>
        /\ UNCHANGED <<previews, clocks>>
    BY DEF CreateBranch, AppendAuditAndOutbox
  <1> HIDE DEF b, request
  <1>3. /\ DOMAIN branches' = DOMAIN branches \cup {b}
        /\ branches'[b] = [source |-> source, head |-> source, revision |-> 0]
        /\ \A a \in DOMAIN branches : branches'[a] = branches[a]
    BY <1>1, <1>2 DEF Put
  <1>4. profile \in [snapshot : DOMAIN snapshots, version : Nat \ {0}]
    BY <1>2 DEF ReferencesOK
  <1>5. BranchAdded(b, source, 0, actor, "model.branch.created.v1")
    <2>1. commits' = commits /\ snapshots' = snapshots /\ profile' = profile
      BY <1>2
    <2>2. {<<b, r>> : r \in 1..0} = {}
      <3>1. 1..0 = {}
        OBVIOUS
      <3> QED
        BY <3>1
    <2>3. DOMAIN commits' = DOMAIN commits \cup {<<b, r>> : r \in 1..0}
      BY <2>1, <2>2
    <2> QED
      BY <2>1, <2>3, <1>2, <1>3, <1>4 DEF BranchAdded, clocks, TypeOK
  <1>6. NoCommitRecorded
    BY <1>2, CompleteRecordsNoCommit
  <1> QED
    BY <1>1, <1>5, <1>6, AddedBranchKeepsIInv

\* Replaying an envelope reads snapshots, branches and commits, and nothing else.
LEMMA SameHistorySameEnvelopes ==
    ASSUME EnvelopesOK, snapshots' = snapshots, branches' = branches, commits' = commits
    PROVE  EnvelopesOK'
  <1>1. ASSUME NEW b, NEW r PROVE EnvelopeReplays(b, r)' = EnvelopeReplays(b, r)
    BY DEF EnvelopeReplays, ContentBefore, ContentOf, SnapshotAt
  <1> QED
    BY <1>1 DEF EnvelopesOK

\* A step that leaves the history alone and only adds or deletes previews.
LEMMA PreviewsStepKeepsIInv ==
    ASSUME IInv, UNCHANGED <<snapshots, profile, branches, commits, outbox>>, NoCommitRecorded,
           DOMAIN previews' \subseteq PreviewIds,
           CommittedPreviews \cap DOMAIN previews \subseteq DOMAIN previews',
           \A p \in DOMAIN previews \cap DOMAIN previews' : previews'[p] = previews[p],
           \A p \in DOMAIN previews' \ DOMAIN previews :
              /\ previews'[p] \in PreviewRow
              /\ p \in UsedPreviewIds'
              /\ previews'[p].branch \in DOMAIN branches
              /\ previews'[p].baseRevision = branches[previews'[p].branch].revision
              /\ previews'[p].base = branches[previews'[p].branch].head
              /\ previews'[p].result =
                    Reduce[<<ContentOf(previews'[p].base), previews'[p].operations>>],
           apiExpired' \subseteq DOMAIN previews', dbExpired' \subseteq DOMAIN previews'
    PROVE  IInv'
  <1> USE DEF IInv
  <1>1. TypeOK'
    BY DEF TypeOK, NoCommitRecorded
  <1>2. ReferencesOK'
    BY DEF ReferencesOK
  <1>3. CommitKeysOK' /\ ChainOK'
    BY DEF CommitKeysOK, ChainOK, SnapshotAt
  <1>4. EnvelopesOK'
    BY SameHistorySameEnvelopes
  <1>5. PreviewsOK'
    <2> SUFFICES ASSUME NEW p \in DOMAIN previews'
                 PROVE  /\ p \in UsedPreviewIds'
                        /\ previews'[p].branch \in DOMAIN branches
                        /\ previews'[p].baseRevision <= branches[previews'[p].branch].revision
                        /\ previews'[p].base =
                              SnapshotAt(previews[p].branch, previews[p].baseRevision)'
                        /\ previews'[p].result =
                              Reduce[<<ContentOf(previews[p].base)', previews'[p].operations>>]
      BY DEF PreviewsOK
    <2>1. CASE p \in DOMAIN previews
      BY <2>1 DEF PreviewsOK, NoCommitRecorded, SnapshotAt, ContentOf
    <2>2. CASE p \notin DOMAIN previews
      <3>1. PICK b \in DOMAIN branches : b = previews'[p].branch
        BY <2>2
      <3>2. branches[b].revision \in Nat /\ branches[b].head = SnapshotAt(b, branches[b].revision)
        BY DEF ChainOK, TypeOK, Branch
      <3> QED
        BY <3>1, <3>2, <2>2 DEF SnapshotAt, ContentOf
    <2> QED
      BY <2>1, <2>2
  <1>6. CommitsAreTheirPreviews'
    BY DEF CommitsAreTheirPreviews, CommittedPreviews, ContentOf
  <1>7. CommitsFollowWhatTheCallerSaw'
    BY DEF CommitsFollowWhatTheCallerSaw, NoCommitRecorded, ContentOf
  <1> QED
    BY <1>1, <1>2, <1>3, <1>4, <1>5, <1>6, <1>7

\* preview keeps the invariant.
LEMMA PreviewKeepsIInv ==
    ASSUME IInv, NEW key \in Keys, NEW actor \in Actors, NEW b \in BranchIds, NEW revision,
           NEW sha \in Contents, NEW operations \in Operations,
           Preview(key, actor, b, revision, sha, operations)
    PROVE  IInv'
  <1> DEFINE p == Fresh(PreviewIds, UsedPreviewIds)
             request == [operation |-> "model.operation.preview", actor |-> actor, branch |-> b,
                         revision |-> revision, sha |-> sha, operations |-> operations]
             row == [branch |-> b, createdBy |-> actor, baseRevision |-> branches[b].revision,
                     base |-> branches[b].head, operations |-> operations,
                     result |-> Reduce[<<HeadContent(b), operations>>]]
  <1>1. /\ b \in DOMAIN branches
        /\ Claims(key)
        /\ previews' = Put(previews, p, row)
        /\ Complete(key, request, "preview", p)
        /\ UNCHANGED <<history, clocks>>
    BY DEF Preview
  <1>2. p \in PreviewIds \ UsedPreviewIds
    BY FreshIsUnused DEF Preview
  <1> HIDE DEF p, request
  <1>3. p \notin DOMAIN previews
    BY <1>2 DEF IInv, PreviewsOK
  <1>4. NoCommitRecorded
    BY <1>1, CompleteRecordsNoCommit
  <1>5. p \in UsedPreviewIds'
    <2>1. /\ DOMAIN idempotency' = DOMAIN idempotency \cup {key}
          /\ idempotency'[key].kind = "preview" /\ idempotency'[key].response = p
      BY <1>1 DEF Complete, Put
    <2> QED
      BY <2>1 DEF UsedPreviewIds
  <1>6. row \in PreviewRow
    <2>1. branches[b] \in Branch /\ b \in BranchIds /\ HeadContent(b) \in Contents
      BY <1>1 DEF IInv, TypeOK, ReferencesOK, HeadContent, ContentOf, Snapshot
    <2> QED
      BY <2>1, ReduceAssumption DEF PreviewRow, Branch
  <1>7. /\ DOMAIN previews' = DOMAIN previews \cup {p}
        /\ previews'[p] = row
        /\ \A q \in DOMAIN previews : previews'[q] = previews[q]
    BY <1>1, <1>3 DEF Put
  <1>8. /\ row.branch = b /\ row.baseRevision = branches[b].revision /\ row.base = branches[b].head
        /\ row.result = Reduce[<<ContentOf(row.base), row.operations>>]
    BY DEF HeadContent
  <1> HIDE DEF row
  <1>9. apiExpired' \subseteq DOMAIN previews' /\ dbExpired' \subseteq DOMAIN previews'
    BY <1>1, <1>7 DEF IInv, TypeOK, clocks
  <1>10. UNCHANGED <<snapshots, profile, branches, commits, outbox>>
    BY <1>1 DEF history
  <1>11. DOMAIN previews' \subseteq PreviewIds
    BY <1>2, <1>7 DEF IInv, TypeOK
  <1> QED
    BY <1>1, <1>4, <1>5, <1>6, <1>7, <1>8, <1>9, <1>10, <1>11, PreviewsStepKeepsIInv

\* A step that leaves the keys alone records no commit.
LEMMA UnchangedRequests ==
    ASSUME IInv, UNCHANGED idempotency
    PROVE  NoCommitRecorded
  BY DEF IInv, TypeOK, NoCommitRecorded, UsedPreviewIds

\* The passing of time keeps the invariant.
LEMMA ClocksKeepIInv ==
    ASSUME IInv, NEW p \in PreviewIds, ExpireForApi(p) \/ ExpireForDatabase(p)
    PROVE  IInv'
  <1>1. /\ UNCHANGED <<snapshots, profile, branches, commits, outbox>>
        /\ previews' = previews /\ UNCHANGED idempotency
        /\ apiExpired' \subseteq DOMAIN previews /\ dbExpired' \subseteq DOMAIN previews
    BY DEF ExpireForApi, ExpireForDatabase, history, IInv, TypeOK
  <1>2. NoCommitRecorded /\ DOMAIN previews \subseteq PreviewIds
    BY <1>1, UnchangedRequests DEF IInv, TypeOK
  <1> QED
    BY <1>1, <1>2, PreviewsStepKeepsIInv

\* cleanupExpiredPreviews keeps the invariant: it deletes no committed preview.
LEMMA CleanupKeepsIInv ==
    ASSUME IInv, CleanupExpiredPreviews
    PROVE  IInv'
  <1> DEFINE expired == DOMAIN previews \cap dbExpired
  <1>1. /\ UNCHANGED <<snapshots, profile, branches, commits, outbox>>
        /\ expired \cap CommittedPreviews = {}
        /\ previews' = Without(previews, expired)
        /\ apiExpired' = apiExpired \ expired
        /\ dbExpired' = dbExpired \ expired
        /\ UNCHANGED idempotency
    BY DEF CleanupExpiredPreviews, history
  <1>2. /\ DOMAIN previews' = DOMAIN previews \ expired
        /\ \A p \in DOMAIN previews' : previews'[p] = previews[p]
    BY <1>1 DEF Without
  <1>3. NoCommitRecorded /\ DOMAIN previews \subseteq PreviewIds
    BY <1>1, UnchangedRequests DEF IInv, TypeOK
  <1>4. apiExpired' \subseteq DOMAIN previews' /\ dbExpired' \subseteq DOMAIN previews'
    BY <1>1, <1>2 DEF IInv, TypeOK
  <1> QED
    BY <1>1, <1>2, <1>3, <1>4, PreviewsStepKeepsIInv

-----------------------------------------------------------------------------
(* Every step, and the theorems.                                           *)

\* Every disjunct of the next-state relation keeps the invariant.
LEMMA NextKeepsIInv ==
    ASSUME IInv, [Next]_vars
    PROVE  IInv'
  <1>1. CASE UNCHANGED vars
    <2> USE <1>1 DEF vars, IInv
    <2>1. TypeOK'
      BY DEF TypeOK
    <2>2. ReferencesOK'
      BY DEF ReferencesOK
    <2>3. CommitKeysOK' /\ ChainOK'
      BY DEF CommitKeysOK, ChainOK, SnapshotAt
    <2>4. EnvelopesOK'
      BY SameHistorySameEnvelopes
    <2>5. PreviewsOK'
      BY DEF PreviewsOK, SnapshotAt, ContentOf, UsedPreviewIds
    <2>6. CommitsAreTheirPreviews'
      BY DEF CommitsAreTheirPreviews, ContentOf
    <2>7. CommitsFollowWhatTheCallerSaw'
      BY DEF CommitsFollowWhatTheCallerSaw, ContentOf
    <2> QED
      BY <2>1, <2>2, <2>3, <2>4, <2>5, <2>6, <2>7
  <1>2. ASSUME NEW key \in Keys, NEW actor \in Actors, HandlerStep(key, actor)
        PROVE  IInv'
    <2>1. CASE \E content \in Contents : Initialize(key, actor, content)
      BY <2>1, InitializeKeepsIInv
    <2>2. CASE \E source \in SnapshotIds, sha \in Contents : CreateBranch(key, actor, source, sha)
      BY <2>2, CreateBranchKeepsIInv
    <2>3. ASSUME NEW b \in BranchIds, NEW revision \in Revisions, NEW sha \in Contents,
                 \E operations \in Operations : Preview(key, actor, b, revision, sha, operations)
          PROVE  IInv'
      BY <2>3, PreviewKeepsIInv
    <2>4. ASSUME NEW b \in BranchIds, NEW revision \in Revisions, NEW sha \in Contents,
                 \E p \in PreviewIds : CommitPreview(key, actor, b, revision, sha, p)
          PROVE  IInv'
      BY <2>4, CommitKeepsIInv
    <2>5. ASSUME NEW b \in BranchIds, NEW revision \in Revisions, NEW sha \in Contents,
                 \E source \in SnapshotIds, sourceSha \in Contents :
                    Restore(key, actor, b, revision, sha, source, sourceSha)
          PROVE  IInv'
      BY <2>5, RestoreKeepsIInv
    <2> QED
      BY <1>2, <2>1, <2>2, <2>3, <2>4, <2>5 DEF HandlerStep
  <1>3. CASE \E p \in PreviewIds : ExpireForApi(p) \/ ExpireForDatabase(p)
    BY <1>3, ClocksKeepIInv
  <1>4. CASE CleanupExpiredPreviews
    BY <1>4, CleanupKeepsIInv
  <1> QED
    BY <1>1, <1>2, <1>3, <1>4 DEF Next

\* The strengthened invariant holds in every reachable state.
THEOREM InvariantHolds == Spec => []IInv
  <1>1. Init => IInv
    BY InitIInv
  <1>2. IInv /\ [Next]_vars => IInv'
    BY NextKeepsIInv
  <1> QED
    BY <1>1, <1>2, PTL DEF Spec

\* The rows keep their types and the events their references, whatever the
\* clients send.
THEOREM TypeCorrect == Spec => []TypeOK
  <1>1. IInv => TypeOK
    BY DEF IInv
  <1> QED
    BY <1>1, InvariantHolds, PTL

\* A branch has the revisions 1..revision, each once.
LEMMA RevisionsAreGapFree ==
    ASSUME TypeOK, CommitKeysOK, NEW b \in DOMAIN branches
    PROVE  /\ RevisionsOf(b) = 1..branches[b].revision
           /\ branches[b].revision \in Nat
           /\ \A r \in 1..branches[b].revision : <<b, r>> \in DOMAIN commits
  <1>1. b \in BranchIds /\ branches[b].revision \in Nat
    BY DEF TypeOK, Branch
  <1>2. \A r \in 1..branches[b].revision : <<b, r>> \in DOMAIN commits
    BY <1>1 DEF CommitKeysOK
  <1>3. RevisionsOf(b) \subseteq 1..branches[b].revision
    <2> SUFFICES ASSUME NEW c \in DOMAIN commits, c[1] = b
                 PROVE  c[2] \in 1..branches[b].revision
      BY DEF RevisionsOf
    <2>1. c = <<b, c[2]>> /\ c[2] \in Nat \ {0}
      BY DEF TypeOK
    <2> QED
      BY <1>1, <2>1 DEF CommitKeysOK
  <1>4. ASSUME NEW r \in 1..branches[b].revision PROVE r \in RevisionsOf(b)
    <2>1. <<b, r>> \in DOMAIN commits
      BY <1>2
    <2>2. <<b, r>>[1] = b /\ <<b, r>>[2] = r
      OBVIOUS
    <2> QED
      BY <2>1, <2>2 DEF RevisionsOf
  <1> QED
    BY <1>1, <1>2, <1>3, <1>4

\* No commit of a branch is lost or builds on anything but its predecessor.
THEOREM HistoryStaysOneChain == Spec => []HistoryIsOneChain
  <1>1. ASSUME IInv, NEW b \in DOMAIN branches
        PROVE  /\ RevisionsOf(b) = 1..branches[b].revision
               /\ \A revision \in 1..branches[b].revision :
                     commits[<<b, revision>>].parent = SnapshotAt(b, revision - 1)
               /\ branches[b].head = SnapshotAt(b, branches[b].revision)
    <2>1. /\ RevisionsOf(b) = 1..branches[b].revision
          /\ \A r \in 1..branches[b].revision : <<b, r>> \in DOMAIN commits
      BY <1>1, RevisionsAreGapFree DEF IInv
    <2>2. ASSUME NEW r \in 1..branches[b].revision
          PROVE  commits[<<b, r>>].parent = SnapshotAt(b, r - 1)
      <3>1. <<b, r>> \in DOMAIN commits /\ <<b, r>>[1] = b /\ <<b, r>>[2] = r
        BY <2>1
      <3> QED
        BY <1>1, <3>1 DEF IInv, ChainOK
    <2>3. branches[b].head = SnapshotAt(b, branches[b].revision)
      BY <1>1 DEF IInv, ChainOK
    <2> QED
      BY <2>1, <2>2, <2>3
  <1>2. IInv => HistoryIsOneChain
    BY <1>1 DEF HistoryIsOneChain
  <1> QED
    BY <1>2, InvariantHolds, PTL

\* Replaying the retained history of any branch reproduces every hash and
\* ends at the head, for every reducer.
THEOREM BranchesReplay == Spec => []EveryBranchReplays
  <1>1. ASSUME IInv, NEW b \in DOMAIN branches
        PROVE  ReplayVerified(b)
    <2>1. /\ RevisionsOf(b) = 1..branches[b].revision
          /\ branches[b].revision \in Nat
          /\ \A r \in 1..branches[b].revision : <<b, r>> \in DOMAIN commits
      BY <1>1, RevisionsAreGapFree DEF IInv
    <2>2. ASSUME NEW r \in 1..branches[b].revision
          PROVE  EnvelopeReplays(b, r)
      <3>1. <<b, r>> \in DOMAIN commits /\ <<b, r>>[1] = b /\ <<b, r>>[2] = r
        BY <2>1
      <3> QED
        BY <1>1, <3>1 DEF IInv, EnvelopesOK
    <2>3. HeadContent(b) = ContentBefore(b, branches[b].revision + 1)
      <3>1. PICK n \in Nat : n = branches[b].revision
        BY <2>1
      <3>2. n + 1 - 1 = n
        OBVIOUS
      <3> QED
        BY <1>1, <3>1, <3>2 DEF IInv, ChainOK, HeadContent, ContentBefore
    <2> QED
      BY <2>1, <2>2, <2>3 DEF ReplayVerified
  <1>2. IInv => EveryBranchReplays
    BY <1>1 DEF EveryBranchReplays
  <1> QED
    BY <1>2, InvariantHolds, PTL

\* What is committed from a preview is what its author was shown, once.
THEOREM CommitsStayTheirPreviews == Spec => []CommitsAreTheirPreviews
  <1>1. IInv => CommitsAreTheirPreviews
    BY DEF IInv
  <1> QED
    BY <1>1, InvariantHolds, PTL

\* A request that was executed followed exactly what its sender had seen.
THEOREM CallersAreFollowed == Spec => []CommitsFollowWhatTheCallerSaw
  <1>1. IInv => CommitsFollowWhatTheCallerSaw
    BY DEF IInv
  <1> QED
    BY <1>1, InvariantHolds, PTL

-----------------------------------------------------------------------------
(* The kinds of steps there are, as far as the history and the keys go.    *)

\* The step answers a request under a new key; older keys keep their answers.
KeyCompleted(key, kind, response) ==
    /\ key \notin DOMAIN idempotency
    /\ DOMAIN idempotency' = DOMAIN idempotency \cup {key}
    /\ idempotency'[key].kind = kind /\ idempotency'[key].response = response
    /\ \A k \in DOMAIN idempotency : idempotency'[k] = idempotency[k]

\* The rows of every earlier snapshot, commit and branch but b are as before.
RowsKept(b) ==
    /\ \A s \in DOMAIN snapshots : s \in DOMAIN snapshots' /\ snapshots'[s] = snapshots[s]
    /\ \A c \in DOMAIN commits : c \in DOMAIN commits' /\ commits'[c] = commits[c]
    /\ \A a \in DOMAIN branches \ {b} : a \in DOMAIN branches' /\ branches'[a] = branches[a]

\* initialize: snapshot s, branch b and its first commit are the first rows.
Started(key, b, s) ==
    /\ profile = None
    /\ b \in BranchIds \ DOMAIN branches /\ s \in SnapshotIds \ DOMAIN snapshots
    /\ RowsKept(b)
    /\ DOMAIN snapshots' = DOMAIN snapshots \cup {s}
    /\ snapshots'[s].version = 1 /\ snapshots'[s].content \in Contents
    /\ profile' = [snapshot |-> s, version |-> 1]
    /\ DOMAIN branches' = DOMAIN branches \cup {b}
    /\ branches'[b] = [source |-> s, head |-> s, revision |-> 1]
    /\ DOMAIN commits' = DOMAIN commits \cup {<<b, 1>>}
    /\ commits'[<<b, 1>>].snapshot = s
    /\ commits'[<<b, 1>>].envelope.type = "snapshot.initialize.v1"
    /\ \E event : outbox' = outbox \cup
          {[event |-> event, branch |-> b, revision |-> 1, snapshot |-> s]}
    /\ KeyCompleted(key, "snapshot", s)

\* createBranch: a branch without commits on a snapshot there is.
Branched(key, b, source) ==
    /\ b \in BranchIds \ DOMAIN branches /\ source \in DOMAIN snapshots
    /\ UNCHANGED <<snapshots, profile, commits>>
    /\ RowsKept(b)
    /\ DOMAIN branches' = DOMAIN branches \cup {b}
    /\ branches'[b] = [source |-> source, head |-> source, revision |-> 0]
    /\ \E event : outbox' = outbox \cup
          {[event |-> event, branch |-> b, revision |-> 0, snapshot |-> source]}
    /\ KeyCompleted(key, "branch", b)

\* commit and restore: one more commit on a branch, with a snapshot of its own
\* whose content its envelope explains.
Appended(key, b, s, n, envelope) ==
    /\ b \in DOMAIN branches /\ s \in SnapshotIds \ DOMAIN snapshots
    /\ n \in Nat \ {0} /\ n = branches[b].revision + 1
    /\ RowsKept(b)
    /\ DOMAIN snapshots' = DOMAIN snapshots \cup {s}
    /\ snapshots'[s].version = profile.version + 1
    /\ profile' = [snapshot |-> s, version |-> profile.version + 1]
    /\ DOMAIN branches' = DOMAIN branches
    /\ branches'[b] = [source |-> branches[b].source, head |-> s, revision |-> n]
    /\ <<b, n>> \notin DOMAIN commits
    /\ DOMAIN commits' = DOMAIN commits \cup {<<b, n>>}
    /\ commits'[<<b, n>>].snapshot = s
    /\ commits'[<<b, n>>].envelope = envelope
    /\ \/ /\ envelope.type = "operations" /\ envelope.operations \in Operations
          /\ snapshots'[s].content = Reduce[<<HeadContent(b), envelope.operations>>]
       \/ /\ envelope.type = "snapshot.restore.v1" /\ envelope.source \in DOMAIN snapshots
          /\ snapshots'[s].content = ContentOf(envelope.source)
    /\ snapshots'[s].content \in Contents
    /\ \E event : outbox' = outbox \cup
          {[event |-> event, branch |-> b, revision |-> n, snapshot |-> s]}
    /\ KeyCompleted(key, "commit", <<b, n>>)

\* preview, the clocks and the cleanup leave the history alone.
Quiet ==
    /\ UNCHANGED <<snapshots, profile, branches, commits, outbox>>
    /\ DOMAIN idempotency \subseteq DOMAIN idempotency'
    /\ \A k \in DOMAIN idempotency : idempotency'[k] = idempotency[k]
    /\ \A k \in DOMAIN idempotency' \ DOMAIN idempotency : idempotency'[k].kind = "preview"

HistoryStep ==
    \/ \E key \in Keys, b \in BranchIds, s \in SnapshotIds : Started(key, b, s)
    \/ \E key \in Keys, b \in BranchIds, source \in SnapshotIds : Branched(key, b, source)
    \/ \E key \in Keys, b \in BranchIds, s \in SnapshotIds, n \in Nat, envelope \in Envelope :
          Appended(key, b, s, n, envelope)
    \/ Quiet

\* Completing a claimed key answers it and no other.
LEMMA CompleteAnswersItsKey ==
    ASSUME NEW key, NEW request, NEW kind, NEW response,
           Claims(key), Complete(key, request, kind, response)
    PROVE  KeyCompleted(key, kind, response)
  BY DEF Claims, Complete, Put, KeyCompleted

\* #persistCommit, with the version it gives the snapshot.
LEMMA PersistCommitAppends ==
    ASSUME TypeOK, ReferencesOK, NEW key \in Keys,
           NEW actor \in Actors, NEW b \in DOMAIN branches, NEW content \in Contents,
           NEW envelope \in Envelope, NEW preview \in PreviewIds \cup {None}, NEW event,
           NEW request,
           PersistCommit(actor, b, content, envelope, preview, event),
           Claims(key), Complete(key, request, "commit", <<b, branches[b].revision + 1>>),
           \/ /\ envelope.type = "snapshot.restore.v1"
              /\ envelope.source \in DOMAIN snapshots
              /\ ContentOf(envelope.source) = content
           \/ /\ envelope.type = "operations" /\ envelope.operations \in Operations
              /\ Reduce[<<HeadContent(b), envelope.operations>>] = content
    PROVE  HistoryStep
  <1>1. PICK s \in SnapshotIds \ DOMAIN snapshots, n \in Nat \ {0} :
              /\ RowsAdded(s, n, actor, b, content, envelope, preview)
              /\ outbox' = outbox \cup
                    {[event |-> event, branch |-> b, revision |-> n, snapshot |-> s]}
    BY PersistCommitRows
  <1>2. PICK t : /\ snapshots' = Put(snapshots, t, [version |-> profile.version + 1, content |-> content])
                 /\ profile' = [snapshot |-> t, version |-> profile.version + 1]
    BY DEF PersistCommit, InsertSnapshot
  <1>3. s = t
    BY <1>1, <1>2 DEF Put, RowsAdded
  <1>4. snapshots'[s].version = profile.version + 1
    BY <1>2, <1>3 DEF Put
  <1>5. KeyCompleted(key, "commit", <<b, n>>)
    BY <1>1, CompleteAnswersItsKey DEF RowsAdded
  <1>6. RowsKept(b)
    BY <1>1 DEF RowsKept, RowsAdded
  <1>7. commits'[<<b, n>>].snapshot = s /\ commits'[<<b, n>>].envelope = envelope
    BY <1>1 DEF RowsAdded
  <1>8. Appended(key, b, s, n, envelope)
    BY <1>1, <1>2, <1>3, <1>4, <1>5, <1>6, <1>7 DEF Appended, RowsAdded
  <1> QED
    BY <1>8 DEF HistoryStep, TypeOK

\* Every step is one of these kinds.
LEMMA EveryStepIsAHistoryStep ==
    ASSUME IInv, [Next]_vars
    PROVE  HistoryStep
  <1>1. CASE UNCHANGED vars
    BY <1>1 DEF vars, Quiet, HistoryStep
  <1>2. ASSUME NEW key \in Keys, NEW actor \in Actors, NEW content \in Contents,
               Initialize(key, actor, content)
        PROVE  HistoryStep
    <2> DEFINE s == Fresh(SnapshotIds, DOMAIN snapshots)
               b == Fresh(BranchIds, DOMAIN branches)
    <2>1. s \in SnapshotIds \ DOMAIN snapshots /\ b \in BranchIds \ DOMAIN branches
      BY <1>2, FreshIsUnused DEF Initialize
    <2>2. PICK request, first :
             /\ profile = None
             /\ Claims(key)
             /\ snapshots' = Put(snapshots, s, [version |-> 1, content |-> content])
             /\ profile' = [snapshot |-> s, version |-> 1]
             /\ branches' = Put(branches, b, [source |-> s, head |-> s, revision |-> 1])
             /\ commits' = Put(commits, <<b, 1>>, first)
             /\ first.snapshot = s /\ first.envelope.type = "snapshot.initialize.v1"
             /\ outbox' = outbox \cup {[event |-> "snapshot.initialize.v1", branch |-> b,
                                        revision |-> 1, snapshot |-> s]}
             /\ Complete(key, request, "snapshot", s)
      <3> DEFINE first == [preview |-> None, parent |-> s, snapshot |-> s, committedBy |-> actor,
                           envelope |-> [type |-> "snapshot.initialize.v1", source |-> s]]
                 request == [operation |-> "snapshot.initialize.v1", actor |-> actor,
                             snapshot |-> content]
      <3> WITNESS request, first
      <3> QED
        BY <1>2 DEF Initialize, InsertSnapshot, AppendAuditAndOutbox
    <2>3. KeyCompleted(key, "snapshot", s)
      BY <2>2, CompleteAnswersItsKey
    <2> HIDE DEF s, b
    <2>4. <<b, 1>> \notin DOMAIN commits
      BY <2>1 DEF IInv, CommitKeysOK
    <2>5. RowsKept(b)
      BY <2>1, <2>2, <2>4 DEF RowsKept, Put
    <2>6. Started(key, b, s)
      BY <2>1, <2>2, <2>3, <2>5 DEF Started, Put
    <2> QED
      BY <2>1, <2>6 DEF HistoryStep
  <1>3. ASSUME NEW key \in Keys, NEW actor \in Actors, NEW source \in SnapshotIds,
               NEW sha \in Contents, CreateBranch(key, actor, source, sha)
        PROVE  HistoryStep
    <2> DEFINE b == Fresh(BranchIds, DOMAIN branches)
    <2>1. b \in BranchIds \ DOMAIN branches
      BY <1>3, FreshIsUnused DEF CreateBranch
    <2>2. PICK request :
             /\ source \in DOMAIN snapshots
             /\ Claims(key)
             /\ branches' = Put(branches, b, [source |-> source, head |-> source, revision |-> 0])
             /\ outbox' = outbox \cup {[event |-> "model.branch.created.v1", branch |-> b,
                                        revision |-> 0, snapshot |-> source]}
             /\ Complete(key, request, "branch", b)
             /\ UNCHANGED <<snapshots, profile, commits>>
      BY <1>3 DEF CreateBranch, AppendAuditAndOutbox
    <2>3. KeyCompleted(key, "branch", b)
      BY <2>2, CompleteAnswersItsKey
    <2> HIDE DEF b
    <2>4. RowsKept(b)
      BY <2>1, <2>2 DEF RowsKept, Put
    <2>5. Branched(key, b, source)
      BY <2>1, <2>2, <2>3, <2>4 DEF Branched, Put
    <2> QED
      BY <2>1, <2>5 DEF HistoryStep
  <1>4. ASSUME NEW key \in Keys, NEW actor \in Actors, NEW b \in BranchIds, NEW revision,
               NEW sha \in Contents, NEW operations \in Operations,
               Preview(key, actor, b, revision, sha, operations)
        PROVE  HistoryStep
    <2>1. PICK request, p :
             /\ Claims(key) /\ Complete(key, request, "preview", p)
             /\ UNCHANGED history
      BY <1>4 DEF Preview
    <2>2. KeyCompleted(key, "preview", p)
      BY <2>1, CompleteAnswersItsKey
    <2> QED
      BY <2>1, <2>2 DEF KeyCompleted, history, Quiet, HistoryStep
  <1>5. ASSUME NEW key \in Keys, NEW actor \in Actors, NEW b \in BranchIds, NEW revision,
               NEW sha \in Contents, NEW p \in PreviewIds,
               CommitPreview(key, actor, b, revision, sha, p)
        PROVE  HistoryStep
    <2> DEFINE envelope == [type |-> "operations", operations |-> previews[p].operations]
               content == Reduce[<<HeadContent(b), previews[p].operations>>]
    <2>1. PICK request :
             /\ b \in DOMAIN branches
             /\ Claims(key)
             /\ Confirmable(p, actor, b)
             /\ content = previews[p].result
             /\ PersistCommit(actor, b, content, envelope, p, "model.operations.committed.v1")
             /\ Complete(key, request, "commit", <<b, branches[b].revision + 1>>)
      BY <1>5 DEF CommitPreview
    <2>2. previews[p].operations \in Operations /\ content \in Contents
      BY <2>1 DEF IInv, TypeOK, PreviewRow, Confirmable, HasNoBlockingFindings
    <2>3. /\ envelope \in Envelope /\ envelope.type = "operations"
          /\ envelope.operations = previews[p].operations
      BY <2>2 DEF Envelope
    <2>4. /\ envelope.operations \in Operations
          /\ Reduce[<<HeadContent(b), envelope.operations>>] = content
      BY <2>2, <2>3
    <2> HIDE DEF envelope, content
    <2> QED
      BY <2>1, <2>2, <2>3, <2>4, PersistCommitAppends DEF IInv
  <1>6. ASSUME NEW key \in Keys, NEW actor \in Actors, NEW b \in BranchIds, NEW revision,
               NEW sha \in Contents, NEW source \in SnapshotIds, NEW sourceSha \in Contents,
               Restore(key, actor, b, revision, sha, source, sourceSha)
        PROVE  HistoryStep
    <2> DEFINE envelope == [type |-> "snapshot.restore.v1", source |-> source]
    <2>1. PICK request :
             /\ b \in DOMAIN branches
             /\ Claims(key)
             /\ source \in DOMAIN snapshots /\ ContentOf(source) = sourceSha
             /\ PersistCommit(actor, b, sourceSha, envelope, None, "snapshot.restore.v1")
             /\ Complete(key, request, "commit", <<b, branches[b].revision + 1>>)
      BY <1>6 DEF Restore
    <2>2. /\ envelope \in Envelope /\ envelope.type = "snapshot.restore.v1"
          /\ envelope.source \in DOMAIN snapshots /\ ContentOf(envelope.source) = sourceSha
      BY <2>1 DEF Envelope
    <2> HIDE DEF envelope
    <2> QED
      BY <2>1, <2>2, PersistCommitAppends DEF IInv
  <1>7. ASSUME \/ \E p \in PreviewIds : ExpireForApi(p) \/ ExpireForDatabase(p)
               \/ CleanupExpiredPreviews
        PROVE  HistoryStep
    BY <1>7 DEF ExpireForApi, ExpireForDatabase, CleanupExpiredPreviews, history, Quiet, HistoryStep
  <1> QED
    BY <1>1, <1>2, <1>3, <1>4, <1>5, <1>6, <1>7 DEF Next, HandlerStep

-----------------------------------------------------------------------------
(* What the tables beside the commits say: versions, events, keys.         *)

\* An initialisation is answered with a snapshot there is.
SnapshotKeysOK ==
    \A k \in DOMAIN idempotency :
        idempotency[k].kind = "snapshot" => idempotency[k].response \in DOMAIN snapshots

\* Every snapshot is one that some branch was at.
SnapshotsAreInHistory ==
    \A s \in DOMAIN snapshots :
        \E b \in DOMAIN branches : \E r \in 0..branches[b].revision : SnapshotAt(b, r) = s

RecordsInv ==
    /\ ProfilePointsToNewest
    /\ EventsMatchHistory
    /\ EveryCommitHasItsKey
    /\ SnapshotKeysOK
    /\ SnapshotsAreInHistory

\* The key whose answer produced a commit.
ProducedBy(k, c) ==
    \/ idempotency[k].kind = "commit" /\ idempotency[k].response = c
    \/ idempotency[k].kind = "snapshot" /\ idempotency[k].response = commits[c].snapshot

\* EveryCommitHasItsKey, with its local definition by name.
LEMMA KeyOfACommit ==
    EveryCommitHasItsKey <=>
        \A c \in DOMAIN commits :
            \E k \in DOMAIN idempotency :
                ProducedBy(k, c) /\ \A j \in DOMAIN idempotency : ProducedBy(j, c) => j = k
  BY DEF EveryCommitHasItsKey, ProducedBy

\* The empty tables satisfy it.
LEMMA InitRecords == Init => RecordsInv
  BY DEF Init, NoRows, RecordsInv, ProfilePointsToNewest, EventsMatchHistory,
         EveryCommitHasItsKey, SnapshotKeysOK, SnapshotsAreInHistory

\* A row of the profile is not NULL.
LEMMA ProfileIsPresent ==
    ASSUME NEW s \in SnapshotIds, NEW n \in Nat
    PROVE  [snapshot |-> s, version |-> n] # None
  BY NoneAssumption

\* As long as there is no profile there is no other row.
LEMMA NothingBeforeTheProfile ==
    ASSUME IInv, RecordsInv, profile = None
    PROVE  /\ snapshots = NoRows /\ DOMAIN snapshots = {}
           /\ DOMAIN branches = {} /\ DOMAIN commits = {}
           /\ \A e \in outbox : FALSE
  <1>1. snapshots = NoRows /\ DOMAIN snapshots = {}
    BY DEF RecordsInv, ProfilePointsToNewest, NoRows
  <1>2. DOMAIN branches = {} /\ DOMAIN commits = {}
    BY <1>1 DEF IInv, ReferencesOK
  <1>3. \A e \in outbox : FALSE
    BY <1>2 DEF IInv, TypeOK
  <1> QED
    BY <1>1, <1>2, <1>3

\* The snapshot table gets one row, of the version after the profile's.
LEMMA NextVersionIsNewest ==
    ASSUME ProfilePointsToNewest, profile # None, profile.version \in Nat,
           NEW s \in SnapshotIds \ DOMAIN snapshots,
           DOMAIN snapshots' = DOMAIN snapshots \cup {s},
           \A t \in DOMAIN snapshots : snapshots'[t] = snapshots[t],
           snapshots'[s].version = profile.version + 1,
           profile' = [snapshot |-> s, version |-> profile.version + 1]
    PROVE  ProfilePointsToNewest'
  <1> DEFINE n == profile.version
  <1>1. /\ {snapshots[t].version : t \in DOMAIN snapshots} = 1..n
        /\ \A t, u \in DOMAIN snapshots : snapshots[t].version = snapshots[u].version => t = u
    BY DEF ProfilePointsToNewest
  <1>2. profile' # None
    BY ProfileIsPresent
  <1>3. \A t \in DOMAIN snapshots : snapshots[t].version \in 1..n
    BY <1>1
  <1>4. {snapshots'[t].version : t \in DOMAIN snapshots'} = 1..(n + 1)
    <2>1. ASSUME NEW t \in DOMAIN snapshots' PROVE snapshots'[t].version \in 1..(n + 1)
      BY <1>3
    <2>2. ASSUME NEW v \in 1..(n + 1)
          PROVE  \E t \in DOMAIN snapshots' : snapshots'[t].version = v
      <3>1. CASE v = n + 1
        BY <3>1
      <3>2. CASE v \in 1..n
        <4>1. PICK t \in DOMAIN snapshots : snapshots[t].version = v
          BY <3>2, <1>1
        <4> QED
          BY <4>1
      <3> QED
        BY <3>1, <3>2
    <2> QED
      BY <2>1, <2>2
  <1>5. \A t, u \in DOMAIN snapshots' : snapshots'[t].version = snapshots'[u].version => t = u
    BY <1>1, <1>3
  <1> QED
    BY <1>2, <1>4, <1>5 DEF ProfilePointsToNewest

\* The versions stay gap-free.
LEMMA VersionsStep ==
    ASSUME IInv, RecordsInv, HistoryStep
    PROVE  ProfilePointsToNewest'
  <1>1. ASSUME NEW key \in Keys, NEW b \in BranchIds, NEW s \in SnapshotIds, Started(key, b, s)
        PROVE  ProfilePointsToNewest'
    <2>1. DOMAIN snapshots' = {s} /\ snapshots'[s].version = 1
      BY <1>1, NothingBeforeTheProfile DEF Started
    <2>2. profile' = [snapshot |-> s, version |-> 1] /\ profile' # None
      BY <1>1, ProfileIsPresent DEF Started
    <2>3. {snapshots'[t].version : t \in DOMAIN snapshots'} = 1..1
      BY <2>1
    <2> QED
      BY <2>1, <2>2, <2>3 DEF ProfilePointsToNewest
  <1>2. ASSUME NEW key \in Keys, NEW b \in BranchIds, NEW s \in SnapshotIds, NEW n \in Nat,
               NEW envelope \in Envelope, Appended(key, b, s, n, envelope)
        PROVE  ProfilePointsToNewest'
    <2>1. profile \in [snapshot : DOMAIN snapshots, version : Nat \ {0}]
      BY <1>2 DEF Appended, IInv, ReferencesOK
    <2>2. profile # None /\ profile.version \in Nat
      BY <2>1, ProfileIsPresent DEF IInv, TypeOK
    <2> QED
      BY <1>2, <2>2, NextVersionIsNewest DEF Appended, RowsKept, RecordsInv
  <1>3. ASSUME snapshots' = snapshots, profile' = profile
        PROVE  ProfilePointsToNewest'
    BY <1>3 DEF RecordsInv, ProfilePointsToNewest
  <1> QED
    BY <1>1, <1>2, <1>3 DEF HistoryStep, Branched, Quiet

\* A commit is announced once, with its snapshot, and nothing else is.
LEMMA EventsStep ==
    ASSUME IInv, RecordsInv, HistoryStep
    PROVE  EventsMatchHistory'
  <1> USE DEF EventsMatchHistory, RecordsInv
  <1>1. ASSUME NEW b \in BranchIds, NEW s \in SnapshotIds, NEW n \in Nat \ {0}, NEW event,
               RowsKept(b), <<b, n>> \notin DOMAIN commits,
               DOMAIN commits' = DOMAIN commits \cup {<<b, n>>},
               commits'[<<b, n>>].snapshot = s,
               outbox' = outbox \cup
                  {[event |-> event, branch |-> b, revision |-> n, snapshot |-> s]}
        PROVE  EventsMatchHistory'
    <2> DEFINE new == [event |-> event, branch |-> b, revision |-> n, snapshot |-> s]
    <2>1. \A c \in DOMAIN commits' :
             \E e \in outbox' : /\ e.branch = c[1] /\ e.revision = c[2]
                                /\ e.snapshot = commits'[c].snapshot
      <3> SUFFICES ASSUME NEW c \in DOMAIN commits'
                   PROVE  \E e \in outbox' : /\ e.branch = c[1] /\ e.revision = c[2]
                                             /\ e.snapshot = commits'[c].snapshot
        OBVIOUS
      <3>1. CASE c = <<b, n>>
        <4>1. new \in outbox' /\ new.branch = c[1] /\ new.revision = c[2] /\ new.snapshot = s
          BY <1>1, <3>1
        <4> QED
          BY <1>1, <3>1, <4>1
      <3>2. CASE c \in DOMAIN commits
        BY <1>1, <3>2 DEF RowsKept
      <3> QED
        BY <1>1, <3>1, <3>2
    <2>2. \A e \in outbox' : e.revision > 0 =>
             /\ <<e.branch, e.revision>> \in DOMAIN commits'
             /\ commits'[<<e.branch, e.revision>>].snapshot = e.snapshot
      BY <1>1 DEF RowsKept
    <2>3. \A e \in outbox : ~(e.branch = b /\ e.revision = n)
      BY <1>1
    <2>4. \A e, f \in outbox' : e.branch = f.branch /\ e.revision = f.revision => e = f
      BY <1>1, <2>3
    <2> QED
      BY <2>1, <2>2, <2>4
  <1>2. ASSUME NEW key \in Keys, NEW b \in BranchIds, NEW s \in SnapshotIds, Started(key, b, s)
        PROVE  EventsMatchHistory'
    <2>1. <<b, 1>> \notin DOMAIN commits
      BY <1>2, NothingBeforeTheProfile DEF Started
    <2>2. PICK event : outbox' = outbox \cup
             {[event |-> event, branch |-> b, revision |-> 1, snapshot |-> s]}
      BY <1>2 DEF Started
    <2>3. /\ RowsKept(b) /\ DOMAIN commits' = DOMAIN commits \cup {<<b, 1>>}
          /\ commits'[<<b, 1>>].snapshot = s
      BY <1>2 DEF Started
    <2> HIDE DEF EventsMatchHistory
    <2> QED
      BY <1>1, <2>1, <2>2, <2>3
  <1>3. ASSUME NEW key \in Keys, NEW b \in BranchIds, NEW source \in SnapshotIds,
               Branched(key, b, source)
        PROVE  EventsMatchHistory'
    <2>1. PICK event : outbox' = outbox \cup
             {[event |-> event, branch |-> b, revision |-> 0, snapshot |-> source]}
      BY <1>3 DEF Branched
    <2>2. \A e \in outbox : e.branch # b
      BY <1>3 DEF Branched, IInv, TypeOK
    <2>3. commits' = commits
      BY <1>3 DEF Branched
    <2> QED
      BY <2>1, <2>2, <2>3
  <1>4. ASSUME NEW key \in Keys, NEW b \in BranchIds, NEW s \in SnapshotIds, NEW n \in Nat,
               NEW envelope \in Envelope, Appended(key, b, s, n, envelope)
        PROVE  EventsMatchHistory'
    BY <1>1, <1>4 DEF Appended
  <1>5. CASE Quiet
    BY <1>5 DEF Quiet
  <1> QED
    BY <1>2, <1>3, <1>4, <1>5 DEF HistoryStep

\* A commit has one key, and keeps it.
LEMMA KeysStep ==
    ASSUME IInv, RecordsInv, HistoryStep
    PROVE  EveryCommitHasItsKey' /\ SnapshotKeysOK'
  <1> DEFINE HasKey(c) ==
               \E k \in DOMAIN idempotency :
                   ProducedBy(k, c) /\ \A j \in DOMAIN idempotency : ProducedBy(j, c) => j = k
  <1>0. /\ \A c \in DOMAIN commits : HasKey(c)
        /\ \A c \in DOMAIN commits : commits[c].snapshot \in DOMAIN snapshots
        /\ \A k \in DOMAIN idempotency :
              /\ idempotency[k].kind = "commit" => idempotency[k].response \in DOMAIN commits
              /\ idempotency[k].kind = "snapshot" => idempotency[k].response \in DOMAIN snapshots
    BY KeyOfACommit
       DEF RecordsInv, IInv, ReferencesOK, CommitsFollowWhatTheCallerSaw, SnapshotKeysOK
  \* An older commit keeps its key as long as the new key answers another row.
  <1>1. ASSUME NEW c \in DOMAIN commits, c \in DOMAIN commits', commits'[c] = commits[c],
               DOMAIN idempotency \subseteq DOMAIN idempotency',
               \A k \in DOMAIN idempotency : idempotency'[k] = idempotency[k],
               \A k \in DOMAIN idempotency' \ DOMAIN idempotency : ~ProducedBy(k, c)'
        PROVE  HasKey(c)'
    <2>1. PICK k \in DOMAIN idempotency :
             ProducedBy(k, c) /\ \A j \in DOMAIN idempotency : ProducedBy(j, c) => j = k
      BY <1>0
    <2>2. \A j \in DOMAIN idempotency : ProducedBy(j, c)' <=> ProducedBy(j, c)
      BY <1>1 DEF ProducedBy
    <2> QED
      BY <1>1, <2>1, <2>2
  \* A new commit has the new key, as older keys answer older rows.
  <1>2. ASSUME NEW key \in Keys, NEW c, NEW kind, NEW response, NEW s,
               KeyCompleted(key, kind, response), c \notin DOMAIN commits,
               s \notin DOMAIN snapshots, commits'[c].snapshot = s,
               \/ kind = "commit" /\ response = c
               \/ kind = "snapshot" /\ response = s
        PROVE  HasKey(c)'
    <2>1. ProducedBy(key, c)'
      BY <1>2 DEF KeyCompleted, ProducedBy
    <2>2. \A j \in DOMAIN idempotency : ~ProducedBy(j, c)'
      BY <1>0, <1>2 DEF KeyCompleted, ProducedBy
    <2>3. key \in DOMAIN idempotency' /\ \A j \in DOMAIN idempotency' : ProducedBy(j, c)' => j = key
      BY <1>2, <2>2 DEF KeyCompleted
    <2> QED
      BY <2>1, <2>3
  <1> HIDE DEF HasKey
  <1>3. ASSUME NEW key \in Keys, NEW b \in BranchIds, NEW s \in SnapshotIds, Started(key, b, s)
        PROVE  (\A c \in DOMAIN commits' : HasKey(c)') /\ SnapshotKeysOK'
    <2>1. DOMAIN commits = {} /\ s \notin DOMAIN snapshots
      BY <1>3, NothingBeforeTheProfile DEF Started
    <2>2. HasKey(<<b, 1>>)'
      BY <1>2, <1>3, <2>1 DEF Started
    <2>3. SnapshotKeysOK'
      BY <1>0, <1>3 DEF SnapshotKeysOK, Started, KeyCompleted
    <2> QED
      BY <1>3, <2>1, <2>2, <2>3 DEF Started
  <1>4. ASSUME NEW key \in Keys, NEW b \in BranchIds, NEW source \in SnapshotIds,
               Branched(key, b, source)
        PROVE  (\A c \in DOMAIN commits' : HasKey(c)') /\ SnapshotKeysOK'
    <2>1. ASSUME NEW c \in DOMAIN commits' PROVE HasKey(c)'
      <3>1. ~ProducedBy(key, c)'
        BY <1>4 DEF Branched, KeyCompleted, ProducedBy
      <3> QED
        BY <1>1, <1>4, <3>1 DEF Branched, KeyCompleted
    <2>2. SnapshotKeysOK'
      BY <1>0, <1>4 DEF SnapshotKeysOK, Branched, KeyCompleted
    <2> QED
      BY <2>1, <2>2
  <1>5. ASSUME NEW key \in Keys, NEW b \in BranchIds, NEW s \in SnapshotIds, NEW n \in Nat,
               NEW envelope \in Envelope, Appended(key, b, s, n, envelope)
        PROVE  (\A c \in DOMAIN commits' : HasKey(c)') /\ SnapshotKeysOK'
    <2>1. HasKey(<<b, n>>)'
      BY <1>2, <1>5 DEF Appended
    <2>2. ASSUME NEW c \in DOMAIN commits PROVE HasKey(c)'
      <3>1. ~ProducedBy(key, c)'
        BY <1>5 DEF Appended, KeyCompleted, ProducedBy
      <3> QED
        BY <1>1, <1>5, <3>1 DEF Appended, RowsKept, KeyCompleted
    <2>3. SnapshotKeysOK'
      BY <1>0, <1>5 DEF SnapshotKeysOK, Appended, KeyCompleted
    <2> QED
      BY <1>5, <2>1, <2>2, <2>3 DEF Appended
  <1>6. ASSUME Quiet
        PROVE  (\A c \in DOMAIN commits' : HasKey(c)') /\ SnapshotKeysOK'
    <2>1. ASSUME NEW c \in DOMAIN commits' PROVE HasKey(c)'
      <3>1. \A k \in DOMAIN idempotency' \ DOMAIN idempotency : ~ProducedBy(k, c)'
        BY <1>6 DEF Quiet, ProducedBy
      <3> QED
        BY <1>1, <1>6, <3>1 DEF Quiet
    <2>2. SnapshotKeysOK'
      BY <1>0, <1>6 DEF SnapshotKeysOK, Quiet
    <2> QED
      BY <2>1, <2>2
  <1>7. (\A c \in DOMAIN commits' : HasKey(c)') /\ SnapshotKeysOK'
    BY <1>3, <1>4, <1>5, <1>6 DEF HistoryStep
  <1> QED
    BY <1>7 DEF HasKey, EveryCommitHasItsKey, ProducedBy

\* The past of every branch is the same after the step, where the step keeps
\* the rows and the source of the branch it is about.
LEMMA HistoryIsKept ==
    ASSUME IInv, NEW b \in BranchIds, RowsKept(b),
           b \in DOMAIN branches => b \in DOMAIN branches' /\ branches'[b].source = branches[b].source,
           NEW a \in DOMAIN branches, NEW r \in 0..branches[a].revision
    PROVE  /\ SnapshotAt(a, r)' = SnapshotAt(a, r)
           /\ SnapshotAt(a, r) \in DOMAIN snapshots
           /\ EntryAt(a, r)' = EntryAt(a, r)
  <1>0. a \in BranchIds /\ branches[a].revision \in Nat /\ r \in Nat
    BY DEF IInv, TypeOK, Branch
  <1>1. r # 0 => <<a, r>> \in DOMAIN commits
    BY <1>0 DEF IInv, CommitKeysOK
  <1>2. SnapshotAt(a, r)' = SnapshotAt(a, r)
    BY <1>0, PastIsKept DEF IInv, RowsKept
  <1>3. SnapshotAt(a, r) \in DOMAIN snapshots
    BY <1>1 DEF IInv, ReferencesOK, SnapshotAt
  <1>4. ContentOf(SnapshotAt(a, r))' = ContentOf(SnapshotAt(a, r))
    BY <1>2, <1>3 DEF ContentOf, RowsKept
  <1>5. r # 0 => commits'[<<a, r>>] = commits[<<a, r>>]
    BY <1>1 DEF RowsKept
  <1> QED
    BY <1>2, <1>3, <1>4, <1>5 DEF EntryAt

\* Each snapshot enters with the commit that makes it.
LEMMA SnapshotsStep ==
    ASSUME IInv, RecordsInv, HistoryStep
    PROVE  SnapshotsAreInHistory'
  <1> DEFINE Known(s) == \E b \in DOMAIN branches : \E r \in 0..branches[b].revision : SnapshotAt(b, r) = s
  <1>0. \A s \in DOMAIN snapshots : Known(s)
    BY DEF RecordsInv, SnapshotsAreInHistory
  <1>1. ASSUME NEW b \in BranchIds, RowsKept(b),
               b \in DOMAIN branches =>
                  /\ b \in DOMAIN branches' /\ branches'[b].source = branches[b].source
                  /\ branches'[b].revision = branches[b].revision + 1,
               NEW s \in DOMAIN snapshots
        PROVE  Known(s)'
    <2>1. PICK a \in DOMAIN branches :
             \E r \in 0..branches[a].revision : SnapshotAt(a, r) = s
      BY <1>0
    <2>0. PICK r \in 0..branches[a].revision : SnapshotAt(a, r) = s
      BY <2>1
    <2>2. SnapshotAt(a, r)' = s
      BY <1>1, <2>0, HistoryIsKept
    <2>3. branches[a].revision \in Nat
      BY DEF IInv, TypeOK, Branch
    <2>4. a \in DOMAIN branches' /\ r \in 0..branches'[a].revision
      BY <1>1, <2>3 DEF RowsKept
    <2> QED
      BY <2>2, <2>4
  <1>2. ASSUME NEW key \in Keys, NEW b \in BranchIds, NEW s \in SnapshotIds, Started(key, b, s)
        PROVE  \A t \in DOMAIN snapshots' : Known(t)'
    <2>1. b \in DOMAIN branches' /\ branches'[b].revision = 1 /\ SnapshotAt(b, 0)' = s
      BY <1>2 DEF Started, SnapshotAt
    <2>2. Known(s)'
      BY <2>1
    <2>3. DOMAIN snapshots' = {s}
      BY <1>2, NothingBeforeTheProfile DEF Started
    <2> QED
      BY <2>2, <2>3
  <1>3. ASSUME NEW key \in Keys, NEW b \in BranchIds, NEW source \in SnapshotIds,
               Branched(key, b, source)
        PROVE  \A t \in DOMAIN snapshots' : Known(t)'
    <2>1. b \notin DOMAIN branches /\ RowsKept(b) /\ snapshots' = snapshots
      BY <1>3 DEF Branched
    <2> HIDE DEF Known
    <2> QED
      BY <1>1, <2>1
  <1>4. ASSUME NEW key \in Keys, NEW b \in BranchIds, NEW s \in SnapshotIds, NEW n \in Nat,
               NEW envelope \in Envelope, Appended(key, b, s, n, envelope)
        PROVE  \A t \in DOMAIN snapshots' : Known(t)'
    <2>1. /\ b \in DOMAIN branches' /\ branches'[b].source = branches[b].source
          /\ branches'[b].revision = branches[b].revision + 1
          /\ RowsKept(b) /\ DOMAIN snapshots' = DOMAIN snapshots \cup {s}
      BY <1>4 DEF Appended
    <2>2. Known(s)'
      <3>1. n # 0 /\ branches'[b].revision = n /\ SnapshotAt(b, n)' = s
        BY <1>4 DEF Appended, SnapshotAt
      <3> QED
        BY <2>1, <3>1
    <2> HIDE DEF Known
    <2> QED
      BY <1>1, <2>1, <2>2
  <1>5. ASSUME Quiet
        PROVE  \A t \in DOMAIN snapshots' : Known(t)'
    BY <1>0, <1>5 DEF Quiet, SnapshotAt
  <1>6. \A t \in DOMAIN snapshots' : Known(t)'
    <2> HIDE DEF Known
    <2> QED
      BY <1>2, <1>3, <1>4, <1>5 DEF HistoryStep
  <1> QED
    BY <1>6 DEF SnapshotsAreInHistory

\* The records stay true, whatever the clients send.
THEOREM RecordsHold == Spec => []RecordsInv
  <1>1. Init => RecordsInv
    BY InitRecords
  <1>2. IInv /\ RecordsInv /\ [Next]_vars => RecordsInv'
    <2> SUFFICES ASSUME IInv, RecordsInv, [Next]_vars PROVE RecordsInv'
      OBVIOUS
    <2>1. HistoryStep
      BY EveryStepIsAHistoryStep
    <2> QED
      BY <2>1, VersionsStep, EventsStep, KeysStep, SnapshotsStep DEF RecordsInv
  <1> QED
    BY <1>1, <1>2, InvariantHolds, PTL DEF Spec

\* Whatever branches commit, the profile's versions have no gap and no double,
\* and its pointer names the newest.
THEOREM VersionsAreGapFree == Spec => []ProfilePointsToNewest
  <1>1. RecordsInv => ProfilePointsToNewest
    BY DEF RecordsInv
  <1> QED
    BY <1>1, RecordsHold, PTL

\* Every commit has one event and one key, and no event is about another.
THEOREM CommitsStayOnRecord == Spec => []CommitsAreOnRecord
  <1>1. RecordsInv => CommitsAreOnRecord
    BY DEF RecordsInv, CommitsAreOnRecord
  <1> QED
    BY <1>1, RecordsHold, PTL

\* What was answered to a commit or an initialisation is answered again.
LEMMA AnswersAreKept ==
    ASSUME IInv, RecordsInv, HistoryStep, NEW k \in DOMAIN idempotency,
           idempotency[k].kind \in {"commit", "snapshot"}
    PROVE  ReplayedResponse(k)' = ReplayedResponse(k)
  <1>0. \/ \E key, kind, response, b : KeyCompleted(key, kind, response) /\ RowsKept(b)
        \/ Quiet
    <2>1. \A key, b, s : Started(key, b, s) => KeyCompleted(key, "snapshot", s) /\ RowsKept(b)
      BY DEF Started
    <2>2. \A key, b, source : Branched(key, b, source) => KeyCompleted(key, "branch", b) /\ RowsKept(b)
      BY DEF Branched
    <2>3. \A key, b, s, n, envelope :
             Appended(key, b, s, n, envelope) => KeyCompleted(key, "commit", <<b, n>>) /\ RowsKept(b)
      BY DEF Appended
    <2> QED
      BY <2>1, <2>2, <2>3 DEF HistoryStep
  <1>1. idempotency'[k] = idempotency[k]
    BY <1>0 DEF Quiet, KeyCompleted
  <1>2. /\ \A s \in DOMAIN snapshots : snapshots'[s] = snapshots[s]
        /\ \A c \in DOMAIN commits : commits'[c] = commits[c]
    BY <1>0 DEF Quiet, RowsKept
  <1>3. CASE idempotency[k].kind = "commit"
    <2>1. idempotency[k].response \in DOMAIN commits
      BY <1>3 DEF IInv, CommitsFollowWhatTheCallerSaw
    <2>2. CommitResponse(idempotency[k].response)' = CommitResponse(idempotency[k].response)
      BY <1>1, <1>2, <2>1 DEF CommitResponse
    <2>3. /\ ReplayedResponse(k) = CommitResponse(idempotency[k].response)
          /\ ReplayedResponse(k)' = CommitResponse(idempotency[k].response)'
      BY <1>1, <1>3 DEF ReplayedResponse
    <2> QED
      BY <2>2, <2>3
  <1>4. CASE idempotency[k].kind = "snapshot"
    <2>1. idempotency[k].response \in DOMAIN snapshots
      BY <1>4 DEF RecordsInv, SnapshotKeysOK
    <2>2. /\ ReplayedResponse(k) = snapshots[idempotency[k].response]
          /\ ReplayedResponse(k)' = snapshots'[idempotency'[k].response]
      BY <1>1, <1>4 DEF ReplayedResponse
    <2> QED
      BY <1>1, <1>2, <2>1, <2>2
  <1> QED
    BY <1>3, <1>4

\* The repetition of a commit, restore or initialisation is answered as the
\* first time, in every later state.
THEOREM ReplaysStayStable == Spec => CommitReplaysAreStable
  <1>1. IInv /\ RecordsInv /\ [Next]_vars =>
            [\A k \in DOMAIN idempotency :
                idempotency[k].kind \in {"commit", "snapshot"} =>
                   ReplayedResponse(k)' = ReplayedResponse(k)]_vars
    BY EveryStepIsAHistoryStep, AnswersAreKept
  <1> QED
    BY <1>1, InvariantHolds, RecordsHold, PTL DEF Spec, CommitReplaysAreStable

-----------------------------------------------------------------------------
(* The refinement.                                                         *)

\* What Histories says of one branch.
LEMMA HistoryOfABranch ==
    ASSUME IInv, NEW b \in DOMAIN branches
    PROVE  /\ branches[b].revision \in Nat
           /\ DOMAIN Histories[b] = 0..branches[b].revision
           /\ \A r \in 0..branches[b].revision : Histories[b][r] = EntryAt(b, r)
           /\ EntryAt(b, branches[b].revision).content = HeadContent(b)
  <1>1. branches[b].revision \in Nat
    BY DEF IInv, TypeOK, Branch
  <1>2. EntryAt(b, branches[b].revision).content = HeadContent(b)
    BY DEF IInv, ChainOK, EntryAt, HeadContent
  <1> QED
    BY <1>1, <1>2 DEF Histories

\* The last entry is that of the branch's revision.
LEMMA LastIsTheRevision ==
    ASSUME IInv, NEW b \in DOMAIN branches
    PROVE  History!Last(b) = branches[b].revision
  <1>1. PICK n \in Nat : n = branches[b].revision /\ DOMAIN Histories[b] = 0..n
    BY HistoryOfABranch
  <1>2. \A r \in 0..n : r + 1 \notin 0..n <=> r = n
    OBVIOUS
  <1> QED
    BY <1>1, <1>2 DEF History!Last

\* The content of a snapshot is one the abstract history has recorded.
LEMMA SnapshotsAreRecorded ==
    ASSUME IInv, RecordsInv, NEW s \in DOMAIN snapshots
    PROVE  ContentOf(s) \in History!Recorded
  <1>1. PICK b \in DOMAIN branches :
             \E r \in 0..branches[b].revision : SnapshotAt(b, r) = s
    BY DEF RecordsInv, SnapshotsAreInHistory
  <1>0. PICK r \in 0..branches[b].revision : SnapshotAt(b, r) = s
    BY <1>1
  <1>2. Histories[b][r] = EntryAt(b, r) /\ r \in DOMAIN Histories[b]
    BY HistoryOfABranch
  <1>3. Histories[b][r].content = ContentOf(s)
    BY <1>0, <1>2 DEF EntryAt
  <1>4. b \in DOMAIN Histories
    BY DEF Histories
  <1> QED
    BY <1>2, <1>3, <1>4 DEF History!Recorded

\* A branch the step adds has the history it is given; the others keep theirs.
LEMMA NewHistory ==
    ASSUME IInv, NEW b \in BranchIds \ DOMAIN branches, RowsKept(b),
           DOMAIN branches' = DOMAIN branches \cup {b},
           NEW row, row = [r \in 0..branches'[b].revision |-> EntryAt(b, r)']
    PROVE  Histories' = Put(Histories, b, row)
  <1>1. ASSUME NEW a \in DOMAIN branches
        PROVE  a # b /\ Histories'[a] = Histories[a]
    <2>1. a # b /\ branches'[a] = branches[a]
      BY DEF RowsKept
    <2>2. \A r \in 0..branches[a].revision : EntryAt(a, r)' = EntryAt(a, r)
      BY HistoryIsKept
    <2>3. Histories[a] = [r \in 0..branches[a].revision |-> EntryAt(a, r)]
      BY DEF Histories
    <2>4. Histories'[a] = [r \in 0..branches[a].revision |-> EntryAt(a, r)']
      BY <2>1 DEF Histories
    <2> QED
      BY <2>1, <2>2, <2>3, <2>4
  <1>2. Histories'[b] = row
    BY DEF Histories
  <1>3. /\ DOMAIN Histories' = DOMAIN branches \cup {b} /\ DOMAIN Histories = DOMAIN branches
        /\ Histories' = [a \in DOMAIN branches \cup {b} |-> Histories'[a]]
    BY DEF Histories
  <1> QED
    BY <1>1, <1>2, <1>3 DEF Put

\* A branch the step advances gets one entry; the others keep theirs.
LEMMA LongerHistory ==
    ASSUME IInv, NEW b \in DOMAIN branches, b \in BranchIds, RowsKept(b),
           DOMAIN branches' = DOMAIN branches,
           NEW n \in Nat, n = branches[b].revision + 1, branches'[b].revision = n,
           branches'[b].source = branches[b].source
    PROVE  Histories' = [Histories EXCEPT ![b] = Put(@, n, EntryAt(b, n)')]
  <1>1. \A a \in DOMAIN branches : \A r \in 0..branches[a].revision :
            EntryAt(a, r)' = EntryAt(a, r)
    BY HistoryIsKept
  <1>2. ASSUME NEW a \in DOMAIN branches, a # b
        PROVE  Histories'[a] = Histories[a]
    <2>1. branches'[a] = branches[a]
      BY <1>2 DEF RowsKept
    <2>3. Histories[a] = [r \in 0..branches[a].revision |-> EntryAt(a, r)]
      BY DEF Histories
    <2>4. Histories'[a] = [r \in 0..branches[a].revision |-> EntryAt(a, r)']
      BY <2>1 DEF Histories
    <2> QED
      BY <1>1, <2>3, <2>4
  <1>3. Histories'[b] = Put(Histories[b], n, EntryAt(b, n)')
    <2>1. PICK m \in Nat : m = branches[b].revision /\ n = m + 1
      BY HistoryOfABranch
    <2>2. 0..n = (0..m) \cup {n} /\ n \notin 0..m
      BY <2>1
    <2>3. Histories[b] = [r \in 0..m |-> EntryAt(b, r)]
      BY <2>1 DEF Histories
    <2>4. Histories'[b] = [r \in 0..n |-> EntryAt(b, r)']
      BY DEF Histories
    <2>5. \A r \in 0..m : EntryAt(b, r)' = EntryAt(b, r)
      BY <1>1, <2>1
    <2> QED
      BY <2>2, <2>3, <2>4, <2>5 DEF Put
  <1>4. /\ DOMAIN Histories' = DOMAIN branches /\ DOMAIN Histories = DOMAIN branches
        /\ Histories' = [a \in DOMAIN branches |-> Histories'[a]]
    BY DEF Histories
  <1> QED
    BY <1>2, <1>3, <1>4

\* Every kind of step is a step of the abstract history, or leaves it alone.
LEMMA HistoryStepsRefine ==
    ASSUME IInv, RecordsInv, HistoryStep
    PROVE  [History!Next]_Histories
  <1>1. ASSUME NEW key \in Keys, NEW b \in BranchIds, NEW s \in SnapshotIds, Started(key, b, s)
        PROVE  History!Next
    <2> DEFINE content == snapshots'[s].content
    <2>1. DOMAIN Histories = {}
      BY <1>1, NothingBeforeTheProfile DEF Started, Histories
    <2>2. \A r \in 0..1 : EntryAt(b, r)' = History!Taken(content)
      <3>1. /\ SnapshotAt(b, 0)' = s /\ SnapshotAt(b, 1)' = s
            /\ commits'[<<b, 1>>].envelope.type # "operations"
        BY <1>1 DEF Started, SnapshotAt
      <3>2. \A r \in 0..1 : r = 0 \/ r = 1
        OBVIOUS
      <3> QED
        BY <3>1, <3>2 DEF EntryAt, ContentOf, History!Taken
    <2> DEFINE row == [r \in 0..1 |-> History!Taken(content)]
    <2>3. row = [r \in 0..branches'[b].revision |-> EntryAt(b, r)'] /\ RowsKept(b)
      BY <1>1, <2>2 DEF Started
    <2>4. Histories' = Put(Histories, b, row)
      <3> HIDE DEF row
      <3> QED
        BY <1>1, <2>3, NewHistory DEF Started
    <2>5. History!Import(b, content)
      BY <2>1, <2>4 DEF History!Import, History!Put, Put
    <2> QED
      BY <1>1, <2>5 DEF Started, History!Next
  <1>2. ASSUME NEW key \in Keys, NEW b \in BranchIds, NEW source \in SnapshotIds,
               Branched(key, b, source)
        PROVE  History!Next
    <2> DEFINE content == ContentOf(source)
    <2>1. /\ source \in DOMAIN snapshots /\ b \notin DOMAIN Histories
          /\ snapshots' = snapshots
      BY <1>2 DEF Branched, Histories
    <2>2. content \in Contents
      BY <2>1 DEF IInv, TypeOK, Snapshot, ContentOf
    <2>3. EntryAt(b, 0)' = History!Taken(content)
      <3>1. SnapshotAt(b, 0)' = source
        BY <1>2 DEF Branched, SnapshotAt
      <3> QED
        BY <2>1, <3>1 DEF EntryAt, ContentOf, History!Taken
    <2>4. 0..0 = {0} /\ \A r \in 0..0 : EntryAt(b, r)' = History!Taken(content)
      BY <2>3
    <2> DEFINE row == [r \in {0} |-> History!Taken(content)]
    <2>5. row = [r \in 0..branches'[b].revision |-> EntryAt(b, r)'] /\ RowsKept(b)
      BY <1>2, <2>4 DEF Branched
    <2>6. Histories' = Put(Histories, b, row)
      <3> HIDE DEF row
      <3> QED
        BY <1>2, <2>5, NewHistory DEF Branched
    <2>7. History!BranchFrom(b, content)
      BY <2>1, <2>6, SnapshotsAreRecorded DEF History!BranchFrom, History!Put, Put
    <2> QED
      BY <2>2, <2>7 DEF History!Next
  <1>3. ASSUME NEW key \in Keys, NEW b \in BranchIds, NEW s \in SnapshotIds, NEW n \in Nat,
               NEW envelope \in Envelope, Appended(key, b, s, n, envelope)
        PROVE  History!Next
    <2> DEFINE content == snapshots'[s].content
    <2>1. /\ b \in DOMAIN branches /\ n # 0
          /\ n = branches[b].revision + 1
          /\ content \in Contents
      BY <1>3 DEF Appended
    <2>2. Histories' = [Histories EXCEPT ![b] = Put(@, n, EntryAt(b, n)')]
      BY <1>3, LongerHistory DEF Appended
    <2>3. History!Last(b) + 1 = n
      BY <2>1, LastIsTheRevision
    <2>4. Histories[b][History!Last(b)].content = HeadContent(b)
      BY <2>1, LastIsTheRevision, HistoryOfABranch
    <2>5. b \in DOMAIN Histories
      BY <2>1 DEF Histories
    <2>6. ContentOf(SnapshotAt(b, n))' = content /\ commits'[<<b, n>>].envelope = envelope
      BY <1>3, <2>1 DEF Appended, SnapshotAt, ContentOf
    <2>7. CASE envelope.type = "operations"
      <3>1. /\ envelope.operations \in Operations
            /\ content = Reduce[<<HeadContent(b), envelope.operations>>]
        BY <1>3, <2>7 DEF Appended
      <3>2. EntryAt(b, n)' = History!Made(content, envelope.operations)
        BY <2>1, <2>6, <2>7 DEF EntryAt, History!Made
      <3>3. History!Operate(b, envelope.operations)
        BY <2>1, <2>2, <2>3, <2>4, <3>1, <3>2 DEF History!Operate, History!AppendTo, History!Put, Put
      <3> QED
        BY <2>5, <3>1, <3>3 DEF History!Next
    <2>8. CASE envelope.type = "snapshot.restore.v1"
      <3>1. envelope.source \in DOMAIN snapshots /\ content = ContentOf(envelope.source)
        BY <1>3, <2>8 DEF Appended
      <3>2. EntryAt(b, n)' = History!Taken(content)
        BY <2>6, <2>8 DEF EntryAt, History!Taken
      <3>3. content \in History!Recorded
        BY <3>1, SnapshotsAreRecorded
      <3>4. History!RestoreTo(b, content)
        BY <2>2, <2>3, <3>2, <3>3 DEF History!RestoreTo, History!AppendTo, History!Put, Put
      <3> QED
        BY <2>5, <3>3, <3>4 DEF History!Next
    <2> QED
      BY <1>3, <2>7, <2>8 DEF Appended
  <1>4. ASSUME Quiet PROVE Histories' = Histories
    BY <1>4 DEF Quiet, Histories, EntryAt, SnapshotAt, ContentOf
  <1> QED
    BY <1>1, <1>2, <1>3, <1>4 DEF HistoryStep

\* The repository is an implementation of append-only branch histories, for
\* every reducer.
THEOREM RefinesBranchHistory == Spec => ImplementsBranchHistory
  <1>1. Init => History!Init
    BY DEF Init, History!Init, History!NoRows, Histories, NoRows
  <1>2. IInv /\ RecordsInv /\ [Next]_vars => [History!Next]_Histories
    BY EveryStepIsAHistoryStep, HistoryStepsRefine
  <1> QED
    BY <1>1, <1>2, InvariantHolds, RecordsHold, PTL
       DEF Spec, ImplementsBranchHistory, History!Spec
=============================================================================

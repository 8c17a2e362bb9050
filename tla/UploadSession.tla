---------------------------- MODULE UploadSession ----------------------------
(***************************************************************************)
(* C2 multipart upload sessions (PostgresAssetBackend) and the object      *)
(* store behind them (S3AssetObjectStorage and its provider).              *)
(*                                                                         *)
(* A handler is one database transaction that locks the session and asset  *)
(* rows and calls the store in the middle.  The store is not part of the   *)
(* transaction: when the process dies, the connection breaks or the store  *)
(* answers with an error, the rows are rolled back although the store may  *)
(* have done what it was asked, or may do it later.  So a handler is an    *)
(* action that ends in one of several ways.                                *)
(*                                                                         *)
(* The idempotency record is written with the rows; repeating an answered  *)
(* request changes nothing, and a fresh key is always to be had, so keys   *)
(* are left out.  So are ETags: a wrong one makes the store refuse.        *)
(***************************************************************************)
EXTENDS Naturals, Rows

CONSTANTS
    Sessions,    \* bounds the sessions ever created; each has its own asset
    PartsOf,     \* session -> the part numbers of its immutable part plan
    Checksums    \* SHA-256 of a part

\* What holds of the constants: an upload has a part.
UploadConstants == \A s \in Sessions : PartsOf[s] # {}

VARIABLES
    session,      \* asset_upload_sessions.state; "absent" without a row
    asset,        \* assets.status
    recorded,     \* asset_upload_parts: session -> part -> checksum
    jobs,         \* sessions whose asset has a processing job
    urls,         \* signed part URLs: <<session, part, checksum>>
    apiExpired,   \* sessions whose expires_at the API clock has reached
    cleanerExpired, \* those whose expires_at the clock of c2.ts has reached
    upload,       \* the provider's multipart upload of a session
    stored,       \* the provider's uploaded parts: session -> part -> checksum
    object,       \* the source object: part -> checksum, or NoRows
    inflight      \* provider requests whose sender has given up

rows == <<session, asset, recorded, jobs>>
clocks == <<apiExpired, cleanerExpired>>
provider == <<upload, stored, object>>
vars == <<rows, urls, clocks, provider, inflight>>

Open == {"initiated", "uploading"}
Terminal == {"completed", "aborted", "expired"}

CompletionRequest(s) == [type |-> "complete", session |-> s, checksums |-> recorded[s]]
AbortRequest(s) == [type |-> "abort", session |-> s, checksums |-> NoRows]

-----------------------------------------------------------------------------
(* The object store.                                                       *)

AllParts(s, checksums) == DOMAIN checksums = PartsOf[s]

\* CompleteMultipartUpload succeeds when the upload is open and every listed
\* part is there with the listed checksum.
ProviderCompletes(s, checksums) ==
    /\ upload[s] = "open"
    /\ AllParts(s, stored[s]) /\ stored[s] = checksums

CompleteAtProvider(s) ==
    /\ upload' = [upload EXCEPT ![s] = "completed"]
    /\ object' = [object EXCEPT ![s] = stored[s]]
    /\ UNCHANGED stored

AbortOnlyWithParts(ss) ==
    /\ upload' = [s \in Sessions |->
          IF s \in ss /\ upload[s] = "open" /\ stored[s] # NoRows THEN "aborted" ELSE upload[s]]
    /\ UNCHANGED <<stored, object>>

\* AbortMultipartUpload of uploads that are gone changes nothing, and
\* NoSuchUpload is no error for abortMultipartUpload.
AbortAtProvider(ss) ==
    /\ upload' = [s \in Sessions |->
          IF s \in ss /\ upload[s] = "open" THEN "aborted" ELSE upload[s]]
    /\ UNCHANGED <<stored, object>>

\* completeMultipartUpload after NoSuchUpload: HEAD finds the object with the
\* expected size.
AlwaysRecovers(s) == upload[s] # "open"

Recovers(s) == upload[s] # "open" /\ object[s] # NoRows

\* A client's PUT with a signed URL: the checksum is part of the signature.
PutPart(s, part, checksum) ==
    /\ <<s, part, checksum>> \in urls
    /\ upload[s] = "open"
    /\ stored' = [stored EXCEPT ![s] = Put(@, part, checksum)]
    /\ UNCHANGED <<rows, urls, clocks, upload, object, inflight>>

\* A request whose sender is gone takes effect after all.
LateRequest(request) ==
    /\ inflight' = inflight \ {request}
    /\ \/ request.type = "abort" /\ AbortAtProvider({request.session})
       \/ /\ request.type = "complete"
          /\ IF ProviderCompletes(request.session, request.checksums)
             THEN CompleteAtProvider(request.session)
             ELSE UNCHANGED provider
    /\ UNCHANGED <<rows, urls, clocks>>

-----------------------------------------------------------------------------
(* The handlers.                                                           *)

\* #requireOpenSession.
RequireOpen(s) == session[s] \in Open /\ s \notin apiExpired

\* createUploadSession.
Create(s) ==
    /\ upload[s] = "none"
    /\ upload' = [upload EXCEPT ![s] = "open"]
    /\ session' = [session EXCEPT ![s] = "initiated"]
    /\ asset' = [asset EXCEPT ![s] = "pending-upload"]
    /\ UNCHANGED <<recorded, jobs, urls, clocks, stored, object, inflight>>

\* Its transaction fails after the provider upload was created: the catch
\* block aborts the upload, unless the process or the store is gone.
CreateFails(s, left) ==
    /\ upload[s] = "none"
    /\ upload' = [upload EXCEPT ![s] = left]
    /\ UNCHANGED <<rows, urls, clocks, stored, object, inflight>>

\* The declaration of a part is immutable: another checksum is a conflict.
DeclarationReplaced(s, part, checksum) == TRUE

DeclarationAgrees(s, part, checksum) ==
    part \in DOMAIN recorded[s] => recorded[s][part] = checksum

\* signUploadPart: the URL is made without calling the store.
SignPart(s, part, checksum) ==
    /\ RequireOpen(s)
    /\ DeclarationAgrees(s, part, checksum)
    /\ recorded' = [recorded EXCEPT ![s] = Put(@, part, checksum)]
    /\ urls' = urls \cup {<<s, part, checksum>>}
    /\ session' = [session EXCEPT ![s] = "uploading"]
    /\ asset' = [asset EXCEPT ![s] = IF @ = "pending-upload" THEN "uploading" ELSE @]
    /\ UNCHANGED <<jobs, clocks, provider, inflight>>

\* reconcileCompletion against an open session: every part is recorded, and
\* the request lists exactly the recorded checksums.
CompletionRequested(s) == RequireOpen(s) /\ AllParts(s, recorded[s])

\* completeUpload: the store has the object, now or from an earlier try whose
\* rows were rolled back.
Complete(s) ==
    /\ CompletionRequested(s)
    /\ \/ ProviderCompletes(s, recorded[s]) /\ CompleteAtProvider(s)
       \/ Recovers(s) /\ UNCHANGED provider
    /\ session' = [session EXCEPT ![s] = "completed"]
    /\ asset' = [asset EXCEPT ![s] = IF @ = "uploading" THEN "uploaded" ELSE @]
    /\ jobs' = jobs \cup {s}
    /\ UNCHANGED <<recorded, urls, clocks, inflight>>

\* The rows are rolled back: the store has completed, or still will.
CompleteFails(s) ==
    /\ CompletionRequested(s)
    /\ \/ /\ ProviderCompletes(s, recorded[s]) /\ CompleteAtProvider(s)
          /\ UNCHANGED inflight
       \/ /\ inflight' = inflight \cup {CompletionRequest(s)}
          /\ UNCHANGED provider
    /\ UNCHANGED <<rows, urls, clocks>>

AssetAborted(s) == IF asset[s] \in {"pending-upload", "uploading"} THEN "aborted" ELSE asset[s]

\* The rows of sessions that end unfinished.
EndedKeepingAssets(ss, state) ==
    /\ session' = [s \in Sessions |-> IF s \in ss THEN state[s] ELSE session[s]]
    /\ UNCHANGED <<asset, recorded, jobs>>

Ended(ss, state) ==
    /\ session' = [s \in Sessions |-> IF s \in ss THEN state[s] ELSE session[s]]
    /\ asset' = [s \in Sessions |-> IF s \in ss THEN AssetAborted(s) ELSE asset[s]]
    /\ UNCHANGED <<recorded, jobs>>

\* abortUpload of an open session, expired or not.
Abort(s) ==
    /\ session[s] \in Open
    /\ AbortAtProvider({s})
    /\ Ended({s}, [t \in {s} |-> IF s \in apiExpired THEN "expired" ELSE "aborted"])
    /\ UNCHANGED <<urls, clocks, inflight>>

AbortFails(s) ==
    /\ session[s] \in Open
    /\ \/ AbortAtProvider({s}) /\ UNCHANGED inflight
       \/ inflight' = inflight \cup {AbortRequest(s)} /\ UNCHANGED provider
    /\ UNCHANGED <<rows, urls, clocks>>

\* cleanupExpiredSessions, of the expired sessions nobody has locked: one
\* transaction over all of them, with a call of the store for each.
UploadingOnly(s) == session[s] = "uploading" /\ s \in cleanerExpired

NotCompleted(s) == session[s] # "completed" /\ s \in cleanerExpired

ToCleanUp(s) == session[s] \in Open /\ s \in cleanerExpired

CleanUp(ss) ==
    /\ ss # {} /\ \A s \in ss : ToCleanUp(s)
    /\ AbortAtProvider(ss)
    /\ Ended(ss, [s \in ss |-> "expired"])
    /\ UNCHANGED <<urls, clocks, inflight>>

CleanUpFails(ss) ==
    /\ ss # {} /\ \A s \in ss : ToCleanUp(s)
    /\ AbortAtProvider(ss)
    /\ UNCHANGED <<rows, urls, clocks, inflight>>

ExpireForApi(s) ==
    /\ session[s] \in Open /\ s \notin apiExpired
    /\ apiExpired' = apiExpired \cup {s}
    /\ UNCHANGED <<rows, urls, cleanerExpired, provider, inflight>>

ExpireForCleaner(s) ==
    /\ session[s] \in Open /\ s \notin cleanerExpired
    /\ cleanerExpired' = cleanerExpired \cup {s}
    /\ UNCHANGED <<rows, urls, apiExpired, provider, inflight>>

-----------------------------------------------------------------------------
Init ==
    /\ session = [s \in Sessions |-> "absent"]
    /\ asset = [s \in Sessions |-> "absent"]
    /\ recorded = [s \in Sessions |-> NoRows]
    /\ jobs = {}
    /\ urls = {}
    /\ apiExpired = {}
    /\ cleanerExpired = {}
    /\ upload = [s \in Sessions |-> "none"]
    /\ stored = [s \in Sessions |-> NoRows]
    /\ object = [s \in Sessions |-> NoRows]
    /\ inflight = {}

Next ==
    \/ \E s \in Sessions :
          \/ Create(s) \/ Complete(s) \/ CompleteFails(s) \/ Abort(s) \/ AbortFails(s)
          \/ ExpireForApi(s) \/ ExpireForCleaner(s)
          \/ \E left \in {"open", "aborted"} : CreateFails(s, left)
          \/ \E part \in PartsOf[s], checksum \in Checksums :
                SignPart(s, part, checksum) \/ PutPart(s, part, checksum)
    \/ \E request \in inflight : LateRequest(request)
    \/ \E ss \in SUBSET Sessions : CleanUp(ss) \/ CleanUpFails(ss)

Spec == Init /\ [][Next]_vars

\* A trusted scheduler runs cleanup-expired again and again, the store is not
\* down for ever, no handler keeps a session locked, and a day passes.
Fairness ==
    /\ \A s \in Sessions : WF_vars(ExpireForCleaner(s))
    /\ WF_vars(CleanUp({s \in Sessions : ToCleanUp(s)}))

FairSpec == Spec /\ Fairness

-----------------------------------------------------------------------------
(* Properties.                                                             *)

Parts == UNION {PartsOf[s] : s \in Sessions}

PartTable == UNION {[ps -> Checksums] : ps \in SUBSET Parts}

TypeOK ==
    /\ session \in [Sessions -> {"absent"} \cup Open \cup Terminal]
    /\ asset \in [Sessions -> {"absent", "pending-upload", "uploading", "uploaded", "aborted"}]
    /\ recorded \in [Sessions -> PartTable]
    /\ jobs \subseteq Sessions
    /\ urls \subseteq Sessions \X Parts \X Checksums
    /\ apiExpired \subseteq Sessions /\ cleanerExpired \subseteq Sessions
    /\ upload \in [Sessions -> {"none", "open", "completed", "aborted"}]
    /\ stored \in [Sessions -> PartTable]
    /\ object \in [Sessions -> PartTable]
    /\ inflight \subseteq [type : {"complete", "abort"}, session : Sessions, checksums : PartTable]

\* A completed upload is really in the store, made of exactly the parts whose
\* checksums were declared, whatever was tried, lost or repeated before.
CompletedUploadsAreStored ==
    \A s \in Sessions : session[s] = "completed" =>
        object[s] = recorded[s] /\ AllParts(s, object[s])

\* The job, the asset and the session tell the same story: one processing job
\* for a completed upload, and none for any other.
JobsAreForCompletedUploads ==
    \A s \in Sessions :
        /\ s \in jobs <=> session[s] = "completed"
        /\ asset[s] = CASE session[s] = "absent" -> "absent"
                        [] session[s] = "initiated" -> "pending-upload"
                        [] session[s] = "uploading" -> "uploading"
                        [] session[s] = "completed" -> "uploaded"
                        [] session[s] \in {"aborted", "expired"} -> "aborted"

\* No session ends while its provider upload stays open: a client's URLs are
\* dead, and no parts are left behind.
EndedUploadsAreClosed ==
    \A s \in Sessions : session[s] \in Terminal => upload[s] \in {"completed", "aborted"}

\* A session ends once, however late a request takes effect.
EndOnce ==
    \A s \in Sessions : session[s] \in Terminal =>
        session'[s] = session[s] /\ asset'[s] = asset[s]

EndedOnce == [][EndOnce]_vars

\* An upload is not left open for ever, whatever its client does.
SessionsEnd == \A s \in Sessions : session[s] \in Open ~> session[s] \in Terminal
=============================================================================

---------------------------- MODULE RecordsProofs ----------------------------
(***************************************************************************)
(* Proofs about records, for any constants: the stamps of C8, the upload   *)
(* sessions of C2, the setup of a home (C1 and C3), the editor and the     *)
(* specifications of C12 and C13 here, the captures of C7, the briefs of   *)
(* C11 and the guided capture of the iOS client in modules of their own,   *)
(* and these parts of one system at the end.  A handler that stamps one    *)
(* row relies on the stamp of the other: the invariant of the stamps       *)
(* relates the two.  What is proved of the other parts is proved of the    *)
(* instances Upload, Setup, Editor and Specs.                              *)
(***************************************************************************)
EXTENDS Records, SequenceTheorems, TLAPS

-----------------------------------------------------------------------------
(* The inductive invariant of the stamps of C8.                            *)

StampsIInv == TypeOK /\ JobNeverAheadOfItsAttempt

\* Every stamp of a typed state is a moment after "previous".
LEMMA StampsAreTimes ==
    ASSUME TypeOK, NEW h \in Hosts, NEW previous \in Nat
    PROVE  NextTimestamp(h, previous) \in Nat /\ NextTimestamp(h, previous) > previous
  BY DEF TypeOK, NextTimestamp, Later

\* Both rows written with one stamp agree.
LEMMA WriteKeepsStampsIInv ==
    ASSUME StampsIInv, NEW stamp \in Nat,
           NEW next \in {"queued", "leased", "cancel-requested", "ended"}, Write(stamp, next)
    PROVE  StampsIInv'
  BY DEF StampsIInv, TypeOK, JobNeverAheadOfItsAttempt, Write

\* The initial rows agree.
LEMMA InitStampsIInv == Init => StampsIInv
  BY DEF Init, StampsIInv, TypeOK, JobNeverAheadOfItsAttempt

\* Every step of every host keeps the rows in order.
LEMMA NextStampsIInv == StampsIInv /\ [Next]_vars => StampsIInv'
<1> SUFFICES ASSUME StampsIInv, [Next]_vars PROVE StampsIInv'
  OBVIOUS
<1> TypeOK
  BY DEF StampsIInv
<1>1. CASE UNCHANGED vars
  BY <1>1 DEF vars, StampsIInv, TypeOK, JobNeverAheadOfItsAttempt
<1>2. ASSUME NEW h \in Hosts,
             \/ Tick(h) \/ Create(h) \/ Retry(h) \/ Cancel(h) \/ Withdraw(h)
             \/ Claim(h) \/ Publish(h) \/ AdvanceFailOrAcknowledge(h) \/ Heartbeat(h)
      PROVE  StampsIInv'
  <2>1. TransitionStamp(h) \in Nat
    BY StampsAreTimes DEF TransitionStamp, TypeOK
  <2>2. AttemptStamp(h) \in Nat /\ AttemptStamp(h) > attemptStamp
    BY StampsAreTimes DEF AttemptStamp, TypeOK
  <2>3. ClaimStamp(h) \in Nat
    <3>1. Later(jobStamp, attemptStamp) \in Nat
      BY DEF Later, TypeOK
    <3> QED
      BY <3>1, StampsAreTimes DEF ClaimStamp
  <2>4. WithdrawalStamp(h) \in Nat
    BY DEF WithdrawalStamp, TypeOK
  <2>5. CASE Tick(h)
    BY <2>5 DEF Tick, StampsIInv, TypeOK, JobNeverAheadOfItsAttempt
  <2>6. CASE Create(h)
    BY <2>6 DEF Create, StampsIInv, TypeOK, JobNeverAheadOfItsAttempt
  <2>7. CASE Retry(h)
    BY <2>1, <2>7 DEF Retry, StampsIInv, TypeOK, JobNeverAheadOfItsAttempt
  <2>8. CASE Cancel(h)
    BY <2>1, <2>8, WriteKeepsStampsIInv DEF Cancel
  <2>9. CASE Withdraw(h)
    BY <2>4, <2>9, WriteKeepsStampsIInv DEF Withdraw
  <2>10. CASE Claim(h)
    BY <2>3, <2>10, WriteKeepsStampsIInv DEF Claim
  <2>11. CASE Publish(h)
    BY <2>1, <2>11, WriteKeepsStampsIInv DEF Publish
  <2>12. CASE AdvanceFailOrAcknowledge(h)
    BY <2>2, <2>12, WriteKeepsStampsIInv DEF AdvanceFailOrAcknowledge
  <2>13. CASE Heartbeat(h)
    BY <2>2, <2>13 DEF Heartbeat, StampsIInv, TypeOK, JobNeverAheadOfItsAttempt
  <2> QED
    BY <1>2, <2>5, <2>6, <2>7, <2>8, <2>9, <2>10, <2>11, <2>12, <2>13
<1> QED
  BY <1>1, <1>2 DEF Next

\* Rows in order let those stamps pass.
LEMMA StampsIInvPasses == StampsIInv => StampsPass
<1> SUFFICES ASSUME StampsIInv, NEW h \in Hosts
             PROVE  /\ Passes(ClaimStamp(h)) /\ Passes(AttemptStamp(h))
                    /\ state = "queued" => Passes(TransitionStamp(h))
  BY DEF StampsPass
<1>1. jobStamp \in Nat /\ attemptStamp \in Nat /\ jobStamp <= attemptStamp
  BY DEF StampsIInv, TypeOK, JobNeverAheadOfItsAttempt
<1>2. Passes(ClaimStamp(h)) /\ Passes(AttemptStamp(h))
  BY <1>1 DEF StampsIInv, TypeOK, Passes, ClaimStamp, AttemptStamp, NextTimestamp, Later
<1>3. state = "queued" => Passes(TransitionStamp(h))
  BY <1>1 DEF StampsIInv, TypeOK, JobNeverAheadOfItsAttempt, Passes,
     TransitionStamp, NextTimestamp, Later
<1> QED
  BY <1>2, <1>3

\* The job row is never stamped after its attempt's row.
THEOREM RowsAreInOrder == Spec => []JobNeverAheadOfItsAttempt
<1>1. StampsIInv => JobNeverAheadOfItsAttempt
  BY DEF StampsIInv
<1> QED
  BY <1>1, InitStampsIInv, NextStampsIInv, PTL DEF Spec

\* No claim, advance, renewal, failure or acknowledgement of a worker, and no
\* cancellation of a queued job, is ever refused for its stamp.
THEOREM StampsAlwaysPass == Spec => []StampsPass
  BY InitStampsIInv, NextStampsIInv, StampsIInvPasses, PTL DEF Spec

-----------------------------------------------------------------------------
(* The inductive invariant of the upload sessions of C2.                   *)

\* What is complete at the provider, and what may still be completed there,
\* is what was declared: from then on no declaration can change.
UploadDeclared(s, checksums) == checksums = recorded[s] /\ Upload!AllParts(s, checksums)

UploadObjectsAreDeclared ==
    /\ \A s \in Uploads :
          object[s] # Upload!NoRows => UploadDeclared(s, object[s]) /\ upload[s] = "completed"
    /\ \A pending \in inflight :
          pending.type = "complete" => UploadDeclared(pending.session, pending.checksums)

\* A session has an upload, and parts are declared by signing them.
UploadSessionAgrees(s) ==
    /\ upload[s] = "none" => session[s] = "absent"
    /\ session[s] \in {"absent", "initiated"} => recorded[s] = Upload!NoRows
    /\ session[s] = "completed" => object[s] # Upload!NoRows

UploadSessionsAgree == \A s \in Uploads : UploadSessionAgrees(s)

UploadIInv ==
    /\ Upload!TypeOK
    /\ UploadObjectsAreDeclared
    /\ UploadSessionsAgree
    /\ Upload!JobsAreForCompletedUploads
    /\ Upload!EndedUploadsAreClosed

-----------------------------------------------------------------------------
(* Tables of parts.                                                        *)

\* A table of parts is a function on some of them.
LEMMA UploadTableOfParts ==
    ASSUME NEW table
    PROVE  table \in Upload!PartTable <=> \E ps \in SUBSET Upload!Parts :
             table \in [ps -> Checksums]
  BY DEF Upload!PartTable

\* The empty table is one.
LEMMA UploadNoRowsAreParts == Upload!NoRows \in Upload!PartTable
  <1>1. Upload!NoRows \in [{} -> Checksums]
    BY DEF Upload!NoRows
  <1> QED
    BY <1>1, UploadTableOfParts

\* A part put into a table: one that is there with that checksum changes nothing.
LEMMA UploadPutPartIn ==
    ASSUME NEW table \in Upload!PartTable, NEW number \in Upload!Parts, NEW checksum \in Checksums
    PROVE  /\ Upload!Put(table, number, checksum) \in Upload!PartTable
           /\ number \in DOMAIN table /\ table[number] = checksum
                => Upload!Put(table, number, checksum) = table
           /\ Upload!Put(table, number, checksum) # Upload!NoRows
  <1>1. PICK ps \in SUBSET Upload!Parts : table \in [ps -> Checksums]
    BY UploadTableOfParts
  <1>2. Upload!Put(table, number, checksum) \in [ps \cup {number} -> Checksums]
    BY <1>1 DEF Upload!Put
  <1>3. ps \cup {number} \in SUBSET Upload!Parts
    BY <1>1
  <1>4. Upload!Put(table, number, checksum) \in Upload!PartTable
    BY <1>2, <1>3, UploadTableOfParts
  <1>5. ASSUME number \in DOMAIN table, table[number] = checksum
        PROVE  Upload!Put(table, number, checksum) = table
    BY <1>1, <1>5 DEF Upload!Put
  <1>6. DOMAIN Upload!NoRows = {} /\ DOMAIN Upload!Put(table, number, checksum) = ps \cup {number}
    BY <1>2 DEF Upload!NoRows
  <1> QED
    BY <1>4, <1>5, <1>6

\* A complete table has rows.
LEMMA UploadCompleteTablesHaveRows ==
    ASSUME Upload!UploadConstants, NEW s \in Uploads, NEW checksums, Upload!AllParts(s, checksums)
    PROVE  checksums # Upload!NoRows
  BY DEF Upload!UploadConstants, Upload!AllParts, Upload!NoRows

-----------------------------------------------------------------------------
(* Steps.                                                                  *)

\* The step of a provider at which nothing is completed.
LEMMA UploadAbortKeeps ==
    ASSUME UploadIInv, NEW ss \in SUBSET Uploads, Upload!AbortAtProvider(ss)
    PROVE  /\ upload' \in [Uploads -> {"none", "open", "completed", "aborted"}]
           /\ \A s \in Uploads :
                 /\ upload'[s] = upload[s] \/ (upload[s] = "open" /\ upload'[s] = "aborted")
                 /\ s \in ss => upload'[s] # "open"
           /\ parts' = parts /\ object' = object
  BY DEF UploadIInv, Upload!TypeOK, Upload!AbortAtProvider

\* The step of a provider that completes an upload, as it was declared.
LEMMA UploadCompletionKeeps ==
    ASSUME Upload!UploadConstants, UploadIInv, NEW s \in Uploads, NEW checksums,
             UploadDeclared(s, checksums),
           Upload!ProviderCompletes(s, checksums), Upload!CompleteAtProvider(s)
    PROVE  /\ upload' \in [Uploads -> {"none", "open", "completed", "aborted"}]
           /\ object' \in [Uploads -> Upload!PartTable] /\ parts' = parts
           /\ object'[s] = recorded[s] /\ object'[s] # Upload!NoRows
                /\ Upload!AllParts(s, object'[s])
           /\ upload'[s] = "completed"
           /\ \A t \in Uploads \ {s} : upload'[t] = upload[t] /\ object'[t] = object[t]
  <1>1. object' = [object EXCEPT ![s] = parts[s]] /\ upload' = [upload EXCEPT ![s] = "completed"]
        /\ parts' = parts
    BY DEF Upload!CompleteAtProvider
  <1>2. parts[s] = checksums /\ checksums = recorded[s] /\ Upload!AllParts(s, checksums)
    BY DEF Upload!ProviderCompletes, UploadDeclared
  <1>3. checksums # Upload!NoRows
    BY <1>2, UploadCompleteTablesHaveRows
  <1> QED
    BY <1>1, <1>2, <1>3 DEF UploadIInv, Upload!TypeOK

\* What the provider did, by itself or in a handler whose rows are rolled back.
UploadProviderMoved ==
    /\ upload' \in [Uploads -> {"none", "open", "completed", "aborted"}]
    /\ object' \in [Uploads -> Upload!PartTable] /\ parts' \in [Uploads -> Upload!PartTable]
    /\ \A s \in Uploads :
          /\ upload[s] \in {"completed", "aborted"} => upload'[s] = upload[s]
          /\ upload'[s] = "none" => upload[s] = "none"
          /\ \/ object'[s] = object[s]
             \/ UploadDeclared(s, object'[s]) /\ object'[s] # Upload!NoRows
                  /\ upload'[s] = "completed"

\* A request that may still take effect.
UploadMayTakeEffect(pending) ==
    /\ pending \in [type : {"complete", "abort"}, session : Uploads, checksums : Upload!PartTable]
    /\ pending.type = "complete" => UploadDeclared(pending.session, pending.checksums)

\* A step that moves the provider, and no row, keeps the invariant if what it
\* leaves behind may take effect.
LEMMA UploadProviderAlone ==
    ASSUME UploadIInv, UploadProviderMoved, UNCHANGED <<Upload!rows, urls, Upload!clocks>>,
           \A pending \in inflight' \ inflight : UploadMayTakeEffect(pending)
    PROVE  UploadIInv'
  <1>1. /\ session' = session /\ asset' = asset /\ recorded' = recorded /\ jobs' = jobs
        /\ urls' = urls /\ apiExpired' = apiExpired /\ cleanerExpired' = cleanerExpired
    BY DEF Upload!rows, Upload!clocks
  <1>2. Upload!TypeOK'
    BY <1>1 DEF UploadIInv, Upload!TypeOK, UploadProviderMoved, UploadMayTakeEffect
  <1>3. UploadObjectsAreDeclared'
    BY <1>1 DEF UploadIInv, Upload!TypeOK, UploadObjectsAreDeclared, UploadProviderMoved,
                  UploadDeclared, Upload!AllParts, UploadMayTakeEffect
  <1>4. UploadSessionsAgree'
    BY <1>1 DEF UploadIInv, UploadSessionsAgree, UploadSessionAgrees, UploadProviderMoved
  <1>5. Upload!JobsAreForCompletedUploads'
    BY <1>1 DEF UploadIInv, Upload!JobsAreForCompletedUploads
  <1>6. Upload!EndedUploadsAreClosed'
    BY <1>1 DEF UploadIInv, Upload!EndedUploadsAreClosed, UploadProviderMoved
  <1> QED
    BY <1>2, <1>3, <1>4, <1>5, <1>6 DEF UploadIInv

\* The provider may stay as it is,
LEMMA UploadProviderStays ==
    ASSUME Upload!TypeOK, UNCHANGED Upload!provider
    PROVE  UploadProviderMoved
  BY DEF Upload!TypeOK, Upload!provider, UploadProviderMoved

\* abort,
LEMMA UploadAbortMoves ==
    ASSUME UploadIInv, NEW ss \in SUBSET Uploads, Upload!AbortAtProvider(ss)
    PROVE  UploadProviderMoved
  BY UploadAbortKeeps DEF UploadIInv, Upload!TypeOK, UploadProviderMoved

\* or complete what was declared.
LEMMA UploadCompletionMoves ==
    ASSUME Upload!UploadConstants, UploadIInv, NEW s \in Uploads, NEW checksums,
             UploadDeclared(s, checksums),
           Upload!ProviderCompletes(s, checksums), Upload!CompleteAtProvider(s)
    PROVE  UploadProviderMoved
  BY UploadCompletionKeeps DEF UploadIInv, Upload!TypeOK, UploadProviderMoved, UploadDeclared,
       Upload!ProviderCompletes

\* A client's PUT only adds a part.
LEMMA UploadPutPartKeeps ==
    ASSUME UploadIInv, NEW s \in Uploads, NEW number \in PartsOf[s], NEW checksum \in Checksums,
           Upload!PutPart(s, number, checksum)
    PROVE  UploadIInv'
  <1>1. number \in Upload!Parts /\ parts[s] \in Upload!PartTable
    BY DEF Upload!Parts, UploadIInv, Upload!TypeOK
  <1>2. Upload!Put(parts[s], number, checksum) \in Upload!PartTable
    BY <1>1, UploadPutPartIn
  <1>3. UploadProviderMoved
    BY <1>2 DEF Upload!PutPart, UploadIInv, Upload!TypeOK, UploadProviderMoved
  <1> QED
    BY <1>3, UploadProviderAlone DEF Upload!PutPart

\* A late completion is of what is still declared.
LEMMA UploadLateRequestKeeps ==
    ASSUME Upload!UploadConstants, UploadIInv, NEW pending \in inflight, Upload!LateRequest(pending)
    PROVE  UploadIInv'
  <1>1. pending.session \in Uploads
    BY DEF UploadIInv, Upload!TypeOK
  <1>2. UploadProviderMoved
    <2>1. CASE pending.type = "abort"
      <3>1. Upload!AbortAtProvider({pending.session}) /\ {pending.session} \in SUBSET Uploads
        BY <1>1, <2>1 DEF Upload!LateRequest
      <3> QED
        BY <3>1, UploadAbortMoves
    <2>2. CASE /\ pending.type = "complete"
               /\ Upload!ProviderCompletes(pending.session, pending.checksums)
      <3>1. UploadDeclared(pending.session, pending.checksums)
        BY <2>2 DEF UploadIInv, UploadObjectsAreDeclared
      <3>2. Upload!CompleteAtProvider(pending.session)
        BY <2>2 DEF Upload!LateRequest
      <3> QED
        BY <1>1, <2>2, <3>1, <3>2, UploadCompletionMoves
    <2>3. CASE /\ pending.type = "complete"
               /\ ~Upload!ProviderCompletes(pending.session, pending.checksums)
      <3>1. UNCHANGED Upload!provider
        BY <2>3 DEF Upload!LateRequest
      <3> QED
        BY <3>1, UploadProviderStays DEF UploadIInv
    <2> QED
      BY <2>1, <2>2, <2>3 DEF UploadIInv, Upload!TypeOK
  <1> QED
    BY <1>2, UploadProviderAlone DEF Upload!LateRequest

\* A completion that is rolled back was of what was declared.
LEMMA UploadCompleteFailsKeeps ==
    ASSUME Upload!UploadConstants, UploadIInv, NEW s \in Uploads, Upload!CompleteFails(s)
    PROVE  UploadIInv'
  <1>1. UploadDeclared(s, recorded[s])
    BY DEF Upload!CompleteFails, Upload!CompletionRequested, UploadDeclared
  <1>2. CASE Upload!ProviderCompletes(s, recorded[s]) /\ Upload!CompleteAtProvider(s)
          /\ UNCHANGED inflight
    BY <1>1, <1>2, UploadCompletionMoves, UploadProviderAlone DEF Upload!CompleteFails
  <1>3. CASE inflight' = inflight \cup {Upload!CompletionRequest(s)} /\ UNCHANGED Upload!provider
    <2>1. UploadMayTakeEffect(Upload!CompletionRequest(s))
      BY <1>1 DEF UploadMayTakeEffect, Upload!CompletionRequest, UploadIInv, Upload!TypeOK
    <2>2. UploadProviderMoved
      BY <1>3, UploadProviderStays DEF UploadIInv
    <2> QED
      BY <1>3, <2>1, <2>2, UploadProviderAlone DEF Upload!CompleteFails
  <1> QED
    BY <1>2, <1>3 DEF Upload!CompleteFails

\* An abort that is rolled back may be late, or done.
LEMMA UploadAbortFailsKeeps ==
    ASSUME UploadIInv, NEW s \in Uploads, Upload!AbortFails(s)
    PROVE  UploadIInv'
  <1>1. CASE Upload!AbortAtProvider({s}) /\ UNCHANGED inflight
    BY <1>1, UploadAbortMoves, UploadProviderAlone DEF Upload!AbortFails
  <1>2. CASE inflight' = inflight \cup {Upload!AbortRequest(s)} /\ UNCHANGED Upload!provider
    <2>1. UploadMayTakeEffect(Upload!AbortRequest(s))
      BY UploadNoRowsAreParts DEF UploadMayTakeEffect, Upload!AbortRequest
    <2>2. UploadProviderMoved
      BY <1>2, UploadProviderStays DEF UploadIInv
    <2> QED
      BY <1>2, <2>1, <2>2, UploadProviderAlone DEF Upload!AbortFails
  <1> QED
    BY <1>1, <1>2 DEF Upload!AbortFails

\* So may a cleanup.
LEMMA UploadCleanUpFailsKeeps ==
    ASSUME UploadIInv, NEW ss \in SUBSET Uploads, Upload!CleanUpFails(ss)
    PROVE  UploadIInv'
  BY UploadAbortMoves, UploadProviderAlone DEF Upload!CleanUpFails

\* A creation that is rolled back leaves an upload without a session.
LEMMA UploadCreateFailsKeeps ==
    ASSUME UploadIInv, NEW s \in Uploads, NEW left \in {"open", "aborted"},
             Upload!CreateFails(s, left)
    PROVE  UploadIInv'
  <1>1. UploadProviderMoved
    BY DEF Upload!CreateFails, UploadIInv, Upload!TypeOK, UploadProviderMoved
  <1> QED
    BY <1>1, UploadProviderAlone DEF Upload!CreateFails

-----------------------------------------------------------------------------
(* Handlers that write rows.                                               *)

\* A new session has an open upload, and nothing of it is complete.
LEMMA UploadCreateKeeps ==
    ASSUME UploadIInv, NEW s \in Uploads, Upload!Create(s)
    PROVE  UploadIInv'
  <1>1. session[s] = "absent" /\ recorded[s] = Upload!NoRows /\ object[s] = Upload!NoRows
    BY DEF Upload!Create, UploadIInv, UploadSessionsAgree, UploadSessionAgrees,
             UploadObjectsAreDeclared
  <1>2. Upload!TypeOK'
    BY DEF Upload!Create, UploadIInv, Upload!TypeOK, Upload!clocks, Upload!Open
  <1>3. UploadObjectsAreDeclared'
    BY <1>1 DEF Upload!Create, UploadIInv, Upload!TypeOK, UploadObjectsAreDeclared, UploadDeclared,
                  Upload!AllParts
  <1>4. UploadSessionsAgree'
    BY <1>1 DEF Upload!Create, UploadIInv, Upload!TypeOK, UploadSessionsAgree, UploadSessionAgrees
  <1>5. Upload!JobsAreForCompletedUploads'
    BY <1>1 DEF Upload!Create, UploadIInv, Upload!TypeOK, Upload!JobsAreForCompletedUploads
  <1>6. Upload!EndedUploadsAreClosed'
    BY DEF Upload!Create, UploadIInv, Upload!TypeOK, Upload!EndedUploadsAreClosed, Upload!Terminal
  <1> QED
    BY <1>2, <1>3, <1>4, <1>5, <1>6 DEF UploadIInv

\* No part of a completed upload, or of one that may yet be, is declared anew.
LEMMA UploadSignPartKeeps ==
    ASSUME UploadIInv, NEW s \in Uploads, NEW number \in PartsOf[s], NEW checksum \in Checksums,
           Upload!SignPart(s, number, checksum)
    PROVE  UploadIInv'
  <1>1. /\ number \in Upload!Parts /\ recorded[s] \in Upload!PartTable /\ session[s] \in Upload!Open
        /\ number \in DOMAIN recorded[s] => recorded[s][number] = checksum
    BY DEF Upload!Parts, UploadIInv, Upload!TypeOK, Upload!SignPart, Upload!RequireOpen,
             Upload!DeclarationAgrees
  <1> DEFINE table == Upload!Put(recorded[s], number, checksum)
  <1>2. /\ table \in Upload!PartTable /\ table # Upload!NoRows
        /\ number \in DOMAIN recorded[s] => table = recorded[s]
    BY <1>1, UploadPutPartIn
  <1>3. recorded' = [recorded EXCEPT ![s] = table]
    BY DEF Upload!SignPart
  <1> HIDE DEF table
  <1>4. Upload!AllParts(s, recorded[s]) => recorded' = recorded
    BY <1>2, <1>3 DEF Upload!AllParts, UploadIInv, Upload!TypeOK
  <1>5. /\ upload' = upload /\ parts' = parts /\ object' = object /\ inflight' = inflight
        /\ jobs' = jobs /\ apiExpired' = apiExpired /\ cleanerExpired' = cleanerExpired
        /\ session' = [session EXCEPT ![s] = "uploading"]
        /\ asset' = [asset EXCEPT ![s] = IF @ = "pending-upload" THEN "uploading" ELSE @]
        /\ urls' = urls \cup {<<s, number, checksum>>}
    BY DEF Upload!SignPart, Upload!provider, Upload!clocks
  <1>6. Upload!TypeOK'
    BY <1>1, <1>2, <1>3, <1>5 DEF UploadIInv, Upload!TypeOK, Upload!Open
  <1>7. UploadObjectsAreDeclared'
    BY <1>3, <1>4, <1>5 DEF UploadIInv, Upload!TypeOK, UploadObjectsAreDeclared, UploadDeclared,
         Upload!AllParts
  <1>8. UploadSessionsAgree'
    BY <1>1, <1>3, <1>5 DEF UploadIInv, Upload!TypeOK, UploadSessionsAgree, UploadSessionAgrees,
         Upload!Open
  <1>9. Upload!JobsAreForCompletedUploads'
    BY <1>1, <1>5 DEF UploadIInv, Upload!TypeOK, Upload!JobsAreForCompletedUploads, Upload!Open
  <1>10. Upload!EndedUploadsAreClosed'
    BY <1>1, <1>5 DEF UploadIInv, Upload!TypeOK, Upload!EndedUploadsAreClosed, Upload!Open,
         Upload!Terminal
  <1> QED
    BY <1>6, <1>7, <1>8, <1>9, <1>10 DEF UploadIInv

\* A completed session has its object, from this try or an earlier one.
LEMMA UploadCompleteKeeps ==
    ASSUME Upload!UploadConstants, UploadIInv, NEW s \in Uploads, Upload!Complete(s)
    PROVE  UploadIInv'
  <1>1. /\ session[s] \in Upload!Open /\ UploadDeclared(s, recorded[s])
             /\ recorded[s] # Upload!NoRows
    BY UploadCompleteTablesHaveRows
       DEF Upload!Complete, Upload!CompletionRequested, Upload!RequireOpen, UploadDeclared
  <1>2. session[s] = "uploading" /\ asset[s] = "uploading"
    BY <1>1 DEF UploadIInv, UploadSessionsAgree, UploadSessionAgrees,
                  Upload!JobsAreForCompletedUploads, Upload!Open
  <1>3. UploadProviderMoved /\ object'[s] # Upload!NoRows /\ upload'[s] = "completed"
    <2>1. CASE Upload!ProviderCompletes(s, recorded[s]) /\ Upload!CompleteAtProvider(s)
      BY <1>1, <2>1, UploadCompletionKeeps, UploadCompletionMoves
    <2>2. CASE Upload!Recovers(s) /\ UNCHANGED Upload!provider
      BY <2>2, UploadProviderStays DEF UploadIInv, UploadObjectsAreDeclared, Upload!Recovers,
           Upload!provider
    <2> QED
      BY <2>1, <2>2 DEF Upload!Complete
  <1>4. /\ session' = [session EXCEPT ![s] = "completed"]
        /\ asset' = [asset EXCEPT ![s] = "uploaded"]
        /\ jobs' = jobs \cup {s} /\ recorded' = recorded /\ urls' = urls
        /\ apiExpired' = apiExpired /\ cleanerExpired' = cleanerExpired /\ inflight' = inflight
    BY <1>2 DEF Upload!Complete, Upload!clocks
  <1>5. Upload!TypeOK'
    BY <1>3, <1>4 DEF UploadIInv, Upload!TypeOK, UploadProviderMoved, Upload!Terminal
  <1>6. UploadObjectsAreDeclared'
    BY <1>3, <1>4 DEF UploadIInv, Upload!TypeOK, UploadObjectsAreDeclared, UploadDeclared,
         Upload!AllParts, UploadProviderMoved
  <1>7. UploadSessionsAgree'
    BY <1>3, <1>4 DEF UploadIInv, Upload!TypeOK, UploadSessionsAgree, UploadSessionAgrees,
         UploadProviderMoved
  <1>8. Upload!JobsAreForCompletedUploads'
    BY <1>4 DEF UploadIInv, Upload!TypeOK, Upload!JobsAreForCompletedUploads
  <1>9. Upload!EndedUploadsAreClosed'
    BY <1>3, <1>4 DEF UploadIInv, Upload!TypeOK, Upload!EndedUploadsAreClosed, UploadProviderMoved,
         Upload!Terminal
  <1> QED
    BY <1>5, <1>6, <1>7, <1>8, <1>9 DEF UploadIInv

\* Sessions that end unfinished, and are aborted at the provider.
LEMMA UploadEndingKeeps ==
    ASSUME UploadIInv, NEW ss \in SUBSET Uploads, \A s \in ss : session[s] \in Upload!Open,
           NEW ending \in [ss -> {"aborted", "expired"}],
           Upload!AbortAtProvider(ss), Upload!Ended(ss, ending), UNCHANGED <<urls, Upload!clocks,
             inflight>>
    PROVE  UploadIInv'
  <1>1. /\ session' = [s \in Uploads |-> IF s \in ss THEN ending[s] ELSE session[s]]
        /\ asset' = [s \in Uploads |-> IF s \in ss THEN Upload!AssetAborted(s) ELSE asset[s]]
        /\ recorded' = recorded /\ jobs' = jobs /\ urls' = urls
        /\ apiExpired' = apiExpired /\ cleanerExpired' = cleanerExpired /\ inflight' = inflight
    BY DEF Upload!Ended, Upload!clocks
  <1>2. /\ \A s \in ss : session'[s] \in {"aborted", "expired"} /\ asset'[s] = "aborted"
        /\ \A s \in Uploads \ ss : session'[s] = session[s] /\ asset'[s] = asset[s]
    BY <1>1 DEF UploadIInv, Upload!JobsAreForCompletedUploads, Upload!AssetAborted, Upload!Open
  <1>3. /\ session' \in [Uploads -> {"absent"} \cup Upload!Open \cup Upload!Terminal]
        /\ asset' \in [Uploads -> {"absent", "pending-upload", "uploading", "uploaded", "aborted"}]
    BY <1>1, <1>2 DEF UploadIInv, Upload!TypeOK, Upload!Terminal
  <1>4. UploadProviderMoved /\ \A s \in ss : upload[s] # "none"
          /\ upload'[s] \in {"completed", "aborted"}
    BY UploadAbortMoves, UploadAbortKeeps
         DEF UploadIInv, Upload!TypeOK, UploadSessionsAgree, UploadSessionAgrees, Upload!Open
  <1>5. Upload!TypeOK'
    BY <1>1, <1>3, <1>4 DEF UploadIInv, Upload!TypeOK, UploadProviderMoved
  <1>6. UploadObjectsAreDeclared'
    BY <1>1, <1>4 DEF UploadIInv, Upload!TypeOK, UploadObjectsAreDeclared, UploadDeclared,
         Upload!AllParts, UploadProviderMoved
  <1>7. UploadSessionsAgree'
    BY <1>1, <1>2, <1>4 DEF UploadIInv, UploadSessionsAgree, UploadSessionAgrees,
         UploadProviderMoved, Upload!Open
  <1>8. Upload!JobsAreForCompletedUploads'
    <2>1. Upload!JobsAreForCompletedUploads /\ jobs' = jobs
      BY <1>1 DEF UploadIInv
    <2>2. \A s \in ss : session[s] # "completed"
      BY DEF Upload!Open
    <2> QED
      BY <1>2, <2>1, <2>2 DEF Upload!JobsAreForCompletedUploads
  <1>9. Upload!EndedUploadsAreClosed'
    BY <1>2, <1>4 DEF UploadIInv, Upload!TypeOK, Upload!EndedUploadsAreClosed, UploadProviderMoved
  <1> QED
    BY <1>5, <1>6, <1>7, <1>8, <1>9 DEF UploadIInv

\* An abort ends one session,
LEMMA UploadAbortHandlerKeeps ==
    ASSUME UploadIInv, NEW s \in Uploads, Upload!Abort(s)
    PROVE  UploadIInv'
  <1>1. [t \in {s} |-> IF s \in apiExpired THEN "expired" ELSE "aborted"]
            \in [{s} -> {"aborted", "expired"}]
    OBVIOUS
  <1> QED
    BY <1>1, UploadEndingKeeps DEF Upload!Abort

\* a cleanup several.
LEMMA UploadCleanUpKeeps ==
    ASSUME UploadIInv, NEW ss \in SUBSET Uploads, Upload!CleanUp(ss)
    PROVE  UploadIInv'
  <1>1. [s \in ss |-> "expired"] \in [ss -> {"aborted", "expired"}]
    OBVIOUS
  <1> QED
    BY <1>1, UploadEndingKeeps DEF Upload!CleanUp, Upload!ToCleanUp

\* Clocks only move.
LEMMA UploadClocksKeep ==
    ASSUME UploadIInv, NEW s \in Uploads, Upload!ExpireForApi(s) \/ Upload!ExpireForCleaner(s)
    PROVE  UploadIInv'
  <1>1. /\ session' = session /\ asset' = asset /\ recorded' = recorded /\ jobs' = jobs
        /\ urls' = urls /\ upload' = upload /\ parts' = parts /\ object' = object
        /\ inflight' = inflight
        /\ apiExpired' \subseteq Uploads /\ cleanerExpired' \subseteq Uploads
    BY DEF Upload!ExpireForApi, Upload!ExpireForCleaner, Upload!rows, Upload!provider, UploadIInv,
             Upload!TypeOK
  <1>2. Upload!TypeOK'
    BY <1>1 DEF UploadIInv, Upload!TypeOK
  <1>3. UploadObjectsAreDeclared' /\ UploadSessionsAgree'
    BY <1>1 DEF UploadIInv, UploadObjectsAreDeclared, UploadDeclared, Upload!AllParts,
                  UploadSessionsAgree, UploadSessionAgrees
  <1>4. Upload!JobsAreForCompletedUploads' /\ Upload!EndedUploadsAreClosed'
    BY <1>1 DEF UploadIInv, Upload!JobsAreForCompletedUploads, Upload!EndedUploadsAreClosed
  <1> QED
    BY <1>2, <1>3, <1>4 DEF UploadIInv

\* Every step keeps the invariant.
LEMMA UploadNextKeeps ==
    ASSUME Upload!UploadConstants, UploadIInv, [Upload!Next]_(Upload!vars)
    PROVE  UploadIInv'
  <1>1. CASE \E s \in Uploads :
                \/ Upload!Create(s) \/ Upload!Complete(s) \/ Upload!CompleteFails(s)
                     \/ Upload!Abort(s) \/ Upload!AbortFails(s)
                \/ Upload!ExpireForApi(s) \/ Upload!ExpireForCleaner(s)
    BY <1>1, UploadCreateKeeps, UploadCompleteKeeps, UploadCompleteFailsKeeps,
         UploadAbortHandlerKeeps, UploadAbortFailsKeeps,
       UploadClocksKeep
  <1>2. CASE \E s \in Uploads, left \in {"open", "aborted"} : Upload!CreateFails(s, left)
    BY <1>2, UploadCreateFailsKeeps
  <1>3. CASE \E s \in Uploads : \E number \in PartsOf[s], checksum \in Checksums :
                Upload!SignPart(s, number, checksum) \/ Upload!PutPart(s, number, checksum)
    BY <1>3, UploadSignPartKeeps, UploadPutPartKeeps
  <1>4. CASE \E pending \in inflight : Upload!LateRequest(pending)
    BY <1>4, UploadLateRequestKeeps
  <1>5. CASE \E ss \in SUBSET Uploads : Upload!CleanUp(ss) \/ Upload!CleanUpFails(ss)
    BY <1>5, UploadCleanUpKeeps, UploadCleanUpFailsKeeps
  <1>6. CASE UNCHANGED Upload!vars
    <2>1. UNCHANGED <<Upload!rows, urls, Upload!clocks>> /\ UNCHANGED Upload!provider
            /\ inflight' = inflight
      BY <1>6 DEF Upload!vars
    <2>2. UploadProviderMoved
      BY <2>1, UploadProviderStays DEF UploadIInv
    <2> QED
      BY <2>1, <2>2, UploadProviderAlone
  <1> QED
    BY <1>1, <1>2, <1>3, <1>4, <1>5, <1>6 DEF Upload!Next

-----------------------------------------------------------------------------
(* What the runs check of the upload sessions.                             *)

\* The inductive invariant: it assumes that every upload has a part.
THEOREM UploadsAreSound ==
    ASSUME Upload!UploadConstants
    PROVE  Upload!Spec => []UploadIInv
  <1>1. Upload!Init => UploadIInv
    <2> SUFFICES ASSUME Upload!Init PROVE UploadIInv
      OBVIOUS
    <2>1. Upload!TypeOK
      BY UploadNoRowsAreParts DEF Upload!Init, Upload!TypeOK
    <2> QED
      BY <2>1 DEF Upload!Init, UploadIInv, UploadObjectsAreDeclared, UploadSessionsAgree,
                    UploadSessionAgrees,
         Upload!JobsAreForCompletedUploads, Upload!EndedUploadsAreClosed, Upload!Terminal
  <1>2. UploadIInv /\ [Upload!Next]_(Upload!vars) => UploadIInv'
    BY UploadNextKeeps
  <1> QED
    BY <1>1, <1>2, PTL DEF Upload!Spec

\* A completed upload is in the store, of the parts that were declared.
THEOREM UploadCompletedStayStored ==
    ASSUME Upload!UploadConstants
    PROVE  Upload!Spec => []Upload!CompletedUploadsAreStored
  <1>1. UploadIInv => Upload!CompletedUploadsAreStored
    BY DEF UploadIInv, Upload!CompletedUploadsAreStored, UploadSessionsAgree, UploadSessionAgrees,
             UploadObjectsAreDeclared, UploadDeclared
  <1> QED
    BY <1>1, UploadsAreSound, PTL

\* One processing job for a completed upload, and none for any other.
THEOREM UploadJobsStayForCompleted ==
    ASSUME Upload!UploadConstants
    PROVE  Upload!Spec => []Upload!JobsAreForCompletedUploads
  <1>1. UploadIInv => Upload!JobsAreForCompletedUploads
    BY DEF UploadIInv
  <1> QED
    BY <1>1, UploadsAreSound, PTL

\* No session ends while its upload stays open.
THEOREM UploadEndedStayClosed ==
    ASSUME Upload!UploadConstants
    PROVE  Upload!Spec => []Upload!EndedUploadsAreClosed
  <1>1. UploadIInv => Upload!EndedUploadsAreClosed
    BY DEF UploadIInv
  <1> QED
    BY <1>1, UploadsAreSound, PTL

\* A session ends once, however late a request takes effect.
THEOREM UploadSessionsEndOnce ==
    ASSUME Upload!UploadConstants
    PROVE  Upload!Spec => Upload!EndedOnce
  <1>1. UploadIInv /\ [Upload!Next]_(Upload!vars) => [Upload!EndOnce]_(Upload!vars)
    <2> SUFFICES ASSUME UploadIInv, Upload!Next PROVE Upload!EndOnce
      OBVIOUS
    <2> SUFFICES ASSUME NEW t \in Uploads, session[t] \in Upload!Terminal
                 PROVE  session'[t] = session[t] /\ asset'[t] = asset[t]
      BY DEF Upload!EndOnce
    <2>1. session[t] \notin Upload!Open /\ upload[t] # "none"
      BY DEF UploadIInv, UploadSessionsAgree, UploadSessionAgrees, Upload!Open, Upload!Terminal
    <2>2. session \in [Uploads -> {"absent"} \cup Upload!Open \cup Upload!Terminal]
            /\ DOMAIN asset = Uploads
      BY DEF UploadIInv, Upload!TypeOK
    <2>3. CASE \E s \in Uploads :
                  \/ Upload!Create(s) \/ Upload!Complete(s) \/ Upload!CompleteFails(s)
                       \/ Upload!Abort(s) \/ Upload!AbortFails(s)
                  \/ Upload!ExpireForApi(s) \/ Upload!ExpireForCleaner(s)
      BY <2>1, <2>2, <2>3 DEF Upload!Create, Upload!Complete, Upload!CompleteFails,
           Upload!CompletionRequested, Upload!RequireOpen,
         Upload!Abort, Upload!AbortFails, Upload!Ended, Upload!ExpireForApi,
           Upload!ExpireForCleaner, Upload!rows
    <2>4. CASE \E s \in Uploads, left \in {"open", "aborted"} : Upload!CreateFails(s, left)
      BY <2>4 DEF Upload!CreateFails, Upload!rows
    <2>5. CASE \E s \in Uploads : \E number \in PartsOf[s], checksum \in Checksums :
                  Upload!SignPart(s, number, checksum) \/ Upload!PutPart(s, number, checksum)
      BY <2>1, <2>2, <2>5 DEF Upload!SignPart, Upload!RequireOpen, Upload!PutPart, Upload!rows
    <2>6. CASE \E pending \in inflight : Upload!LateRequest(pending)
      BY <2>6 DEF Upload!LateRequest, Upload!rows
    <2>7. CASE \E ss \in SUBSET Uploads : Upload!CleanUp(ss) \/ Upload!CleanUpFails(ss)
      BY <2>1, <2>7 DEF Upload!CleanUp, Upload!CleanUpFails, Upload!ToCleanUp, Upload!Ended,
           Upload!rows
    <2> QED
      BY <2>3, <2>4, <2>5, <2>6, <2>7 DEF Upload!Next
  <1> QED
    BY <1>1, UploadsAreSound, PTL DEF Upload!Spec, Upload!EndedOnce

-----------------------------------------------------------------------------
(* The inductive invariant of the setup of a home (C1 and C3).             *)

SetupTypeOK ==
    /\ requests \in [Keys -> Setup!Requests \cup {None}]
    /\ intake \in Seq(Keys)
    /\ resolutions \in Seq([key : Keys, expired : BOOLEAN])
    /\ properties \in Seq([of : Nat \cup {None}, key : Keys,
         dossiers : Seq([intake : Nat, key : Keys])])
    /\ home \in [of : Nat \cup {None}, key : Keys \cup {None}]

\* What was made with a key is one thing, and what was asked with it.
SetupAsAsked(k, thing) ==
    /\ Setup!Has(k, thing[1])
    /\ thing[1] \in {"intake", "select"} => thing[2] = requests[k].expected + 1
    /\ thing[1] = "refresh" => thing[3] = requests[k].expected + 1

SetupKeysMakeOneThing ==
    \A k \in Keys : \A thing, other \in Setup!Made(k) : thing = other /\ SetupAsAsked(k, thing)

SetupAddressesBecomeOne ==
    \A p, q \in DOMAIN properties :
        properties[p].of = properties[q].of => p = q \/ properties[p].of = None

SetupIInv == SetupTypeOK /\ SetupKeysMakeOneThing /\ SetupAddressesBecomeOne

\* Of what no step but those of its table changes.
LEMMA SetupTablesKeepThings ==
    ASSUME NEW k
    PROVE  /\ intake' = intake => Setup!MadeIntake(k)' = Setup!MadeIntake(k)
           /\ resolutions' = resolutions => Setup!MadeResolution(k)' = Setup!MadeResolution(k)
           /\ properties' = properties =>
                 Setup!MadeProperty(k)' = Setup!MadeProperty(k)
                   /\ Setup!MadeDossier(k)' = Setup!MadeDossier(k)
           /\ home' = home => Setup!MadeHome(k)' = Setup!MadeHome(k)
  BY DEF Setup!MadeIntake, Setup!MadeResolution, Setup!MadeProperty, Setup!MadeDossier,
           Setup!MadeHome

\* A transaction makes one thing more with its key, and none with another.
SetupMakesOne(k, thing) ==
    \A j \in Keys : Setup!Made(j)' \subseteq Setup!Made(j) \cup (IF j = k THEN {thing} ELSE {})

\* If what is made is as asked, keys still make one thing each.
LEMMA SetupOneThingMore ==
    ASSUME SetupIInv, NEW k \in Keys, NEW thing, Setup!Claim(k), SetupMakesOne(k, thing),
             SetupAsAsked(k, thing),
           requests' = requests
    PROVE  SetupKeysMakeOneThing'
  <1> SUFFICES ASSUME NEW j \in Keys, NEW one \in Setup!Made(j)', NEW other \in Setup!Made(j)'
               PROVE  one = other /\ SetupAsAsked(j, one)'
    BY DEF SetupKeysMakeOneThing
  <1>1. SetupAsAsked(j, one) => SetupAsAsked(j, one)'
    BY DEF SetupAsAsked, Setup!Has
  <1>2. CASE j = k
    BY <1>1, <1>2 DEF SetupMakesOne, Setup!Claim
  <1>3. CASE j # k
    BY <1>1, <1>3 DEF SetupMakesOne, SetupIInv, SetupKeysMakeOneThing
  <1> QED
    BY <1>2, <1>3

-----------------------------------------------------------------------------
(* Steps of the setup.                                                     *)

\* What is asked is asked with a key that has made nothing.
LEMMA SetupAskKeeps ==
    ASSUME Setup!SetupConstants, SetupIInv, NEW k \in Keys, NEW what \in Setup!Requests,
           requests' = [requests EXCEPT ![k] = what],
           Setup!Made(k) = {} \/ \A thing \in Setup!Made(k) : thing[1] = "initialize"
             /\ what.kind = "initialize",
           UNCHANGED <<intake, resolutions, properties, home>>
    PROVE  SetupIInv'
  <1>1. \A j \in Keys : Setup!Made(j)' = Setup!Made(j)
    BY SetupTablesKeepThings DEF Setup!Made
  <1>2. SetupTypeOK'
    BY DEF SetupIInv, SetupTypeOK
  <1>3. what # None
    BY DEF Setup!SetupConstants
  <1>4. SetupKeysMakeOneThing'
    <2> SUFFICES ASSUME NEW j \in Keys, NEW one \in Setup!Made(j)', NEW other \in Setup!Made(j)'
                 PROVE  one = other /\ SetupAsAsked(j, one)'
      BY DEF SetupKeysMakeOneThing
    <2>1. one \in Setup!Made(j) /\ other \in Setup!Made(j) /\ one = other /\ SetupAsAsked(j, one)
      BY <1>1 DEF SetupIInv, SetupKeysMakeOneThing
    <2>2. CASE j = k
      BY <1>3, <2>1, <2>2 DEF SetupAsAsked, Setup!Has, SetupIInv, SetupTypeOK
    <2>3. CASE j # k
      BY <2>1, <2>3 DEF SetupAsAsked, Setup!Has, SetupIInv, SetupTypeOK
    <2> QED
      BY <2>1, <2>2, <2>3
  <1>5. SetupAddressesBecomeOne'
    BY DEF SetupIInv, SetupAddressesBecomeOne
  <1> QED
    BY <1>2, <1>4, <1>5 DEF SetupIInv

\* A client asks with a key it has not used.
LEMMA SetupAskingKeeps ==
    ASSUME Setup!SetupConstants, SetupIInv, NEW k \in Keys,
           \/ Setup!AskForIntake(k) \/ Setup!AskToResolve(k) \/ Setup!AskToSelect(k)
                \/ Setup!AskToRefresh(k)
    PROVE  SetupIInv'
  <1>1. PICK what \in Setup!Requests :
            requests' = [requests EXCEPT ![k] = what] /\ requests[k] = None
    <2>1. Len(intake) \in Nat /\ Len(properties) \in Nat /\ Len(Setup!Dossiers) \in Nat
          /\ DOMAIN resolutions \subseteq Nat
      BY DEF SetupIInv, SetupTypeOK, Setup!Dossiers, Setup!Last
    <2>2. CASE Setup!AskForIntake(k)
      BY <2>1, <2>2 DEF Setup!AskForIntake, Setup!Ask, Setup!Requests
    <2>3. CASE Setup!AskToResolve(k)
      BY <2>1, <2>3 DEF Setup!AskToResolve, Setup!Ask, Setup!Requests
    <2>4. CASE Setup!AskToSelect(k)
      BY <2>1, <2>4 DEF Setup!AskToSelect, Setup!Ask, Setup!Requests
    <2>5. CASE Setup!AskToRefresh(k)
      BY <2>1, <2>5 DEF Setup!AskToRefresh, Setup!Ask, Setup!Requests
    <2> QED
      BY <2>2, <2>3, <2>4, <2>5
  <1>2. Setup!Made(k) = {}
    BY <1>1 DEF SetupIInv, SetupKeysMakeOneThing, SetupAsAsked, Setup!Has
  <1>3. UNCHANGED <<intake, resolutions, properties, home>>
    BY DEF Setup!AskForIntake, Setup!AskToResolve, Setup!AskToSelect, Setup!AskToRefresh, Setup!Ask
  <1> QED
    BY <1>1, <1>2, <1>3, SetupAskKeeps

\* An initialization that asks again has made nothing but the home.
LEMMA SetupReadDossierKeeps ==
    ASSUME Setup!SetupConstants, SetupIInv, NEW k \in Keys, Setup!ReadDossier(k)
    PROVE  SetupIInv'
  <1> DEFINE what == [kind |-> "initialize", expected |-> 0, of |-> Len(properties)]
  <1>1. what \in Setup!Requests
    BY DEF Setup!Requests, SetupIInv, SetupTypeOK
  <1>2. \A thing \in Setup!Made(k) : thing[1] = "initialize"
    BY DEF Setup!ReadDossier, SetupIInv, SetupKeysMakeOneThing, SetupAsAsked, Setup!Has
  <1>3. requests' = [requests EXCEPT ![k] = what] /\ what.kind = "initialize"
        /\ UNCHANGED <<intake, resolutions, properties, home>>
    BY DEF Setup!ReadDossier
  <1> HIDE DEF what
  <1> QED
    BY <1>1, <1>2, <1>3, SetupAskKeeps

\* A version of the intake.
LEMMA SetupUpsertIntakeKeeps ==
    ASSUME SetupIInv, NEW k \in Keys, Setup!UpsertIntake(k)
    PROVE  SetupIInv'
  <1> DEFINE thing == <<"intake", Len(intake) + 1>>
  <1>1. intake' = Append(intake, k) /\ Setup!Claim(k) /\ intake \in Seq(Keys)
        /\ requests' = requests /\ resolutions' = resolutions /\ properties' = properties
        /\ home' = home
    BY DEF Setup!UpsertIntake, SetupIInv, SetupTypeOK
  <1>2. ASSUME NEW j \in Keys
        PROVE  Setup!MadeIntake(j)' \subseteq Setup!MadeIntake(j) \cup (IF j = k THEN {thing}
                 ELSE {})
    BY <1>1 DEF Setup!MadeIntake
  <1>3. SetupMakesOne(k, thing)
    BY <1>1, <1>2, SetupTablesKeepThings DEF SetupMakesOne, Setup!Made
  <1>4. SetupAsAsked(k, thing)
    BY DEF Setup!UpsertIntake, SetupAsAsked
  <1>5. SetupKeysMakeOneThing'
    BY <1>1, <1>3, <1>4, SetupOneThingMore
  <1>6. SetupTypeOK' /\ SetupAddressesBecomeOne'
    BY <1>1 DEF SetupIInv, SetupTypeOK, SetupAddressesBecomeOne
  <1> QED
    BY <1>5, <1>6 DEF SetupIInv

\* A resolution of an address.
LEMMA SetupResolveKeeps ==
    ASSUME SetupIInv, NEW k \in Keys, Setup!Resolve(k)
    PROVE  SetupIInv'
  <1> DEFINE thing == <<"resolve", Len(resolutions) + 1>>
             row == [key |-> k, expired |-> FALSE]
  <1>1. resolutions' = Append(resolutions, row) /\ Setup!Claim(k)
        /\ resolutions \in Seq([key : Keys, expired : BOOLEAN])
        /\ requests' = requests /\ intake' = intake /\ properties' = properties
        /\ home' = home
    BY DEF Setup!Resolve, SetupIInv, SetupTypeOK
  <1>2. ASSUME NEW j \in Keys
        PROVE  Setup!MadeResolution(j)' \subseteq Setup!MadeResolution(j) \cup (IF j = k
                 THEN {thing} ELSE {})
    BY <1>1 DEF Setup!MadeResolution
  <1>3. SetupMakesOne(k, thing)
    BY <1>1, <1>2, SetupTablesKeepThings DEF SetupMakesOne, Setup!Made
  <1>4. SetupAsAsked(k, thing)
    BY DEF Setup!Resolve, SetupAsAsked
  <1>5. SetupKeysMakeOneThing'
    BY <1>1, <1>3, <1>4, SetupOneThingMore
  <1>6. SetupTypeOK' /\ SetupAddressesBecomeOne'
    BY <1>1 DEF SetupIInv, SetupTypeOK, SetupAddressesBecomeOne
  <1> QED
    BY <1>5, <1>6 DEF SetupIInv

\* A resolution that expires remains what was made.
LEMMA SetupExpireKeeps ==
    ASSUME SetupIInv, NEW r \in DOMAIN resolutions, Setup!Expire(r)
    PROVE  SetupIInv'
  <1> DEFINE row == [resolutions[r] EXCEPT !.expired = TRUE]
             rows == [key : Keys, expired : BOOLEAN]
  <1>1. /\ resolutions' = [resolutions EXCEPT ![r] = row] /\ resolutions \in Seq(rows)
        /\ requests' = requests /\ intake' = intake /\ properties' = properties /\ home' = home
    BY DEF Setup!Expire, SetupIInv, SetupTypeOK
  <1>0. resolutions[r] \in rows
    <2> HIDE DEF rows
    <2> QED
      BY <1>1
  <1>01. row \in rows /\ row.key = resolutions[r].key
    BY <1>0
  <1> HIDE DEF row, rows
  <1>2. /\ resolutions' \in Seq(rows)
        /\ DOMAIN resolutions' = DOMAIN resolutions
        /\ \A s \in DOMAIN resolutions : resolutions'[s].key = resolutions[s].key
    BY <1>1, <1>01
  <1>3. \A j \in Keys : Setup!MadeResolution(j)' = Setup!MadeResolution(j)
    BY <1>2 DEF Setup!MadeResolution
  <1>4. \A j \in Keys : Setup!Made(j)' = Setup!Made(j)
    BY <1>1, <1>3, SetupTablesKeepThings DEF Setup!Made
  <1>5. SetupKeysMakeOneThing'
    BY <1>1, <1>4 DEF SetupIInv, SetupKeysMakeOneThing, SetupAsAsked, Setup!Has
  <1>6. SetupTypeOK' /\ SetupAddressesBecomeOne'
    BY <1>1, <1>2 DEF SetupIInv, SetupTypeOK, SetupAddressesBecomeOne, rows
  <1> QED
    BY <1>5, <1>6 DEF SetupIInv

\* A property, of a resolution that no property consumed.
LEMMA SetupSelectKeeps ==
    ASSUME SetupIInv, NEW k \in Keys, Setup!Select(k)
    PROVE  SetupIInv'
  <1> DEFINE thing == <<"select", Len(properties) + 1>>
             row == [of |-> requests[k].of, key |-> k, dossiers |-> <<Setup!Dossier(k)>>]
             rows == [of : Nat \cup {None}, key : Keys, dossiers : Seq([intake : Nat, key : Keys])]
  <1>1. properties' = Append(properties, row) /\ Setup!Claim(k) /\ properties \in Seq(rows)
        /\ requests' = requests /\ intake' = intake /\ resolutions' = resolutions /\ home' = home
    BY DEF Setup!Select, SetupIInv, SetupTypeOK
  <1>2. requests[k].of \in Nat \cup {None} /\ Setup!Dossier(k) \in [intake : Nat, key : Keys]
    BY DEF Setup!Select, Setup!Has, SetupIInv, SetupTypeOK, Setup!Requests, Setup!Dossier
  <1>3. row \in rows
    BY <1>2
  <1>4. row.key = k /\ row.of = requests[k].of /\ DOMAIN row.dossiers = {1}
    OBVIOUS
  <1> HIDE DEF row, rows
  <1>5. /\ properties' \in Seq(rows)
             /\ DOMAIN properties' = DOMAIN properties \cup {Len(properties) + 1}
        /\ \A p \in DOMAIN properties : properties'[p] = properties[p]
        /\ properties'[Len(properties) + 1] = row
        /\ Len(properties) + 1 \notin DOMAIN properties
    BY <1>1, <1>3
  <1>6. ASSUME NEW j \in Keys
        PROVE  Setup!MadeProperty(j)' \subseteq Setup!MadeProperty(j) \cup (IF j = k THEN {thing}
                 ELSE {})
    BY <1>4, <1>5 DEF Setup!MadeProperty
  <1>7. ASSUME NEW j \in Keys
        PROVE  Setup!MadeDossier(j)' \subseteq Setup!MadeDossier(j)
    BY <1>4, <1>5 DEF Setup!MadeDossier
  <1>8. SetupMakesOne(k, thing)
    BY <1>1, <1>6, <1>7, SetupTablesKeepThings DEF SetupMakesOne, Setup!Made
  <1>9. SetupAsAsked(k, thing)
    BY DEF Setup!Select, SetupAsAsked
  <1>10. SetupKeysMakeOneThing'
    BY <1>1, <1>8, <1>9, SetupOneThingMore
  <1>11. SetupAddressesBecomeOne'
    BY <1>4, <1>5 DEF SetupIInv, SetupAddressesBecomeOne, Setup!Select, Setup!IsOpen
  <1>12. SetupTypeOK'
    BY <1>1, <1>5 DEF SetupIInv, SetupTypeOK, rows
  <1> QED
    BY <1>10, <1>11, <1>12 DEF SetupIInv

\* A dossier of the current property.
LEMMA SetupRefreshDossierKeeps ==
    ASSUME SetupIInv, NEW k \in Keys, Setup!RefreshDossier(k)
    PROVE  SetupIInv'
  <1> DEFINE n == Len(properties)
             old == properties[n]
             row == [old EXCEPT !.dossiers = Append(@, Setup!Dossier(k))]
             thing == <<"refresh", n, Len(old.dossiers) + 1>>
             rows == [of : Nat \cup {None}, key : Keys, dossiers : Seq([intake : Nat, key : Keys])]
  <1>1. properties' = [properties EXCEPT ![n] = row] /\ Setup!Claim(k) /\ properties \in Seq(rows)
        /\ requests' = requests /\ intake' = intake /\ resolutions' = resolutions /\ home' = home
        /\ n \in DOMAIN properties /\ Len(old.dossiers) = requests[k].expected
    BY DEF Setup!RefreshDossier, SetupIInv, SetupTypeOK, Setup!Dossiers, Setup!Last
  <1>2. Setup!Dossier(k) \in [intake : Nat, key : Keys] /\ Setup!Dossier(k).key = k
    BY DEF SetupIInv, SetupTypeOK, Setup!Dossier
  <1>3. old \in rows
    <2> HIDE DEF rows, n
    <2> QED
      BY <1>1
  <1>31. old.dossiers \in Seq([intake : Nat, key : Keys])
    BY <1>3
  <1>32. row = [of |-> old.of, key |-> old.key, dossiers |-> Append(old.dossiers, Setup!Dossier(k))]
    <2> HIDE DEF old, n
    <2>1. old = [of |-> old.of, key |-> old.key, dossiers |-> old.dossiers]
      BY <1>3
    <2> QED
      BY <2>1
  <1>33. Append(old.dossiers, Setup!Dossier(k)) \in Seq([intake : Nat, key : Keys])
    BY <1>2, <1>31
  <1>4. /\ row \in rows /\ row.key = old.key /\ row.of = old.of
        /\ DOMAIN row.dossiers = DOMAIN old.dossiers \cup {Len(old.dossiers) + 1}
        /\ \A v \in DOMAIN old.dossiers : row.dossiers[v] = old.dossiers[v]
        /\ row.dossiers[Len(old.dossiers) + 1] = Setup!Dossier(k)
    <2> HIDE DEF old, n, row
    <2>1. row \in rows
      BY <1>3, <1>32, <1>33
    <2>2. /\ row.key = old.key /\ row.of = old.of
          /\ row.dossiers = Append(old.dossiers, Setup!Dossier(k))
      BY <1>32
    <2>3. /\ DOMAIN Append(old.dossiers,
               Setup!Dossier(k)) = DOMAIN old.dossiers \cup {Len(old.dossiers) + 1}
          /\ \A v \in DOMAIN old.dossiers :
               Append(old.dossiers, Setup!Dossier(k))[v] = old.dossiers[v]
          /\ Append(old.dossiers, Setup!Dossier(k))[Len(old.dossiers) + 1] = Setup!Dossier(k)
      BY <1>2, <1>31
    <2> QED
      BY <2>1, <2>2, <2>3
  <1> HIDE DEF row, rows, n
  <1>5. /\ properties' \in Seq(rows) /\ DOMAIN properties' = DOMAIN properties
        /\ \A p \in DOMAIN properties \ {n} : properties'[p] = properties[p]
        /\ properties'[n] = row
    BY <1>1, <1>4
  <1>6. ASSUME NEW j \in Keys
        PROVE  Setup!MadeProperty(j)' = Setup!MadeProperty(j)
    BY <1>1, <1>4, <1>5 DEF Setup!MadeProperty
  <1>7. ASSUME NEW j \in Keys
        PROVE  Setup!MadeDossier(j)' \subseteq Setup!MadeDossier(j) \cup (IF j = k THEN {thing}
                 ELSE {})
    <2> SUFFICES ASSUME NEW p \in DOMAIN properties, NEW v \in DOMAIN properties'[p].dossiers,
                        v > 1, properties'[p].dossiers[v].key = j
                 PROVE  <<"refresh", p,
                          v>> \in Setup!MadeDossier(j) \cup (IF j = k THEN {thing} ELSE {})
      BY <1>5 DEF Setup!MadeDossier
    <2>1. CASE p # n \/ v # Len(old.dossiers) + 1
      <3>1. v \in DOMAIN properties[p].dossiers /\ properties[p].dossiers[v].key = j
        BY <1>4, <1>5, <2>1
      <3> QED
        BY <3>1 DEF Setup!MadeDossier
    <2>2. CASE p = n /\ v = Len(old.dossiers) + 1
      BY <1>2, <1>4, <1>5, <2>2
    <2> QED
      BY <2>1, <2>2
  <1>8. SetupMakesOne(k, thing)
    BY <1>1, <1>6, <1>7, SetupTablesKeepThings DEF SetupMakesOne, Setup!Made
  <1>9. SetupAsAsked(k, thing)
    BY <1>1 DEF Setup!RefreshDossier, SetupAsAsked
  <1>10. SetupKeysMakeOneThing'
    BY <1>1, <1>8, <1>9, SetupOneThingMore
  <1>11. SetupAddressesBecomeOne'
    BY <1>1, <1>4, <1>5 DEF SetupIInv, SetupAddressesBecomeOne
  <1>12. SetupTypeOK'
    BY <1>1, <1>5 DEF SetupIInv, SetupTypeOK, rows
  <1> QED
    BY <1>10, <1>11, <1>12 DEF SetupIInv

\* The home, which there is once.
LEMMA SetupInitializeKeeps ==
    ASSUME SetupIInv, NEW k \in Keys, Setup!Initialize(k)
    PROVE  SetupIInv'
  <1> DEFINE thing == <<"initialize", requests[k].of>>
  <1>1. home' = [of |-> requests[k].of, key |-> k] /\ Setup!Claim(k) /\ Setup!Has(k, "initialize")
        /\ requests' = requests /\ intake' = intake /\ resolutions' = resolutions
        /\ properties' = properties
    BY DEF Setup!Initialize
  <1>2. requests[k].of \in Nat \cup {None}
    BY <1>1 DEF Setup!Has, SetupIInv, SetupTypeOK, Setup!Requests
  <1>3. ASSUME NEW j \in Keys
        PROVE  Setup!MadeHome(j)' \subseteq (IF j = k THEN {thing} ELSE {})
    BY <1>1 DEF Setup!MadeHome
  <1>4. SetupMakesOne(k, thing)
    BY <1>1, <1>3, SetupTablesKeepThings DEF SetupMakesOne, Setup!Made
  <1>5. SetupAsAsked(k, thing)
    BY <1>1 DEF SetupAsAsked
  <1>6. SetupKeysMakeOneThing'
    BY <1>1, <1>4, <1>5, SetupOneThingMore
  <1>7. SetupTypeOK' /\ SetupAddressesBecomeOne'
    BY <1>1, <1>2 DEF SetupIInv, SetupTypeOK, SetupAddressesBecomeOne
  <1> QED
    BY <1>6, <1>7 DEF SetupIInv

-----------------------------------------------------------------------------
(* What the runs check of the setup.                                       *)

\* At first no key has made anything.
LEMMA SetupInitKeeps == Setup!SetupConstants /\ Setup!Init => SetupIInv
  <1> SUFFICES ASSUME Setup!SetupConstants, Setup!Init PROVE SetupIInv
    OBVIOUS
  <1>1. SetupTypeOK
    BY DEF Setup!Init, SetupTypeOK, Setup!NoHome
  <1>2. \A k \in Keys : Setup!Made(k) = {}
    BY DEF Setup!SetupConstants, Setup!Init, Setup!NoHome, Setup!Made, Setup!MadeIntake,
             Setup!MadeResolution, Setup!MadeProperty,
       Setup!MadeDossier, Setup!MadeHome
  <1> QED
    BY <1>1, <1>2 DEF Setup!Init, SetupIInv, SetupKeysMakeOneThing, SetupAddressesBecomeOne

\* Every step keeps the invariant.
LEMMA SetupNextKeeps ==
    ASSUME Setup!SetupConstants, SetupIInv, [Setup!Next]_(Setup!vars)
    PROVE  SetupIInv'
  <1>1. CASE \E k \in Keys : Setup!AskForIntake(k) \/ Setup!AskToResolve(k) \/ Setup!AskToSelect(k)
          \/ Setup!AskToRefresh(k)
    BY <1>1, SetupAskingKeeps
  <1>2. CASE \E k \in Keys : Setup!ReadDossier(k) \/ Setup!UpsertIntake(k) \/ Setup!Resolve(k)
          \/ Setup!Select(k)
                                \/ Setup!RefreshDossier(k) \/ Setup!Initialize(k)
    BY <1>2, SetupReadDossierKeeps, SetupUpsertIntakeKeeps, SetupResolveKeeps, SetupSelectKeeps,
         SetupRefreshDossierKeeps,
       SetupInitializeKeeps
  <1>3. CASE \E r \in DOMAIN resolutions : Setup!Expire(r)
    BY <1>3, SetupExpireKeeps
  <1>4. CASE UNCHANGED Setup!vars
    <2>1. \A j \in Keys : Setup!Made(j)' = Setup!Made(j)
      BY <1>4, SetupTablesKeepThings DEF Setup!vars, Setup!Made
    <2>2. SetupKeysMakeOneThing'
      BY <1>4, <2>1 DEF Setup!vars, SetupIInv, SetupKeysMakeOneThing, SetupAsAsked, Setup!Has
    <2> QED
      BY <1>4, <2>2 DEF Setup!vars, SetupIInv, SetupTypeOK, SetupAddressesBecomeOne
  <1> QED
    BY <1>1, <1>2, <1>3, <1>4 DEF Setup!Next

\* A key makes at most one thing, of the kind that was asked with it, on the
\* version its author had seen; an address becomes at most one property.
THEOREM SetupStaysAsAsked ==
    ASSUME Setup!SetupConstants
    PROVE  Setup!Spec => []Setup!SetupIsWhatWasAsked
  <1>1. Setup!Init => SetupIInv
    BY SetupInitKeeps
  <1>2. SetupIInv /\ [Setup!Next]_(Setup!vars) => SetupIInv'
    BY SetupNextKeeps
  <1>3. SetupIInv => Setup!SetupIsWhatWasAsked
    BY DEF SetupIInv, SetupKeysMakeOneThing, SetupAddressesBecomeOne, SetupAsAsked,
             Setup!SetupIsWhatWasAsked
  <1> QED
    BY <1>1, <1>2, <1>3, PTL DEF Setup!Spec

-----------------------------------------------------------------------------
(* The inductive invariant of the editor.                                  *)

EditorVerdicts == {"clean", "warned", "blocked"}

EditorFound == [base : Nat, commands : Seq(Commands), verdict : EditorVerdicts]

Editors ==
    [base : Nat, pending : Seq(Commands), redo : Seq(Commands),
     phase : {"clean", "editing", "previewing", "preview-ready", "committing", "conflict"},
     preview : EditorFound \cup {None}, acknowledged : BOOLEAN, conflict : BOOLEAN]

EditorKinds == {"preview", "commit", "restore", "load", "reload", "reapply"}

\* What is sent, and what is answered, by kind of request.
EditorAsked(kind) ==
    CASE kind = "preview" -> Seq(Commands)
      [] kind = "commit" -> EditorFound
      [] kind = "load" -> {"commit", "restore"}
      [] OTHER -> {None}

EditorMutations == {"commit", "restore"}

EditorIsRequest(r) ==
    /\ r = [kind |-> r.kind, base |-> r.base, subject |-> r.subject, answer |-> r.answer]
    /\ r.kind \in EditorKinds /\ r.base \in Nat /\ r.subject \in EditorAsked(r.kind)

EditorIsDone(r) == r.answer # None /\ r.answer.kind = "done"

EditorAnswerIsRight ==
    EditorIsDone(call) =>
        IF call.kind = "preview"
        THEN call.answer.value \in EditorFound /\ call.answer.value.commands = call.subject
        ELSE call.answer.value \in Nat

EditorTypeOK ==
    /\ branch \in Seq(SUBSET Commands)
    /\ editor \in Editors
    /\ workspace \in Nat
    /\ call = Editor!Idle \/ EditorIsRequest(call)
    /\ lateCall = Editor!Idle \/ (EditorIsRequest(lateCall) /\ lateCall.kind \in EditorMutations)
    /\ origin \in [Commands -> {None, "calm", "hasty"}]

\* All that is pending but what was appended beside a request.
EditorCovers(commands) ==
    \A c \in Editor!Range(editor.pending) : c \in Editor!Range(commands) \/ origin[c] = "hasty"

\* What a preview, or a request, is of is all that is pending; and what a
\* commit was of is on the branch before the session lets go of it.
EditorIntentIsCovered ==
    /\ editor.phase = "preview-ready" => editor.preview \in EditorFound
         /\ EditorCovers(editor.preview.commands)
    /\ Editor!Busy => EditorAnswerIsRight
    /\ Editor!Busy /\ call.kind = "preview" => EditorCovers(call.subject)
    /\ Editor!Busy /\ call.kind = "commit" =>
          /\ EditorCovers(call.subject.commands)
          /\ EditorIsDone(call) =>
                \E r \in DOMAIN branch : branch[r] = Editor!Range(call.subject.commands)
    /\ Editor!Busy /\ call.kind = "load" /\ call.subject = "commit" => EditorCovers(<<>>)

EditorIInv == EditorTypeOK /\ EditorIntentIsCovered /\ Editor!CommandsCommitOnce

-----------------------------------------------------------------------------
(* Commands of sequences.                                                  *)

\* What a sequence of commands ranges over.
LEMMA EditorRanges ==
    ASSUME NEW s \in Seq(Commands)
    PROVE  /\ Editor!Range(s) \subseteq Commands
           /\ \A c : c \in Editor!Range(s) <=> \E i \in 1..Len(s) : s[i] = c
  BY DEF Editor!Range

\* A command more.
LEMMA EditorAppended ==
    ASSUME NEW s \in Seq(Commands), NEW c \in Commands
    PROVE  Append(s, c) \in Seq(Commands) /\ Editor!Range(Append(s, c)) = Editor!Range(s) \cup {c}
  <1> DEFINE longer == Append(s, c)
  <1>1. /\ longer \in Seq(Commands) /\ Len(s) \in Nat /\ DOMAIN s = 1..Len(s)
        /\ DOMAIN longer = 1..(Len(s) + 1)
        /\ \A i \in 1..Len(s) : longer[i] = s[i]
        /\ longer[Len(s) + 1] = c
    BY AppendProperties
  <1> HIDE DEF longer
  <1>2. Editor!Range(longer) \subseteq Editor!Range(s) \cup {c}
    BY <1>1 DEF Editor!Range
  <1>3. Editor!Range(s) \subseteq Editor!Range(longer)
    BY <1>1 DEF Editor!Range
  <1>4. c \in Editor!Range(longer)
    BY <1>1 DEF Editor!Range
  <1> QED
    BY <1>1, <1>2, <1>3, <1>4 DEF longer

\* A command stays when others follow.
LEMMA EditorConcatenated ==
    ASSUME NEW s \in Seq(Commands), NEW t \in Seq(Commands)
    PROVE  Editor!Range(s) \subseteq Editor!Range(s \o t)
  <1> SUFFICES ASSUME NEW i \in DOMAIN s PROVE s[i] \in Editor!Range(s \o t)
    BY DEF Editor!Range
  <1>1. i \in DOMAIN (s \o t) /\ (s \o t)[i] = s[i]
    OBVIOUS
  <1> QED
    BY <1>1 DEF Editor!Range

\* What undo and redo take from a stack.
LEMMA EditorFrontAndLast ==
    ASSUME NEW s \in Seq(Commands), s # <<>>
    PROVE  Editor!Front(s) \in Seq(Commands) /\ Editor!Last(s) \in Commands
  <1>1. Len(s) \in Nat /\ Len(s) > 0
    OBVIOUS
  <1>2. \A i \in 1..(Len(s) - 1) : s[i] \in Commands
    BY <1>1
  <1>3. SubSeq(s, 1, Len(s) - 1) \in Seq(Commands)
    BY <1>1, <1>2, SubSeqProperties
  <1>4. s[Len(s)] \in Commands
    BY <1>1
  <1> QED
    BY <1>3, <1>4 DEF Editor!Front, Editor!Last

-----------------------------------------------------------------------------
(* What the reducer makes of a session.                                    *)

\* Editors of each operation of the reducer.
LEMMA EditorReducerTypes ==
    ASSUME editor \in Editors
    PROVE  /\ \A from \in Nat : Editor!Session(from) \in Editors
           /\ \A pending, redo \in Seq(Commands) : Editor!Edited(pending, redo) \in Editors
           /\ \A from \in Nat : Editor!Reapplied(from) \in Editors
           /\ \A phase \in {"clean", "editing", "previewing", "preview-ready", "committing",
                "conflict"} :
                 Editor!To(phase) \in Editors /\ Editor!To(phase).pending = editor.pending
                 /\ Editor!To(phase).phase = phase
           /\ Editor!Failed \in Editors /\ Editor!Conflicting \in Editors
           /\ Editor!Failed.pending = editor.pending /\ Editor!Failed.phase # "preview-ready"
           /\ Editor!Conflicting.pending = editor.pending
                /\ Editor!Conflicting.phase # "preview-ready"
           /\ Editor!Conflicting.preview = None
  <1>1. \A from \in Nat : Editor!Session(from) \in Editors
    BY DEF Editor!Session, Editors
  <1>2. ASSUME NEW pending \in Seq(Commands), NEW redo \in Seq(Commands)
        PROVE  Editor!Edited(pending, redo) \in Editors
    BY DEF Editor!Edited, Editor!Session, Editors, Editor!PhaseOf
  <1>3. \A from \in Nat : Editor!Reapplied(from) \in Editors
    BY DEF Editor!Reapplied, Editor!Edited, Editor!Session, Editors, Editor!PhaseOf
  <1>4. ASSUME NEW phase \in {"clean", "editing", "previewing", "preview-ready", "committing",
                 "conflict"}
        PROVE  /\ Editor!To(phase) \in Editors /\ Editor!To(phase).pending = editor.pending
               /\ Editor!To(phase).phase = phase
    BY DEF Editor!To, Editors
  <1>5. Editor!Failed \in Editors /\ Editor!Failed.pending = editor.pending
          /\ Editor!Failed.phase # "preview-ready"
    BY DEF Editor!Failed, Editor!To, Editors, Editor!PhaseOf
  <1>6. /\ Editor!Conflicting \in Editors /\ Editor!Conflicting.pending = editor.pending
        /\ Editor!Conflicting.phase # "preview-ready" /\ Editor!Conflicting.preview = None
    BY DEF Editor!Conflicting, Editor!To, Editors
  <1> QED
    BY <1>1, <1>2, <1>3, <1>4, <1>5, <1>6

\* And what is pending after each.
LEMMA EditorReducerPending ==
    ASSUME editor \in Editors, NEW from, NEW pending, NEW redo
    PROVE  /\ Editor!Session(from).pending = <<>> /\ Editor!Session(from).phase = "clean"
           /\ Editor!Edited(pending, redo).pending = pending
           /\ Editor!Edited(pending, redo).phase \in {"clean", "editing"}
           /\ Editor!Reapplied(from).pending = editor.pending
           /\ Editor!Reapplied(from).phase \in {"clean", "editing"}
  BY DEF Editor!Session, Editor!Edited, Editor!Reapplied, Editor!PhaseOf, Editors

\* What is covered stays covered as long as nothing calm is appended.
LEMMA EditorCoversKeeps ==
    ASSUME NEW commands, EditorCovers(commands),
           \A c \in Editor!Range(editor'.pending) : c \in Editor!Range(editor.pending)
             \/ origin'[c] = "hasty",
           \A c \in Commands : origin[c] = "hasty" => origin'[c] = "hasty",
           editor.pending \in Seq(Commands)
    PROVE  \A c \in Editor!Range(editor'.pending) : c \in Editor!Range(commands)
             \/ origin'[c] = "hasty"
  BY EditorRanges DEF EditorCovers

-----------------------------------------------------------------------------
(* Steps of the user.                                                      *)

\* A step of the user beside a request: only the form's commands come in.
LEMMA EditorAppendCommandKeeps ==
    ASSUME None \notin {"calm", "hasty"}, EditorIInv, NEW c \in Commands, Editor!AppendCommand(c)
    PROVE  EditorIInv' /\ Editor!IntentStep
  <1> DEFINE pending == Append(editor.pending, c)
  <1>1. /\ editor \in Editors /\ editor.pending \in Seq(Commands) /\ editor.redo \in Seq(Commands)
        /\ origin \in [Commands -> {None, "calm", "hasty"}] /\ <<>> \in Seq(Commands)
    BY DEF EditorIInv, EditorTypeOK, Editors
  <1>2. editor' = Editor!Edited(pending, <<>>) /\ pending \in Seq(Commands)
        /\ Editor!Range(pending) = Editor!Range(editor.pending) \cup {c}
    BY <1>1, EditorAppended DEF Editor!AppendCommand
  <1>3. /\ editor' \in Editors /\ editor'.pending = pending
        /\ editor'.phase \in {"clean", "editing"}
    BY <1>1, <1>2, EditorReducerTypes, EditorReducerPending
  <1>4. /\ branch' = branch /\ workspace' = workspace /\ call' = call /\ lateCall' = lateCall
        /\ origin[c] = None /\ origin' = [origin EXCEPT ![c] = IF Editor!Busy THEN "hasty"
             ELSE "calm"]
    BY DEF Editor!AppendCommand
  <1>5. EditorTypeOK'
    BY <1>1, <1>3, <1>4 DEF EditorIInv, EditorTypeOK
  <1>6. \A d \in Commands : origin[d] = "hasty" => origin'[d] = "hasty"
    BY <1>1, <1>4
  <1>7. ASSUME Editor!Busy, NEW commands, EditorCovers(commands)
        PROVE  \A d \in Editor!Range(editor'.pending) : d \in Editor!Range(commands)
                 \/ origin'[d] = "hasty"
    BY <1>1, <1>2, <1>3, <1>4, <1>6, <1>7, EditorRanges DEF EditorCovers
  <1>8. EditorIntentIsCovered'
    BY <1>3, <1>4, <1>7 DEF EditorIInv, EditorIntentIsCovered, Editor!Busy, EditorAnswerIsRight,
         EditorIsDone, EditorCovers
  <1>9. Editor!CommandsCommitOnce'
    BY <1>4 DEF EditorIInv, Editor!CommandsCommitOnce
  <1>10. Editor!IntentStep
    <2>1. editor'.redo \in Seq(Commands)
      BY <1>3 DEF Editors
    <2>2. Editor!Range(pending) \subseteq Editor!Range(pending \o editor'.redo)
      BY <1>2, <2>1, EditorConcatenated
    <2> QED
      BY <1>2, <1>3, <2>2 DEF Editor!IntentStep
  <1> QED
    BY <1>5, <1>8, <1>9, <1>10 DEF EditorIInv

\* A step of the user while nothing is in flight.
LEMMA EditorQuietStep ==
    ASSUME EditorIInv, ~Editor!Busy, editor' \in Editors, editor'.phase # "preview-ready",
           UNCHANGED <<branch, workspace, lateCall, origin>>,
           \/ call' = Editor!Idle
           \/ /\ EditorIsRequest(call)' /\ call'.answer = None
              /\ call'.kind = "preview" =>
                    call'.subject = editor.pending /\ editor'.pending = editor.pending
              /\ call'.kind = "commit" =>
                    /\ editor.phase = "preview-ready" /\ call'.subject = editor.preview
                    /\ editor'.pending = editor.pending
              /\ call'.kind # "load"
    PROVE  EditorIInv' /\ Editor!IntentStep
  <1>1. EditorTypeOK'
    BY DEF EditorIInv, EditorTypeOK
  <1>2. EditorIntentIsCovered'
    <2>1. CASE call' = Editor!Idle
      BY <2>1 DEF EditorIntentIsCovered, Editor!Busy
    <2>2. CASE call' # Editor!Idle
      BY <2>2 DEF EditorIInv, EditorTypeOK, EditorIntentIsCovered, EditorCovers, EditorIsDone,
                    EditorAnswerIsRight
    <2> QED
      BY <2>1, <2>2
  <1>3. Editor!CommandsCommitOnce'
    BY DEF EditorIInv, Editor!CommandsCommitOnce
  <1>4. Editor!IntentStep
    BY DEF Editor!IntentStep
  <1> QED
    BY <1>1, <1>2, <1>3, <1>4 DEF EditorIInv

\* A request that is sent.
LEMMA EditorSent ==
    ASSUME NEW kind \in EditorKinds, NEW from \in Nat, NEW subject \in EditorAsked(kind),
           Editor!Send(kind, from, subject)
    PROVE  /\ EditorIsRequest(call)' /\ call'.kind = kind /\ call'.subject = subject
           /\ call'.answer = None /\ call' # Editor!Idle
  BY DEF Editor!Send, EditorIsRequest, Editor!Idle, EditorKinds

\* Every step of the user keeps the invariant, and intent.
LEMMA EditorUserKeeps ==
    ASSUME None \notin {"calm", "hasty"}, EditorIInv, Editor!UserStep
    PROVE  EditorIInv' /\ Editor!IntentStep
  <1>1. /\ editor \in Editors /\ editor.pending \in Seq(Commands) /\ editor.redo \in Seq(Commands)
        /\ editor.base \in Nat /\ workspace \in Nat /\ <<>> \in Seq(Commands)
    BY DEF EditorIInv, EditorTypeOK, Editors
  <1>2. CASE \E c \in Commands : Editor!AppendCommand(c)
    BY <1>2, EditorAppendCommandKeeps
  <1>3. CASE Editor!Undo
    <2>1. /\ Editor!Front(editor.pending) \in Seq(Commands)
          /\ Append(editor.redo, Editor!Last(editor.pending)) \in Seq(Commands)
      BY <1>1, <1>3, EditorFrontAndLast, EditorAppended DEF Editor!Undo
    <2>2. /\ editor' = Editor!Edited(Editor!Front(editor.pending),
               Append(editor.redo, Editor!Last(editor.pending)))
          /\ ~Editor!Busy /\ UNCHANGED <<branch, workspace, call, lateCall, origin>>
      BY <1>3 DEF Editor!Undo
    <2>3. editor' \in Editors /\ editor'.phase # "preview-ready"
      BY <1>1, <2>1, <2>2, EditorReducerTypes, EditorReducerPending
    <2> QED
      BY <2>2, <2>3, EditorQuietStep DEF Editor!Busy
  <1>4. CASE Editor!Redo
    <2>1. /\ Editor!Front(editor.redo) \in Seq(Commands)
          /\ Append(editor.pending, Editor!Last(editor.redo)) \in Seq(Commands)
      BY <1>1, <1>4, EditorFrontAndLast, EditorAppended DEF Editor!Redo
    <2>2. /\ editor' = Editor!Edited(Append(editor.pending, Editor!Last(editor.redo)),
               Editor!Front(editor.redo))
          /\ ~Editor!Busy /\ UNCHANGED <<branch, workspace, call, lateCall, origin>>
      BY <1>4 DEF Editor!Redo
    <2>3. editor' \in Editors /\ editor'.phase # "preview-ready"
      BY <1>1, <2>1, <2>2, EditorReducerTypes, EditorReducerPending
    <2> QED
      BY <2>2, <2>3, EditorQuietStep DEF Editor!Busy
  <1>5. CASE Editor!Discard
    <2>1. editor' \in Editors /\ editor'.phase # "preview-ready"
      BY <1>1, <1>5, EditorReducerTypes, EditorReducerPending DEF Editor!Discard
    <2> QED
      BY <1>5, <2>1, EditorQuietStep DEF Editor!Discard, Editor!Busy
  <1>6. CASE Editor!Acknowledge
    <2>1. /\ editor' = [editor EXCEPT !.acknowledged = TRUE]
          /\ UNCHANGED <<branch, workspace, call, lateCall, origin>>
      BY <1>6 DEF Editor!Acknowledge
    <2>2. /\ editor' \in Editors /\ editor'.pending = editor.pending /\ editor'.redo = editor.redo
          /\ editor'.phase = editor.phase /\ editor'.preview = editor.preview
      BY <1>1, <2>1 DEF Editors
    <2>3. EditorTypeOK'
      BY <2>1, <2>2 DEF EditorIInv, EditorTypeOK
    <2>4. EditorIntentIsCovered' /\ Editor!CommandsCommitOnce'
      BY <2>1, <2>2 DEF EditorIInv, EditorIntentIsCovered, EditorCovers, Editor!Busy,
           EditorAnswerIsRight, Editor!CommandsCommitOnce
    <2>5. Editor!IntentStep
      BY <1>1, <2>2, EditorConcatenated DEF Editor!IntentStep
    <2> QED
      BY <2>3, <2>4, <2>5 DEF EditorIInv
  <1>7. CASE Editor!AskForPreview
    <2>1. /\ editor' = Editor!To("previewing")
               /\ Editor!Send("preview", editor.base, editor.pending)
          /\ ~Editor!Busy /\ UNCHANGED <<branch, workspace, lateCall, origin>>
      BY <1>7 DEF Editor!AskForPreview
    <2>2. "preview" \in EditorKinds /\ editor.pending \in EditorAsked("preview")
      BY <1>1 DEF EditorKinds, EditorAsked
    <2>3. /\ editor' \in Editors /\ editor'.phase = "previewing"
          /\ editor'.pending = editor.pending
      BY <1>1, <2>1, EditorReducerTypes
    <2> QED
      BY <1>1, <2>1, <2>2, <2>3, EditorSent, EditorQuietStep
  <1>8. CASE Editor!AskToCommit
    <2>1. /\ editor' = [editor EXCEPT !.phase = "committing"]
          /\ Editor!Send("commit", editor.base, editor.preview)
          /\ ~Editor!Busy /\ UNCHANGED <<branch, workspace, lateCall, origin>>
          /\ editor.phase = "preview-ready"
      BY <1>8 DEF Editor!AskToCommit, Editor!CanCommit
    <2>2. "commit" \in EditorKinds /\ editor.preview \in EditorAsked("commit")
      BY <2>1 DEF EditorKinds, EditorAsked, EditorIInv, EditorIntentIsCovered
    <2>3. editor' \in Editors /\ editor'.phase = "committing" /\ editor'.pending = editor.pending
      BY <1>1, <2>1 DEF Editors
    <2> QED
      BY <1>1, <2>1, <2>2, <2>3, EditorSent, EditorQuietStep
  <1>9. CASE Editor!AskToRestore \/ \E kind \in {"reload", "reapply"} : Editor!AskForHead(kind)
    <2>1. PICK kind \in {"restore", "reload", "reapply"}, from \in Nat :
              Editor!Send(kind, from, None) /\ ~Editor!Busy
                /\ UNCHANGED <<branch, editor, workspace, lateCall, origin>>
      BY <1>1, <1>9 DEF Editor!AskToRestore, Editor!AskForHead
    <2>2. kind \in EditorKinds /\ None \in EditorAsked(kind)
      BY DEF EditorKinds, EditorAsked
    <2>3. /\ EditorIsRequest(call)' /\ call'.kind = kind /\ call'.answer = None
          /\ call' # Editor!Idle
      BY <2>1, <2>2, EditorSent
    <2>4. EditorTypeOK'
      BY <2>1, <2>3 DEF EditorIInv, EditorTypeOK
    <2>5. EditorIntentIsCovered' /\ Editor!CommandsCommitOnce'
      BY <2>1, <2>3 DEF EditorIInv, EditorIntentIsCovered, EditorCovers, EditorIsDone,
           EditorAnswerIsRight, Editor!CommandsCommitOnce
    <2>6. Editor!IntentStep
      BY <2>1 DEF Editor!IntentStep
    <2> QED
      BY <2>4, <2>5, <2>6 DEF EditorIInv
  <1> QED
    BY <1>2, <1>3, <1>4, <1>5, <1>6, <1>7, <1>8, <1>9 DEF Editor!UserStep

-----------------------------------------------------------------------------
(* Steps of the server.                                                    *)

\* What is appended to the branch is of no earlier commit.
LEMMA EditorBranchGrows ==
    ASSUME EditorIInv, NEW commands \in SUBSET Commands, branch' = Append(branch, commands),
           \A r \in DOMAIN branch : commands \cap branch[r] = {}
    PROVE  /\ branch' \in Seq(SUBSET Commands) /\ Editor!CommandsCommitOnce'
           /\ \E r \in DOMAIN branch' : branch'[r] = commands
           /\ \A r \in DOMAIN branch : r \in DOMAIN branch' /\ branch'[r] = branch[r]
  <1>1. branch \in Seq(SUBSET Commands)
    BY DEF EditorIInv, EditorTypeOK
  <1>2. /\ DOMAIN branch = 1..Len(branch) /\ DOMAIN branch' = 1..(Len(branch) + 1)
        /\ branch' \in Seq(SUBSET Commands) /\ Len(branch) \in Nat
        /\ \A r \in DOMAIN branch : branch'[r] = branch[r]
        /\ branch'[Len(branch) + 1] = commands
    BY <1>1
  <1>3. \A r1, r2 \in DOMAIN branch : branch[r1] \cap branch[r2] # {} => r1 = r2
    BY DEF EditorIInv, Editor!CommandsCommitOnce
  <1>4. Editor!CommandsCommitOnce'
    BY <1>2, <1>3 DEF Editor!CommandsCommitOnce
  <1> QED
    BY <1>2, <1>4

\* A commit or restore that is accepted makes one entry more, of new commands.
LEMMA EditorPersistGrows ==
    ASSUME EditorIInv, NEW r, EditorIsRequest(r), r.kind \in EditorMutations, Editor!Persist(r)
    PROVE  /\ branch' \in Seq(SUBSET Commands) /\ Editor!CommandsCommitOnce'
           /\ r.kind = "commit" =>
                 \E n \in DOMAIN branch' : branch'[n] = Editor!Range(r.subject.commands)
           /\ \A n \in DOMAIN branch : n \in DOMAIN branch' /\ branch'[n] = branch[n]
  <1>1. CASE r.kind = "restore"
    BY <1>1, EditorBranchGrows DEF Editor!Persist
  <1>2. CASE r.kind = "commit"
    <2>1. r.subject.commands \in Seq(Commands)
      BY <1>2 DEF EditorIsRequest, EditorAsked, EditorFound
    <2>2. Editor!Range(r.subject.commands) \in SUBSET Commands
      BY <2>1, EditorRanges
    <2> QED
      BY <1>2, <2>2, EditorBranchGrows DEF Editor!Persist, Editor!AllNew
  <1> QED
    BY <1>1, <1>2 DEF EditorMutations

\* A step beside the session: the branch grows, or a request is answered.
LEMMA EditorServerStepKeeps ==
    ASSUME EditorIInv, UNCHANGED <<editor, workspace, origin>>,
           branch' \in Seq(SUBSET Commands), Editor!CommandsCommitOnce',
           \A n \in DOMAIN branch : n \in DOMAIN branch' /\ branch'[n] = branch[n],
           lateCall' \in {lateCall, Editor!Idle},
           \/ call' = call
           \/ \E answer : /\ call' = [call EXCEPT !.answer = answer] /\ Editor!Busy
                          /\ EditorIntentIsCovered'
    PROVE  EditorIInv' /\ Editor!IntentStep
  <1>1. EditorTypeOK'
    <2>1. call' = Editor!Idle \/ EditorIsRequest(call)'
      BY DEF EditorIInv, EditorTypeOK, EditorIsRequest, Editor!Busy
    <2> QED
      BY <2>1 DEF EditorIInv, EditorTypeOK
  <1>2. EditorIntentIsCovered'
    BY DEF EditorIInv, EditorIntentIsCovered, EditorCovers, EditorAnswerIsRight, EditorIsDone,
             Editor!Busy
  <1>3. Editor!IntentStep
    BY EditorConcatenated DEF Editor!IntentStep, EditorIInv, EditorTypeOK, Editors
  <1> QED
    BY <1>1, <1>2, <1>3 DEF EditorIInv

\* An answer, which is right.
LEMMA EditorAnswerKeeps ==
    ASSUME EditorIInv, Editor!Busy, NEW kind, NEW value, Editor!Answer(kind, value),
           UNCHANGED <<editor, origin>>,
           \A n \in DOMAIN branch : n \in DOMAIN branch' /\ branch'[n] = branch[n],
           kind = "done" =>
               /\ IF call.kind = "preview" THEN value \in EditorFound
                    /\ value.commands = call.subject
                  ELSE value \in Nat
               /\ call.kind = "commit" =>
                     \E n \in DOMAIN branch' : branch'[n] = Editor!Range(call.subject.commands)
    PROVE  EditorIntentIsCovered'
  <1>1. /\ call'.kind = call.kind /\ call'.subject = call.subject
        /\ call'.answer = [kind |-> kind, value |-> value]
    BY DEF Editor!Answer, EditorIInv, EditorTypeOK, Editor!Busy, EditorIsRequest
  <1>2. call'.answer.kind = kind /\ call'.answer.value = value
    BY <1>1
  <1> QED
    BY <1>1, <1>2 DEF EditorIInv, EditorIntentIsCovered, EditorCovers, EditorAnswerIsRight,
         EditorIsDone

\* Every step of the server keeps the invariant, and intent.
LEMMA EditorServerKeeps ==
    ASSUME EditorIInv, Editor!ServerStep
    PROVE  EditorIInv' /\ Editor!IntentStep
  <1>1. /\ branch \in Seq(SUBSET Commands) /\ Editor!Revision \in Nat /\ Editor!CommandsCommitOnce
        /\ Editor!Busy => EditorIsRequest(call)
        /\ lateCall # Editor!Idle => EditorIsRequest(lateCall) /\ lateCall.kind \in EditorMutations
    BY DEF EditorIInv, EditorTypeOK, Editor!Revision, Editor!Busy
  <1>2. CASE Editor!MakePreview
    <2>1. /\ Editor!Busy /\ call.kind = "preview"
          /\ UNCHANGED <<branch, editor, workspace, lateCall, origin>>
      BY <1>2 DEF Editor!MakePreview, Editor!Unanswered
    <2>2. call.subject \in Seq(Commands)
      BY <1>1, <2>1 DEF EditorIsRequest, EditorAsked
    <2>3. PICK kind, value : /\ Editor!Answer(kind, value)
                             /\ kind = "done" => value \in EditorFound
                                  /\ value.commands = call.subject
      <3>1. CASE call.base # Editor!Revision
        <4>1. Editor!Answer("conflict", Editor!Revision)
          BY <1>2, <3>1 DEF Editor!MakePreview
        <4> QED
          BY <4>1
      <3>2. CASE call.base = Editor!Revision
        <4>1. PICK verdict \in EditorVerdicts :
                  Editor!Answer("done",
                    [base |-> Editor!Revision, commands |-> call.subject, verdict |-> verdict])
          BY <1>2, <3>2 DEF Editor!MakePreview, EditorVerdicts
        <4>2. [base |-> Editor!Revision, commands |-> call.subject,
                verdict |-> verdict] \in EditorFound
          BY <1>1, <2>2 DEF EditorFound
        <4> QED
          BY <4>1, <4>2
      <3> QED
        BY <3>1, <3>2
    <2>4. EditorIntentIsCovered'
      BY <2>1, <2>3, EditorAnswerKeeps
    <2>5. Editor!CommandsCommitOnce'
      BY <1>1, <2>1 DEF Editor!CommandsCommitOnce
    <2> QED
      BY <1>1, <2>1, <2>3, <2>4, <2>5, EditorServerStepKeeps DEF Editor!Answer
  <1>3. CASE Editor!Mutate
    <2>1. /\ Editor!Busy /\ call.kind \in EditorMutations /\ Editor!Persist(call)
          /\ Editor!Answer("done", Editor!Revision + 1)
               /\ UNCHANGED <<editor, workspace, lateCall, origin>>
      BY <1>3 DEF Editor!Mutate, Editor!Unanswered, EditorMutations
    <2>2. /\ branch' \in Seq(SUBSET Commands) /\ Editor!CommandsCommitOnce'
          /\ call.kind = "commit" =>
                \E n \in DOMAIN branch' : branch'[n] = Editor!Range(call.subject.commands)
          /\ \A n \in DOMAIN branch : n \in DOMAIN branch' /\ branch'[n] = branch[n]
      BY <1>1, <2>1, EditorPersistGrows
    <2>3. EditorIntentIsCovered'
      BY <1>1, <2>1, <2>2, EditorAnswerKeeps DEF EditorMutations
    <2> QED
      BY <2>1, <2>2, <2>3, EditorServerStepKeeps DEF Editor!Answer
  <1>4. CASE Editor!Refuse
    <2>1. /\ Editor!Busy /\ UNCHANGED <<branch, editor, workspace, lateCall, origin>>
          /\ \E kind \in {"conflict", "refused"} : Editor!Answer(kind, Editor!Revision)
      BY <1>4 DEF Editor!Refuse, Editor!Unanswered
    <2>2. EditorIntentIsCovered'
      BY <2>1, EditorAnswerKeeps
    <2>3. Editor!CommandsCommitOnce'
      BY <1>1, <2>1 DEF Editor!CommandsCommitOnce
    <2> QED
      BY <1>1, <2>1, <2>2, <2>3, EditorServerStepKeeps DEF Editor!Answer
  <1>5. CASE Editor!GetBranch
    <2>1. /\ Editor!Busy /\ UNCHANGED <<branch, editor, workspace, lateCall, origin>>
          /\ Editor!Answer("done", Editor!Revision) /\ call.kind \in {"load", "reload", "reapply"}
      BY <1>5 DEF Editor!GetBranch, Editor!Unanswered
    <2>2. EditorIntentIsCovered'
      BY <1>1, <2>1, EditorAnswerKeeps
    <2>3. Editor!CommandsCommitOnce'
      BY <1>1, <2>1 DEF Editor!CommandsCommitOnce
    <2> QED
      BY <1>1, <2>1, <2>2, <2>3, EditorServerStepKeeps DEF Editor!Answer
  <1>6. CASE Editor!MutateLate
    <2>1. /\ lateCall # Editor!Idle /\ Editor!Persist(lateCall) /\ lateCall' = Editor!Idle
          /\ UNCHANGED <<editor, workspace, call, origin>>
      BY <1>6 DEF Editor!MutateLate
    <2>2. /\ branch' \in Seq(SUBSET Commands) /\ Editor!CommandsCommitOnce'
          /\ \A n \in DOMAIN branch : n \in DOMAIN branch' /\ branch'[n] = branch[n]
      BY <1>1, <2>1, EditorPersistGrows
    <2> QED
      BY <2>1, <2>2, EditorServerStepKeeps
  <1>7. CASE Editor!CommitElsewhere
    <2>1. branch' = Append(branch, {}) /\ UNCHANGED <<editor, workspace, call, lateCall, origin>>
      BY <1>7 DEF Editor!CommitElsewhere
    <2>2. /\ branch' \in Seq(SUBSET Commands) /\ Editor!CommandsCommitOnce'
          /\ \A n \in DOMAIN branch : n \in DOMAIN branch' /\ branch'[n] = branch[n]
      <3>1. {} \in SUBSET Commands /\ \A r \in DOMAIN branch : {} \cap branch[r] = {}
        OBVIOUS
      <3> QED
        BY <2>1, <3>1, EditorBranchGrows
    <2> QED
      BY <2>1, <2>2, EditorServerStepKeeps
  <1> QED
    BY <1>2, <1>3, <1>4, <1>5, <1>6, <1>7 DEF Editor!ServerStep

-----------------------------------------------------------------------------
(* Answers, and their absence.                                             *)

\* The session goes on with what was pending, and nothing is in flight.
LEMMA EditorGoesOn ==
    ASSUME EditorIInv, editor' \in Editors, editor'.pending = editor.pending,
           editor'.phase = "preview-ready" =>
               /\ editor'.preview \in EditorFound
               /\ \A c \in Editor!Range(editor.pending) :
                     c \in Editor!Range(editor'.preview.commands) \/ origin[c] = "hasty",
           call' = Editor!Idle, workspace' \in Nat, lateCall' = Editor!Idle
             \/ (EditorIsRequest(lateCall)' /\ lateCall'.kind \in EditorMutations),
           UNCHANGED <<branch, origin>>
    PROVE  EditorIInv' /\ Editor!IntentStep
  <1>1. EditorTypeOK'
    BY DEF EditorIInv, EditorTypeOK
  <1>2. EditorIntentIsCovered'
    BY DEF EditorIntentIsCovered, Editor!Busy, EditorCovers
  <1>3. Editor!CommandsCommitOnce'
    BY DEF EditorIInv, Editor!CommandsCommitOnce
  <1>4. Editor!IntentStep
    BY EditorConcatenated DEF Editor!IntentStep, Editors
  <1> QED
    BY <1>1, <1>2, <1>3, <1>4 DEF EditorIInv

\* Every answer, and its absence, keeps the invariant, and intent.
LEMMA EditorAnswersKeep ==
    ASSUME EditorIInv, Editor!AnswerStep
    PROVE  EditorIInv' /\ Editor!IntentStep
  <1>1. /\ editor \in Editors /\ workspace \in Nat /\ editor.base \in Nat
        /\ editor.pending \in Seq(Commands)
        /\ Editor!Busy => EditorIsRequest(call)
        /\ lateCall = Editor!Idle \/ (EditorIsRequest(lateCall)
             /\ lateCall.kind \in EditorMutations)
    BY DEF EditorIInv, EditorTypeOK, Editor!Busy, Editors
  <1>2. CASE Editor!PreviewReceived
    <2> DEFINE value == call.answer.value
    <2>1. /\ Editor!Busy /\ call.kind = "preview" /\ EditorIsDone(call)
          /\ editor' = [Editor!To("preview-ready") EXCEPT !.preview = value, !.acknowledged = FALSE]
          /\ call' = Editor!Idle /\ UNCHANGED <<branch, workspace, lateCall, origin>>
      BY <1>2 DEF Editor!PreviewReceived, Editor!Answered, EditorIsDone
    <2>2. value \in EditorFound /\ value.commands = call.subject /\ EditorCovers(call.subject)
      BY <2>1 DEF EditorIInv, EditorIntentIsCovered, EditorAnswerIsRight
    <2>3. Editor!To("preview-ready") \in Editors
            /\ Editor!To("preview-ready").pending = editor.pending
      BY <1>1, EditorReducerTypes
    <2>4. /\ editor' \in Editors /\ editor'.pending = editor.pending /\ editor'.preview = value
      BY <2>1, <2>2, <2>3 DEF Editors
    <2> HIDE DEF value
    <2> QED
      BY <1>1, <2>1, <2>2, <2>4, EditorGoesOn DEF EditorCovers
  <1>3. CASE Editor!Succeeded
    <2>1. /\ Editor!Busy /\ call.kind \in EditorMutations /\ EditorIsDone(call)
          /\ editor' = IF call.kind = "commit" THEN Editor!Session(call.answer.value) ELSE editor
          /\ Editor!Send("load", editor.base, call.kind)
               /\ UNCHANGED <<branch, workspace, lateCall, origin>>
      BY <1>3 DEF Editor!Succeeded, Editor!Answered, EditorIsDone, EditorMutations
    <2>2. /\ call.answer.value \in Nat
          /\ call.kind = "commit" =>
                /\ EditorCovers(call.subject.commands)
                /\ \E r \in DOMAIN branch : branch[r] = Editor!Range(call.subject.commands)
      BY <2>1 DEF EditorIInv, EditorIntentIsCovered, EditorAnswerIsRight, EditorMutations
    <2>3. "load" \in EditorKinds /\ call.kind \in EditorAsked("load")
      BY <2>1 DEF EditorKinds, EditorAsked, EditorMutations
    <2>4. /\ EditorIsRequest(call)' /\ call'.kind = "load" /\ call'.subject = call.kind
          /\ call'.answer = None /\ call' # Editor!Idle
      BY <1>1, <2>1, <2>3, EditorSent
    <2>5. /\ editor' \in Editors
          /\ call.kind = "commit" => editor'.pending = <<>> /\ editor'.phase = "clean"
          /\ call.kind # "commit" => editor' = editor
      BY <1>1, <2>1, <2>2, EditorReducerTypes, EditorReducerPending
    <2>6. EditorTypeOK'
      BY <2>1, <2>4, <2>5 DEF EditorIInv, EditorTypeOK
    <2>7. Editor!CommandsCommitOnce'
      BY <2>1 DEF EditorIInv, Editor!CommandsCommitOnce
    <2>8. CASE call.kind = "commit"
      <3>1. EditorIntentIsCovered'
        BY <2>4, <2>5, <2>8 DEF EditorIntentIsCovered, EditorCovers, EditorAnswerIsRight,
             EditorIsDone, Editor!Range
      <3>2. Editor!IntentStep
        BY <2>2, <2>8 DEF Editor!IntentStep, EditorCovers
      <3> QED
        BY <2>6, <2>7, <3>1, <3>2 DEF EditorIInv
    <2>9. CASE call.kind # "commit"
      <3>1. EditorIntentIsCovered'
        BY <2>1, <2>4, <2>5, <2>9 DEF EditorIInv, EditorIntentIsCovered, EditorCovers,
             EditorAnswerIsRight, EditorIsDone
      <3>2. Editor!IntentStep
        BY <1>1, <2>5, <2>9, EditorConcatenated DEF Editor!IntentStep, Editors
      <3> QED
        BY <2>6, <2>7, <3>1, <3>2 DEF EditorIInv
    <2> QED
      BY <2>8, <2>9
  <1>4. CASE Editor!Loaded
    <2>1. /\ Editor!Busy /\ call.kind \in {"load", "reload", "reapply"} /\ EditorIsDone(call)
          /\ workspace' = call.answer.value /\ call' = Editor!Idle
          /\ UNCHANGED <<branch, lateCall, origin>>
          /\ call.kind = "load" => editor' = Editor!Session(call.answer.value)
          /\ call.kind = "reapply" => editor' = Editor!Reapplied(call.answer.value)
          /\ call.kind = "reload" => editor' = editor
      BY <1>4 DEF Editor!Loaded, Editor!Answered, EditorIsDone
    <2>2. call.answer.value \in Nat
      BY <2>1 DEF EditorIInv, EditorIntentIsCovered, EditorAnswerIsRight
    <2>3. CASE call.kind = "load"
      <3>1. /\ editor' \in Editors /\ editor'.phase = "clean"
        BY <1>1, <2>1, <2>2, <2>3, EditorReducerTypes, EditorReducerPending
      <3>2. EditorTypeOK' /\ EditorIntentIsCovered' /\ Editor!CommandsCommitOnce'
        BY <2>1, <2>2, <3>1 DEF EditorIInv, EditorTypeOK, EditorIntentIsCovered, Editor!Busy,
             Editor!CommandsCommitOnce
      <3>3. call.subject \in {"commit", "restore"}
        BY <1>1, <2>1, <2>3 DEF EditorIsRequest, EditorAsked
      <3>4. Editor!IntentStep
        BY <2>1, <2>3, <3>3 DEF EditorIInv, EditorIntentIsCovered, Editor!IntentStep, EditorCovers,
             Editor!Range
      <3> QED
        BY <3>2, <3>4 DEF EditorIInv
    <2>4. CASE call.kind = "reapply"
      <3>1. /\ editor' \in Editors /\ editor'.pending = editor.pending
            /\ editor'.phase # "preview-ready"
        BY <1>1, <2>1, <2>2, <2>4, EditorReducerTypes, EditorReducerPending
      <3> QED
        BY <1>1, <2>1, <2>2, <3>1, EditorGoesOn
    <2>5. CASE call.kind = "reload"
      BY <1>1, <2>1, <2>2, <2>5, EditorGoesOn DEF EditorIInv, EditorIntentIsCovered, EditorCovers
    <2> QED
      BY <2>1, <2>3, <2>4, <2>5
  <1>5. CASE Editor!ConflictReceived
    <2>1. /\ editor' = Editor!Conflicting /\ call' = Editor!Idle
               /\ UNCHANGED <<branch, workspace, lateCall, origin>>
      BY <1>5 DEF Editor!ConflictReceived
    <2> QED
      BY <1>1, <2>1, EditorReducerTypes, EditorGoesOn
  <1>6. CASE Editor!Fails
    <2>1. /\ Editor!Busy /\ call' = Editor!Idle /\ UNCHANGED <<branch, workspace, origin>>
          /\ editor' = editor \/ editor' = Editor!Failed
          /\ lateCall' = lateCall \/ (lateCall' = call /\ call.kind \in EditorMutations)
      BY <1>6 DEF Editor!Fails, Editor!Unanswered, EditorMutations
    <2>2. lateCall' = Editor!Idle \/ (EditorIsRequest(lateCall)'
            /\ lateCall'.kind \in EditorMutations)
      BY <1>1, <2>1 DEF EditorIsRequest
    <2>3. CASE editor' = editor
      BY <1>1, <2>1, <2>2, <2>3, EditorGoesOn DEF EditorIInv, EditorIntentIsCovered, EditorCovers
    <2>4. CASE editor' = Editor!Failed
      BY <1>1, <2>1, <2>2, <2>4, EditorReducerTypes, EditorGoesOn
    <2> QED
      BY <2>1, <2>3, <2>4
  <1> QED
    BY <1>2, <1>3, <1>4, <1>5, <1>6 DEF Editor!AnswerStep

-----------------------------------------------------------------------------
(* What the runs check of the editor.                                      *)

\* Between steps, and beside the editor, nothing changes.
LEMMA EditorStutterKeeps ==
    ASSUME EditorIInv, UNCHANGED Editor!vars
    PROVE  EditorIInv'
  BY DEF Editor!vars, EditorIInv, EditorTypeOK, EditorIsRequest, EditorIntentIsCovered,
           EditorCovers, Editor!Busy, EditorAnswerIsRight, EditorIsDone,
     Editor!CommandsCommitOnce

THEOREM EditorIsSound ==
    ASSUME Editor!EditorConstants
    PROVE  Editor!Spec => []EditorIInv
  <1>1. Editor!Init => EditorIInv
    <2> SUFFICES ASSUME Editor!Init PROVE EditorIInv
      OBVIOUS
    <2>1. Editor!Session(0) \in Editors /\ Editor!Session(0).phase = "clean"
      BY DEF Editor!Session, Editors
    <2>2. EditorTypeOK
      BY <2>1 DEF Editor!Init, EditorTypeOK
    <2> QED
      BY <2>1, <2>2 DEF Editor!Init, EditorIInv, EditorIntentIsCovered, Editor!CommandsCommitOnce,
           Editor!Busy
  <1>2. EditorIInv /\ [Editor!Next]_(Editor!vars) => EditorIInv'
    BY EditorUserKeeps, EditorServerKeeps, EditorAnswersKeep, EditorStutterKeeps
         DEF Editor!Next, Editor!EditorConstants
  <1> QED
    BY <1>1, <1>2, PTL DEF Editor!Spec

\* No command gets on the branch twice, whatever answers were lost.
THEOREM EditorCommandsStayCommittedOnce ==
    ASSUME Editor!EditorConstants
    PROVE  Editor!Spec => []Editor!CommandsCommitOnce
  <1>1. EditorIInv => Editor!CommandsCommitOnce
    BY DEF EditorIInv
  <1> QED
    BY <1>1, EditorIsSound, PTL

\* A pending command leaves the session only onto the branch or by its user.
THEOREM EditorIntentStaysKept ==
    ASSUME Editor!EditorConstants
    PROVE  Editor!Spec => Editor!IntentIsKept
  <1>1. EditorIInv /\ [Editor!Next]_(Editor!vars) => [Editor!IntentStep]_(Editor!vars)
    BY EditorUserKeeps, EditorServerKeeps, EditorAnswersKeep DEF Editor!Next, Editor!EditorConstants
  <1> QED
    BY <1>1, EditorIsSound, PTL DEF Editor!Spec, Editor!IntentIsKept

-----------------------------------------------------------------------------
(* The inductive invariant of the specifications.                          *)

SpecSnapshotRows == [version : Nat, content : Seq(Specs!Changes)]

\* A snapshot is a working snapshot, with nothing changed yet, or one of a
\* branch; the profile points to one, and jobs are on one or on their own.
SpecSnapshotsInv ==
    /\ snapshots \in [DOMAIN snapshots -> SpecSnapshotRows]
    /\ \A id \in DOMAIN snapshots :
          \/ id[2] = 0 /\ \E j \in DesignJobs : id = <<j, 0>> /\ Specs!Content(id) = <<>>
          \/ \E o \in DOMAIN branches : \E r \in 1..branches[o].revision : id = <<o, r>>
    /\ profile = None \/ profile \in DOMAIN snapshots
    /\ base = [j \in DesignJobs |-> base[j]]
    /\ \A j \in DesignJobs : base[j] = None \/ base[j] \in DOMAIN snapshots \/ base[j] = <<j, 0>>

\* A branch has a source, and its head is the last of its snapshots.
SpecBranchInv(o) ==
    /\ branches[o].revision \in Nat \ {0}
    /\ branches[o] = [source |-> branches[o].source, head |-> <<o, branches[o].revision>>,
                      revision |-> branches[o].revision]
    /\ branches[o].source \in DOMAIN snapshots
    /\ \A r \in 1..branches[o].revision : <<o, r>> \in DOMAIN snapshots

SpecBranchesInv == DOMAIN branches \subseteq Options /\ \A o \in DOMAIN branches : SpecBranchInv(o)

\* The first snapshot of a branch has what the option placed.
SpecFirstsInv == \A o \in DOMAIN branches : Specs!AssetIn(o, Specs!Content(<<o, 1>>)) = None

SpecModelInv == SpecSnapshotsInv /\ SpecBranchesInv /\ SpecFirstsInv

SpecRevisionRows == [branchRevision : Nat, snapshot : Options \X Nat, asset : Assets \cup {None}]

\* What a revision of a specification pins is on its branch.
SpecInv(o) ==
    /\ specs[o] \in Seq(SpecRevisionRows) /\ Len(specs[o]) > 0
    /\ \A r \in 1..Len(specs[o]) :
          /\ specs[o][r].branchRevision \in 1..branches[o].revision
          /\ specs[o][r].snapshot = <<o, specs[o][r].branchRevision>>
          /\ specs[o][r].asset = Specs!AssetIn(o, Specs!Content(specs[o][r].snapshot))

SpecsInv == DOMAIN specs \subseteq DOMAIN branches /\ \A o \in DOMAIN specs : SpecInv(o)

SpecPreviewRows ==
    [spec : Options, specRevision : Nat, branchRevision : Nat, base : Options \X Nat,
     asset : Assets, state : {"pending", "confirmed"}]

\* The confirmation of a preview is the revision after it.
SpecIsConfirmed(preview) ==
    LET confirmed == specs[preview.spec][preview.specRevision + 1]
    IN  /\ preview.specRevision + 1 <= Len(specs[preview.spec])
        /\ confirmed.branchRevision = preview.branchRevision + 1
        /\ Specs!Content(confirmed.snapshot) =
               Append(Specs!Content(preview.base), Specs!Replacement(preview.spec, preview.asset))

\* A preview is of a revision and a snapshot there are.
SpecPreviewInv(preview) ==
    /\ preview.spec \in DOMAIN specs
    /\ preview.specRevision \in 1..Len(specs[preview.spec])
    /\ preview.branchRevision \in 1..branches[preview.spec].revision
    /\ preview.base = <<preview.spec, preview.branchRevision>>
    /\ preview.state = "confirmed" => SpecIsConfirmed(preview)

SpecPreviewsInv ==
    /\ previews \in Seq(SpecPreviewRows)
    /\ \A p \in 1..Len(previews) : SpecPreviewInv(previews[p])

SpecRequestRows ==
    {Specs!Idle} \cup [phase : {"requesting", "retrying", "recording", "noting", "excusing"},
      preview : Nat]

\* A link is of a confirmed preview, a scene is of a link and its snapshot, and a
\* request that goes on to record a scene knows of one.
SpecLinksInv ==
    /\ \A p \in DOMAIN links :
          /\ p \in 1..Len(previews) /\ previews[p].state = "confirmed"
          /\ links[p] = "requested" => p \in DOMAIN scenes
    /\ \A p \in DOMAIN scenes : p \in DOMAIN links /\ scenes[p] = Specs!SceneSnapshot(p)
    /\ request \in [SceneCalls -> SpecRequestRows]
    /\ \A q \in SceneCalls :
          /\ request[q] # Specs!Idle => request[q].preview \in DOMAIN links
          /\ request[q].phase \in {"recording", "noting"} => request[q].preview \in DOMAIN scenes

SpecIInv == SpecModelInv /\ SpecsInv /\ SpecPreviewsInv /\ SpecLinksInv

-----------------------------------------------------------------------------
(* What a step may do to the model, and to what is made of it.             *)

SpecModelGrows ==
    /\ \A id \in DOMAIN snapshots : id \in DOMAIN snapshots' /\ snapshots'[id] = snapshots[id]
    /\ \A o \in DOMAIN branches :
          /\ o \in DOMAIN branches' /\ branches'[o].source = branches[o].source
          /\ branches'[o].revision \in Nat /\ branches[o].revision <= branches'[o].revision

SpecsGrow ==
    \A o \in DOMAIN specs :
        /\ o \in DOMAIN specs' /\ Len(specs'[o]) \in Nat /\ Len(specs[o]) <= Len(specs'[o])
        /\ \A r \in 1..Len(specs[o]) : specs'[o][r] = specs[o][r]

\* A change to an element is the last one of it.
LEMMA SpecAssetOfLastChange ==
    ASSUME NEW Kind, NEW content \in Seq(Kind), NEW o, NEW item
    PROVE  Specs!AssetIn(o, Append(content, <<o, item>>)) = item
  <1> DEFINE longer == Append(content, <<o, item>>)
             n == Len(content) + 1
  <1>1. DOMAIN longer = 1..n /\ longer[n] = <<o, item>> /\ n \in Nat /\ n > 0
    OBVIOUS
  <1> HIDE DEF longer, n
  <1>2. longer[n][1] = o /\ \A k \in DOMAIN longer : k > n => longer[k][1] # o
    <2>1. longer[n][1] = o
      BY <1>1
    <2> QED
      BY <1>1, <2>1
  <1>3. \A i \in DOMAIN longer :
           (longer[i][1] = o /\ \A k \in DOMAIN longer : k > i => longer[k][1] # o) => i = n
    <2> SUFFICES ASSUME NEW i \in 1..n, i # n
                 PROVE  \E k \in DOMAIN longer : k > i /\ longer[k][1] = o
      BY <1>1
    <2>1. n \in DOMAIN longer /\ n > i
      BY <1>1
    <2> QED
      BY <1>2, <2>1
  <1>4. n \in DOMAIN longer
    BY <1>1
  <1>5. Specs!LastChange(o, longer) = n
    BY <1>2, <1>3, <1>4 DEF Specs!LastChange
  <1>6. Specs!AssetIn(o, longer) = item
    BY <1>1, <1>5 DEF Specs!AssetIn
  <1> QED
    BY <1>6 DEF longer

\* A commit makes a snapshot and moves a branch to it.
LEMMA SpecCommitGrows ==
    ASSUME SpecModelInv, NEW o \in DOMAIN branches, NEW change \in Specs!Changes, UNCHANGED base,
           Specs!Commit(snapshots, o, branches[o], Append(Specs!Content(branches[o].head), change))
    PROVE  /\ SpecModelInv' /\ SpecModelGrows /\ DOMAIN branches' = DOMAIN branches
           /\ branches'[o].revision = branches[o].revision + 1
           /\ \A b \in DOMAIN branches : b # o => branches'[b] = branches[b]
           /\ snapshots'[<<o, branches[o].revision + 1>>].content
                 = Append(Specs!Content(branches[o].head), change)
  <1>1. PICK n \in Nat : n = branches[o].revision + 1
    BY DEF SpecModelInv, SpecBranchesInv, SpecBranchInv
  <1>2. PICK content : content = Append(Specs!Content(branches[o].head), change)
    OBVIOUS
  <1>3. PICK version : version = Specs!NextVersion(snapshots, profile)
    OBVIOUS
  <1> DEFINE id == <<o, n>>
             row == [version |-> version, content |-> content]
  <1>4. /\ branches[o].revision \in Nat /\ branches[o].revision # 0 /\ n # 0 /\ o \in Options
        /\ branches[o] = [source |-> branches[o].source, head |-> branches[o].head,
                          revision |-> branches[o].revision]
        /\ branches[o].head = <<o, branches[o].revision>>
        /\ branches[o].head \in DOMAIN snapshots
    BY <1>1 DEF SpecModelInv, SpecBranchesInv, SpecBranchInv
  <1>5. /\ snapshots' = Specs!Put(snapshots, id, row) /\ profile' = id
        /\ branches' = Specs!Put(branches, o, [branches[o] EXCEPT !.head = id, !.revision = n])
    BY <1>1, <1>2, <1>3, <1>4 DEF Specs!Commit
  <1>6. row \in SpecSnapshotRows /\ row.content = content
    <2>1. snapshots \in [DOMAIN snapshots -> SpecSnapshotRows]
          /\ (profile = None \/ profile \in DOMAIN snapshots)
      BY DEF SpecModelInv, SpecSnapshotsInv
    <2>2. \A x \in DOMAIN snapshots :
             snapshots[x].version \in Nat /\ snapshots[x].content \in Seq(Specs!Changes)
      <3> HIDE DEF Specs!Changes
      <3> QED
        BY <2>1 DEF SpecSnapshotRows
    <2>3. version \in Nat
      BY <1>3, <2>1, <2>2 DEF Specs!NextVersion
    <2>4. content \in Seq(Specs!Changes)
      <3> HIDE DEF Specs!Changes
      <3>1. snapshots[branches[o].head].content \in Seq(Specs!Changes)
        BY <1>4, <2>2
      <3> QED
        BY <1>2, <3>1, AppendProperties DEF Specs!Content
    <2> QED
      BY <2>3, <2>4 DEF SpecSnapshotRows
  <1>7. id \notin DOMAIN snapshots
    BY <1>1, <1>4 DEF SpecModelInv, SpecSnapshotsInv
  <1> HIDE DEF row
  <1>8. /\ DOMAIN snapshots' = DOMAIN snapshots \cup {id} /\ snapshots'[id] = row
        /\ \A x \in DOMAIN snapshots : snapshots'[x] = snapshots[x]
        /\ snapshots' \in [DOMAIN snapshots' -> SpecSnapshotRows]
    <2>1. snapshots \in [DOMAIN snapshots -> SpecSnapshotRows]
      BY DEF SpecModelInv, SpecSnapshotsInv
    <2> HIDE DEF SpecSnapshotRows
    <2> QED
      BY <1>5, <1>6, <1>7, <2>1 DEF Specs!Put
  <1>9. /\ DOMAIN branches' = DOMAIN branches
        /\ branches'[o] = [source |-> branches[o].source, head |-> id, revision |-> n]
        /\ \A b \in DOMAIN branches : b # o => branches'[b] = branches[b]
    BY <1>4, <1>5 DEF Specs!Put
  <1>10. SpecBranchesInv'
    <2> SUFFICES ASSUME NEW b \in DOMAIN branches PROVE SpecBranchInv(b)'
      BY <1>9 DEF SpecBranchesInv, SpecModelInv
    <2>1. SpecBranchInv(b)
      BY DEF SpecModelInv, SpecBranchesInv
    <2>2. CASE b = o
      <3>1. \A r \in 1..n : <<o, r>> \in DOMAIN snapshots'
        BY <1>1, <1>4, <1>8, <2>1, <2>2 DEF SpecBranchInv
      <3> QED
        BY <1>4, <1>8, <1>9, <2>1, <2>2, <3>1 DEF SpecBranchInv
    <2>3. CASE b # o
      BY <1>8, <1>9, <2>1, <2>3 DEF SpecBranchInv
    <2> QED
      BY <2>2, <2>3
  <1>11. SpecSnapshotsInv'
    <2>1. ASSUME NEW x \in DOMAIN snapshots'
          PROVE  \/ x[2] = 0 /\ \E j \in DesignJobs : x = <<j, 0>> /\ snapshots'[x].content = <<>>
                 \/ \E b \in DOMAIN branches' : \E r \in 1..branches'[b].revision : x = <<b, r>>
      <3>1. CASE x = id
        <4>1. branches'[o].revision = n /\ n \in 1..n /\ o \in DOMAIN branches'
          BY <1>1, <1>4, <1>9
        <4> QED
          BY <3>1, <4>1
      <3>2. CASE x # id
        <4>1. x \in DOMAIN snapshots /\ snapshots'[x] = snapshots[x]
          BY <1>8, <3>2
        <4>2. \A b \in DOMAIN branches : 1..branches[b].revision \subseteq 1..branches'[b].revision
          <5> TAKE b \in DOMAIN branches
          <5>1. branches[b].revision \in Nat
            BY DEF SpecModelInv, SpecBranchesInv, SpecBranchInv
          <5> QED
            BY <1>1, <1>4, <1>9, <5>1
        <4> QED
          BY <1>9, <4>1, <4>2 DEF SpecModelInv, SpecSnapshotsInv, Specs!Content
      <3> QED
        BY <3>1, <3>2
    <2> QED
      BY <1>5, <1>8, <2>1 DEF SpecSnapshotsInv, SpecModelInv, Specs!Content
  <1>12. SpecModelGrows
    <2> SUFFICES ASSUME NEW b \in DOMAIN branches
                 PROVE  /\ b \in DOMAIN branches' /\ branches'[b].source = branches[b].source
                        /\ branches'[b].revision \in Nat
                        /\ branches[b].revision <= branches'[b].revision
      BY <1>8 DEF SpecModelGrows
    <2>1. branches[b].revision \in Nat
      BY DEF SpecModelInv, SpecBranchesInv, SpecBranchInv
    <2> QED
      BY <1>1, <1>4, <1>9, <2>1
  <1>13. SpecFirstsInv'
    <2> SUFFICES ASSUME NEW b \in DOMAIN branches
                 PROVE  Specs!AssetIn(b, snapshots'[<<b, 1>>].content) = None
      BY <1>9 DEF SpecFirstsInv, Specs!Content
    <2>1. <<b, 1>> \in DOMAIN snapshots
      BY DEF SpecModelInv, SpecBranchesInv, SpecBranchInv
    <2>2. snapshots'[<<b, 1>>] = snapshots[<<b, 1>>]
      BY <1>8, <2>1
    <2> QED
      BY <2>2 DEF SpecModelInv, SpecFirstsInv, Specs!Content
  <1> QED
    BY <1>1, <1>2, <1>6, <1>8, <1>9, <1>10, <1>11, <1>12, <1>13 DEF SpecModelInv

\* The confirmation of an option makes a branch, of a working snapshot that it
\* may have to seed.
LEMMA SpecConfirmOptionGrows ==
    ASSUME Specs!SpecificationConstants, SpecModelInv, NEW o \in Options, Specs!ConfirmOption(o)
    PROVE  /\ SpecModelInv' /\ SpecModelGrows
           /\ DOMAIN branches' = DOMAIN branches \cup {o} /\ o \notin DOMAIN branches
           /\ \A b \in DOMAIN branches : branches'[b] = branches[b]
           /\ branches'[o].revision = 1
           /\ \A id \in DOMAIN snapshots' :
                 id \in DOMAIN snapshots \cup {<<o, 1>>} \/ snapshots'[id].content = <<>>
           /\ \E content \in Seq(Specs!Changes) :
                 /\ snapshots'[branches'[o].source].content = content
                 /\ snapshots'[<<o, 1>>].content = Append(content, Specs!Bundle(o))
                 /\ branches'[o].source \in DOMAIN snapshots \/ content = <<>>
  <1>1. PICK j \in DesignJobs : j = JobOf[o]
    BY DEF Specs!SpecificationConstants
  <1>2. PICK source : source = base[j]
    OBVIOUS
  <1> DEFINE table == Specs!Seeded(source)
             id == <<o, 1>>
  <1>3. \A x \in DOMAIN snapshots :
             snapshots[x].version \in Nat /\ snapshots[x].content \in Seq(Specs!Changes)
    <2>1. snapshots \in [DOMAIN snapshots -> SpecSnapshotRows]
      BY DEF SpecModelInv, SpecSnapshotsInv
    <2> HIDE DEF Specs!Changes
    <2> QED
      BY <2>1 DEF SpecSnapshotRows
  <1>4. source \in DOMAIN snapshots
          \/ (source \notin DOMAIN snapshots /\ source = <<j, 0>> /\ profile = None)
    BY <1>1, <1>2 DEF Specs!ConfirmOption, Specs!BaseIsFree, SpecModelInv, SpecSnapshotsInv
  <1>5. /\ DOMAIN table = DOMAIN snapshots \cup {source}
        /\ \A x \in DOMAIN snapshots : table[x] = snapshots[x]
        /\ table[source].version \in Nat /\ table[source].content \in Seq(Specs!Changes)
        /\ source \notin DOMAIN snapshots => table[source].content = <<>> /\ source = <<j, 0>>
    <2>1. CASE source \in DOMAIN snapshots
      BY <1>3, <2>1 DEF Specs!Seeded
    <2>2. CASE source \notin DOMAIN snapshots
      <3>1. table = Specs!Put(snapshots, source, [version |-> 1, content |-> <<>>])
        BY <2>2 DEF Specs!Seeded
      <3>2. <<>> \in Seq(Specs!Changes)
        <4> HIDE DEF Specs!Changes
        <4> QED
          OBVIOUS
      <3>3. /\ DOMAIN table = DOMAIN snapshots \cup {source}
            /\ table[source] = [version |-> 1, content |-> <<>>]
            /\ \A x \in DOMAIN snapshots : table[x] = snapshots[x]
        BY <2>2, <3>1 DEF Specs!Put
      <3> HIDE DEF table
      <3>4. table[source].version = 1 /\ table[source].content = <<>>
        BY <3>3
      <3> QED
        BY <1>4, <2>2, <3>2, <3>3, <3>4
    <2> QED
      BY <2>1, <2>2
  <1>6. PICK c \in Seq(Specs!Changes) : c = table[source].content
    BY <1>5
  <1>7. PICK version \in Nat : version = Specs!NextVersion(table, IF profile = None THEN source
          ELSE profile)
    <2>1. profile # None => profile \in DOMAIN snapshots
      BY DEF SpecModelInv, SpecSnapshotsInv
    <2>2. Specs!NextVersion(table, IF profile = None THEN source ELSE profile) \in Nat
      BY <1>3, <1>5, <2>1 DEF Specs!NextVersion
    <2> QED
      BY <2>2
  <1> HIDE DEF table
  <1> DEFINE row == [version |-> version, content |-> Append(c, Specs!Bundle(o))]
  <1>8. /\ o \notin DOMAIN branches /\ base' = base /\ profile' = id
        /\ snapshots' = Specs!Put(table, id, row)
        /\ branches' = Specs!Put(branches, o, [source |-> source, head |-> id, revision |-> 1])
    BY <1>1, <1>2, <1>6, <1>7 DEF Specs!ConfirmOption, Specs!BaseContent, table
  <1>9. row \in SpecSnapshotRows /\ row.content = Append(c, Specs!Bundle(o))
    <2>1. Specs!Bundle(o) \in Specs!Changes
      BY DEF Specs!Bundle, Specs!Changes
    <2> HIDE DEF Specs!Changes
    <2>2. Append(c, Specs!Bundle(o)) \in Seq(Specs!Changes)
      BY <1>6, <2>1, AppendProperties
    <2> QED
      BY <1>7, <2>2 DEF SpecSnapshotRows
  <1>10. id \notin DOMAIN snapshots /\ id # source
    <2>1. id \notin DOMAIN snapshots
      BY <1>8 DEF SpecModelInv, SpecSnapshotsInv
    <2> QED
      BY <1>5, <2>1
  <1> HIDE DEF row
  <1>11. /\ DOMAIN snapshots' = DOMAIN snapshots \cup {source, id}
         /\ snapshots'[id] = row /\ snapshots'[source].content = c
         /\ \A x \in DOMAIN snapshots : snapshots'[x] = snapshots[x]
         /\ snapshots' \in [DOMAIN snapshots' -> SpecSnapshotRows]
    <2>1. snapshots \in [DOMAIN snapshots -> SpecSnapshotRows]
      BY DEF SpecModelInv, SpecSnapshotsInv
    <2>2. table[source] \in SpecSnapshotRows
      <3>1. CASE source \in DOMAIN snapshots
        BY <1>5, <2>1, <3>1
      <3>2. CASE source \notin DOMAIN snapshots
        <4>1. table[source] = [version |-> 1, content |-> <<>>]
          BY <3>2 DEF table, Specs!Seeded, Specs!Put
        <4> QED
          BY <4>1 DEF SpecSnapshotRows
      <3> QED
        BY <3>1, <3>2
    <2> HIDE DEF SpecSnapshotRows
    <2>3. /\ DOMAIN snapshots' = DOMAIN table \cup {id} /\ snapshots'[id] = row
          /\ \A x \in DOMAIN table : x # id => snapshots'[x] = table[x]
          /\ snapshots' = [x \in DOMAIN snapshots' |-> snapshots'[x]]
      BY <1>8 DEF Specs!Put
    <2>4. \A x \in DOMAIN snapshots' : snapshots'[x] \in SpecSnapshotRows
      BY <1>5, <1>9, <2>1, <2>2, <2>3
    <2> QED
      BY <1>5, <1>6, <1>10, <2>3, <2>4
  <1>12. /\ DOMAIN branches' = DOMAIN branches \cup {o}
         /\ branches'[o] = [source |-> source, head |-> id, revision |-> 1]
         /\ \A b \in DOMAIN branches : branches'[b] = branches[b]
    BY <1>8 DEF Specs!Put
  <1>13. SpecBranchesInv'
    <2> SUFFICES ASSUME NEW b \in DOMAIN branches' PROVE SpecBranchInv(b)'
      BY <1>12 DEF SpecBranchesInv, SpecModelInv
    <2>1. CASE b = o
      <3>1. \A r \in 1..1 : r = 1
        OBVIOUS
      <3> QED
        BY <1>11, <1>12, <2>1, <3>1 DEF SpecBranchInv
    <2>2. CASE b # o
      <3>1. b \in DOMAIN branches /\ SpecBranchInv(b)
        BY <1>12, <2>2 DEF SpecModelInv, SpecBranchesInv
      <3> QED
        BY <1>11, <1>12, <3>1 DEF SpecBranchInv
    <2> QED
      BY <2>1, <2>2
  <1>14. SpecSnapshotsInv'
    <2>1. ASSUME NEW x \in DOMAIN snapshots'
          PROVE  \/ x[2] = 0 /\ \E k \in DesignJobs : x = <<k, 0>> /\ snapshots'[x].content = <<>>
                 \/ \E b \in DOMAIN branches' : \E r \in 1..branches'[b].revision : x = <<b, r>>
      <3>1. CASE x = id
        <4>1. branches'[o].revision = 1 /\ 1 \in 1..1 /\ o \in DOMAIN branches'
          BY <1>12
        <4> QED
          BY <3>1, <4>1
      <3>2. CASE x \in DOMAIN snapshots
        <4>1. snapshots'[x] = snapshots[x]
          BY <1>11, <3>2
        <4> QED
          BY <1>12, <3>2, <4>1 DEF SpecModelInv, SpecSnapshotsInv, Specs!Content
      <3>3. CASE x = source /\ x \notin DOMAIN snapshots
        <4>1. source = <<j, 0>> /\ c = <<>>
          BY <1>5, <1>6, <3>3
        <4>2. x = <<j, 0>> /\ snapshots'[x].content = <<>>
          BY <1>11, <3>3, <4>1
        <4> QED
          BY <1>1, <4>2
      <3> QED
        BY <1>11, <3>1, <3>2, <3>3
    <2> QED
      BY <1>8, <1>11, <2>1 DEF SpecSnapshotsInv, SpecModelInv, Specs!Content
  <1>15. SpecModelGrows
    BY <1>11, <1>12 DEF SpecModelGrows, SpecModelInv, SpecBranchesInv, SpecBranchInv
  <1>16. \A x \in DOMAIN snapshots' :
            x \in DOMAIN snapshots \cup {id} \/ snapshots'[x].content = <<>>
    BY <1>5, <1>6, <1>11
  <1>17. source \in DOMAIN snapshots \/ c = <<>>
    BY <1>5, <1>6
  <1>18. \E content \in Seq(Specs!Changes) :
            /\ snapshots'[branches'[o].source].content = content
            /\ snapshots'[<<o, 1>>].content = Append(content, Specs!Bundle(o))
            /\ branches'[o].source \in DOMAIN snapshots \/ content = <<>>
    <2>1. branches'[o].source = source
      BY <1>12
    <2>2. snapshots'[<<o, 1>>].content = Append(c, Specs!Bundle(o))
            /\ snapshots'[source].content = c
      BY <1>9, <1>11
    <2> WITNESS c \in Seq(Specs!Changes)
    <2> QED
      BY <1>17, <2>1, <2>2
  <1>19. /\ DOMAIN branches' = DOMAIN branches \cup {o} /\ o \notin DOMAIN branches
         /\ \A b \in DOMAIN branches : branches'[b] = branches[b]
         /\ branches'[o].revision = 1
    <2>1. branches'[o].revision = 1
      BY <1>12
    <2>2. o \notin DOMAIN branches
      BY <1>8
    <2> QED
      BY <1>12, <2>1, <2>2, Zenon
  <1>20. SpecFirstsInv'
    <2> SUFFICES ASSUME NEW b \in DOMAIN branches'
                 PROVE  Specs!AssetIn(b, snapshots'[<<b, 1>>].content) = None
      BY DEF SpecFirstsInv, Specs!Content
    <2>1. CASE b = o
      <3>1. snapshots'[<<b, 1>>].content = Append(c, <<o, None>>)
        BY <1>9, <1>11, <2>1 DEF Specs!Bundle
      <3> HIDE DEF Specs!Changes
      <3>2. Specs!AssetIn(o, Append(c, <<o, None>>)) = None
        BY SpecAssetOfLastChange
      <3> QED
        BY <2>1, <3>1, <3>2
    <2>2. CASE b # o
      <3>1. b \in DOMAIN branches
        BY <1>12, <2>2
      <3>2. <<b, 1>> \in DOMAIN snapshots
        BY <3>1 DEF SpecModelInv, SpecBranchesInv, SpecBranchInv
      <3>3. snapshots'[<<b, 1>>] = snapshots[<<b, 1>>]
        BY <1>11, <3>2
      <3> QED
        BY <3>1, <3>3 DEF SpecModelInv, SpecFirstsInv, Specs!Content
    <2> QED
      BY <2>1, <2>2
  <1>21. SpecModelInv'
    BY <1>13, <1>14, <1>20 DEF SpecModelInv
  <1> QED
    BY <1>15, <1>16, <1>18, <1>19, <1>21, Zenon

-----------------------------------------------------------------------------
(* What stays when the model grows.                                        *)

\* Snapshots of a branch are there.
LEMMA SpecBranchSnapshots ==
    ASSUME SpecModelInv, NEW o \in DOMAIN branches, NEW r \in 1..branches[o].revision
    PROVE  r \in Nat /\ r # 0 /\ o \in Options /\ <<o, r>> \in DOMAIN snapshots
  BY DEF SpecModelInv, SpecBranchesInv, SpecBranchInv

\* Revisions of specifications are right of a model that has grown.
LEMMA SpecsStay ==
    ASSUME SpecModelInv, SpecsInv, SpecModelGrows, NEW o \in DOMAIN specs,
             NEW r \in 1..Len(specs[o])
    PROVE  /\ specs[o][r].branchRevision \in 1..branches'[o].revision
           /\ specs[o][r].snapshot = <<o, specs[o][r].branchRevision>>
           /\ specs[o][r].asset = Specs!AssetIn(o, snapshots'[specs[o][r].snapshot].content)
           /\ specs[o][r].snapshot \in DOMAIN snapshots
  <1>1. /\ o \in DOMAIN branches
        /\ specs[o][r].branchRevision \in 1..branches[o].revision
        /\ specs[o][r].snapshot = <<o, specs[o][r].branchRevision>>
        /\ specs[o][r].asset = Specs!AssetIn(o, Specs!Content(specs[o][r].snapshot))
    BY DEF SpecsInv, SpecInv
  <1>2. specs[o][r].snapshot \in DOMAIN snapshots
    BY <1>1 DEF SpecModelInv, SpecBranchesInv, SpecBranchInv
  <1>3. branches[o].revision \in Nat /\ branches'[o].revision \in Nat
        /\ branches[o].revision <= branches'[o].revision
    BY <1>1 DEF SpecModelGrows, SpecModelInv, SpecBranchesInv, SpecBranchInv
  <1> QED
    BY <1>1, <1>2, <1>3 DEF SpecModelGrows, Specs!Content

\* A preview is right of specifications and a model that have grown.
LEMMA SpecPreviewStays ==
    ASSUME SpecModelInv, SpecsInv, SpecModelGrows, SpecsGrow, NEW preview, SpecPreviewInv(preview)
    PROVE  SpecPreviewInv(preview)'
  <1> DEFINE o == preview.spec
             r == preview.specRevision
  <1>1. /\ o \in DOMAIN specs /\ o \in DOMAIN branches /\ r \in 1..Len(specs[o])
        /\ preview.branchRevision \in 1..branches[o].revision
        /\ preview.base = <<o, preview.branchRevision>>
        /\ preview.state = "confirmed" => SpecIsConfirmed(preview)
    BY DEF SpecPreviewInv, SpecsInv
  <1>2. /\ o \in DOMAIN specs' /\ Len(specs[o]) \in Nat /\ Len(specs'[o]) \in Nat
        /\ Len(specs[o]) <= Len(specs'[o])
        /\ \A i \in 1..Len(specs[o]) : specs'[o][i] = specs[o][i]
    BY <1>1 DEF SpecsGrow, SpecsInv, SpecInv
  <1>3. branches[o].revision \in Nat /\ branches'[o].revision \in Nat
        /\ branches[o].revision <= branches'[o].revision
    BY <1>1 DEF SpecModelGrows, SpecModelInv, SpecBranchesInv, SpecBranchInv
  <1>4. preview.base \in DOMAIN snapshots
    BY <1>1, SpecBranchSnapshots
  <1>5. ASSUME preview.state = "confirmed" PROVE SpecIsConfirmed(preview)'
    <2>1. /\ r + 1 <= Len(specs[o]) /\ r + 1 \in 1..Len(specs[o])
          /\ specs[o][r + 1].branchRevision = preview.branchRevision + 1
          /\ Specs!Content(specs[o][r + 1].snapshot) = Append(Specs!Content(preview.base),
               Specs!Replacement(o, preview.asset))
      <3>1. SpecIsConfirmed(preview)
        BY <1>1, <1>5
      <3>2. r + 1 <= Len(specs[o])
        BY <3>1 DEF SpecIsConfirmed
      <3>3. r + 1 \in 1..Len(specs[o])
        BY <1>1, <1>2, <3>2
      <3> QED
        BY <3>1, <3>2, <3>3 DEF SpecIsConfirmed
    <2>2. specs[o][r + 1].snapshot \in DOMAIN snapshots
      BY <1>1, <2>1, SpecsStay
    <2>3. specs'[o][r + 1] = specs[o][r + 1] /\ r + 1 <= Len(specs'[o])
      BY <1>1, <1>2, <2>1
    <2>4. /\ snapshots'[specs[o][r + 1].snapshot] = snapshots[specs[o][r + 1].snapshot]
          /\ snapshots'[preview.base] = snapshots[preview.base]
      BY <1>4, <2>2 DEF SpecModelGrows
    <2> QED
      BY <2>1, <2>3, <2>4 DEF SpecIsConfirmed, Specs!Content
  <1> QED
    BY <1>1, <1>2, <1>3, <1>5 DEF SpecPreviewInv

\* Specifications that are as they were are right of a model that has grown.
LEMMA SpecsKeep ==
    ASSUME SpecModelInv, SpecsInv, SpecModelGrows, specs' = specs
    PROVE  SpecsInv' /\ SpecsGrow
  <1>1. ASSUME NEW o \in DOMAIN specs PROVE SpecInv(o)'
    <2>1. \A r \in 1..Len(specs[o]) :
             /\ specs[o][r].branchRevision \in 1..branches'[o].revision
             /\ specs[o][r].snapshot = <<o, specs[o][r].branchRevision>>
             /\ specs[o][r].asset = Specs!AssetIn(o, snapshots'[specs[o][r].snapshot].content)
      BY SpecsStay
    <2>2. specs[o] \in Seq(SpecRevisionRows) /\ Len(specs[o]) > 0
      BY DEF SpecsInv, SpecInv
    <2> QED
      BY <2>1, <2>2 DEF SpecInv, Specs!Content
  <1>2. DOMAIN specs \subseteq DOMAIN branches'
    BY DEF SpecsInv, SpecModelGrows
  <1>3. SpecsGrow
    <2> SUFFICES ASSUME NEW o \in DOMAIN specs PROVE Len(specs[o]) \in Nat
      BY DEF SpecsGrow
    <2> QED
      BY DEF SpecsInv, SpecInv
  <1> QED
    BY <1>1, <1>2, <1>3 DEF SpecsInv

\* Specifications of which one has a revision more, which is right.
LEMMA SpecRevisionKeeps ==
    ASSUME SpecModelInv, SpecsInv, SpecModelGrows, NEW o \in DOMAIN specs,
           NEW revision \in SpecRevisionRows,
           specs' = [specs EXCEPT ![o] = Append(@, revision)],
           revision.branchRevision \in 1..branches'[o].revision,
           revision.snapshot = <<o, revision.branchRevision>>,
           revision.asset = Specs!AssetIn(o, snapshots'[revision.snapshot].content)
    PROVE  /\ SpecsInv' /\ SpecsGrow
           /\ Len(specs'[o]) = Len(specs[o]) + 1 /\ specs'[o][Len(specs[o]) + 1] = revision
  <1>1. specs[o] \in Seq(SpecRevisionRows) /\ Len(specs[o]) > 0 /\ Len(specs[o]) \in Nat
    BY DEF SpecsInv, SpecInv
  <1>2. /\ DOMAIN specs' = DOMAIN specs /\ specs'[o] = Append(specs[o], revision)
        /\ \A b \in DOMAIN specs : b # o => specs'[b] = specs[b]
    OBVIOUS
  <1>3. /\ specs'[o] \in Seq(SpecRevisionRows) /\ Len(specs'[o]) = Len(specs[o]) + 1
        /\ specs'[o][Len(specs[o]) + 1] = revision
        /\ \A r \in 1..Len(specs[o]) : specs'[o][r] = specs[o][r]
    BY <1>1, <1>2, AppendProperties
  <1>4. ASSUME NEW b \in DOMAIN specs PROVE SpecInv(b)'
    <2>1. \A r \in 1..Len(specs[b]) :
             /\ specs[b][r].branchRevision \in 1..branches'[b].revision
             /\ specs[b][r].snapshot = <<b, specs[b][r].branchRevision>>
             /\ specs[b][r].asset = Specs!AssetIn(b, snapshots'[specs[b][r].snapshot].content)
      BY SpecsStay
    <2>2. CASE b # o
      <3>1. specs[b] \in Seq(SpecRevisionRows) /\ Len(specs[b]) > 0
        BY DEF SpecsInv, SpecInv
      <3> QED
        BY <1>2, <2>1, <2>2, <3>1 DEF SpecInv, Specs!Content
    <2>3. CASE b = o
      <3> SUFFICES ASSUME NEW r \in 1..(Len(specs[o]) + 1)
                   PROVE  /\ specs'[o][r].branchRevision \in 1..branches'[o].revision
                          /\ specs'[o][r].snapshot = <<o, specs'[o][r].branchRevision>>
                          /\ specs'[o][r].asset = Specs!AssetIn(o,
                               snapshots'[specs'[o][r].snapshot].content)
        BY <1>1, <1>3, <2>3 DEF SpecInv, Specs!Content
      <3>1. CASE r = Len(specs[o]) + 1
        BY <1>3, <3>1
      <3>2. CASE r # Len(specs[o]) + 1
        <4>1. r \in 1..Len(specs[o])
          BY <1>1, <3>2
        <4> QED
          BY <1>3, <2>1, <2>3, <4>1
      <3> QED
        BY <3>1, <3>2
    <2> QED
      BY <2>2, <2>3
  <1>5. DOMAIN specs' \subseteq DOMAIN branches'
    BY <1>2 DEF SpecsInv, SpecModelGrows
  <1>6. SpecsGrow
    <2> SUFFICES ASSUME NEW b \in DOMAIN specs
                 PROVE  /\ b \in DOMAIN specs' /\ Len(specs'[b]) \in Nat
                             /\ Len(specs[b]) <= Len(specs'[b])
                        /\ \A r \in 1..Len(specs[b]) : specs'[b][r] = specs[b][r]
      BY DEF SpecsGrow
    <2>1. Len(specs[b]) \in Nat
      BY DEF SpecsInv, SpecInv
    <2> QED
      BY <1>1, <1>2, <1>3, <2>1
  <1> QED
    BY <1>2, <1>3, <1>4, <1>5, <1>6 DEF SpecsInv

\* So are previews that are as they were, and links and requests.
LEMMA SpecPreviewsKeep ==
    ASSUME SpecModelInv, SpecsInv, SpecPreviewsInv, SpecModelGrows, SpecsGrow, previews' = previews
    PROVE  SpecPreviewsInv'
  <1>1. \A p \in 1..Len(previews) : SpecPreviewInv(previews[p])'
    BY SpecPreviewStays DEF SpecPreviewsInv
  <1> QED
    BY <1>1 DEF SpecPreviewsInv

\* The scene of a link is of a revision that stays.
LEMMA SpecSceneStays ==
    ASSUME SpecModelInv, SpecsInv, SpecPreviewsInv, SpecsGrow, NEW p \in 1..Len(previews),
           previews[p].state = "confirmed", previews'[p] = previews[p]
    PROVE  Specs!SceneSnapshot(p)' = Specs!SceneSnapshot(p)
  <1> DEFINE o == previews[p].spec
             r == previews[p].specRevision
  <1>1. o \in DOMAIN specs /\ r \in 1..Len(specs[o]) /\ SpecIsConfirmed(previews[p])
    BY DEF SpecPreviewsInv, SpecPreviewInv
  <1>2. r + 1 <= Len(specs[o]) /\ Len(specs[o]) \in Nat
    BY <1>1 DEF SpecIsConfirmed, SpecsInv, SpecInv
  <1>3. r + 1 \in 1..Len(specs[o])
    BY <1>1, <1>2
  <1>4. specs'[o][r + 1] = specs[o][r + 1]
    BY <1>1, <1>3 DEF SpecsGrow
  <1> QED
    BY <1>4 DEF Specs!SceneSnapshot, Specs!ConfirmedRevision

LEMMA SpecLinksKeep ==
    ASSUME SpecModelInv, SpecsInv, SpecPreviewsInv, SpecLinksInv, SpecsGrow,
           Len(previews) <= Len(previews') /\ Len(previews') \in Nat,
           \A p \in 1..Len(previews) : previews'[p] = previews[p],
           UNCHANGED <<links, scenes, request>>
    PROVE  SpecLinksInv'
  <1>1. \A p \in DOMAIN links : p \in 1..Len(previews) /\ p \in 1..Len(previews')
    <2>1. Len(previews) \in Nat
      BY DEF SpecPreviewsInv
    <2> QED
      BY <2>1 DEF SpecLinksInv
  <1>2. \A p \in DOMAIN scenes : p \in DOMAIN links
          /\ Specs!SceneSnapshot(p)' = Specs!SceneSnapshot(p)
    BY <1>1, SpecSceneStays DEF SpecLinksInv
  <1> QED
    BY <1>1, <1>2 DEF SpecLinksInv

\* Nothing changes but what is beside the model.
LEMMA SpecModelStays ==
    ASSUME SpecModelInv, UNCHANGED <<Specs!model, base>>
    PROVE  SpecModelInv' /\ SpecModelGrows
  <1>1. snapshots' = snapshots /\ profile' = profile /\ branches' = branches /\ base' = base
    BY DEF Specs!model
  <1>2. SpecModelInv'
    BY <1>1 DEF SpecModelInv, SpecSnapshotsInv, SpecBranchesInv, SpecBranchInv, SpecFirstsInv,
                  Specs!Content
  <1>3. \A o \in DOMAIN branches : branches[o].revision \in Nat
    BY DEF SpecModelInv, SpecBranchesInv, SpecBranchInv
  <1> QED
    BY <1>1, <1>2, <1>3 DEF SpecModelGrows

-----------------------------------------------------------------------------
(* Steps.                                                                  *)

LEMMA SpecJobKeeps ==
    ASSUME SpecIInv, NEW j \in DesignJobs, Specs!CreateJob(j)
    PROVE  SpecIInv'
  <1>1. /\ UNCHANGED <<snapshots, profile, branches, specs, previews, links, scenes, request>>
        /\ base' = [base EXCEPT ![j] = IF profile = None THEN <<j, 0>> ELSE profile]
    BY DEF Specs!CreateJob, Specs!model
  <1>2. SpecSnapshotsInv'
    <2>1. base' = [k \in DesignJobs |-> base'[k]]
      BY <1>1 DEF SpecIInv, SpecModelInv, SpecSnapshotsInv
    <2>2. \A k \in DesignJobs : base'[k] = None \/ base'[k] \in DOMAIN snapshots
            \/ base'[k] = <<k, 0>>
      <3>1. \A k \in DesignJobs : base'[k] =
                IF k = j THEN (IF profile = None THEN <<j, 0>> ELSE profile) ELSE base[k]
        BY <1>1 DEF SpecIInv, SpecModelInv, SpecSnapshotsInv
      <3> QED
        BY <3>1 DEF SpecIInv, SpecModelInv, SpecSnapshotsInv
    <2> QED
      BY <1>1, <2>1, <2>2 DEF SpecIInv, SpecModelInv, SpecSnapshotsInv, Specs!Content
  <1>3. SpecModelGrows
    BY <1>1 DEF SpecIInv, SpecModelGrows, SpecModelInv, SpecBranchesInv, SpecBranchInv
  <1>4. SpecModelInv'
    BY <1>1, <1>2 DEF SpecIInv, SpecModelInv, SpecBranchesInv, SpecBranchInv, SpecFirstsInv,
         Specs!Content
  <1>5. SpecsInv' /\ SpecsGrow
    BY <1>1, <1>3, SpecsKeep DEF SpecIInv
  <1>6. SpecPreviewsInv'
    BY <1>1, <1>3, <1>5, SpecPreviewsKeep DEF SpecIInv
  <1>7. SpecLinksInv'
    <2>1. Len(previews) \in Nat
      BY DEF SpecIInv, SpecPreviewsInv
    <2> QED
      BY <1>1, <1>5, <2>1, SpecLinksKeep DEF SpecIInv
  <1> QED
    BY <1>4, <1>5, <1>6, <1>7 DEF SpecIInv

\* The model grows beside specifications, previews and links.
LEMMA SpecGrowthKeeps ==
    ASSUME SpecIInv, SpecModelInv', SpecModelGrows, UNCHANGED <<specs, previews, links, scenes,
             request>>
    PROVE  SpecIInv'
  <1>1. SpecsInv' /\ SpecsGrow
    BY SpecsKeep DEF SpecIInv
  <1>2. SpecPreviewsInv'
    BY <1>1, SpecPreviewsKeep DEF SpecIInv
  <1>3. SpecLinksInv'
    <2>1. Len(previews) \in Nat
      BY DEF SpecIInv, SpecPreviewsInv
    <2> QED
      BY <1>1, <2>1, SpecLinksKeep DEF SpecIInv
  <1> QED
    BY <1>1, <1>2, <1>3 DEF SpecIInv

LEMMA SpecCreateSpecificationKeeps ==
    ASSUME SpecIInv, NEW o \in Options, Specs!CreateSpecification(o)
    PROVE  SpecIInv'
  <1> DEFINE first == Specs!Revision(1, <<o, 1>>, None)
  <1>1. /\ o \in DOMAIN branches /\ o \notin DOMAIN specs /\ branches[o].revision = 1
        /\ branches[o].head = <<o, 1>>
        /\ specs' = Specs!Put(specs, o, <<first>>)
        /\ UNCHANGED <<base, Specs!model, previews, links, scenes, request>>
    <2>1. o \in DOMAIN branches /\ branches[o].revision = 1
      BY DEF Specs!CreateSpecification
    <2>2. branches[o].head = <<o, 1>>
      BY <2>1 DEF SpecIInv, SpecModelInv, SpecBranchesInv, SpecBranchInv
    <2> QED
      BY <2>1, <2>2 DEF Specs!CreateSpecification
  <1>2. /\ first.branchRevision = 1 /\ first.snapshot = <<o, 1>> /\ first.asset = None
        /\ first \in SpecRevisionRows
    BY DEF Specs!Revision, SpecRevisionRows
  <1> HIDE DEF first
  <1>3. /\ DOMAIN specs' = DOMAIN specs \cup {o} /\ specs'[o] = <<first>>
        /\ \A b \in DOMAIN specs : specs'[b] = specs[b]
    BY <1>1 DEF Specs!Put
  <1>4. SpecModelInv' /\ SpecModelGrows
    BY <1>1, SpecModelStays DEF SpecIInv
  <1>5. SpecInv(o)'
    <2>1. <<first>> \in Seq(SpecRevisionRows) /\ Len(<<first>>) = 1 /\ <<first>>[1] = first
      BY <1>2
    <2>2. \A r \in 1..1 : r = 1
      OBVIOUS
    <2>3. specs'[o] \in Seq(SpecRevisionRows) /\ Len(specs'[o]) = 1 /\ specs'[o][1] = first
      BY <1>3, <2>1
    <2>4. branches' = branches /\ snapshots' = snapshots
      BY <1>1 DEF Specs!model
    <2>5. Specs!AssetIn(o, Specs!Content(<<o, 1>>)) = None
      BY <1>1 DEF SpecIInv, SpecModelInv, SpecFirstsInv
    <2> QED
      BY <1>1, <1>2, <2>2, <2>3, <2>4, <2>5 DEF SpecInv, Specs!Content
  <1>6. \A b \in DOMAIN specs : SpecInv(b)'
    BY <1>1, <1>3 DEF SpecIInv, SpecsInv, SpecInv, Specs!Content, Specs!model
  <1>7. SpecsInv'
    BY <1>1, <1>3, <1>5, <1>6 DEF SpecIInv, SpecsInv, Specs!model
  <1>8. SpecsGrow
    <2>1. \A b \in DOMAIN specs : Len(specs[b]) \in Nat
      BY DEF SpecIInv, SpecsInv, SpecInv
    <2> QED
      BY <1>3, <2>1 DEF SpecsGrow
  <1>9. SpecPreviewsInv'
    BY <1>1, <1>4, <1>8, SpecPreviewsKeep DEF SpecIInv
  <1>10. SpecLinksInv'
    <2>1. Len(previews) \in Nat
      BY DEF SpecIInv, SpecPreviewsInv
    <2> QED
      BY <1>1, <1>8, <2>1, SpecLinksKeep DEF SpecIInv
  <1> QED
    BY <1>4, <1>7, <1>9, <1>10 DEF SpecIInv

LEMMA SpecUpdateSelectionBoardKeeps ==
    ASSUME SpecIInv, NEW o \in Options, Specs!UpdateSelectionBoard(o)
    PROVE  SpecIInv'
  <1>1. PICK last \in 1..Len(specs[o]) : last = Len(specs[o])
    BY DEF Specs!UpdateSelectionBoard, SpecIInv, SpecsInv, SpecInv
  <1>2. /\ o \in DOMAIN specs /\ specs' = [specs EXCEPT ![o] = Append(@, specs[o][last])]
        /\ UNCHANGED <<base, Specs!model, previews, links, scenes, request>>
    BY <1>1 DEF Specs!UpdateSelectionBoard, Specs!NextBoard, Specs!Current, Specs!Last
  <1>3. SpecModelInv' /\ SpecModelGrows
    BY <1>2, SpecModelStays DEF SpecIInv
  <1>4. specs[o][last] \in SpecRevisionRows
    BY <1>1, <1>2 DEF SpecIInv, SpecsInv, SpecInv
  <1>5. /\ specs[o][last].branchRevision \in 1..branches'[o].revision
        /\ specs[o][last].snapshot = <<o, specs[o][last].branchRevision>>
        /\ specs[o][last].asset = Specs!AssetIn(o, snapshots'[specs[o][last].snapshot].content)
    BY <1>2, <1>3, SpecsStay DEF SpecIInv
  <1>6. SpecsInv' /\ SpecsGrow
    BY <1>2, <1>3, <1>4, <1>5, SpecRevisionKeeps DEF SpecIInv
  <1>7. SpecPreviewsInv'
    BY <1>2, <1>3, <1>6, SpecPreviewsKeep DEF SpecIInv
  <1>8. SpecLinksInv'
    <2>1. Len(previews) \in Nat
      BY DEF SpecIInv, SpecPreviewsInv
    <2> QED
      BY <1>2, <1>6, <2>1, SpecLinksKeep DEF SpecIInv
  <1> QED
    BY <1>3, <1>6, <1>7, <1>8 DEF SpecIInv

LEMMA SpecCreatePreviewKeeps ==
    ASSUME SpecIInv, NEW o \in Options, NEW item \in Assets, Specs!CreatePreview(o, item)
    PROVE  SpecIInv'
  <1> DEFINE preview ==
          [spec |-> o, specRevision |-> Len(specs[o]), branchRevision |-> branches[o].revision,
           base |-> branches[o].head, asset |-> item, state |-> "pending"]
  <1>1. /\ o \in DOMAIN specs /\ previews' = Append(previews, preview)
        /\ UNCHANGED <<base, Specs!model, specs, links, scenes, request>>
    BY DEF Specs!CreatePreview
  <1>2. /\ o \in DOMAIN branches /\ branches[o].revision \in Nat /\ branches[o].revision # 0
        /\ branches[o].head = <<o, branches[o].revision>>
        /\ Len(specs[o]) \in Nat /\ Len(specs[o]) > 0
    BY <1>1 DEF SpecIInv, SpecsInv, SpecInv, SpecModelInv, SpecBranchesInv, SpecBranchInv
  <1>3. /\ preview \in SpecPreviewRows /\ preview.spec = o /\ preview.specRevision = Len(specs[o])
        /\ preview.branchRevision = branches[o].revision /\ preview.base = branches[o].head
        /\ preview.state = "pending"
    BY <1>2 DEF SpecPreviewRows
  <1> HIDE DEF preview
  <1>4. SpecModelInv' /\ SpecModelGrows
    BY <1>1, SpecModelStays DEF SpecIInv
  <1>5. SpecsInv' /\ SpecsGrow
    BY <1>1, <1>4, SpecsKeep DEF SpecIInv
  <1>6. previews \in Seq(SpecPreviewRows) /\ Len(previews) \in Nat
    BY DEF SpecIInv, SpecPreviewsInv
  <1>7. /\ previews' \in Seq(SpecPreviewRows) /\ Len(previews') = Len(previews) + 1
        /\ \A p \in 1..Len(previews) : previews'[p] = previews[p]
        /\ previews'[Len(previews) + 1] = preview
    BY <1>1, <1>3, <1>6, AppendProperties
  <1>8. \E new : new = previews'[Len(previews) + 1] /\ SpecPreviewInv(new)'
    <2>1. PICK new : new = preview
      OBVIOUS
    <2>2. specs' = specs /\ branches' = branches
      BY <1>1 DEF Specs!model
    <2>3. Len(specs[o]) \in 1..Len(specs[o]) /\ branches[o].revision \in 1..branches[o].revision
      BY <1>2
    <2>4. SpecPreviewInv(new)'
      BY <1>1, <1>2, <1>3, <2>1, <2>2, <2>3 DEF SpecPreviewInv
    <2> QED
      BY <1>7, <2>1, <2>4
  <1>9. \A p \in 1..Len(previews) : \E old : old = previews'[p] /\ SpecPreviewInv(old)'
    <2> TAKE p \in 1..Len(previews)
    <2>1. PICK old : old = previews[p]
      OBVIOUS
    <2>2. SpecPreviewInv(old)
      BY <2>1 DEF SpecIInv, SpecPreviewsInv
    <2>3. SpecPreviewInv(old)'
      BY <1>4, <1>5, <2>2, SpecPreviewStays DEF SpecIInv
    <2> QED
      BY <1>7, <2>1, <2>3
  <1>10. SpecPreviewsInv'
    <2>1. \A p \in 1..(Len(previews) + 1) : p = Len(previews) + 1 \/ p \in 1..Len(previews)
      BY <1>6
    <2>2. \A p \in 1..Len(previews') : \E some : some = previews'[p] /\ SpecPreviewInv(some)'
      BY <1>7, <1>8, <1>9, <2>1
    <2> QED
      BY <1>7, <2>2 DEF SpecPreviewsInv, SpecPreviewInv
  <1>11. SpecLinksInv'
    BY <1>1, <1>5, <1>6, <1>7, SpecLinksKeep DEF SpecIInv
  <1> QED
    BY <1>4, <1>5, <1>10, <1>11 DEF SpecIInv

\* A confirmation grows all of them at once.
LEMMA SpecConfirmSubstitutionKeeps ==
    ASSUME SpecIInv, NEW q \in SceneCalls, NEW p \in 1..Len(previews),
           Specs!ConfirmSubstitution(q, p)
    PROVE  SpecIInv' /\ SpecModelGrows
  <1>1. PICK preview \in SpecPreviewRows : preview = previews[p]
    BY DEF SpecIInv, SpecPreviewsInv
  <1>2. PICK o \in DOMAIN specs : o = preview.spec
    BY <1>1 DEF SpecIInv, SpecPreviewsInv, SpecPreviewInv
  <1>3. PICK revision \in Nat : revision = branches[o].revision + 1
    BY <1>2 DEF SpecIInv, SpecsInv, SpecModelInv, SpecBranchesInv, SpecBranchInv
  <1>4. PICK item \in Assets : item = preview.asset
    BY <1>1 DEF SpecPreviewRows
  <1> DEFINE change == Specs!Replacement(o, item)
             made == Specs!Revision(revision, <<o, revision>>, item)
             asks == [phase |-> "requesting", preview |-> p]
  <1>5. /\ o \in DOMAIN branches /\ branches[o].revision \in Nat /\ o \in Options
        /\ branches[o].revision # 0 /\ branches[o].head = <<o, branches[o].revision>>
    BY <1>2 DEF SpecIInv, SpecsInv, SpecModelInv, SpecBranchesInv, SpecBranchInv
  <1>6. /\ preview.state = "pending" /\ Len(specs[o]) = preview.specRevision
        /\ branches[o].revision = preview.branchRevision /\ branches[o].head = preview.base
        /\ Specs!Commit(snapshots, o, branches[o], Append(Specs!Content(branches[o].head), change))
        /\ specs' = [specs EXCEPT ![o] = Append(@, made)]
        /\ previews' = [previews EXCEPT ![p].state = "confirmed"]
        /\ links' = Specs!Put(links, p, "pending") /\ request' = [request EXCEPT ![q] = asks]
        /\ base' = base /\ scenes' = scenes
    BY <1>1, <1>2, <1>3, <1>4 DEF Specs!ConfirmSubstitution, Specs!MayConfirm, Specs!BranchIsExact,
         Specs!Asks
  <1>7. change \in Specs!Changes
    BY <1>4, <1>5 DEF Specs!Replacement, Specs!Changes
  <1> HIDE DEF change
  <1>8. /\ SpecModelInv' /\ SpecModelGrows /\ branches'[o].revision = revision
        /\ snapshots'[<<o, revision>>].content = Append(Specs!Content(preview.base), change)
    BY <1>3, <1>5, <1>6, <1>7, SpecCommitGrows DEF SpecIInv
  <1>9. /\ made.branchRevision = revision /\ made.snapshot = <<o, revision>> /\ made.asset = item
        /\ made \in SpecRevisionRows
    BY <1>4, <1>5 DEF Specs!Revision, SpecRevisionRows
  <1> HIDE DEF made
  <1>10. item = Specs!AssetIn(o, snapshots'[<<o, revision>>].content)
    <2>1. Specs!Content(preview.base) \in Seq(Specs!Changes)
      <3>1. preview.base \in DOMAIN snapshots
        BY <1>5, <1>6 DEF SpecIInv, SpecModelInv, SpecBranchesInv, SpecBranchInv
      <3>2. snapshots \in [DOMAIN snapshots -> SpecSnapshotRows]
        BY DEF SpecIInv, SpecModelInv, SpecSnapshotsInv
      <3> HIDE DEF Specs!Changes
      <3> QED
        BY <3>1, <3>2 DEF Specs!Content, SpecSnapshotRows
    <2>2. change = <<o, item>>
      BY DEF change, Specs!Replacement
    <2> HIDE DEF Specs!Changes
    <2> QED
      BY <1>8, <2>1, <2>2, SpecAssetOfLastChange
  <1>11. revision \in 1..branches'[o].revision
    BY <1>3, <1>5, <1>8
  <1>12. /\ SpecsInv' /\ SpecsGrow
         /\ Len(specs'[o]) = Len(specs[o]) + 1 /\ specs'[o][Len(specs[o]) + 1] = made
    BY <1>6, <1>8, <1>9, <1>10, <1>11, SpecRevisionKeeps DEF SpecIInv
  <1>13. previews \in Seq(SpecPreviewRows) /\ Len(previews) \in Nat
    BY DEF SpecIInv, SpecPreviewsInv
  <1>14. PICK confirmed : confirmed = [preview EXCEPT !.state = "confirmed"]
    OBVIOUS
  <1>15. /\ confirmed \in SpecPreviewRows /\ confirmed.spec = o /\ confirmed.state = "confirmed"
         /\ confirmed.specRevision = preview.specRevision /\ confirmed.base = preview.base
         /\ confirmed.branchRevision = preview.branchRevision /\ confirmed.asset = item
    BY <1>2, <1>4, <1>14 DEF SpecPreviewRows
  <1>16. /\ previews' \in Seq(SpecPreviewRows) /\ Len(previews') = Len(previews)
         /\ previews'[p] = confirmed
         /\ \A i \in 1..Len(previews) : i # p => previews'[i] = previews[i]
    <2>1. previews' = [previews EXCEPT ![p] = confirmed]
      BY <1>1, <1>6, <1>14
    <2> HIDE DEF SpecPreviewRows
    <2> QED
      BY <1>13, <1>15, <2>1
  <1>17. /\ Len(specs[o]) \in Nat /\ Len(specs[o]) > 0 /\ preview.specRevision = Len(specs[o])
         /\ o \in DOMAIN specs'
    BY <1>6, <1>12 DEF SpecIInv, SpecsInv, SpecInv, SpecsGrow
  <1>18. SpecPreviewInv(confirmed)'
    <2>1. confirmed.specRevision \in 1..Len(specs'[o])
      BY <1>12, <1>15, <1>17
    <2>2. confirmed.branchRevision \in 1..branches'[o].revision
      BY <1>3, <1>5, <1>6, <1>8, <1>15
    <2>3. confirmed.base = <<o, confirmed.branchRevision>>
      BY <1>5, <1>6, <1>15
    <2>4. SpecIsConfirmed(confirmed)'
      <3>1. /\ confirmed.specRevision + 1 <= Len(specs'[o])
            /\ specs'[o][confirmed.specRevision + 1] = made
        BY <1>12, <1>15, <1>17
      <3>2. made.branchRevision = confirmed.branchRevision + 1
        BY <1>3, <1>6, <1>9, <1>15
      <3>3. snapshots'[made.snapshot].content
               = Append(snapshots'[confirmed.base].content, Specs!Replacement(o, confirmed.asset))
        <4>1. preview.base \in DOMAIN snapshots
          BY <1>5, <1>6 DEF SpecIInv, SpecModelInv, SpecBranchesInv, SpecBranchInv
        <4>2. snapshots'[preview.base] = snapshots[preview.base]
          BY <1>8, <4>1 DEF SpecModelGrows
        <4> QED
          BY <1>8, <1>9, <1>15, <4>2 DEF Specs!Content, change
      <3> QED
        BY <1>15, <3>1, <3>2, <3>3 DEF SpecIsConfirmed, Specs!Content
    <2> QED
      BY <1>15, <1>17, <2>1, <2>2, <2>3, <2>4 DEF SpecPreviewInv
  <1>19. \A i \in 1..Len(previews) : i # p => \E old : old = previews'[i] /\ SpecPreviewInv(old)'
    <2> TAKE i \in 1..Len(previews)
    <2>1. PICK old : old = previews[i]
      OBVIOUS
    <2>2. SpecPreviewInv(old)
      BY <2>1 DEF SpecIInv, SpecPreviewsInv
    <2>3. SpecPreviewInv(old)'
      BY <1>8, <1>12, <2>2, SpecPreviewStays DEF SpecIInv
    <2> QED
      BY <1>16, <2>1, <2>3
  <1>20. SpecPreviewsInv'
    <2>1. \A i \in 1..Len(previews') : \E some : some = previews'[i] /\ SpecPreviewInv(some)'
      BY <1>16, <1>18, <1>19
    <2> QED
      BY <1>16, <2>1 DEF SpecPreviewsInv, SpecPreviewInv, SpecIsConfirmed, Specs!Content
  <1>21. SpecLinksInv'
    <2>1. /\ DOMAIN links' = DOMAIN links \cup {p} /\ links'[p] = "pending"
          /\ \A i \in DOMAIN links : i # p => links'[i] = links[i]
      BY <1>6 DEF Specs!Put
    <2>2. p \notin DOMAIN links /\ p \notin DOMAIN scenes
      BY <1>1, <1>6 DEF SpecIInv, SpecLinksInv
    <2>3. \A i \in DOMAIN scenes : Specs!SceneSnapshot(i)' = Specs!SceneSnapshot(i)
      <3> TAKE i \in DOMAIN scenes
      <3>1. i \in 1..Len(previews) /\ previews[i].state = "confirmed" /\ i # p
        BY <2>2 DEF SpecIInv, SpecLinksInv
      <3>2. previews'[i] = previews[i]
        BY <1>16, <3>1
      <3> QED
        BY <1>12, <3>1, <3>2, SpecSceneStays DEF SpecIInv
    <2>4. asks \in SpecRequestRows /\ asks.preview = p /\ asks.phase = "requesting"
      BY <1>13 DEF SpecRequestRows
    <2>5. /\ request' \in [SceneCalls -> SpecRequestRows] /\ request'[q] = asks
          /\ \A r \in SceneCalls : r # q => request'[r] = request[r]
      BY <1>6, <2>4 DEF SpecIInv, SpecLinksInv
    <2>6. \A i \in DOMAIN links' :
             /\ i \in 1..Len(previews') /\ previews'[i].state = "confirmed"
             /\ links'[i] = "requested" => i \in DOMAIN scenes'
      BY <1>6, <1>15, <1>16, <2>1, <2>2 DEF SpecIInv, SpecLinksInv
    <2>7. \A i \in DOMAIN scenes' : i \in DOMAIN links' /\ scenes'[i] = Specs!SceneSnapshot(i)'
      BY <1>6, <2>1, <2>3 DEF SpecIInv, SpecLinksInv
    <2>8. \A r \in SceneCalls :
             /\ request'[r] # Specs!Idle => request'[r].preview \in DOMAIN links'
             /\ request'[r].phase \in {"recording", "noting"}
                  => request'[r].preview \in DOMAIN scenes'
      BY <1>6, <2>1, <2>4, <2>5 DEF SpecIInv, SpecLinksInv
    <2> QED
      BY <2>5, <2>6, <2>7, <2>8 DEF SpecLinksInv
  <1> QED
    BY <1>8, <1>12, <1>20, <1>21 DEF SpecIInv

\* What a request does to links and scenes, beside which nothing changes.
LEMMA SpecRequestKeeps ==
    ASSUME SpecIInv, UNCHANGED <<base, Specs!model, specs, previews>>,
           NEW q \in SceneCalls, NEW next \in SpecRequestRows,
           request' = [request EXCEPT ![q] = next],
           next # Specs!Idle => next.preview \in DOMAIN links,
           next.phase \in {"recording", "noting"} => next.preview \in DOMAIN scenes',
           DOMAIN links' = DOMAIN links,
           \A p \in DOMAIN links : links'[p] = "requested" => p \in DOMAIN scenes',
           DOMAIN scenes \subseteq DOMAIN scenes',
           \A p \in DOMAIN scenes' : p \in DOMAIN links /\ scenes'[p] = Specs!SceneSnapshot(p)
    PROVE  SpecIInv'
  <1>1. SpecModelInv' /\ SpecModelGrows
    BY SpecModelStays DEF SpecIInv
  <1>2. SpecsInv' /\ SpecsGrow
    BY <1>1, SpecsKeep DEF SpecIInv
  <1>3. SpecPreviewsInv'
    BY <1>1, <1>2, SpecPreviewsKeep DEF SpecIInv
  <1>4. \A p \in DOMAIN scenes' : Specs!SceneSnapshot(p)' = Specs!SceneSnapshot(p)
    BY DEF Specs!SceneSnapshot, Specs!ConfirmedRevision
  <1>5. /\ request' \in [SceneCalls -> SpecRequestRows] /\ request'[q] = next
        /\ \A r \in SceneCalls : r # q => request'[r] = request[r]
    BY DEF SpecIInv, SpecLinksInv
  <1>6. \A r \in SceneCalls :
           /\ request'[r] # Specs!Idle => request'[r].preview \in DOMAIN links'
           /\ request'[r].phase \in {"recording", "noting"}
                => request'[r].preview \in DOMAIN scenes'
    BY <1>5 DEF SpecIInv, SpecLinksInv
  <1>7. SpecLinksInv'
    BY <1>4, <1>5, <1>6 DEF SpecIInv, SpecLinksInv
  <1> QED
    BY <1>1, <1>2, <1>3, <1>7 DEF SpecIInv

\* What a request that is doing something is about.
LEMMA SpecRequestIsOfALink ==
    ASSUME SpecIInv, NEW q \in SceneCalls, request[q].phase # "idle"
    PROVE  /\ request[q] \in SpecRequestRows /\ request[q].preview \in DOMAIN links
           /\ request[q] = [phase |-> request[q].phase, preview |-> request[q].preview]
           /\ request[q].preview \in Nat
  <1>1. request[q] \in SpecRequestRows /\ request[q] # Specs!Idle
    BY DEF SpecIInv, SpecLinksInv, Specs!Idle
  <1>2. request[q].preview \in DOMAIN links
    BY <1>1 DEF SpecIInv, SpecLinksInv
  <1> QED
    BY <1>1, <1>2 DEF SpecRequestRows

LEMMA SpecAskKeeps ==
    ASSUME SpecIInv, NEW q \in SceneCalls, NEW p, Specs!ConfirmAgain(q, p) \/ Specs!RetryScene(q, p)
    PROVE  SpecIInv'
  <1>1. PICK phase \in {"requesting", "retrying"} :
             /\ request' = [request EXCEPT ![q] = [phase |-> phase, preview |-> p]]
             /\ p \in DOMAIN links
             /\ UNCHANGED <<base, Specs!model, specs, previews, links, scenes>>
    BY DEF Specs!ConfirmAgain, Specs!RetryScene, Specs!Asks
  <1>2. PICK next : next = [phase |-> phase, preview |-> p]
    OBVIOUS
  <1>3. p \in Nat
    BY <1>1 DEF SpecIInv, SpecLinksInv
  <1>4. next \in SpecRequestRows /\ next.preview = p /\ next.phase = phase
    BY <1>2, <1>3 DEF SpecRequestRows
  <1>5. \A i \in DOMAIN links : links[i] = "requested" => i \in DOMAIN scenes
    BY DEF SpecIInv, SpecLinksInv
  <1>6. \A i \in DOMAIN scenes : i \in DOMAIN links /\ scenes[i] = Specs!SceneSnapshot(i)
    BY DEF SpecIInv, SpecLinksInv
  <1> QED
    BY <1>1, <1>2, <1>4, <1>5, <1>6, SpecRequestKeeps

LEMMA SpecRequestSceneKeeps ==
    ASSUME SpecIInv, NEW q \in SceneCalls, NEW made \in BOOLEAN, NEW answered \in BOOLEAN,
           Specs!RequestScene(q, made, answered)
    PROVE  SpecIInv'
  <1>1. PICK p : p = request[q].preview
    OBVIOUS
  <1>2. /\ request[q].phase \in {"requesting", "retrying"}
        /\ answered => made
        /\ scenes' = IF made /\ p \notin DOMAIN scenes
             THEN Specs!Put(scenes, p, Specs!SceneSnapshot(p)) ELSE scenes
        /\ UNCHANGED <<base, Specs!model, specs, previews, links>>
    BY <1>1 DEF Specs!RequestScene
  <1>3. /\ request[q] \in SpecRequestRows /\ p \in DOMAIN links /\ p \in Nat
        /\ request[q] = [phase |-> request[q].phase, preview |-> p]
    <2>1. request[q].phase # "idle"
      <3>1. request[q].phase \in {"requesting", "retrying"}
        BY <1>2, Zenon
      <3> QED
        BY <3>1
    <2> QED
      BY <1>1, <2>1, SpecRequestIsOfALink
  <1>4. /\ DOMAIN scenes \subseteq DOMAIN scenes'
        /\ made => p \in DOMAIN scenes'
        /\ \A i \in DOMAIN scenes' : i \in DOMAIN links /\ scenes'[i] = Specs!SceneSnapshot(i)
    BY <1>2, <1>3 DEF SpecIInv, SpecLinksInv, Specs!Put
  <1>5. \A i \in DOMAIN links : links[i] = "requested" => i \in DOMAIN scenes'
    <2>1. \A i \in DOMAIN links : links[i] = "requested" => i \in DOMAIN scenes
      BY DEF SpecIInv, SpecLinksInv
    <2>2. DOMAIN scenes \subseteq DOMAIN scenes'
      BY <1>4
    <2> QED
      BY <2>1, <2>2
  <1>6. \E next \in SpecRequestRows :
           /\ request' = [request EXCEPT ![q] = next]
           /\ next # Specs!Idle => next.preview = p
           /\ next.phase \in {"recording", "noting"} => p \in DOMAIN scenes'
    <2>1. CASE answered
      <3>1. PICK phase \in {"recording", "noting"} : Specs!Goes(q, phase)
        BY <2>1 DEF Specs!RequestScene
      <3>2. [request[q] EXCEPT !.phase = phase] = [phase |-> phase, preview |-> p]
        BY <1>3
      <3>3. request' = [request EXCEPT ![q] = [phase |-> phase, preview |-> p]]
        BY <3>1, <3>2 DEF Specs!Goes
      <3>4. [phase |-> phase, preview |-> p] \in SpecRequestRows
        BY <1>3 DEF SpecRequestRows
      <3>5. p \in DOMAIN scenes'
        BY <1>2, <1>4, <2>1, Zenon
      <3> WITNESS [phase |-> phase, preview |-> p] \in SpecRequestRows
      <3> QED
        BY <3>3, <3>5
    <2>2. CASE ~answered /\ request[q].phase = "requesting"
      <3>1. Specs!Goes(q, "excusing")
        BY <2>2 DEF Specs!RequestScene
      <3>2. [request[q] EXCEPT !.phase = "excusing"] = [phase |-> "excusing", preview |-> p]
        BY <1>3
      <3>3. request' = [request EXCEPT ![q] = [phase |-> "excusing", preview |-> p]]
        BY <3>1, <3>2 DEF Specs!Goes
      <3>4. [phase |-> "excusing", preview |-> p] \in SpecRequestRows
        BY <1>3 DEF SpecRequestRows
      <3> WITNESS [phase |-> "excusing", preview |-> p] \in SpecRequestRows
      <3> QED
        BY <3>3
    <2>3. CASE ~answered /\ request[q].phase # "requesting"
      <3>1. Specs!Stop(q)
        BY <2>3 DEF Specs!RequestScene
      <3>2. Specs!Idle \in SpecRequestRows /\ Specs!Idle.phase = "idle"
        BY DEF SpecRequestRows, Specs!Idle
      <3> QED
        BY <3>1, <3>2 DEF Specs!Stop
    <2> QED
      BY <2>1, <2>2, <2>3
  <1>7. PICK next \in SpecRequestRows :
             /\ request' = [request EXCEPT ![q] = next]
             /\ next # Specs!Idle => next.preview = p
             /\ next.phase \in {"recording", "noting"} => p \in DOMAIN scenes'
    BY <1>6
  <1>8. /\ next # Specs!Idle => next.preview \in DOMAIN links
        /\ next.phase \in {"recording", "noting"} => next.preview \in DOMAIN scenes'
    <2>1. next.phase \in {"recording", "noting"} => next # Specs!Idle
      BY DEF Specs!Idle
    <2> QED
      BY <1>3, <1>4, <1>7, <2>1
  <1>9. \A i \in DOMAIN links : links'[i] = "requested" => i \in DOMAIN scenes'
    BY <1>2, <1>5
  <1> QED
    BY <1>2, <1>4, <1>7, <1>8, <1>9, SpecRequestKeeps

LEMMA SpecRecordRequestedKeeps ==
    ASSUME SpecIInv, NEW q \in SceneCalls, NEW noted \in BOOLEAN, Specs!RecordRequested(q, noted)
    PROVE  SpecIInv'
  <1>1. PICK p : p = request[q].preview
    OBVIOUS
  <1>2. /\ request[q].phase \in {"recording", "noting"}
        /\ links' = IF noted THEN [links EXCEPT ![p] = "requested"] ELSE links
        /\ UNCHANGED <<base, Specs!model, specs, previews, scenes>>
    BY <1>1 DEF Specs!RecordRequested
  <1>3. /\ request[q] \in SpecRequestRows /\ p \in DOMAIN links /\ p \in Nat
        /\ request[q] = [phase |-> request[q].phase, preview |-> p]
    BY <1>1, <1>2, SpecRequestIsOfALink
  <1>4. p \in DOMAIN scenes
    BY <1>1, <1>2 DEF SpecIInv, SpecLinksInv
  <1>5. /\ DOMAIN links' = DOMAIN links
        /\ \A i \in DOMAIN links : links'[i] = "requested" => i \in DOMAIN scenes
    BY <1>2, <1>4 DEF SpecIInv, SpecLinksInv
  <1>6. \A i \in DOMAIN scenes : i \in DOMAIN links /\ scenes[i] = Specs!SceneSnapshot(i)
    BY DEF SpecIInv, SpecLinksInv
  <1>7. \E next \in {Specs!Idle, [phase |-> "excusing", preview |-> p]} :
           request' = [request EXCEPT ![q] = next]
    BY <1>3 DEF Specs!RecordRequested, Specs!Stop, Specs!Goes
  <1>8. /\ Specs!Idle \in SpecRequestRows /\ Specs!Idle.phase = "idle"
        /\ [phase |-> "excusing", preview |-> p] \in SpecRequestRows
    BY <1>3 DEF SpecRequestRows, Specs!Idle
  <1> QED
    BY <1>2, <1>3, <1>5, <1>6, <1>7, <1>8, SpecRequestKeeps

LEMMA SpecRecordRetryRequiredKeeps ==
    ASSUME SpecIInv, NEW q \in SceneCalls, Specs!RecordRetryRequired(q)
    PROVE  SpecIInv'
  <1>1. PICK p : p = request[q].preview
    OBVIOUS
  <1>2. /\ links' = IF Specs!StaysRequested(p) THEN links
             ELSE [links EXCEPT ![p] = "retry-required"]
        /\ request' = [request EXCEPT ![q] = Specs!Idle]
        /\ UNCHANGED <<base, Specs!model, specs, previews, scenes>>
    BY <1>1 DEF Specs!RecordRetryRequired, Specs!Stop
  <1>3. /\ DOMAIN links' = DOMAIN links
        /\ \A i \in DOMAIN links : links'[i] = "requested" => i \in DOMAIN scenes
    BY <1>2 DEF SpecIInv, SpecLinksInv
  <1>4. \A i \in DOMAIN scenes : i \in DOMAIN links /\ scenes[i] = Specs!SceneSnapshot(i)
    BY DEF SpecIInv, SpecLinksInv
  <1>5. Specs!Idle \in SpecRequestRows /\ Specs!Idle.phase = "idle"
    BY DEF SpecRequestRows, Specs!Idle
  <1> QED
    BY <1>2, <1>3, <1>4, <1>5, SpecRequestKeeps

LEMMA SpecCrashKeeps ==
    ASSUME SpecIInv, NEW q \in SceneCalls, Specs!Crash(q)
    PROVE  SpecIInv'
  <1>1. \A i \in DOMAIN links : links[i] = "requested" => i \in DOMAIN scenes
    BY DEF SpecIInv, SpecLinksInv
  <1>2. \A i \in DOMAIN scenes : i \in DOMAIN links /\ scenes[i] = Specs!SceneSnapshot(i)
    BY DEF SpecIInv, SpecLinksInv
  <1>3. Specs!Idle \in SpecRequestRows /\ Specs!Idle.phase = "idle"
    BY DEF SpecRequestRows, Specs!Idle
  <1> QED
    BY <1>1, <1>2, <1>3, SpecRequestKeeps DEF Specs!Crash, Specs!Stop

LEMMA SpecEditKeeps ==
    ASSUME SpecIInv, NEW o \in Options, NEW change \in Specs!Changes, Specs!Edit(o, change)
    PROVE  SpecIInv'
  <1>1. /\ o \in DOMAIN branches
        /\ Specs!Commit(snapshots, o, branches[o], Append(Specs!Content(branches[o].head), change))
        /\ UNCHANGED <<base, specs, previews, links, scenes, request>>
    BY DEF Specs!Edit
  <1>2. SpecModelInv' /\ SpecModelGrows
    <2> HIDE DEF Specs!Changes
    <2> QED
      BY <1>1, SpecCommitGrows DEF SpecIInv
  <1> QED
    BY <1>1, <1>2, SpecGrowthKeeps

LEMMA SpecConfirmOptionKeeps ==
    ASSUME Specs!SpecificationConstants, SpecIInv, NEW o \in Options, Specs!ConfirmOption(o)
    PROVE  SpecIInv'
  <1>1. SpecModelInv' /\ SpecModelGrows
    BY SpecConfirmOptionGrows DEF SpecIInv
  <1> QED
    BY <1>1, SpecGrowthKeeps DEF Specs!ConfirmOption

\* Nothing changes, or only what nobody remembers.
LEMMA SpecQuietKeeps ==
    ASSUME SpecIInv, UNCHANGED <<base, Specs!model, specs, previews, links, scenes, request>>
    PROVE  SpecIInv'
  BY SpecModelStays, SpecGrowthKeeps DEF SpecIInv

-----------------------------------------------------------------------------
(* The invariant, and what follows of it.                                  *)

LEMMA SpecInitKeeps == Specs!Init => SpecIInv
  <1> SUFFICES ASSUME Specs!Init PROVE SpecIInv
    OBVIOUS
  <1>1. DOMAIN snapshots = {} /\ DOMAIN branches = {} /\ DOMAIN specs = {}
        /\ DOMAIN links = {} /\ DOMAIN scenes = {}
    BY DEF Specs!Init, Specs!NoRows
  <1>2. SpecModelInv
    <2>1. snapshots \in [DOMAIN snapshots -> SpecSnapshotRows]
      BY DEF Specs!Init, Specs!NoRows
    <2>2. base = [j \in DesignJobs |-> base[j]] /\ (\A j \in DesignJobs : base[j] = None)
            /\ profile = None
      BY DEF Specs!Init
    <2> QED
      BY <1>1, <2>1, <2>2 DEF SpecModelInv, SpecSnapshotsInv, SpecBranchesInv, SpecFirstsInv
  <1>3. SpecsInv
    BY <1>1 DEF SpecsInv
  <1>4. SpecPreviewsInv
    <2>1. previews = <<>> /\ <<>> \in Seq(SpecPreviewRows) /\ Len(<<>>) = 0
      BY DEF Specs!Init
    <2> QED
      BY <2>1 DEF SpecPreviewsInv
  <1>5. SpecLinksInv
    <2>1. \A q \in SceneCalls : request[q] = Specs!Idle
      BY DEF Specs!Init
    <2>2. request \in [SceneCalls -> SpecRequestRows]
      BY DEF Specs!Init, SpecRequestRows
    <2>3. Specs!Idle.phase = "idle"
      BY DEF Specs!Idle
    <2> QED
      BY <1>1, <2>1, <2>2, <2>3 DEF SpecLinksInv
  <1> QED
    BY <1>2, <1>3, <1>4, <1>5 DEF SpecIInv

LEMMA SpecNextKeeps ==
    ASSUME Specs!SpecificationConstants, SpecIInv, [Specs!Next]_(Specs!vars)
    PROVE  SpecIInv'
  <1>1. ASSUME NEW o \in Options, Specs!OptionStep(o) PROVE SpecIInv'
    <2>1. ASSUME NEW change \in ({o} \X Assets) \cup {Specs!OtherChange}, Specs!Edit(o, change)
                   PROVE SpecIInv'
      <3>1. change \in Specs!Changes
        BY DEF Specs!Changes
      <3> QED
        BY <2>1, <3>1, SpecEditKeeps
    <2>2. ASSUME NEW item \in Assets, Specs!CreatePreview(o, item) PROVE SpecIInv'
      BY <2>2, SpecCreatePreviewKeeps
    <2>3. CASE Specs!ConfirmOption(o)
      BY <2>3, SpecConfirmOptionKeeps
    <2>4. CASE Specs!CreateSpecification(o)
      BY <2>4, SpecCreateSpecificationKeeps
    <2>5. CASE Specs!UpdateSelectionBoard(o)
      BY <2>5, SpecUpdateSelectionBoardKeeps
    <2> QED
      BY <1>1, <2>1, <2>2, <2>3, <2>4, <2>5 DEF Specs!OptionStep
  <1>2. ASSUME NEW q \in SceneCalls, Specs!RequestStep(q) PROVE SpecIInv'
    <2>1. ASSUME NEW p \in DOMAIN previews,
                 Specs!ConfirmSubstitution(q, p) \/ Specs!ConfirmAgain(q, p)
                   \/ Specs!RetryScene(q, p)
          PROVE  SpecIInv'
      <3>1. p \in 1..Len(previews)
        BY DEF SpecIInv, SpecPreviewsInv
      <3> QED
        BY <2>1, <3>1, SpecConfirmSubstitutionKeeps, SpecAskKeeps
    <2>2. ASSUME NEW made \in BOOLEAN, NEW answered \in BOOLEAN,
                   Specs!RequestScene(q, made, answered)
          PROVE  SpecIInv'
      BY <2>2, SpecRequestSceneKeeps
    <2>3. ASSUME NEW noted \in BOOLEAN, Specs!RecordRequested(q, noted) PROVE SpecIInv'
      BY <2>3, SpecRecordRequestedKeeps
    <2>4. CASE Specs!RecordRetryRequired(q)
      BY <2>4, SpecRecordRetryRequiredKeeps
    <2>5. CASE Specs!Crash(q)
      BY <2>5, SpecCrashKeeps
    <2> QED
      BY <1>2, <2>1, <2>2, <2>3, <2>4, <2>5 DEF Specs!RequestStep
  <1>3. ASSUME NEW j \in DesignJobs, Specs!CreateJob(j) PROVE SpecIInv'
    BY <1>3, SpecJobKeeps
  <1>4. ASSUME NEW x, Specs!Expire(x) PROVE SpecIInv'
    BY <1>4, SpecQuietKeeps DEF Specs!Expire
  <1>5. ASSUME NEW item, Specs!Withdraw(item) PROVE SpecIInv'
    BY <1>5, SpecQuietKeeps DEF Specs!Withdraw
  <1>6. CASE UNCHANGED Specs!vars
    BY <1>6, SpecQuietKeeps DEF Specs!vars, Specs!model
  <1> QED
    BY <1>1, <1>2, <1>3, <1>4, <1>5, <1>6 DEF Specs!Next

LEMMA SpecDescriptionsFollow == SpecIInv => Specs!SpecificationsDescribeTheirModel
  <1> SUFFICES ASSUME SpecIInv, NEW o \in DOMAIN specs, NEW r \in DOMAIN specs[o]
               PROVE  /\ specs[o][r].snapshot = <<o, specs[o][r].branchRevision>>
                      /\ specs[o][r].asset = Specs!AssetIn(o, Specs!Content(specs[o][r].snapshot))
    BY DEF Specs!SpecificationsDescribeTheirModel
  <1>1. r \in 1..Len(specs[o])
    BY DEF SpecIInv, SpecsInv, SpecInv
  <1> QED
    BY <1>1 DEF SpecIInv, SpecsInv, SpecInv

LEMMA SpecSubstitutionsFollow == SpecIInv => Specs!SubstitutionsAreTheirPreviews
  <1> SUFFICES ASSUME SpecIInv, NEW p \in DOMAIN previews, previews[p].state = "confirmed"
               PROVE  /\ Specs!ConfirmedRevision(p).branchRevision = previews[p].branchRevision + 1
                      /\ Specs!Content(Specs!ConfirmedRevision(p).snapshot) =
                            Append(Specs!Content(previews[p].base),
                                   Specs!Replacement(previews[p].spec, previews[p].asset))
    BY DEF Specs!SubstitutionsAreTheirPreviews
  <1>1. p \in 1..Len(previews)
    BY DEF SpecIInv, SpecPreviewsInv
  <1>2. SpecIsConfirmed(previews[p])
    BY <1>1 DEF SpecIInv, SpecPreviewsInv, SpecPreviewInv
  <1> QED
    BY <1>2 DEF SpecIsConfirmed, Specs!ConfirmedRevision

LEMMA SpecLinksFollow == SpecIInv => Specs!SceneLinksAreTruthful
  BY DEF SpecIInv, SpecLinksInv, Specs!SceneLinksAreTruthful, Specs!SceneSnapshot

\* What the tables of C12's confirmations and of C13 hold of one another.
THEOREM SpecificationsAreSound ==
    ASSUME Specs!SpecificationConstants
    PROVE  Specs!Spec => []SpecIInv
  BY SpecInitKeeps, SpecNextKeeps, PTL DEF Specs!Spec

\* Every revision of a specification pins a snapshot of its own branch and says
\* of the element what that snapshot holds, whatever C5 commits meanwhile.
THEOREM SpecificationsStayTrue ==
    ASSUME Specs!SpecificationConstants
    PROVE  Specs!Spec => []Specs!SpecificationsDescribeTheirModel
  BY SpecInitKeeps, SpecNextKeeps, SpecDescriptionsFollow, PTL DEF Specs!Spec

\* A confirmed substitution is its preview and nothing else.
THEOREM SpecSubstitutionsStayAsPreviewed ==
    ASSUME Specs!SpecificationConstants
    PROVE  Specs!Spec => []Specs!SubstitutionsAreTheirPreviews
  BY SpecInitKeeps, SpecNextKeeps, SpecSubstitutionsFollow, PTL DEF Specs!Spec

\* A link that says "requested" has the scene job of its confirmed revision.
THEOREM SpecLinksStayTruthful ==
    ASSUME Specs!SpecificationConstants
    PROVE  Specs!Spec => []Specs!SceneLinksAreTruthful
  BY SpecInitKeeps, SpecNextKeeps, SpecLinksFollow, PTL DEF Specs!Spec

-----------------------------------------------------------------------------
(* The branches that confirmations commit to are histories.                *)

SpecReduceContents == [change \in Seq(Specs!Changes) \X Specs!Changes |-> Append(change[1],
  change[2])]

\* What a branch has been stays when the model grows.
LEMMA SpecEntriesStay ==
    ASSUME SpecModelInv, SpecModelGrows, NEW o \in DOMAIN branches,
             NEW r \in 0..branches[o].revision
    PROVE  Specs!Entry(o, r)' = Specs!Entry(o, r)
  <1>1. branches'[o].source = branches[o].source /\ branches[o].source \in DOMAIN snapshots
    BY DEF SpecModelGrows, SpecModelInv, SpecBranchesInv, SpecBranchInv
  <1>2. snapshots'[branches[o].source] = snapshots[branches[o].source]
    BY <1>1 DEF SpecModelGrows
  <1>3. CASE r = 0
    BY <1>1, <1>2, <1>3 DEF Specs!Entry, Specs!Content
  <1>4. CASE r # 0
    <2>1. <<o, r>> \in DOMAIN snapshots
      BY <1>4 DEF SpecModelInv, SpecBranchesInv, SpecBranchInv
    <2>2. snapshots'[<<o, r>>] = snapshots[<<o, r>>]
      BY <2>1 DEF SpecModelGrows
    <2> QED
      BY <1>4, <2>2 DEF Specs!Entry, Specs!Content
  <1> QED
    BY <1>3, <1>4

\* A model that stays shows nothing.
LEMMA SpecStaysShowsNothing ==
    ASSUME UNCHANGED Specs!model
    PROVE  Specs!BranchHistories' = Specs!BranchHistories
  <1>1. snapshots' = snapshots /\ branches' = branches
    BY DEF Specs!model
  <1> QED
    BY <1>1 DEF Specs!BranchHistories, Specs!Entry, Specs!Content

\* A commit is made by operations on the head of its branch.
LEMMA SpecCommitsAreOperations ==
    ASSUME SpecModelInv, NEW o \in DOMAIN branches, NEW change \in Specs!Changes, UNCHANGED base,
           Specs!Commit(snapshots, o, branches[o], Append(Specs!Content(branches[o].head), change))
    PROVE  Specs!History!ProposalNext
  <1>1. PICK n \in Nat : n = branches[o].revision
    BY DEF SpecModelInv, SpecBranchesInv, SpecBranchInv
  <1>2. PICK content : content = Specs!Content(<<o, n>>)
    OBVIOUS
  <1>3. n # 0 /\ branches[o].head = <<o, n>> /\ <<o, n>> \in DOMAIN snapshots
    BY <1>1 DEF SpecModelInv, SpecBranchesInv, SpecBranchInv
  <1>4. content \in Seq(Specs!Changes)
    <2>1. snapshots \in [DOMAIN snapshots -> SpecSnapshotRows]
      BY DEF SpecModelInv, SpecSnapshotsInv
    <2> HIDE DEF Specs!Changes
    <2> QED
      BY <1>2, <1>3, <2>1 DEF SpecSnapshotRows, Specs!Content
  <1>5. /\ SpecModelGrows /\ DOMAIN branches' = DOMAIN branches /\ branches'[o].revision = n + 1
        /\ \A b \in DOMAIN branches : b # o => branches'[b] = branches[b]
        /\ snapshots'[<<o, n + 1>>].content = Append(content, change)
    <2> HIDE DEF Specs!Changes
    <2> QED
      BY <1>1, <1>2, <1>3, SpecCommitGrows
  <1>6. PICK longer \in Seq(Specs!Changes) :
             longer = Append(content, change) /\ Specs!Last(longer) = change
    <2> HIDE DEF Specs!Changes
    <2>1. /\ Append(content, change) \in Seq(Specs!Changes)
          /\ Len(Append(content, change)) = Len(content) + 1
          /\ Append(content, change)[Len(content) + 1] = change
      BY <1>4, AppendProperties
    <2> QED
      BY <2>1 DEF Specs!Last
  <1>7. \A b \in DOMAIN branches : \A r \in 0..branches[b].revision :
          Specs!Entry(b, r)' = Specs!Entry(b, r)
    BY <1>5, SpecEntriesStay
  <1>8. Specs!Entry(o, n + 1)' = Specs!History!Made(longer, change)
    <2>1. Specs!Content(<<o, n + 1>>)' = longer
      BY <1>5, <1>6 DEF Specs!Content
    <2>2. n + 1 # 0
      BY <1>1
    <2> QED
      BY <1>6, <2>1, <2>2 DEF Specs!Entry, Specs!History!Made
  <1>9. /\ DOMAIN Specs!BranchHistories = DOMAIN branches
        /\ \A b \in DOMAIN branches :
              Specs!BranchHistories[b] = [r \in 0..branches[b].revision |-> Specs!Entry(b, r)]
    BY DEF Specs!BranchHistories
  <1>10. /\ Specs!BranchHistories' = [b \in DOMAIN branches |-> Specs!BranchHistories'[b]]
         /\ \A b \in DOMAIN branches :
               Specs!BranchHistories'[b] = [r \in 0..branches'[b].revision |-> Specs!Entry(b, r)']
    BY <1>5 DEF Specs!BranchHistories
  <1>11. Specs!BranchHistories' = [Specs!BranchHistories EXCEPT ![o] =
             Specs!Put(Specs!BranchHistories[o], n + 1, Specs!History!Made(longer, change))]
    <2>1. \A b \in DOMAIN branches : b # o => Specs!BranchHistories'[b] = Specs!BranchHistories[b]
      <3> TAKE b \in DOMAIN branches
      <3> HAVE b # o
      <3>1. branches'[b] = branches[b]
        BY <1>5
      <3>2. \A r \in 0..branches[b].revision : Specs!Entry(b, r)' = Specs!Entry(b, r)
        BY <1>7
      <3>3. [r \in 0..branches[b].revision |-> Specs!Entry(b, r)']
               = [r \in 0..branches[b].revision |-> Specs!Entry(b, r)]
        BY <3>2
      <3>4. Specs!BranchHistories'[b] = [r \in 0..branches[b].revision |-> Specs!Entry(b, r)']
        BY <1>10, <3>1
      <3>5. Specs!BranchHistories[b] = [r \in 0..branches[b].revision |-> Specs!Entry(b, r)]
        BY <1>9
      <3> QED
        BY <3>3, <3>4, <3>5
    <2>2. Specs!BranchHistories'[o] = Specs!Put(Specs!BranchHistories[o], n + 1,
            Specs!History!Made(longer, change))
      <3>1. Specs!BranchHistories[o] = [r \in 0..n |-> Specs!Entry(o, r)]
        BY <1>1, <1>9
      <3>2. Specs!BranchHistories'[o] = [r \in 0..(n + 1) |-> Specs!Entry(o, r)']
        BY <1>5, <1>10
      <3>3. 0..(n + 1) = 0..n \cup {n + 1} /\ n + 1 \notin 0..n
        BY <1>1
      <3>4. \A r \in 0..n : Specs!Entry(o, r)' = Specs!Entry(o, r)
        BY <1>1, <1>7
      <3> QED
        BY <1>8, <3>1, <3>2, <3>3, <3>4 DEF Specs!Put
    <2> QED
      BY <1>9, <1>10, <2>1, <2>2
  <1>12. DOMAIN Specs!BranchHistories[o] = 0..n
    BY <1>1, <1>9
  <1>13. Specs!History!Last(o) = n
    <2>1. \A r \in 0..n : r + 1 \notin 0..n <=> r = n
      BY <1>1
    <2>2. n \in 0..n
      BY <1>1
    <2> QED
      BY <1>12, <2>1, <2>2 DEF Specs!History!Last
  <1>14. Specs!BranchHistories[o][n].content = content
    <2>1. Specs!BranchHistories[o][n] = Specs!Entry(o, n)
      BY <1>1, <1>9
    <2> QED
      BY <1>2, <1>3, <2>1 DEF Specs!Entry
  <1>15. SpecReduceContents[<<content, change>>] = longer
    <2> HIDE DEF Specs!Changes
    <2> QED
      BY <1>4, <1>6 DEF SpecReduceContents
  <1>16. Specs!BranchHistories' # Specs!BranchHistories
    <2>1. DOMAIN Specs!BranchHistories'[o] = 0..(n + 1)
      BY <1>5, <1>10
    <2>2. n + 1 \in 0..(n + 1) /\ n + 1 \notin 0..n
      BY <1>1
    <2> QED
      BY <1>12, <2>1, <2>2
  <1>17. Specs!History!Operate(o, change)
    <2>1. SpecReduceContents[<<Specs!BranchHistories[o][Specs!History!Last(o)].content,
            change>>] = longer
      BY <1>13, <1>14, <1>15
    <2>2. Specs!History!AppendTo(o, Specs!History!Made(longer, change))
      BY <1>11, <1>13 DEF Specs!History!AppendTo, Specs!History!Put, Specs!Put
    <2> QED
      BY <1>6, <2>1, <2>2 DEF Specs!History!Operate, SpecReduceContents
  <1> QED
    BY <1>9, <1>16, <1>17 DEF Specs!History!ProposalNext

\* The confirmation of an option is a proposal.
LEMMA SpecConfirmationsAreProposals ==
    ASSUME Specs!SpecificationConstants, SpecModelInv, NEW o \in Options, Specs!ConfirmOption(o)
    PROVE  Specs!History!ProposalNext
  <1>1. /\ SpecModelGrows /\ DOMAIN branches' = DOMAIN branches \cup {o} /\ o \notin DOMAIN branches
        /\ \A b \in DOMAIN branches : branches'[b] = branches[b]
        /\ branches'[o].revision = 1
    BY SpecConfirmOptionGrows
  <1>2. PICK content \in Seq(Specs!Changes) :
             /\ snapshots'[branches'[o].source].content = content
             /\ snapshots'[<<o, 1>>].content = Append(content, Specs!Bundle(o))
             /\ branches'[o].source \in DOMAIN snapshots \/ content = <<>>
    BY SpecConfirmOptionGrows
  <1>3. PICK change \in Specs!Changes : change = Specs!Bundle(o)
    BY DEF Specs!Bundle, Specs!Changes
  <1>4. PICK longer \in Seq(Specs!Changes) :
             longer = Append(content, change) /\ Specs!Last(longer) = change
    <2> HIDE DEF Specs!Changes
    <2>1. /\ Append(content, change) \in Seq(Specs!Changes)
          /\ Len(Append(content, change)) = Len(content) + 1
          /\ Append(content, change)[Len(content) + 1] = change
      BY AppendProperties
    <2> QED
      BY <2>1 DEF Specs!Last
  <1>5. Specs!Entry(o, 0)' = Specs!History!Taken(content)
          /\ Specs!Entry(o, 1)' = Specs!History!Made(longer, change)
    BY <1>2, <1>3, <1>4 DEF Specs!Entry, Specs!Content, Specs!History!Taken, Specs!History!Made
  <1>6. \A b \in DOMAIN branches : \A r \in 0..branches[b].revision :
          Specs!Entry(b, r)' = Specs!Entry(b, r)
    BY <1>1, SpecEntriesStay
  <1>7. /\ DOMAIN Specs!BranchHistories = DOMAIN branches
        /\ \A b \in DOMAIN branches :
              Specs!BranchHistories[b] = [r \in 0..branches[b].revision |-> Specs!Entry(b, r)]
    BY DEF Specs!BranchHistories
  <1>8. /\ Specs!BranchHistories' = [b \in DOMAIN branches \cup {o} |-> Specs!BranchHistories'[b]]
        /\ \A b \in DOMAIN branches \cup {o} :
              Specs!BranchHistories'[b] = [r \in 0..branches'[b].revision |-> Specs!Entry(b, r)']
    BY <1>1 DEF Specs!BranchHistories
  <1> DEFINE made == [r \in 0..1 |-> IF r = 0 THEN Specs!History!Taken(content)
                                     ELSE Specs!History!Made(SpecReduceContents[<<content,
                                       change>>], change)]
  <1>9. SpecReduceContents[<<content, change>>] = longer
    <2> HIDE DEF Specs!Changes
    <2> QED
      BY <1>4 DEF SpecReduceContents
  <1>10. Specs!BranchHistories'[o] = made
    <2>1. Specs!BranchHistories'[o] = [r \in 0..1 |-> Specs!Entry(o, r)']
      BY <1>1, <1>8
    <2>2. \A r \in 0..1 : r = 0 \/ r = 1
      OBVIOUS
    <2> QED
      BY <1>5, <1>9, <2>1, <2>2
  <1> HIDE DEF made
  <1>11. Specs!BranchHistories' = Specs!Put(Specs!BranchHistories, o, made)
    <2>1. \A b \in DOMAIN branches : Specs!BranchHistories'[b] = Specs!BranchHistories[b]
      BY <1>1, <1>6, <1>7, <1>8
    <2> QED
      BY <1>1, <1>7, <1>8, <1>10, <2>1 DEF Specs!Put
  <1>12. Specs!BranchHistories' # Specs!BranchHistories
    <2>1. o \in DOMAIN Specs!BranchHistories' /\ o \notin DOMAIN Specs!BranchHistories
      BY <1>1, <1>7, <1>8
    <2> QED
      BY <2>1
  <1>13. content \in Specs!History!Recorded \cup {<<>>}
    <2> DEFINE source == branches'[o].source
    <2>1. CASE content = <<>>
      BY <2>1
    <2>2. CASE source \in DOMAIN snapshots /\ content # <<>>
      <3>1. Specs!Content(source) = content
        BY <1>1, <1>2, <2>2 DEF SpecModelGrows, Specs!Content
      <3>2. PICK b \in DOMAIN branches : \E r \in 1..branches[b].revision : source = <<b, r>>
        BY <2>2, <3>1 DEF SpecModelInv, SpecSnapshotsInv
      <3>3. PICK r \in 1..branches[b].revision : source = <<b, r>>
        BY <3>2
      <3>4. branches[b].revision \in Nat
        BY DEF SpecModelInv, SpecBranchesInv, SpecBranchInv
      <3>5. r \in 0..branches[b].revision /\ r # 0
        BY <3>4
      <3>6. Specs!Entry(b, r).content = content
        BY <3>1, <3>3, <3>5 DEF Specs!Entry
      <3>7. Specs!BranchHistories[b][r].content = content /\ r \in DOMAIN Specs!BranchHistories[b]
        BY <1>7, <3>5, <3>6
      <3> QED
        BY <1>7, <3>7 DEF Specs!History!Recorded
    <2> QED
      BY <1>2, <2>1, <2>2
  <1>14. Specs!History!Propose(o, content, change)
    BY <1>1, <1>7, <1>11 DEF Specs!History!Propose, Specs!History!Put, Specs!Put, made,
         SpecReduceContents
  <1> QED
    BY <1>12, <1>13, <1>14 DEF Specs!History!ProposalNext

\* Every step is one of these, or shows nothing.
LEMMA SpecStepsAreHistory ==
    ASSUME Specs!SpecificationConstants, SpecIInv, [Specs!Next]_(Specs!vars)
    PROVE  [Specs!History!ProposalNext]_(Specs!BranchHistories)
  <1>1. ASSUME UNCHANGED Specs!model PROVE [Specs!History!ProposalNext]_(Specs!BranchHistories)
    BY <1>1, SpecStaysShowsNothing
  <1>2. ASSUME NEW o \in Options, Specs!OptionStep(o)
                 PROVE [Specs!History!ProposalNext]_(Specs!BranchHistories)
    <2>1. ASSUME NEW change \in ({o} \X Assets) \cup {Specs!OtherChange}, Specs!Edit(o, change)
          PROVE  Specs!History!ProposalNext
      <3>1. change \in Specs!Changes
        BY DEF Specs!Changes
      <3>2. /\ o \in DOMAIN branches /\ base' = base
            /\ Specs!Commit(snapshots, o, branches[o],
                 Append(Specs!Content(branches[o].head), change))
        BY <2>1 DEF Specs!Edit
      <3> HIDE DEF Specs!Changes
      <3> QED
        BY <3>1, <3>2, SpecCommitsAreOperations DEF SpecIInv
    <2>2. CASE Specs!ConfirmOption(o)
      BY <2>2, SpecConfirmationsAreProposals DEF SpecIInv
    <2>3. CASE Specs!CreateSpecification(o) \/ Specs!UpdateSelectionBoard(o)
               \/ \E item \in Assets : Specs!CreatePreview(o, item)
      BY <1>1, <2>3 DEF Specs!CreateSpecification, Specs!UpdateSelectionBoard, Specs!CreatePreview
    <2> QED
      BY <1>2, <2>1, <2>2, <2>3 DEF Specs!OptionStep
  <1>3. ASSUME NEW q \in SceneCalls, NEW p \in DOMAIN previews, Specs!ConfirmSubstitution(q, p)
        PROVE  Specs!History!ProposalNext
    <2>1. p \in 1..Len(previews)
      BY DEF SpecIInv, SpecPreviewsInv
    <2>2. PICK preview \in SpecPreviewRows : preview = previews[p]
      BY <2>1 DEF SpecIInv, SpecPreviewsInv
    <2>3. PICK o : o = preview.spec
      OBVIOUS
    <2>4. PICK change : change = Specs!Replacement(o, preview.asset)
      OBVIOUS
    <2>5. o \in DOMAIN branches /\ o \in Options
      BY <2>1, <2>2, <2>3 DEF SpecIInv, SpecsInv, SpecPreviewsInv, SpecPreviewInv, SpecModelInv,
           SpecBranchesInv
    <2>6. change \in Specs!Changes
      BY <2>2, <2>4, <2>5 DEF Specs!Replacement, Specs!Changes, SpecPreviewRows
    <2>7. /\ base' = base
          /\ Specs!Commit(snapshots, o, branches[o],
               Append(Specs!Content(branches[o].head), change))
      BY <1>3, <2>2, <2>3, <2>4 DEF Specs!ConfirmSubstitution
    <2> HIDE DEF Specs!Changes
    <2> QED
      BY <2>5, <2>6, <2>7, SpecCommitsAreOperations DEF SpecIInv
  <1>4. ASSUME NEW q \in SceneCalls, Specs!RequestStep(q)
                 PROVE [Specs!History!ProposalNext]_(Specs!BranchHistories)
    <2>1. ASSUME NEW p \in DOMAIN previews, Specs!ConfirmAgain(q, p) \/ Specs!RetryScene(q, p)
          PROVE  UNCHANGED Specs!model
      BY <2>1 DEF Specs!ConfirmAgain, Specs!RetryScene
    <2>2. ASSUME NEW made \in BOOLEAN, NEW answered \in BOOLEAN,
                   Specs!RequestScene(q, made, answered)
          PROVE  UNCHANGED Specs!model
      BY <2>2 DEF Specs!RequestScene
    <2>3. ASSUME NEW noted \in BOOLEAN, Specs!RecordRequested(q, noted)
          PROVE  UNCHANGED Specs!model
      BY <2>3 DEF Specs!RecordRequested
    <2>4. Specs!RecordRetryRequired(q) \/ Specs!Crash(q) => UNCHANGED Specs!model
      BY DEF Specs!RecordRetryRequired, Specs!Crash
    <2> QED
      BY <1>1, <1>3, <1>4, <2>1, <2>2, <2>3, <2>4 DEF Specs!RequestStep
  <1>5. ASSUME NEW j \in DesignJobs, Specs!CreateJob(j) PROVE UNCHANGED Specs!model
    BY <1>5 DEF Specs!CreateJob
  <1>6. ASSUME NEW x, Specs!Expire(x) \/ Specs!Withdraw(x) PROVE UNCHANGED Specs!model
    BY <1>6 DEF Specs!Expire, Specs!Withdraw
  <1>7. CASE UNCHANGED Specs!vars
    <2>1. UNCHANGED Specs!model
      BY <1>7 DEF Specs!vars, Specs!model
    <2> QED
      BY <1>1, <2>1
  <1> QED
    BY <1>1, <1>2, <1>4, <1>5, <1>6, <1>7 DEF Specs!Next

\* The branches that confirmations make and commit to, and that C5 commits to
\* beside them, are append-only histories that begin as proposals.
THEOREM SpecBranchesAreHistories ==
    ASSUME Specs!SpecificationConstants
    PROVE  Specs!Spec => Specs!ImplementsBranchHistory
  <1>1. Specs!Init => Specs!History!Init
    BY DEF Specs!Init, Specs!BranchHistories, Specs!History!Init, Specs!History!NoRows, Specs!NoRows
  <1> QED
    BY <1>1, SpecInitKeeps, SpecNextKeeps, SpecStepsAreHistory, PTL
       DEF Specs!Spec, Specs!ImplementsBranchHistory, Specs!History!ProposalSpec

-----------------------------------------------------------------------------
(* Every part of the system is that part.                                  *)

\* The stamps of a system of records are those of C8.
LEMMA StampsRun == RecordsSpec => Spec
  <1>1. RecordsInit => Init
    BY DEF RecordsInit
  <1>2. [RecordsNext]_recordsVars => [Next]_vars
    BY DEF RecordsNext, recordsVars, StampsNext, UploadNext, CapturesNext, SpecificationsNext,
       TalksNext, BriefsNext, EditorNext, SetupNext, GuidedNext, GeometryNext,
       stamps, vars
  <1> QED
    BY <1>1, <1>2, PTL DEF RecordsSpec, Spec

\* Its uploads are those of C2.
LEMMA UploadsRun == RecordsSpec => Upload!Spec
  <1>1. RecordsInit => Upload!Init
    BY DEF RecordsInit
  <1>2. uploads' = uploads => Upload!vars' = Upload!vars
    BY DEF uploads, Upload!vars, Upload!rows, Upload!clocks, Upload!provider
  <1>3. [RecordsNext]_recordsVars => [Upload!Next]_(Upload!vars)
    BY <1>2 DEF RecordsNext, recordsVars, StampsNext, UploadNext, CapturesNext, SpecificationsNext,
       TalksNext, BriefsNext, EditorNext, SetupNext, GuidedNext,
       GeometryNext
  <1> QED
    BY <1>1, <1>3, PTL DEF RecordsSpec, Upload!Spec

\* Its captures are those of C7.
LEMMA CapturesRun == RecordsSpec => Captures!Spec
  <1>1. RecordsInit => Captures!Init
    BY DEF RecordsInit
  <1>2. captures' = captures => Captures!vars' = Captures!vars
    BY DEF captures, Captures!vars
  <1>3. [RecordsNext]_recordsVars => [Captures!Next]_(Captures!vars)
    BY <1>2 DEF RecordsNext, recordsVars, StampsNext, UploadNext, CapturesNext, SpecificationsNext,
       TalksNext, BriefsNext, EditorNext, SetupNext, GuidedNext,
       GeometryNext
  <1> QED
    BY <1>1, <1>3, PTL DEF RecordsSpec, Captures!Spec

\* Its homes are set up as C1 and C3 do it.
LEMMA SetupRuns == RecordsSpec => Setup!Spec
  <1>1. RecordsInit => Setup!Init
    BY DEF RecordsInit
  <1>2. setups' = setups => Setup!vars' = Setup!vars
    BY DEF setups, Setup!vars
  <1>3. [RecordsNext]_recordsVars => [Setup!Next]_(Setup!vars)
    BY <1>2 DEF RecordsNext, recordsVars, StampsNext, UploadNext, CapturesNext, SpecificationsNext,
       TalksNext, BriefsNext, EditorNext, SetupNext, GuidedNext,
       GeometryNext
  <1> QED
    BY <1>1, <1>3, PTL DEF RecordsSpec, Setup!Spec

\* Its guided capture is that of the iOS client.
LEMMA GuidedRuns == RecordsSpec => Guided!Spec
  <1>1. RecordsInit => Guided!Init
    BY DEF RecordsInit
  <1>2. guideds' = guideds => Guided!vars' = Guided!vars
    BY DEF guideds, Guided!vars, Guided!camera
  <1>3. [RecordsNext]_recordsVars => [Guided!Next]_(Guided!vars)
    BY <1>2 DEF RecordsNext, recordsVars, StampsNext, UploadNext, CapturesNext, SpecificationsNext,
       TalksNext, BriefsNext, EditorNext, SetupNext, GuidedNext,
       GeometryNext
  <1> QED
    BY <1>1, <1>3, PTL DEF RecordsSpec, Guided!Spec

\* Its editor is that of C5.
LEMMA EditorRuns == RecordsSpec => Editor!Spec
  <1>1. RecordsInit => Editor!Init
    BY DEF RecordsInit
  <1>2. editors' = editors => Editor!vars' = Editor!vars
    BY DEF editors, Editor!vars
  <1>3. [RecordsNext]_recordsVars => [Editor!Next]_(Editor!vars)
    BY <1>2 DEF RecordsNext, recordsVars, StampsNext, UploadNext, CapturesNext, SpecificationsNext,
       TalksNext, BriefsNext, EditorNext, SetupNext, GuidedNext,
       GeometryNext
  <1> QED
    BY <1>1, <1>3, PTL DEF RecordsSpec, Editor!Spec

\* Its specifications are those of C12 and C13.
LEMMA SpecificationsRun == RecordsSpec => Specs!Spec
  <1>1. RecordsInit => Specs!Init
    BY DEF RecordsInit
  <1>2. specifications' = specifications => Specs!vars' = Specs!vars
    BY DEF specifications, Specs!vars, Specs!model
  <1>3. SpecificationsNext => Specs!Next
    <2>1. ASSUME NEW size \in {"pairs", "previews", "races"}
          PROVE  /\ JobsIn[size] \subseteq DesignJobs /\ OptionsIn[size] \subseteq Options
                 /\ CallsIn[size] \subseteq SceneCalls
      BY RecordsConstants
    <2> QED
      BY <2>1 DEF SpecificationsNext, Specs!Next
  <1>4. RecordsNext => SpecificationsNext \/ specifications' = specifications
    BY DEF RecordsNext, StampsNext, UploadNext, CapturesNext, TalksNext, BriefsNext, EditorNext,
       SetupNext, GuidedNext, GeometryNext
  <1>5. [RecordsNext]_recordsVars => [Specs!Next]_(Specs!vars)
    BY <1>2, <1>3, <1>4 DEF recordsVars
  <1> QED
    BY <1>1, <1>5, PTL DEF RecordsSpec, Specs!Spec

\* The brief and its consultations of the part that runs: that of one entry
\* and two consultations, or that of two entries and one.
BriefsIInv ==
    /\ part = "briefs" => Briefs!IInv
    /\ part # "briefs" => Talks!IInv

\* At first there is no brief.
LEMMA InitBriefsIInv == RecordsInit => BriefsIInv
  BY Briefs!InitKeeps, Talks!InitKeeps DEF RecordsInit, BriefsIInv

\* What changes the brief is a step of the part that runs.
LEMMA NextBriefsIInv == BriefsIInv /\ [RecordsNext]_recordsVars => BriefsIInv'
  <1> SUFFICES ASSUME BriefsIInv, [RecordsNext]_recordsVars
               PROVE  BriefsIInv'
    OBVIOUS
  <1>1. part' = part
    BY DEF RecordsNext, recordsVars, StampsNext, UploadNext, CapturesNext, SpecificationsNext,
       TalksNext, BriefsNext, EditorNext, SetupNext, GuidedNext, GeometryNext
  <1>2. \/ part = "briefs" /\ Briefs!Next
        \/ part = "talks" /\ Talks!Next
        \/ briefs' = briefs
    BY DEF RecordsNext, recordsVars, StampsNext, UploadNext, CapturesNext, SpecificationsNext,
       TalksNext, BriefsNext, EditorNext, SetupNext, GuidedNext, GeometryNext
  <1>3. briefs' = briefs => Briefs!vars' = Briefs!vars /\ Talks!vars' = Talks!vars
    BY DEF briefs, Briefs!vars, Briefs!briefVars, Briefs!consultationVars,
       Talks!vars, Talks!briefVars, Talks!consultationVars
  <1>4. CASE part = "briefs"
    <2>1. Briefs!IInv /\ [Briefs!Next]_(Briefs!vars)
      BY <1>2, <1>3, <1>4 DEF BriefsIInv
    <2>2. Briefs!IInv'
      BY <2>1, Briefs!NextKeeps
    <2> QED
      BY <1>1, <1>4, <2>2 DEF BriefsIInv
  <1>5. CASE part # "briefs"
    <2>1. Talks!IInv /\ [Talks!Next]_(Talks!vars)
      BY <1>2, <1>3, <1>5 DEF BriefsIInv
    <2>2. Talks!IInv'
      BY <2>1, Talks!NextKeeps
    <2> QED
      BY <1>1, <1>5, <2>2 DEF BriefsIInv
  <1> QED
    BY <1>4, <1>5

\* A brief of one entry is one of the two.
LEMMA TalksAreOfBriefs ==
    ASSUME Talks!BriefInv
    PROVE  Briefs!BriefInv /\ Talks!Operations \subseteq Briefs!Operations
  <1>1. EntriesIn["talks"] \subseteq EntriesIn["briefs"]
    BY RecordsConstants
  <1>2. Talks!Patches \subseteq Briefs!Patches
    BY <1>1 DEF Talks!Patches, Briefs!Patches, Talks!Add, Briefs!Add, Talks!Remove, Briefs!Remove
  <1>3. Talks!Contents \subseteq Briefs!Contents
    BY <1>1 DEF Talks!Contents, Briefs!Contents
  <1>4. revisions \in Seq(Briefs!Contents)
    <2>1. revisions \in Seq(Talks!Contents)
      BY DEF Talks!BriefInv
    <2>2. /\ Len(revisions) \in Nat /\ revisions = [r \in 1..Len(revisions) |-> revisions[r]]
          /\ \A r \in 1..Len(revisions) : revisions[r] \in Talks!Contents
      BY <2>1
    <2> HIDE DEF Talks!Contents, Briefs!Contents
    <2>3. \A r \in 1..Len(revisions) : revisions[r] \in Briefs!Contents
      BY <1>3, <2>2
    <2> QED
      BY <2>2, <2>3
  <1>5. effects \in [DOMAIN effects -> Briefs!Effects]
    <2>1. effects \in [DOMAIN effects -> Talks!Effects]
      BY DEF Talks!BriefInv
    <2>2. Talks!Effects \subseteq Briefs!Effects
      BY <1>2 DEF Talks!Effects, Briefs!Effects, Talks!Accepting, Briefs!Accepting,
         Talks!Nothing, Briefs!Nothing
    <2> QED
      BY <2>1, <2>2
  <1>6. Briefs!EffectsMadeRevisions /\ Briefs!AcceptedAreOnRecord
    BY DEF Talks!BriefInv, Talks!EffectsMadeRevisions, Briefs!EffectsMadeRevisions,
       Talks!AcceptedAreOnRecord, Briefs!AcceptedAreOnRecord, Talks!Become, Briefs!Become,
       Talks!Before, Briefs!Before, Talks!Empty, Briefs!Empty, Talks!Accepting, Briefs!Accepting,
       Talks!Draft, Briefs!Draft, Talks!Patched, Briefs!Patched
  <1>7. Briefs!BriefInv
    BY <1>4, <1>5, <1>6 DEF Talks!BriefInv, Briefs!BriefInv
  <1>8. Talks!Operations \subseteq Briefs!Operations
    BY <1>2 DEF Talks!Operations, Briefs!Operations, Talks!Accepting, Briefs!Accepting
  <1> QED
    BY <1>7, <1>8

\* Whichever brief it is, its revisions are a history.
LEMMA BriefsAreHistories ==
    BriefsIInv /\ [RecordsNext]_recordsVars => [Briefs!History!ProposalNext]_(Briefs!BriefHistory)
  <1> SUFFICES ASSUME BriefsIInv, [RecordsNext]_recordsVars
               PROVE  [Briefs!History!ProposalNext]_(Briefs!BriefHistory)
    OBVIOUS
  <1>1. \/ part = "briefs" /\ Briefs!Next
        \/ part = "talks" /\ Talks!Next
        \/ briefs' = briefs
    BY DEF RecordsNext, recordsVars, StampsNext, UploadNext, CapturesNext, SpecificationsNext,
       TalksNext, BriefsNext, EditorNext, SetupNext, GuidedNext, GeometryNext
  <1>2. briefs' = briefs => Briefs!vars' = Briefs!vars /\ Talks!vars' = Talks!vars
    BY DEF briefs, Briefs!vars, Briefs!briefVars, Briefs!consultationVars,
       Talks!vars, Talks!briefVars, Talks!consultationVars
  <1>3. CASE part = "briefs"
    <2>1. Briefs!IInv /\ [Briefs!Next]_(Briefs!vars)
      BY <1>1, <1>2, <1>3 DEF BriefsIInv
    <2>2. Briefs!BriefInv
      BY <2>1 DEF Briefs!IInv
    <2> QED
      BY <2>1, <2>2, Briefs!StepsOfTheBrief, Briefs!BriefStepsAreHistory
  <1>4. CASE part # "briefs"
    <2>1. Talks!IInv /\ [Talks!Next]_(Talks!vars)
      BY <1>1, <1>2, <1>4 DEF BriefsIInv
    <2>2. Briefs!BriefInv /\ Talks!Operations \subseteq Briefs!Operations
      BY <2>1, TalksAreOfBriefs DEF Talks!IInv
    <2>3. Talks!Quiet => Briefs!Quiet
      BY DEF Talks!Quiet, Briefs!Quiet
    <2>4. ASSUME NEW k, NEW expected, NEW operation, Talks!InsertRevision(k, expected, operation)
          PROVE  Briefs!InsertRevision(k, expected, operation)
      <3>1. Talks!Current = Briefs!Current /\ Talks!Accepting = Briefs!Accepting
        BY DEF Talks!Current, Briefs!Current, Talks!Empty, Briefs!Empty, Talks!Draft, Briefs!Draft,
           Talks!Accepting, Briefs!Accepting
      <3>2. Talks!Become(Talks!Current, operation) = Briefs!Become(Briefs!Current, operation)
        BY <3>1 DEF Talks!Become, Briefs!Become, Talks!Draft, Briefs!Draft, Talks!Patched,
           Briefs!Patched
      <3>3. Talks!CanBecome(Talks!Current, operation)
            <=> Briefs!CanBecome(Briefs!Current, operation)
        BY <3>1 DEF Talks!CanBecome, Briefs!CanBecome, Talks!Nothing, Briefs!Nothing,
           Talks!Applies, Briefs!Applies
      <3>4. Talks!Claim(k) => Briefs!Claim(k)
        <4>1. Talks!Cardinality(DOMAIN effects) = Briefs!Cardinality(DOMAIN effects)
          BY DEF Talks!Cardinality, Briefs!Cardinality
        <4> QED
          BY <4>1 DEF Talks!Claim, Briefs!Claim, Talks!Claimed, Briefs!Claimed
      <3>5. ASSUME NEW revision, Talks!Complete(k, operation, expected, revision)
            PROVE  Briefs!Complete(k, operation, expected, revision)
        BY <3>5 DEF Talks!Complete, Briefs!Complete, Talks!Put, Briefs!Put
      <3>6. Talks!IsCurrent(expected) => Briefs!IsCurrent(expected)
        BY DEF Talks!IsCurrent, Briefs!IsCurrent
      <3> QED
        BY <2>4, <3>1, <3>2, <3>3, <3>4, <3>5, <3>6 DEF Talks!InsertRevision, Briefs!InsertRevision
    <2>5. \/ Talks!Quiet
          \/ \E k, expected : \E operation \in Talks!Operations :
                Talks!InsertRevision(k, expected, operation)
      BY <2>1, Talks!StepsOfTheBrief
    <2>6. \/ Briefs!Quiet
          \/ \E k, expected : \E operation \in Briefs!Operations :
                Briefs!InsertRevision(k, expected, operation)
      BY <2>2, <2>3, <2>4, <2>5
    <2> QED
      BY <2>2, <2>6, Briefs!BriefStepsAreHistory
  <1> QED
    BY <1>3, <1>4

-----------------------------------------------------------------------------
(* What the run of the records checks, of the parts with theorems.         *)

\* In the whole system no stamp of a worker, and no cancellation of a queued
\* job, is refused by the triggers of C8.
THEOREM RecordsStampsPass == RecordsSpec => []StampsPass
  BY StampsRun, StampsAlwaysPass, PTL

\* In the whole system a completed upload of C2 is in the store, of the parts
\* that were declared, and session, asset and job tell the same story.
THEOREM RecordsStoreUploads == RecordsSpec => []CompletedUploadsAreStored
  <1>1. Upload!Spec => []Upload!CompletedUploadsAreStored
    BY UploadCompletedStayStored, RecordsConstants
  <1>2. Upload!Spec => []Upload!JobsAreForCompletedUploads
    BY UploadJobsStayForCompleted, RecordsConstants
  <1> QED
    BY <1>1, <1>2, UploadsRun, PTL DEF CompletedUploadsAreStored

\* In the whole system an upload session of C2 ends once, and no upload that
\* has ended stays open at the provider.
THEOREM RecordsEndUploads == RecordsSpec => EndedUploadsStayClosed
  <1>1. Upload!Spec => []Upload!EndedUploadsAreClosed
    BY UploadEndedStayClosed, RecordsConstants
  <1>2. Upload!Spec => Upload!EndedOnce
    BY UploadSessionsEndOnce, RecordsConstants
  <1>3. [Upload!EndOnce]_(Upload!vars) /\ Upload!EndedUploadsAreClosed'
            => [Upload!EndedUploadsAreClosed' /\ Upload!EndOnce]_uploads
    BY DEF uploads, Upload!vars, Upload!rows, Upload!clocks, Upload!provider
  <1> QED
    BY <1>1, <1>2, <1>3, UploadsRun, PTL DEF EndedUploadsStayClosed, Upload!EndedOnce

\* In the whole system what is shown of a capture of C7 is stored, and may be
\* used.
THEOREM RecordsShowTrueEnvelopes == RecordsSpec => []ShownEnvelopesHold
  <1>1. Captures!Spec => []Captures!ShownEnvelopesHold
    BY Captures!EnvelopesStayTrue
  <1> QED
    BY <1>1, CapturesRun, PTL DEF ShownEnvelopesHold

\* In the whole system a key makes at most one thing of a project, of the kind
\* that was asked with it and on the version its author had seen, and an
\* address that was resolved becomes at most one property (C1, C3).
THEOREM RecordsSetUpAsAsked == RecordsSpec => []SetupIsWhatWasAsked
  <1>1. Setup!Spec => []Setup!SetupIsWhatWasAsked
    BY SetupStaysAsAsked, RecordsConstants
  <1> QED
    BY <1>1, SetupRuns, PTL DEF SetupIsWhatWasAsked

\* In the whole system no command of the editor is lost but by its user, or
\* committed twice.
THEOREM RecordsKeepCommandsOnce == RecordsSpec => CommandsAreKeptOnce
  <1>1. Editor!Spec => []Editor!CommandsCommitOnce
    BY EditorCommandsStayCommittedOnce, RecordsConstants
  <1>2. Editor!Spec => Editor!IntentIsKept
    BY EditorIntentStaysKept, RecordsConstants
  <1>3. [Editor!IntentStep]_(Editor!vars) /\ Editor!CommandsCommitOnce'
            => [Editor!IntentStep /\ Editor!CommandsCommitOnce']_editors
    BY DEF editors, Editor!vars
  <1> QED
    BY <1>1, <1>2, <1>3, EditorRuns, PTL DEF CommandsAreKeptOnce, Editor!IntentIsKept

\* In the whole system every revision of a brief of C11 is what one request
\* made of what it had seen, and a consultation is completed by the
\* confirmation of exactly one of its proposals.
THEOREM RecordsReviseAsAsked == RecordsSpec => []RevisionsAreWhatWasAsked
  <1>1. BriefsIInv => RevisionsAreWhatWasAsked
    BY Briefs!RevisionsFollow, Briefs!SessionsFollow, Talks!RevisionsFollow, Talks!SessionsFollow
    DEF BriefsIInv, RevisionsAreWhatWasAsked
  <1> QED
    BY <1>1, InitBriefsIInv, NextBriefsIInv, PTL DEF RecordsSpec

\* In the whole system what a specification of C13 says of its element is what
\* the snapshot it pins holds, and a confirmed substitution is its preview.
THEOREM RecordsDescribeTheirModel == RecordsSpec => []SpecificationsDescribeTheirModel
  <1>1. Specs!Spec => []Specs!SpecificationsDescribeTheirModel
    BY SpecificationsStayTrue, RecordsConstants
  <1>2. Specs!Spec => []Specs!SubstitutionsAreTheirPreviews
    BY SpecSubstitutionsStayAsPreviewed, RecordsConstants
  <1> QED
    BY <1>1, <1>2, SpecificationsRun, PTL DEF SpecificationsDescribeTheirModel

\* In the whole system a scene link of C13 that says "requested" has its scene
\* job, however its requests raced.
THEOREM RecordsLinkTruthfully == RecordsSpec => []SceneLinksAreTruthful
  <1>1. Specs!Spec => []Specs!SceneLinksAreTruthful
    BY SpecLinksStayTruthful, RecordsConstants
  <1> QED
    BY <1>1, SpecificationsRun, PTL DEF SceneLinksAreTruthful

\* In the whole system what the iOS client has shown as retained is in its
\* journal, views of one segment come from one run of ARKit, and what the app
\* takes for accepted is what the server has accepted.
THEOREM RecordsKeepEvidence == RecordsSpec => []CapturedEvidenceIsKept
  <1>1. Guided!Spec => []Guided!RetainedIsProtected
    BY Guided!RetainedIsAlwaysProtected, RecordsConstants
  <1>2. Guided!Spec => []Guided!SegmentsAreNeverJoined
    BY Guided!SegmentsAreOfOneRun, RecordsConstants
  <1>3. Guided!Spec => []Guided!AcceptancesAreTheServers
    BY Guided!AcceptancesAreAlwaysTheServers, RecordsConstants
  <1> QED
    BY <1>1, <1>2, <1>3, GuidedRuns, PTL DEF CapturedEvidenceIsKept

\* In the whole system the branches that confirmations of C12 and C13 commit to,
\* and the revisions of a brief of C11, keep the promise of C5's branches.
THEOREM RecordsAreHistories == RecordsSpec => ImplementsBranchHistory
  <1>1. Specs!Spec => Specs!ImplementsBranchHistory
    BY SpecBranchesAreHistories, RecordsConstants
  <1>2. RecordsInit => Briefs!History!Init
    BY Briefs!NoBriefIsNoHistory DEF RecordsInit, Talks!Init, Briefs!Init
  <1>3. RecordsSpec => Briefs!ImplementsBranchHistory
    BY <1>2, InitBriefsIInv, NextBriefsIInv, BriefsAreHistories, PTL
       DEF RecordsSpec, Briefs!ImplementsBranchHistory, Briefs!History!ProposalSpec
  <1> QED
    BY <1>1, <1>3, SpecificationsRun, PTL DEF ImplementsBranchHistory
=============================================================================

------------------------ MODULE CaptureSessionsProofs ------------------------
(***************************************************************************)
(* Proofs about CaptureSessions for every set of sessions, artifacts and   *)
(* workers and every bound.  Everything a transaction does to a session    *)
(* and its attempts is one of the few moves of Move, whoever makes it; the *)
(* agreement of the two sides and the refinement of LeasedJobs follow from *)
(* the moves alone.                                                        *)
(***************************************************************************)
EXTENDS CaptureSessions, SequenceTheorems, FiniteSetTheorems, TLAPS

-----------------------------------------------------------------------------
(* The inductive invariant.                                                *)

SessionStates ==
    {"absent", "created", "uploading", "uploaded", "processing", "cancel-requested",
     "proposed", "abstained", "accepted", "cancelled", "failed"}

SessionRow == [state : SessionStates, retryable : BOOLEAN, permitted : BOOLEAN, expired : BOOLEAN]

AttemptStates == {"queued", "leased", "cancel-requested", "cancelled", "failed", "succeeded"}

AttemptRow == [state : AttemptStates, claims : Nat, token : Nat, lapsed : BOOLEAN]

UploadRow ==
    [row : {"absent", "initiated", "uploading", "completed", "aborted"},
     at : {"none", "open", "stored", "gone"}]

ResultRow == [session : Sessions, attempt : Nat, claim : Nat]

Execution ==
    [phase : {"working", "publishing", "abstaining", "failing", "cancelling"},
     session : Sessions, attempt : Nat \ {0}, token : Nat \ {0}, retryable : BOOLEAN]

TypeOK ==
    /\ session \in [Sessions -> SessionRow]
    /\ attempts \in [Sessions -> Seq(AttemptRow)]
    /\ DOMAIN upload = Sessions
    /\ \A s \in Sessions : upload[s] \in [ArtifactsOf[s] -> UploadRow]
    /\ DOMAIN package = Sessions
    /\ results \subseteq ResultRow
    /\ DOMAIN envelope = Sessions
    /\ \A s \in Sessions : envelope[s].plans \subseteq Sessions /\ envelope[s].accepted \in BOOLEAN
    /\ worker \in [Workers -> Execution \cup {Idle}]

Done == {"proposed", "abstained"}

\* The states of a session and of its last attempt that go together.
Pairs ==
    {<<"uploaded", "queued">>, <<"processing", "leased">>,
     <<"cancel-requested", "cancel-requested">>, <<"proposed", "succeeded">>,
     <<"abstained", "succeeded">>, <<"failed", "failed">>, <<"cancelled", "cancelled">>,
     <<"cancelled", "failed">>}

\* The states of a session that may have no attempt.
Unpackaged == {"absent", "created", "uploading", "accepted", "cancelled", "failed"}

\* A row that has a token has the token of its last claim.
TokenAgrees(row) ==
    /\ row.state \in {"leased", "cancel-requested"} => row.claims > 0 /\ row.token = row.claims
    /\ row.state \notin {"leased", "cancel-requested"} => row.token = 0

\* A session and its attempts.
Agree(state, rows) ==
    /\ rows = <<>> => state \in Unpackaged
    /\ rows # <<>> => <<state, rows[Len(rows)].state>> \in Pairs
    /\ \A n \in 1..Len(rows) :
          TokenAgrees(rows[n]) /\ (n # Len(rows) => rows[n].state = "failed")

RowsAgree == \A s \in Sessions : Agree(session[s].state, attempts[s])

\* A session has a result when it is done, and only one.
ResultsAgree ==
    /\ \A s \in Sessions : session[s].state \in Done <=> \E r \in results : r.session = s
    /\ \A r, q \in results : r.session = q.session => r = q

\* A worker's claim is one of its attempt's claims so far.
ClaimIsRecorded(w) ==
    /\ worker[w].attempt \in 1..Len(attempts[worker[w].session])
    /\ worker[w].token <= Row(w).claims

ClaimsAreRecorded == \A w \in Workers : worker[w] # Idle => ClaimIsRecorded(w)

UploadStates == {"absent", "created", "uploading", "accepted"}

\* What is packaged, and what an accepted envelope was made of, stays.
UploadsAgree(s) ==
    /\ \A a \in Completed(s) : upload[s][a].at = "stored"
    /\ package[s] # NoPackage <=> attempts[s] # <<>>
    /\ package[s] # NoPackage => package[s] = Registered(s) /\ package[s] = Completed(s)
    /\ session[s].state \notin UploadStates => \A a \in ArtifactsOf[s] : ~IsOpen(upload[s][a])

EnvelopeAgrees(s) ==
    envelope[s].accepted =>
        /\ session[s].state = "accepted"
        /\ envelope[s].depth \subseteq Completed(s)
        /\ \A p \in envelope[s].plans : session[p].state \in Done

IInv ==
    /\ TypeOK
    /\ RowsAgree
    /\ ResultsAgree
    /\ ClaimsAreRecorded
    /\ \A s \in Sessions : UploadsAgree(s)
    /\ \A s \in Sessions : EnvelopeAgrees(s)

-----------------------------------------------------------------------------
(* What a transaction does to a session's state and attempts.              *)

\* The ways an attempt ends: the session's state before and after, and the
\* attempt's.
Ends ==
    {<<"uploaded", "cancelled", "cancelled">>, <<"uploaded", "failed", "failed">>,
     <<"processing", "failed", "failed">>, <<"cancel-requested", "cancelled", "cancelled">>,
     <<"processing", "proposed", "succeeded">>, <<"processing", "abstained", "succeeded">>}

Leases(state, old, newState, new) ==
    /\ state \in {"uploaded", "processing"} /\ newState = "processing"
    /\ new.state = "leased" /\ new.claims = old.claims + 1 /\ new.token = new.claims

Lapses(state, old, newState, new) ==
    newState = state /\ new.state = old.state /\ new.claims = old.claims /\ new.token = old.token

Stops(state, old, newState, new) ==
    /\ state = "processing" /\ newState = "cancel-requested"
    /\ new.state = "cancel-requested" /\ new.claims = old.claims /\ new.token = old.token

EndsWith(state, old, newState, new) ==
    /\ <<state, newState, new.state>> \in Ends
    /\ new.claims = old.claims /\ new.token = 0

\* The last attempt is changed.
Replaces(state, rows, newState, newRows) ==
    /\ rows # <<>>
    /\ \E new \in AttemptRow :
          /\ newRows = WithLast(rows, new)
          /\ \/ Leases(state, rows[Len(rows)], newState, new)
             \/ Lapses(state, rows[Len(rows)], newState, new)
             \/ Stops(state, rows[Len(rows)], newState, new)
             \/ EndsWith(state, rows[Len(rows)], newState, new)

\* The session changes under attempts that stay as they are.
Alone(state, rows, newState, newRows) ==
    /\ newRows = rows
    /\ \/ newState = state
       \/ rows = <<>> /\ state \notin {"accepted", "cancelled"} /\ newState \in Unpackaged
       \/ state = "failed" /\ newState = "cancelled"

\* An attempt is queued: the first, or one more.
Queues(state, rows, newState, newRows) ==
    /\ newState = "uploaded"
    /\ \/ state = "uploading" /\ rows = <<>> /\ newRows = <<QueuedAttempt>>
       \/ /\ state = "failed" /\ rows # <<>> /\ Len(rows) < MaximumAttempts
          /\ newRows = Append(rows, QueuedAttempt)

Move(state, rows, newState, newRows) ==
    \/ Alone(state, rows, newState, newRows)
    \/ Queues(state, rows, newState, newRows)
    \/ Replaces(state, rows, newState, newRows)

LEMMA LastReplaced ==
    ASSUME NEW rows \in Seq(AttemptRow), rows # <<>>, NEW new \in AttemptRow
    PROVE  /\ WithLast(rows, new) \in Seq(AttemptRow) /\ WithLast(rows, new) # <<>>
           /\ Len(WithLast(rows, new)) = Len(rows) /\ Len(rows) \in 1..Len(rows)
           /\ WithLast(rows, new)[Len(rows)] = new
           /\ \A n \in 1..Len(rows) : n # Len(rows) => WithLast(rows, new)[n] = rows[n]
  <1>1. Len(rows) \in 1..Len(rows)
    OBVIOUS
  <1>2. /\ [rows EXCEPT ![Len(rows)] = new] \in Seq(AttemptRow)
        /\ Len([rows EXCEPT ![Len(rows)] = new]) = Len(rows)
        /\ \A n \in 1..Len(rows) :
              [rows EXCEPT ![Len(rows)] = new][n] = IF n = Len(rows) THEN new ELSE rows[n]
    BY <1>1, ExceptSeq
  <1> DEFINE q == WithLast(rows, new)
  <1>3. /\ q \in Seq(AttemptRow) /\ Len(q) = Len(rows)
        /\ \A n \in 1..Len(rows) : q[n] = IF n = Len(rows) THEN new ELSE rows[n]
    BY <1>2 DEF WithLast
  <1> HIDE DEF q
  <1>4. q # <<>>
    BY <1>1, <1>3
  <1>5. q[Len(rows)] = new /\ \A n \in 1..Len(rows) : n # Len(rows) => q[n] = rows[n]
    BY <1>1, <1>3
  <1> QED
    BY <1>1, <1>3, <1>4, <1>5 DEF q

LEMMA OneMore ==
    ASSUME NEW rows \in Seq(AttemptRow)
    PROVE  /\ QueuedAttempt \in AttemptRow
           /\ Append(rows, QueuedAttempt) \in Seq(AttemptRow)
           /\ Append(rows, QueuedAttempt) # <<>>
           /\ Len(Append(rows, QueuedAttempt)) = Len(rows) + 1
           /\ Append(rows, QueuedAttempt)[Len(rows) + 1] = QueuedAttempt
           /\ \A n \in 1..Len(rows) : Append(rows, QueuedAttempt)[n] = rows[n]
  <1>1. QueuedAttempt \in AttemptRow
    BY DEF QueuedAttempt, AttemptRow, AttemptStates
  <1> QED
    BY <1>1, AppendProperties

\* The claims of attempts that were never grow fewer.
Grows(rows, newRows) ==
    /\ Len(newRows) >= Len(rows)
    /\ \A n \in 1..Len(rows) : newRows[n].claims >= rows[n].claims

\* Every move keeps the agreement of a session and its attempts.
LEMMA MovesAgree ==
    ASSUME NEW state \in SessionStates, NEW rows \in Seq(AttemptRow),
           NEW newState \in SessionStates, NEW newRows,
           Agree(state, rows), Move(state, rows, newState, newRows)
    PROVE  /\ newRows \in Seq(AttemptRow)
           /\ Agree(newState, newRows)
           /\ Grows(rows, newRows)
           /\ rows # <<>> => newRows # <<>>
           /\ state \in Done \cup {"accepted"} => newState = state
  <1>0. Len(rows) \in Nat /\ \A n \in 1..Len(rows) : rows[n] \in AttemptRow /\ rows[n].claims \in Nat
    <2>1. Len(rows) \in Nat /\ \A n \in 1..Len(rows) : rows[n] \in AttemptRow
      OBVIOUS
    <2> QED
      BY <2>1 DEF AttemptRow
  <1>1. CASE Alone(state, rows, newState, newRows)
    BY <1>0, <1>1 DEF Alone, Agree, Grows, Unpackaged, Pairs, Done
  <1>2. CASE Queues(state, rows, newState, newRows)
    <2>1. CASE rows = <<>>
      <3>1. newRows = <<QueuedAttempt>> /\ newState = "uploaded" /\ state = "uploading"
        BY <1>2, <2>1 DEF Queues
      <3>2. Len(newRows) = 1 /\ newRows[1] = QueuedAttempt /\ newRows # <<>>
        BY <3>1
      <3>3. TokenAgrees(QueuedAttempt) /\ <<"uploaded", QueuedAttempt.state>> \in Pairs
        BY DEF TokenAgrees, QueuedAttempt, Pairs
      <3>4. newRows \in Seq(AttemptRow)
        BY <3>1, OneMore
      <3> QED
        BY <2>1, <3>1, <3>2, <3>3, <3>4 DEF Agree, Grows, Done
    <2>2. CASE rows # <<>>
      <3>1. newRows = Append(rows, QueuedAttempt) /\ newState = "uploaded" /\ state = "failed"
        BY <1>2, <2>2 DEF Queues
      <3>2. rows[Len(rows)].state = "failed"
        BY <2>2, <3>1 DEF Agree, Pairs
      <3>3. TokenAgrees(QueuedAttempt) /\ <<"uploaded", QueuedAttempt.state>> \in Pairs
        BY DEF TokenAgrees, QueuedAttempt, Pairs
      <3> DEFINE last == Len(rows) + 1
      <3>0. /\ Len(newRows) = last /\ newRows[last] = QueuedAttempt /\ newRows # <<>>
            /\ \A n \in 1..Len(rows) : newRows[n] = rows[n]
        BY <3>1, OneMore
      <3>5. ASSUME NEW n \in 1..last PROVE TokenAgrees(newRows[n]) /\ (n # last => newRows[n].state = "failed")
        <4>1. CASE n = last
          BY <3>0, <3>3, <4>1
        <4>2. CASE n \in 1..Len(rows)
          BY <3>0, <3>2, <4>2 DEF Agree
        <4> QED
          BY <1>0, <4>1, <4>2
      <3> HIDE DEF last
      <3>4. Agree(newState, newRows)
        BY <3>0, <3>1, <3>3, <3>5 DEF Agree
      <3> QED
        BY <1>0, <3>1, <3>4, OneMore DEF Grows, Done
    <2> QED
      BY <2>1, <2>2
  <1>3. CASE Replaces(state, rows, newState, newRows)
    <2> DEFINE old == rows[Len(rows)]
    <2>1. PICK new \in AttemptRow :
             /\ rows # <<>> /\ newRows = WithLast(rows, new)
             /\ \/ Leases(state, old, newState, new)
                \/ Lapses(state, old, newState, new)
                \/ Stops(state, old, newState, new)
                \/ EndsWith(state, old, newState, new)
      BY <1>3 DEF Replaces
    <2>2. old \in AttemptRow /\ <<state, old.state>> \in Pairs /\ TokenAgrees(old)
      BY <1>0, <2>1 DEF Agree
    <2>3. old.claims \in Nat /\ new.claims \in Nat /\ new.claims >= old.claims
      BY <2>1, <2>2 DEF AttemptRow, Leases, Lapses, Stops, EndsWith
    <2>4. <<newState, new.state>> \in Pairs /\ TokenAgrees(new)
      <3>1. CASE Leases(state, old, newState, new)
        BY <2>2, <2>3, <3>1 DEF Leases, Pairs, TokenAgrees
      <3>2. CASE Lapses(state, old, newState, new)
        BY <2>2, <2>3, <3>2 DEF Lapses, Pairs, TokenAgrees
      <3>3. CASE Stops(state, old, newState, new)
        BY <2>2, <2>3, <3>3 DEF Stops, Pairs, TokenAgrees
      <3>4. CASE EndsWith(state, old, newState, new)
        BY <2>2, <2>3, <3>4 DEF EndsWith, Ends, Pairs, TokenAgrees
      <3> QED
        BY <2>1, <3>1, <3>2, <3>3, <3>4
    <2>5. /\ newRows \in Seq(AttemptRow) /\ newRows # <<>> /\ Len(newRows) = Len(rows)
          /\ newRows[Len(rows)] = new
          /\ \A n \in 1..Len(rows) : n # Len(rows) => newRows[n] = rows[n]
      BY <2>1, LastReplaced
    <2> HIDE DEF old
    <2>6. Agree(newState, newRows)
      BY <2>4, <2>5 DEF Agree
    <2>7. Grows(rows, newRows)
      BY <1>0, <2>3, <2>5 DEF Grows, old
    <2>8. state \in Done \cup {"accepted"} => newState = state
      BY <2>1, <2>2 DEF Leases, Lapses, Stops, EndsWith, Ends, Pairs, Done
    <2> QED
      BY <2>5, <2>6, <2>7, <2>8
  <1> QED
    BY <1>1, <1>2, <1>3 DEF Move

-----------------------------------------------------------------------------
(* What a step of the whole does.                                          *)

RowsMove ==
    /\ session' \in [Sessions -> SessionRow] /\ attempts' \in [Sessions -> Seq(AttemptRow)]
    /\ \A s \in Sessions : Move(session[s].state, attempts[s], session'[s].state, attempts'[s])

\* The result of the last attempt's last claim.
ResultOf(s) == [session |-> s, attempt |-> Len(attempts[s]), claim |-> ClaimsOf(attempts[s])]

Finishes(s) ==
    /\ session[s].state = "processing" /\ session'[s].state \in Done
    /\ results' = results \cup {ResultOf(s)}
    /\ \A t \in Sessions \ {s} : session'[t].state = session[t].state

ResultsMove ==
    \/ /\ results' = results
       /\ \A s \in Sessions : session'[s].state \in Done => session[s].state \in Done
    \/ \E s \in Sessions : Finishes(s)

\* Each worker goes on with what it does, or stops.
WorkersFollow ==
    /\ DOMAIN worker' = Workers /\ worker' = [w \in Workers |-> worker'[w]]
    /\ \A w \in Workers :
          \/ worker'[w] = worker[w]
          \/ worker'[w] = Idle
          \/ /\ worker[w] \in Execution /\ worker'[w] \in Execution
             /\ worker'[w].session = worker[w].session /\ worker'[w].attempt = worker[w].attempt
             /\ worker'[w].token = worker[w].token

LEMMA ExecutionsAreNotIdle ==
    \A e \in Execution :
        /\ e # Idle /\ e.session \in Sessions
        /\ e.attempt \in Nat \ {0} /\ e.token \in Nat \ {0}
  BY DEF Execution, Idle

\* The rows of a session before a step.
LEMMA PresentRows ==
    ASSUME IInv, NEW s \in Sessions
    PROVE  /\ TypeOK /\ session[s] \in SessionRow /\ session[s].state \in SessionStates
           /\ attempts[s] \in Seq(AttemptRow) /\ Agree(session[s].state, attempts[s])
           /\ UploadsAgree(s) /\ EnvelopeAgrees(s)
           /\ upload[s] \in [ArtifactsOf[s] -> UploadRow]
  BY DEF IInv, TypeOK, RowsAgree, SessionRow

LEMMA MovesOfAStep ==
    ASSUME IInv, RowsMove, NEW s \in Sessions
    PROVE  /\ Agree(session'[s].state, attempts'[s])
           /\ Grows(attempts[s], attempts'[s])
           /\ attempts[s] # <<>> => attempts'[s] # <<>>
           /\ session[s].state \in Done \cup {"accepted"} => session'[s].state = session[s].state
  <1>1. session'[s].state \in SessionStates
    BY DEF RowsMove, SessionRow
  <1>2. Move(session[s].state, attempts[s], session'[s].state, attempts'[s])
    BY DEF RowsMove
  <1> QED
    BY <1>1, <1>2, PresentRows, MovesAgree

LEMMA ResultsKept ==
    ASSUME IInv, RowsMove, ResultsMove
    PROVE  ResultsAgree' /\ results' \subseteq ResultRow
  <1>0. results \subseteq ResultRow /\ ResultsAgree
    BY DEF IInv, TypeOK
  <1>1. \A s \in Sessions : session[s].state \in Done => session'[s].state = session[s].state
    BY MovesOfAStep
  <1>2. CASE /\ results' = results
             /\ \A s \in Sessions : session'[s].state \in Done => session[s].state \in Done
    BY <1>0, <1>1, <1>2 DEF ResultsAgree
  <1>3. ASSUME NEW s \in Sessions, Finishes(s)
        PROVE  ResultsAgree' /\ results' \subseteq ResultRow
    <2>1. ResultOf(s) \in ResultRow /\ ResultOf(s).session = s
      <3>1. attempts[s] \in Seq(AttemptRow) /\ attempts[s] # <<>>
        BY <1>3, PresentRows DEF Agree, Unpackaged, Finishes
      <3>2. Len(attempts[s]) \in Nat /\ attempts[s][Len(attempts[s])] \in AttemptRow
        BY <3>1
      <3>3. ClaimsOf(attempts[s]) \in Nat
        BY <3>1, <3>2 DEF ClaimsOf, AttemptRow
      <3> QED
        BY <3>2, <3>3 DEF ResultOf, ResultRow
    <2>2. session[s].state \notin Done /\ ~\E r \in results : r.session = s
      BY <1>0, <1>3 DEF Finishes, Done, ResultsAgree
    <2> QED
      BY <1>0, <1>3, <2>1, <2>2 DEF Finishes, ResultsAgree
  <1> QED
    BY <1>2, <1>3, <1>0 DEF ResultsMove

LEMMA ClaimStays ==
    ASSUME IInv, RowsMove, NEW w \in Workers, worker[w] \in Execution,
           worker'[w].session = worker[w].session, worker'[w].attempt = worker[w].attempt,
           worker'[w].token = worker[w].token
    PROVE  ClaimIsRecorded(w)'
  <1>1. PICK s \in Sessions : s = worker[w].session
    BY ExecutionsAreNotIdle
  <1>2. PICK n : n = worker[w].attempt
    OBVIOUS
  <1>3. worker[w].token \in Nat
    BY ExecutionsAreNotIdle
  <1>4. n \in 1..Len(attempts[s]) /\ worker[w].token <= attempts[s][n].claims
    BY <1>1, <1>2, ExecutionsAreNotIdle DEF IInv, ClaimsAreRecorded, ClaimIsRecorded, Row
  <1>5. /\ Len(attempts'[s]) >= Len(attempts[s])
        /\ attempts'[s][n].claims >= attempts[s][n].claims
    BY <1>4, MovesOfAStep DEF Grows
  <1>6. attempts[s] \in Seq(AttemptRow) /\ attempts'[s] \in Seq(AttemptRow)
    BY PresentRows DEF RowsMove
  <1>7. Len(attempts'[s]) \in Nat /\ Len(attempts[s]) \in Nat /\ n \in 1..Len(attempts'[s])
    BY <1>4, <1>5, <1>6
  <1>8. attempts[s][n].claims \in Nat /\ attempts'[s][n].claims \in Nat
    <2>1. attempts[s][n] \in AttemptRow /\ attempts'[s][n] \in AttemptRow
      BY <1>4, <1>6, <1>7
    <2> QED
      BY <2>1 DEF AttemptRow
  <1>9. worker'[w].token <= attempts'[s][n].claims
    BY <1>3, <1>4, <1>5, <1>8
  <1> QED
    BY <1>1, <1>2, <1>7, <1>9 DEF ClaimIsRecorded, Row

LEMMA ClaimsKept ==
    ASSUME IInv, RowsMove, WorkersFollow
    PROVE  worker' \in [Workers -> Execution \cup {Idle}] /\ ClaimsAreRecorded'
  <1>1. worker' \in [Workers -> Execution \cup {Idle}]
    BY DEF WorkersFollow, IInv, TypeOK
  <1>2. ASSUME NEW w \in Workers, worker'[w] # Idle
        PROVE  ClaimIsRecorded(w)'
    <2>1. /\ worker[w] \in Execution /\ worker'[w].session = worker[w].session
          /\ worker'[w].attempt = worker[w].attempt /\ worker'[w].token = worker[w].token
      BY <1>2 DEF WorkersFollow, IInv, TypeOK
    <2> QED
      BY <2>1, ClaimStays
  <1> QED
    BY <1>1, <1>2 DEF ClaimsAreRecorded

\* Uploads that are neither completed nor registered by a step.
KeepsUploads(s) ==
    /\ upload'[s] \in [ArtifactsOf[s] -> UploadRow]
    /\ \A a \in ArtifactsOf[s] :
          /\ upload'[s][a].row = "absent" <=> upload[s][a].row = "absent"
          /\ upload'[s][a].row = "completed" <=> upload[s][a].row = "completed"
          /\ upload[s][a].row = "completed" => upload'[s][a].at = upload[s][a].at
          /\ IsOpen(upload'[s][a]) => IsOpen(upload[s][a])

NoneOpen(s) == \A a \in ArtifactsOf[s] : ~IsOpen(upload'[s][a])

LEMMA UploadsKept ==
    ASSUME IInv, RowsMove, NEW s \in Sessions, KeepsUploads(s), package'[s] = package[s],
           attempts'[s] = <<>> <=> attempts[s] = <<>>,
           \/ session'[s].state \in UploadStates
           \/ session[s].state \notin UploadStates
           \/ NoneOpen(s)
    PROVE  UploadsAgree(s)' /\ Completed(s)' = Completed(s)
  <1>1. Completed(s)' = Completed(s) /\ Registered(s)' = Registered(s)
    BY DEF KeepsUploads, Completed, Registered
  <1>2. UploadsAgree(s)
    BY PresentRows
  <1>3. \A a \in Completed(s)' : upload'[s][a].at = "stored"
    BY <1>1, <1>2 DEF UploadsAgree, KeepsUploads, Completed
  <1>4. session'[s].state \notin UploadStates => NoneOpen(s)
    BY <1>2 DEF UploadsAgree, KeepsUploads, NoneOpen
  <1> QED
    BY <1>1, <1>2, <1>3, <1>4 DEF UploadsAgree, NoneOpen, NoPackage

\* Before its package an upload may be registered, and completed.
LEMMA UploadsGrow ==
    ASSUME IInv, RowsMove, NEW s \in Sessions, TakesArtifacts(s),
           upload'[s] \in [ArtifactsOf[s] -> UploadRow],
           \A a \in ArtifactsOf[s] :
              /\ upload[s][a].row = "completed" =>
                    upload'[s][a].row = "completed" /\ upload'[s][a].at = upload[s][a].at
              /\ upload'[s][a].row = "completed" =>
                    upload[s][a].row = "completed" \/ upload'[s][a].at = "stored",
           package'[s] = package[s], attempts'[s] = attempts[s],
           session'[s].state \in UploadStates
    PROVE  UploadsAgree(s)' /\ Completed(s) \subseteq Completed(s)'
  <1>1. UploadsAgree(s) /\ attempts[s] = <<>>
    BY PresentRows DEF TakesArtifacts, Agree, Pairs
  <1>2. Completed(s) \subseteq Completed(s)'
    BY DEF Completed
  <1>3. \A a \in Completed(s)' : upload'[s][a].at = "stored"
    BY <1>1 DEF UploadsAgree, Completed
  <1> QED
    BY <1>1, <1>2, <1>3 DEF UploadsAgree

LEMMA EnvelopesKept ==
    ASSUME IInv, RowsMove, envelope' = envelope,
           \A s \in Sessions : Completed(s) \subseteq Completed(s)'
    PROVE  \A s \in Sessions : EnvelopeAgrees(s)'
  <1>1. \A s \in Sessions : session[s].state \in Done \cup {"accepted"} => session'[s].state = session[s].state
    BY MovesOfAStep
  <1> SUFFICES ASSUME NEW s \in Sessions, envelope[s].accepted PROVE EnvelopeAgrees(s)'
    BY DEF EnvelopeAgrees
  <1>2. EnvelopeAgrees(s) /\ envelope[s].plans \subseteq Sessions
    BY PresentRows DEF TypeOK
  <1> QED
    BY <1>1, <1>2 DEF EnvelopeAgrees

\* What the parts make of a step.
LEMMA StepHolds ==
    ASSUME IInv, RowsMove, ResultsMove,
           worker' \in [Workers -> Execution \cup {Idle}], ClaimsAreRecorded',
           DOMAIN upload' = Sessions, DOMAIN package' = Sessions, DOMAIN envelope' = Sessions,
           \A s \in Sessions :
              upload'[s] \in [ArtifactsOf[s] -> UploadRow] /\ UploadsAgree(s)',
           \A s \in Sessions :
              /\ envelope'[s].plans \subseteq Sessions /\ envelope'[s].accepted \in BOOLEAN
              /\ EnvelopeAgrees(s)'
    PROVE  IInv'
  <1>1. ResultsAgree' /\ results' \subseteq ResultRow
    BY ResultsKept
  <1>2. TypeOK'
    BY <1>1 DEF TypeOK, RowsMove
  <1>3. RowsAgree'
    BY MovesOfAStep DEF RowsAgree
  <1> QED
    BY <1>1, <1>2, <1>3 DEF IInv

\* A step that leaves packages and envelopes alone, and registers and
\* completes no upload.
LEMMA RowsStep ==
    ASSUME IInv, RowsMove, ResultsMove, UNCHANGED <<package, envelope>>,
           worker' \in [Workers -> Execution \cup {Idle}], ClaimsAreRecorded',
           DOMAIN upload' = Sessions,
           \A s \in Sessions :
              /\ KeepsUploads(s)
              /\ attempts'[s] = <<>> <=> attempts[s] = <<>>
              /\ \/ session'[s].state \in UploadStates
                 \/ session[s].state \notin UploadStates
                 \/ NoneOpen(s)
    PROVE  IInv'
  <1>1. \A s \in Sessions : UploadsAgree(s)' /\ Completed(s)' = Completed(s)
    BY UploadsKept
  <1>2. \A s \in Sessions : EnvelopeAgrees(s)'
    BY <1>1, EnvelopesKept
  <1>3. DOMAIN package' = Sessions /\ DOMAIN envelope' = Sessions
        /\ \A s \in Sessions : envelope'[s].plans \subseteq Sessions /\ envelope'[s].accepted \in BOOLEAN
    BY DEF IInv, TypeOK
  <1>4. \A s \in Sessions : upload'[s] \in [ArtifactsOf[s] -> UploadRow]
    BY DEF KeepsUploads
  <1> QED
    BY <1>1, <1>2, <1>3, <1>4, StepHolds

LEMMA PlainStep ==
    ASSUME IInv, RowsMove, ResultsMove, WorkersFollow, UNCHANGED <<package, envelope>>,
           DOMAIN upload' = Sessions,
           \A s \in Sessions :
              /\ KeepsUploads(s)
              /\ attempts'[s] = <<>> <=> attempts[s] = <<>>
              /\ \/ session'[s].state \in UploadStates
                 \/ session[s].state \notin UploadStates
                 \/ NoneOpen(s)
    PROVE  IInv'
  BY ClaimsKept, RowsStep

\* Uploads that no step touches.
LEMMA UploadsStay ==
    ASSUME TypeOK, upload' = upload
    PROVE  DOMAIN upload' = Sessions /\ \A s \in Sessions : KeepsUploads(s)
  BY DEF TypeOK, KeepsUploads

LEMMA UploadRewritten ==
    ASSUME TypeOK, NEW s \in Sessions, upload' = [upload EXCEPT ![s] = upload[s]]
    PROVE  DOMAIN upload' = Sessions /\ \A t \in Sessions : KeepsUploads(t)
  <1>1. DOMAIN upload' = Sessions /\ \A t \in Sessions : upload'[t] = upload[t]
    BY DEF TypeOK
  <1> QED
    BY <1>1 DEF TypeOK, KeepsUploads

\* One session and its attempts move.
LEMMA OneMoves ==
    ASSUME IInv, NEW s \in Sessions, NEW aRow \in SessionRow, NEW rows,
           session' = [session EXCEPT ![s] = aRow], attempts' = [attempts EXCEPT ![s] = rows],
           Move(session[s].state, attempts[s], aRow.state, rows)
    PROVE  /\ RowsMove
           /\ session'[s] = aRow /\ attempts'[s] = rows
           /\ \A t \in Sessions \ {s} : session'[t] = session[t] /\ attempts'[t] = attempts[t]
  <1>1. session \in [Sessions -> SessionRow] /\ attempts \in [Sessions -> Seq(AttemptRow)]
    BY DEF IInv, TypeOK
  <1>2. aRow.state \in SessionStates
    BY DEF SessionRow
  <1>3. rows \in Seq(AttemptRow)
    BY <1>2, PresentRows, MovesAgree
  <1>4. /\ session'[s] = aRow /\ attempts'[s] = rows
        /\ \A t \in Sessions \ {s} : session'[t] = session[t] /\ attempts'[t] = attempts[t]
    BY <1>1
  <1>5. session' \in [Sessions -> SessionRow] /\ attempts' \in [Sessions -> Seq(AttemptRow)]
    BY <1>1, <1>3
  <1>6. \A t \in Sessions \ {s} : Move(session[t].state, attempts[t], session'[t].state, attempts'[t])
    BY <1>4 DEF Move, Alone
  <1> QED
    BY <1>4, <1>5, <1>6 DEF RowsMove

LEMMA RowAfter ==
    ASSUME NEW row \in SessionRow, NEW state \in SessionStates, NEW retryable \in BOOLEAN
    PROVE  /\ SessionBecomes(row, state, retryable) \in SessionRow
           /\ SessionBecomes(row, state, retryable).state = state
  BY DEF SessionBecomes, SessionRow

LEMMA AttemptAfter ==
    ASSUME NEW row \in AttemptRow, NEW state \in AttemptStates
    PROVE  /\ AttemptEnds(row, state) \in AttemptRow
           /\ AttemptEnds(row, state).state = state /\ AttemptEnds(row, state).token = 0
           /\ AttemptEnds(row, state).claims = row.claims
  BY DEF AttemptEnds, AttemptRow

\* Nothing moves.
LEMMA NoneMoves ==
    ASSUME IInv, UNCHANGED <<session, attempts>>
    PROVE  RowsMove
  BY DEF IInv, TypeOK, RowsMove, Move, Alone

\* A step of the workers that changes no row.
LEMMA QuietStep ==
    ASSUME IInv, WorkersFollow, UNCHANGED <<session, upload, package, attempts, results, envelope>>
    PROVE  RowsMove /\ ResultsMove /\ IInv'
  <1>1. RowsMove /\ ResultsMove
    BY NoneMoves DEF ResultsMove
  <1>2. DOMAIN upload' = Sessions /\ \A s \in Sessions : KeepsUploads(s)
    BY UploadsStay DEF IInv
  <1>3. \A s \in Sessions :
          /\ attempts'[s] = <<>> <=> attempts[s] = <<>>
          /\ session'[s].state \in UploadStates \/ session[s].state \notin UploadStates
    OBVIOUS
  <1> QED
    BY <1>1, <1>2, <1>3, PlainStep

LEMMA WorkersStay ==
    ASSUME TypeOK, worker' = worker
    PROVE  WorkersFollow
  BY DEF TypeOK, WorkersFollow

LEMMA WorkersStop ==
    ASSUME TypeOK, NEW w \in Workers, Stop(w)
    PROVE  WorkersFollow
  BY DEF TypeOK, WorkersFollow, Stop

LEMMA WorkersGo ==
    ASSUME TypeOK, NEW w \in Workers, worker[w] \in Execution, NEW e \in Execution,
           e.session = worker[w].session, e.attempt = worker[w].attempt, e.token = worker[w].token,
           worker' = [worker EXCEPT ![w] = e]
    PROVE  WorkersFollow
  BY DEF TypeOK, WorkersFollow

LEMMA WorkersGoOn ==
    ASSUME TypeOK, NEW w \in Workers, worker[w] \in Execution,
           NEW phase \in {"publishing", "abstaining", "failing", "cancelling"}, Goes(w, phase)
    PROVE  WorkersFollow
  <1> DEFINE e == [worker[w] EXCEPT !.phase = phase]
  <1>1. /\ e \in Execution /\ e.session = worker[w].session
        /\ e.attempt = worker[w].attempt /\ e.token = worker[w].token
    BY DEF Execution
  <1>2. worker' = [worker EXCEPT ![w] = e]
    BY DEF Goes, TypeOK
  <1> HIDE DEF e
  <1> QED
    BY <1>1, <1>2, WorkersGo

-----------------------------------------------------------------------------
(* The client's requests.                                                  *)

\* One session's row changes before there is a package.
LEMMA RowStep ==
    ASSUME IInv, NEW s \in Sessions, NEW aRow \in SessionRow, attempts[s] = <<>>,
           session' = [session EXCEPT ![s] = aRow], UNCHANGED <<attempts, results>>,
           \/ aRow.state = session[s].state
           \/ session[s].state \notin {"accepted", "cancelled"} /\ aRow.state \in Unpackaged
    PROVE  /\ RowsMove /\ ResultsMove
           /\ session'[s] = aRow /\ \A t \in Sessions \ {s} : session'[t] = session[t]
  <1>1. Move(session[s].state, attempts[s], aRow.state, attempts[s])
    BY DEF Move, Alone
  <1>2. session \in [Sessions -> SessionRow] /\ attempts \in [Sessions -> Seq(AttemptRow)]
    BY DEF IInv, TypeOK
  <1>3. /\ session' \in [Sessions -> SessionRow] /\ session'[s] = aRow
        /\ \A t \in Sessions \ {s} : session'[t] = session[t]
    BY <1>2
  <1>5. \A t \in Sessions : Move(session[t].state, attempts[t], session'[t].state, attempts'[t])
    BY <1>1, <1>3 DEF Move, Alone
  <1>4. aRow.state \in Done => session[s].state \in Done
    BY DEF Done, Unpackaged
  <1> QED
    BY <1>2, <1>3, <1>4, <1>5 DEF RowsMove, ResultsMove

LEMMA TakingSession ==
    ASSUME IInv, NEW s \in Sessions, session[s].state \in {"absent", "created", "uploading"}
    PROVE  attempts[s] = <<>> /\ package[s] = NoPackage /\ session[s].state \in UploadStates
  BY PresentRows DEF Agree, Pairs, UploadsAgree, UploadStates

LEMMA CreateSessionHolds ==
    ASSUME IInv, NEW s \in Sessions, CreateSession(s)
    PROVE  RowsMove /\ ResultsMove /\ IInv'
  <1> DEFINE aRow == [session[s] EXCEPT !.state = "created", !.permitted = TRUE]
  <1>1. TypeOK /\ session[s] \in SessionRow /\ session[s].state = "absent" /\ attempts[s] = <<>>
    BY PresentRows, TakingSession DEF CreateSession
  <1>2. aRow \in SessionRow /\ aRow.state = "created"
    BY <1>1 DEF SessionRow, SessionStates
  <1>3. session' = [session EXCEPT ![s] = aRow]
    BY <1>1 DEF CreateSession, TypeOK
  <1> HIDE DEF aRow
  <1>4. /\ RowsMove /\ ResultsMove /\ session'[s] = aRow
        /\ \A t \in Sessions \ {s} : session'[t] = session[t]
    BY <1>1, <1>2, <1>3, RowStep DEF CreateSession, Unpackaged
  <1>5. WorkersFollow /\ DOMAIN upload' = Sessions /\ \A t \in Sessions : KeepsUploads(t)
    BY <1>1, WorkersStay, UploadsStay DEF CreateSession
  <1>6. UNCHANGED <<package, envelope, attempts>>
    BY DEF CreateSession
  <1>7. \A t \in Sessions :
           session'[t].state \in UploadStates \/ session[t].state \notin UploadStates
    BY <1>2, <1>4 DEF UploadStates
  <1> QED
    BY <1>4, <1>5, <1>6, <1>7, PlainStep

\* An upload of a session that takes artifacts.
LEMMA UploadStep ==
    ASSUME IInv, RowsMove, ResultsMove, NEW s \in Sessions, NEW a \in ArtifactsOf[s],
           NEW u \in UploadRow, TakesArtifacts(s), upload' = [upload EXCEPT ![s][a] = u],
           upload[s][a].row # "completed", u.row = "completed" => u.at = "stored",
           UNCHANGED <<attempts, package, envelope, worker>>,
           session'[s].state \in UploadStates,
           \A t \in Sessions \ {s} : session'[t] = session[t]
    PROVE  IInv'
  <1>1. TypeOK /\ upload[s] \in [ArtifactsOf[s] -> UploadRow]
    BY PresentRows
  <1>2. /\ DOMAIN upload' = Sessions /\ upload'[s] \in [ArtifactsOf[s] -> UploadRow]
        /\ upload'[s][a] = u
        /\ \A b \in ArtifactsOf[s] \ {a} : upload'[s][b] = upload[s][b]
        /\ \A t \in Sessions \ {s} : upload'[t] = upload[t]
    BY <1>1 DEF TypeOK
  <1>3. UploadsAgree(s)' /\ Completed(s) \subseteq Completed(s)'
    <2>1. \A b \in ArtifactsOf[s] :
              /\ upload[s][b].row = "completed" =>
                    upload'[s][b].row = "completed" /\ upload'[s][b].at = upload[s][b].at
              /\ upload'[s][b].row = "completed" =>
                    upload[s][b].row = "completed" \/ upload'[s][b].at = "stored"
      BY <1>2
    <2> QED
      BY <1>2, <2>1, UploadsGrow
  <1>4. ASSUME NEW t \in Sessions \ {s}
        PROVE  /\ upload'[t] \in [ArtifactsOf[t] -> UploadRow]
               /\ UploadsAgree(t)' /\ Completed(t) \subseteq Completed(t)'
    <2>1. KeepsUploads(t)
      BY <1>1, <1>2 DEF KeepsUploads, TypeOK
    <2> QED
      BY <2>1, UploadsKept DEF KeepsUploads
  <1>5. \A t \in Sessions : EnvelopeAgrees(t)'
    BY <1>3, <1>4, EnvelopesKept
  <1>6. worker' \in [Workers -> Execution \cup {Idle}] /\ ClaimsAreRecorded'
    BY <1>1, WorkersStay, ClaimsKept
  <1>7. DOMAIN package' = Sessions /\ DOMAIN envelope' = Sessions
        /\ \A t \in Sessions : envelope'[t].plans \subseteq Sessions /\ envelope'[t].accepted \in BOOLEAN
    BY <1>1 DEF TypeOK
  <1> QED
    BY <1>2, <1>3, <1>4, <1>5, <1>6, <1>7, StepHolds

LEMMA CreateArtifactUploadHolds ==
    ASSUME IInv, NEW s \in Sessions, NEW a \in ArtifactsOf[s], CreateArtifactUpload(s, a)
    PROVE  RowsMove /\ ResultsMove /\ IInv'
  <1>1. RowsMove /\ ResultsMove
    BY NoneMoves DEF CreateArtifactUpload, ResultsMove
  <1>2. [row |-> "initiated", at |-> "open"] \in UploadRow
    BY DEF UploadRow
  <1>3. session'[s].state \in UploadStates /\ \A t \in Sessions \ {s} : session'[t] = session[t]
    BY TakingSession DEF CreateArtifactUpload, TakesArtifacts
  <1> QED
    BY <1>1, <1>2, <1>3, UploadStep DEF CreateArtifactUpload

LEMMA SignArtifactPartHolds ==
    ASSUME IInv, NEW s \in Sessions, NEW a \in ArtifactsOf[s], SignArtifactPart(s, a)
    PROVE  RowsMove /\ ResultsMove /\ IInv'
  <1> DEFINE aRow == [session[s] EXCEPT !.state = "uploading"]
             u == [upload[s][a] EXCEPT !.row = "uploading"]
  <1>1. /\ TypeOK /\ session[s] \in SessionRow /\ session[s].state \in {"created", "uploading"}
        /\ attempts[s] = <<>> /\ upload[s] \in [ArtifactsOf[s] -> UploadRow]
    BY PresentRows, TakingSession DEF SignArtifactPart, TakesArtifacts
  <1>2. aRow \in SessionRow /\ aRow.state = "uploading"
    BY <1>1 DEF SessionRow, SessionStates
  <1>3. session' = [session EXCEPT ![s] = aRow]
    BY <1>1 DEF SignArtifactPart, TypeOK
  <1>4. u \in UploadRow /\ u.row = "uploading"
    BY <1>1 DEF UploadRow
  <1>5. upload' = [upload EXCEPT ![s][a] = u] /\ upload[s][a].row # "completed"
    BY <1>1 DEF SignArtifactPart, TypeOK, IsOpen
  <1> HIDE DEF aRow, u
  <1>6. /\ RowsMove /\ ResultsMove /\ session'[s] = aRow
        /\ \A t \in Sessions \ {s} : session'[t] = session[t]
    BY <1>1, <1>2, <1>3, RowStep DEF SignArtifactPart, Unpackaged
  <1>7. session'[s].state \in UploadStates
    BY <1>2, <1>6 DEF UploadStates
  <1> QED
    BY <1>4, <1>5, <1>6, <1>7, UploadStep DEF SignArtifactPart

LEMMA CompleteArtifactUploadHolds ==
    ASSUME IInv, NEW s \in Sessions, NEW a \in ArtifactsOf[s], NEW commits \in BOOLEAN,
           CompleteArtifactUpload(s, a, commits)
    PROVE  RowsMove /\ ResultsMove /\ IInv'
  <1> DEFINE u == [upload[s][a] EXCEPT !.at = "stored", !.row = IF commits THEN "completed" ELSE @]
  <1>1. RowsMove /\ ResultsMove
    BY NoneMoves DEF CompleteArtifactUpload, ResultsMove
  <1>2. TypeOK /\ upload[s] \in [ArtifactsOf[s] -> UploadRow] /\ upload[s][a].row = "uploading"
    BY PresentRows DEF CompleteArtifactUpload
  <1>3. u \in UploadRow /\ u.at = "stored"
    BY <1>2 DEF UploadRow
  <1>4. upload' = [upload EXCEPT ![s][a] = u]
    BY <1>2 DEF CompleteArtifactUpload, TypeOK
  <1> HIDE DEF u
  <1>5. session'[s].state \in UploadStates /\ \A t \in Sessions \ {s} : session'[t] = session[t]
    BY TakingSession DEF CompleteArtifactUpload, TakesArtifacts
  <1> QED
    BY <1>1, <1>2, <1>3, <1>4, <1>5, UploadStep DEF CompleteArtifactUpload

LEMMA FinalizePackageHolds ==
    ASSUME IInv, NEW s \in Sessions, FinalizePackage(s)
    PROVE  RowsMove /\ ResultsMove /\ IInv'
  <1> DEFINE aRow == SessionBecomes(session[s], "uploaded", FALSE)
  <1>1. /\ TypeOK /\ session[s] \in SessionRow /\ session[s].state = "uploading"
        /\ attempts[s] = <<>> /\ UploadsAgree(s)
    BY PresentRows, TakingSession DEF FinalizePackage
  <1>2. aRow \in SessionRow /\ aRow.state = "uploaded"
    BY <1>1, RowAfter DEF SessionStates
  <1>3. session' = [session EXCEPT ![s] = aRow] /\ attempts' = [attempts EXCEPT ![s] = <<QueuedAttempt>>]
    BY <1>1 DEF FinalizePackage, TypeOK
  <1> HIDE DEF aRow
  <1>4. Move(session[s].state, attempts[s], aRow.state, <<QueuedAttempt>>)
    BY <1>1, <1>2 DEF Move, Queues
  <1>5. /\ RowsMove /\ session'[s] = aRow /\ attempts'[s] = <<QueuedAttempt>>
        /\ \A t \in Sessions \ {s} : session'[t] = session[t] /\ attempts'[t] = attempts[t]
    BY <1>2, <1>3, <1>4, OneMoves
  <1>6. ResultsMove
    BY <1>2, <1>5 DEF FinalizePackage, ResultsMove, Done
  <1>7. /\ DOMAIN upload' = Sessions /\ \A t \in Sessions : KeepsUploads(t)
        /\ \A t \in Sessions : Completed(t)' = Completed(t) /\ Registered(t)' = Registered(t)
    BY <1>1, UploadsStay DEF FinalizePackage, Completed, Registered
  <1>8. ASSUME NEW t \in Sessions PROVE UploadsAgree(t)'
    <2>1. CASE t = s
      <3>1. /\ package'[s] = Registered(s) /\ Registered(s) # {} /\ Completed(s) = Registered(s)
            /\ upload' = upload
        BY <1>1 DEF FinalizePackage, TypeOK
      <3>2. \A a \in ArtifactsOf[s] : ~IsOpen(upload[s][a])
        BY <3>1 DEF Registered, Completed, IsOpen
      <3>3. attempts'[s] # <<>>
        BY <1>5
      <3> QED
        BY <1>1, <1>7, <2>1, <3>1, <3>2, <3>3 DEF UploadsAgree, NoPackage
    <2>2. CASE t # s
      <3>1. package'[t] = package[t]
        BY <1>1, <2>2 DEF FinalizePackage, TypeOK
      <3> QED
        BY <1>5, <1>7, <2>2, <3>1, UploadsKept
    <2> QED
      BY <2>1, <2>2
  <1>9. \A t \in Sessions : EnvelopeAgrees(t)'
    BY <1>5, <1>7, EnvelopesKept DEF FinalizePackage
  <1>10. worker' \in [Workers -> Execution \cup {Idle}] /\ ClaimsAreRecorded'
    BY <1>1, <1>5, WorkersStay, ClaimsKept DEF FinalizePackage
  <1>11. DOMAIN package' = Sessions /\ DOMAIN envelope' = Sessions
         /\ \A t \in Sessions : envelope'[t].plans \subseteq Sessions /\ envelope'[t].accepted \in BOOLEAN
    BY <1>1 DEF TypeOK, FinalizePackage
  <1>12. \A t \in Sessions : upload'[t] \in [ArtifactsOf[t] -> UploadRow]
    BY <1>7 DEF KeepsUploads
  <1> QED
    BY <1>5, <1>6, <1>7, <1>8, <1>9, <1>10, <1>11, <1>12, StepHolds

LEMMA AcceptEnvelopeHolds ==
    ASSUME IInv, NEW s \in Sessions, NEW depth \in SUBSET ArtifactsOf[s],
           NEW plans \in SUBSET (Sessions \ {s}), AcceptEnvelope(s, depth, plans)
    PROVE  RowsMove /\ ResultsMove /\ IInv'
  <1> DEFINE aRow == SessionBecomes(session[s], "accepted", FALSE)
  <1>1. /\ TypeOK /\ session[s] \in SessionRow /\ session[s].state \in {"created", "uploading"}
        /\ attempts[s] = <<>>
    BY PresentRows, TakingSession DEF AcceptEnvelope, TakesArtifacts
  <1>2. aRow \in SessionRow /\ aRow.state = "accepted"
    BY <1>1, RowAfter DEF SessionStates
  <1>3. session' = [session EXCEPT ![s] = aRow]
    BY <1>1 DEF AcceptEnvelope, TypeOK
  <1> HIDE DEF aRow
  <1>4. /\ RowsMove /\ ResultsMove /\ session'[s] = aRow
        /\ \A t \in Sessions \ {s} : session'[t] = session[t]
    BY <1>1, <1>2, <1>3, RowStep DEF AcceptEnvelope, Unpackaged
  <1>5. /\ DOMAIN upload' = Sessions /\ \A t \in Sessions : KeepsUploads(t)
        /\ \A t \in Sessions : Completed(t)' = Completed(t)
    BY <1>1, UploadsStay DEF AcceptEnvelope, Completed
  <1>6. \A t \in Sessions :
           session'[t].state \in UploadStates \/ session[t].state \notin UploadStates
    BY <1>2, <1>4 DEF UploadStates
  <1>7. \A t \in Sessions : UploadsAgree(t)'
    BY <1>4, <1>5, <1>6, UploadsKept DEF AcceptEnvelope
  <1>8. /\ DOMAIN envelope' = Sessions
        /\ envelope'[s] = [depth |-> depth, plans |-> plans, accepted |-> TRUE]
        /\ \A t \in Sessions \ {s} : envelope'[t] = envelope[t]
    BY <1>1 DEF AcceptEnvelope, TypeOK
  <1>9. envelope'[s].depth = depth /\ envelope'[s].plans = plans /\ envelope'[s].accepted = TRUE
    BY <1>8
  <1>10. \A t \in Sessions : envelope'[t].plans \subseteq Sessions /\ envelope'[t].accepted \in BOOLEAN
    BY <1>1, <1>8, <1>9 DEF TypeOK
  <1>11. ASSUME NEW t \in Sessions PROVE EnvelopeAgrees(t)'
    <2>1. \A p \in Sessions : session[p].state \in Done => session'[p].state = session[p].state
      BY <1>4, MovesOfAStep
    <2>2. CASE t = s
      <3>1. \A p \in plans : session[p].state \in Done
        BY DEF AcceptEnvelope, IsPlanSource, Done
      <3>2. depth \subseteq Completed(s)
        BY DEF AcceptEnvelope
      <3> QED
        BY <1>2, <1>4, <1>5, <1>9, <2>1, <2>2, <3>1, <3>2 DEF EnvelopeAgrees
    <2>3. CASE t # s
      <3>1. EnvelopeAgrees(t) /\ envelope[t].plans \subseteq Sessions
        BY PresentRows DEF TypeOK
      <3> QED
        BY <1>4, <1>5, <1>8, <2>1, <2>3, <3>1 DEF EnvelopeAgrees
    <2> QED
      BY <2>2, <2>3
  <1>12. worker' \in [Workers -> Execution \cup {Idle}] /\ ClaimsAreRecorded'
    BY <1>1, <1>4, WorkersStay, ClaimsKept DEF AcceptEnvelope
  <1>13. DOMAIN package' = Sessions /\ \A t \in Sessions : upload'[t] \in [ArtifactsOf[t] -> UploadRow]
    BY <1>1, <1>5 DEF AcceptEnvelope, KeepsUploads, TypeOK
  <1> QED
    BY <1>4, <1>5, <1>7, <1>8, <1>10, <1>11, <1>12, <1>13, StepHolds

LEMMA RetrySessionHolds ==
    ASSUME IInv, NEW s \in Sessions, RetrySession(s)
    PROVE  RowsMove /\ ResultsMove /\ IInv'
  <1> DEFINE aRow == SessionBecomes(session[s], "uploaded", FALSE)
             rows == Append(attempts[s], QueuedAttempt)
  <1>1. /\ TypeOK /\ session[s] \in SessionRow /\ session[s].state = "failed"
        /\ attempts[s] # <<>> /\ Len(attempts[s]) < MaximumAttempts
        /\ attempts[s] \in Seq(AttemptRow)
    BY PresentRows DEF RetrySession, UploadsAgree
  <1>2. aRow \in SessionRow /\ aRow.state = "uploaded"
    BY <1>1, RowAfter DEF SessionStates
  <1>3. session' = [session EXCEPT ![s] = aRow] /\ attempts' = [attempts EXCEPT ![s] = rows]
    BY <1>1 DEF RetrySession, TypeOK
  <1>4. Move(session[s].state, attempts[s], aRow.state, rows) /\ rows # <<>>
    BY <1>1, <1>2, OneMore DEF Move, Queues
  <1> HIDE DEF aRow, rows
  <1>5. /\ RowsMove /\ session'[s] = aRow /\ attempts'[s] = rows
        /\ \A t \in Sessions \ {s} : session'[t] = session[t] /\ attempts'[t] = attempts[t]
    BY <1>2, <1>3, <1>4, OneMoves
  <1>6. ResultsMove
    BY <1>2, <1>5 DEF RetrySession, ResultsMove, Done
  <1>7. WorkersFollow /\ DOMAIN upload' = Sessions /\ \A t \in Sessions : KeepsUploads(t)
    BY <1>1, WorkersStay, UploadsStay DEF RetrySession
  <1>8. \A t \in Sessions :
          /\ attempts'[t] = <<>> <=> attempts[t] = <<>>
          /\ session'[t].state \in UploadStates \/ session[t].state \notin UploadStates
    BY <1>1, <1>4, <1>5 DEF UploadStates
  <1>9. UNCHANGED <<package, envelope>>
    BY DEF RetrySession
  <1> QED
    BY <1>5, <1>6, <1>7, <1>8, <1>9, PlainStep

-----------------------------------------------------------------------------
(* The ways a session is ended.                                            *)

\* A step that moves one session, and neither publishes nor packages.
LEMMA OneEnds ==
    ASSUME IInv, NEW s \in Sessions, NEW aRow \in SessionRow, NEW rows,
           session' = [session EXCEPT ![s] = aRow], attempts' = [attempts EXCEPT ![s] = rows],
           Move(session[s].state, attempts[s], aRow.state, rows),
           rows = <<>> <=> attempts[s] = <<>>,
           aRow.state = session[s].state \/ aRow.state \notin Done,
           UNCHANGED <<package, results, envelope>>, WorkersFollow,
           DOMAIN upload' = Sessions, \A t \in Sessions : KeepsUploads(t),
           \/ aRow.state \in UploadStates
           \/ session[s].state \notin UploadStates
           \/ NoneOpen(s)
    PROVE  RowsMove /\ ResultsMove /\ IInv'
  <1>1. /\ RowsMove /\ session'[s] = aRow /\ attempts'[s] = rows
        /\ \A t \in Sessions \ {s} : session'[t] = session[t] /\ attempts'[t] = attempts[t]
    BY OneMoves
  <1>2. ResultsMove
    BY <1>1 DEF ResultsMove
  <1>3. \A t \in Sessions :
          /\ attempts'[t] = <<>> <=> attempts[t] = <<>>
          /\ \/ session'[t].state \in UploadStates
             \/ session[t].state \notin UploadStates
             \/ NoneOpen(t)
    BY <1>1
  <1> QED
    BY <1>1, <1>2, <1>3, PlainStep

LEMMA AbortedUploads ==
    ASSUME TypeOK, NEW s \in Sessions, NEW succeeds \in BOOLEAN, upload'[s] = Aborted(s, succeeds)
    PROVE  KeepsUploads(s) /\ NoneOpen(s)
  <1>1. upload[s] \in [ArtifactsOf[s] -> UploadRow]
    BY DEF TypeOK
  <1>2. ASSUME NEW a \in ArtifactsOf[s]
        PROVE  /\ upload'[s][a] \in UploadRow
               /\ IsOpen(upload[s][a]) => upload'[s][a].row = "aborted"
               /\ ~IsOpen(upload[s][a]) => upload'[s][a] = upload[s][a]
    <2>1. upload[s][a] \in UploadRow
      BY <1>1
    <2> DEFINE gone == GoneAtProvider(upload[s][a])
    <2>2. gone \in UploadRow
      BY <2>1 DEF GoneAtProvider, UploadRow
    <2>3. CASE ~IsOpen(upload[s][a])
      BY <2>1, <2>3 DEF Aborted
    <2>4. CASE IsOpen(upload[s][a])
      <3>1. upload'[s][a] = [IF succeeds THEN gone ELSE upload[s][a] EXCEPT !.row = "aborted"]
        BY <2>4 DEF Aborted
      <3> HIDE DEF gone
      <3>2. (IF succeeds THEN gone ELSE upload[s][a]) \in UploadRow
        BY <2>1, <2>2
      <3> QED
        BY <2>4, <3>1, <3>2 DEF UploadRow
    <2> QED
      BY <2>3, <2>4
  <1>3. upload'[s] \in [ArtifactsOf[s] -> UploadRow]
    BY <1>2 DEF Aborted
  <1> QED
    BY <1>2, <1>3 DEF KeepsUploads, NoneOpen, IsOpen

\* The uploads of one session are aborted.
LEMMA OneIsAborted ==
    ASSUME TypeOK, NEW s \in Sessions, NEW succeeds \in BOOLEAN,
           upload' = [upload EXCEPT ![s] = Aborted(s, succeeds)]
    PROVE  DOMAIN upload' = Sessions /\ (\A t \in Sessions : KeepsUploads(t)) /\ NoneOpen(s)
  <1>1. /\ DOMAIN upload' = Sessions /\ upload'[s] = Aborted(s, succeeds)
        /\ \A t \in Sessions \ {s} : upload'[t] = upload[t]
    BY DEF TypeOK
  <1>2. KeepsUploads(s) /\ NoneOpen(s)
    BY <1>1, AbortedUploads
  <1>3. \A t \in Sessions \ {s} : KeepsUploads(t)
    BY <1>1 DEF TypeOK, KeepsUploads
  <1> QED
    BY <1>1, <1>2, <1>3

\* The live attempt of a session.
LEMMA LiveAttempt ==
    ASSUME IInv, NEW s \in Sessions, session[s].state \in {"processing", "cancel-requested"}
    PROVE  /\ attempts[s] # <<>> /\ attempts[s] \in Seq(AttemptRow)
           /\ At(s) \in AttemptRow /\ TokenAgrees(At(s))
           /\ session[s].state = "processing" => At(s).state = "leased"
           /\ session[s].state = "cancel-requested" => At(s).state = "cancel-requested"
  <1>1. attempts[s] \in Seq(AttemptRow) /\ Agree(session[s].state, attempts[s])
    BY PresentRows
  <1>2. attempts[s] # <<>>
    BY <1>1 DEF Agree, Unpackaged
  <1>3. Len(attempts[s]) \in 1..Len(attempts[s]) /\ attempts[s][Len(attempts[s])] \in AttemptRow
    BY <1>1, <1>2
  <1> QED
    BY <1>1, <1>2, <1>3 DEF Agree, Pairs, At

LEMMA StopMoves ==
    ASSUME IInv, NEW s \in Sessions, session[s].state = "processing"
    PROVE  LET rows == WithLast(attempts[s], [At(s) EXCEPT !.state = "cancel-requested"])
           IN  /\ Move(session[s].state, attempts[s], "cancel-requested", rows)
               /\ rows # <<>> /\ attempts[s] # <<>>
  <1> DEFINE new == [At(s) EXCEPT !.state = "cancel-requested"]
             rows == WithLast(attempts[s], new)
  <1>1. attempts[s] # <<>> /\ attempts[s] \in Seq(AttemptRow) /\ At(s) \in AttemptRow
    BY LiveAttempt
  <1>2. /\ new \in AttemptRow /\ new.state = "cancel-requested"
        /\ new.claims = At(s).claims /\ new.token = At(s).token
    BY <1>1 DEF AttemptRow, AttemptStates
  <1> HIDE DEF new
  <1>3. Stops(session[s].state, attempts[s][Len(attempts[s])], "cancel-requested", new)
    BY <1>2 DEF Stops, At
  <1>4. Move(session[s].state, attempts[s], "cancel-requested", rows) /\ rows # <<>>
    BY <1>1, <1>2, <1>3, LastReplaced DEF Move, Replaces
  <1> QED
    BY <1>1, <1>4 DEF new

\* An attempt that ends, with its session.
LEMMA EndMoves ==
    ASSUME IInv, NEW s \in Sessions, attempts[s] # <<>>, NEW newState, NEW state \in AttemptStates,
           <<session[s].state, newState, state>> \in Ends
    PROVE  LET rows == WithLast(attempts[s], AttemptEnds(At(s), state))
           IN  Move(session[s].state, attempts[s], newState, rows) /\ rows # <<>>
  <1> DEFINE new == AttemptEnds(At(s), state)
             rows == WithLast(attempts[s], new)
  <1>1. attempts[s] \in Seq(AttemptRow) /\ Agree(session[s].state, attempts[s])
    BY PresentRows
  <1>2. At(s) \in AttemptRow
    BY <1>1 DEF At
  <1>3. /\ new \in AttemptRow /\ new.state = state /\ new.token = 0
        /\ new.claims = At(s).claims
    BY <1>2, AttemptAfter
  <1> HIDE DEF new
  <1>4. EndsWith(session[s].state, attempts[s][Len(attempts[s])], newState, new)
    BY <1>3 DEF EndsWith, At
  <1>5. Move(session[s].state, attempts[s], newState, rows) /\ rows # <<>>
    BY <1>1, <1>3, <1>4, LastReplaced DEF Move, Replaces
  <1> QED
    BY <1>5 DEF new

LEMMA CloseMoves ==
    ASSUME IInv, NEW s \in Sessions
    PROVE  /\ session[s].state \in BeforeProcessing =>
                 Move(session[s].state, attempts[s], "cancelled", Closed(s))
           /\ session[s].state # "uploaded" => Closed(s) = attempts[s]
           /\ Closed(s) = <<>> <=> attempts[s] = <<>>
  <1>1. attempts[s] \in Seq(AttemptRow) /\ Agree(session[s].state, attempts[s])
    BY PresentRows
  <1>2. CASE HasAttemptIn(s, "queued")
    <2>1. attempts[s] # <<>> /\ session[s].state = "uploaded"
      BY <1>1, <1>2 DEF HasAttemptIn, At, Agree, Pairs
    <2>2. Closed(s) = WithLast(attempts[s], AttemptEnds(At(s), "cancelled"))
      BY <1>2 DEF Closed
    <2>3. <<session[s].state, "cancelled", "cancelled">> \in Ends
      BY <2>1 DEF Ends
    <2> QED
      BY <2>1, <2>2, <2>3, EndMoves DEF AttemptStates
  <1>3. CASE ~HasAttemptIn(s, "queued")
    <2>1. Closed(s) = attempts[s]
      BY <1>3 DEF Closed
    <2>2. session[s].state \in BeforeProcessing => attempts[s] = <<>> \/ session[s].state = "failed"
      BY <1>1, <1>3 DEF Agree, Pairs, HasAttemptIn, At, BeforeProcessing
    <2> QED
      BY <2>1, <2>2 DEF Move, Alone, BeforeProcessing, Unpackaged
  <1> QED
    BY <1>2, <1>3

LEMMA CancelSessionHolds ==
    ASSUME IInv, NEW s \in Sessions, NEW succeeds \in BOOLEAN, CancelSession(s, succeeds)
    PROVE  RowsMove /\ ResultsMove /\ IInv'
  <1>1. TypeOK /\ session[s] \in SessionRow
    BY PresentRows
  <1>2. CASE StopsProcessing(s)
    <2> DEFINE aRow == SessionBecomes(session[s], "cancel-requested", FALSE)
               rows == WithLast(attempts[s], [At(s) EXCEPT !.state = "cancel-requested"])
    <2>1. session' = [session EXCEPT ![s] = aRow] /\ attempts' = [attempts EXCEPT ![s] = rows]
      BY <1>1, <1>2 DEF StopsProcessing, TypeOK
    <2>2. session[s].state = "processing"
      BY <1>2 DEF StopsProcessing
    <2>3. aRow \in SessionRow /\ aRow.state = "cancel-requested"
      BY <1>1, RowAfter DEF SessionStates
    <2>4. /\ Move(session[s].state, attempts[s], "cancel-requested", rows)
          /\ rows # <<>> /\ attempts[s] # <<>>
      BY <2>2, StopMoves
    <2> HIDE DEF aRow, rows
    <2>5. UNCHANGED <<package, results, envelope>> /\ WorkersFollow
          /\ DOMAIN upload' = Sessions /\ \A t \in Sessions : KeepsUploads(t)
      BY <1>1, <1>2, WorkersStay, UploadsStay DEF StopsProcessing
    <2>6. session[s].state \notin UploadStates /\ aRow.state \notin Done
      BY <2>2, <2>3 DEF UploadStates, Done
    <2> QED
      BY <2>1, <2>3, <2>4, <2>5, <2>6, OneEnds
  <1>3. CASE session[s].state \in BeforeProcessing /\ ~StopsProcessing(s)
    <2> DEFINE aRow == SessionBecomes(session[s], "cancelled", FALSE)
               rows == Closed(s)
    <2>1. session' = [session EXCEPT ![s] = aRow] /\ attempts' = [attempts EXCEPT ![s] = rows]
      BY <1>1, <1>3 DEF CancelSession, TypeOK
    <2>2. aRow \in SessionRow /\ aRow.state = "cancelled"
      BY <1>1, RowAfter DEF SessionStates
    <2>3. Move(session[s].state, attempts[s], "cancelled", rows) /\ (rows = <<>> <=> attempts[s] = <<>>)
      BY <1>3, CloseMoves
    <2> HIDE DEF aRow, rows
    <2>4. UNCHANGED <<package, results, envelope>> /\ WorkersFollow
      BY <1>1, <1>3, WorkersStay DEF CancelSession
    <2>5. DOMAIN upload' = Sessions /\ (\A t \in Sessions : KeepsUploads(t)) /\ NoneOpen(s)
      BY <1>1, <1>3, OneIsAborted DEF CancelSession
    <2>6. aRow.state \notin Done
      BY <2>2 DEF Done
    <2> QED
      BY <2>1, <2>2, <2>3, <2>4, <2>5, <2>6, OneEnds
  <1> QED
    BY <1>2, <1>3 DEF CancelSession

LEMMA WithdrawRightsHolds ==
    ASSUME IInv, NEW s \in Sessions, NEW succeeds \in BOOLEAN, WithdrawRights(s, succeeds)
    PROVE  RowsMove /\ ResultsMove /\ IInv'
  <1> DEFINE row == [session[s] EXCEPT !.permitted = FALSE]
  <1>1. TypeOK /\ session[s] \in SessionRow /\ session[s].state \in SessionStates
    BY PresentRows
  <1>2. row \in SessionRow /\ row.state = session[s].state
    BY <1>1 DEF SessionRow
  <1>3. UNCHANGED <<package, results, envelope>> /\ WorkersFollow
    BY <1>1, WorkersStay DEF WithdrawRights
  <1>4. CASE session[s].state = "processing"
    <2> DEFINE aRow == SessionBecomes(row, "cancel-requested", FALSE)
               rows == WithLast(attempts[s], [At(s) EXCEPT !.state = "cancel-requested"])
    <2>0. session' = [session EXCEPT ![s] = aRow]
      BY <1>4 DEF WithdrawRights, BeforeProcessing
    <2>1. attempts' = [attempts EXCEPT ![s] = rows]
      BY <1>4 DEF WithdrawRights
    <2>2. upload' = [upload EXCEPT ![s] = upload[s]]
      BY <1>4 DEF WithdrawRights, BeforeProcessing
    <2>3. aRow \in SessionRow /\ aRow.state = "cancel-requested"
      BY <1>2, RowAfter DEF SessionStates
    <2>4. /\ Move(session[s].state, attempts[s], "cancel-requested", rows)
          /\ rows # <<>> /\ attempts[s] # <<>>
      BY <1>4, StopMoves
    <2> HIDE DEF aRow, rows
    <2>5. DOMAIN upload' = Sessions /\ \A t \in Sessions : KeepsUploads(t)
      BY <1>1, <2>2, UploadRewritten
    <2>6. session[s].state \notin UploadStates /\ aRow.state \notin Done
      BY <1>4, <2>3 DEF UploadStates, Done
    <2> QED
      BY <1>3, <2>0, <2>1, <2>3, <2>4, <2>5, <2>6, OneEnds
  <1>5. CASE session[s].state \in BeforeProcessing
    <2> DEFINE aRow == SessionBecomes(row, "cancelled", FALSE)
               rows == Closed(s)
    <2>1. session' = [session EXCEPT ![s] = aRow] /\ attempts' = [attempts EXCEPT ![s] = rows]
      BY <1>1, <1>5 DEF WithdrawRights, BeforeProcessing, TypeOK
    <2>2. aRow \in SessionRow /\ aRow.state = "cancelled"
      BY <1>2, RowAfter DEF SessionStates
    <2>3. Move(session[s].state, attempts[s], "cancelled", rows) /\ (rows = <<>> <=> attempts[s] = <<>>)
      BY <1>5, CloseMoves
    <2> HIDE DEF aRow, rows
    <2>4. upload' = [upload EXCEPT ![s] = Aborted(s, succeeds)]
      BY <1>5 DEF WithdrawRights
    <2>5. DOMAIN upload' = Sessions /\ (\A t \in Sessions : KeepsUploads(t)) /\ NoneOpen(s)
      BY <1>1, <2>4, OneIsAborted
    <2>6. aRow.state \notin Done
      BY <2>2 DEF Done
    <2> QED
      BY <1>3, <2>1, <2>2, <2>3, <2>5, <2>6, OneEnds
  <1>6. CASE session[s].state \notin BeforeProcessing /\ session[s].state # "processing"
    <2> DEFINE rows == attempts[s]
    <2>1. session' = [session EXCEPT ![s] = row]
      BY <1>1, <1>6 DEF WithdrawRights
    <2>2. attempts' = [attempts EXCEPT ![s] = rows]
      BY <1>1, <1>6, CloseMoves DEF WithdrawRights, BeforeProcessing, TypeOK
    <2>3. Move(session[s].state, attempts[s], row.state, rows)
      BY <1>2 DEF Move, Alone
    <2>4. DOMAIN upload' = Sessions /\ \A t \in Sessions : KeepsUploads(t)
      <3>1. CASE session[s].state = "accepted"
        BY <1>1, <3>1, OneIsAborted DEF WithdrawRights
      <3>2. CASE session[s].state # "accepted"
        <4>1. upload' = [upload EXCEPT ![s] = upload[s]]
          BY <1>6, <3>2 DEF WithdrawRights
        <4> QED
          BY <1>1, <4>1, UploadRewritten
      <3> QED
        BY <3>1, <3>2
    <2>5. rows = <<>> <=> attempts[s] = <<>>
      OBVIOUS
    <2> HIDE DEF row, rows
    <2> QED
      BY <1>2, <1>3, <2>1, <2>2, <2>3, <2>4, <2>5, OneEnds
  <1> QED
    BY <1>4, <1>5, <1>6

LEMMA BriefExpiresHolds ==
    ASSUME IInv, NEW s \in Sessions, BriefExpires(s)
    PROVE  RowsMove /\ ResultsMove /\ IInv'
  <1> DEFINE aRow == [session[s] EXCEPT !.expired = TRUE]
             rows == attempts[s]
  <1>1. TypeOK /\ session[s] \in SessionRow
    BY PresentRows
  <1>2. aRow \in SessionRow /\ aRow.state = session[s].state
    BY <1>1 DEF SessionRow
  <1>3. session' = [session EXCEPT ![s] = aRow] /\ attempts' = [attempts EXCEPT ![s] = rows]
    BY <1>1 DEF BriefExpires, TypeOK
  <1>4. Move(session[s].state, attempts[s], aRow.state, rows)
    BY <1>2 DEF Move, Alone
  <1>5. rows = <<>> <=> attempts[s] = <<>>
    OBVIOUS
  <1>6. UNCHANGED <<package, results, envelope>> /\ WorkersFollow
        /\ DOMAIN upload' = Sessions /\ \A t \in Sessions : KeepsUploads(t)
    BY <1>1, WorkersStay, UploadsStay DEF BriefExpires
  <1> HIDE DEF aRow, rows
  <1> QED
    BY <1>2, <1>3, <1>4, <1>5, <1>6, OneEnds

LEMMA LeaseLapsesHolds ==
    ASSUME IInv, NEW s \in Sessions, LeaseLapses(s)
    PROVE  RowsMove /\ ResultsMove /\ IInv'
  <1> DEFINE aRow == session[s]
             new == [At(s) EXCEPT !.lapsed = TRUE]
             rows == WithLast(attempts[s], new)
  <1>1. TypeOK /\ aRow \in SessionRow /\ attempts[s] \in Seq(AttemptRow) /\ attempts[s] # <<>>
    BY PresentRows DEF LeaseLapses, HasAttemptIn
  <1>2. At(s) \in AttemptRow
    BY <1>1 DEF At
  <1>3. /\ new \in AttemptRow /\ new.state = At(s).state /\ new.claims = At(s).claims
        /\ new.token = At(s).token
    BY <1>2 DEF AttemptRow
  <1>4. session' = [session EXCEPT ![s] = aRow] /\ attempts' = [attempts EXCEPT ![s] = rows]
    BY <1>1 DEF LeaseLapses, TypeOK
  <1> HIDE DEF new
  <1>5. Lapses(session[s].state, attempts[s][Len(attempts[s])], aRow.state, new)
    BY <1>3 DEF Lapses, At
  <1>6. Move(session[s].state, attempts[s], aRow.state, rows) /\ rows # <<>>
    BY <1>1, <1>3, <1>5, LastReplaced DEF Move, Replaces
  <1>7. UNCHANGED <<package, results, envelope>> /\ WorkersFollow
        /\ DOMAIN upload' = Sessions /\ \A t \in Sessions : KeepsUploads(t)
    BY <1>1, WorkersStay, UploadsStay DEF LeaseLapses
  <1>8. aRow.state = session[s].state
    OBVIOUS
  <1> HIDE DEF aRow, rows
  <1>9. aRow.state \in UploadStates \/ session[s].state \notin UploadStates
    BY <1>8
  <1> QED
    BY <1>1, <1>4, <1>6, <1>7, <1>8, <1>9, OneEnds

LEMMA EndingRollsBackHolds ==
    ASSUME IInv, NEW s \in Sessions, EndingRollsBack(s)
    PROVE  RowsMove /\ ResultsMove /\ IInv'
  <1>1. TypeOK /\ upload[s] \in [ArtifactsOf[s] -> UploadRow] /\ UploadsAgree(s)
    BY PresentRows
  <1>2. RowsMove /\ ResultsMove /\ WorkersFollow
    BY <1>1, NoneMoves, WorkersStay DEF EndingRollsBack, ResultsMove
  <1>3. /\ DOMAIN upload' = Sessions
        /\ upload'[s] = [a \in ArtifactsOf[s] |-> GoneAtProvider(upload[s][a])]
        /\ \A t \in Sessions \ {s} : upload'[t] = upload[t]
    BY <1>1 DEF EndingRollsBack, TypeOK
  <1>4. ASSUME NEW a \in ArtifactsOf[s]
        PROVE  /\ GoneAtProvider(upload[s][a]) \in UploadRow
               /\ GoneAtProvider(upload[s][a]).row = upload[s][a].row
               /\ upload[s][a].at = "stored" => GoneAtProvider(upload[s][a]).at = "stored"
    BY <1>1 DEF GoneAtProvider, UploadRow
  <1>5. upload'[s] \in [ArtifactsOf[s] -> UploadRow]
    BY <1>3, <1>4
  <1>6. \A a \in ArtifactsOf[s] :
          /\ upload'[s][a].row = upload[s][a].row
          /\ upload[s][a].row = "completed" => upload'[s][a].at = upload[s][a].at
    BY <1>1, <1>3, <1>4 DEF UploadsAgree, Completed
  <1>7. KeepsUploads(s)
    BY <1>5, <1>6 DEF KeepsUploads, IsOpen
  <1>8. \A t \in Sessions \ {s} : KeepsUploads(t)
    BY <1>1, <1>3 DEF KeepsUploads, TypeOK
  <1>9. UNCHANGED <<session, attempts, package, envelope>>
    BY DEF EndingRollsBack
  <1> QED
    BY <1>2, <1>3, <1>7, <1>8, <1>9, PlainStep

-----------------------------------------------------------------------------
(* The steps that move several sessions.                                   *)

LEMMA AllMove ==
    ASSUME IInv,
           session' = [s \in Sessions |-> session'[s]], attempts' = [s \in Sessions |-> attempts'[s]],
           \A s \in Sessions :
              /\ session'[s] \in SessionRow
              /\ Move(session[s].state, attempts[s], session'[s].state, attempts'[s])
    PROVE  RowsMove
  <1>1. session' \in [Sessions -> SessionRow]
    OBVIOUS
  <1>2. \A s \in Sessions : attempts'[s] \in Seq(AttemptRow)
    <2> TAKE s \in Sessions
    <2>1. session'[s].state \in SessionStates
      BY DEF SessionRow
    <2> QED
      BY <2>1, PresentRows, MovesAgree
  <1>3. attempts' \in [Sessions -> Seq(AttemptRow)]
    BY <1>2
  <1> QED
    BY <1>1, <1>3 DEF RowsMove

LEMMA ExpireOpenSessionsHolds ==
    ASSUME IInv, NEW succeeds \in BOOLEAN, ExpireOpenSessions(succeeds)
    PROVE  RowsMove /\ ResultsMove /\ IInv'
  <1>0. TypeOK
    BY DEF IInv
  <1>1. ASSUME NEW s \in Sessions
        PROVE  /\ session'[s] \in SessionRow
               /\ Move(session[s].state, attempts[s], session'[s].state, attempts'[s])
               /\ session'[s].state \in Done => session[s].state \in Done
               /\ attempts'[s] = <<>> <=> attempts[s] = <<>>
               /\ KeepsUploads(s)
               /\ \/ session'[s].state \in UploadStates
                  \/ session[s].state \notin UploadStates
                  \/ NoneOpen(s)
    <2>1. /\ session[s] \in SessionRow /\ upload[s] \in [ArtifactsOf[s] -> UploadRow]
          /\ Agree(session[s].state, attempts[s])
      BY PresentRows
    <2>2. CASE ~Expirable(s)
      <3>1. session'[s] = session[s] /\ attempts'[s] = attempts[s] /\ upload'[s] = upload[s]
        BY <2>2 DEF ExpireOpenSessions
      <3> QED
        BY <2>1, <3>1 DEF Move, Alone, KeepsUploads
    <2>3. CASE Expirable(s) /\ session[s].state = "processing"
      <3> DEFINE rows == WithLast(attempts[s], [At(s) EXCEPT !.state = "cancel-requested"])
      <3>1. /\ Move(session[s].state, attempts[s], "cancel-requested", rows)
            /\ rows # <<>> /\ attempts[s] # <<>>
        BY <2>3, StopMoves
      <3>2. attempts'[s] = rows
        BY <2>3, <3>1 DEF ExpireOpenSessions
      <3>3. /\ session'[s] = SessionBecomes(session[s], "cancel-requested", FALSE)
            /\ upload'[s] = upload[s]
        BY <2>3 DEF ExpireOpenSessions
      <3> HIDE DEF rows
      <3>4. session'[s] \in SessionRow /\ session'[s].state = "cancel-requested"
        <4>1. /\ SessionBecomes(session[s], "cancel-requested", FALSE) \in SessionRow
              /\ SessionBecomes(session[s], "cancel-requested", FALSE).state = "cancel-requested"
          BY <2>1, RowAfter DEF SessionStates
        <4> QED
          BY <3>3, <4>1
      <3> QED
        BY <2>1, <2>3, <3>1, <3>2, <3>3, <3>4 DEF KeepsUploads, UploadStates, Done
    <2>4. CASE Expirable(s) /\ session[s].state # "processing"
      <3>1. /\ session'[s] = SessionBecomes(session[s], "failed", FALSE)
            /\ upload'[s] = Aborted(s, succeeds)
        BY <2>4 DEF ExpireOpenSessions
      <3>2. session'[s] \in SessionRow /\ session'[s].state = "failed"
        <4>1. /\ SessionBecomes(session[s], "failed", FALSE) \in SessionRow
              /\ SessionBecomes(session[s], "failed", FALSE).state = "failed"
          BY <2>1, RowAfter DEF SessionStates
        <4> QED
          BY <3>1, <4>1
      <3>3. KeepsUploads(s) /\ NoneOpen(s)
        BY <1>0, <3>1, AbortedUploads
      <3>4. CASE attempts[s] = <<>>
        <4>1. attempts'[s] = attempts[s]
          BY <3>4 DEF ExpireOpenSessions
        <4>2. Move(session[s].state, attempts[s], "failed", attempts[s])
          BY <2>4, <3>4 DEF Move, Alone, Expirable, Unpackaged
        <4> QED
          BY <3>2, <3>3, <4>1, <4>2 DEF Done
      <3>5. CASE attempts[s] # <<>>
        <4> DEFINE rows == WithLast(attempts[s], AttemptEnds(At(s), "failed"))
        <4>1. attempts'[s] = rows
          BY <2>4, <3>5 DEF ExpireOpenSessions
        <4>2. session[s].state = "uploaded"
          BY <2>1, <2>4, <3>5 DEF Agree, Pairs, Expirable
        <4>3. <<session[s].state, "failed", "failed">> \in Ends
          BY <4>2 DEF Ends
        <4>4. Move(session[s].state, attempts[s], "failed", rows) /\ rows # <<>>
          BY <3>5, <4>3, EndMoves DEF AttemptStates
        <4> HIDE DEF rows
        <4> QED
          BY <3>2, <3>3, <3>5, <4>1, <4>4 DEF Done
      <3> QED
        BY <3>4, <3>5
    <2> QED
      BY <2>2, <2>3, <2>4
  <1>2. /\ session' = [s \in Sessions |-> session'[s]]
        /\ attempts' = [s \in Sessions |-> attempts'[s]] /\ DOMAIN upload' = Sessions
    BY DEF ExpireOpenSessions
  <1>3. RowsMove
    BY <1>1, <1>2, AllMove
  <1>4. ResultsMove /\ WorkersFollow /\ UNCHANGED <<package, envelope>>
    BY <1>0, <1>1, WorkersStay DEF ExpireOpenSessions, ResultsMove
  <1> QED
    BY <1>1, <1>2, <1>3, <1>4, PlainStep

\* The last attempt of a session by the state it is in.
LEMMA SessionOfAttempt ==
    ASSUME IInv, NEW s \in Sessions
    PROVE  /\ HasAttemptIn(s, "queued") => session[s].state = "uploaded"
           /\ HasAttemptIn(s, "leased") => session[s].state = "processing"
           /\ HasAttemptIn(s, "cancel-requested") => session[s].state = "cancel-requested"
           /\ attempts[s] # <<>> => At(s) \in AttemptRow
  BY PresentRows DEF Agree, Pairs, HasAttemptIn, At

LEMMA ClaimHolds ==
    ASSUME IInv, NEW w \in Workers, NEW leased, leased = {} \/ \E s \in Sessions : leased = {s},
           Claim(w, leased)
    PROVE  RowsMove /\ ResultsMove /\ IInv'
  <1>0. TypeOK
    BY DEF IInv
  <1>1. PICK rejected \in SUBSET {s \in Sessions : Claimable(s) /\ ~Leasable(s)} :
           /\ session' = [s \in Sessions |-> ClaimedSession(s, rejected, leased)]
           /\ attempts' = [s \in Sessions |-> ClaimedAttempts(s, rejected, leased)]
    BY DEF Claim
  <1>2. /\ \A s \in leased : s \in Sessions /\ Claimable(s) /\ Leasable(s)
        /\ UNCHANGED <<upload, package, results, envelope>>
    BY DEF Claim
  <1> DEFINE Lease(s) == [state |-> "leased", claims |-> At(s).claims + 1,
                          token |-> At(s).claims + 1, lapsed |-> FALSE]
  <1>3. ASSUME NEW s \in leased
        PROVE  /\ session'[s] \in SessionRow /\ session'[s].state = "processing"
               /\ Move(session[s].state, attempts[s], session'[s].state, attempts'[s])
               /\ attempts'[s] = WithLast(attempts[s], Lease(s))
               /\ attempts[s] # <<>> /\ Lease(s) \in AttemptRow
               /\ session[s].state \in {"uploaded", "processing"}
    <2>1. s \in Sessions /\ Claimable(s) /\ Leasable(s) /\ ~Overdue(s) /\ s \notin rejected
      BY <1>1, <1>2 DEF Claimable, Overdue, HasAttemptIn
    <2>2. /\ session[s] \in SessionRow /\ attempts[s] \in Seq(AttemptRow) /\ attempts[s] # <<>>
          /\ At(s) \in AttemptRow
      BY <2>1, PresentRows, SessionOfAttempt DEF Claimable, HasAttemptIn
    <2>3. session'[s] = [session[s] EXCEPT !.state = "processing"]
      BY <1>1, <2>1 DEF ClaimedSession
    <2>4. session'[s] \in SessionRow /\ session'[s].state = "processing"
      BY <2>2, <2>3 DEF SessionRow, SessionStates
    <2>5. attempts'[s] = WithLast(attempts[s], Lease(s))
      BY <1>1, <2>1 DEF ClaimedAttempts
    <2>6. At(s).claims + 1 \in Nat
      BY <2>2 DEF AttemptRow
    <2>7. Lease(s) \in AttemptRow
      BY <2>6 DEF AttemptRow, AttemptStates
    <2>8. Lease(s).state = "leased" /\ Lease(s).claims = At(s).claims + 1 /\ Lease(s).token = Lease(s).claims
      OBVIOUS
    <2>9. session[s].state \in {"uploaded", "processing"}
      BY <2>1 DEF Leasable
    <2> HIDE DEF Lease
    <2>10. Leases(session[s].state, attempts[s][Len(attempts[s])], session'[s].state, Lease(s))
      BY <2>4, <2>8, <2>9 DEF Leases, At
    <2>11. Replaces(session[s].state, attempts[s], session'[s].state, attempts'[s])
      BY <2>2, <2>5, <2>7, <2>10 DEF Replaces
    <2> QED
      BY <2>2, <2>4, <2>5, <2>7, <2>9, <2>11 DEF Move
  <1> HIDE DEF Lease
  <1>4. ASSUME NEW s \in Sessions
        PROVE  /\ session'[s] \in SessionRow
               /\ Move(session[s].state, attempts[s], session'[s].state, attempts'[s])
               /\ session'[s].state \in Done => session[s].state \in Done
               /\ attempts'[s] = <<>> <=> attempts[s] = <<>>
               /\ session'[s].state \in UploadStates \/ session[s].state \notin UploadStates
    <2>1. session[s] \in SessionRow /\ attempts[s] \in Seq(AttemptRow)
      BY PresentRows
    <2>2. CASE s \in leased
      <3>1. attempts'[s] # <<>>
        <4>1. PICK new \in AttemptRow : attempts'[s] = WithLast(attempts[s], new) /\ attempts[s] # <<>>
          BY <1>3, <2>2
        <4> QED
          BY <2>1, <4>1, LastReplaced
      <3> QED
        BY <1>3, <2>2, <3>1 DEF Done, UploadStates
    <2>3. CASE Overdue(s)
      <3> DEFINE rows == WithLast(attempts[s], AttemptEnds(At(s), "cancelled"))
      <3>1. s \notin rejected /\ s \notin leased
        BY <1>1, <1>2, <2>3 DEF Claimable, Overdue, HasAttemptIn
      <3>2. attempts'[s] = rows
        BY <1>1, <2>3, <3>1 DEF ClaimedAttempts
      <3>3. session'[s] = SessionBecomes(session[s], "cancelled", FALSE)
        BY <1>1, <2>3, <3>1 DEF ClaimedSession
      <3>4. /\ SessionBecomes(session[s], "cancelled", FALSE) \in SessionRow
            /\ SessionBecomes(session[s], "cancelled", FALSE).state = "cancelled"
        BY <2>1, RowAfter DEF SessionStates
      <3>5. attempts[s] # <<>> /\ session[s].state = "cancel-requested"
        BY <2>3, SessionOfAttempt DEF Overdue, HasAttemptIn
      <3>6. <<session[s].state, "cancelled", "cancelled">> \in Ends
        BY <3>5 DEF Ends
      <3>7. Move(session[s].state, attempts[s], "cancelled", rows) /\ rows # <<>>
        BY <3>5, <3>6, EndMoves DEF AttemptStates
      <3> HIDE DEF rows
      <3> QED
        BY <3>2, <3>3, <3>4, <3>5, <3>7 DEF Done, UploadStates
    <2>4. CASE s \in rejected
      <3> DEFINE rows == WithLast(attempts[s], AttemptEnds(At(s), "failed"))
      <3>1. ~Overdue(s) /\ s \notin leased /\ Claimable(s)
        BY <1>1, <1>2, <2>4 DEF Claimable, Overdue, HasAttemptIn
      <3>2. attempts'[s] = rows
        BY <1>1, <2>4, <3>1 DEF ClaimedAttempts
      <3>3. session'[s] = SessionBecomes(session[s], "failed", FALSE)
        BY <1>1, <2>4, <3>1 DEF ClaimedSession
      <3>4. /\ SessionBecomes(session[s], "failed", FALSE) \in SessionRow
            /\ SessionBecomes(session[s], "failed", FALSE).state = "failed"
        BY <2>1, RowAfter DEF SessionStates
      <3>5. attempts[s] # <<>> /\ session[s].state \in {"uploaded", "processing"}
        BY <3>1, SessionOfAttempt DEF Claimable, HasAttemptIn
      <3>6. <<session[s].state, "failed", "failed">> \in Ends
        BY <3>5 DEF Ends
      <3>7. Move(session[s].state, attempts[s], "failed", rows) /\ rows # <<>>
        BY <3>5, <3>6, EndMoves DEF AttemptStates
      <3> HIDE DEF rows
      <3> QED
        BY <3>2, <3>3, <3>4, <3>5, <3>7 DEF Done, UploadStates
    <2>5. CASE s \notin leased /\ ~Overdue(s) /\ s \notin rejected
      <3>1. session'[s] = session[s] /\ attempts'[s] = attempts[s]
        BY <1>1, <2>5 DEF ClaimedSession, ClaimedAttempts
      <3> QED
        BY <2>1, <3>1 DEF Move, Alone
    <2> QED
      BY <2>2, <2>3, <2>4, <2>5
  <1>5. RowsMove
    BY <1>1, <1>4, AllMove
  <1>6. ResultsMove
    BY <1>2, <1>4 DEF ResultsMove
  <1>7. worker' \in [Workers -> Execution \cup {Idle}] /\ ClaimsAreRecorded'
    <2>1. CASE leased = {}
      <3>1. WorkersFollow
        BY <1>0, <2>1 DEF Claim, WorkersFollow, TypeOK
      <3> QED
        BY <1>5, <3>1, ClaimsKept
    <2>2. ASSUME NEW s \in Sessions, leased = {s}
          PROVE  worker' \in [Workers -> Execution \cup {Idle}] /\ ClaimsAreRecorded'
      <3> DEFINE e == [phase |-> "working", session |-> s, attempt |-> Len(attempts[s]),
                       token |-> At(s).claims + 1, retryable |-> FALSE]
      <3>1. (CHOOSE t \in leased : TRUE) = s
        BY <2>2
      <3>2. worker' = [worker EXCEPT ![w] = e]
        BY <2>2, <3>1 DEF Claim
      <3>3. /\ attempts[s] \in Seq(AttemptRow) /\ attempts[s] # <<>> /\ Lease(s) \in AttemptRow
            /\ attempts'[s] = WithLast(attempts[s], Lease(s))
        BY <1>3, <2>2, PresentRows
      <3>4. At(s).claims + 1 = Lease(s).claims /\ At(s) \in AttemptRow
        BY <3>3, SessionOfAttempt DEF Lease
      <3>5. At(s).claims + 1 \in Nat \ {0} /\ Len(attempts[s]) \in Nat \ {0}
        BY <3>3, <3>4 DEF AttemptRow
      <3>6. e \in Execution /\ e.session = s /\ e.attempt = Len(attempts[s])
            /\ e.token = At(s).claims + 1
        BY <3>5 DEF Execution
      <3> HIDE DEF e
      <3>7. worker' \in [Workers -> Execution \cup {Idle}] /\ worker'[w] = e
            /\ \A v \in Workers \ {w} : worker'[v] = worker[v]
        BY <1>0, <3>2, <3>6 DEF TypeOK
      <3>8. ClaimIsRecorded(w)'
        <4>1. PICK new \in AttemptRow : new = Lease(s)
          BY <3>3
        <4>2. /\ Len(attempts'[s]) = Len(attempts[s]) /\ Len(attempts[s]) \in 1..Len(attempts[s])
              /\ attempts'[s][Len(attempts[s])] = new
          <5>1. attempts'[s] = WithLast(attempts[s], new)
            BY <3>3, <4>1
          <5>2. attempts[s] \in Seq(AttemptRow) /\ attempts[s] # <<>>
            BY <3>3
          <5>3. /\ Len(WithLast(attempts[s], new)) = Len(attempts[s])
                /\ Len(attempts[s]) \in 1..Len(attempts[s])
                /\ WithLast(attempts[s], new)[Len(attempts[s])] = new
            BY <5>2, LastReplaced
          <5> QED
            BY <5>1, <5>3
        <4>3. new.claims = At(s).claims + 1 /\ At(s).claims + 1 \in Nat
          BY <3>4, <3>5, <4>1
        <4>4. PICK n : n = Len(attempts[s])
          OBVIOUS
        <4>5. n \in 1..Len(attempts'[s]) /\ worker'[w].token <= attempts'[s][n].claims
          BY <3>6, <3>7, <4>2, <4>3, <4>4
        <4> QED
          BY <3>6, <3>7, <4>4, <4>5 DEF ClaimIsRecorded, Row
      <3>9. \A v \in Workers \ {w} : worker'[v] # Idle => ClaimIsRecorded(v)'
        BY <1>0, <1>5, <3>7, ClaimStays DEF TypeOK
      <3> QED
        BY <3>7, <3>8, <3>9 DEF ClaimsAreRecorded
    <2> QED
      BY <2>1, <2>2
  <1>8. DOMAIN upload' = Sessions /\ \A s \in Sessions : KeepsUploads(s)
    BY <1>0, <1>2, UploadsStay
  <1> QED
    BY <1>2, <1>4, <1>5, <1>6, <1>7, <1>8, RowsStep

-----------------------------------------------------------------------------
(* The runner's steps.                                                     *)

\* The lease a worker's token is the token of.
LEMMA HeldLease ==
    ASSUME IInv, NEW w \in Workers, worker[w] \in Execution, IsToken(w),
           NEW s \in Sessions, s = worker[w].session
    PROVE  /\ attempts[s] # <<>> /\ attempts[s] \in Seq(AttemptRow)
           /\ worker[w].attempt = Len(attempts[s]) /\ Row(w) = At(s) /\ At(s) \in AttemptRow
           /\ worker[w].token = At(s).claims
           /\ \/ session[s].state = "processing" /\ At(s).state = "leased"
              \/ session[s].state = "cancel-requested" /\ At(s).state = "cancel-requested"
  <1>1. PICK n : n = worker[w].attempt
    OBVIOUS
  <1>2. /\ n \in 1..Len(attempts[s]) /\ attempts[s] \in Seq(AttemptRow)
        /\ Agree(session[s].state, attempts[s])
    BY <1>1, ExecutionsAreNotIdle, PresentRows DEF IInv, ClaimsAreRecorded, ClaimIsRecorded
  <1>3. Row(w) = attempts[s][n] /\ attempts[s][n] \in AttemptRow /\ attempts[s] # <<>>
    BY <1>1, <1>2 DEF Row
  <1>4. worker[w].token # 0 /\ attempts[s][n].token = worker[w].token
    BY <1>3, ExecutionsAreNotIdle DEF IsToken
  <1>5. /\ attempts[s][n].state \in {"leased", "cancel-requested"}
        /\ attempts[s][n].claims = attempts[s][n].token /\ n = Len(attempts[s])
    BY <1>2, <1>4 DEF Agree, TokenAgrees
  <1>6. <<session[s].state, attempts[s][n].state>> \in Pairs
    BY <1>2, <1>3, <1>5 DEF Agree
  <1> QED
    BY <1>1, <1>2, <1>3, <1>4, <1>5, <1>6 DEF At, Pairs

\* What SetLease does to the rows.
LEMMA LeaseSet ==
    ASSUME IInv, NEW w \in Workers, worker[w] \in Execution, IsToken(w),
           NEW s \in Sessions, s = worker[w].session,
           NEW row, NEW state, NEW retryable, SetLease(w, row, state, retryable)
    PROVE  /\ session' = [session EXCEPT ![s] = SessionBecomes(session[s], state, retryable)]
           /\ attempts' = [attempts EXCEPT ![s] = WithLast(attempts[s], row)]
           /\ UNCHANGED <<upload, package, envelope>>
  <1>1. worker[w].attempt = Len(attempts[s])
    BY HeldLease
  <1> QED
    BY <1>1 DEF SetLease, WithLast

\* The worker ends its attempt without a result.
LEMMA WorkEnds ==
    ASSUME IInv, NEW w \in Workers, worker[w] \in Execution, IsToken(w),
           NEW s \in Sessions, s = worker[w].session,
           NEW state \in {"cancelled", "failed"}, NEW retryable \in BOOLEAN,
           SetLease(w, AttemptEnds(Row(w), state), state, retryable),
           <<session[s].state, state, state>> \in Ends,
           Stop(w), results' = results
    PROVE  RowsMove /\ ResultsMove /\ IInv'
  <1> DEFINE aRow == SessionBecomes(session[s], state, retryable)
             rows == WithLast(attempts[s], AttemptEnds(At(s), state))
  <1>1. TypeOK /\ session[s] \in SessionRow
    BY PresentRows
  <1>2. attempts[s] # <<>> /\ Row(w) = At(s) /\ session[s].state \notin UploadStates
    BY HeldLease DEF UploadStates
  <1>3. /\ session' = [session EXCEPT ![s] = aRow] /\ attempts' = [attempts EXCEPT ![s] = rows]
        /\ UNCHANGED <<upload, package, envelope>>
    BY <1>2, LeaseSet
  <1>4. aRow \in SessionRow /\ aRow.state = state
    <2>1. state \in SessionStates
      BY DEF SessionStates
    <2> QED
      BY <1>1, <2>1, RowAfter
  <1>5. Move(session[s].state, attempts[s], state, rows) /\ rows # <<>>
    BY <1>2, EndMoves DEF AttemptStates
  <1>6. WorkersFollow /\ DOMAIN upload' = Sessions /\ \A t \in Sessions : KeepsUploads(t)
    BY <1>1, <1>3, WorkersStop, UploadsStay
  <1> HIDE DEF aRow, rows
  <1>7. aRow.state \notin Done
    BY <1>4 DEF Done
  <1> QED
    BY <1>2, <1>3, <1>4, <1>5, <1>6, <1>7, OneEnds

LEMMA FailHolds ==
    ASSUME IInv, NEW w \in Workers, worker[w] \in Execution, Fail(w)
    PROVE  RowsMove /\ ResultsMove /\ IInv'
  <1>1. PICK s \in Sessions : s = worker[w].session
    BY ExecutionsAreNotIdle
  <1>2. CASE CancellationRequested(w) /\ SetLease(w, AttemptEnds(Row(w), "cancelled"), "cancelled", FALSE)
    <2>1. IsToken(w) /\ (Row(w).state = "cancel-requested" \/ session[s].state = "cancel-requested")
      BY <1>1, <1>2 DEF CancellationRequested, SessionOf
    <2>2. session[s].state = "cancel-requested"
      BY <1>1, <2>1, HeldLease
    <2>3. <<session[s].state, "cancelled", "cancelled">> \in Ends
      BY <2>2 DEF Ends
    <2>4. Stop(w) /\ results' = results
      BY DEF Fail
    <2> QED
      BY <1>1, <1>2, <2>1, <2>3, <2>4, WorkEnds
  <1>3. CASE /\ IsToken(w) /\ SessionOf(w).state = "processing"
             /\ \E canRetry \in BOOLEAN :
                   SetLease(w, AttemptEnds(Row(w), "failed"), "failed", canRetry)
    <2>1. PICK canRetry \in BOOLEAN : SetLease(w, AttemptEnds(Row(w), "failed"), "failed", canRetry)
      BY <1>3
    <2>2. <<session[s].state, "failed", "failed">> \in Ends
      BY <1>1, <1>3 DEF Ends, SessionOf
    <2>3. Stop(w) /\ results' = results
      BY DEF Fail
    <2> QED
      BY <1>1, <1>3, <2>1, <2>2, <2>3, WorkEnds
  <1>4. (worker[w].retryable /\ worker[w].attempt < MaximumAttempts) \in BOOLEAN
    OBVIOUS
  <1> QED
    BY <1>2, <1>3, <1>4 DEF Fail

LEMMA AcknowledgeHolds ==
    ASSUME IInv, NEW w \in Workers, worker[w] \in Execution, Acknowledge(w)
    PROVE  RowsMove /\ ResultsMove /\ IInv'
  <1>1. PICK s \in Sessions : s = worker[w].session
    BY ExecutionsAreNotIdle
  <1>2. /\ IsToken(w) /\ Row(w).state = "cancel-requested" /\ Stop(w) /\ results' = results
        /\ SetLease(w, AttemptEnds(Row(w), "cancelled"), "cancelled", FALSE)
    BY DEF Acknowledge
  <1>3. session[s].state = "cancel-requested"
    BY <1>1, <1>2, HeldLease
  <1>4. <<session[s].state, "cancelled", "cancelled">> \in Ends
    BY <1>3 DEF Ends
  <1> QED
    BY <1>1, <1>2, <1>4, WorkEnds

LEMMA PublishHolds ==
    ASSUME IInv, NEW w \in Workers, worker[w] \in Execution, NEW state \in {"proposed", "abstained"},
           NEW answered \in BOOLEAN, Publish(w, state, answered)
    PROVE  RowsMove /\ ResultsMove /\ IInv'
  <1>1. PICK s \in Sessions : s = worker[w].session
    BY ExecutionsAreNotIdle
  <1>2. /\ IsToken(w) /\ session[s].state = "processing"
        /\ results' = results \cup
              {[session |-> s, attempt |-> worker[w].attempt, claim |-> worker[w].token]}
        /\ SetLease(w, AttemptEnds(Row(w), "succeeded"), state, FALSE)
    BY <1>1 DEF Publish, Holds, SessionOf
  <1>3. /\ attempts[s] # <<>> /\ worker[w].attempt = Len(attempts[s]) /\ Row(w) = At(s)
        /\ worker[w].token = At(s).claims
    BY <1>1, <1>2, HeldLease
  <1> DEFINE aRow == SessionBecomes(session[s], state, FALSE)
             rows == WithLast(attempts[s], AttemptEnds(At(s), "succeeded"))
  <1>4. TypeOK /\ session[s] \in SessionRow
    BY PresentRows
  <1>5. /\ session' = [session EXCEPT ![s] = aRow] /\ attempts' = [attempts EXCEPT ![s] = rows]
        /\ UNCHANGED <<upload, package, envelope>>
    <2> DEFINE row == AttemptEnds(At(s), "succeeded")
    <2>1. SetLease(w, row, state, FALSE)
      BY <1>2, <1>3
    <2> HIDE DEF row
    <2>2. /\ session' = [session EXCEPT ![s] = SessionBecomes(session[s], state, FALSE)]
          /\ attempts' = [attempts EXCEPT ![s] = WithLast(attempts[s], row)]
          /\ UNCHANGED <<upload, package, envelope>>
      BY <1>1, <1>3, <2>1 DEF SetLease, WithLast
    <2> QED
      BY <2>2 DEF row
  <1>6. aRow \in SessionRow /\ aRow.state = state
    <2>1. state \in SessionStates
      BY DEF SessionStates
    <2> QED
      BY <1>4, <2>1, RowAfter
  <1>7. <<session[s].state, state, "succeeded">> \in Ends
    BY <1>2 DEF Ends
  <1>8. Move(session[s].state, attempts[s], state, rows) /\ rows # <<>>
    BY <1>3, <1>7, EndMoves DEF AttemptStates
  <1> HIDE DEF aRow, rows
  <1>9. /\ RowsMove /\ session'[s] = aRow /\ attempts'[s] = rows
        /\ \A t \in Sessions \ {s} : session'[t] = session[t] /\ attempts'[t] = attempts[t]
    BY <1>5, <1>6, <1>8, OneMoves
  <1>10. ResultsMove
    <2>1. ClaimsOf(attempts[s]) = worker[w].token
      BY <1>3 DEF ClaimsOf, At
    <2>2. results' = results \cup {ResultOf(s)}
      BY <1>2, <1>3, <2>1 DEF ResultOf
    <2>3. Finishes(s)
      BY <1>2, <1>6, <1>9, <2>2 DEF Finishes, Done
    <2> QED
      BY <2>3 DEF ResultsMove
  <1>11. WorkersFollow
    <2>1. CASE Stop(w)
      BY <1>4, <2>1, WorkersStop
    <2>2. CASE Goes(w, "failing")
      BY <1>4, <2>2, WorkersGoOn
    <2> QED
      BY <2>1, <2>2 DEF Publish
  <1>12. DOMAIN upload' = Sessions /\ \A t \in Sessions : KeepsUploads(t)
    BY <1>4, <1>5, UploadsStay
  <1>13. \A t \in Sessions :
          /\ attempts'[t] = <<>> <=> attempts[t] = <<>>
          /\ session'[t].state \in UploadStates \/ session[t].state \notin UploadStates
    BY <1>2, <1>3, <1>8, <1>9 DEF UploadStates
  <1> QED
    BY <1>5, <1>9, <1>10, <1>11, <1>12, <1>13, PlainStep

\* The steps that change no row.
LEMMA QuietRunner ==
    ASSUME IInv, NEW w \in Workers, worker[w] \in Execution,
           \/ Convert(w) \/ LeaseEnds(w) \/ Abstains(w) \/ PublishIsFenced(w) \/ GivesUp(w) \/ Crash(w)
           \/ \E retryable \in BOOLEAN : Throws(w, retryable)
    PROVE  RowsMove /\ ResultsMove /\ IInv'
  <1>1. TypeOK
    BY DEF IInv
  <1>2. CASE Stop(w) /\ NothingButTheWorker
    BY <1>1, <1>2, WorkersStop, QuietStep DEF NothingButTheWorker
  <1>3. ASSUME NEW phase \in {"publishing", "abstaining", "failing", "cancelling"},
               Goes(w, phase), NothingButTheWorker
        PROVE  RowsMove /\ ResultsMove /\ IInv'
    BY <1>1, <1>3, WorkersGoOn, QuietStep DEF NothingButTheWorker
  <1>4. ASSUME NEW retryable \in BOOLEAN, Throws(w, retryable)
        PROVE  RowsMove /\ ResultsMove /\ IInv'
    <2> DEFINE e == [worker[w] EXCEPT !.phase = "failing", !.retryable = retryable]
    <2>1. /\ e \in Execution /\ e.session = worker[w].session
          /\ e.attempt = worker[w].attempt /\ e.token = worker[w].token
      BY DEF Execution
    <2>2. worker' = [worker EXCEPT ![w] = e] /\ NothingButTheWorker
      BY <1>1, <1>4 DEF Throws, TypeOK
    <2> HIDE DEF e
    <2> QED
      BY <1>1, <2>1, <2>2, WorkersGo, QuietStep DEF NothingButTheWorker
  <1> QED
    BY <1>2, <1>3, <1>4 DEF Convert, LeaseEnds, Abstains, PublishIsFenced, GivesUp, Crash

-----------------------------------------------------------------------------
(* The invariant.                                                          *)

LEMMA WithdrawMediaHolds ==
    ASSUME IInv, WithdrawMedia
    PROVE  RowsMove /\ ResultsMove /\ IInv'
  <1>1. WorkersFollow /\ UNCHANGED <<session, upload, package, attempts, results, envelope>>
    BY WorkersStay DEF WithdrawMedia, IInv
  <1> QED
    BY <1>1, QuietStep

LEMMA ClientStepHolds ==
    ASSUME IInv, NEW s \in Sessions, ClientStep(s)
    PROVE  RowsMove /\ ResultsMove /\ IInv'
  BY CreateSessionHolds, FinalizePackageHolds, RetrySessionHolds, CreateArtifactUploadHolds,
     SignArtifactPartHolds, CompleteArtifactUploadHolds, AcceptEnvelopeHolds DEF ClientStep

LEMMA EndStepHolds ==
    ASSUME IInv, NEW s \in Sessions, EndStep(s)
    PROVE  RowsMove /\ ResultsMove /\ IInv'
  BY CancelSessionHolds, WithdrawRightsHolds, EndingRollsBackHolds, BriefExpiresHolds,
     LeaseLapsesHolds DEF EndStep

LEMMA WorkerStepHolds ==
    ASSUME IInv, NEW w \in Workers, WorkerStep(w)
    PROVE  RowsMove /\ ResultsMove /\ IInv'
  <1>1. CASE ClaimStep(w)
    <2>1. PICK leased \in {{}} \cup {{s} : s \in Sessions} : Claim(w, leased)
      BY <1>1 DEF ClaimStep
    <2>2. leased = {} \/ \E s \in Sessions : leased = {s}
      OBVIOUS
    <2> QED
      BY <2>1, <2>2, ClaimHolds
  <1>2. CASE ~ClaimStep(w)
    <2>1. worker[w] \in Execution
      <3>1. worker[w] # Idle
        <4>1. Idle.phase = "idle"
          BY DEF Idle
        <4>2. CASE RunnerStep(w)
          <5>1. worker[w].phase \in {"working", "publishing", "abstaining", "failing", "cancelling"}
            BY <4>2 DEF RunnerStep, Convert, LeaseEnds, PublishIsFenced, Publish, Fail, Acknowledge,
                        GivesUp
          <5> QED
            BY <4>1, <5>1
        <4>3. CASE Abstains(w) \/ (\E retryable \in BOOLEAN : Throws(w, retryable)) \/ Crash(w)
          BY <4>1, <4>3 DEF Abstains, Throws, Crash
        <4> QED
          BY <1>2, <4>2, <4>3 DEF WorkerStep
      <3> QED
        BY <3>1 DEF IInv, TypeOK
    <2> QED
      BY <1>2, <2>1, FailHolds, AcknowledgeHolds, PublishHolds, QuietRunner
      DEF WorkerStep, RunnerStep
  <1> QED
    BY <1>1, <1>2

LEMMA NextHolds ==
    ASSUME IInv, [Next]_vars
    PROVE  RowsMove /\ ResultsMove /\ IInv'
  <1>1. CASE UNCHANGED vars
    <2>1. WorkersFollow /\ UNCHANGED <<session, upload, package, attempts, results, envelope>>
      BY <1>1, WorkersStay DEF vars, IInv
    <2> QED
      BY <2>1, QuietStep
  <1>2. CASE Next
    BY <1>2, ClientStepHolds, EndStepHolds, WorkerStepHolds, ExpireOpenSessionsHolds,
       WithdrawMediaHolds DEF Next, ExpiryStep
  <1> QED
    BY <1>1, <1>2

LEMMA InitHolds ==
    ASSUME Init
    PROVE  IInv
  <1>1. /\ \A s \in Sessions : session[s].state = "absent" /\ attempts[s] = <<>>
        /\ results = {} /\ \A w \in Workers : worker[w] = Idle
    BY DEF Init
  <1>2. TypeOK
    <2>1. session \in [Sessions -> SessionRow]
      BY DEF Init, SessionRow, SessionStates
    <2>2. attempts \in [Sessions -> Seq(AttemptRow)] /\ worker \in [Workers -> Execution \cup {Idle}]
      BY DEF Init
    <2>3. [row |-> "absent", at |-> "none"] \in UploadRow
      BY DEF UploadRow
    <2>4. DOMAIN upload = Sessions /\ \A s \in Sessions : upload[s] \in [ArtifactsOf[s] -> UploadRow]
      BY <2>3 DEF Init
    <2>5. DOMAIN package = Sessions /\ DOMAIN envelope = Sessions
          /\ \A s \in Sessions : envelope[s].plans \subseteq Sessions /\ envelope[s].accepted \in BOOLEAN
      BY DEF Init, NoEnvelope
    <2> QED
      BY <1>1, <2>1, <2>2, <2>4, <2>5 DEF TypeOK
  <1>3. RowsAgree
    BY <1>1 DEF RowsAgree, Agree, Unpackaged
  <1>4. ResultsAgree /\ ClaimsAreRecorded
    BY <1>1 DEF ResultsAgree, ClaimsAreRecorded, Done
  <1>5. ASSUME NEW s \in Sessions PROVE UploadsAgree(s) /\ EnvelopeAgrees(s)
    <2>1. /\ Completed(s) = {} /\ package[s] = NoPackage /\ ~envelope[s].accepted
          /\ \A a \in ArtifactsOf[s] : ~IsOpen(upload[s][a])
      BY DEF Init, Completed, NoEnvelope, IsOpen
    <2> QED
      BY <1>1, <2>1 DEF UploadsAgree, EnvelopeAgrees
  <1> QED
    BY <1>2, <1>3, <1>4, <1>5 DEF IInv

\* Both sides of a session, its artifacts and its envelope agree, whoever
\* writes them.
THEOREM SessionsAreConsistent == Spec => []IInv
  <1>1. IInv /\ [Next]_vars => IInv'
    BY NextHolds
  <1> QED
    BY <1>1, InitHolds, PTL DEF Spec

-----------------------------------------------------------------------------
(* What the invariant says of sessions, packages and envelopes.            *)

\* No attempt stays live under a session that is over, and none is missing
\* under one that waits for a result.
THEOREM SessionsFollowAttempts == Spec => []SessionFollowsAttempt
  <1>1. ASSUME IInv PROVE SessionFollowsAttempt
    <2> SUFFICES ASSUME NEW s \in Sessions
                 PROVE  /\ (package[s] # NoPackage) = (attempts[s] # <<>>)
                        /\ \A i \in 1..(Len(attempts[s]) - 1) : attempts[s][i].state = "failed"
                        /\ \A pair \in {<<"uploaded", "queued">>, <<"processing", "leased">>,
                                        <<"cancel-requested", "cancel-requested">>} :
                              (session[s].state = pair[1]) = HasAttemptIn(s, pair[2])
                        /\ (session[s].state \in {"proposed", "abstained"}) = HasAttemptIn(s, "succeeded")
                        /\ (session[s].state \in {"proposed", "abstained"}) = (\E r \in results : r.session = s)
      BY DEF SessionFollowsAttempt
    <2>1. /\ Agree(session[s].state, attempts[s]) /\ attempts[s] \in Seq(AttemptRow)
          /\ UploadsAgree(s)
      BY <1>1, PresentRows
    <2>2. (package[s] # NoPackage) = (attempts[s] # <<>>)
      BY <2>1 DEF UploadsAgree
    <2>3. \A i \in 1..(Len(attempts[s]) - 1) : attempts[s][i].state = "failed"
      <3>1. Len(attempts[s]) \in Nat
        BY <2>1
      <3> QED
        BY <2>1, <3>1 DEF Agree
    <2>4. ASSUME NEW pair \in {<<"uploaded", "queued">>, <<"processing", "leased">>,
                               <<"cancel-requested", "cancel-requested">>}
          PROVE  (session[s].state = pair[1]) <=> HasAttemptIn(s, pair[2])
      BY <2>1 DEF Agree, Pairs, Unpackaged, HasAttemptIn, At
    <2>5. (session[s].state \in {"proposed", "abstained"}) <=> HasAttemptIn(s, "succeeded")
      BY <2>1 DEF Agree, Pairs, Unpackaged, HasAttemptIn, At
    <2>6. (session[s].state \in {"proposed", "abstained"}) <=> (\E r \in results : r.session = s)
      BY <1>1 DEF IInv, ResultsAgree, Done
    <2>7. \A pair \in {<<"uploaded", "queued">>, <<"processing", "leased">>,
                        <<"cancel-requested", "cancel-requested">>} :
              (session[s].state = pair[1]) = HasAttemptIn(s, pair[2])
      BY <2>4 DEF HasAttemptIn
    <2>8. (session[s].state \in {"proposed", "abstained"}) = HasAttemptIn(s, "succeeded")
      <3>1. CASE session[s].state \in {"proposed", "abstained"}
        BY <2>5, <3>1 DEF HasAttemptIn
      <3>2. CASE session[s].state \notin {"proposed", "abstained"}
        BY <2>5, <3>2 DEF HasAttemptIn
      <3> QED
        BY <3>1, <3>2
    <2>9. (session[s].state \in {"proposed", "abstained"}) = (\E r \in results : r.session = s)
      <3> DEFINE isDone == session[s].state \in {"proposed", "abstained"}
                 hasResult == \E r \in results : r.session = s
      <3>1. (isDone <=> hasResult) /\ isDone \in BOOLEAN /\ hasResult \in BOOLEAN
        BY <2>6
      <3> HIDE DEF isDone, hasResult
      <3>2. isDone = hasResult
        BY <3>1
      <3> QED
        BY <3>2 DEF isDone, hasResult
    <2> QED
      BY <2>2, <2>3, <2>7, <2>8, <2>9
  <1> QED
    BY <1>1, SessionsAreConsistent, PTL

\* A package is exactly what the client registered, all of it stored, and
\* nothing can be uploaded to it any more.
THEOREM PackagesStayComplete == Spec => []PackagesAreComplete
  <1>1. ASSUME IInv PROVE PackagesAreComplete
    BY <1>1, PresentRows DEF PackagesAreComplete, UploadsAgree, UploadStates
  <1> QED
    BY <1>1, SessionsAreConsistent, PTL

\* Whatever is shown of a capture is still there and may still be used.
THEOREM EnvelopesStayTrue == Spec => []ShownEnvelopesHold
  <1>1. ASSUME IInv PROVE ShownEnvelopesHold
    <2> SUFFICES ASSUME NEW s \in Sessions, EnvelopeIsShown(s)
                 PROVE  /\ session[s].state = "accepted"
                        /\ \A a \in envelope[s].depth : upload[s][a].at = "stored"
                        /\ \A p \in envelope[s].plans :
                              /\ session[p].permitted /\ package[p] # NoPackage
                              /\ Cardinality({r \in results : r.session = p}) = 1
                              /\ \A a \in package[p] : upload[p][a].at = "stored"
      BY DEF ShownEnvelopesHold
    <2>1. /\ EnvelopeAgrees(s) /\ UploadsAgree(s) /\ envelope[s].accepted
          /\ envelope[s].plans \subseteq Sessions
      BY <1>1, PresentRows DEF EnvelopeIsShown, IInv, TypeOK
    <2>2. session[s].state = "accepted" /\ \A a \in envelope[s].depth : upload[s][a].at = "stored"
      BY <2>1 DEF EnvelopeAgrees, UploadsAgree
    <2>3. ASSUME NEW p \in envelope[s].plans
          PROVE  /\ session[p].permitted /\ package[p] # NoPackage
                 /\ Cardinality({r \in results : r.session = p}) = 1
                 /\ \A a \in package[p] : upload[p][a].at = "stored"
      <3>1. p \in Sessions /\ session[p].state \in Done /\ session[p].permitted
        BY <2>1 DEF EnvelopeAgrees, EnvelopeIsShown
      <3>2. Agree(session[p].state, attempts[p]) /\ UploadsAgree(p)
        BY <1>1, <3>1, PresentRows
      <3>3. package[p] # NoPackage /\ \A a \in package[p] : upload[p][a].at = "stored"
        BY <3>1, <3>2 DEF Agree, Unpackaged, Done, UploadsAgree
      <3>4. PICK r \in results : r.session = p
        BY <1>1, <3>1 DEF IInv, ResultsAgree
      <3>5. {q \in results : q.session = p} = {r}
        BY <1>1, <3>4 DEF IInv, ResultsAgree
      <3> QED
        BY <3>1, <3>3, <3>5, FS_Singleton
    <2> QED
      BY <2>2, <2>3
  <1> QED
    BY <1>1, SessionsAreConsistent, PTL

-----------------------------------------------------------------------------
(* The processing of packages implements LeasedJobs.                       *)

\* What the view shows of a session.
Statuses == {"absent", "waiting", "working", "stopping", "done", "cancelled", "failed",
             "created", "uploading", "accepted"}

Shown == [status : Statuses, attempt : Nat, claims : Nat, output : Nat \X Nat]

LEMMA ShownColumns ==
    \A r \in Shown :
        r = [status |-> r.status, attempt |-> r.attempt, claims |-> r.claims, output |-> r.output]
  BY DEF Shown

LEMMA StatusOfState ==
    ASSUME NEW state \in SessionStates, NEW rows
    PROVE  /\ Status(state, rows) \in Statuses
           /\ rows = <<>> => Status(state, rows) = "absent"
           /\ rows # <<>> =>
                 /\ state = "uploaded" => Status(state, rows) = "waiting"
                 /\ state = "processing" => Status(state, rows) = "working"
                 /\ state = "cancel-requested" => Status(state, rows) = "stopping"
                 /\ state \in Done => Status(state, rows) = "done"
                 /\ state \in Unpackaged => Status(state, rows) = state
  BY DEF Status, SessionStates, Statuses, Done, Unpackaged

LEMMA OutputOfRows ==
    ASSUME NEW rows, rows \subseteq ResultRow
    PROVE  Output(rows) \in Nat \X Nat
  <1>1. CASE rows = {}
    BY <1>1 DEF Output
  <1>2. CASE rows # {}
    <2> DEFINE s == CHOOSE s \in rows : TRUE
    <2>1. s \in rows
      BY <1>2
    <2>2. Output(rows) = <<s.attempt, s.claim>>
      BY <1>2 DEF Output
    <2> QED
      BY <2>1, <2>2 DEF ResultRow
  <1> QED
    BY <1>1, <1>2

RowsOf(s, all) == {r \in all : r.session = s}

LEMMA ViewOfSession ==
    ASSUME NEW s \in Sessions, NEW state \in SessionStates, NEW rows \in Seq(AttemptRow),
           NEW all, all \subseteq ResultRow,
           NEW shown,
           shown = [status |-> Status(state, rows), attempt |-> Len(rows),
                    claims |-> ClaimsOf(rows), output |-> Output(RowsOf(s, all))]
    PROVE  /\ shown \in Shown
           /\ shown.status = Status(state, rows) /\ shown.attempt = Len(rows)
           /\ shown.claims = ClaimsOf(rows) /\ shown.output = Output(RowsOf(s, all))
  <1>1. Status(state, rows) \in Statuses
    BY StatusOfState
  <1>2. Output(RowsOf(s, all)) \in Nat \X Nat
    BY OutputOfRows DEF RowsOf
  <1>3. Len(rows) \in Nat /\ ClaimsOf(rows) \in Nat
    <2>1. CASE rows = <<>>
      BY <2>1 DEF ClaimsOf
    <2>2. CASE rows # <<>>
      <3>1. Len(rows) \in Nat /\ rows[Len(rows)] \in AttemptRow
        BY <2>2
      <3> QED
        BY <2>2, <3>1 DEF ClaimsOf, AttemptRow
    <2> QED
      BY <2>1, <2>2
  <1> QED
    BY <1>1, <1>2, <1>3 DEF Shown

\* What the view shows before and after a step.
LEMMA ViewBefore ==
    ASSUME TypeOK, NEW s \in Sessions
    PROVE  /\ View[s] \in Shown
           /\ View[s].status = Status(session[s].state, attempts[s])
           /\ View[s].attempt = Len(attempts[s])
           /\ View[s].claims = ClaimsOf(attempts[s])
           /\ View[s].output = Output(RowsOf(s, results))
  <1>1. View[s] = [status |-> Status(session[s].state, attempts[s]), attempt |-> Len(attempts[s]),
                   claims |-> ClaimsOf(attempts[s]), output |-> Output(RowsOf(s, results))]
    BY DEF View, RowsOf
  <1>2. session[s].state \in SessionStates /\ attempts[s] \in Seq(AttemptRow)
    BY DEF TypeOK, SessionRow
  <1> QED
    BY <1>1, <1>2, ViewOfSession DEF TypeOK

LEMMA ViewAfter ==
    ASSUME TypeOK', NEW s \in Sessions
    PROVE  /\ View'[s] \in Shown
           /\ View'[s].status = Status(session'[s].state, attempts'[s])
           /\ View'[s].attempt = Len(attempts'[s])
           /\ View'[s].claims = ClaimsOf(attempts'[s])
           /\ View'[s].output = Output(RowsOf(s, results'))
  <1>1. View'[s] = [status |-> Status(session'[s].state, attempts'[s]), attempt |-> Len(attempts'[s]),
                    claims |-> ClaimsOf(attempts'[s]), output |-> Output(RowsOf(s, results'))]
    BY DEF View, RowsOf
  <1>2. session'[s].state \in SessionStates /\ attempts'[s] \in Seq(AttemptRow)
    BY DEF TypeOK, SessionRow
  <1> QED
    BY <1>1, <1>2, ViewOfSession DEF TypeOK

\* Two views with the same columns.
LEMMA SameShown ==
    ASSUME NEW old \in Shown, NEW new \in Shown,
           new.status = old.status, new.attempt = old.attempt, new.claims = old.claims,
           new.output = old.output
    PROVE  new = old
  BY ShownColumns

\* The steps of LeasedJobs, column by column.
LEMMA QueueColumns ==
    ASSUME NEW old \in Shown, NEW new \in Shown,
           old.status \in {"absent", "cancelled", "failed"}, old.attempt < MaximumAttempts,
           new.status = "waiting", new.attempt = old.attempt + 1, new.claims = 0,
           new.output = old.output
    PROVE  Leased!Queue(old, new)
  <1> DEFINE q == [old EXCEPT !.status = "waiting", !.attempt = @ + 1, !.claims = 0]
  <1>1. /\ q \in Shown /\ q.status = "waiting" /\ q.attempt = old.attempt + 1 /\ q.claims = 0
        /\ q.output = old.output
    BY DEF Shown, Statuses
  <1> HIDE DEF q
  <1>2. new = q
    BY <1>1, SameShown
  <1> QED
    BY <1>2 DEF Leased!Queue, q

LEMMA ClaimColumns ==
    ASSUME NEW old \in Shown, NEW new \in Shown,
           old.status \in {"waiting", "working"},
           new.status = "working", new.attempt = old.attempt, new.claims = old.claims + 1,
           new.output = old.output
    PROVE  Leased!Claim(old, new)
  <1> DEFINE q == [old EXCEPT !.status = "working", !.claims = @ + 1]
  <1>1. /\ q \in Shown /\ q.status = "working" /\ q.attempt = old.attempt
        /\ q.claims = old.claims + 1 /\ q.output = old.output
    BY DEF Shown, Statuses
  <1> HIDE DEF q
  <1>2. new = q
    BY <1>1, SameShown
  <1> QED
    BY <1>2 DEF Leased!Claim, q

LEMMA EndColumns ==
    ASSUME NEW old \in Shown, NEW new \in Shown,
           <<old.status, new.status>> \in Leased!Endings,
           new.attempt = old.attempt, new.claims = old.claims, new.output = old.output
    PROVE  Leased!End(old, new)
  <1> DEFINE q == [old EXCEPT !.status = new.status]
  <1>1. /\ q \in Shown /\ q.status = new.status /\ q.attempt = old.attempt
        /\ q.claims = old.claims /\ q.output = old.output
    BY DEF Shown
  <1> HIDE DEF q
  <1>2. new = q
    BY <1>1, SameShown
  <1> QED
    BY <1>2 DEF Leased!End, q

LEMMA FinishColumns ==
    ASSUME NEW old \in Shown, NEW new \in Shown,
           old.status = "working", new.status = "done",
           new.attempt = old.attempt, new.claims = old.claims,
           new.output = <<old.attempt, old.claims>>
    PROVE  Leased!Finish(old, new)
  <1> DEFINE q == [old EXCEPT !.status = "done", !.output = <<old.attempt, old.claims>>]
  <1>1. /\ q \in Shown /\ q.status = "done" /\ q.attempt = old.attempt
        /\ q.claims = old.claims /\ q.output = <<old.attempt, old.claims>>
    BY DEF Shown, Statuses
  <1> HIDE DEF q
  <1>2. new = q
    BY <1>1, SameShown
  <1> QED
    BY <1>2 DEF Leased!Finish, q

\* The last attempt is changed: the columns of its session.
LEMMA RowsReplaced ==
    ASSUME NEW rows \in Seq(AttemptRow), rows # <<>>, NEW row \in AttemptRow,
           NEW newRows, newRows = WithLast(rows, row)
    PROVE  /\ newRows # <<>> /\ Len(newRows) = Len(rows)
           /\ ClaimsOf(rows) = rows[Len(rows)].claims /\ ClaimsOf(newRows) = row.claims
  <1>1. /\ WithLast(rows, row) # <<>> /\ Len(WithLast(rows, row)) = Len(rows)
        /\ WithLast(rows, row)[Len(rows)] = row
    BY LastReplaced
  <1>2. newRows # <<>> /\ Len(newRows) = Len(rows) /\ newRows[Len(rows)] = row
    BY <1>1
  <1> QED
    BY <1>2 DEF ClaimsOf

\* What the moves of a session show, when it gets no result.
LEMMA MoveIsAStep ==
    ASSUME CaptureConstants, IInv, IInv', RowsMove, NEW s \in Sessions,
           session'[s].state \in Done => session[s].state \in Done,
           RowsOf(s, results') = RowsOf(s, results)
    PROVE  View'[s] = View[s] \/ Leased!Step(View[s], View'[s])
  <1> DEFINE old == View[s]
             new == View'[s]
             state == session[s].state
             rows == attempts[s]
             newState == session'[s].state
             newRows == attempts'[s]
  <1>1. /\ old \in Shown
        /\ old.status = Status(state, rows) /\ old.attempt = Len(rows)
        /\ old.claims = ClaimsOf(rows) /\ old.output = Output(RowsOf(s, results))
    BY ViewBefore DEF IInv
  <1>2. /\ new \in Shown
        /\ new.status = Status(newState, newRows) /\ new.attempt = Len(newRows)
        /\ new.claims = ClaimsOf(newRows) /\ new.output = Output(RowsOf(s, results))
    BY ViewAfter DEF IInv
  <1>3. /\ state \in SessionStates /\ newState \in SessionStates
        /\ rows \in Seq(AttemptRow) /\ Agree(state, rows) /\ Agree(newState, newRows)
        /\ Move(state, rows, newState, newRows)
    BY DEF IInv, TypeOK, RowsAgree, SessionRow, RowsMove
  <1>4. newState \in Done => state \in Done
    OBVIOUS
  <1> HIDE DEF old, new, state, rows, newState, newRows
  <1>5. /\ rows = <<>> => Status(state, rows) = "absent"
        /\ rows # <<>> =>
              /\ state = "uploaded" => Status(state, rows) = "waiting"
              /\ state = "processing" => Status(state, rows) = "working"
              /\ state = "cancel-requested" => Status(state, rows) = "stopping"
              /\ state \in Unpackaged => Status(state, rows) = state
    BY <1>3, StatusOfState
  <1>6. /\ newRows = <<>> => Status(newState, newRows) = "absent"
        /\ newRows # <<>> =>
              /\ newState = "uploaded" => Status(newState, newRows) = "waiting"
              /\ newState = "processing" => Status(newState, newRows) = "working"
              /\ newState = "cancel-requested" => Status(newState, newRows) = "stopping"
              /\ newState \in Unpackaged => Status(newState, newRows) = newState
    BY <1>3, StatusOfState
  <1>7. CASE Alone(state, rows, newState, newRows)
    <2>1. newRows = rows
      BY <1>7 DEF Alone
    <2>2. CASE newState = state
      BY <1>1, <1>2, <2>1, <2>2, SameShown DEF old, new
    <2>3. CASE rows = <<>>
      BY <1>1, <1>2, <1>5, <1>6, <2>1, <2>3, SameShown DEF old, new
    <2>4. CASE rows # <<>> /\ newState # state
      <3>1. state = "failed" /\ newState = "cancelled"
        BY <1>7, <2>4 DEF Alone
      <3>2. <<Status(state, rows), Status(newState, newRows)>> \in Leased!Endings
        BY <1>5, <1>6, <2>1, <2>4, <3>1 DEF Leased!Endings, Unpackaged
      <3>3. Leased!End(old, new)
        BY <1>1, <1>2, <2>1, <3>2, EndColumns
      <3> QED
        BY <3>3 DEF Leased!Step, old, new
    <2> QED
      BY <2>2, <2>3, <2>4 DEF old, new
  <1>8. CASE Queues(state, rows, newState, newRows)
    <2>0. newRows # <<>>
      <3>1. <<QueuedAttempt>> # <<>>
        OBVIOUS
      <3> QED
        BY <1>3, <1>8, <3>1, OneMore DEF Queues
    <2>1. old.status \in {"absent", "failed"} /\ new.status = "waiting"
      BY <1>1, <1>2, <1>5, <1>6, <1>8, <2>0 DEF Queues, Unpackaged
    <2>2. /\ Len(rows) < MaximumAttempts /\ Len(newRows) = Len(rows) + 1
          /\ newRows # <<>> /\ newRows[Len(newRows)] = QueuedAttempt
      <3>1. CASE rows = <<>>
        <4>1. newRows = <<QueuedAttempt>>
          BY <1>8, <3>1 DEF Queues
        <4>2. Len(newRows) = 1 /\ newRows[1] = QueuedAttempt /\ newRows # <<>>
          BY <4>1
        <4> QED
          BY <3>1, <4>2 DEF CaptureConstants
      <3>2. CASE rows # <<>>
        BY <1>3, <1>8, <3>2, OneMore DEF Queues
      <3> QED
        BY <3>1, <3>2
    <2>3. ClaimsOf(newRows) = 0
      BY <2>2 DEF ClaimsOf, QueuedAttempt
    <2>4. Leased!Queue(old, new)
      BY <1>1, <1>2, <2>1, <2>2, <2>3, QueueColumns
    <2> QED
      BY <2>4 DEF Leased!Step, old, new
  <1>9. CASE Replaces(state, rows, newState, newRows)
    <2> DEFINE last == rows[Len(rows)]
    <2>1. PICK row \in AttemptRow :
             /\ rows # <<>> /\ newRows = WithLast(rows, row)
             /\ \/ Leases(state, last, newState, row)
                \/ Lapses(state, last, newState, row)
                \/ Stops(state, last, newState, row)
                \/ EndsWith(state, last, newState, row)
      BY <1>9 DEF Replaces
    <2>2. newRows # <<>> /\ Len(newRows) = Len(rows)
      BY <1>3, <2>1, RowsReplaced
    <2>3. ClaimsOf(rows) = last.claims /\ ClaimsOf(newRows) = row.claims
      BY <1>3, <2>1, RowsReplaced
    <2> HIDE DEF last
    <2>4. CASE Leases(state, last, newState, row)
      <3>1. old.status \in {"waiting", "working"} /\ new.status = "working"
        BY <1>1, <1>2, <1>5, <1>6, <2>1, <2>2, <2>4 DEF Leases
      <3>2. new.claims = old.claims + 1
        BY <1>1, <1>2, <2>3, <2>4 DEF Leases
      <3>3. Leased!Claim(old, new)
        BY <1>1, <1>2, <2>2, <3>1, <3>2, ClaimColumns
      <3> QED
        BY <3>3 DEF Leased!Step, old, new
    <2>5. CASE Lapses(state, last, newState, row)
      <3>1. newState = state /\ ClaimsOf(newRows) = ClaimsOf(rows)
        BY <2>3, <2>5 DEF Lapses
      <3>2. Status(state, newRows) = Status(state, rows)
        BY <2>1, <2>2 DEF Status
      <3>3. new = old
        BY <1>1, <1>2, <2>2, <3>1, <3>2, SameShown
      <3> QED
        BY <3>3 DEF old, new
    <2>6. CASE Stops(state, last, newState, row) \/ EndsWith(state, last, newState, row)
      <3>1. ClaimsOf(newRows) = ClaimsOf(rows)
        BY <2>3, <2>6 DEF Stops, EndsWith
      <3>2. <<Status(state, rows), Status(newState, newRows)>> \in Leased!Endings
        BY <1>4, <1>5, <1>6, <2>1, <2>2, <2>6 DEF Stops, EndsWith, Ends, Done, Unpackaged, Leased!Endings
      <3>3. Leased!End(old, new)
        BY <1>1, <1>2, <2>2, <3>1, <3>2, EndColumns
      <3> QED
        BY <3>3 DEF Leased!Step, old, new
    <2> QED
      BY <2>1, <2>4, <2>5, <2>6
  <1> QED
    BY <1>3, <1>7, <1>8, <1>9 DEF Move

\* The session that gets its result finishes.
LEMMA FinishIsAStep ==
    ASSUME IInv, IInv', RowsMove, NEW s \in Sessions, Finishes(s)
    PROVE  Leased!Step(View[s], View'[s])
  <1>1. /\ View[s] \in Shown
        /\ View[s].status = Status(session[s].state, attempts[s])
        /\ View[s].attempt = Len(attempts[s]) /\ View[s].claims = ClaimsOf(attempts[s])
    BY ViewBefore DEF IInv
  <1>2. /\ View'[s] \in Shown
        /\ View'[s].status = Status(session'[s].state, attempts'[s])
        /\ View'[s].attempt = Len(attempts'[s]) /\ View'[s].claims = ClaimsOf(attempts'[s])
        /\ View'[s].output = Output(RowsOf(s, results'))
    BY ViewAfter DEF IInv
  <1>3. View[s].status = "working" /\ View'[s].status = "done"
    <2>1. session[s].state = "processing" /\ session'[s].state \in Done
      BY DEF Finishes
    <2>2. /\ session[s].state \in SessionStates /\ session'[s].state \in SessionStates
          /\ Agree(session[s].state, attempts[s]) /\ Agree(session'[s].state, attempts'[s])
      BY DEF IInv, TypeOK, RowsAgree, SessionRow
    <2>3. attempts[s] # <<>> /\ attempts'[s] # <<>>
      BY <2>1, <2>2 DEF Agree, Unpackaged, Done
    <2> QED
      BY <1>1, <1>2, <2>1, <2>2, <2>3, StatusOfState
  <1>4. Len(attempts'[s]) = Len(attempts[s]) /\ ClaimsOf(attempts'[s]) = ClaimsOf(attempts[s])
    <2>1. Move(session[s].state, attempts[s], session'[s].state, attempts'[s])
      BY DEF RowsMove
    <2>2. session[s].state = "processing" /\ session'[s].state \in Done
      BY DEF Finishes
    <2>3. Replaces(session[s].state, attempts[s], session'[s].state, attempts'[s])
      <3>1. attempts[s] # <<>>
        BY <2>2, PresentRows DEF Agree, Unpackaged
      <3> QED
        BY <2>1, <2>2, <3>1 DEF Move, Alone, Queues, Done
    <2>4. PICK row \in AttemptRow :
             /\ attempts[s] # <<>> /\ attempts'[s] = WithLast(attempts[s], row)
             /\ row.claims = attempts[s][Len(attempts[s])].claims
      BY <2>2, <2>3 DEF Replaces, Leases, Lapses, Stops, EndsWith, Done
    <2>5. attempts[s] \in Seq(AttemptRow)
      BY DEF IInv, TypeOK
    <2> QED
      BY <2>4, <2>5, RowsReplaced
  <1>5. Output(RowsOf(s, results')) = <<Len(attempts[s]), ClaimsOf(attempts[s])>>
    <2> DEFINE result == ResultOf(s)
    <2>1. result.session = s /\ result.attempt = Len(attempts[s]) /\ result.claim = ClaimsOf(attempts[s])
      BY DEF ResultOf
    <2>2. results' = results \cup {result}
      BY DEF Finishes
    <2>3. ~\E r \in results : r.session = s
      BY DEF IInv, ResultsAgree, Finishes, Done
    <2> HIDE DEF result
    <2>4. RowsOf(s, results') = {result}
      BY <2>1, <2>2, <2>3 DEF RowsOf
    <2> QED
      BY <2>1, <2>4 DEF Output
  <1>6. Leased!Finish(View[s], View'[s])
    BY <1>1, <1>2, <1>3, <1>4, <1>5, FinishColumns
  <1> QED
    BY <1>6 DEF Leased!Step

LEMMA NextIsLeased ==
    ASSUME CaptureConstants, IInv, IInv', [Next]_vars
    PROVE  Leased!Next
  <1>1. RowsMove /\ ResultsMove
    BY NextHolds
  <1>2. DOMAIN View' = Sessions
    BY DEF View
  <1>3. CASE /\ results' = results
             /\ \A s \in Sessions : session'[s].state \in Done => session[s].state \in Done
    BY <1>1, <1>2, <1>3, MoveIsAStep DEF Leased!Next
  <1>4. ASSUME NEW s \in Sessions, Finishes(s)
        PROVE  Leased!Next
    <2>1. Leased!Step(View[s], View'[s])
      BY <1>1, <1>4, FinishIsAStep
    <2>2. ASSUME NEW t \in Sessions \ {s}
          PROVE  View'[t] = View[t] \/ Leased!Step(View[t], View'[t])
      <3>1. results' = results \cup {ResultOf(s)} /\ session'[t].state = session[t].state
        BY <1>4 DEF Finishes
      <3>2. RowsOf(t, results') = RowsOf(t, results)
        <4>1. ResultOf(s).session = s
          BY DEF ResultOf
        <4> QED
          BY <3>1, <4>1 DEF RowsOf
      <3> QED
        BY <1>1, <3>1, <3>2, MoveIsAStep
    <2> QED
      BY <1>2, <2>1, <2>2 DEF Leased!Next
  <1> QED
    BY <1>1, <1>3, <1>4 DEF ResultsMove

\* The processing of packages keeps the promises of LeasedJobs.
THEOREM CapturesAreLeasedJobs ==
    ASSUME CaptureConstants
    PROVE  Spec => ImplementsLeasedJobs
  <1>1. Init => Leased!Init
    <2> SUFFICES ASSUME Init PROVE Leased!Init
      OBVIOUS
    <2>1. Status("absent", <<>>) = "absent" /\ Output({}) = <<0, 0>>
      BY DEF Status, Output
    <2>2. \A s \in Sessions : {r \in results : r.session = s} = {}
      BY DEF Init
    <2>3. Len(<<>>) = 0 /\ ClaimsOf(<<>>) = 0
      BY DEF ClaimsOf
    <2>4. \A s \in Sessions : View[s] =
              [status |-> "absent", attempt |-> 0, claims |-> 0, output |-> <<0, 0>>]
      BY <2>1, <2>2, <2>3 DEF View, Init
    <2> QED
      BY <2>4 DEF View, Leased!Init, Leased!NoOutput
  <1>2. IInv /\ IInv' /\ [Next]_vars => [Leased!Next]_View
    BY NextIsLeased
  <1> QED
    BY <1>1, <1>2, SessionsAreConsistent, PTL DEF Spec, ImplementsLeasedJobs, Leased!Spec
=============================================================================

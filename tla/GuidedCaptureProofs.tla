------------------------- MODULE GuidedCaptureProofs -------------------------
(***************************************************************************)
(* Proofs about the guided capture of the iOS client, for any constants.   *)
(***************************************************************************)
EXTENDS GuidedCapture, FiniteSetTheorems, TLAPS

-----------------------------------------------------------------------------
(* The inductive invariant of the guided capture.                          *)

TypeOK ==
    /\ draft \in DraftRows \cup {None} /\ journal \in DraftRows \cup {None}
    /\ task \in [Tasks -> TaskRows \cup {None}]
    /\ active \in Tasks \cup {None} /\ (active # None => active \in Under)
    /\ armed \in BOOLEAN /\ running \in BOOLEAN /\ seen \in BOOLEAN /\ runs \in Nat
    /\ runOf \in [Keyframes -> Nat]
    /\ server \in [session : Nat, assets : SUBSET Keyframes, envelope : EnvelopeRows \cup {None}]

Opening == {"resume", "create", "ask"}
Shooting == {"shoot", "depth", "retain"}
Submission == {"prepare", "open", "bind", "upload", "receipt", "send", "accept", "seal"}
Writers == {"resume", "create", "move", "save", "retain", "prepare", "bind", "seal"}
Callers == Writers \cup {"load", "receipt"}

Kf(t) == KeyframesOf(task[t].draft)

Now == {t \in Under : task[t].current}

Waiting == {t \in Under : task[t].turn > 0}

Accepted == draft # None /\ draft.acceptance # None

\* No segment of the samples is of two runs, if they are of these origins.
OneRun(samples, origins) ==
    \A k, l \in DOMAIN samples : samples[k] = samples[l] => origins[k] = origins[l]

\* What is accepted of a draft is all of it, and what the server has accepted.
Complete(d, accepted) ==
    d.acceptance # None =>
        /\ d.acceptance = Envelope(d) /\ d.acceptance = accepted
        /\ Pending(d) = {} /\ KeyframesOf(d) \cap DepthFrames \subseteq d.depths

Sound(d, origins, accepted) ==
    /\ \A k \in KeyframesOf(d) : d.samples[k] <= d.segment
    /\ OneRun(d.samples, origins) /\ Complete(d, accepted)

\* Every draft, wherever it is, is sound.
DraftsInv ==
    /\ draft # None => Sound(draft, runOf, server.envelope)
    /\ journal # None => Sound(journal, runOf, server.envelope)
    /\ \A t \in Under :
          task[t].draft # None => Sound(task[t].draft, runOf, server.envelope)
    /\ server.envelope # None => OneRun(server.envelope.samples, runOf)

\* What a task has brought with it.
TaskInv(t) ==
    /\ task[t].turn > 0 <=> task[t].step \in Callers
    /\ task[t].step \notin {"load", "ask", "check", "reconstruct"} => task[t].draft # None
    /\ task[t].step = "create" => draft = None /\ journal = None /\ task[t].draft = Empty
    /\ task[t].step = "resume" => Kf(t) = {}
    /\ task[t].step \in Shooting \cup Submission \cup {"move", "resume"} =>
          task[t].step = "seal" \/ task[t].draft.acceptance = None
    /\ task[t].step = "seal" => task[t].draft.acceptance # None
    /\ task[t].step = "accept" => Kf(t) \cap DepthFrames \subseteq task[t].draft.depths

TasksInv == \A t \in Under : TaskInv(t)

\* The journal's callers have places of their own.
PlacesInv ==
    /\ \A t \in Waiting : task[t].turn <= Cardinality(Waiting)
    /\ \A t, u \in Waiting : t # u => task[t].turn # task[u].turn

\* Who waits beside whom.
QueueInv ==
    /\ \A t \in Waiting : task[t].step \in Submission \cup {"move", "create"} =>
          \A u \in Waiting \ {t} : task[u].step = "load"
    /\ \A t \in Waiting : task[t].step = "retain" /\ Fine(t) =>
          \A u \in Waiting \ {t} : task[u].turn < task[t].turn

\* A task of a screen that is gone is before the one that opens the next.
LoadsInv ==
    /\ \A t \in Waiting : ~task[t].current =>
          \E u \in Waiting : task[u].step = "load" /\ task[u].current
    /\ \A t \in Now : task[t].step = "load" =>
          /\ ~armed /\ ~running
          /\ draft # None => state \notin {"ready", "capturing"}
          /\ \A u \in Under \ {t} :
                /\ task[u].current => task[u].step = "check"
                /\ task[u].turn < task[t].turn

Alone(t) == \A u \in Under \ {t} : ~task[u].current

OpeningInv(t) ==
    /\ task[t].step \in {"create", "ask"} => Alone(t)
    /\ task[t].step = "resume" =>
          \A u \in Under \ {t} : task[u].current => task[u].step = "save" /\ Kf(u) = {}
    /\ task[t].step \in Opening => ~armed
    /\ task[t].step = "ask" => state \notin {"ready", "capturing"}
    /\ task[t].step = "resume" => draft # None /\ KeyframesOf(draft) = {}
    /\ task[t].step = "ask" => IF draft = None THEN journal = None ELSE KeyframesOf(draft) = {}

Live(d, origins, run) == \A k \in InSegment(d) : origins[k] = run

\* A frame that is being taken, unless it was given up, is of the run and the
\* segment there are.
ShootingInv(t) ==
    task[t].step \in Shooting =>
        /\ draft # None
        /\ \A u \in Under \ {t} : task[u].current => task[u].step \in Shooting \cup {"save"}
        /\ armed => ~task[t].cancelled
        /\ ~task[t].cancelled =>
              /\ active = t /\ armed /\ state \in {"capturing", "interrupted", "failed"}
              /\ \A u \in Under \ {t} : task[u].current => task[u].step = "save"
              /\ task[t].step = "shoot" => task[t].draft.segment = draft.segment
              /\ task[t].step # "shoot" =>
                    KeyframesOf(draft) \subseteq Kf(t) /\ Live(task[t].draft, runOf, runs)

MoveInv(t) ==
    task[t].step = "move" =>
        Alone(t) /\ state \notin {"ready", "capturing"} /\ InSegment(task[t].draft) = {}

SubmissionInv(t) ==
    task[t].step \in Submission =>
        /\ Alone(t) /\ ~armed /\ ~running /\ state \in {"review", "submitting"}
        /\ task[t].cancelled => task[t].step \in {"open", "upload", "send", "accept"}
        /\ ~task[t].cancelled =>
              /\ active = t /\ draft # None /\ KeyframesOf(draft) \subseteq Kf(t)
              /\ state = "review" => task[t].step = "prepare"

NowInv ==
    \A t \in Now :
        /\ OpeningInv(t) /\ ShootingInv(t) /\ MoveInv(t) /\ SubmissionInv(t)
        /\ task[t].step = "save" => draft # None
        /\ task[t].step \in {"check", "reconstruct"} => Accepted

AcceptedInv ==
    Accepted =>
        /\ journal = draft /\ state \notin {"ready", "capturing"}
        /\ \A t \in Waiting : task[t].step = "load"
        /\ \A t \in Now : task[t].step \in {"load", "check", "reconstruct"}

ScreenInv ==
    /\ armed /\ draft # None => Live(draft, runOf, runs)
    /\ state \in {"review", "submitting"} => ~armed
    /\ state = "blocked" =>
          /\ ~armed
          /\ \A t \in Now : task[t].step \in Opening \cup {"load", "save"}
          /\ IF draft = None
             THEN journal = None \/ \E t \in Now : task[t].step = "load"
             ELSE KeyframesOf(draft) = {} /\ draft.acceptance = None

\* What the screen has counted is in the journal, and stays there.
ProtectedInv ==
    draft # None =>
        /\ journal # None /\ KeyframesOf(draft) \subseteq KeyframesOf(journal)
        /\ \A t \in Waiting : task[t].step \in Writers => KeyframesOf(draft) \subseteq Kf(t)

\* So is what has been, or is being, submitted.
IsSent(k) ==
    \/ server.envelope # None /\ k \in DOMAIN server.envelope.samples
    \/ \E t \in Under : task[t].step \in Submission /\ k \in Kf(t)

SentInv ==
    /\ server.envelope # None \/ (\E t \in Under : task[t].step \in Submission) => journal # None
    /\ \A k : IsSent(k) =>
          /\ k \in KeyframesOf(journal)
          /\ draft # None => k \in KeyframesOf(draft)
          /\ \A t \in Waiting : task[t].step \in Writers => k \in Kf(t)

IInv ==
    /\ TypeOK /\ DraftsInv /\ TasksInv /\ PlacesInv /\ QueueInv /\ LoadsInv /\ NowInv
    /\ AcceptedInv /\ ScreenInv /\ ProtectedInv /\ SentInv

-----------------------------------------------------------------------------
(* The queue at the journal.                                               *)

\* Nothing happens to the other tasks than t, but that they move up.
Others(t) ==
    \A u \in Tasks \ {t} :
        /\ task'[u] \in TaskRows \cup {None}
        /\ task'[u] = None <=> task[u] = None
        /\ u \in Under =>
              /\ task'[u].step = task[u].step /\ task'[u].draft = task[u].draft
              /\ task'[u].current = task[u].current /\ task'[u].cancelled = task[u].cancelled
              /\ task'[u].turn > 0 <=> task[u].turn > 0

\* They keep their order.
Ordered(t) ==
    \A u, v \in Under \ {t} : task[u].turn < task[v].turn => task'[u].turn < task'[v].turn

LEMMA WaitingIsFinite ==
    ASSUME GuidedConstants
    PROVE  /\ IsFiniteSet(Waiting) /\ IsFiniteSet(Waiting')
           /\ Cardinality(Waiting) \in Nat /\ Cardinality(Waiting') \in Nat
  <1>1. Waiting \subseteq Tasks /\ Waiting' \subseteq Tasks
    BY DEF Waiting, Under, Free
  <1>2. IsFiniteSet(Tasks)
    BY DEF GuidedConstants
  <1>3. IsFiniteSet(Waiting) /\ IsFiniteSet(Waiting')
    BY <1>1, <1>2, FS_Subset
  <1> QED
    BY <1>3, FS_CardinalityType

\* The first of the queue has been served, and waits no more.
LEMMA ServedMoveUp ==
    ASSUME GuidedConstants, TypeOK, PlacesInv, NEW t \in Under, Turn(t),
           \A u \in Tasks \ {t} : task'[u] = Served[u],
           task'[t] = None \/ (task'[t] \in TaskRows /\ task'[t].turn = 0)
    PROVE  Others(t) /\ Ordered(t) /\ PlacesInv' /\ Waiting' = Waiting \ {t}
  <1>1. task \in [Tasks -> TaskRows \cup {None}] /\ None \notin TaskRows /\ t \in Tasks
    BY DEF TypeOK, GuidedConstants, Under
  <1>2. ASSUME NEW u \in Tasks \ {t}
        PROVE  IF u \in Waiting THEN task'[u] = [task[u] EXCEPT !.turn = @ - 1] ELSE task'[u] = task[u]
    <2>1. task'[u] = Served[u]
      OBVIOUS
    <2>2. u \in Under => task[u] \in TaskRows
      BY <1>1 DEF Under, Free
    <2> QED
      BY <2>1, <2>2 DEF Served, Waiting, Under, Free, TaskRows
  <1>3. t \in Waiting /\ task[t].turn = 1
    BY DEF Turn, Waiting
  <1>4. ASSUME NEW u \in Waiting \ {t}
        PROVE  /\ u \in Tasks \ {t} /\ task[u] \in TaskRows /\ task[u].turn \in Nat /\ task[u].turn > 1
               /\ task'[u] \in TaskRows /\ task'[u].turn = task[u].turn - 1
               /\ task'[u].step = task[u].step /\ task'[u].draft = task[u].draft
               /\ task'[u].current = task[u].current /\ task'[u].cancelled = task[u].cancelled
    <2>1. u \in Tasks \ {t} /\ task[u] \in TaskRows /\ task[u].turn > 0
      BY <1>1 DEF Waiting, Under, Free
    <2>2. task[u].turn # 1
      BY <1>3 DEF PlacesInv
    <2>3. task'[u] = [task[u] EXCEPT !.turn = @ - 1]
      BY <1>2, <2>1
    <2> QED
      BY <2>1, <2>2, <2>3 DEF TaskRows
  <1>5. ASSUME NEW u \in Tasks \ {t}, u \notin Waiting
        PROVE  task'[u] = task[u] /\ (u \in Under => task[u] \in TaskRows /\ task[u].turn = 0)
    <2>1. task'[u] = task[u]
      BY <1>2, <1>5
    <2>2. u \in Under => task[u] \in TaskRows /\ ~(task[u].turn > 0)
      BY <1>1, <1>5 DEF Waiting, Under, Free
    <2> QED
      BY <2>1, <2>2 DEF TaskRows
  <1>6. Others(t)
    <2> SUFFICES ASSUME NEW u \in Tasks \ {t}
                 PROVE  /\ task'[u] \in TaskRows \cup {None}
                        /\ task'[u] = None <=> task[u] = None
                        /\ u \in Under =>
                              /\ task'[u].step = task[u].step /\ task'[u].draft = task[u].draft
                              /\ task'[u].current = task[u].current /\ task'[u].cancelled = task[u].cancelled
                              /\ task'[u].turn > 0 <=> task[u].turn > 0
      BY DEF Others
    <2>1. CASE u \in Waiting
      <3>1. u \in Waiting \ {t}
        BY <2>1
      <3>2. task[u] # None
        BY <1>1, <1>4, <3>1
      <3> QED
        BY <1>1, <1>4, <3>1, <3>2
    <2>2. CASE u \notin Waiting
      BY <1>1, <1>5, <2>2
    <2> QED
      BY <2>1, <2>2
  <1>7. Ordered(t)
    <2> SUFFICES ASSUME NEW u \in Under \ {t}, NEW v \in Under \ {t}, task[u].turn < task[v].turn
                 PROVE  task'[u].turn < task'[v].turn
      BY DEF Ordered
    <2>1. u \in Tasks \ {t} /\ v \in Tasks \ {t}
      BY DEF Under
    <2>2. CASE u \in Waiting /\ v \in Waiting
      BY <1>4, <2>2
    <2>3. CASE u \notin Waiting /\ v \in Waiting
      BY <1>4, <1>5, <2>1, <2>3
    <2>4. CASE v \notin Waiting
      <3>1. task[v].turn = 0
        BY <1>5, <2>1, <2>4
      <3>2. task[u].turn \in Nat
        BY <1>1, <2>1 DEF TaskRows, Under, Free
      <3> QED
        BY <3>1, <3>2
    <2> QED
      BY <2>2, <2>3, <2>4
  <1>8. Waiting' = Waiting \ {t}
    <2>1. t \notin Waiting'
      BY DEF Waiting, Under, Free
    <2>2. ASSUME NEW u \in Tasks \ {t} PROVE u \in Waiting' <=> u \in Waiting
      BY <1>6 DEF Others, Waiting, Under, Free
    <2>3. Waiting \subseteq Tasks /\ Waiting' \subseteq Tasks
      BY DEF Waiting, Under
    <2> QED
      BY <2>1, <2>2, <2>3
  <1>9. PlacesInv'
    <2>1. Cardinality(Waiting') = Cardinality(Waiting) - 1
      BY <1>3, <1>8, WaitingIsFinite, FS_RemoveElement
    <2>2. Cardinality(Waiting) \in Nat
      BY WaitingIsFinite
    <2>3. ASSUME NEW u \in Waiting'
          PROVE  u \in Waiting \ {t} /\ task'[u].turn = task[u].turn - 1 /\ task[u].turn \in Nat
      BY <1>4, <1>8
    <2>4. ASSUME NEW u \in Waiting' PROVE task'[u].turn <= Cardinality(Waiting')
      <3>1. task[u].turn <= Cardinality(Waiting)
        BY <2>3, <2>4 DEF PlacesInv
      <3> QED
        BY <2>1, <2>2, <2>3, <2>4, <3>1
    <2>5. ASSUME NEW u \in Waiting', NEW v \in Waiting', u # v
          PROVE  task'[u].turn # task'[v].turn
      <3>1. task[u].turn # task[v].turn
        BY <2>3, <2>5 DEF PlacesInv
      <3> QED
        BY <2>3, <2>5, <3>1
    <2> QED
      BY <2>4, <2>5 DEF PlacesInv
  <1> QED
    BY <1>6, <1>7, <1>8, <1>9

\* A task that does not wait goes on, or ends, without a call.
LEMMA OthersGoOn ==
    ASSUME GuidedConstants, TypeOK, PlacesInv, NEW t \in Tasks, t \notin Waiting,
           \A u \in Tasks \ {t} : task'[u] = task[u],
           task'[t] = None \/ (task'[t] \in TaskRows /\ task'[t].turn = 0)
    PROVE  Others(t) /\ Ordered(t) /\ PlacesInv' /\ Waiting' = Waiting
  <1>1. Others(t) /\ Ordered(t)
    BY DEF Others, Ordered, TypeOK, Under
  <1>2. Waiting' = Waiting
    <2>1. t \notin Waiting'
      BY DEF Waiting, Under, Free
    <2>2. ASSUME NEW u \in Tasks \ {t} PROVE u \in Waiting' <=> u \in Waiting
      BY DEF Waiting, Under, Free
    <2>3. Waiting \subseteq Tasks /\ Waiting' \subseteq Tasks
      BY DEF Waiting, Under
    <2> QED
      BY <2>1, <2>2, <2>3
  <1>3. \A u \in Waiting : task'[u] = task[u]
    BY DEF Waiting, Under
  <1>4. PlacesInv'
    BY <1>2, <1>3 DEF PlacesInv
  <1> QED
    BY <1>1, <1>2, <1>4

\* A task that does not wait calls the journal.
LEMMA LastInTurn ==
    ASSUME GuidedConstants, TypeOK, PlacesInv, NEW t \in Tasks, t \notin Waiting,
           \A u \in Tasks \ {t} : task'[u] = task[u],
           task'[t] \in TaskRows, task'[t].turn = 1 + Cardinality(Waiting)
    PROVE  /\ Others(t) /\ Ordered(t) /\ PlacesInv' /\ Waiting' = Waiting \cup {t}
           /\ \A u \in Waiting : task'[u].turn < task'[t].turn
  <1>1. Others(t) /\ Ordered(t)
    BY DEF Others, Ordered, TypeOK, Under
  <1>2. Cardinality(Waiting) \in Nat /\ Cardinality(Waiting') \in Nat
    BY WaitingIsFinite
  <1>3. Waiting' = Waiting \cup {t}
    <2>1. t \in Waiting'
      BY <1>2 DEF Waiting, Under, Free, GuidedConstants
    <2>2. ASSUME NEW u \in Tasks \ {t} PROVE u \in Waiting' <=> u \in Waiting
      BY DEF Waiting, Under, Free
    <2>3. Waiting \subseteq Tasks /\ Waiting' \subseteq Tasks
      BY DEF Waiting, Under
    <2> QED
      BY <2>1, <2>2, <2>3
  <1>4. Cardinality(Waiting') = Cardinality(Waiting) + 1
    BY <1>3, WaitingIsFinite, FS_AddElement
  <1>5. ASSUME NEW u \in Waiting
        PROVE  task'[u] = task[u] /\ task[u].turn \in Nat /\ task[u].turn <= Cardinality(Waiting)
    BY DEF Waiting, Under, Free, PlacesInv, TypeOK, TaskRows
  <1>6. \A u \in Waiting : task'[u].turn < task'[t].turn
    BY <1>2, <1>5
  <1>7. ASSUME NEW u \in Waiting' PROVE task'[u].turn <= Cardinality(Waiting')
    BY <1>2, <1>3, <1>4, <1>5
  <1>8. ASSUME NEW u \in Waiting', NEW v \in Waiting', u # v PROVE task'[u].turn # task'[v].turn
    <2>1. CASE u = t
      BY <1>3, <1>2, <1>5, <1>8, <2>1
    <2>2. CASE v = t
      BY <1>3, <1>2, <1>5, <1>8, <2>2
    <2>3. CASE u # t /\ v # t
      BY <1>3, <1>5, <1>8, <2>3 DEF PlacesInv
    <2> QED
      BY <2>1, <2>2, <2>3
  <1>9. PlacesInv'
    BY <1>7, <1>8 DEF PlacesInv
  <1> QED
    BY <1>1, <1>3, <1>6, <1>9

-----------------------------------------------------------------------------
(* A task ends.                                                            *)

\* What is sound stays so when the server accepts something for the first time.
LEMMA SoundStays ==
    ASSUME NEW d, NEW origins, NEW accepted, NEW later, Sound(d, origins, accepted),
           later = accepted \/ accepted = None
    PROVE  Sound(d, origins, later)
  BY DEF Sound, Complete

\* What t may have written to the journal.
Wrote(t) ==
    /\ t \in Waiting /\ task[t].step \in Writers \cup {"receipt"}
    /\ journal' \in DraftRows /\ Sound(journal', runOf, server.envelope)
    /\ draft # None => KeyframesOf(draft) \subseteq KeyframesOf(journal')
    /\ \A k : IsSent(k) => k \in KeyframesOf(journal')

\* What the screen may show when t has ended.
Shown(t) ==
    \/ state' = state /\ task[t].step # "create" /\ (task[t].current => task[t].step # "load")
    \/ state' = "failed" /\ (task[t].current \/ (t \in Waiting /\ task[t].step = "create"))
    \/ /\ task[t].current
       /\ \/ task[t].step \in Shooting /\ state' = "ready"
          \/ task[t].step \in Submission /\ state' \in {"review", "stopped"}
          \/ /\ task[t].step \in {"check", "reconstruct"}
             /\ state' \in {"accepted", "usable", "reconstructed", "stopped"}
          \/ task[t].step = "ask" /\ state' = "blocked"
          \/ task[t].step = "load" /\ state' = "blocked" /\ journal' = None

\* A task that has been sent may have left its envelope at the server.
ServerMay(t) ==
    \/ server'.envelope = server.envelope
    \/ /\ server.envelope = None /\ task[t].step \in Submission
       /\ server'.envelope = Envelope(task[t].draft)

LEMMA Ends ==
    ASSUME GuidedConstants, IInv, TypeOK', NEW t \in Under, task'[t] = None, Others(t), Ordered(t),
           PlacesInv', Waiting' = Waiting \ {t}, t \in Waiting => Turn(t),
           draft' = draft, camera' = camera, runOf' = runOf,
           active' = IF active = t THEN None ELSE active,
           ServerMay(t), journal' = journal \/ Wrote(t), Shown(t)
    PROVE  IInv'
  <1> USE DEF GuidedConstants
  <1>1. /\ t \in Tasks /\ task \in [Tasks -> TaskRows \cup {None}] /\ Under \subseteq Tasks
        /\ \A u \in Under : task[u] \in TaskRows
    BY DEF IInv, TypeOK, Under, Free
  <1>2. Under' = Under \ {t} /\ Now' = Now \ {t}
    <2>1. Under' = Under \ {t}
      BY <1>1 DEF Others, Under, Free
    <2>2. \A u \in Under' : task'[u].current = task[u].current
      BY <1>1, <2>1 DEF Others
    <2> QED
      BY <2>1, <2>2 DEF Now
  <1>3. ASSUME NEW u \in Under'
        PROVE  /\ u \in Under /\ u # t /\ u \in Tasks
               /\ task'[u].step = task[u].step /\ task'[u].draft = task[u].draft
               /\ task'[u].current = task[u].current /\ task'[u].cancelled = task[u].cancelled
               /\ task'[u].turn > 0 <=> task[u].turn > 0
               /\ Kf(u)' = Kf(u) /\ Fine(u)' = Fine(u)
    BY <1>1, <1>2 DEF Others, Kf, Fine
  <1>4. Waiting' \subseteq Under' /\ Waiting' \subseteq Waiting
    BY DEF Waiting
  <1>5. server.envelope # None => server'.envelope = server.envelope
    BY DEF ServerMay
  <1>6. \A d : Sound(d, runOf, server.envelope) => Sound(d, runOf, server'.envelope)
    <2>1. server'.envelope = server.envelope \/ server.envelope = None
      BY DEF ServerMay
    <2> QED
      BY <2>1, SoundStays
  <1>7. DraftsInv'
    <2>1. draft' # None => Sound(draft', runOf, server.envelope)
      BY DEF IInv, DraftsInv
    <2>2. journal' # None => Sound(journal', runOf, server.envelope)
      BY DEF IInv, DraftsInv, Wrote
    <2>3. \A u \in Under' : task'[u].draft # None => Sound(task'[u].draft, runOf, server.envelope)
      BY <1>3 DEF IInv, DraftsInv
    <2>4. server'.envelope # None => OneRun(server'.envelope.samples, runOf)
      <3>1. CASE server'.envelope = server.envelope
        BY <3>1 DEF IInv, DraftsInv
      <3>2. CASE server'.envelope = Envelope(task[t].draft) /\ task[t].step \in Submission
        <4>1. task[t].draft # None
          BY <3>2 DEF IInv, TasksInv, TaskInv, Submission
        <4>2. OneRun(task[t].draft.samples, runOf)
          BY <4>1 DEF IInv, DraftsInv, Sound
        <4> QED
          BY <3>2, <4>2 DEF Envelope
      <3> QED
        BY <3>1, <3>2 DEF ServerMay
    <2> QED
      BY <1>6, <2>1, <2>2, <2>3, <2>4 DEF DraftsInv
  <1>8. TasksInv'
    <2> SUFFICES ASSUME NEW u \in Under' PROVE TaskInv(u)'
      BY DEF TasksInv
    <2>1. TaskInv(u)
      BY <1>3 DEF IInv, TasksInv
    <2>2. task'[u].step = "create" => journal' = None
      <3>1. CASE journal' = journal
        BY <1>3, <2>1, <3>1 DEF TaskInv
      <3>2. CASE Wrote(t)
        <4>1. ASSUME task[u].step = "create" PROVE FALSE
          <5>1. u \in Waiting \ {t}
            BY <1>3, <2>1, <4>1 DEF TaskInv, Waiting, Callers, Writers
          <5>2. task[t].step = "load"
            BY <3>2, <4>1, <5>1 DEF IInv, QueueInv, Wrote
          <5> QED
            BY <3>2, <5>2 DEF Wrote, Writers
        <4> QED
          BY <1>3, <4>1
      <3> QED
        BY <3>1, <3>2
    <2> QED
      BY <1>3, <2>1, <2>2 DEF TaskInv
  <1>9. QueueInv'
    <2>1. ASSUME NEW u \in Waiting', task'[u].step \in Submission \cup {"move", "create"},
                 NEW v \in Waiting' \ {u}
          PROVE  task'[v].step = "load"
      BY <1>3, <1>4, <2>1 DEF IInv, QueueInv
    <2>2. ASSUME NEW u \in Waiting', task'[u].step = "retain" /\ Fine(u)', NEW v \in Waiting' \ {u}
          PROVE  task'[v].turn < task'[u].turn
      <3>1. task[v].turn < task[u].turn
        BY <1>3, <1>4, <2>2 DEF IInv, QueueInv
      <3> QED
        BY <1>3, <1>4, <3>1 DEF Ordered
    <2> QED
      BY <2>1, <2>2 DEF QueueInv
  <1>10. LoadsInv'
    <2>1. ASSUME NEW u \in Waiting', ~task'[u].current
          PROVE  \E v \in Waiting' : task'[v].step = "load" /\ task'[v].current
      <3>1. PICK v \in Waiting : task[v].step = "load" /\ task[v].current
        BY <1>3, <1>4, <2>1 DEF IInv, LoadsInv
      <3>2. v # t
        <4>1. u # v /\ u \in Under /\ v \in Now
          BY <1>3, <1>4, <2>1, <3>1 DEF Now, Waiting
        <4>2. task[u].turn < task[v].turn
          BY <3>1, <4>1 DEF IInv, LoadsInv
        <4>3. task[u].turn \in Nat /\ task[u].turn > 0
          BY <1>1, <1>4, <2>1 DEF Waiting, TaskRows
        <4>4. ~Turn(v)
          BY <4>2, <4>3 DEF Turn
        <4> QED
          BY <3>1, <4>4
      <3> QED
        BY <1>3, <1>4, <3>1, <3>2
    <2>2. ASSUME NEW u \in Now', task'[u].step = "load"
          PROVE  /\ ~armed' /\ ~running'
                 /\ draft' # None => state' \notin {"ready", "capturing"}
                 /\ \A v \in Under' \ {u} :
                       /\ task'[v].current => task'[v].step = "check"
                       /\ task'[v].turn < task'[u].turn
      <3>1. u \in Now /\ u # t /\ task[u].step = "load"
        BY <1>2, <1>3, <2>2 DEF Now
      <3>2. /\ ~armed /\ ~running
            /\ draft # None => state \notin {"ready", "capturing"}
            /\ \A v \in Under \ {u} :
                  /\ task[v].current => task[v].step = "check"
                  /\ task[v].turn < task[u].turn
        BY <3>1 DEF IInv, LoadsInv
      <3>3. ~armed' /\ ~running'
        BY <3>2 DEF camera
      <3>4. state' = state \/ state' \notin {"ready", "capturing"}
        BY <3>1, <3>2 DEF Shown, Shooting
      <3>5. \A v \in Under' \ {u} : task'[v].current => task'[v].step = "check"
        BY <1>3, <3>2
      <3>6. \A v \in Under' \ {u} : task'[v].turn < task'[u].turn
        BY <1>2, <1>3, <3>1, <3>2 DEF Ordered, Now
      <3> QED
        BY <3>2, <3>3, <3>4, <3>5, <3>6
    <2> QED
      BY <2>1, <2>2 DEF LoadsInv

  <1>11. ASSUME NEW u \in Now', task[u].step # "load", Alone(u)
         PROVE  journal' = journal /\ (state' = state \/ t \notin Waiting)
    <2>1. u \in Now /\ u # t /\ ~task[t].current
      BY <1>2, <1>11 DEF Alone
    <2>2. ASSUME t \in Waiting PROVE FALSE
      <3>1. PICK v \in Waiting : task[v].step = "load" /\ task[v].current
        BY <2>1, <2>2 DEF IInv, LoadsInv
      <3>2. v \in Under \ {u}
        BY <1>11, <3>1 DEF Waiting
      <3> QED
        BY <1>11, <3>1, <3>2 DEF Alone
    <2> QED
      BY <2>2 DEF Wrote
  <1>12. \A u \in Now' : OpeningInv(u)'
    <2> SUFFICES ASSUME NEW u \in Now' PROVE OpeningInv(u)'
      OBVIOUS
    <2>1. u \in Now /\ u \in Under' /\ OpeningInv(u)
      BY <1>2 DEF Now, IInv, NowInv
    <2>2. task'[u].step = task[u].step
      BY <1>3, <2>1
    <2>3. Alone(u) => Alone(u)'
      BY <1>3, <2>1 DEF Alone
    <2>4. task'[u].step = "resume" =>
              \A v \in Under' \ {u} : task'[v].current => task'[v].step = "save" /\ Kf(v)' = {}
      BY <1>3, <2>1 DEF OpeningInv
    <2>5. armed' = armed
      BY DEF camera
    <2>6. task'[u].step = "ask" => journal' = journal
      BY <1>11, <2>1, <2>2 DEF OpeningInv
    <2>7. task'[u].step = "ask" => state' \notin {"ready", "capturing"}
      <3> SUFFICES ASSUME task[u].step = "ask" PROVE state' \notin {"ready", "capturing"}
        BY <2>2
      <3>1. Alone(u) /\ state \notin {"ready", "capturing"}
        BY <2>1 DEF OpeningInv
      <3>2. ~task[t].current
        BY <1>3, <2>1, <3>1 DEF Alone
      <3> QED
        BY <3>1, <3>2 DEF Shown
    <2> QED
      BY <2>1, <2>2, <2>3, <2>4, <2>5, <2>6, <2>7 DEF OpeningInv
  <1>13. \A u \in Now' : ShootingInv(u)'
    <2> SUFFICES ASSUME NEW u \in Now', task'[u].step \in Shooting PROVE ShootingInv(u)'
      BY DEF ShootingInv
    <2>1. u \in Now /\ u \in Under' /\ u # t
      BY <1>2, <1>3 DEF Now
    <2>2. task[u].step \in Shooting /\ task'[u].step = task[u].step
      BY <1>3, <2>1
    <2>3. ShootingInv(u)
      BY <2>1 DEF IInv, NowInv
    <2>4. \A v \in Under' \ {u} : task'[v].current => task'[v].step \in Shooting \cup {"save"}
      BY <1>3, <2>2, <2>3 DEF ShootingInv
    <2>5. armed' = armed /\ runs' = runs /\ runOf' = runOf /\ draft' = draft
      BY DEF camera
    <2>6. task'[u].cancelled = task[u].cancelled /\ task'[u].draft = task[u].draft /\ Kf(u)' = Kf(u)
      BY <1>3, <2>1
    <2>7. ASSUME ~task'[u].cancelled
          PROVE  /\ active' = u /\ armed' /\ state' \in {"capturing", "interrupted", "failed"}
                 /\ \A v \in Under' \ {u} : task'[v].current => task'[v].step = "save"
                 /\ task'[u].step = "shoot" => task'[u].draft.segment = draft'.segment
                 /\ task'[u].step # "shoot" =>
                       KeyframesOf(draft') \subseteq Kf(u)' /\ Live(task'[u].draft, runOf', runs')
      <3>1. /\ active = u /\ armed /\ state \in {"capturing", "interrupted", "failed"}
            /\ \A v \in Under \ {u} : task[v].current => task[v].step = "save"
            /\ task[u].step = "shoot" => task[u].draft.segment = draft.segment
            /\ task[u].step # "shoot" =>
                  KeyframesOf(draft) \subseteq Kf(u) /\ Live(task[u].draft, runOf, runs)
        BY <2>2, <2>3, <2>6, <2>7 DEF ShootingInv
      <3>2. active' = u
        BY <2>1, <3>1
      <3>3. task[t].current => task[t].step = "save"
        BY <2>1, <3>1
      <3>4. state' \in {"capturing", "interrupted", "failed"}
        BY <3>1, <3>3 DEF Shown, Shooting, Submission
      <3>5. \A v \in Under' \ {u} : task'[v].current => task'[v].step = "save"
        BY <1>3, <3>1
      <3> QED
        BY <2>2, <2>5, <2>6, <3>1, <3>2, <3>4, <3>5
    <2>8. draft' # None /\ (armed' => ~task'[u].cancelled)
      BY <2>2, <2>3, <2>5, <2>6 DEF ShootingInv
    <2> QED
      BY <2>4, <2>7, <2>8 DEF ShootingInv
  <1>14. \A u \in Now' : MoveInv(u)'
    <2> SUFFICES ASSUME NEW u \in Now', task'[u].step = "move" PROVE MoveInv(u)'
      BY DEF MoveInv
    <2>1. u \in Now /\ u \in Under' /\ u # t
      BY <1>2, <1>3 DEF Now
    <2>2. Alone(u) /\ state \notin {"ready", "capturing"} /\ InSegment(task[u].draft) = {}
      BY <1>3, <2>1 DEF IInv, NowInv, MoveInv
    <2>3. Alone(u)'
      BY <1>3, <2>2 DEF Alone
    <2>4. ~task[t].current
      BY <2>1, <2>2 DEF Alone
    <2>5. state' \notin {"ready", "capturing"}
      BY <2>2, <2>4 DEF Shown
    <2>6. task'[u].draft = task[u].draft
      BY <1>3, <2>1
    <2>7. InSegment(task'[u].draft) = {}
      BY <2>2, <2>6
    <2> QED
      BY <2>3, <2>5, <2>7 DEF MoveInv, InSegment, KeyframesOf
  <1>15. \A u \in Now' : SubmissionInv(u)'
    <2> SUFFICES ASSUME NEW u \in Now', task'[u].step \in Submission PROVE SubmissionInv(u)'
      BY DEF SubmissionInv
    <2>1. u \in Now /\ u \in Under' /\ u # t
      BY <1>2, <1>3 DEF Now
    <2>2. task[u].step \in Submission /\ task'[u].step = task[u].step
      BY <1>3, <2>1
    <2>3. /\ Alone(u) /\ ~armed /\ ~running /\ state \in {"review", "submitting"}
          /\ task[u].cancelled => task[u].step \in {"open", "upload", "send", "accept"}
          /\ ~task[u].cancelled =>
                /\ active = u /\ draft # None /\ KeyframesOf(draft) \subseteq Kf(u)
                /\ state = "review" => task[u].step = "prepare"
      BY <2>1, <2>2 DEF IInv, NowInv, SubmissionInv
    <2>4. Alone(u)'
      BY <1>3, <2>3 DEF Alone
    <2>5. ~task[t].current /\ task[u].step # "load"
      BY <2>1, <2>2, <2>3 DEF Alone, Submission
    <2>6. state' = state
      BY <1>11, <2>3, <2>5 DEF Shown
    <2>7. armed' = armed /\ running' = running
      BY DEF camera
    <2>8. task'[u].cancelled = task[u].cancelled /\ Kf(u)' = Kf(u)
      BY <1>3, <2>1
    <2> QED
      BY <2>1, <2>2, <2>3, <2>4, <2>6, <2>7, <2>8 DEF SubmissionInv
  <1>16. NowInv'
    <2>1. \A u \in Now' : task'[u].step = "save" => draft' # None
      BY <1>2, <1>3 DEF Now, IInv, NowInv
    <2>2. \A u \in Now' : task'[u].step \in {"check", "reconstruct"} => Accepted'
      BY <1>2, <1>3 DEF Now, IInv, NowInv, Accepted
    <2> QED
      BY <1>12, <1>13, <1>14, <1>15, <2>1, <2>2 DEF NowInv
  <1>17. AcceptedInv'
    <2> SUFFICES ASSUME Accepted PROVE AcceptedInv'
      BY DEF AcceptedInv, Accepted
    <2>1. /\ journal = draft /\ state \notin {"ready", "capturing"}
          /\ \A u \in Waiting : task[u].step = "load"
          /\ \A u \in Now : task[u].step \in {"load", "check", "reconstruct"}
      BY DEF IInv, AcceptedInv
    <2>2. journal' = draft'
      BY <2>1 DEF Wrote, Writers
    <2>3. state' \notin {"ready", "capturing"}
      <3>1. task[t].current => t \in Now
        BY DEF Now
      <3> QED
        BY <2>1, <3>1 DEF Shown, Shooting
    <2>4. \A u \in Waiting' : task'[u].step = "load"
      BY <1>3, <1>4, <2>1
    <2>5. \A u \in Now' : task'[u].step \in {"load", "check", "reconstruct"}
      BY <1>2, <1>3, <2>1 DEF Now
    <2> QED
      BY <2>2, <2>3, <2>4, <2>5 DEF AcceptedInv
  <1>18. ScreenInv'
    <2>1. armed' = armed /\ runs' = runs
      BY DEF camera
    <2>2. armed' /\ draft' # None => Live(draft', runOf', runs')
      BY <2>1 DEF IInv, ScreenInv
    <2>3. state' \in {"review", "submitting"} => ~armed'
      <3>1. CASE state' = state
        BY <2>1, <3>1 DEF IInv, ScreenInv
      <3>2. CASE task[t].current /\ task[t].step \in Submission
        BY <2>1, <3>2 DEF IInv, NowInv, Now, SubmissionInv
      <3>3. CASE state' \notin {"review", "submitting"}
        BY <3>3
      <3> QED
        BY <3>1, <3>2, <3>3 DEF Shown
    <2>4. ASSUME state' = "blocked"
          PROVE  /\ ~armed'
                 /\ \A u \in Now' : task'[u].step \in Opening \cup {"load", "save"}
                 /\ IF draft' = None
                    THEN journal' = None \/ \E u \in Now' : task'[u].step = "load"
                    ELSE KeyframesOf(draft') = {} /\ draft'.acceptance = None
      <3>1. CASE state' = state /\ task[t].step # "create" /\ (task[t].current => task[t].step # "load")
        <4>1. /\ ~armed
              /\ \A u \in Now : task[u].step \in Opening \cup {"load", "save"}
              /\ IF draft = None
                 THEN journal = None \/ \E u \in Now : task[u].step = "load"
                 ELSE KeyframesOf(draft) = {} /\ draft.acceptance = None
          BY <2>4, <3>1 DEF IInv, ScreenInv
        <4>2. \A u \in Now' : task'[u].step \in Opening \cup {"load", "save"}
          BY <1>2, <1>3, <4>1 DEF Now
        <4>3. ASSUME NEW u \in Now, task[u].step = "load" PROVE \E v \in Now' : task'[v].step = "load"
          <5>1. u # t
            BY <3>1, <4>3 DEF Now
          <5>2. u \in Now' /\ task'[u].step = "load"
            BY <1>2, <1>3, <4>3, <5>1 DEF Now
          <5> QED
            BY <5>2
        <4>4. ASSUME draft = None, Wrote(t) PROVE \E u \in Now : task[u].step = "load"
          <5>1. CASE task[t].current
            <6>1. t \in Now
              BY <5>1 DEF Now
            <6>2. task[t].step \in {"resume", "save"}
              BY <3>1, <4>1, <4>4, <6>1 DEF Wrote, Writers, Opening
            <6> QED
              BY <4>4, <6>1, <6>2 DEF IInv, NowInv, OpeningInv
          <5>2. CASE ~task[t].current
            <6>1. PICK v \in Waiting : task[v].step = "load" /\ task[v].current
              BY <4>4, <5>2 DEF IInv, LoadsInv, Wrote
            <6> QED
              BY <6>1 DEF Waiting, Now
          <5> QED
            BY <5>1, <5>2
        <4> QED
          BY <2>1, <4>1, <4>2, <4>3, <4>4
      <3>2. CASE task[t].current /\ task[t].step = "ask"
        <4>1. t \in Now
          BY <3>2 DEF Now
        <4>2. Alone(t) /\ ~armed /\ IF draft = None THEN journal = None ELSE KeyframesOf(draft) = {}
          BY <3>2, <4>1 DEF IInv, NowInv, OpeningInv, Opening
        <4>3. Now' = {}
          BY <1>2, <4>2 DEF Now, Alone
        <4>4. ~Accepted
          BY <3>2, <4>1 DEF IInv, AcceptedInv
        <4>5. journal' = journal
          BY <3>2 DEF Wrote, Writers
        <4> QED
          BY <2>1, <4>2, <4>3, <4>4, <4>5 DEF Accepted
      <3>3. CASE task[t].current /\ task[t].step = "load" /\ journal' = None
        <4>1. t \in Now
          BY <3>3 DEF Now
        <4>2. journal = None
          BY <3>3 DEF Wrote, Writers
        <4>3. draft = None
          BY <4>2 DEF IInv, ProtectedInv
        <4>4. ~armed /\ \A u \in Now \ {t} : task[u].step = "check"
          BY <3>3, <4>1 DEF IInv, LoadsInv, Now
        <4>5. \A u \in Now : task[u].step # "check"
          BY <4>3 DEF IInv, NowInv, Accepted
        <4>6. Now' = {}
          BY <1>2, <4>4, <4>5
        <4> QED
          BY <2>1, <3>3, <4>3, <4>4, <4>6
      <3> QED
        BY <2>4, <3>1, <3>2, <3>3 DEF Shown
    <2> QED
      BY <2>2, <2>3, <2>4 DEF ScreenInv
  <1>19. ProtectedInv'
    <2> SUFFICES ASSUME draft # None
                 PROVE  /\ journal' # None /\ KeyframesOf(draft) \subseteq KeyframesOf(journal')
                        /\ \A u \in Waiting' : task'[u].step \in Writers => KeyframesOf(draft) \subseteq Kf(u)'
      BY DEF ProtectedInv
    <2>1. /\ journal # None /\ KeyframesOf(draft) \subseteq KeyframesOf(journal)
          /\ \A u \in Waiting : task[u].step \in Writers => KeyframesOf(draft) \subseteq Kf(u)
      BY DEF IInv, ProtectedInv
    <2>2. journal' # None /\ KeyframesOf(draft) \subseteq KeyframesOf(journal')
      BY <2>1 DEF Wrote
    <2> QED
      BY <1>3, <1>4, <2>1, <2>2
  <1>20. \A k : IsSent(k)' => IsSent(k)
    <2> SUFFICES ASSUME NEW k, IsSent(k)' PROVE IsSent(k)
      OBVIOUS
    <2>1. CASE server'.envelope # None /\ k \in DOMAIN server'.envelope.samples
      <3>1. CASE server'.envelope = server.envelope
        BY <2>1, <3>1 DEF IsSent
      <3>2. CASE task[t].step \in Submission /\ server'.envelope = Envelope(task[t].draft)
        BY <2>1, <3>2 DEF IsSent, Envelope, Kf, KeyframesOf
      <3> QED
        BY <3>1, <3>2 DEF ServerMay
    <2>2. CASE \E u \in Under' : task'[u].step \in Submission /\ k \in Kf(u)'
      BY <1>3, <2>2 DEF IsSent
    <2> QED
      BY <2>1, <2>2 DEF IsSent
  <1>21. SentInv'
    <2>1. SentInv
      BY DEF IInv
    <2>2. server'.envelope # None \/ (\E u \in Under' : task'[u].step \in Submission) =>
             server.envelope # None \/ (\E u \in Under : task[u].step \in Submission)
      BY <1>3 DEF ServerMay
    <2>3. journal # None => journal' # None
      BY DEF Wrote
    <2>4. ASSUME NEW k, IsSent(k)'
          PROVE  /\ k \in KeyframesOf(journal')
                 /\ draft' # None => k \in KeyframesOf(draft')
                 /\ \A u \in Waiting' : task'[u].step \in Writers => k \in Kf(u)'
      <3>1. IsSent(k)
        BY <1>20, <2>4
      <3>2. k \in KeyframesOf(journal')
        BY <2>1, <3>1 DEF SentInv, Wrote
      <3>3. draft' # None => k \in KeyframesOf(draft')
        BY <2>1, <3>1 DEF SentInv
      <3>4. \A u \in Waiting' : task'[u].step \in Writers => k \in Kf(u)'
        BY <1>3, <1>4, <2>1, <3>1 DEF SentInv
      <3> QED
        BY <3>2, <3>3, <3>4
    <2>5. server'.envelope # None \/ (\E u \in Under' : task'[u].step \in Submission) => journal' # None
      BY <2>1, <2>2, <2>3 DEF SentInv
    <2> QED
      BY <2>4, <2>5 DEF SentInv
  <1> QED
    BY <1>7, <1>8, <1>9, <1>10, <1>16, <1>17, <1>18, <1>19, <1>21 DEF IInv

-----------------------------------------------------------------------------
(* A task ends, and the screen shows a capture again.                      *)

\* The screen that is open is the only one at work.
LEMMA WaitsForTheScreen ==
    ASSUME GuidedConstants, TypeOK, LoadsInv, NEW t \in Under, task[t].current,
           task[t].step \notin {"load", "check"}
    PROVE  \A u \in Waiting : task[u].current
  <1> SUFFICES ASSUME NEW u \in Waiting, ~task[u].current PROVE FALSE
    OBVIOUS
  <1>1. PICK v \in Waiting : task[v].step = "load" /\ task[v].current
    BY DEF LoadsInv
  <1>2. v \in Now /\ t \in Under \ {v}
    BY <1>1 DEF Now, Waiting
  <1> QED
    BY <1>1, <1>2 DEF LoadsInv

LEMMA Opens ==
    ASSUME GuidedConstants, IInv, TypeOK', NEW t \in Now, task'[t] = None, Others(t), PlacesInv',
           Waiting' = Waiting \ {t}, draft' # None, Sound(draft', runOf, server.envelope),
           draft'.acceptance = None,
           \/ /\ task[t].step \in {"move", "create", "resume"} /\ t \in Waiting
              /\ draft' = task[t].draft /\ journal' = draft'
           \/ task[t].step = "ask" /\ UNCHANGED <<draft, journal>>,
           ~armed', UNCHANGED <<runOf, server>>,
           state' = "ready" \/ (state' = "blocked" /\ task[t].step = "resume")
    PROVE  IInv'
  <1> USE DEF GuidedConstants
  <1>1. /\ t \in Tasks /\ t \in Under /\ task[t].current /\ Under \subseteq Tasks
        /\ \A u \in Under : task[u] \in TaskRows
    BY DEF IInv, TypeOK, Under, Free, Now
  <1>2. Under' = Under \ {t} /\ Now' = Now \ {t}
    <2>1. Under' = Under \ {t}
      BY <1>1 DEF Others, Under, Free
    <2>2. \A u \in Under' : task'[u].current = task[u].current
      BY <1>1, <2>1 DEF Others
    <2> QED
      BY <2>1, <2>2 DEF Now
  <1>3. ASSUME NEW u \in Under'
        PROVE  /\ u \in Under /\ u # t /\ u \in Tasks
               /\ task'[u].step = task[u].step /\ task'[u].draft = task[u].draft
               /\ task'[u].current = task[u].current
               /\ task'[u].turn > 0 <=> task[u].turn > 0
               /\ Kf(u)' = Kf(u)
    BY <1>1, <1>2 DEF Others, Kf
  <1>4. Waiting' \subseteq Under' /\ Waiting' \subseteq Waiting
    BY DEF Waiting
  <1>5. \A u \in Waiting' : u \in Now'
    <2>1. \A u \in Waiting : task[u].current
      BY <1>1, WaitsForTheScreen DEF IInv
    <2> QED
      BY <1>3, <1>4, <2>1 DEF Now
  <1>6. \A u \in Now' : task[t].step = "resume" /\ task'[u].step = "save" /\ Kf(u)' = {}
    <2>1. OpeningInv(t) /\ MoveInv(t)
      BY DEF IInv, NowInv
    <2>2. ASSUME NEW u \in Now' PROVE u \in Under \ {t} /\ u \in Under' /\ task[u].current
      BY <1>2, <1>3, <2>2 DEF Now
    <2> QED
      BY <1>3, <2>1, <2>2 DEF OpeningInv, MoveInv, Alone
  <1>7. task[t].step = "resume" => KeyframesOf(draft') = {}
    BY <1>1 DEF IInv, TasksInv, TaskInv, Kf
  <1>8. DraftsInv'
    <2>1. journal' # None => Sound(journal', runOf, server.envelope)
      BY DEF IInv, DraftsInv
    <2>2. \A u \in Under' : task'[u].draft # None => Sound(task'[u].draft, runOf, server.envelope)
      BY <1>3 DEF IInv, DraftsInv
    <2> QED
      BY <2>1, <2>2 DEF IInv, DraftsInv
  <1>9. TasksInv'
    <2> SUFFICES ASSUME NEW u \in Under' PROVE TaskInv(u)'
      BY DEF TasksInv
    <2>1. TaskInv(u)
      BY <1>3 DEF IInv, TasksInv
    <2>2. task'[u].step # "create"
      <3>1. ASSUME task'[u].step = "create" PROVE u \in Waiting'
        BY <1>3, <2>1, <3>1 DEF Waiting, TaskInv, Callers, Writers
      <3> QED
        BY <1>5, <1>6, <3>1
    <2> QED
      BY <1>3, <2>1, <2>2 DEF TaskInv
  <1>10. QueueInv'
    BY <1>5, <1>6 DEF QueueInv, Submission
  <1>11. LoadsInv'
    <2>1. \A u \in Waiting' : task'[u].current
      BY <1>5 DEF Now
    <2> QED
      BY <1>6, <2>1 DEF LoadsInv
  <1>12. NowInv'
    <2> SUFFICES ASSUME NEW u \in Now'
                 PROVE  /\ OpeningInv(u)' /\ ShootingInv(u)' /\ MoveInv(u)' /\ SubmissionInv(u)'
                        /\ task'[u].step = "save"
      BY DEF NowInv
    <2>1. task'[u].step = "save"
      BY <1>6
    <2> QED
      BY <2>1 DEF OpeningInv, ShootingInv, MoveInv, SubmissionInv, Opening, Shooting, Submission
  <1>13. AcceptedInv'
    BY DEF AcceptedInv, Accepted
  <1>14. ScreenInv'
    BY <1>6, <1>7 DEF ScreenInv
  <1>15. ProtectedInv'
    <2>1. journal' # None /\ KeyframesOf(draft') \subseteq KeyframesOf(journal')
      BY DEF IInv, ProtectedInv
    <2>2. \A u \in Waiting' : KeyframesOf(draft') \subseteq Kf(u)'
      BY <1>5, <1>6, <1>7
    <2> QED
      BY <2>1, <2>2 DEF ProtectedInv
  <1>16. SentInv'
    <2>1. \A k : IsSent(k)' => IsSent(k)
      BY <1>3 DEF IsSent
    <2>2. journal' # None
      BY DEF IInv, ProtectedInv
    <2>3. ASSUME NEW k, IsSent(k)'
          PROVE  /\ k \in KeyframesOf(journal') /\ k \in KeyframesOf(draft')
                 /\ \A u \in Waiting' : task'[u].step \in Writers => k \in Kf(u)'
      <3>1. IsSent(k)
        BY <2>1, <2>3
      <3>2. \A u \in Waiting' : task'[u].step \in Writers => k \in Kf(u)'
        BY <1>3, <1>4, <3>1 DEF IInv, SentInv
      <3>3. CASE task[t].step = "ask"
        BY <3>1, <3>2, <3>3 DEF IInv, SentInv
      <3>4. CASE task[t].step \in {"move", "create", "resume"} /\ t \in Waiting
                 /\ draft' = task[t].draft /\ journal' = draft'
        <4>1. k \in Kf(t)
          BY <3>1, <3>4 DEF IInv, SentInv, Writers
        <4> QED
          BY <3>2, <3>4, <4>1 DEF Kf
      <3> QED
        BY <3>3, <3>4
    <2> QED
      BY <2>2, <2>3 DEF SentInv
  <1> QED
    BY <1>8, <1>9, <1>10, <1>11, <1>12, <1>13, <1>14, <1>15, <1>16 DEF IInv

-----------------------------------------------------------------------------
(* A submission that waited for the journal goes on, or is done.           *)

LEMMA GoesOn ==
    ASSUME GuidedConstants, IInv, TypeOK', NEW t \in Waiting, task[t].step \in Submission,
           task'[t] \in TaskRows, task'[t].turn = 0,
           Others(t), Ordered(t), PlacesInv', Waiting' = Waiting \ {t},
           Fine(t) \/ task[t].step \in {"bind", "seal"},
           draft' \in DraftRows, journal' = draft', Sound(draft', runOf, server.envelope),
           \A k : IsSent(k) => k \in KeyframesOf(draft'),
           UNCHANGED <<camera, runOf, active, server>>,
           \/ /\ state' = "submitting" /\ task'[t].step \in {"open", "upload", "send", "accept"}
              /\ task'[t].draft = draft' /\ draft'.acceptance = None
              /\ task'[t].cancelled = task[t].cancelled /\ task'[t].current = task[t].current
              /\ task'[t].step = "accept" => KeyframesOf(draft') \cap DepthFrames \subseteq draft'.depths
           \/ /\ state' = "accepted" /\ task'[t].step = "check" /\ task'[t].draft = None /\ task'[t].current
              /\ draft'.acceptance # None
    PROVE  IInv'
  <1> USE DEF GuidedConstants
  <1> DEFINE Sends == task'[t].step \in {"open", "upload", "send", "accept"}
             Sealed == task'[t].step = "check"
  <1>1. /\ t \in Under /\ t \in Tasks /\ Under \subseteq Tasks /\ draft' # None /\ Waiting \subseteq Under
        /\ \A u \in Under : task[u] \in TaskRows
    BY DEF IInv, TypeOK, Under, Free, Waiting
  <1>2. /\ Under' = Under /\ t \in Under' /\ Now' \subseteq Now \cup {t}
        /\ t \in Now' => task[t].current \/ Sealed
        /\ task[t].current => t \in Now'
    <2>1. Under' = Under
      BY <1>1 DEF Others, Under, Free
    <2>2. \A u \in Under \ {t} : task'[u].current = task[u].current
      BY <1>1, <2>1 DEF Others
    <2>3. Now' \subseteq Now \cup {t}
      BY <2>1, <2>2 DEF Now
    <2>4. t \in Now' => task[t].current \/ Sealed
      BY DEF Now
    <2>5. task[t].current => t \in Now'
      BY <1>1, <2>1 DEF Now
    <2> QED
      BY <1>1, <2>1, <2>3, <2>4, <2>5
  <1>3. ASSUME NEW u \in Under', u # t
        PROVE  /\ u \in Under \ {t} /\ u \in Tasks
               /\ task'[u].step = task[u].step /\ task'[u].draft = task[u].draft
               /\ task'[u].current = task[u].current
               /\ task'[u].turn > 0 <=> task[u].turn > 0
               /\ Kf(u)' = Kf(u)
    BY <1>1, <1>2, <1>3 DEF Others, Kf
  <1>4. \A u \in Waiting' : u \in Under' /\ u # t /\ u \in Waiting /\ task'[u].step = "load"
    <2>1. \A u \in Waiting \ {t} : task[u].step = "load"
      BY DEF IInv, QueueInv
    <2> QED
      BY <1>1, <1>2, <1>3, <2>1
  <1>5. armed' = armed /\ running' = running /\ runs' = runs
    BY DEF camera
  <1>6. ASSUME ~task[t].current
        PROVE  \A u \in Now' : IF u = t THEN Sealed ELSE task'[u].step = "load"
    <2>1. PICK v \in Waiting : task[v].step = "load" /\ task[v].current
      BY <1>6 DEF IInv, LoadsInv
    <2>2. v \in Now
      BY <1>1, <2>1 DEF Now
    <2>3. ~Accepted
      BY DEF IInv, AcceptedInv, Submission
    <2>4. ASSUME NEW u \in Now PROVE u = v
      <3>1. u # v => task[u].step = "check"
        BY <2>1, <2>2 DEF IInv, LoadsInv, Now
      <3>2. task[u].step # "check"
        BY <2>3 DEF IInv, NowInv
      <3> QED
        BY <3>1, <3>2
    <2>5. v # t /\ v \in Under'
      BY <1>2, <1>6, <2>1, <2>2 DEF Now
    <2>6. task'[v].step = "load"
      BY <1>3, <2>1, <2>5
    <2> QED
      BY <1>2, <1>6, <2>4, <2>6
  <1>7. ASSUME task[t].current
        PROVE  Now' = {t} /\ Alone(t)' /\ ~armed /\ ~running /\ Waiting' = {}
    <2>1. t \in Now
      BY <1>1, <1>7 DEF Now
    <2>2. Alone(t) /\ ~armed /\ ~running
      BY <2>1 DEF IInv, NowInv, SubmissionInv
    <2>3. Now' = {t}
      BY <1>2, <2>1, <2>2 DEF Now, Alone
    <2>4. Alone(t)'
      BY <1>3, <2>2 DEF Alone
    <2>5. \A u \in Waiting : task[u].current
      BY <1>1, <1>7, WaitsForTheScreen DEF IInv, Submission
    <2>6. Waiting' = {}
      BY <1>1, <2>2, <2>5 DEF Alone
    <2> QED
      BY <2>2, <2>3, <2>4, <2>6
  <1>8. DraftsInv'
    <2>1. \A u \in Under' : u # t /\ task'[u].draft # None => Sound(task'[u].draft, runOf, server.envelope)
      BY <1>3 DEF IInv, DraftsInv
    <2> QED
      BY <2>1 DEF IInv, DraftsInv
  <1>9. TasksInv'
    <2>1. TaskInv(t)'
      BY <1>1 DEF TaskInv, Kf, Callers, Writers, Shooting, Submission
    <2>2. ASSUME NEW u \in Under', u # t PROVE TaskInv(u)'
      <3>1. TaskInv(u)
        BY <1>3, <2>2 DEF IInv, TasksInv
      <3>2. task'[u].step # "create"
        <4>1. ASSUME task'[u].step = "create" PROVE u \in Waiting'
          BY <1>3, <2>2, <3>1, <4>1 DEF Waiting, TaskInv, Callers, Writers
        <4> QED
          BY <1>4, <4>1
      <3> QED
        BY <1>3, <2>2, <3>1, <3>2 DEF TaskInv
    <2> QED
      BY <2>1, <2>2 DEF TasksInv
  <1>10. QueueInv'
    BY <1>4 DEF QueueInv, Submission
  <1>11. LoadsInv'
    <2>1. ASSUME NEW u \in Waiting', ~task'[u].current
          PROVE  \E v \in Waiting' : task'[v].step = "load" /\ task'[v].current
      <3>1. u \in Waiting /\ ~task[u].current
        BY <1>3, <1>4, <2>1
      <3>2. PICK v \in Waiting : task[v].step = "load" /\ task[v].current
        BY <3>1 DEF IInv, LoadsInv
      <3>3. v \in Waiting'
        BY <3>2 DEF Submission
      <3> QED
        BY <1>3, <1>4, <3>2, <3>3
    <2>2. ASSUME NEW u \in Now', task'[u].step = "load"
          PROVE  /\ ~armed' /\ ~running'
                 /\ draft' # None => state' \notin {"ready", "capturing"}
                 /\ \A v \in Under' \ {u} :
                       /\ task'[v].current => task'[v].step = "check"
                       /\ task'[v].turn < task'[u].turn
      <3>1. u # t /\ u \in Now /\ task[u].step = "load" /\ u \in Under /\ u \in Under'
        BY <1>2, <1>3, <2>2 DEF Now
      <3>2. /\ ~armed /\ ~running
            /\ \A v \in Under \ {u} :
                  /\ task[v].current => task[v].step = "check"
                  /\ task[v].turn < task[u].turn
        BY <3>1 DEF IInv, LoadsInv
      <3>3. ~task[t].current
        BY <1>1, <3>1, <3>2 DEF Submission
      <3>4. \A v \in Under' \ {u} : task'[v].current => task'[v].step = "check"
        BY <1>1, <1>3, <3>2, <3>3
      <3>5. \A v \in Under' \ {u} : v # t => task'[v].turn < task'[u].turn
        BY <1>2, <1>3, <3>1, <3>2 DEF Ordered
      <3>6. task'[u].turn > 0 /\ task'[u].turn \in Nat
        <4>1. task[u].turn > 0
          BY <1>1, <3>1 DEF IInv, TasksInv, TaskInv, Callers
        <4>2. task'[u].turn > 0
          BY <1>3, <3>1, <4>1
        <4>3. task'[u] \in TaskRows
          BY <3>1 DEF TypeOK, Under, Free
        <4> QED
          BY <4>2, <4>3 DEF TaskRows
      <3>7. task'[t].turn < task'[u].turn
        BY <3>6
      <3>8. state' \notin {"ready", "capturing"}
        OBVIOUS
      <3> QED
        BY <1>5, <3>2, <3>4, <3>5, <3>7, <3>8
    <2> QED
      BY <2>1, <2>2 DEF LoadsInv
  <1>12. NowInv'
    <2>1. CASE ~task[t].current
      <3>1. Sealed => Accepted'
        BY DEF Accepted
      <3>2. ASSUME NEW u \in Now'
            PROVE  /\ task'[u].step \in {"load", "check"}
                   /\ task'[u].step = "check" => Accepted'
        <4>1. u = t => Sealed
          BY <1>6, <2>1, <3>2
        <4>2. u # t => task'[u].step = "load"
          BY <1>6, <2>1, <3>2
        <4> QED
          BY <3>1, <4>1, <4>2
      <3>3. ASSUME NEW u \in Now'
            PROVE  OpeningInv(u)' /\ ShootingInv(u)' /\ MoveInv(u)' /\ SubmissionInv(u)'
        BY <3>2, <3>3 DEF OpeningInv, ShootingInv, MoveInv, SubmissionInv, Opening, Shooting, Submission
      <3> QED
        BY <3>2, <3>3 DEF NowInv
    <2>2. CASE task[t].current
      <3>1. Now' = {t} /\ Alone(t)' /\ ~armed' /\ ~running'
        BY <1>5, <1>7, <2>2
      <3>2. CASE Sealed
        BY <3>1, <3>2 DEF NowInv, OpeningInv, ShootingInv, MoveInv, SubmissionInv, Opening, Shooting,
             Submission, Accepted
      <3>3. CASE Sends
        <4>1. task'[t].step \notin Opening \cup Shooting \cup {"move", "save", "check", "reconstruct", "resume"}
          BY <3>3 DEF Opening, Shooting
        <4>2. state' = "submitting" /\ task'[t].draft = draft' /\ task'[t].cancelled = task[t].cancelled
          BY <3>3
        <4>3. ~task[t].cancelled => active = t
          BY <1>1, <2>2 DEF IInv, NowInv, SubmissionInv, Now
        <4>4. SubmissionInv(t)'
          BY <1>1, <3>1, <3>3, <4>2, <4>3 DEF SubmissionInv, Kf
        <4>5. OpeningInv(t)' /\ ShootingInv(t)' /\ MoveInv(t)'
          BY <4>1 DEF OpeningInv, ShootingInv, MoveInv, Opening
        <4> QED
          BY <3>1, <4>1, <4>4, <4>5 DEF NowInv
      <3> QED
        BY <3>2, <3>3
    <2> QED
      BY <2>1, <2>2
  <1>13. AcceptedInv'
    <2> SUFFICES ASSUME Accepted' PROVE AcceptedInv'
      BY DEF AcceptedInv
    <2>1. Sealed /\ state' = "accepted"
      BY DEF Accepted
    <2>2. \A u \in Waiting' : task'[u].step = "load"
      BY <1>4
    <2>3. \A u \in Now' : task'[u].step \in {"load", "check", "reconstruct"}
      BY <1>6, <1>7, <2>1
    <2> QED
      BY <2>1, <2>2, <2>3 DEF AcceptedInv
  <1>14. ScreenInv'
    <2>1. ~armed
      <3>1. CASE task[t].current
        BY <1>7, <3>1
      <3>2. CASE ~task[t].current
        <4>1. PICK v \in Waiting : task[v].step = "load" /\ task[v].current
          BY <3>2 DEF IInv, LoadsInv
        <4> QED
          BY <1>1, <4>1 DEF IInv, LoadsInv, Now
      <3> QED
        BY <3>1, <3>2
    <2> QED
      BY <1>5, <2>1 DEF ScreenInv
  <1>15. ProtectedInv'
    BY <1>1, <1>4 DEF ProtectedInv, Writers
  <1>16. SentInv'
    <2>1. ASSUME NEW k, IsSent(k)' PROVE k \in KeyframesOf(draft')
      <3>1. CASE server'.envelope # None /\ k \in DOMAIN server'.envelope.samples
        BY <3>1 DEF IsSent
      <3>2. CASE \E u \in Under' : u # t /\ task'[u].step \in Submission /\ k \in Kf(u)'
        BY <1>3, <3>2 DEF IsSent
      <3>3. CASE task'[t].step \in Submission /\ k \in Kf(t)'
        BY <3>3 DEF Kf, Submission
      <3> QED
        BY <2>1, <3>1, <3>2, <3>3 DEF IsSent
    <2>2. \A u \in Waiting' : task'[u].step \notin Writers
      BY <1>4 DEF Writers
    <2> QED
      BY <1>1, <2>1, <2>2 DEF SentInv
  <1> QED
    BY <1>8, <1>9, <1>10, <1>11, <1>12, <1>13, <1>14, <1>15, <1>16 DEF IInv

-----------------------------------------------------------------------------
(* A submission saves what the server has answered.                        *)

LEMMA CallsOn ==
    ASSUME GuidedConstants, IInv, TypeOK', NEW t \in Now, task[t].step \in Submission, t \notin Waiting,
           Fine(t), task'[t] \in TaskRows, task'[t].current = task[t].current,
           task'[t].cancelled = task[t].cancelled,
           Others(t), PlacesInv', Waiting' = Waiting \cup {t},
           UNCHANGED <<draft, journal, state, camera, runOf, active>>,
           task'[t].step \in {"bind", "receipt", "seal"}, task'[t].draft \in DraftRows,
           Kf(t)' = Kf(t), Sound(task'[t].draft, runOf, server'.envelope),
           task'[t].step = "seal" <=> task'[t].draft.acceptance # None,
           ServerMay(t)
    PROVE  IInv'
  <1> USE DEF GuidedConstants
  <1>1. /\ t \in Under /\ t \in Tasks /\ Under \subseteq Tasks /\ Waiting \subseteq Under /\ task[t].current
        /\ \A u \in Under : task[u] \in TaskRows
    BY DEF IInv, TypeOK, Under, Free, Waiting, Now
  <1>2. Under' = Under /\ Now' = Now
    <2>1. Under' = Under
      BY <1>1 DEF Others, Under, Free
    <2>2. \A u \in Under : task'[u].current = task[u].current
      BY <1>1, <2>1 DEF Others
    <2> QED
      BY <2>1, <2>2 DEF Now
  <1>3. ASSUME NEW u \in Under', u # t
        PROVE  /\ u \in Under \ {t} /\ u \in Tasks
               /\ task'[u].step = task[u].step /\ task'[u].draft = task[u].draft
               /\ task'[u].current = task[u].current
               /\ task'[u].turn > 0 <=> task[u].turn > 0
               /\ Kf(u)' = Kf(u)
    BY <1>1, <1>2, <1>3 DEF Others, Kf
  <1>4. Now' = {t} /\ Alone(t)' /\ ~armed /\ ~running
    <2>1. Alone(t) /\ ~armed /\ ~running
      BY DEF IInv, NowInv, SubmissionInv
    <2>2. Now' = {t}
      BY <1>1, <1>2, <2>1 DEF Now, Alone
    <2>3. Alone(t)'
      BY <1>3, <2>1 DEF Alone
    <2> QED
      BY <2>1, <2>2, <2>3
  <1>5. Waiting' = {t}
    <2>1. \A u \in Waiting : task[u].current
      BY <1>1, WaitsForTheScreen DEF IInv, Submission
    <2>2. Waiting = {}
      BY <1>1, <1>2, <1>4, <2>1 DEF Now
    <2> QED
      BY <2>2
  <1>6. armed' = armed /\ running' = running /\ runs' = runs
    BY DEF camera
  <1>7. draft # None /\ KeyframesOf(draft) \subseteq Kf(t) /\ state = "submitting" /\ active = t /\ ~task[t].cancelled
    <2>1. task[t].step # "prepare"
      BY <1>1 DEF IInv, TasksInv, TaskInv, Waiting, Callers, Writers
    <2> QED
      BY <2>1 DEF IInv, NowInv, SubmissionInv, Fine
  <1>8. DraftsInv'
    <2>1. \A d : Sound(d, runOf, server.envelope) => Sound(d, runOf, server'.envelope)
      <3>1. server'.envelope = server.envelope \/ server.envelope = None
        BY DEF ServerMay
      <3> QED
        BY <3>1, SoundStays
    <2>2. \A u \in Under' : u # t /\ task'[u].draft # None => Sound(task'[u].draft, runOf, server.envelope)
      BY <1>3 DEF IInv, DraftsInv
    <2>3. server'.envelope # None => OneRun(server'.envelope.samples, runOf)
      <3>1. CASE server'.envelope = server.envelope
        BY <3>1 DEF IInv, DraftsInv
      <3>2. CASE server'.envelope = Envelope(task[t].draft)
        <4>1. task[t].draft # None
          BY <1>1 DEF IInv, TasksInv, TaskInv, Submission
        <4>2. OneRun(task[t].draft.samples, runOf)
          BY <1>1, <4>1 DEF IInv, DraftsInv, Sound
        <4> QED
          BY <3>2, <4>2 DEF Envelope
      <3> QED
        BY <3>1, <3>2 DEF ServerMay
    <2>4. draft' # None => Sound(draft', runOf, server'.envelope)
      BY <2>1 DEF IInv, DraftsInv
    <2>5. journal' # None => Sound(journal', runOf, server'.envelope)
      BY <2>1 DEF IInv, DraftsInv
    <2> QED
      BY <2>1, <2>2, <2>3, <2>4, <2>5 DEF DraftsInv
  <1>9. TasksInv'
    <2>1. TaskInv(t)'
      BY <1>1, <1>5 DEF TaskInv, Kf, Callers, Writers, Shooting, Submission, Waiting
    <2>2. ASSUME NEW u \in Under', u # t PROVE TaskInv(u)'
      <3>1. TaskInv(u)
        BY <1>3, <2>2 DEF IInv, TasksInv
      <3> QED
        BY <1>3, <2>2, <3>1 DEF TaskInv
    <2> QED
      BY <2>1, <2>2 DEF TasksInv
  <1>10. QueueInv'
    BY <1>5 DEF QueueInv
  <1>11. LoadsInv'
    BY <1>1, <1>4, <1>5 DEF LoadsInv
  <1>12. NowInv'
    <2>1. SubmissionInv(t)'
      BY <1>1, <1>4, <1>6, <1>7 DEF SubmissionInv
    <2>2. OpeningInv(t)' /\ ShootingInv(t)' /\ MoveInv(t)'
      BY DEF OpeningInv, ShootingInv, MoveInv, Opening, Shooting
    <2> QED
      BY <1>4, <2>1, <2>2 DEF NowInv
  <1>13. AcceptedInv'
    <2>1. ~Accepted
      BY DEF IInv, AcceptedInv, Submission
    <2> QED
      BY <2>1 DEF AcceptedInv, Accepted
  <1>14. ScreenInv'
    BY <1>4, <1>6, <1>7 DEF ScreenInv
  <1>15. ProtectedInv'
    BY <1>5, <1>7 DEF IInv, ProtectedInv
  <1>16. SentInv'
    <2>1. \A k : IsSent(k)' => IsSent(k)
      <3> SUFFICES ASSUME NEW k, IsSent(k)' PROVE IsSent(k)
        OBVIOUS
      <3>1. CASE server'.envelope # None /\ k \in DOMAIN server'.envelope.samples
        <4>1. CASE server'.envelope = server.envelope
          BY <3>1, <4>1 DEF IsSent
        <4>2. CASE server'.envelope = Envelope(task[t].draft)
          BY <1>1, <3>1, <4>2 DEF IsSent, Envelope, Kf, KeyframesOf
        <4> QED
          BY <4>1, <4>2 DEF ServerMay
      <3>2. CASE \E u \in Under' : u # t /\ task'[u].step \in Submission /\ k \in Kf(u)'
        BY <1>3, <3>2 DEF IsSent
      <3>3. CASE k \in Kf(t)'
        BY <1>1, <3>3 DEF IsSent
      <3> QED
        BY <3>1, <3>2, <3>3 DEF IsSent
    <2>2. journal # None
      BY <1>7 DEF IInv, ProtectedInv
    <2>3. ASSUME NEW k, IsSent(k)'
          PROVE  k \in KeyframesOf(journal) /\ k \in KeyframesOf(draft) /\ k \in Kf(t)'
      BY <1>7, <2>1, <2>3 DEF IInv, SentInv
    <2> QED
      BY <1>5, <2>2, <2>3 DEF SentInv
  <1> QED
    BY <1>8, <1>9, <1>10, <1>11, <1>12, <1>13, <1>14, <1>15, <1>16 DEF IInv

-----------------------------------------------------------------------------
(* What becomes of a draft.                                                *)

LEMMA SamplesAreKeyframes ==
    ASSUME NEW d \in DraftRows
    PROVE  d.samples \in [KeyframesOf(d) -> Nat] /\ KeyframesOf(d) \subseteq Keyframes
  <1>1. PICK K \in SUBSET Keyframes : d.samples \in [K -> Nat]
    BY DEF DraftRows
  <1> QED
    BY <1>1 DEF KeyframesOf

LEMMA RetainingAdds ==
    ASSUME NEW d \in DraftRows, NEW k \in Keyframes, NEW s \in Nat
    PROVE  /\ Retaining(d, k, s) \in DraftRows
           /\ KeyframesOf(Retaining(d, k, s)) = KeyframesOf(d) \cup {k}
           /\ \A i \in KeyframesOf(d) \cup {k} :
                 Retaining(d, k, s).samples[i] = IF i = k THEN s ELSE d.samples[i]
           /\ Retaining(d, k, s).segment = d.segment /\ Retaining(d, k, s).acceptance = d.acceptance
  <1> DEFINE samples == [i \in KeyframesOf(d) \cup {k} |-> IF i = k THEN s ELSE d.samples[i]]
  <1>1. samples \in [KeyframesOf(d) \cup {k} -> Nat] /\ KeyframesOf(d) \cup {k} \in SUBSET Keyframes
    BY SamplesAreKeyframes
  <1>2. samples \in UNION {[K -> Nat] : K \in SUBSET Keyframes}
    BY <1>1
  <1>3. Retaining(d, k, s) = [d EXCEPT !.samples = samples]
    BY DEF Retaining
  <1>4. DOMAIN samples = KeyframesOf(d) \cup {k}
        /\ \A i \in KeyframesOf(d) \cup {k} : samples[i] = IF i = k THEN s ELSE d.samples[i]
    OBVIOUS
  <1> HIDE DEF samples
  <1>5. /\ Retaining(d, k, s).samples = samples
        /\ Retaining(d, k, s).segment = d.segment /\ Retaining(d, k, s).acceptance = d.acceptance
    BY <1>3 DEF DraftRows
  <1>6. Retaining(d, k, s) \in DraftRows
    BY <1>2, <1>3 DEF DraftRows
  <1>7. KeyframesOf(Retaining(d, k, s)) = KeyframesOf(d) \cup {k}
    BY <1>4, <1>5 DEF KeyframesOf
  <1> QED
    BY <1>4, <1>5, <1>6, <1>7

LEMMA SegmentedMovesOn ==
    ASSUME NEW d \in DraftRows
    PROVE  /\ Segmented(d) \in DraftRows /\ Segmented(d).segment = d.segment + 1
           /\ Segmented(d).samples = d.samples /\ Segmented(d).acceptance = d.acceptance
           /\ d.acceptance = None /\ Sound(d, runOf, server.envelope) =>
                 Sound(Segmented(d), runOf, server.envelope) /\ InSegment(Segmented(d)) = {}
  <1>1. /\ Segmented(d) \in DraftRows /\ Segmented(d).segment = d.segment + 1
        /\ Segmented(d).samples = d.samples /\ Segmented(d).acceptance = d.acceptance
    BY DEF Segmented, DraftRows
  <1>2. d.segment \in Nat /\ \A k \in KeyframesOf(d) : d.samples[k] \in Nat
    BY SamplesAreKeyframes DEF DraftRows
  <1>3. KeyframesOf(Segmented(d)) = KeyframesOf(d)
    BY <1>1 DEF KeyframesOf
  <1> HIDE DEF Segmented
  <1>4. ASSUME d.acceptance = None, Sound(d, runOf, server.envelope)
        PROVE  Sound(Segmented(d), runOf, server.envelope) /\ InSegment(Segmented(d)) = {}
    <2>1. \A k \in KeyframesOf(d) : d.samples[k] < d.segment + 1
      BY <1>2, <1>4 DEF Sound
    <2>2. InSegment(Segmented(d)) = {}
      BY <1>1, <1>2, <1>3, <2>1 DEF InSegment
    <2>3. \A k \in KeyframesOf(d) : d.samples[k] <= d.segment + 1
      BY <1>2, <2>1
    <2> QED
      BY <1>1, <1>3, <1>4, <2>2, <2>3 DEF Sound, Complete
  <1> QED
    BY <1>1, <1>4

\* Where a frame was taken that is not among these says nothing of them.
LEMMA OriginsElsewhere ==
    ASSUME NEW d, NEW k, NEW run, NEW origins \in [Keyframes -> Nat], NEW accepted, k \notin KeyframesOf(d),
           KeyframesOf(d) \subseteq Keyframes, Sound(d, origins, accepted)
    PROVE  Sound(d, [origins EXCEPT ![k] = run], accepted)
  <1> DEFINE later == [origins EXCEPT ![k] = run]
  <1>1. \A i \in KeyframesOf(d) : later[i] = origins[i]
    OBVIOUS
  <1> HIDE DEF later
  <1>2. OneRun(d.samples, later)
    BY <1>1 DEF Sound, OneRun, KeyframesOf
  <1>3. Sound(d, later, accepted)
    BY <1>2 DEF Sound
  <1> QED
    BY <1>3 DEF later

LEMMA EmptyIsADraft == Empty \in DraftRows /\ KeyframesOf(Empty) = {}
  <1> DEFINE samples == [k \in {} |-> 0]
  <1>1. samples \in [{} -> Nat] /\ {} \in SUBSET Keyframes
    OBVIOUS
  <1>2. samples \in UNION {[K -> Nat] : K \in SUBSET Keyframes} /\ DOMAIN samples = {}
    BY <1>1
  <1> HIDE DEF samples
  <1>3. Empty = [samples |-> samples, segment |-> 1, rooms |-> 1, note |-> None,
                 session |-> FALSE, receipts |-> {}, depths |-> {}, acceptance |-> None]
    BY DEF Empty, samples
  <1> QED
    BY <1>2, <1>3 DEF DraftRows, KeyframesOf

-----------------------------------------------------------------------------
(* A frame is being taken.                                                 *)

LEMMA Takes ==
    ASSUME GuidedConstants, IInv, TypeOK', NEW t \in Now, task[t].step \in {"shoot", "depth"}, ~task[t].cancelled,
           t \notin Waiting, task'[t] \in TaskRows, task'[t].current, ~task'[t].cancelled,
           Others(t), PlacesInv', DraftsInv', Live(draft, runOf', runs),
           UNCHANGED <<draft, journal, state, camera, active, server>>,
           task'[t].draft # None, task'[t].draft.acceptance = None,
           KeyframesOf(draft) \subseteq Kf(t)', Live(task'[t].draft, runOf', runs),
           \/ task'[t].step = "depth" /\ task'[t].turn = 0 /\ Waiting' = Waiting
           \/ /\ task'[t].step = "retain" /\ task'[t].turn > 0 /\ Waiting' = Waiting \cup {t}
              /\ \A u \in Waiting : task'[u].turn < task'[t].turn
    PROVE  IInv'
  <1> USE DEF GuidedConstants
  <1>1. /\ t \in Under /\ t \in Tasks /\ Under \subseteq Tasks /\ Waiting \subseteq Under /\ task[t].current
        /\ \A u \in Under : task[u] \in TaskRows
    BY DEF IInv, TypeOK, Under, Free, Waiting, Now
  <1>2. Under' = Under /\ Now' = Now
    <2>1. Under' = Under
      BY <1>1 DEF Others, Under, Free
    <2>2. \A u \in Under : task'[u].current <=> task[u].current
      BY <1>1, <2>1 DEF Others
    <2> QED
      BY <2>1, <2>2 DEF Now
  <1>3. ASSUME NEW u \in Under', u # t
        PROVE  /\ u \in Under \ {t} /\ u \in Tasks
               /\ task'[u].step = task[u].step /\ task'[u].draft = task[u].draft
               /\ task'[u].current = task[u].current /\ task'[u].cancelled = task[u].cancelled
               /\ task'[u].turn > 0 <=> task[u].turn > 0
               /\ Kf(u)' = Kf(u)
    BY <1>1, <1>2, <1>3 DEF Others, Kf
  <1>4. /\ draft # None /\ active = t /\ armed /\ state \in {"capturing", "interrupted", "failed"}
        /\ \A u \in Under \ {t} : task[u].current => task[u].step = "save"
    BY DEF IInv, NowInv, ShootingInv, Shooting
  <1>5. \A u \in Under' : u # t /\ task'[u].current => task'[u].step = "save"
    BY <1>3, <1>4
  <1>6. \A u \in Waiting' : task'[u].current /\ (u # t => task'[u].step = "save" /\ u \in Waiting)
    <2>1. \A u \in Waiting : task[u].current
      BY <1>1, WaitsForTheScreen DEF IInv
    <2>2. \A u \in Waiting' : u \in Under' /\ (u # t => u \in Waiting)
      BY DEF Waiting
    <2>3. \A u \in Waiting' : task'[u].current
      BY <1>3, <2>1, <2>2
    <2> QED
      BY <1>5, <2>2, <2>3
  <1>7. armed' = armed /\ running' = running /\ runs' = runs
    BY DEF camera
  <1>8. task[t].step \in Shooting /\ task'[t].step \in Shooting \ {"shoot"}
    BY DEF Shooting
  <1>9. TasksInv'
    <2>1. TaskInv(t)'
      BY <1>1 DEF TaskInv, Kf, Callers, Writers, Shooting, Submission
    <2>2. ASSUME NEW u \in Under', u # t PROVE TaskInv(u)'
      <3>1. TaskInv(u)
        BY <1>3, <2>2 DEF IInv, TasksInv
      <3> QED
        BY <1>3, <2>2, <3>1 DEF TaskInv
    <2> QED
      BY <2>1, <2>2 DEF TasksInv
  <1>10. QueueInv'
    <2>1. \A u \in Waiting' : task'[u].step \notin Submission \cup {"move", "create"}
      BY <1>6 DEF Submission
    <2>2. ASSUME NEW u \in Waiting', task'[u].step = "retain", NEW v \in Waiting' \ {u}
          PROVE  task'[v].turn < task'[u].turn
      <3>1. u = t /\ v \in Waiting
        BY <1>6, <2>2
      <3> QED
        BY <2>2, <3>1
    <2> QED
      BY <2>1, <2>2 DEF QueueInv
  <1>11. LoadsInv'
    <2>1. \A u \in Now' : task'[u].step # "load"
      BY <1>5 DEF Now
    <2> QED
      BY <1>6, <2>1 DEF LoadsInv
  <1>12. NowInv'
    <2>1. ShootingInv(t)'
      <3>1. \A u \in Under' \ {t} : task'[u].current => task'[u].step \in Shooting \cup {"save"}
        BY <1>5
      <3>2. \A u \in Under' \ {t} : task'[u].current => task'[u].step = "save"
        BY <1>5
      <3> QED
        BY <1>4, <1>7, <1>8, <3>1, <3>2 DEF ShootingInv
    <2>2. OpeningInv(t)' /\ MoveInv(t)' /\ SubmissionInv(t)'
      BY DEF OpeningInv, MoveInv, SubmissionInv, Opening, Submission
    <2>3. \A u \in Now' : u # t => task'[u].step = "save" /\ u \in Under'
      BY <1>5 DEF Now
    <2>4. \A u \in Now' : u # t =>
             OpeningInv(u)' /\ ShootingInv(u)' /\ MoveInv(u)' /\ SubmissionInv(u)'
      BY <2>3 DEF OpeningInv, ShootingInv, MoveInv, SubmissionInv, Opening, Shooting, Submission
    <2>5. \A u \in Now' : task'[u].step = "save" => draft' # None
      BY <1>4
    <2>6. \A u \in Now' : task'[u].step \notin {"check", "reconstruct"}
      BY <2>3
    <2> QED
      BY <2>1, <2>2, <2>4, <2>5, <2>6 DEF NowInv
  <1>13. AcceptedInv'
    <2>1. ~Accepted
      BY DEF IInv, AcceptedInv
    <2> QED
      BY <2>1 DEF AcceptedInv, Accepted
  <1>14. ScreenInv'
    BY <1>4, <1>7 DEF ScreenInv
  <1>15. ProtectedInv'
    <2>1. \A u \in Waiting' : u # t /\ task'[u].step \in Writers => KeyframesOf(draft) \subseteq Kf(u)'
      BY <1>3, <1>4, <1>6 DEF IInv, ProtectedInv, Waiting
    <2> QED
      BY <2>1 DEF IInv, ProtectedInv
  <1>16. SentInv'
    <2>1. \A k : IsSent(k)' => IsSent(k)
      BY <1>3, <1>8 DEF IsSent, Shooting, Submission
    <2>2. journal # None
      BY <1>4 DEF IInv, ProtectedInv
    <2>3. ASSUME NEW k, IsSent(k)'
          PROVE  /\ k \in KeyframesOf(journal) /\ k \in KeyframesOf(draft)
                 /\ \A u \in Waiting' : task'[u].step \in Writers => k \in Kf(u)'
      <3>1. IsSent(k)
        BY <2>1, <2>3
      <3>2. k \in KeyframesOf(journal) /\ k \in KeyframesOf(draft)
        BY <1>4, <3>1 DEF IInv, SentInv
      <3>3. \A u \in Waiting' : u # t /\ task'[u].step \in Writers => k \in Kf(u)'
        BY <1>3, <1>6, <3>1 DEF IInv, SentInv, Waiting
      <3> QED
        BY <3>2, <3>3
    <2> QED
      BY <2>2, <2>3 DEF SentInv
  <1> QED
    BY <1>9, <1>10, <1>11, <1>12, <1>13, <1>14, <1>15, <1>16 DEF IInv

-----------------------------------------------------------------------------
(* The capture that is opened.                                             *)

\* The journal is read when nobody else is at it.
LEMMA LoadsAlone ==
    ASSUME GuidedConstants, IInv, NEW t \in Now, (task[t].step = "load" /\ Turn(t)) \/ task[t].step = "ask"
    PROVE  /\ Waiting \subseteq {t} /\ ~armed
           /\ \A u \in Now \ {t} : task[u].step = "check" /\ Accepted
  <1>1. t \in Under /\ task[t].current /\ Waiting \subseteq Under /\ \A u \in Under : task[u] \in TaskRows
    BY DEF IInv, TypeOK, Under, Free, Waiting, Now
  <1>2. CASE task[t].step = "load" /\ Turn(t)
    <2>1. /\ ~armed
          /\ \A u \in Under \ {t} : (task[u].current => task[u].step = "check") /\ task[u].turn < 1
      BY <1>2 DEF IInv, LoadsInv, Turn
    <2>2. ASSUME NEW u \in Waiting, u # t PROVE FALSE
      <3>1. task[u].turn < 1 /\ task[u].turn > 0 /\ task[u].turn \in Nat
        BY <1>1, <2>1, <2>2 DEF Waiting, TaskRows
      <3> QED
        BY <3>1
    <2>3. \A u \in Now \ {t} : task[u].step = "check" /\ Accepted
      BY <2>1 DEF IInv, NowInv, Now
    <2> QED
      BY <2>1, <2>2, <2>3
  <1>3. CASE task[t].step = "ask"
    <2>1. Alone(t) /\ ~armed
      BY <1>3 DEF IInv, NowInv, OpeningInv, Opening
    <2>2. \A u \in Waiting : task[u].current
      BY <1>1, <1>3, WaitsForTheScreen DEF IInv
    <2> QED
      BY <1>1, <2>1, <2>2 DEF Alone, Now
  <1> QED
    BY <1>2, <1>3

LEMMA Reviews ==
    ASSUME GuidedConstants, IInv, TypeOK', NEW t \in Now, task[t].step = "load", Turn(t),
           task'[t] = None, Others(t), PlacesInv', Waiting' = Waiting \ {t},
           journal # None, journal.acceptance = None, draft' = journal, state' = "review",
           UNCHANGED <<journal, camera, runOf, server>>
    PROVE  IInv'
  <1> USE DEF GuidedConstants
  <1>1. /\ t \in Tasks /\ t \in Under /\ Under \subseteq Tasks
        /\ \A u \in Under : task[u] \in TaskRows
    BY DEF IInv, TypeOK, Under, Free, Now
  <1>2. ASSUME NEW u \in Under'
        PROVE  /\ u \in Under /\ u # t /\ u \in Tasks
               /\ task'[u].step = task[u].step /\ task'[u].draft = task[u].draft
               /\ task'[u].current = task[u].current
               /\ task'[u].turn > 0 <=> task[u].turn > 0
               /\ Kf(u)' = Kf(u)
    BY <1>1 DEF Others, Kf, Under, Free
  <1>3. Waiting' = {} /\ Now' = {} /\ ~armed'
    <2>1. Waiting \subseteq {t} /\ ~armed /\ \A u \in Now \ {t} : Accepted
      BY LoadsAlone
    <2>2. ~Accepted
      BY DEF IInv, AcceptedInv, Accepted
    <2>3. Now' \subseteq Now \ {t}
      BY <1>2 DEF Now
    <2> QED
      BY <2>1, <2>2, <2>3 DEF camera
  <1>4. DraftsInv'
    <2>1. \A u \in Under' : task'[u].draft # None => Sound(task'[u].draft, runOf, server.envelope)
      BY <1>2 DEF IInv, DraftsInv
    <2> QED
      BY <2>1 DEF IInv, DraftsInv
  <1>5. TasksInv'
    <2> SUFFICES ASSUME NEW u \in Under' PROVE TaskInv(u)'
      BY DEF TasksInv
    <2>1. TaskInv(u)
      BY <1>2 DEF IInv, TasksInv
    <2>2. task'[u].step # "create"
      BY <1>2, <1>3, <2>1 DEF Waiting, TaskInv, Callers, Writers
    <2> QED
      BY <1>2, <2>1, <2>2 DEF TaskInv
  <1>6. QueueInv' /\ LoadsInv' /\ NowInv' /\ ScreenInv' /\ AcceptedInv'
    BY <1>3 DEF QueueInv, LoadsInv, NowInv, ScreenInv, AcceptedInv, Accepted
  <1>7. ProtectedInv'
    BY <1>3 DEF ProtectedInv
  <1>8. SentInv'
    <2>1. \A k : IsSent(k)' => IsSent(k)
      BY <1>2 DEF IsSent
    <2> QED
      BY <1>3, <2>1 DEF IInv, SentInv
  <1> QED
    BY <1>4, <1>5, <1>6, <1>7, <1>8 DEF IInv

LEMMA OpensOn ==
    ASSUME GuidedConstants, IInv, TypeOK', NEW t \in Now,
           (task[t].step = "load" /\ Turn(t)) \/ task[t].step = "ask",
           task'[t] \in TaskRows, task'[t].current, Others(t), PlacesInv',
           UNCHANGED <<journal, camera, runOf, server>>,
           \/ /\ journal = None /\ UNCHANGED <<draft, state>>
              /\ task'[t].step = "create" /\ task'[t].draft = Empty /\ task'[t].turn > 0
           \/ /\ task[t].step = "load" /\ journal # None /\ draft' = journal /\ UNCHANGED state
              /\ journal.acceptance = None /\ KeyframesOf(journal) = {}
              /\ task'[t].step = "resume" /\ task'[t].draft = Segmented(journal) /\ task'[t].turn > 0
           \/ /\ task[t].step = "load" /\ journal # None /\ draft' = journal /\ state' = "accepted"
              /\ journal.acceptance # None
              /\ task'[t].step = "check" /\ task'[t].draft = None /\ task'[t].turn = 0
    PROVE  IInv'
  <1> USE DEF GuidedConstants
  <1>1. /\ t \in Tasks /\ t \in Under /\ Under \subseteq Tasks /\ task[t].current
        /\ \A u \in Under : task[u] \in TaskRows
    BY DEF IInv, TypeOK, Under, Free, Now
  <1>2. Under' = Under /\ Now' = Now
    <2>1. Under' = Under
      BY <1>1 DEF Others, Under, Free
    <2>2. \A u \in Under : task'[u].current <=> task[u].current
      BY <1>1, <2>1 DEF Others
    <2> QED
      BY <2>1, <2>2 DEF Now
  <1>3. ASSUME NEW u \in Under', u # t
        PROVE  /\ u \in Under \ {t} /\ u \in Tasks
               /\ task'[u].step = task[u].step /\ task'[u].draft = task[u].draft
               /\ task'[u].current = task[u].current
               /\ task'[u].turn > 0 <=> task[u].turn > 0
               /\ Kf(u)' = Kf(u)
    BY <1>1, <1>2, <1>3 DEF Others, Kf
  <1>4. Waiting \subseteq {t} /\ ~armed /\ \A u \in Now \ {t} : task[u].step = "check" /\ Accepted
    BY LoadsAlone
  <1>5. Waiting' \subseteq {t} /\ ~armed'
    BY <1>2, <1>3, <1>4 DEF Waiting, camera
  <1>6. task'[t].step # "check" => ~Accepted /\ Now' = {t}
    <2>1. Accepted => journal # None /\ journal.acceptance # None
      BY DEF IInv, AcceptedInv, Accepted
    <2> QED
      BY <1>2, <1>4, <2>1
  <1>7. journal = None => draft = None /\ \A k : ~IsSent(k)
    <2>1. journal = None => draft = None
      BY DEF IInv, ProtectedInv
    <2>2. ASSUME journal = None, NEW k PROVE ~IsSent(k)
      BY <2>2 DEF IInv, SentInv, IsSent
    <2> QED
      BY <2>1, <2>2
  <1>8. task'[t].draft # None =>
           /\ task'[t].draft.acceptance = None /\ Sound(task'[t].draft, runOf, server.envelope)
           /\ task'[t].step = "resume" => Kf(t)' = {}
    <2>1. Sound(Empty, runOf, server.envelope) /\ Empty.acceptance = None
      BY DEF Empty, Sound, OneRun, Complete, KeyframesOf
    <2>2. CASE task'[t].step = "resume"
      <3>1. journal \in DraftRows /\ Sound(journal, runOf, server.envelope) /\ journal.acceptance = None
        BY <2>2 DEF IInv, TypeOK, DraftsInv
      <3>2. Sound(Segmented(journal), runOf, server.envelope) /\ Segmented(journal).samples = journal.samples
            /\ Segmented(journal).acceptance = None
        BY <3>1, SegmentedMovesOn
      <3> QED
        BY <2>2, <3>2 DEF Kf, KeyframesOf
    <2> QED
      BY <2>1, <2>2
  <1>9. DraftsInv'
    <2>1. \A u \in Under' : u # t /\ task'[u].draft # None => Sound(task'[u].draft, runOf, server.envelope)
      BY <1>3 DEF IInv, DraftsInv
    <2>2. draft' # None => Sound(draft', runOf, server.envelope)
      BY DEF IInv, DraftsInv
    <2> QED
      BY <1>8, <2>1, <2>2 DEF IInv, DraftsInv
  <1>10. TasksInv'
    <2>1. TaskInv(t)'
      <3>1. task'[t].step # "check" => task'[t].draft # None
        BY EmptyIsADraft, SegmentedMovesOn DEF IInv, TypeOK
      <3>2. /\ task'[t].turn > 0 <=> task'[t].step \in Callers
            /\ task'[t].step = "create" => draft' = None /\ journal' = None /\ task'[t].draft = Empty
        BY <1>7 DEF Callers, Writers
      <3> QED
        BY <1>8, <3>1, <3>2 DEF TaskInv, Shooting, Submission
    <2>2. ASSUME NEW u \in Under', u # t PROVE TaskInv(u)'
      <3>1. TaskInv(u)
        BY <1>3, <2>2 DEF IInv, TasksInv
      <3>2. task'[u].step # "create"
        BY <1>3, <1>5, <2>2, <3>1 DEF Waiting, TaskInv, Callers, Writers
      <3> QED
        BY <1>3, <2>2, <3>1, <3>2 DEF TaskInv
    <2> QED
      BY <2>1, <2>2 DEF TasksInv
  <1>11. QueueInv'
    BY <1>5 DEF QueueInv
  <1>12. \A u \in Now' : u # t => task'[u].step = "check"
    BY <1>2, <1>3, <1>4 DEF Now
  <1>13. LoadsInv'
    BY <1>5, <1>12 DEF LoadsInv
  <1>14. NowInv'
    <2>1. CASE task'[t].step = "check"
      <3>1. Accepted' /\ \A u \in Now' : task'[u].step = "check"
        BY <1>12, <2>1 DEF Accepted
      <3> QED
        BY <3>1 DEF NowInv, OpeningInv, ShootingInv, MoveInv, SubmissionInv, Opening, Shooting, Submission
    <2>2. CASE task'[t].step # "check"
      <3>1. Now' = {t} /\ Alone(t)'
        BY <1>2, <1>3, <1>6, <2>2 DEF Now, Alone
      <3>2. task'[t].step = "resume" => draft' # None /\ KeyframesOf(draft') = {}
        OBVIOUS
      <3>3. OpeningInv(t)'
        BY <1>5, <2>2, <3>1, <3>2 DEF OpeningInv, Alone
      <3>4. ShootingInv(t)' /\ MoveInv(t)' /\ SubmissionInv(t)'
        BY <2>2 DEF ShootingInv, MoveInv, SubmissionInv, Shooting, Submission
      <3> QED
        BY <2>2, <3>1, <3>3, <3>4 DEF NowInv
    <2> QED
      BY <2>1, <2>2
  <1>15. AcceptedInv'
    <2>1. CASE task'[t].step = "check"
      <3>1. Waiting' = {}
        BY <1>5, <2>1 DEF Waiting
      <3> QED
        BY <1>12, <2>1, <3>1 DEF AcceptedInv
    <2>2. CASE task'[t].step # "check"
      BY <1>6, <1>7, <2>2 DEF AcceptedInv, Accepted
    <2> QED
      BY <2>1, <2>2
  <1>16. ScreenInv'
    <2>1. CASE task'[t].step = "check"
      BY <1>5, <2>1 DEF ScreenInv
    <2>2. CASE task'[t].step # "check"
      BY <1>5, <1>6, <1>7, <2>2 DEF ScreenInv, Opening
    <2> QED
      BY <2>1, <2>2
  <1>17. ProtectedInv'
    <2>1. CASE task'[t].step = "check"
      BY <1>5, <2>1 DEF ProtectedInv, Writers
    <2>2. CASE task'[t].step = "resume"
      BY <1>5, <2>2 DEF ProtectedInv
    <2>3. CASE task'[t].step = "create"
      BY <1>7, <2>3 DEF ProtectedInv
    <2> QED
      BY <2>1, <2>2, <2>3
  <1>18. SentInv'
    <2>1. \A k : IsSent(k)' => IsSent(k)
      BY <1>3 DEF IsSent, Submission
    <2>2. \A k : IsSent(k) => k \in KeyframesOf(journal)
      BY DEF IInv, SentInv
    <2>3. CASE task'[t].step = "check"
      <3>1. Waiting' = {}
        BY <1>5, <2>3 DEF Waiting
      <3> QED
        BY <2>1, <2>2, <2>3, <3>1 DEF SentInv
    <2>4. CASE task'[t].step = "resume"
      BY <2>1, <2>2, <2>4 DEF SentInv
    <2>5. CASE task'[t].step = "create"
      <3>1. server'.envelope = None /\ ~\E u \in Under : task[u].step \in Submission
        BY <2>5 DEF IInv, SentInv
      <3>2. ~\E u \in Under' : task'[u].step \in Submission
        BY <1>3, <2>5, <3>1 DEF Submission
      <3>3. \A k : ~IsSent(k)'
        BY <1>7, <2>1, <2>5
      <3> QED
        BY <3>1, <3>2, <3>3 DEF SentInv
    <2> QED
      BY <2>3, <2>4, <2>5
  <1> QED
    BY <1>9, <1>10, <1>11, <1>13, <1>14, <1>15, <1>16, <1>17, <1>18 DEF IInv

-----------------------------------------------------------------------------
(* A new task.                                                             *)

\* t is new, and the others have their steps, their drafts and their places.
Joins(t) ==
    /\ t \in Free /\ task'[t] \in TaskRows
    /\ \A u \in Under :
          /\ task'[u] \in TaskRows
          /\ task'[u].step = task[u].step /\ task'[u].draft = task[u].draft
          /\ task'[u].turn = task[u].turn
    /\ \A u \in Free \ {t} : task'[u] = None

\* The screen is still the same.
Beside(t) ==
    Joins(t) /\ task'[t].current /\ \A u \in Under : task'[u].current = task[u].current

LEMMA JoinedTask ==
    ASSUME GuidedConstants, TypeOK, NEW t, Joins(t)
    PROVE  /\ Under' = Under \cup {t} /\ t \notin Under
           /\ \A u \in Under : Kf(u)' = Kf(u) /\ u # t
           /\ task'[t].turn = 0 => Waiting' = Waiting
           /\ task'[t].turn > 0 => Waiting' = Waiting \cup {t}
  <1>1. Under' = Under \cup {t} /\ t \notin Under
    BY DEF Joins, Under, Free, GuidedConstants
  <1>2. \A u \in Under : Kf(u)' = Kf(u) /\ u # t
    BY <1>1 DEF Joins, Kf
  <1>3. task'[t].turn = 0 => Waiting' = Waiting
    BY <1>1 DEF Joins, Waiting
  <1>4. task'[t].turn > 0 => Waiting' = Waiting \cup {t}
    BY <1>1 DEF Joins, Waiting
  <1> QED
    BY <1>1, <1>2, <1>3, <1>4

LEMMA NewTask ==
    ASSUME GuidedConstants, TypeOK, NEW t, Beside(t)
    PROVE  /\ Under' = Under \cup {t} /\ Now' = Now \cup {t} /\ t \notin Under
           /\ \A u \in Under : Kf(u)' = Kf(u) /\ u # t
           /\ task'[t].turn = 0 => Waiting' = Waiting
           /\ task'[t].turn > 0 => Waiting' = Waiting \cup {t}
  <1>1. Under' = Under \cup {t} /\ t \notin Under
    BY JoinedTask DEF Beside
  <1>2. Now' = Now \cup {t}
    BY <1>1 DEF Beside, Now
  <1> QED
    BY <1>1, <1>2, JoinedTask DEF Beside

LEMMA NewTaskKeepsPlaces ==
    ASSUME GuidedConstants, TypeOK, PlacesInv, NEW t, Joins(t),
           task'[t].turn \in {0, 1 + Cardinality(Waiting)}
    PROVE  /\ PlacesInv'
           /\ task'[t].turn > 0 => \A u \in Waiting : task'[u].turn < task'[t].turn
  <1>1. Cardinality(Waiting) \in Nat /\ Cardinality(Waiting') \in Nat /\ IsFiniteSet(Waiting)
    BY WaitingIsFinite
  <1>2. ASSUME NEW u \in Waiting
        PROVE  task'[u].turn = task[u].turn /\ task[u].turn \in Nat /\ task[u].turn <= Cardinality(Waiting) /\ u # t
    <2>1. u \in Under /\ task[u] \in TaskRows
      BY DEF Waiting, Under, Free, TypeOK
    <2> QED
      BY <2>1, JoinedTask DEF Joins, PlacesInv, TaskRows
  <1>3. CASE task'[t].turn = 0
    <2>1. Waiting' = Waiting
      BY <1>3, JoinedTask
    <2>2. PlacesInv'
      BY <1>2, <2>1 DEF PlacesInv
    <2> QED
      BY <1>3, <2>2
  <1>4. CASE task'[t].turn = 1 + Cardinality(Waiting)
    <2>1. Waiting' = Waiting \cup {t}
      BY <1>1, <1>4, JoinedTask
    <2>2. t \notin Waiting
      BY <1>2
    <2>3. Cardinality(Waiting') = Cardinality(Waiting) + 1
      BY <1>1, <2>1, <2>2, FS_AddElement
    <2>4. \A u \in Waiting : task'[u].turn < task'[t].turn
      BY <1>1, <1>2, <1>4
    <2>5. ASSUME NEW u \in Waiting' PROVE task'[u].turn <= Cardinality(Waiting')
      BY <1>1, <1>2, <1>4, <2>1, <2>3
    <2>6. ASSUME NEW u \in Waiting', NEW v \in Waiting', u # v PROVE task'[u].turn # task'[v].turn
      <3>1. CASE u = t
        BY <1>1, <1>2, <2>1, <2>4, <2>6, <3>1
      <3>2. CASE v = t
        BY <1>1, <1>2, <2>1, <2>4, <2>6, <3>2
      <3>3. CASE u # t /\ v # t
        BY <1>2, <2>1, <2>6, <3>3 DEF PlacesInv
      <3> QED
        BY <3>1, <3>2, <3>3
    <2> QED
      BY <2>4, <2>5, <2>6 DEF PlacesInv
  <1> QED
    BY <1>3, <1>4

\* What is cancelled is so marked, and only marked.
LEMMA CancelledRows ==
    ASSUME GuidedConstants, TypeOK
    PROVE  /\ Cancelled(task, active) \in [Tasks -> TaskRows \cup {None}]
           /\ \A u \in Free : Cancelled(task, active)[u] = None
           /\ \A u \in Under :
                 LET r == Cancelled(task, active)[u]
                 IN  /\ r \in TaskRows /\ r.step = task[u].step /\ r.draft = task[u].draft
                     /\ r.current = task[u].current /\ r.turn = task[u].turn
                     /\ r.cancelled <=> (task[u].cancelled \/ u = active)
  <1>1. task \in [Tasks -> TaskRows \cup {None}] /\ (active # None => active \in Under /\ active \in Tasks)
    BY DEF TypeOK, Under
  <1>2. \A u \in Under : u \in Tasks /\ task[u] \in TaskRows /\ u # None
    BY <1>1 DEF Under, Free, GuidedConstants
  <1>3. \A u \in Free : u \in Tasks /\ task[u] = None
    BY DEF Free
  <1>4. CASE active = None
    BY <1>1, <1>2, <1>3, <1>4 DEF Cancelled
  <1>5. CASE active # None
    <2>1. Cancelled(task, active) = [task EXCEPT ![active] = [task[active] EXCEPT !.cancelled = TRUE]]
      BY <1>5 DEF Cancelled
    <2>2. [task[active] EXCEPT !.cancelled = TRUE] \in TaskRows
      BY <1>1, <1>2, <1>5 DEF TaskRows
    <2>3. Cancelled(task, active) \in [Tasks -> TaskRows \cup {None}]
      BY <1>1, <1>5, <2>1, <2>2
    <2>4. ASSUME NEW u \in Free PROVE Cancelled(task, active)[u] = None
      <3>1. u # active
        BY <1>1, <1>5 DEF Under
      <3> QED
        BY <1>1, <1>3, <2>1, <3>1
    <2>5. ASSUME NEW u \in Under
          PROVE  LET r == Cancelled(task, active)[u]
                 IN  /\ r \in TaskRows /\ r.step = task[u].step /\ r.draft = task[u].draft
                     /\ r.current = task[u].current /\ r.turn = task[u].turn
                     /\ r.cancelled <=> (task[u].cancelled \/ u = active)
      <3>1. CASE u = active
        BY <1>1, <1>2, <1>5, <2>1, <2>2, <3>1 DEF TaskRows
      <3>2. CASE u # active
        BY <1>1, <1>2, <1>5, <2>1, <3>2
      <3> QED
        BY <3>1, <3>2
    <2> QED
      BY <2>3, <2>4, <2>5
  <1> QED
    BY <1>4, <1>5

-----------------------------------------------------------------------------
(* The user acts.                                                          *)

\* When the user acts nobody waits for the journal, and no capture is opened.
LEMMA AtRest ==
    ASSUME GuidedConstants, IInv, \A u \in Under : task[u].step \notin Local /\ ~task[u].cancelled
    PROVE  /\ Waiting = {}
           /\ \A u \in Now : \/ task[u].step \in {"open", "upload", "send", "accept"} /\ state = "submitting"
                                /\ active = u /\ ~armed
                             \/ task[u].step \in {"check", "reconstruct"} /\ Accepted
           /\ \A u \in Under : task[u].step # "create"
  <1>1. ASSUME NEW u \in Under
        PROVE  /\ u \notin Waiting /\ ~task[u].cancelled
               /\ task[u].step \in {"open", "upload", "send", "accept", "check", "reconstruct"}
    <2>1. task[u].step \in Steps /\ task[u].step \notin Local
      BY DEF IInv, TypeOK, TaskRows, Under, Free
    <2>2. task[u].step \in {"open", "upload", "send", "accept", "check", "reconstruct"}
      BY <2>1 DEF Steps, Local
    <2> QED
      BY <2>2 DEF IInv, TasksInv, TaskInv, Waiting, Callers, Writers
  <1>2. Waiting = {}
    BY <1>1 DEF Waiting
  <1>3. ASSUME NEW u \in Now, task[u].step \in {"open", "upload", "send", "accept"}
        PROVE  state = "submitting" /\ active = u /\ ~armed
    BY <1>1, <1>3 DEF Now, IInv, NowInv, SubmissionInv, Submission
  <1>4. ASSUME NEW u \in Now, task[u].step \in {"check", "reconstruct"} PROVE Accepted
    BY <1>4 DEF IInv, NowInv
  <1>5. \A u \in Now : task[u].step \in {"open", "upload", "send", "accept", "check", "reconstruct"}
    BY <1>1 DEF Now
  <1>6. \A u \in Under : task[u].step # "create"
    BY <1>1
  <1> QED
    BY <1>2, <1>3, <1>4, <1>5, <1>6

LEMMA Begins ==
    ASSUME GuidedConstants, IInv, TypeOK', NEW t, Beside(t), PlacesInv', ~task'[t].cancelled,
           Waiting = {}, Now = {}, \A u \in Under : task[u].step # "create",
           UNCHANGED <<journal, runOf, server>>,
           draft' = None <=> draft = None,
           draft' # None =>
              /\ Sound(draft', runOf, server.envelope) /\ draft'.acceptance = None
              /\ KeyframesOf(draft') = KeyframesOf(draft)
              /\ armed' => Live(draft', runOf, runs'),
           \/ /\ task'[t].step = "ask" /\ task'[t].turn = 0 /\ task'[t].draft = None
              /\ state' = "blocked" /\ ~armed'
              /\ IF draft = None THEN journal = None ELSE KeyframesOf(draft) = {}
           \/ /\ task'[t].step \in {"save", "move", "prepare"} /\ task'[t].turn > 0
              /\ draft' # None /\ task'[t].draft = draft' /\ state' # "blocked"
              /\ state' \in {"review", "submitting"} => ~armed'
              /\ task'[t].step = "move" => state' \notin {"ready", "capturing"} /\ InSegment(draft') = {}
              /\ task'[t].step = "prepare" => ~armed' /\ ~running' /\ state' = "review" /\ active' = t
    PROVE  IInv'
  <1> USE DEF GuidedConstants
  <1>1. /\ Under' = Under \cup {t} /\ Now' = {t} /\ t \notin Under
        /\ \A u \in Under : Kf(u)' = Kf(u) /\ u # t
        /\ Waiting' \subseteq {t} /\ (task'[t].turn > 0 => Waiting' = {t})
    BY NewTask DEF IInv
  <1>2. ASSUME NEW u \in Under
        PROVE  /\ u \in Under' /\ u # t
               /\ task'[u].step = task[u].step /\ task'[u].draft = task[u].draft
               /\ task'[u].current = task[u].current /\ task'[u].turn = task[u].turn
    BY <1>1 DEF Beside, Joins
  <1>3. t \in Under' /\ task'[t].current /\ Alone(t)'
    <2>1. \A u \in Under : ~task[u].current
      BY DEF Now
    <2> QED
      BY <1>1, <1>2, <2>1 DEF Beside, Joins, Alone
  <1>4. task'[t].draft # None => Kf(t)' = KeyframesOf(draft') /\ Kf(t)' = KeyframesOf(draft)
    BY DEF Kf
  <1>5. DraftsInv'
    <2>1. \A u \in Under : task'[u].draft # None => Sound(task'[u].draft, runOf, server.envelope)
      BY <1>2 DEF IInv, DraftsInv
    <2> QED
      BY <1>1, <2>1 DEF IInv, DraftsInv
  <1>6. TasksInv'
    <2>1. TaskInv(t)'
      BY DEF TaskInv, Callers, Writers, Shooting, Submission
    <2>2. ASSUME NEW u \in Under PROVE TaskInv(u)'
      <3>1. TaskInv(u)
        BY DEF IInv, TasksInv
      <3> QED
        BY <1>1, <1>2, <3>1 DEF TaskInv
    <2> QED
      BY <1>1, <2>1, <2>2 DEF TasksInv
  <1>7. QueueInv' /\ LoadsInv'
    BY <1>1, <1>3 DEF QueueInv, LoadsInv
  <1>8. NowInv'
    <2>1. CASE task'[t].step = "ask"
      <3>1. OpeningInv(t)'
        BY <1>3, <2>1 DEF OpeningInv, Opening
      <3>2. ShootingInv(t)' /\ MoveInv(t)' /\ SubmissionInv(t)'
        BY <2>1 DEF ShootingInv, MoveInv, SubmissionInv, Shooting, Submission
      <3> QED
        BY <1>1, <2>1, <3>1, <3>2 DEF NowInv
    <2>2. CASE task'[t].step = "save"
      BY <1>1, <2>2 DEF NowInv, OpeningInv, ShootingInv, MoveInv, SubmissionInv, Opening, Shooting, Submission
    <2>3. CASE task'[t].step = "move"
      <3>1. MoveInv(t)'
        BY <1>3, <2>3 DEF MoveInv
      <3>2. OpeningInv(t)' /\ ShootingInv(t)' /\ SubmissionInv(t)'
        BY <2>3 DEF OpeningInv, ShootingInv, SubmissionInv, Opening, Shooting, Submission
      <3> QED
        BY <1>1, <2>3, <3>1, <3>2 DEF NowInv
    <2>4. CASE task'[t].step = "prepare"
      <3>1. SubmissionInv(t)'
        BY <1>3, <1>4, <2>4 DEF SubmissionInv
      <3>2. OpeningInv(t)' /\ ShootingInv(t)' /\ MoveInv(t)'
        BY <2>4 DEF OpeningInv, ShootingInv, MoveInv, Opening, Shooting
      <3> QED
        BY <1>1, <2>4, <3>1, <3>2 DEF NowInv
    <2> QED
      BY <2>1, <2>2, <2>3, <2>4
  <1>9. AcceptedInv'
    BY DEF AcceptedInv, Accepted
  <1>10. ScreenInv'
    BY <1>1 DEF ScreenInv, Opening
  <1>11. ProtectedInv'
    BY <1>1, <1>4 DEF IInv, ProtectedInv, Writers
  <1>12. SentInv'
    <2>1. ASSUME NEW k, IsSent(k)' PROVE IsSent(k) \/ (k \in KeyframesOf(draft) /\ draft # None)
      <3>1. CASE server'.envelope # None /\ k \in DOMAIN server'.envelope.samples
        BY <3>1 DEF IsSent
      <3>2. CASE \E u \in Under : task'[u].step \in Submission /\ k \in Kf(u)'
        BY <1>1, <1>2, <3>2 DEF IsSent
      <3>3. CASE task'[t].step \in Submission /\ k \in Kf(t)'
        BY <1>4, <3>3 DEF Submission, Beside, Joins, TaskRows
      <3> QED
        BY <1>1, <2>1, <3>1, <3>2, <3>3 DEF IsSent
    <2>2. ASSUME NEW k, IsSent(k)'
          PROVE  /\ k \in KeyframesOf(journal')
                 /\ draft' # None => k \in KeyframesOf(draft')
                 /\ \A u \in Waiting' : task'[u].step \in Writers => k \in Kf(u)'
      <3>1. k \in KeyframesOf(journal) /\ (draft # None => k \in KeyframesOf(draft))
        BY <2>1, <2>2 DEF IInv, SentInv, ProtectedInv
      <3> QED
        BY <1>1, <1>4, <3>1 DEF Writers
    <2>3. server'.envelope # None \/ (\E u \in Under' : task'[u].step \in Submission) => journal' # None
      BY <1>1, <1>2 DEF IInv, SentInv, ProtectedInv, Submission
    <2> QED
      BY <2>2, <2>3 DEF SentInv
  <1> QED
    BY <1>5, <1>6, <1>7, <1>8, <1>9, <1>10, <1>11, <1>12 DEF IInv

\* An accepted capture is only asked about.
LEMMA AsksTheServer ==
    ASSUME GuidedConstants, IInv, TypeOK', NEW t, Beside(t), PlacesInv', Accepted,
           Waiting = {}, \A u \in Under : task[u].step # "create",
           \A u \in Now : task[u].step \in {"check", "reconstruct"},
           UNCHANGED <<draft, journal, camera, runOf, server>>,
           task'[t].step \in {"check", "reconstruct"}, task'[t].draft = None, task'[t].turn = 0,
           state' \notin {"ready", "capturing", "review", "submitting", "blocked"}
    PROVE  IInv'
  <1> USE DEF GuidedConstants
  <1>1. /\ Under' = Under \cup {t} /\ Now' = Now \cup {t} /\ t \notin Under
        /\ \A u \in Under : Kf(u)' = Kf(u) /\ u # t
        /\ Waiting' = {}
    BY NewTask DEF IInv
  <1>2. ASSUME NEW u \in Under
        PROVE  /\ u \in Under' /\ u # t
               /\ task'[u].step = task[u].step /\ task'[u].draft = task[u].draft
               /\ task'[u].current = task[u].current /\ task'[u].turn = task[u].turn
    BY <1>1 DEF Beside, Joins
  <1>3. \A u \in Now' : task'[u].step \in {"check", "reconstruct"}
    BY <1>1, <1>2 DEF Now
  <1>4. DraftsInv'
    <2>1. \A u \in Under : task'[u].draft # None => Sound(task'[u].draft, runOf, server.envelope)
      BY <1>2 DEF IInv, DraftsInv
    <2> QED
      BY <1>1, <2>1 DEF IInv, DraftsInv
  <1>5. TasksInv'
    <2>1. TaskInv(t)'
      BY DEF TaskInv, Callers, Writers, Shooting, Submission
    <2>2. ASSUME NEW u \in Under PROVE TaskInv(u)'
      <3>1. TaskInv(u)
        BY DEF IInv, TasksInv
      <3> QED
        BY <1>1, <1>2, <3>1 DEF TaskInv
    <2> QED
      BY <1>1, <2>1, <2>2 DEF TasksInv
  <1>6. QueueInv' /\ LoadsInv'
    BY <1>1, <1>3 DEF QueueInv, LoadsInv
  <1>7. NowInv'
    <2>1. Accepted'
      BY DEF Accepted
    <2> QED
      BY <1>3, <2>1 DEF NowInv, OpeningInv, ShootingInv, MoveInv, SubmissionInv, Opening, Shooting, Submission
  <1>8. AcceptedInv'
    BY <1>1, <1>3 DEF IInv, AcceptedInv
  <1>9. ScreenInv'
    <2>1. armed' = armed /\ runs' = runs
      BY DEF camera
    <2> QED
      BY <2>1 DEF IInv, ScreenInv
  <1>10. ProtectedInv'
    BY <1>1 DEF IInv, ProtectedInv
  <1>11. SentInv'
    <2>1. \A k : IsSent(k)' => IsSent(k)
      BY <1>1, <1>2 DEF IsSent, Submission
    <2>2. server'.envelope # None \/ (\E u \in Under' : task'[u].step \in Submission) =>
             server.envelope # None \/ (\E u \in Under : task[u].step \in Submission)
      BY <1>1, <1>2 DEF Submission
    <2> QED
      BY <1>1, <2>1, <2>2 DEF IInv, SentInv
  <1> QED
    BY <1>4, <1>5, <1>6, <1>7, <1>8, <1>9, <1>10, <1>11 DEF IInv

-----------------------------------------------------------------------------
(* What happens to the screen.                                             *)

\* While frames are taken nothing is opened, moved, submitted or accepted.
LEMMA AtWork ==
    ASSUME GuidedConstants, IInv, draft # None, state \in {"ready", "capturing"}
    PROVE  /\ ~Accepted
           /\ \A u \in Now : task[u].step \in Shooting \cup {"save", "resume"}
           /\ \A u \in Waiting : task[u].current /\ u \in Now
  <1>1. \A u \in Under : task[u].step \in Steps
    BY DEF IInv, TypeOK, TaskRows, Under, Free
  <1>2. ~Accepted
    BY DEF IInv, AcceptedInv
  <1>3. ASSUME NEW u \in Now PROVE task[u].step \in Shooting \cup {"save", "resume"}
    <2>1. u \in Under /\ task[u].step \in Steps
      BY <1>1 DEF Now
    <2>2. task[u].step # "load"
      BY DEF IInv, LoadsInv
    <2>3. task[u].step # "create"
      BY <2>1 DEF IInv, TasksInv, TaskInv
    <2>4. task[u].step # "ask"
      BY DEF IInv, NowInv, OpeningInv
    <2>5. task[u].step # "move"
      BY DEF IInv, NowInv, MoveInv
    <2>6. task[u].step \notin Submission
      BY DEF IInv, NowInv, SubmissionInv
    <2>7. task[u].step \notin {"check", "reconstruct"}
      BY <1>2 DEF IInv, NowInv
    <2> QED
      BY <2>1, <2>2, <2>3, <2>4, <2>5, <2>6, <2>7 DEF Steps, Shooting, Submission
  <1>4. ASSUME NEW u \in Waiting PROVE task[u].current /\ u \in Now
    <2>1. task[u].current
      <3>1. ASSUME NEW v \in Waiting, task[v].step = "load", task[v].current PROVE FALSE
        <4>1. v \in Now
          BY <3>1 DEF Waiting, Now
        <4> QED
          BY <1>3, <3>1, <4>1 DEF Shooting
      <3> QED
        BY <3>1 DEF IInv, LoadsInv
    <2> QED
      BY <2>1 DEF Waiting, Now
  <1> QED
    BY <1>2, <1>3, <1>4

LEMMA Interrupts ==
    ASSUME GuidedConstants, IInv, TypeOK', NEW t, Beside(t), PlacesInv',
           \A u \in Under : task'[u].cancelled <=> (task[u].cancelled \/ u = active),
           draft # None, state \in {"ready", "capturing"}, state' \in {"interrupted", "failed"}, ~armed',
           UNCHANGED <<draft, journal, runOf, runs, server>>,
           task'[t].step = "save", task'[t].draft = draft, task'[t].turn > 0, ~task'[t].cancelled
    PROVE  IInv'
  <1> USE DEF GuidedConstants
  <1>1. /\ Under' = Under \cup {t} /\ Now' = Now \cup {t} /\ t \notin Under
        /\ \A u \in Under : Kf(u)' = Kf(u) /\ u # t
        /\ Waiting' = Waiting \cup {t}
    BY NewTask DEF IInv
  <1>2. ASSUME NEW u \in Under
        PROVE  /\ u \in Under' /\ u # t
               /\ task'[u].step = task[u].step /\ task'[u].draft = task[u].draft
               /\ task'[u].current = task[u].current /\ task'[u].turn = task[u].turn
               /\ task[u].cancelled => task'[u].cancelled
    BY <1>1 DEF Beside, Joins
  <1>3. /\ ~Accepted
        /\ \A u \in Now : task[u].step \in Shooting \cup {"save", "resume"}
        /\ \A u \in Waiting : task[u].current /\ u \in Now
    BY AtWork
  <1>4. \A u \in Now : u \in Under /\ task'[u].step \in Shooting \cup {"save", "resume"}
    BY <1>2, <1>3 DEF Now
  <1>5. ASSUME NEW u \in Now, task[u].step \in Shooting
        PROVE  task'[u].cancelled
    <2>1. ~task[u].cancelled => active = u
      BY <1>5 DEF IInv, NowInv, ShootingInv
    <2> QED
      BY <1>4, <2>1
  <1>6. DraftsInv'
    <2>1. \A u \in Under : task'[u].draft # None => Sound(task'[u].draft, runOf, server.envelope)
      BY <1>2 DEF IInv, DraftsInv
    <2> QED
      BY <1>1, <2>1 DEF IInv, DraftsInv
  <1>7. TasksInv'
    <2>1. TaskInv(t)'
      BY DEF TaskInv, Callers, Writers, Shooting, Submission
    <2>2. ASSUME NEW u \in Under PROVE TaskInv(u)'
      <3>1. TaskInv(u)
        BY DEF IInv, TasksInv
      <3> QED
        BY <1>1, <1>2, <3>1 DEF TaskInv
    <2> QED
      BY <1>1, <2>1, <2>2 DEF TasksInv
  <1>8. QueueInv'
    <2>1. \A u \in Waiting' : task'[u].step \notin Submission \cup {"move", "create"}
      BY <1>1, <1>3, <1>4 DEF Submission, Shooting
    <2>2. \A u \in Waiting' : task'[u].step = "retain" => ~Fine(u)'
      BY <1>1, <1>2, <1>3, <1>4, <1>5 DEF Fine, Shooting
    <2> QED
      BY <2>1, <2>2 DEF QueueInv
  <1>9. LoadsInv'
    <2>1. \A u \in Waiting' : task'[u].current
      BY <1>1, <1>2, <1>3, <1>4 DEF Beside
    <2>2. \A u \in Now' : task'[u].step # "load"
      BY <1>1, <1>4 DEF Shooting
    <2> QED
      BY <2>1, <2>2 DEF LoadsInv
  <1>10. NowInv'
    <2> SUFFICES ASSUME NEW u \in Now'
                 PROVE  /\ OpeningInv(u)' /\ ShootingInv(u)' /\ MoveInv(u)' /\ SubmissionInv(u)'
                        /\ task'[u].step \notin {"check", "reconstruct"}
      BY DEF NowInv
    <2>1. u = t \/ (u \in Now /\ u \in Under /\ u # t)
      BY <1>1, <1>4
    <2>2. task'[u].step \in Shooting \cup {"save", "resume"}
      BY <1>4, <2>1
    <2>3. MoveInv(u)' /\ SubmissionInv(u)' /\ task'[u].step \notin {"check", "reconstruct", "create", "ask"}
      BY <2>2 DEF MoveInv, SubmissionInv, Shooting, Submission
    <2>4. OpeningInv(u)'
      <3> SUFFICES ASSUME task'[u].step = "resume" PROVE OpeningInv(u)'
        BY <2>2, <2>3 DEF OpeningInv, Opening, Shooting
      <3>1. u \in Now /\ u \in Under /\ task[u].step = "resume"
        BY <1>2, <2>1
      <3>2. /\ draft # None /\ KeyframesOf(draft) = {}
            /\ \A v \in Under \ {u} : task[v].current => task[v].step = "save" /\ Kf(v) = {}
        BY <3>1 DEF IInv, NowInv, OpeningInv
      <3>3. Kf(t)' = {}
        BY <3>2 DEF Kf
      <3>4. \A v \in Under' \ {u} : task'[v].current => task'[v].step = "save" /\ Kf(v)' = {}
        BY <1>1, <1>2, <3>2, <3>3
      <3> QED
        BY <3>2, <3>4 DEF OpeningInv
    <2>5. ShootingInv(u)'
      <3> SUFFICES ASSUME task'[u].step \in Shooting PROVE ShootingInv(u)'
        BY DEF ShootingInv
      <3>1. u \in Now /\ u \in Under /\ task[u].step \in Shooting
        BY <1>2, <2>1 DEF Shooting
      <3>2. \A v \in Under \ {u} : task[v].current => task[v].step \in Shooting \cup {"save"}
        BY <3>1 DEF IInv, NowInv, ShootingInv
      <3>3. \A v \in Under' \ {u} : task'[v].current => task'[v].step \in Shooting \cup {"save"}
        BY <1>1, <1>2, <3>2
      <3>4. task'[u].cancelled
        BY <1>5, <3>1
      <3> QED
        BY <3>3, <3>4 DEF ShootingInv
    <2> QED
      BY <2>3, <2>4, <2>5
  <1>11. AcceptedInv'
    BY <1>3 DEF AcceptedInv, Accepted
  <1>12. ScreenInv'
    BY DEF ScreenInv
  <1>13. ProtectedInv'
    <2>1. \A u \in Waiting : task'[u].step \in Writers => KeyframesOf(draft) \subseteq Kf(u)'
      BY <1>1, <1>2, <1>3, <1>4 DEF IInv, ProtectedInv
    <2>2. KeyframesOf(draft) \subseteq Kf(t)'
      BY DEF Kf
    <2> QED
      BY <1>1, <2>1, <2>2 DEF IInv, ProtectedInv
  <1>14. SentInv'
    <2>1. \A k : IsSent(k)' => IsSent(k)
      BY <1>1, <1>2 DEF IsSent, Submission
    <2>2. journal # None
      BY DEF IInv, ProtectedInv
    <2>3. ASSUME NEW k, IsSent(k)'
          PROVE  /\ k \in KeyframesOf(journal) /\ k \in KeyframesOf(draft)
                 /\ \A u \in Waiting' : task'[u].step \in Writers => k \in Kf(u)'
      <3>1. IsSent(k)
        BY <2>1, <2>3
      <3>2. k \in KeyframesOf(journal) /\ k \in KeyframesOf(draft)
        BY <3>1 DEF IInv, SentInv
      <3>3. \A u \in Waiting : task'[u].step \in Writers => k \in Kf(u)'
        BY <1>1, <1>2, <1>3, <1>4, <3>1 DEF IInv, SentInv
      <3>4. k \in Kf(t)'
        BY <3>2 DEF Kf
      <3> QED
        BY <1>1, <3>2, <3>3, <3>4
    <2> QED
      BY <2>2, <2>3 DEF SentInv
  <1> QED
    BY <1>6, <1>7, <1>8, <1>9, <1>10, <1>11, <1>12, <1>13, <1>14 DEF IInv

\* captureKeyframe
LEMMA StartsToTake ==
    ASSUME GuidedConstants, IInv, TypeOK', NEW t, Beside(t), PlacesInv',
           \A u \in Under : task'[u] = task[u], active' = t,
           draft # None, state = "ready", armed, state' = "capturing",
           UNCHANGED <<draft, journal, camera, runOf, server>>,
           task'[t].step = "shoot", task'[t].draft = draft, task'[t].turn = 0, ~task'[t].cancelled
    PROVE  IInv'
  <1> USE DEF GuidedConstants
  <1>1. /\ Under' = Under \cup {t} /\ Now' = Now \cup {t} /\ t \notin Under
        /\ \A u \in Under : Kf(u)' = Kf(u) /\ u # t
        /\ Waiting' = Waiting
    BY NewTask DEF IInv
  <1>2. /\ ~Accepted
        /\ \A u \in Now : task[u].step \in Shooting \cup {"save", "resume"}
        /\ \A u \in Waiting : task[u].current /\ u \in Now
    BY AtWork
  <1>3. ASSUME NEW u \in Now PROVE u \in Under /\ task'[u].step = "save" /\ task[u].step = "save"
    <2>1. task[u].step # "resume"
      BY DEF IInv, NowInv, OpeningInv, Opening
    <2>2. task[u].step \notin Shooting
      <3>1. ASSUME task[u].step \in Shooting PROVE FALSE
        <4>1. armed => ~task[u].cancelled
          BY <3>1 DEF IInv, NowInv, ShootingInv
        <4> QED
          BY <3>1, <4>1 DEF IInv, NowInv, ShootingInv
      <3> QED
        BY <3>1
    <2> QED
      BY <1>2, <2>1, <2>2 DEF Now
  <1>4. armed' = armed /\ runs' = runs
    BY DEF camera
  <1>5. DraftsInv'
    <2>1. \A u \in Under : task'[u].draft # None => Sound(task'[u].draft, runOf, server.envelope)
      BY DEF IInv, DraftsInv
    <2> QED
      BY <1>1, <2>1 DEF IInv, DraftsInv
  <1>6. TasksInv'
    <2>1. TaskInv(t)'
      BY <1>2 DEF TaskInv, Callers, Writers, Shooting, Submission, Accepted
    <2>2. ASSUME NEW u \in Under PROVE TaskInv(u)'
      <3>1. TaskInv(u)
        BY DEF IInv, TasksInv
      <3> QED
        BY <1>1, <3>1 DEF TaskInv
    <2> QED
      BY <1>1, <2>1, <2>2 DEF TasksInv
  <1>7. QueueInv' /\ LoadsInv'
    <2>1. \A u \in Waiting' : task'[u].step = "save" /\ task'[u].current
      BY <1>1, <1>2, <1>3
    <2>2. \A u \in Now' : task'[u].step # "load"
      BY <1>1, <1>3
    <2> QED
      BY <2>1, <2>2 DEF QueueInv, LoadsInv, Submission
  <1>8. NowInv'
    <2>1. \A u \in Under' \ {t} : task'[u].current => task'[u].step = "save"
      BY <1>1, <1>3 DEF Now
    <2>2. ShootingInv(t)'
      BY <1>4, <2>1 DEF ShootingInv
    <2>3. OpeningInv(t)' /\ MoveInv(t)' /\ SubmissionInv(t)'
      BY DEF OpeningInv, MoveInv, SubmissionInv, Opening, Submission
    <2>4. \A u \in Now : OpeningInv(u)' /\ ShootingInv(u)' /\ MoveInv(u)' /\ SubmissionInv(u)'
      BY <1>3 DEF OpeningInv, ShootingInv, MoveInv, SubmissionInv, Opening, Shooting, Submission
    <2> QED
      BY <1>1, <1>3, <2>2, <2>3, <2>4 DEF NowInv
  <1>9. AcceptedInv'
    BY <1>2 DEF AcceptedInv, Accepted
  <1>10. ScreenInv'
    BY <1>4 DEF IInv, ScreenInv
  <1>11. ProtectedInv'
    BY <1>1, <1>2, <1>3 DEF IInv, ProtectedInv
  <1>12. SentInv'
    <2>1. \A k : IsSent(k)' => IsSent(k)
      BY <1>1 DEF IsSent, Submission
    <2>2. journal # None
      BY DEF IInv, ProtectedInv
    <2>3. \A u \in Waiting : task'[u] = task[u] /\ Kf(u)' = Kf(u)
      BY <1>1, <1>2, <1>3
    <2> QED
      BY <1>1, <2>1, <2>2, <2>3 DEF IInv, SentInv
  <1> QED
    BY <1>5, <1>6, <1>7, <1>8, <1>9, <1>10, <1>11, <1>12 DEF IInv

\* ARKit tells of an interruption or a failure while nothing is opened or sent.
LEMMA ShowsTrouble ==
    ASSUME GuidedConstants, IInv, TypeOK', running, state' \in {"interrupted", "failed"},
           UNCHANGED <<draft, journal, camera, runOf, task, active, server>>
    PROVE  IInv'
  <1>1. UNCHANGED <<armed, running, runs>>
    BY DEF camera
  <1>2. /\ Under' = Under /\ Now' = Now /\ Waiting' = Waiting
        /\ \A u : Kf(u)' = Kf(u) /\ Fine(u)' = Fine(u) /\ Alone(u)' = Alone(u)
    BY DEF Under, Now, Waiting, Free, Kf, Fine, Alone
  <1>3. DraftsInv' /\ TasksInv' /\ PlacesInv' /\ ProtectedInv'
    BY <1>2 DEF IInv, DraftsInv, TasksInv, TaskInv, PlacesInv, ProtectedInv
  <1>4. SentInv'
    <2>1. \A k : IsSent(k)' => IsSent(k)
      BY <1>2 DEF IsSent
    <2> QED
      BY <1>2, <2>1 DEF IInv, SentInv
  <1>5. QueueInv'
    BY <1>2 DEF IInv, QueueInv
  <1>6. LoadsInv'
    BY <1>1, <1>2 DEF IInv, LoadsInv
  <1>7. NowInv'
    <2> SUFFICES ASSUME NEW u \in Now
                 PROVE  /\ OpeningInv(u)' /\ ShootingInv(u)' /\ MoveInv(u)' /\ SubmissionInv(u)'
                        /\ task[u].step = "save" => draft # None
                        /\ task[u].step \in {"check", "reconstruct"} => Accepted'
      BY <1>2 DEF NowInv
    <2>1. /\ OpeningInv(u) /\ ShootingInv(u) /\ MoveInv(u) /\ SubmissionInv(u)
          /\ task[u].step = "save" => draft # None
          /\ task[u].step \in {"check", "reconstruct"} => Accepted
      BY DEF IInv, NowInv
    <2>2. OpeningInv(u)'
      BY <1>1, <1>2, <2>1 DEF OpeningInv
    <2>3. ShootingInv(u)'
      BY <1>1, <1>2, <2>1 DEF ShootingInv
    <2>4. MoveInv(u)'
      BY <1>1, <1>2, <2>1 DEF MoveInv
    <2>5. SubmissionInv(u)'
      BY <1>1, <1>2, <2>1 DEF SubmissionInv
    <2> QED
      BY <2>1, <2>2, <2>3, <2>4, <2>5 DEF Accepted
  <1>8. AcceptedInv'
    BY <1>2 DEF IInv, AcceptedInv, Accepted
  <1>9. ScreenInv'
    BY <1>1, <1>2 DEF IInv, ScreenInv
  <1> QED
    BY <1>3, <1>4, <1>5, <1>6, <1>7, <1>8, <1>9 DEF IInv

\* The user is ready for frames.
LEMMA Arms ==
    ASSUME GuidedConstants, IInv, TypeOK', \A u \in Under : task[u].step \notin Local /\ ~task[u].cancelled,
           state = "ready", draft # None, InSegment(draft) = {}, armed',
           UNCHANGED <<draft, journal, state, running, runs, runOf, task, active, server>>
    PROVE  IInv'
  <1>1. /\ Under' = Under /\ Now' = Now /\ Waiting' = Waiting
        /\ \A u : Kf(u)' = Kf(u)
    BY DEF Under, Now, Waiting, Free, Kf
  <1>2. Waiting = {} /\ Now = {}
    <2>1. ~Accepted
      BY DEF IInv, AcceptedInv
    <2> QED
      BY <2>1, AtRest
  <1>3. DraftsInv' /\ TasksInv' /\ PlacesInv' /\ ProtectedInv'
    BY <1>1 DEF IInv, DraftsInv, TasksInv, TaskInv, PlacesInv, ProtectedInv
  <1>4. SentInv'
    <2>1. \A k : IsSent(k)' => IsSent(k)
      BY <1>1 DEF IsSent
    <2> QED
      BY <1>1, <2>1 DEF IInv, SentInv
  <1>5. QueueInv' /\ LoadsInv' /\ NowInv'
    BY <1>1, <1>2 DEF QueueInv, LoadsInv, NowInv
  <1>6. AcceptedInv'
    BY <1>1 DEF IInv, AcceptedInv, Accepted
  <1>7. ScreenInv'
    BY DEF ScreenInv, Live
  <1> QED
    BY <1>3, <1>4, <1>5, <1>6, <1>7 DEF IInv

\* The user takes the submission back.
LEMMA GivesUp ==
    ASSUME GuidedConstants, IInv, TypeOK', \A u \in Under : task[u].step \notin Local /\ ~task[u].cancelled,
           state = "submitting", task' = Cancelled(task, active), state' = "review",
           UNCHANGED <<draft, journal, camera, runOf, active, server>>
    PROVE  IInv'
  <1> USE DEF GuidedConstants
  <1>1. UNCHANGED <<armed, running, runs>> /\ ~armed
    BY DEF camera, IInv, ScreenInv
  <1>2. /\ \A u \in Free : task'[u] = None
        /\ \A u \in Under : /\ task'[u] \in TaskRows
                            /\ task'[u].step = task[u].step /\ task'[u].draft = task[u].draft
                            /\ task'[u].current = task[u].current /\ task'[u].turn = task[u].turn
                            /\ task'[u].cancelled <=> (task[u].cancelled \/ u = active)
    BY CancelledRows DEF IInv
  <1>3. Under' = Under
    BY <1>2 DEF Under, Free
  <1>4. Now' = Now /\ Waiting' = Waiting
    BY <1>2, <1>3 DEF Now, Waiting
  <1>5. \A u \in Under : Kf(u)' = Kf(u) /\ (Alone(u) => Alone(u)')
    BY <1>2, <1>3 DEF Kf, Alone
  <1>6. /\ Waiting = {} /\ \A u \in Under : task[u].step # "create"
        /\ \A u \in Now : \/ task[u].step \in {"open", "upload", "send", "accept"} /\ active = u
                          \/ task[u].step \in {"check", "reconstruct"} /\ Accepted
    BY AtRest
  <1>7. DraftsInv' /\ PlacesInv' /\ QueueInv'
    BY <1>2, <1>3, <1>4, <1>6 DEF IInv, DraftsInv, PlacesInv, QueueInv
  <1>8. TasksInv'
    <2> SUFFICES ASSUME NEW u \in Under PROVE TaskInv(u)'
      BY <1>3 DEF TasksInv
    <2>1. TaskInv(u)
      BY DEF IInv, TasksInv
    <2> QED
      BY <1>2, <1>5, <2>1 DEF TaskInv
  <1>9. LoadsInv'
    BY <1>2, <1>4, <1>6 DEF LoadsInv, Now
  <1>10. NowInv'
    <2> SUFFICES ASSUME NEW u \in Now
                 PROVE  /\ OpeningInv(u)' /\ ShootingInv(u)' /\ MoveInv(u)' /\ SubmissionInv(u)'
                        /\ task'[u].step # "save"
                        /\ task'[u].step \in {"check", "reconstruct"} => Accepted'
      BY <1>4 DEF NowInv
    <2>1. u \in Under /\ task'[u].step = task[u].step
      BY <1>2 DEF Now
    <2>2. CASE task[u].step \in {"check", "reconstruct"} /\ Accepted
      BY <2>1, <2>2 DEF OpeningInv, ShootingInv, MoveInv, SubmissionInv, Opening, Shooting, Submission, Accepted
    <2>3. CASE task[u].step \in {"open", "upload", "send", "accept"} /\ active = u
      <3>1. Alone(u) /\ ~armed /\ ~running
        BY <2>3 DEF IInv, NowInv, SubmissionInv, Submission
      <3>2. task'[u].cancelled
        BY <1>2, <2>1, <2>3
      <3>3. SubmissionInv(u)'
        BY <1>1, <1>5, <2>1, <2>3, <3>1, <3>2 DEF SubmissionInv
      <3>4. OpeningInv(u)' /\ ShootingInv(u)' /\ MoveInv(u)'
        BY <2>1, <2>3 DEF OpeningInv, ShootingInv, MoveInv, Opening, Shooting
      <3> QED
        BY <2>1, <2>3, <3>3, <3>4
    <2> QED
      BY <1>6, <2>2, <2>3
  <1>11. AcceptedInv'
    <2> SUFFICES ASSUME Accepted PROVE AcceptedInv'
      BY DEF AcceptedInv, Accepted
    <2>1. journal = draft /\ \A u \in Now : task[u].step \in {"load", "check", "reconstruct"}
      BY DEF IInv, AcceptedInv
    <2>2. \A u \in Now' : task'[u].step \in {"load", "check", "reconstruct"}
      BY <1>2, <1>4, <2>1 DEF Now
    <2> QED
      BY <1>4, <1>6, <2>1, <2>2 DEF AcceptedInv
  <1>12. ScreenInv'
    BY <1>1 DEF ScreenInv
  <1>13. ProtectedInv'
    BY <1>4, <1>6 DEF IInv, ProtectedInv
  <1>14. SentInv'
    <2>1. \A k : IsSent(k)' => IsSent(k)
      BY <1>2, <1>3, <1>5 DEF IsSent
    <2>2. server'.envelope # None \/ (\E u \in Under' : task'[u].step \in Submission) =>
             server.envelope # None \/ (\E u \in Under : task[u].step \in Submission)
      BY <1>2, <1>3
    <2> QED
      BY <1>4, <1>6, <2>1, <2>2 DEF IInv, SentInv
  <1> QED
    BY <1>7, <1>8, <1>9, <1>10, <1>11, <1>12, <1>13, <1>14 DEF IInv

\* The user leaves the screen and comes back.
LEMMA Reopens ==
    ASSUME GuidedConstants, IInv, TypeOK', NEW t, Joins(t), PlacesInv', task'[t].current,
           \A u \in Under : ~task'[u].current,
           task'[t].step = "load", task'[t].draft = None, task'[t].turn = 1 + Cardinality(Waiting),
           draft' = None, ~armed', ~running', UNCHANGED <<journal, state, runOf, server>>
    PROVE  IInv'
  <1> USE DEF GuidedConstants
  <1>1. Cardinality(Waiting) \in Nat
    BY WaitingIsFinite
  <1>2. /\ Under' = Under \cup {t} /\ t \notin Under
        /\ \A u \in Under : Kf(u)' = Kf(u) /\ u # t
        /\ Waiting' = Waiting \cup {t}
    BY <1>1, JoinedTask DEF IInv
  <1>3. ASSUME NEW u \in Under
        PROVE  /\ u \in Under' /\ u # t /\ ~task'[u].current
               /\ task'[u].step = task[u].step /\ task'[u].draft = task[u].draft
               /\ task'[u].turn = task[u].turn
    BY <1>2 DEF Joins
  <1>4. Now' = {t} /\ Waiting \subseteq Under
    BY <1>2, <1>3 DEF Now, Waiting
  <1>5. DraftsInv'
    <2>1. \A u \in Under : task'[u].draft # None => Sound(task'[u].draft, runOf, server.envelope)
      BY <1>3 DEF IInv, DraftsInv
    <2> QED
      BY <1>2, <2>1 DEF IInv, DraftsInv
  <1>6. TasksInv'
    <2>1. TaskInv(t)'
      BY <1>1 DEF TaskInv, Callers, Writers, Shooting, Submission
    <2>2. ASSUME NEW u \in Under PROVE TaskInv(u)'
      <3>1. TaskInv(u)
        BY DEF IInv, TasksInv
      <3> QED
        BY <1>2, <1>3, <3>1 DEF TaskInv
    <2> QED
      BY <1>2, <2>1, <2>2 DEF TasksInv
  <1>7. QueueInv'
    <2>1. ASSUME NEW u \in Waiting', task'[u].step \in Submission \cup {"move", "create"}, NEW v \in Waiting' \ {u}
          PROVE  task'[v].step = "load"
      <3>1. u \in Waiting /\ task[u].step \in Submission \cup {"move", "create"}
        BY <1>2, <1>3, <1>4, <2>1 DEF Submission
      <3>2. v = t \/ (v \in Waiting \ {u} /\ v \in Under)
        BY <1>2, <1>4, <2>1
      <3> QED
        BY <1>3, <3>1, <3>2 DEF IInv, QueueInv
    <2>2. \A u \in Waiting' : task'[u].step = "retain" => ~Fine(u)'
      BY <1>2, <1>3, <1>4 DEF Fine
    <2> QED
      BY <2>1, <2>2 DEF QueueInv
  <1>8. LoadsInv'
    <2>1. t \in Waiting'
      BY <1>2
    <2>2. \A u \in Under' \ {t} : ~task'[u].current
      BY <1>2, <1>3
    <2>3. ASSUME NEW u \in Under' \ {t} PROVE task'[u].turn < task'[t].turn
      <3>1. u \in Under /\ task'[u].turn = task[u].turn /\ task[u].turn \in Nat
        BY <1>2, <1>3 DEF IInv, TypeOK, TaskRows, Under, Free
      <3>2. CASE u \in Waiting
        <4>1. task[u].turn <= Cardinality(Waiting)
          BY <3>2 DEF IInv, PlacesInv
        <4> QED
          BY <1>1, <3>1, <4>1
      <3>3. CASE u \notin Waiting
        BY <1>1, <3>1, <3>3 DEF Waiting
      <3> QED
        BY <3>2, <3>3
    <2> QED
      BY <1>4, <2>1, <2>2, <2>3 DEF LoadsInv
  <1>9. NowInv'
    BY <1>4 DEF NowInv, OpeningInv, ShootingInv, MoveInv, SubmissionInv, Opening, Shooting, Submission
  <1>10. AcceptedInv' /\ ScreenInv' /\ ProtectedInv'
    BY <1>4 DEF AcceptedInv, ScreenInv, ProtectedInv, Accepted
  <1>11. SentInv'
    <2>1. \A k : IsSent(k)' => IsSent(k)
      BY <1>2, <1>3 DEF IsSent, Submission
    <2>2. server'.envelope # None \/ (\E u \in Under' : task'[u].step \in Submission) =>
             server.envelope # None \/ (\E u \in Under : task[u].step \in Submission)
      BY <1>2, <1>3 DEF Submission
    <2>3. \A u \in Waiting' : task'[u].step \in Writers => u \in Waiting /\ task[u].step \in Writers /\ Kf(u)' = Kf(u)
      BY <1>2, <1>3, <1>4 DEF Writers
    <2> QED
      BY <2>1, <2>2, <2>3 DEF IInv, SentInv
  <1> QED
    BY <1>5, <1>6, <1>7, <1>8, <1>9, <1>10, <1>11 DEF IInv

\* The only task when the app is launched.
Fresh == [t \in Tasks |-> IF t = Min(Tasks) THEN [Task("load", None) EXCEPT !.turn = 1] ELSE None]

LEMMA FreshTask ==
    ASSUME GuidedConstants
    PROVE  /\ Fresh \in [Tasks -> TaskRows \cup {None}]
           /\ \A t \in Tasks : Fresh[t] # None =>
                 t = Min(Tasks) /\ Fresh[t].step = "load" /\ Fresh[t].turn = 1
                 /\ Fresh[t].draft = None /\ Fresh[t].current
  <1> DEFINE first == [Task("load", None) EXCEPT !.turn = 1]
  <1>1. first \in TaskRows /\ first.step = "load" /\ first.turn = 1 /\ first.draft = None /\ first.current
    BY DEF Task, TaskRows, Steps
  <1>2. Fresh = [t \in Tasks |-> IF t = Min(Tasks) THEN first ELSE None]
    BY DEF Fresh
  <1> HIDE DEF first
  <1>3. Fresh \in [Tasks -> TaskRows \cup {None}]
    BY <1>1, <1>2
  <1>4. \A t \in Tasks : Fresh[t] = IF t = Min(Tasks) THEN first ELSE None
    BY <1>2
  <1> QED
    BY <1>1, <1>3, <1>4

LEMMA Relaunches ==
    ASSUME GuidedConstants, IInv, TypeOK', task' = Fresh, draft' = None, ~armed', ~running',
           state' = "checking", UNCHANGED <<journal, runOf, server>>
    PROVE  IInv'
  <1>1. \A u \in Under' : u = Min(Tasks) /\ task'[u].step = "load" /\ task'[u].turn = 1
                          /\ task'[u].draft = None /\ task'[u].current
    BY FreshTask DEF Under, Free
  <1>2. Waiting' \subseteq Under' /\ Now' \subseteq Under'
    BY DEF Waiting, Now
  <1>3. PlacesInv'
    <2>1. CASE Waiting' = {}
      BY <2>1 DEF PlacesInv
    <2>2. CASE Waiting' # {}
      <3>1. Waiting' = {Min(Tasks)}
        BY <1>1, <1>2, <2>2
      <3>2. Cardinality(Waiting') = 1
        BY <3>1, FS_Singleton
      <3> QED
        BY <1>1, <1>2, <3>1, <3>2 DEF PlacesInv
    <2> QED
      BY <2>1, <2>2
  <1>4. DraftsInv' /\ TasksInv'
    <2>1. \A u \in Under' : TaskInv(u)'
      BY <1>1 DEF TaskInv, Callers, Writers, Shooting, Submission
    <2> QED
      BY <1>1, <2>1 DEF IInv, DraftsInv, TasksInv
  <1>5. QueueInv'
    BY <1>1, <1>2 DEF QueueInv, Submission
  <1>6. LoadsInv'
    BY <1>1, <1>2 DEF LoadsInv
  <1>7. NowInv'
    BY <1>1, <1>2 DEF NowInv, OpeningInv, ShootingInv, MoveInv, SubmissionInv, Opening, Shooting, Submission
  <1>8. AcceptedInv' /\ ScreenInv' /\ ProtectedInv'
    BY DEF AcceptedInv, ScreenInv, ProtectedInv, Accepted
  <1>9. SentInv'
    <2>1. \A u \in Under' : task'[u].step \notin Submission \cup Writers
      BY <1>1 DEF Submission, Writers
    <2>2. \A k : IsSent(k)' => IsSent(k)
      BY <2>1 DEF IsSent
    <2> QED
      BY <1>2, <2>1, <2>2 DEF IInv, SentInv
  <1> QED
    BY <1>3, <1>4, <1>5, <1>6, <1>7, <1>8, <1>9 DEF IInv

LEMMA InitHolds ==
    ASSUME GuidedConstants, Init
    PROVE  IInv
  <1> USE DEF Init
  <1>1. task = Fresh
    BY DEF Fresh
  <1>2. \A u \in Under : u = Min(Tasks) /\ task[u].step = "load" /\ task[u].turn = 1
                         /\ task[u].draft = None /\ task[u].current
    BY <1>1, FreshTask DEF Under, Free
  <1>3. Waiting \subseteq Under /\ Now \subseteq Under
    BY DEF Waiting, Now
  <1>4. TypeOK
    <2>1. task \in [Tasks -> TaskRows \cup {None}]
      BY <1>1, FreshTask
    <2>2. runOf \in [Keyframes -> Nat]
          /\ server \in [session : Nat, assets : SUBSET Keyframes, envelope : EnvelopeRows \cup {None}]
      OBVIOUS
    <2> QED
      BY <2>1, <2>2 DEF TypeOK
  <1>5. PlacesInv
    <2>1. CASE Waiting = {}
      BY <2>1 DEF PlacesInv
    <2>2. CASE Waiting # {}
      <3>1. Waiting = {Min(Tasks)}
        BY <1>2, <1>3, <2>2
      <3>2. Cardinality(Waiting) = 1
        BY <3>1, FS_Singleton
      <3> QED
        BY <1>2, <1>3, <3>1, <3>2 DEF PlacesInv
    <2> QED
      BY <2>1, <2>2
  <1>6. DraftsInv /\ TasksInv
    <2>1. \A u \in Under : TaskInv(u)
      BY <1>2 DEF TaskInv, Callers, Writers, Shooting, Submission
    <2> QED
      BY <1>2, <2>1 DEF DraftsInv, TasksInv
  <1>7. QueueInv /\ LoadsInv
    BY <1>2, <1>3 DEF QueueInv, LoadsInv, Submission
  <1>8. NowInv
    BY <1>2, <1>3 DEF NowInv, OpeningInv, ShootingInv, MoveInv, SubmissionInv, Opening, Shooting, Submission
  <1>9. AcceptedInv /\ ScreenInv /\ ProtectedInv
    BY DEF AcceptedInv, ScreenInv, ProtectedInv, Accepted
  <1>10. SentInv
    <2>1. \A u \in Under : task[u].step \notin Submission
      BY <1>2 DEF Submission
    <2>2. \A k : ~IsSent(k)
      BY <2>1 DEF IsSent
    <2> QED
      BY <2>1, <2>2 DEF SentInv
  <1> QED
    BY <1>4, <1>5, <1>6, <1>7, <1>8, <1>9, <1>10 DEF IInv

\* The frame is in the journal, and counts.
LEMMA Retains ==
    ASSUME GuidedConstants, IInv, TypeOK', NEW t \in Now, task[t].step = "retain", Fine(t), Turn(t),
           task'[t] = None, Others(t), PlacesInv', Waiting' = Waiting \ {t},
           draft' = task[t].draft, journal' = draft', state' = "ready",
           UNCHANGED <<camera, runOf, server>>
    PROVE  IInv'
  <1> USE DEF GuidedConstants
  <1>1. /\ t \in Tasks /\ t \in Under /\ t \in Waiting /\ Under \subseteq Tasks /\ Waiting \subseteq Under
        /\ \A u \in Under : task[u] \in TaskRows
    BY DEF IInv, TypeOK, Under, Free, Now, Waiting, Turn
  <1>2. ASSUME NEW u \in Under'
        PROVE  /\ u \in Under /\ u # t /\ u \in Tasks
               /\ task'[u].step = task[u].step /\ task'[u].draft = task[u].draft
               /\ task'[u].current = task[u].current
               /\ task'[u].turn > 0 <=> task[u].turn > 0
               /\ Kf(u)' = Kf(u)
    BY <1>1 DEF Others, Kf, Under, Free
  <1>3. Waiting' = {}
    <2>1. ASSUME NEW u \in Waiting, u # t PROVE FALSE
      <3>1. task[u].turn < 1
        BY <1>1, <2>1 DEF IInv, QueueInv, Turn
      <3>2. task[u].turn > 0 /\ task[u].turn \in Nat
        BY <1>1 DEF Waiting, TaskRows
      <3> QED
        BY <3>1, <3>2
    <2> QED
      BY <2>1
  <1>4. /\ \A u \in Under \ {t} : task[u].current => task[u].step = "save"
        /\ KeyframesOf(draft) \subseteq Kf(t) /\ Live(task[t].draft, runOf, runs)
    BY DEF IInv, NowInv, ShootingInv, Shooting, Fine
  <1>5. Now' = {}
    <2>1. ASSUME NEW u \in Now' PROVE u \in Waiting'
      <3>1. u \in Under' /\ task'[u].step = "save" /\ task[u].step = "save"
        BY <1>2, <1>4 DEF Now
      <3>2. task[u].turn > 0
        BY <1>2, <3>1 DEF IInv, TasksInv, TaskInv, Callers, Writers
      <3> QED
        BY <1>2, <3>1, <3>2 DEF Waiting
    <2> QED
      BY <1>3, <2>1
  <1>6. /\ task[t].draft # None /\ task[t].draft.acceptance = None
        /\ Sound(task[t].draft, runOf, server.envelope)
    BY <1>1 DEF IInv, TasksInv, TaskInv, DraftsInv, Shooting
  <1>7. DraftsInv'
    <2>1. \A u \in Under' : task'[u].draft # None => Sound(task'[u].draft, runOf, server.envelope)
      BY <1>2 DEF IInv, DraftsInv
    <2> QED
      BY <1>6, <2>1 DEF IInv, DraftsInv
  <1>8. TasksInv'
    <2> SUFFICES ASSUME NEW u \in Under' PROVE TaskInv(u)'
      BY DEF TasksInv
    <2>1. TaskInv(u)
      BY <1>2 DEF IInv, TasksInv
    <2>2. task'[u].step # "create"
      BY <1>2, <1>3, <2>1 DEF Waiting, TaskInv, Callers, Writers
    <2> QED
      BY <1>2, <2>1, <2>2 DEF TaskInv
  <1>9. QueueInv' /\ LoadsInv' /\ NowInv' /\ AcceptedInv'
    BY <1>3, <1>5, <1>6 DEF QueueInv, LoadsInv, NowInv, AcceptedInv, Accepted
  <1>10. ScreenInv'
    BY <1>4 DEF ScreenInv, camera
  <1>11. ProtectedInv'
    BY <1>3, <1>6 DEF ProtectedInv
  <1>12. SentInv'
    <2>1. ASSUME NEW k, IsSent(k)' PROVE k \in Kf(t)
      <3>1. IsSent(k)
        BY <1>2, <2>1 DEF IsSent
      <3> QED
        BY <1>1, <3>1 DEF IInv, SentInv, Writers
    <2> QED
      BY <1>3, <1>6, <2>1 DEF SentInv, Kf
  <1> QED
    BY <1>7, <1>8, <1>9, <1>10, <1>11, <1>12 DEF IInv

-----------------------------------------------------------------------------
(* How the actions replace a task.                                         *)

LEMMA TaskRow ==
    ASSUME NEW step \in Steps, NEW d \in DraftRows \cup {None}
    PROVE  /\ Task(step, d) \in TaskRows /\ Task(step, d).step = step /\ Task(step, d).draft = d
           /\ Task(step, d).turn = 0 /\ Task(step, d).current /\ ~Task(step, d).cancelled
  BY DEF Task, TaskRows

LEMMA ServedRows ==
    ASSUME GuidedConstants, TypeOK
    PROVE  /\ Served \in [Tasks -> TaskRows \cup {None}]
           /\ \A u \in Under : Turn(u) => Served[u] = [task[u] EXCEPT !.turn = 0]
  <1>1. task \in [Tasks -> TaskRows \cup {None}] /\ Under \subseteq Tasks
    BY DEF TypeOK, Under
  <1>2. ASSUME NEW u \in Tasks PROVE Served[u] \in TaskRows \cup {None}
    <2>1. CASE task[u] = None \/ task[u].turn = 0
      BY <1>1, <2>1 DEF Served
    <2>2. CASE ~(task[u] = None \/ task[u].turn = 0)
      <3>1. task[u] \in TaskRows /\ task[u].turn - 1 \in Nat
        BY <1>1, <2>2 DEF TaskRows
      <3>2. Served[u] = [task[u] EXCEPT !.turn = task[u].turn - 1]
        BY <2>2, <3>1 DEF Served, TaskRows
      <3> QED
        BY <3>1, <3>2 DEF TaskRows
    <2> QED
      BY <2>1, <2>2
  <1>3. ASSUME NEW u \in Under, Turn(u) PROVE Served[u] = [task[u] EXCEPT !.turn = 0]
    <2>1. u \in Tasks /\ task[u] \in TaskRows /\ task[u] # None /\ task[u].turn = 1
      BY <1>1, <1>3 DEF Under, Free, Turn
    <2> QED
      BY <2>1 DEF Served, TaskRows
  <1> QED
    BY <1>2, <1>3 DEF Served

LEMMA Ended ==
    ASSUME GuidedConstants, TypeOK, PlacesInv, NEW t \in Under,
           \/ Turn(t) /\ task' = [Served EXCEPT ![t] = None]
           \/ t \notin Waiting /\ task' = [task EXCEPT ![t] = None],
           active' = IF active = t THEN None ELSE active
    PROVE  /\ task' \in [Tasks -> TaskRows \cup {None}] /\ task'[t] = None
           /\ Others(t) /\ Ordered(t) /\ PlacesInv' /\ Waiting' = Waiting \ {t}
           /\ t \in Waiting => Turn(t)
           /\ active' \in Tasks \cup {None} /\ (active' # None => active' \in Under')
  <1>1. /\ t \in Tasks /\ task \in [Tasks -> TaskRows \cup {None}]
        /\ Served \in [Tasks -> TaskRows \cup {None}]
    BY ServedRows DEF TypeOK, Under
  <1>2. task' \in [Tasks -> TaskRows \cup {None}] /\ task'[t] = None
    BY <1>1
  <1>3. ASSUME Turn(t) /\ task' = [Served EXCEPT ![t] = None]
        PROVE  Others(t) /\ Ordered(t) /\ PlacesInv' /\ Waiting' = Waiting \ {t} /\ (t \in Waiting => Turn(t))
    <2>1. \A u \in Tasks \ {t} : task'[u] = Served[u]
      BY <1>1, <1>3
    <2>2. Turn(t)
      BY <1>3
    <2>3. Others(t) /\ Ordered(t) /\ PlacesInv' /\ Waiting' = Waiting \ {t}
      BY <1>2, <2>1, <2>2, ServedMoveUp
    <2> QED
      BY <2>2, <2>3
  <1>4. ASSUME t \notin Waiting /\ task' = [task EXCEPT ![t] = None]
        PROVE  Others(t) /\ Ordered(t) /\ PlacesInv' /\ Waiting' = Waiting \ {t} /\ (t \in Waiting => Turn(t))
    <2>1. \A u \in Tasks \ {t} : task'[u] = task[u]
      BY <1>1, <1>4
    <2>2. t \notin Waiting
      BY <1>4
    <2>3. Others(t) /\ Ordered(t) /\ PlacesInv' /\ Waiting' = Waiting
      BY <1>1, <1>2, <2>1, <2>2, OthersGoOn
    <2> QED
      BY <2>2, <2>3
  <1>5. Others(t) /\ Ordered(t) /\ PlacesInv' /\ Waiting' = Waiting \ {t} /\ (t \in Waiting => Turn(t))
    BY <1>3, <1>4
  <1>6. active' \in Tasks \cup {None} /\ (active' # None => active' \in Under \ {t})
    BY DEF TypeOK
  <1>7. active' # None => active' \in Under'
    BY <1>1, <1>5, <1>6 DEF Others, Under, Free
  <1> QED
    BY <1>2, <1>5, <1>6, <1>7

LEMMA WentOn ==
    ASSUME GuidedConstants, TypeOK, PlacesInv, NEW t \in Under, task'[t] \in TaskRows, task'[t].turn = 0,
           \/ Turn(t) /\ task' = [Served EXCEPT ![t] = task'[t]]
           \/ t \notin Waiting /\ task' = [task EXCEPT ![t] = task'[t]],
           active' = active
    PROVE  /\ task' \in [Tasks -> TaskRows \cup {None}]
           /\ Others(t) /\ Ordered(t) /\ PlacesInv' /\ Waiting' = Waiting \ {t}
           /\ active' \in Tasks \cup {None} /\ (active' # None => active' \in Under')
  <1>1. /\ t \in Tasks /\ task \in [Tasks -> TaskRows \cup {None}]
        /\ Served \in [Tasks -> TaskRows \cup {None}]
    BY ServedRows DEF TypeOK, Under
  <1>2. task' \in [Tasks -> TaskRows \cup {None}]
    BY <1>1
  <1>3. ASSUME Turn(t) /\ task' = [Served EXCEPT ![t] = task'[t]]
        PROVE  Others(t) /\ Ordered(t) /\ PlacesInv' /\ Waiting' = Waiting \ {t}
    <2>1. \A u \in Tasks \ {t} : task'[u] = Served[u]
      BY <1>1, <1>3
    <2>2. Turn(t)
      BY <1>3
    <2> QED
      BY <2>1, <2>2, ServedMoveUp
  <1>4. ASSUME t \notin Waiting /\ task' = [task EXCEPT ![t] = task'[t]]
        PROVE  Others(t) /\ Ordered(t) /\ PlacesInv' /\ Waiting' = Waiting \ {t}
    <2>1. \A u \in Tasks \ {t} : task'[u] = task[u]
      BY <1>1, <1>4
    <2>2. t \notin Waiting
      BY <1>4
    <2>3. Others(t) /\ Ordered(t) /\ PlacesInv' /\ Waiting' = Waiting
      BY <1>1, <2>1, <2>2, OthersGoOn
    <2> QED
      BY <2>2, <2>3
  <1>5. Others(t) /\ Ordered(t) /\ PlacesInv' /\ Waiting' = Waiting \ {t}
    BY <1>3, <1>4
  <1>6. active \in Tasks \cup {None} /\ (active # None => active \in Under)
    BY DEF TypeOK
  <1>7. active # None => active \in Under'
    BY <1>1, <1>5, <1>6 DEF Others, Under, Free, GuidedConstants
  <1> QED
    BY <1>2, <1>5, <1>6, <1>7

LEMMA CallsLast ==
    ASSUME GuidedConstants, TypeOK, NEW r \in TaskRows
    PROVE  /\ Called(task, r) = [r EXCEPT !.turn = 1 + Cardinality(Waiting)]
           /\ Called(task, r) \in TaskRows /\ Called(task, r).turn = 1 + Cardinality(Waiting)
           /\ Called(task, r).turn > 0
  <1>1. {u \in Tasks : task[u] # None /\ task[u].turn > 0} = Waiting
    BY DEF Waiting, Under, Free
  <1>2. Called(task, r) = [r EXCEPT !.turn = 1 + Cardinality(Waiting)]
    BY <1>1 DEF Called
  <1>3. Cardinality(Waiting) \in Nat
    BY WaitingIsFinite
  <1>4. 1 + Cardinality(Waiting) \in Nat /\ 1 + Cardinality(Waiting) > 0
    BY <1>3
  <1> QED
    BY <1>2, <1>4 DEF TaskRows

LEMMA CalledNow ==
    ASSUME GuidedConstants, TypeOK, PlacesInv, NEW t \in Under, t \notin Waiting,
           task' = [task EXCEPT ![t] = task'[t]], task'[t] \in TaskRows,
           task'[t].turn = 1 + Cardinality(Waiting), active' = active
    PROVE  /\ task' \in [Tasks -> TaskRows \cup {None}]
           /\ Others(t) /\ Ordered(t) /\ PlacesInv' /\ Waiting' = Waiting \cup {t}
           /\ \A u \in Waiting : task'[u].turn < task'[t].turn
           /\ active' \in Tasks \cup {None} /\ (active' # None => active' \in Under')
  <1>1. t \in Tasks /\ task \in [Tasks -> TaskRows \cup {None}]
    BY DEF TypeOK, Under
  <1>2. task' \in [Tasks -> TaskRows \cup {None}] /\ \A u \in Tasks \ {t} : task'[u] = task[u]
    BY <1>1
  <1>3. /\ Others(t) /\ Ordered(t) /\ PlacesInv' /\ Waiting' = Waiting \cup {t}
        /\ \A u \in Waiting : task'[u].turn < task'[t].turn
    BY <1>1, <1>2, LastInTurn
  <1>4. active \in Tasks \cup {None} /\ (active # None => active \in Under)
    BY DEF TypeOK
  <1>5. active # None => active \in Under'
    BY <1>1, <1>3, <1>4 DEF Others, Under, Free, GuidedConstants
  <1> QED
    BY <1>2, <1>3, <1>4, <1>5

\* What a caller writes is what it brought, and holds what is to be kept.
LEMMA WritesItsDraft ==
    ASSUME GuidedConstants, IInv, NEW t \in Waiting, task[t].step \in Writers, journal' = task[t].draft
    PROVE  /\ Wrote(t) /\ task[t].draft \in DraftRows /\ task[t].draft # None
           /\ Sound(task[t].draft, runOf, server.envelope)
  <1>1. t \in Under /\ task[t] \in TaskRows
    BY DEF IInv, TypeOK, Waiting, Under, Free
  <1>2. task[t].draft # None
    BY <1>1 DEF IInv, TasksInv, TaskInv, Writers
  <1>3. task[t].draft \in DraftRows
    BY <1>1, <1>2 DEF TaskRows
  <1>4. Sound(task[t].draft, runOf, server.envelope)
    BY <1>1, <1>2 DEF IInv, DraftsInv
  <1>5. draft # None => KeyframesOf(draft) \subseteq KeyframesOf(journal')
    BY DEF IInv, ProtectedInv, Kf
  <1>6. \A k : IsSent(k) => k \in KeyframesOf(journal')
    BY DEF IInv, SentInv, Kf
  <1> QED
    BY <1>2, <1>3, <1>4, <1>5, <1>6 DEF Wrote

\* t ends: the journal is as it was or has t's draft, and the draft of the screen stays.
LEMMA Closes ==
    ASSUME GuidedConstants, IInv, NEW t \in Under,
           \/ Turn(t) /\ task' = [Served EXCEPT ![t] = None]
           \/ t \notin Waiting /\ task' = [task EXCEPT ![t] = None],
           active' = IF active = t THEN None ELSE active,
           UNCHANGED <<draft, camera, runOf>>,
           server' \in [session : Nat, assets : SUBSET Keyframes, envelope : EnvelopeRows \cup {None}],
           ServerMay(t), journal' = journal \/ Wrote(t), Shown(t)
    PROVE  IInv'
  <1>1. TypeOK /\ PlacesInv
    BY DEF IInv
  <1>2. /\ task' \in [Tasks -> TaskRows \cup {None}] /\ task'[t] = None
        /\ Others(t) /\ Ordered(t) /\ PlacesInv' /\ Waiting' = Waiting \ {t}
        /\ t \in Waiting => Turn(t)
        /\ active' \in Tasks \cup {None} /\ (active' # None => active' \in Under')
    BY <1>1, Ended
  <1>3. TypeOK'
    <2>1. journal' \in DraftRows \cup {None}
      BY <1>1 DEF TypeOK, Wrote
    <2>2. UNCHANGED <<armed, running, seen, runs>>
      BY DEF camera
    <2> QED
      BY <1>1, <1>2, <2>1, <2>2 DEF TypeOK
  <1> QED
    BY <1>2, <1>3, Ends


\* The first of the queue, when there is no other, calls again.
LEMMA CallsFirst ==
    ASSUME GuidedConstants, TypeOK, NEW t \in Under, Turn(t), Waiting \subseteq {t}, NEW r \in TaskRows,
           task' = [Served EXCEPT ![t] = Called(Served, r)], active' = active
    PROVE  /\ task' \in [Tasks -> TaskRows \cup {None}]
           /\ task'[t] = [r EXCEPT !.turn = 1] /\ task'[t] \in TaskRows
           /\ Others(t) /\ PlacesInv'
           /\ active' \in Tasks \cup {None} /\ (active' # None => active' \in Under')
  <1>1. /\ t \in Tasks /\ task \in [Tasks -> TaskRows \cup {None}] /\ None \notin TaskRows
        /\ Served \in [Tasks -> TaskRows \cup {None}] /\ Served[t] = [task[t] EXCEPT !.turn = 0]
    BY ServedRows DEF TypeOK, Under, GuidedConstants
  <1>2. ASSUME NEW u \in Tasks, u # t PROVE Served[u] = task[u] /\ (task[u] # None => task[u].turn = 0)
    <2>1. task[u] # None => task[u].turn = 0
      BY <1>1, <1>2 DEF Waiting, Under, Free, TaskRows
    <2> QED
      BY <1>2, <2>1 DEF Served
  <1>3. {u \in Tasks : Served[u] # None /\ Served[u].turn > 0} = {}
    <2>1. task[t] \in TaskRows
      BY <1>1 DEF Under, Free
    <2>2. Served[t].turn = 0
      BY <1>1, <2>1 DEF TaskRows
    <2> QED
      BY <1>2, <2>2
  <1>4. Called(Served, r) = [r EXCEPT !.turn = 1]
    <2>1. Cardinality({}) = 0
      BY FS_EmptySet
    <2>2. Called(Served, r) = [r EXCEPT !.turn = 1 + 0]
      BY <1>3, <2>1 DEF Called
    <2> QED
      BY <2>2
  <1>5. [r EXCEPT !.turn = 1] \in TaskRows /\ [r EXCEPT !.turn = 1].turn = 1
    BY DEF TaskRows
  <1>6. /\ task' \in [Tasks -> TaskRows \cup {None}]
        /\ task'[t] = [r EXCEPT !.turn = 1] /\ task'[t] \in TaskRows /\ task'[t].turn = 1
        /\ \A u \in Tasks \ {t} : task'[u] = Served[u]
    BY <1>1, <1>4, <1>5
  <1>7. \A u \in Tasks \ {t} : task'[u] = task[u]
    BY <1>2, <1>6
  <1>8. Others(t)
    BY <1>1, <1>7 DEF Others, Under
  <1>9. PlacesInv'
    <2>1. Waiting' = {t}
      <3>1. t \in Waiting'
        BY <1>1, <1>6 DEF Waiting, Under, Free
      <3>2. \A u \in Waiting' : u = t
        BY <1>2, <1>7 DEF Waiting, Under, Free
      <3> QED
        BY <3>1, <3>2
    <2>2. Cardinality(Waiting') = 1
      BY <2>1, FS_Singleton
    <2> QED
      BY <1>6, <2>1, <2>2 DEF PlacesInv
  <1>10. active' \in Tasks \cup {None} /\ (active' # None => active' \in Under')
    <2>1. Under' = Under
      BY <1>1, <1>6, <1>7 DEF Under, Free
    <2> QED
      BY <2>1 DEF TypeOK
  <1> QED
    BY <1>6, <1>8, <1>9, <1>10

-----------------------------------------------------------------------------
(* The steps of the tasks that open a capture.                             *)

\* What opens on has the camera as it was.
LEMMA OpensFurther ==
    ASSUME GuidedConstants, IInv, NEW t \in Now,
           (task[t].step = "load" /\ Turn(t)) \/ task[t].step = "ask",
           task' \in [Tasks -> TaskRows \cup {None}], Others(t), PlacesInv',
           active' \in Tasks \cup {None}, active' # None => active' \in Under',
           UNCHANGED <<journal, camera, runOf, server>>,
           task'[t] \in TaskRows, task'[t].current,
           \/ /\ journal = None /\ UNCHANGED <<draft, state>>
              /\ task'[t].step = "create" /\ task'[t].draft = Empty /\ task'[t].turn > 0
           \/ /\ task[t].step = "load" /\ journal # None /\ draft' = journal /\ UNCHANGED state
              /\ journal.acceptance = None /\ KeyframesOf(journal) = {}
              /\ task'[t].step = "resume" /\ task'[t].draft = Segmented(journal) /\ task'[t].turn > 0
           \/ /\ task[t].step = "load" /\ journal # None /\ draft' = journal /\ state' = "accepted"
              /\ journal.acceptance # None
              /\ task'[t].step = "check" /\ task'[t].draft = None /\ task'[t].turn = 0
    PROVE  IInv'
  <1>1. TypeOK'
    <2>1. UNCHANGED <<armed, running, seen, runs>>
      BY DEF camera
    <2>2. draft' \in DraftRows \cup {None}
      BY DEF IInv, TypeOK
    <2> QED
      BY <2>1, <2>2 DEF IInv, TypeOK
  <1> QED
    BY <1>1, OpensOn

LEMMA LoadsStep ==
    ASSUME GuidedConstants, IInv, NEW t \in Tasks, Load(t) \/ LoadFails(t)
    PROVE  IInv'
  <1>1. /\ t \in Under /\ task[t].step = "load" /\ Turn(t) /\ t \in Waiting
        /\ UNCHANGED <<journal, runOf, activations, server>> /\ TypeOK /\ PlacesInv
        /\ server \in [session : Nat, assets : SUBSET Keyframes, envelope : EnvelopeRows \cup {None}]
    BY DEF Load, LoadFails, At, Quiet, IInv, TypeOK, Waiting, Turn
  <1>2. ServerMay(t)
    BY <1>1 DEF ServerMay
  <1>3. CASE LoadFails(t)
    <2>1. Shown(t)
      BY <1>1, <1>3 DEF LoadFails, Stop, Shown
    <2> QED
      BY <1>1, <1>2, <1>3, <2>1, Closes DEF LoadFails, Stop
  <1>4. CASE Load(t) /\ ~task[t].current
    <2>1. Stop(Served, t, state) /\ UNCHANGED <<draft, camera>>
      BY <1>4 DEF Load
    <2>2. Shown(t)
      BY <1>1, <1>4, <2>1 DEF Stop, Shown
    <2> QED
      BY <1>1, <1>2, <2>1, <2>2, Closes DEF Stop
  <1>5. ASSUME task[t].current PROVE t \in Now /\ Waiting \subseteq {t}
    BY <1>1, <1>5, LoadsAlone DEF Now
  <1>6. CASE Load(t) /\ task[t].current /\ journal = None
    <2>1. Preflight(Served, t, draft)
      BY <1>6 DEF Load
    <2>2. draft = None
      BY <1>6 DEF IInv, ProtectedInv
    <2>3. CASE Stop(Served, t, "blocked") /\ draft' = draft /\ UNCHANGED camera
      <3>1. Shown(t)
        BY <1>1, <1>6, <2>3 DEF Stop, Shown
      <3> QED
        BY <1>1, <1>2, <2>3, <3>1, Closes DEF Stop
    <2>4. ASSUME task' = [Served EXCEPT ![t] = Called(Served,
                     [Task("create", Empty) EXCEPT !.cancelled = task[t].cancelled])],
                 UNCHANGED <<draft, state, camera, active>>
          PROVE  IInv'
      <3>1. PICK r \in TaskRows : /\ r = [Task("create", Empty) EXCEPT !.cancelled = task[t].cancelled]
                                  /\ r.step = "create" /\ r.draft = Empty /\ r.current
        <4>1. task[t].cancelled \in BOOLEAN
          BY <1>1 DEF TypeOK, TaskRows, Under, Free
        <4>2. "create" \in Steps /\ Empty \in DraftRows \cup {None}
          BY EmptyIsADraft DEF Steps
        <4> DEFINE w == [Task("create", Empty) EXCEPT !.cancelled = task[t].cancelled]
        <4>3. w \in TaskRows /\ w.step = "create" /\ w.draft = Empty /\ w.current
          BY <4>1, <4>2 DEF Task, TaskRows
        <4> HIDE DEF w
        <4>4. \E r \in TaskRows : r = w /\ r.step = "create" /\ r.draft = Empty /\ r.current
          BY <4>3
        <4> QED
          BY <4>4 DEF w
      <3>2. /\ task' \in [Tasks -> TaskRows \cup {None}]
            /\ task'[t] = [r EXCEPT !.turn = 1] /\ task'[t] \in TaskRows
            /\ Others(t) /\ PlacesInv'
            /\ active' \in Tasks \cup {None} /\ (active' # None => active' \in Under')
        BY <1>1, <1>5, <1>6, <2>4, <3>1, CallsFirst
      <3>3. task'[t].current /\ task'[t].turn > 0 /\ task'[t].step = "create" /\ task'[t].draft = Empty
        BY <3>1, <3>2 DEF TaskRows
      <3> QED
        BY <1>1, <1>5, <1>6, <2>4, <3>2, <3>3, OpensFurther
    <2> QED
      BY <2>1, <2>2, <2>3, <2>4 DEF Preflight
  <1>7. CASE Load(t) /\ task[t].current /\ journal # None
    <2>1. UNCHANGED camera /\ draft' = journal
      BY <1>7 DEF Load
    <2>2. CASE /\ journal.acceptance # None /\ state' = "accepted"
               /\ task' = [Served EXCEPT ![t] = Task("check", None)] /\ UNCHANGED active
      <3>1. PICK r \in TaskRows : /\ r = Task("check", None)
                                  /\ r.step = "check" /\ r.draft = None /\ r.current /\ r.turn = 0
        BY TaskRow DEF Steps
      <3>2. task'[t] = r
        BY <1>1, <2>2, <3>1, ServedRows
      <3>3. /\ task' \in [Tasks -> TaskRows \cup {None}] /\ Others(t) /\ PlacesInv'
            /\ active' \in Tasks \cup {None} /\ (active' # None => active' \in Under')
        BY <1>1, <2>2, <3>1, <3>2, WentOn
      <3> QED
        BY <1>1, <1>5, <1>7, <2>1, <2>2, <3>1, <3>2, <3>3, OpensFurther
    <2>3. CASE journal.acceptance = None /\ Stop(Served, t, "review")
      <3>1. /\ task' \in [Tasks -> TaskRows \cup {None}] /\ task'[t] = None
            /\ Others(t) /\ PlacesInv' /\ Waiting' = Waiting \ {t}
            /\ active' \in Tasks \cup {None} /\ (active' # None => active' \in Under')
        BY <1>1, <2>3, Ended DEF Stop
      <3>2. TypeOK'
        BY <1>1, <2>1, <3>1 DEF TypeOK, camera
      <3>3. state' = "review"
        BY <1>7, <2>3 DEF Stop
      <3> QED
        BY <1>1, <1>5, <1>7, <2>1, <2>3, <3>1, <3>2, <3>3, Reviews
    <2>4. CASE /\ journal.acceptance = None /\ KeyframesOf(journal) = {} /\ UNCHANGED <<state, active>>
               /\ task' = [Served EXCEPT ![t] = Called(Served, Task("resume", Segmented(journal)))]
      <3>1. PICK r \in TaskRows : /\ r = Task("resume", Segmented(journal))
                                  /\ r.step = "resume" /\ r.draft = Segmented(journal) /\ r.current
        <4>1. Segmented(journal) \in DraftRows
          BY <1>1, <1>7, SegmentedMovesOn DEF TypeOK
        <4> QED
          BY <4>1, TaskRow DEF Steps
      <3>2. /\ task' \in [Tasks -> TaskRows \cup {None}]
            /\ task'[t] = [r EXCEPT !.turn = 1] /\ task'[t] \in TaskRows
            /\ Others(t) /\ PlacesInv'
            /\ active' \in Tasks \cup {None} /\ (active' # None => active' \in Under')
        BY <1>1, <1>5, <1>7, <2>4, <3>1, CallsFirst
      <3>3. task'[t].current /\ task'[t].turn > 0 /\ task'[t].step = "resume" /\ task'[t].draft = Segmented(journal)
        BY <3>1, <3>2 DEF TaskRows
      <3> QED
        BY <1>1, <1>5, <1>7, <2>1, <2>4, <3>2, <3>3, OpensFurther
    <2> QED
      BY <1>7, <2>2, <2>3, <2>4 DEF Load
  <1> QED
    BY <1>3, <1>4, <1>6, <1>7

\* A task ends with a capture on the screen, and the camera as it may be.
LEMMA OpensWell ==
    ASSUME GuidedConstants, IInv, NEW t \in Now,
           \/ Turn(t) /\ task' = [Served EXCEPT ![t] = None]
           \/ t \notin Waiting /\ task' = [task EXCEPT ![t] = None],
           active' = IF active = t THEN None ELSE active,
           \/ /\ task[t].step \in {"move", "create", "resume"} /\ t \in Waiting
              /\ draft' = task[t].draft /\ journal' = draft' /\ draft'.acceptance = None
           \/ task[t].step = "ask" /\ UNCHANGED <<draft, journal>> /\ draft # None,
           UNCHANGED <<runOf, server>>,
           \/ state' = "ready" /\ StartEngine
           \/ state' = "blocked" /\ task[t].step = "resume" /\ UNCHANGED camera
    PROVE  IInv'
  <1>1. TypeOK /\ PlacesInv /\ t \in Under
    BY DEF IInv, Now
  <1>2. /\ task' \in [Tasks -> TaskRows \cup {None}] /\ task'[t] = None
        /\ Others(t) /\ PlacesInv' /\ Waiting' = Waiting \ {t}
        /\ active' \in Tasks \cup {None} /\ (active' # None => active' \in Under')
    BY <1>1, Ended
  <1>3. /\ draft' \in DraftRows /\ draft' # None /\ journal' \in DraftRows \cup {None}
        /\ Sound(draft', runOf, server.envelope) /\ draft'.acceptance = None
    <2>1. CASE /\ task[t].step \in {"move", "create", "resume"} /\ t \in Waiting
               /\ draft' = task[t].draft /\ journal' = draft' /\ draft'.acceptance = None
      <3>1. task[t].step \in Writers /\ journal' = task[t].draft
        BY <2>1 DEF Writers
      <3>2. task[t].draft \in DraftRows /\ task[t].draft # None /\ Sound(task[t].draft, runOf, server.envelope)
        BY <2>1, <3>1, WritesItsDraft
      <3> QED
        BY <2>1, <3>2
    <2>2. CASE task[t].step = "ask" /\ UNCHANGED <<draft, journal>> /\ draft # None
      <3>1. ~Accepted
        BY <2>2 DEF IInv, AcceptedInv
      <3> QED
        BY <1>1, <2>2, <3>1 DEF TypeOK, IInv, DraftsInv, Accepted
    <2> QED
      BY <2>1, <2>2
  <1>4. ~armed'
    <2>1. task[t].step = "resume" => ~armed
      BY DEF IInv, NowInv, OpeningInv, Opening
    <2> QED
      BY <2>1 DEF StartEngine, camera
  <1>5. TypeOK'
    <2>1. armed' \in BOOLEAN /\ running' \in BOOLEAN /\ seen' \in BOOLEAN /\ runs' \in Nat
      <3>1. /\ armed \in BOOLEAN /\ running \in BOOLEAN /\ seen \in BOOLEAN /\ runs \in Nat /\ runs + 1 \in Nat
        BY <1>1 DEF TypeOK
      <3>2. CASE StartEngine
        BY <3>1, <3>2 DEF StartEngine
      <3>3. CASE UNCHANGED camera
        BY <3>1, <3>3 DEF camera
      <3> QED
        BY <3>2, <3>3
    <2> QED
      BY <1>1, <1>2, <1>3, <2>1 DEF TypeOK
  <1> QED
    BY <1>2, <1>3, <1>4, <1>5, Opens

LEMMA ResumeStep ==
    ASSUME GuidedConstants, IInv, NEW t \in Tasks, Resume(t)
    PROVE  IInv'
  <1>1. /\ t \in Under /\ task[t].step = "resume" /\ Turn(t) /\ t \in Waiting /\ journal' = task[t].draft
        /\ UNCHANGED <<runOf, activations, server>>
        /\ server \in [session : Nat, assets : SUBSET Keyframes, envelope : EnvelopeRows \cup {None}]
    BY DEF Resume, At, Quiet, IInv, TypeOK, Waiting, Turn
  <1>2. ServerMay(t)
    BY <1>1 DEF ServerMay
  <1>3. Wrote(t) /\ task[t].draft # None
    BY <1>1, WritesItsDraft DEF Writers
  <1>4. task[t].draft.acceptance = None
    BY <1>1 DEF IInv, TasksInv, TaskInv
  <1>5. CASE ~task[t].current
    <2>1. Stop(Served, t, state) /\ UNCHANGED <<draft, camera>>
      BY <1>5 DEF Resume
    <2>2. Shown(t)
      BY <1>1, <1>5, <2>1 DEF Stop, Shown
    <2> QED
      BY <1>1, <1>2, <1>3, <2>1, <2>2, Closes DEF Stop
  <1>6. CASE task[t].current
    <2>1. Preflight(Served, t, task[t].draft) /\ t \in Now
      BY <1>1, <1>6 DEF Resume, Now
    <2>2. CASE Stop(Served, t, "blocked") /\ draft' = task[t].draft /\ UNCHANGED camera
      BY <1>1, <1>4, <1>6, <2>1, <2>2, OpensWell DEF Stop
    <2>3. CASE StartEngine /\ draft' = task[t].draft /\ Stop(Served, t, "ready")
      BY <1>1, <1>4, <1>6, <2>1, <2>3, OpensWell DEF Stop
    <2> QED
      BY <1>3, <2>1, <2>2, <2>3 DEF Preflight
  <1> QED
    BY <1>5, <1>6

LEMMA AskStep ==
    ASSUME GuidedConstants, IInv, NEW t \in Tasks, Ask(t)
    PROVE  IInv'
  <1>1. /\ t \in Under /\ task[t].step = "ask" /\ t \notin Waiting
        /\ UNCHANGED <<journal, runOf, activations, server>> /\ TypeOK /\ PlacesInv
        /\ server \in [session : Nat, assets : SUBSET Keyframes, envelope : EnvelopeRows \cup {None}]
    BY DEF Ask, At, Quiet, IInv, TypeOK, TasksInv, TaskInv, Waiting, Callers, Writers
  <1>2. ServerMay(t)
    BY <1>1 DEF ServerMay
  <1>3. CASE ~task[t].current
    <2>1. Stop(task, t, state) /\ UNCHANGED <<draft, camera>>
      BY <1>3 DEF Ask
    <2>2. Shown(t)
      BY <1>1, <1>3, <2>1 DEF Stop, Shown
    <2> QED
      BY <1>1, <1>2, <2>1, <2>2, Closes DEF Stop
  <1>4. ASSUME NEW s \in {"failed", "blocked"}, Stop(task, t, s), UNCHANGED <<draft, camera>>, task[t].current
        PROVE  IInv'
    <2>1. Shown(t)
      BY <1>1, <1>4 DEF Stop, Shown
    <2> QED
      BY <1>1, <1>2, <1>4, <2>1, Closes DEF Stop
  <1>5. CASE task[t].current /\ draft # None /\ task[t].cancelled
    <2>1. (\E s \in {"failed", "blocked"} : Stop(task, t, s)) /\ UNCHANGED <<draft, camera>>
      BY <1>5 DEF Ask
    <2> QED
      BY <1>4, <1>5, <2>1
  <1>6. CASE task[t].current /\ ~(draft # None /\ task[t].cancelled)
    <2>1. Preflight(task, t, draft) /\ t \in Now
      BY <1>1, <1>6 DEF Ask, Now
    <2>2. CASE Stop(task, t, "blocked") /\ draft' = draft /\ UNCHANGED camera
      BY <1>4, <1>6, <2>2
    <2>3. CASE draft # None /\ StartEngine /\ draft' = draft /\ Stop(task, t, "ready")
      <3>1. UNCHANGED <<draft, journal>> /\ state' = "ready"
        BY <1>1, <1>6, <2>3 DEF Stop
      <3> QED
        BY <1>1, <2>1, <2>3, <3>1, OpensWell DEF Stop
    <2>4. ASSUME draft = None, UNCHANGED <<draft, state, camera, active>>,
                 task' = [task EXCEPT ![t] = Called(task, [Task("create", Empty) EXCEPT !.cancelled = task[t].cancelled])]
          PROVE  IInv'
      <3> DEFINE w == [Task("create", Empty) EXCEPT !.cancelled = task[t].cancelled]
      <3>1. w \in TaskRows /\ w.step = "create" /\ w.draft = Empty /\ w.current
        <4>1. task[t].cancelled \in BOOLEAN
          BY <1>1 DEF TypeOK, TaskRows, Under, Free
        <4>2. "create" \in Steps /\ Empty \in DraftRows \cup {None}
          BY EmptyIsADraft DEF Steps
        <4> QED
          BY <4>1, <4>2 DEF Task, TaskRows
      <3>2. task' = [task EXCEPT ![t] = Called(task, w)]
        BY <2>4
      <3> HIDE DEF w
      <3>3. \E x \in TaskRows : x = w
        BY <3>1
      <3>4. PICK r \in TaskRows : r = w
        BY <3>3
      <3>5. /\ Called(task, r) = [r EXCEPT !.turn = 1 + Cardinality(Waiting)]
            /\ Called(task, r) \in TaskRows /\ Called(task, r).turn = 1 + Cardinality(Waiting)
            /\ Called(task, r).turn > 0
        BY <1>1, CallsLast
      <3>6. task'[t] = Called(task, r)
        BY <1>1, <3>2, <3>4 DEF TypeOK, Under
      <3>7. /\ task'[t] \in TaskRows /\ task'[t].current /\ task'[t].turn > 0
            /\ task'[t].turn = 1 + Cardinality(Waiting)
            /\ task'[t].step = "create" /\ task'[t].draft = Empty
        BY <3>1, <3>4, <3>5, <3>6 DEF TaskRows
      <3>8. task' = [task EXCEPT ![t] = task'[t]]
        BY <3>2, <3>4, <3>6
      <3>9. /\ task' \in [Tasks -> TaskRows \cup {None}] /\ Others(t) /\ PlacesInv'
            /\ active' \in Tasks \cup {None} /\ (active' # None => active' \in Under')
        BY <1>1, <2>4, <3>7, <3>8, CalledNow
      <3>10. journal = None
        BY <1>1, <2>1, <2>4 DEF IInv, NowInv, OpeningInv
      <3> QED
        BY <1>1, <2>1, <2>4, <3>7, <3>9, <3>10, OpensFurther
    <2> QED
      BY <2>1, <2>2, <2>3, <2>4 DEF Preflight
  <1> QED
    BY <1>3, <1>5, <1>6

LEMMA CreateStep ==
    ASSUME GuidedConstants, IInv, NEW t \in Tasks, Create(t) \/ CreateFails(t)
    PROVE  IInv'
  <1>1. /\ t \in Under /\ task[t].step = "create" /\ Turn(t) /\ t \in Waiting
        /\ UNCHANGED <<runOf, activations, server>>
        /\ task' = [Served EXCEPT ![t] = None] /\ active' = IF active = t THEN None ELSE active
        /\ server \in [session : Nat, assets : SUBSET Keyframes, envelope : EnvelopeRows \cup {None}]
    BY DEF Create, CreateFails, At, Quiet, IInv, TypeOK, Waiting, Turn
  <1>2. ServerMay(t)
    BY <1>1 DEF ServerMay
  <1>3. CASE CreateFails(t)
    <2>1. Shown(t)
      BY <1>1, <1>3 DEF CreateFails, Shown
    <2> QED
      BY <1>1, <1>2, <1>3, <2>1, Closes DEF CreateFails
  <1>4. CASE Create(t) /\ ~Fine(t)
    <2>1. journal' = task[t].draft /\ state' = "failed" /\ UNCHANGED <<draft, camera>>
      BY <1>4 DEF Create
    <2>2. Wrote(t)
      BY <1>1, <2>1, WritesItsDraft DEF Writers
    <2>3. Shown(t)
      BY <1>1, <2>1 DEF Shown
    <2> QED
      BY <1>1, <1>2, <2>1, <2>2, <2>3, Closes
  <1>5. CASE Create(t) /\ Fine(t)
    <2>1. journal' = task[t].draft /\ draft' = task[t].draft /\ state' = "ready" /\ StartEngine
      BY <1>5 DEF Create
    <2>2. task[t].draft = Empty /\ t \in Now
      BY <1>1, <1>5 DEF IInv, TasksInv, TaskInv, Now, Fine
    <2>3. draft'.acceptance = None
      BY <2>1, <2>2 DEF Empty
    <2> QED
      BY <1>1, <2>1, <2>2, <2>3, OpensWell
  <1> QED
    BY <1>3, <1>4, <1>5

LEMMA MoveStep ==
    ASSUME GuidedConstants, IInv, NEW t \in Tasks, Move(t)
    PROVE  IInv'
  <1>1. /\ t \in Under /\ task[t].step = "move" /\ Turn(t) /\ t \in Waiting /\ journal' = task[t].draft
        /\ UNCHANGED <<runOf, activations, server>>
        /\ server \in [session : Nat, assets : SUBSET Keyframes, envelope : EnvelopeRows \cup {None}]
    BY DEF Move, At, Quiet, IInv, TypeOK, Waiting, Turn
  <1>2. ServerMay(t)
    BY <1>1 DEF ServerMay
  <1>3. CASE ~Fine(t)
    <2>1. Stop(Served, t, state) /\ UNCHANGED <<draft, camera>>
      BY <1>3 DEF Move
    <2>2. Shown(t)
      BY <1>1, <2>1 DEF Stop, Shown
    <2>3. Wrote(t)
      BY <1>1, WritesItsDraft DEF Writers
    <2> QED
      BY <1>1, <1>2, <2>1, <2>2, <2>3, Closes DEF Stop
  <1>4. CASE Fine(t)
    <2>1. draft' = task[t].draft /\ StartEngine /\ Stop(Served, t, "ready")
      BY <1>4 DEF Move
    <2>2. t \in Now /\ task[t].draft.acceptance = None /\ state' = "ready"
      BY <1>1, <1>4, <2>1 DEF IInv, TasksInv, TaskInv, Now, Fine, Stop
    <2> QED
      BY <1>1, <2>1, <2>2, OpensWell DEF Stop
  <1> QED
    BY <1>3, <1>4

LEMMA SaveStep ==
    ASSUME GuidedConstants, IInv, NEW t \in Tasks, Save(t)
    PROVE  IInv'
  <1>1. /\ t \in Under /\ task[t].step = "save" /\ Turn(t) /\ t \in Waiting
        /\ journal' \in {task[t].draft, journal} /\ Stop(Served, t, state)
        /\ UNCHANGED <<draft, camera, runOf, activations, server>>
        /\ server \in [session : Nat, assets : SUBSET Keyframes, envelope : EnvelopeRows \cup {None}]
    BY DEF Save, At, Quiet, IInv, TypeOK, Waiting, Turn
  <1>2. ServerMay(t) /\ Shown(t)
    BY <1>1 DEF ServerMay, Shown, Stop
  <1>3. journal' = journal \/ Wrote(t)
    BY <1>1, WritesItsDraft DEF Writers
  <1> QED
    BY <1>1, <1>2, <1>3, Closes DEF Stop

-----------------------------------------------------------------------------
(* The steps of captureKeyframe.                                           *)

\* A frame of this run joins the segment of this run.
LEMMA JoinsItsSegment ==
    ASSUME NEW d \in DraftRows, NEW k \in Keyframes, k \notin KeyframesOf(d), d.acceptance = None,
           NEW origins \in [Keyframes -> Nat], NEW run, NEW accepted,
           Sound(d, origins, accepted), Live(d, origins, run)
    PROVE  /\ Sound(Retaining(d, k, d.segment), [origins EXCEPT ![k] = run], accepted)
           /\ Live(Retaining(d, k, d.segment), [origins EXCEPT ![k] = run], run)
           /\ Live(d, [origins EXCEPT ![k] = run], run)
  <1> DEFINE later == [origins EXCEPT ![k] = run]
             next == Retaining(d, k, d.segment)
  <1>1. d.segment \in Nat /\ KeyframesOf(d) \subseteq Keyframes
    BY SamplesAreKeyframes DEF DraftRows
  <1>2. /\ next \in DraftRows /\ KeyframesOf(next) = KeyframesOf(d) \cup {k}
        /\ \A i \in KeyframesOf(d) \cup {k} : next.samples[i] = IF i = k THEN d.segment ELSE d.samples[i]
        /\ next.segment = d.segment /\ next.acceptance = None
    BY <1>1, RetainingAdds
  <1>3. later[k] = run /\ \A i \in KeyframesOf(d) : later[i] = origins[i]
    BY <1>1
  <1> HIDE DEF later, next
  <1>4. Live(d, later, run)
    BY <1>3 DEF Live, InSegment
  <1>5. Live(next, later, run)
    <2> SUFFICES ASSUME NEW i \in InSegment(next) PROVE later[i] = run
      BY DEF Live
    <2>1. i \in KeyframesOf(d) \cup {k} /\ next.samples[i] = d.segment
      BY <1>2 DEF InSegment
    <2>2. CASE i = k
      BY <1>3, <2>2
    <2>3. CASE i # k
      <3>1. i \in InSegment(d)
        BY <1>2, <2>1, <2>3 DEF InSegment
      <3> QED
        BY <1>4, <3>1 DEF Live
    <2> QED
      BY <2>2, <2>3
  <1>6. OneRun(next.samples, later)
    <2> SUFFICES ASSUME NEW i \in KeyframesOf(d) \cup {k}, NEW j \in KeyframesOf(d) \cup {k},
                        next.samples[i] = next.samples[j]
                 PROVE  later[i] = later[j]
      BY <1>2 DEF OneRun, KeyframesOf
    <2>1. CASE i # k /\ j # k
      <3>1. d.samples[i] = d.samples[j]
        BY <1>2, <2>1
      <3>2. origins[i] = origins[j]
        BY <2>1, <3>1 DEF Sound, OneRun, KeyframesOf
      <3> QED
        BY <1>3, <2>1, <3>2
    <2>2. CASE i = k /\ j # k
      <3>1. j \in InSegment(d)
        BY <1>2, <2>2 DEF InSegment
      <3> QED
        BY <1>3, <1>4, <2>2, <3>1 DEF Live
    <2>3. CASE i # k /\ j = k
      <3>1. i \in InSegment(d)
        BY <1>2, <2>3 DEF InSegment
      <3> QED
        BY <1>3, <1>4, <2>3, <3>1 DEF Live
    <2> QED
      BY <2>1, <2>2, <2>3
  <1>7. Sound(next, later, accepted)
    <2>1. \A i \in KeyframesOf(next) : next.samples[i] <= next.segment
      BY <1>1, <1>2 DEF Sound
    <2> QED
      BY <1>2, <1>6, <2>1 DEF Sound, Complete
  <1> QED
    BY <1>4, <1>5, <1>7 DEF later, next

\* While a frame is taken that was not given up, the screen is of its run.
LEMMA TakenNow ==
    ASSUME GuidedConstants, IInv, NEW t \in Under, task[t].step \in {"shoot", "depth"}, Fine(t)
    PROVE  /\ t \in Now /\ t \notin Waiting /\ ~task[t].cancelled /\ draft # None /\ ~Accepted
           /\ Live(draft, runOf, runs)
           /\ task[t].step = "shoot" => task[t].draft.segment = draft.segment
           /\ task[t].step # "shoot" =>
                 KeyframesOf(draft) \subseteq Kf(t) /\ Live(task[t].draft, runOf, runs)
  <1>1. t \in Now /\ t \notin Waiting /\ ~task[t].cancelled
    BY DEF Now, Fine, Waiting, IInv, TasksInv, TaskInv, Callers, Writers
  <1>2. /\ draft # None /\ armed
        /\ task[t].step = "shoot" => task[t].draft.segment = draft.segment
        /\ task[t].step # "shoot" =>
              KeyframesOf(draft) \subseteq Kf(t) /\ Live(task[t].draft, runOf, runs)
    BY <1>1 DEF IInv, NowInv, ShootingInv, Shooting
  <1>3. ~Accepted
    BY <1>1 DEF IInv, AcceptedInv
  <1> QED
    BY <1>1, <1>2, <1>3 DEF IInv, ScreenInv

LEMMA ShootStep ==
    ASSUME GuidedConstants, IInv, NEW t \in Tasks, NEW k \in Keyframes, Shoot(t, k)
    PROVE  IInv'
  <1> DEFINE next == Retaining(draft, k, task[t].draft.segment)
  <1>1. /\ t \in Under /\ task[t].step = "shoot" /\ Fine(t) /\ draft # None
        /\ \A d \in {draft, journal} \cup {task[u].draft : u \in Under} : d # None => k \notin KeyframesOf(d)
        /\ runOf' = [runOf EXCEPT ![k] = runs]
        /\ task' = [task EXCEPT ![t] = IF k \in DepthFrames THEN Task("depth", next) ELSE Calling("retain", next)]
        /\ UNCHANGED <<draft, journal, state, camera, active, activations, server>>
        /\ TypeOK /\ PlacesInv
    BY DEF Shoot, At, Quiet, IInv
  <1>2. /\ t \in Now /\ t \notin Waiting /\ ~task[t].cancelled /\ ~Accepted
        /\ Live(draft, runOf, runs) /\ task[t].draft.segment = draft.segment
    BY <1>1, TakenNow
  <1>3. /\ draft \in DraftRows /\ draft.segment \in Nat /\ draft.acceptance = None
        /\ Sound(draft, runOf, server.envelope) /\ k \notin KeyframesOf(draft)
        /\ runOf \in [Keyframes -> Nat] /\ runs \in Nat
    BY <1>1, <1>2 DEF TypeOK, DraftRows, Accepted, IInv, DraftsInv
  <1>4. /\ Sound(next, runOf', server.envelope) /\ Live(next, runOf', runs) /\ Live(draft, runOf', runs)
    BY <1>1, <1>2, <1>3, JoinsItsSegment
  <1>5. /\ next \in DraftRows /\ KeyframesOf(next) = KeyframesOf(draft) \cup {k} /\ next.acceptance = None
    BY <1>2, <1>3, RetainingAdds
  <1> HIDE DEF next
  <1>6. \E d \in DraftRows : d = next
    BY <1>5
  <1>7. PICK d \in DraftRows : d = next
    BY <1>6
  <1>8. /\ task'[t] \in TaskRows /\ task'[t].current /\ ~task'[t].cancelled /\ task'[t].draft = d
        /\ task' = [task EXCEPT ![t] = task'[t]]
        /\ \/ task'[t].step = "depth" /\ task'[t].turn = 0
           \/ task'[t].step = "retain" /\ task'[t].turn = 1 + Cardinality(Waiting) /\ task'[t].turn > 0
    <2>1. t \in Tasks /\ task \in [Tasks -> TaskRows \cup {None}]
      BY <1>1 DEF TypeOK
    <2>2. CASE k \in DepthFrames
      <3>1. PICK r \in TaskRows : r = Task("depth", d) /\ r.step = "depth" /\ r.draft = d
                               /\ r.turn = 0 /\ r.current /\ ~r.cancelled
        BY TaskRow DEF Steps
      <3>2. task' = [task EXCEPT ![t] = r]
        BY <1>1, <1>7, <2>2, <3>1
      <3>3. task'[t] = r
        BY <2>1, <3>2
      <3> QED
        BY <3>1, <3>2, <3>3
    <2>3. CASE k \notin DepthFrames
      <3>1. PICK r \in TaskRows : r = Task("retain", d) /\ r.step = "retain" /\ r.draft = d
                               /\ r.turn = 0 /\ r.current /\ ~r.cancelled
        BY TaskRow DEF Steps
      <3>2. /\ Called(task, r) = [r EXCEPT !.turn = 1 + Cardinality(Waiting)] /\ Called(task, r) \in TaskRows
            /\ Called(task, r).turn = 1 + Cardinality(Waiting) /\ Called(task, r).turn > 0
        BY <1>1, CallsLast
      <3>3. task' = [task EXCEPT ![t] = Called(task, r)]
        BY <1>1, <1>7, <2>3, <3>1 DEF Calling
      <3>4. task'[t] = Called(task, r)
        BY <2>1, <3>3
      <3>5. task'[t].step = "retain" /\ task'[t].draft = d /\ task'[t].current /\ ~task'[t].cancelled
        BY <3>1, <3>2, <3>4 DEF TaskRows
      <3> QED
        BY <3>2, <3>3, <3>4, <3>5
    <2> QED
      BY <2>2, <2>3
  <1>9. /\ task' \in [Tasks -> TaskRows \cup {None}] /\ Others(t) /\ PlacesInv'
        /\ active' \in Tasks \cup {None} /\ (active' # None => active' \in Under')
        /\ \/ task'[t].step = "depth" /\ task'[t].turn = 0 /\ Waiting' = Waiting
           \/ /\ task'[t].step = "retain" /\ task'[t].turn > 0 /\ Waiting' = Waiting \cup {t}
              /\ \A u \in Waiting : task'[u].turn < task'[t].turn
    <2>1. CASE task'[t].step = "depth" /\ task'[t].turn = 0
      <3>1. /\ task' \in [Tasks -> TaskRows \cup {None}] /\ Others(t) /\ PlacesInv' /\ Waiting' = Waiting \ {t}
            /\ active' \in Tasks \cup {None} /\ (active' # None => active' \in Under')
        BY <1>1, <1>2, <1>8, <2>1, WentOn
      <3> QED
        BY <1>2, <2>1, <3>1
    <2>2. CASE task'[t].step = "retain" /\ task'[t].turn = 1 + Cardinality(Waiting) /\ task'[t].turn > 0
      BY <1>1, <1>2, <1>8, <2>2, CalledNow
    <2> QED
      BY <1>8, <2>1, <2>2
  <1>10. TypeOK'
    <2>1. runOf' \in [Keyframes -> Nat]
      BY <1>1, <1>3
    <2>2. UNCHANGED <<armed, running, seen, runs>>
      BY <1>1 DEF camera
    <2> QED
      BY <1>1, <1>9, <2>1, <2>2 DEF TypeOK
  <1>11. DraftsInv'
    <2>1. ASSUME NEW e \in DraftRows, Sound(e, runOf, server.envelope), k \notin KeyframesOf(e)
          PROVE  Sound(e, runOf', server.envelope)
      <3>1. KeyframesOf(e) \subseteq Keyframes
        BY SamplesAreKeyframes
      <3> QED
        BY <1>1, <1>3, <2>1, <3>1, OriginsElsewhere
    <2>2. draft' # None => Sound(draft', runOf', server.envelope)
      BY <1>1, <1>3, <2>1
    <2>3. journal' # None => Sound(journal', runOf', server.envelope)
      <3> SUFFICES ASSUME journal # None PROVE Sound(journal, runOf', server.envelope)
        BY <1>1
      <3>1. journal \in DraftRows /\ Sound(journal, runOf, server.envelope) /\ k \notin KeyframesOf(journal)
        BY <1>1 DEF TypeOK, IInv, DraftsInv
      <3> QED
        BY <2>1, <3>1
    <2>4. ASSUME NEW u \in Under', task'[u].draft # None PROVE Sound(task'[u].draft, runOf', server.envelope)
      <3>1. CASE u = t
        BY <1>4, <1>7, <1>8, <3>1
      <3>2. CASE u # t
        <4>1. u \in Under /\ task'[u].draft = task[u].draft
          BY <1>9, <3>2 DEF Others, Under, Free
        <4>2. task[u].draft \in DraftRows /\ Sound(task[u].draft, runOf, server.envelope)
          BY <1>1, <2>4, <4>1 DEF TypeOK, TaskRows, Under, Free, IInv, DraftsInv
        <4>3. k \notin KeyframesOf(task[u].draft)
          BY <1>1, <2>4, <4>1
        <4> QED
          BY <2>1, <4>1, <4>2, <4>3
      <3> QED
        BY <3>1, <3>2
    <2>5. server.envelope # None => OneRun(server.envelope.samples, runOf')
      <3> SUFFICES ASSUME server.envelope # None PROVE OneRun(server.envelope.samples, runOf')
        OBVIOUS
      <3>1. \A i \in DOMAIN server.envelope.samples : i \in KeyframesOf(journal) /\ journal # None
        BY DEF IInv, SentInv, IsSent
      <3>2. k \notin DOMAIN server.envelope.samples
        BY <1>1, <3>1
      <3>3. DOMAIN server.envelope.samples \subseteq Keyframes
        BY <1>1, <3>1, SamplesAreKeyframes DEF TypeOK
      <3>4. \A i \in DOMAIN server.envelope.samples : runOf'[i] = runOf[i]
        BY <1>1, <1>3, <3>2, <3>3
      <3> QED
        BY <3>4 DEF IInv, DraftsInv, OneRun
    <2> QED
      BY <1>1, <2>2, <2>3, <2>4, <2>5 DEF DraftsInv
  <1>12. /\ task'[t].draft # None /\ task'[t].draft.acceptance = None
         /\ KeyframesOf(draft) \subseteq Kf(t)' /\ Live(task'[t].draft, runOf', runs)
    BY <1>4, <1>5, <1>7, <1>8 DEF Kf, GuidedConstants
  <1> QED
    BY <1>1, <1>2, <1>4, <1>8, <1>9, <1>10, <1>11, <1>12, Takes

LEMMA StoreDepthStep ==
    ASSUME GuidedConstants, IInv, NEW t \in Tasks, StoreDepth(t)
    PROVE  IInv'
  <1>1. /\ t \in Under /\ task[t].step = "depth" /\ Fine(t)
        /\ task' = [task EXCEPT ![t] = Calling("retain", task[t].draft)]
        /\ UNCHANGED <<draft, journal, state, camera, runOf, active, activations, server>>
        /\ TypeOK /\ PlacesInv
    BY DEF StoreDepth, At, Quiet, IInv
  <1>2. /\ t \in Now /\ t \notin Waiting /\ ~task[t].cancelled /\ Live(draft, runOf, runs)
        /\ KeyframesOf(draft) \subseteq Kf(t) /\ Live(task[t].draft, runOf, runs)
    BY <1>1, TakenNow
  <1>3. task[t].draft \in DraftRows /\ task[t].draft # None /\ task[t].draft.acceptance = None
    BY <1>1 DEF TypeOK, TaskRows, Under, Free, IInv, TasksInv, TaskInv, Shooting
  <1>4. PICK d \in DraftRows : d = task[t].draft
    BY <1>3
  <1>5. PICK r \in TaskRows : r = Task("retain", d) /\ r.step = "retain" /\ r.draft = d
                           /\ r.turn = 0 /\ r.current /\ ~r.cancelled
    BY TaskRow DEF Steps
  <1>6. /\ Called(task, r) = [r EXCEPT !.turn = 1 + Cardinality(Waiting)] /\ Called(task, r) \in TaskRows
        /\ Called(task, r).turn = 1 + Cardinality(Waiting) /\ Called(task, r).turn > 0
    BY <1>1, CallsLast
  <1>7. task' = [task EXCEPT ![t] = Called(task, r)]
    BY <1>1, <1>4, <1>5 DEF Calling
  <1>8. task'[t] = Called(task, r)
    BY <1>1, <1>7 DEF TypeOK
  <1>9. task'[t].step = "retain" /\ task'[t].draft = d /\ task'[t].current /\ ~task'[t].cancelled
    BY <1>5, <1>6, <1>8 DEF TaskRows
  <1>10. task' = [task EXCEPT ![t] = task'[t]]
    BY <1>7, <1>8
  <1>11. /\ task' \in [Tasks -> TaskRows \cup {None}] /\ Others(t) /\ PlacesInv' /\ Waiting' = Waiting \cup {t}
         /\ \A u \in Waiting : task'[u].turn < task'[t].turn
         /\ active' \in Tasks \cup {None} /\ (active' # None => active' \in Under')
    BY <1>1, <1>2, <1>6, <1>8, <1>10, CalledNow
  <1>12. TypeOK' /\ runs' = runs
    <2>1. UNCHANGED <<armed, running, seen, runs>>
      BY <1>1 DEF camera
    <2> QED
      BY <1>1, <1>11, <2>1 DEF TypeOK
  <1>13. DraftsInv'
    <2>1. ASSUME NEW u \in Under' PROVE u \in Under /\ task'[u].draft = task[u].draft
      BY <1>1, <1>4, <1>9, <1>11 DEF Others, Under, Free
    <2> QED
      BY <1>1, <2>1 DEF IInv, DraftsInv
  <1>14. /\ task'[t].draft # None /\ task'[t].draft.acceptance = None
         /\ KeyframesOf(draft) \subseteq Kf(t)' /\ Live(task'[t].draft, runOf', runs)
    BY <1>1, <1>2, <1>3, <1>4, <1>9 DEF Kf
  <1>15. Live(draft, runOf', runs)
    BY <1>1, <1>2
  <1> QED
    BY <1>1, <1>2, <1>6, <1>8, <1>9, <1>11, <1>12, <1>13, <1>14, <1>15, Takes

LEMMA RejectStep ==
    ASSUME GuidedConstants, IInv, NEW t \in Tasks, RejectCandidate(t)
    PROVE  IInv'
  <1>1. /\ t \in Under /\ task[t].step = "shoot" /\ Stop(task, t, "ready") /\ t \notin Waiting
        /\ UNCHANGED <<draft, journal, camera, runOf, activations, server>>
        /\ server \in [session : Nat, assets : SUBSET Keyframes, envelope : EnvelopeRows \cup {None}]
    BY DEF RejectCandidate, At, Quiet, IInv, TypeOK, TasksInv, TaskInv, Waiting, Callers, Writers
  <1>2. ServerMay(t) /\ Shown(t)
    BY <1>1 DEF ServerMay, Shown, Stop, Shooting
  <1> QED
    BY <1>1, <1>2, Closes DEF Stop

LEMMA RetainStep ==
    ASSUME GuidedConstants, IInv, NEW t \in Tasks, Retain(t)
    PROVE  IInv'
  <1>1. /\ t \in Under /\ task[t].step = "retain" /\ Turn(t) /\ t \in Waiting /\ journal' = task[t].draft
        /\ UNCHANGED <<camera, runOf, activations, server>> /\ TypeOK /\ PlacesInv
        /\ server \in [session : Nat, assets : SUBSET Keyframes, envelope : EnvelopeRows \cup {None}]
    BY DEF Retain, At, Quiet, IInv, TypeOK, Waiting, Turn
  <1>2. Wrote(t) /\ task[t].draft \in DraftRows
    BY <1>1, WritesItsDraft DEF Writers
  <1>3. CASE ~Fine(t)
    <2>1. UNCHANGED draft /\ Stop(Served, t, "failed")
      BY <1>3 DEF Retain, AfterSave
    <2>2. ServerMay(t) /\ Shown(t)
      BY <1>1, <2>1 DEF ServerMay, Shown, Stop
    <2> QED
      BY <1>1, <1>2, <2>1, <2>2, Closes DEF Stop
  <1>4. CASE Fine(t)
    <2>1. draft' = task[t].draft /\ Stop(Served, t, "ready") /\ t \in Now
      BY <1>1, <1>4 DEF Retain, AfterSave, Now, Fine
    <2>2. /\ task' \in [Tasks -> TaskRows \cup {None}] /\ task'[t] = None
          /\ Others(t) /\ PlacesInv' /\ Waiting' = Waiting \ {t}
          /\ active' \in Tasks \cup {None} /\ (active' # None => active' \in Under')
      BY <1>1, <2>1, Ended DEF Stop
    <2>3. TypeOK'
      <3>1. UNCHANGED <<armed, running, seen, runs>>
        BY <1>1 DEF camera
      <3> QED
        BY <1>1, <1>2, <2>1, <2>2, <3>1 DEF TypeOK
    <2>4. state' = "ready" /\ journal' = draft'
      BY <1>1, <1>4, <2>1 DEF Stop, Fine
    <2> QED
      BY <1>1, <1>4, <2>1, <2>2, <2>3, <2>4, Retains
  <1> QED
    BY <1>3, <1>4

-----------------------------------------------------------------------------
(* The steps of a submission.                                              *)

\* What is known of a task that submits.
LEMMA Submits ==
    ASSUME GuidedConstants, IInv, NEW t \in Under, task[t].step \in Submission
    PROVE  /\ TypeOK /\ PlacesInv /\ t \in Tasks /\ task[t] \in TaskRows /\ task[t].todo \in SUBSET Keyframes
           /\ task[t].draft \in DraftRows /\ task[t].draft # None
           /\ Sound(task[t].draft, runOf, server.envelope)
           /\ task[t].step = "seal" \/ task[t].draft.acceptance = None
           /\ t \in Waiting <=> task[t].step \in {"prepare", "bind", "receipt", "seal"}
           /\ Turn(t) => t \in Waiting
           /\ task[t].current => t \in Now
           /\ server \in [session : Nat, assets : SUBSET Keyframes, envelope : EnvelopeRows \cup {None}]
  <1>1. TypeOK /\ PlacesInv /\ t \in Tasks /\ task[t] \in TaskRows
    BY DEF IInv, TypeOK, Under, Free
  <1>2. TaskInv(t)
    BY DEF IInv, TasksInv
  <1>3. task[t].draft # None
    BY <1>2 DEF TaskInv, Submission
  <1>4. task[t].draft \in DraftRows /\ task[t].todo \in SUBSET Keyframes
    BY <1>1, <1>3 DEF TaskRows
  <1>5. Sound(task[t].draft, runOf, server.envelope)
    BY <1>3 DEF IInv, DraftsInv
  <1>6. task[t].step = "seal" \/ task[t].draft.acceptance = None
    BY <1>2 DEF TaskInv
  <1>7. t \in Waiting <=> task[t].step \in {"prepare", "bind", "receipt", "seal"}
    BY <1>2 DEF TaskInv, Waiting, Callers, Writers, Submission
  <1>8. (Turn(t) => t \in Waiting) /\ (task[t].current => t \in Now)
    BY DEF Turn, Waiting, Now
  <1>9. server \in [session : Nat, assets : SUBSET Keyframes, envelope : EnvelopeRows \cup {None}]
    BY <1>1 DEF TypeOK
  <1> QED
    BY <1>1, <1>3, <1>4, <1>5, <1>6, <1>7, <1>8, <1>9

\* The submission goes on when the journal has written.
LEMMA GoesFurther ==
    ASSUME GuidedConstants, IInv, NEW t \in Under, Turn(t), task[t].step \in Submission,
           Fine(t) \/ task[t].step \in {"bind", "seal"},
           task'[t] \in TaskRows, task'[t].turn = 0, task' = [Served EXCEPT ![t] = task'[t]],
           draft' \in DraftRows, journal' = draft', Sound(draft', runOf, server.envelope),
           \A k : IsSent(k) => k \in KeyframesOf(draft'),
           UNCHANGED <<camera, runOf, active, server>>,
           \/ /\ state' = "submitting" /\ task'[t].step \in {"open", "upload", "send", "accept"}
              /\ task'[t].draft = draft' /\ draft'.acceptance = None
              /\ task'[t].cancelled = task[t].cancelled /\ task'[t].current = task[t].current
              /\ task'[t].step = "accept" => KeyframesOf(draft') \cap DepthFrames \subseteq draft'.depths
           \/ /\ state' = "accepted" /\ task'[t].step = "check" /\ task'[t].draft = None /\ task'[t].current
              /\ draft'.acceptance # None
    PROVE  IInv'
  <1>1. TypeOK /\ PlacesInv /\ t \in Waiting
    BY Submits
  <1>2. /\ task' \in [Tasks -> TaskRows \cup {None}]
        /\ Others(t) /\ Ordered(t) /\ PlacesInv' /\ Waiting' = Waiting \ {t}
        /\ active' \in Tasks \cup {None} /\ (active' # None => active' \in Under')
    BY <1>1, WentOn
  <1>3. TypeOK'
    BY <1>1, <1>2 DEF TypeOK, camera
  <1> QED
    BY <1>1, <1>2, <1>3, GoesOn

LEMMA GoesOnward ==
    ASSUME GuidedConstants, IInv, NEW t \in Under, Turn(t), task[t].step \in Submission,
           Fine(t) \/ task[t].step = "bind",
           NEW d \in DraftRows, NEW todo \in SUBSET Keyframes, Onward(Served, t, d, todo),
           draft' = d, journal' = d, d.acceptance = None, Sound(d, runOf, server.envelope),
           \A k : IsSent(k) => k \in KeyframesOf(d),
           UNCHANGED <<camera, runOf, server>>
    PROVE  IInv'
  <1>1. TypeOK /\ task[t] \in TaskRows /\ t \in Tasks
    BY Submits
  <1>2. /\ Going(d, todo) \in {"upload", "send", "accept"}
        /\ Going(d, todo) = "accept" => KeyframesOf(d) \cap DepthFrames \subseteq d.depths
    BY DEF Going
  <1> DEFINE w == [task[t] EXCEPT !.step = Going(d, todo), !.draft = d, !.turn = 0, !.todo = todo, !.sent = None]
  <1>3. /\ w \in TaskRows /\ w.step = Going(d, todo) /\ w.draft = d /\ w.turn = 0
        /\ w.current = task[t].current /\ w.cancelled = task[t].cancelled
    BY <1>1, <1>2 DEF TaskRows, Steps
  <1>4. task' = [Served EXCEPT ![t] = w] /\ state' = "submitting" /\ UNCHANGED active
    BY DEF Onward
  <1> HIDE DEF w
  <1>5. task'[t] = w
    BY <1>1, <1>4, ServedRows
  <1>6. task' = [Served EXCEPT ![t] = task'[t]]
    BY <1>4, <1>5
  <1>7. /\ task'[t] \in TaskRows /\ task'[t].turn = 0
        /\ task'[t].step \in {"open", "upload", "send", "accept"} /\ task'[t].draft = draft'
        /\ task'[t].cancelled = task[t].cancelled /\ task'[t].current = task[t].current
        /\ task'[t].step = "accept" => KeyframesOf(draft') \cap DepthFrames \subseteq draft'.depths
    BY <1>2, <1>3, <1>5
  <1> QED
    BY <1>4, <1>6, <1>7, GoesFurther

\* The submission saves what the server has answered.
LEMMA CallsFurther ==
    ASSUME GuidedConstants, IInv, NEW t \in Under, task[t].step \in Submission, t \notin Waiting, Fine(t),
           NEW r \in TaskRows, r.current = task[t].current, r.cancelled = task[t].cancelled,
           r.step \in {"bind", "receipt", "seal"}, r.draft \in DraftRows, KeyframesOf(r.draft) = Kf(t),
           Sound(r.draft, runOf, server'.envelope), r.step = "seal" <=> r.draft.acceptance # None,
           task' = [task EXCEPT ![t] = Called(task, r)],
           UNCHANGED <<draft, journal, state, camera, runOf, active>>,
           server' \in [session : Nat, assets : SUBSET Keyframes, envelope : EnvelopeRows \cup {None}],
           ServerMay(t)
    PROVE  IInv'
  <1>1. TypeOK /\ PlacesInv /\ t \in Now /\ t \in Tasks
    BY Submits DEF Fine
  <1>2. /\ Called(task, r) = [r EXCEPT !.turn = 1 + Cardinality(Waiting)]
        /\ Called(task, r) \in TaskRows /\ Called(task, r).turn = 1 + Cardinality(Waiting)
    BY <1>1, CallsLast
  <1>3. task'[t] = Called(task, r)
    BY <1>1 DEF TypeOK
  <1>4. /\ task'[t] \in TaskRows /\ task'[t].turn = 1 + Cardinality(Waiting)
        /\ task'[t].current = r.current /\ task'[t].cancelled = r.cancelled
        /\ task'[t].step = r.step /\ task'[t].draft = r.draft
    BY <1>2, <1>3 DEF TaskRows
  <1>5. task' = [task EXCEPT ![t] = task'[t]]
    BY <1>3
  <1>6. /\ task' \in [Tasks -> TaskRows \cup {None}]
        /\ Others(t) /\ PlacesInv' /\ Waiting' = Waiting \cup {t}
        /\ active' \in Tasks \cup {None} /\ (active' # None => active' \in Under')
    BY <1>1, <1>4, <1>5, CalledNow
  <1>7. TypeOK'
    BY <1>1, <1>6 DEF TypeOK, camera
  <1>8. Kf(t)' = Kf(t)
    BY <1>4 DEF Kf
  <1>9. Sound(task'[t].draft, runOf, server'.envelope)
    BY <1>4
  <1> QED
    BY <1>1, <1>4, <1>6, <1>7, <1>8, <1>9, CallsOn

LEMMA PrepareStep ==
    ASSUME GuidedConstants, IInv, NEW t \in Tasks, Prepare(t)
    PROVE  IInv'
  <1>1. /\ t \in Under /\ task[t].step = "prepare" /\ Turn(t) /\ journal' = task[t].draft
        /\ UNCHANGED <<camera, runOf, activations, server>> /\ task[t].step \in Submission
    BY DEF Prepare, At, Quiet, Submission
  <1>2. /\ TypeOK /\ task[t] \in TaskRows /\ t \in Waiting
        /\ task[t].draft \in DraftRows /\ Sound(task[t].draft, runOf, server.envelope)
        /\ task[t].draft.acceptance = None
        /\ server \in [session : Nat, assets : SUBSET Keyframes, envelope : EnvelopeRows \cup {None}]
    BY <1>1, Submits
  <1>3. Wrote(t)
    BY <1>1, <1>2, WritesItsDraft DEF Writers
  <1>4. CASE ~Fine(t)
    <2>1. Stop(Served, t, "review") /\ UNCHANGED draft
      BY <1>4 DEF Prepare, GivenUp
    <2>2. Shown(t) /\ ServerMay(t)
      BY <1>1, <2>1 DEF Stop, Shown, ServerMay
    <2> QED
      BY <1>1, <1>2, <1>3, <2>1, <2>2, Closes DEF Stop
  <1>5. CASE Fine(t)
    <2>1. PICK d \in DraftRows : d = task[t].draft
      BY <1>2
    <2>2. /\ draft' = d /\ journal' = d /\ d.acceptance = None /\ Sound(d, runOf, server.envelope)
          /\ \A k : IsSent(k) => k \in KeyframesOf(d)
      BY <1>1, <1>2, <1>3, <1>5, <2>1 DEF Prepare, Wrote
    <2>3. CASE task[t].draft.session
      <3>1. Onward(Served, t, d, Pending(d))
        BY <1>5, <2>1, <2>3 DEF Prepare
      <3>2. PICK todo \in SUBSET Keyframes : todo = Pending(d)
        BY SamplesAreKeyframes DEF Pending
      <3> QED
        BY <1>1, <1>5, <2>2, <3>1, <3>2, GoesOnward
    <2>4. CASE ~task[t].draft.session
      <3>1. state' = "submitting" /\ UNCHANGED active /\ task' = [Served EXCEPT ![t].step = "open"]
        BY <1>5, <2>4 DEF Prepare
      <3>2. Served[t] = [task[t] EXCEPT !.turn = 0]
        BY <1>1, <1>2, ServedRows
      <3>3. task'[t] = [Served[t] EXCEPT !.step = "open"] /\ Served[t] \in TaskRows
        <4>1. Served[t] \in TaskRows
          BY <1>2, <3>2 DEF TaskRows
        <4> QED
          BY <1>2, <3>1, <4>1, ServedRows
      <3>4. /\ task'[t] \in TaskRows /\ task'[t].turn = 0 /\ task'[t].step = "open" /\ task'[t].draft = d
            /\ task'[t].current = task[t].current /\ task'[t].cancelled = task[t].cancelled
        <4>1. "open" \in Steps
          BY DEF Steps
        <4>2. task'[t] \in TaskRows
          BY <3>3, <4>1 DEF TaskRows
        <4>3. /\ task'[t].turn = 0 /\ task'[t].step = "open" /\ task'[t].draft = task[t].draft
              /\ task'[t].current = task[t].current /\ task'[t].cancelled = task[t].cancelled
          BY <1>2, <3>2, <3>3 DEF TaskRows
        <4> QED
          BY <2>1, <4>2, <4>3
      <3>5. task' = [Served EXCEPT ![t] = task'[t]]
        BY <3>1, <1>2, ServedRows
      <3> QED
        BY <1>1, <1>5, <2>2, <3>1, <3>4, <3>5, GoesFurther
    <2> QED
      BY <2>3, <2>4
  <1> QED
    BY <1>4, <1>5

LEMMA BindStep ==
    ASSUME GuidedConstants, IInv, NEW t \in Tasks, BindSession(t)
    PROVE  IInv'
  <1>1. /\ t \in Under /\ task[t].step = "bind" /\ Turn(t) /\ journal' = task[t].draft /\ draft' = task[t].draft
        /\ Onward(Served, t, task[t].draft, Pending(task[t].draft))
        /\ UNCHANGED <<camera, runOf, activations, server>> /\ task[t].step \in Submission
    BY DEF BindSession, At, Quiet, Submission
  <1>2. /\ t \in Waiting /\ task[t].draft.acceptance = None
        /\ task[t].draft \in DraftRows /\ Sound(task[t].draft, runOf, server.envelope)
    BY <1>1, Submits
  <1>3. Wrote(t)
    BY <1>1, <1>2, WritesItsDraft DEF Writers
  <1>4. PICK d \in DraftRows : d = task[t].draft
    BY <1>2
  <1>5. PICK todo \in SUBSET Keyframes : todo = Pending(d)
    BY SamplesAreKeyframes DEF Pending
  <1>6. /\ draft' = d /\ journal' = d /\ d.acceptance = None /\ Sound(d, runOf, server.envelope)
        /\ \A k : IsSent(k) => k \in KeyframesOf(d)
    BY <1>1, <1>2, <1>3, <1>4 DEF Wrote
  <1> QED
    BY <1>1, <1>4, <1>5, <1>6, GoesOnward

\* The server has a session for the rooms of the draft.
LEMMA OpenSessionStep ==
    ASSUME GuidedConstants, IInv, NEW t \in Tasks, OpenSession(t)
    PROVE  IInv'
  <1>1. /\ t \in Under /\ task[t].step = "open" /\ server' = [server EXCEPT !.session = task[t].draft.rooms]
        /\ UNCHANGED <<draft, journal, camera, runOf, activations>> /\ task[t].step \in Submission
    BY DEF OpenSession, At, Submission
  <1>2. /\ TypeOK /\ task[t] \in TaskRows /\ t \notin Waiting /\ task[t].draft.acceptance = None
        /\ task[t].draft \in DraftRows /\ Sound(task[t].draft, runOf, server.envelope)
        /\ server \in [session : Nat, assets : SUBSET Keyframes, envelope : EnvelopeRows \cup {None}]
    BY <1>1, Submits
  <1>3. /\ server' \in [session : Nat, assets : SUBSET Keyframes, envelope : EnvelopeRows \cup {None}]
        /\ server'.envelope = server.envelope /\ ServerMay(t)
    <2>1. task[t].draft.rooms \in Nat
      BY <1>2 DEF DraftRows
    <2> QED
      BY <1>1, <1>2, <2>1 DEF ServerMay
  <1>4. CASE ~Fine(t)
    <2>1. Stop(task, t, "review")
      BY <1>4 DEF OpenSession, GivenUp
    <2>2. Shown(t)
      BY <1>1, <2>1 DEF Stop, Shown
    <2> QED
      BY <1>1, <1>2, <1>3, <2>1, <2>2, Closes DEF Stop
  <1>5. CASE Fine(t)
    <2> DEFINE w == [task[t] EXCEPT !.step = "bind", !.draft.session = TRUE]
    <2>1. /\ w \in TaskRows /\ w.step = "bind" /\ w.draft = [task[t].draft EXCEPT !.session = TRUE]
          /\ w.current = task[t].current /\ w.cancelled = task[t].cancelled
      <3>1. "bind" \in Steps
        BY DEF Steps
      <3>2. [task[t].draft EXCEPT !.session = TRUE] \in DraftRows
        BY <1>2 DEF DraftRows
      <3> QED
        BY <1>2, <3>1, <3>2 DEF TaskRows
    <2>2. task' = [task EXCEPT ![t] = Called(task, w)] /\ UNCHANGED <<state, active>>
      BY <1>5 DEF OpenSession, Calls
    <2> HIDE DEF w
    <2>3. \E x \in TaskRows : x = w
      BY <2>1
    <2>4. PICK r \in TaskRows : r = w
      BY <2>3
    <2>5. /\ r.draft \in DraftRows /\ r.draft.samples = task[t].draft.samples
          /\ r.draft.segment = task[t].draft.segment /\ r.draft.acceptance = None
      BY <1>2, <2>1, <2>4 DEF DraftRows
    <2>6. KeyframesOf(r.draft) = Kf(t) /\ Sound(r.draft, runOf, server'.envelope)
      BY <1>2, <2>5 DEF KeyframesOf, Kf, Sound, Complete
    <2> QED
      BY <1>1, <1>2, <1>3, <1>5, <2>1, <2>2, <2>4, <2>5, <2>6, CallsFurther
  <1> QED
    BY <1>4, <1>5

\* The server has the asset of a keyframe.
LEMMA UploadStep ==
    ASSUME GuidedConstants, IInv, NEW t \in Tasks, NEW k \in Keyframes, Upload(t, k)
    PROVE  IInv'
  <1>1. /\ t \in Under /\ task[t].step = "upload" /\ server' = [server EXCEPT !.assets = @ \cup {k}]
        /\ UNCHANGED <<draft, journal, camera, runOf, activations>> /\ task[t].step \in Submission
    BY DEF Upload, At, Submission
  <1>2. /\ TypeOK /\ task[t] \in TaskRows /\ t \notin Waiting /\ task[t].draft.acceptance = None
        /\ task[t].draft \in DraftRows /\ Sound(task[t].draft, runOf, server.envelope)
        /\ server \in [session : Nat, assets : SUBSET Keyframes, envelope : EnvelopeRows \cup {None}]
    BY <1>1, Submits
  <1>3. /\ server' \in [session : Nat, assets : SUBSET Keyframes, envelope : EnvelopeRows \cup {None}]
        /\ server'.envelope = server.envelope /\ ServerMay(t)
    BY <1>1, <1>2 DEF ServerMay
  <1>4. CASE ~Fine(t)
    <2>1. Stop(task, t, "review")
      BY <1>4 DEF Upload, GivenUp
    <2>2. Shown(t)
      BY <1>1, <2>1 DEF Stop, Shown
    <2> QED
      BY <1>1, <1>2, <1>3, <2>1, <2>2, Closes DEF Stop
  <1>5. CASE Fine(t)
    <2> DEFINE w == [task[t] EXCEPT !.step = "receipt", !.todo = @ \ {k}, !.sent = k]
    <2>1. /\ w \in TaskRows /\ w.step = "receipt" /\ w.draft = task[t].draft
          /\ w.current = task[t].current /\ w.cancelled = task[t].cancelled
      <3>1. "receipt" \in Steps
        BY DEF Steps
      <3> QED
        BY <1>2, <3>1 DEF TaskRows
    <2>2. task' = [task EXCEPT ![t] = Called(task, w)] /\ UNCHANGED <<state, active>>
      BY <1>5 DEF Upload, Calls
    <2> HIDE DEF w
    <2>3. \E x \in TaskRows : x = w
      BY <2>1
    <2>4. PICK r \in TaskRows : r = w
      BY <2>3
    <2>5. KeyframesOf(r.draft) = Kf(t) /\ Sound(r.draft, runOf, server'.envelope)
      BY <1>2, <1>3, <2>1, <2>4 DEF Kf
    <2> QED
      BY <1>1, <1>2, <1>3, <1>5, <2>1, <2>2, <2>4, <2>5, CallsFurther
  <1> QED
    BY <1>4, <1>5

LEMMA ReceiptStep ==
    ASSUME GuidedConstants, IInv, NEW t \in Tasks, RecordMediaReceipt(t)
    PROVE  IInv'
  <1>1. /\ t \in Under /\ task[t].step = "receipt" /\ Turn(t)
        /\ journal # None /\ journal.acceptance = None /\ task[t].sent \in KeyframesOf(journal)
        /\ journal' = [journal EXCEPT !.receipts = @ \cup {task[t].sent}]
        /\ UNCHANGED <<camera, runOf, activations, server>> /\ task[t].step \in Submission
    BY DEF RecordMediaReceipt, At, Quiet, Submission
  <1>2. /\ TypeOK /\ task[t] \in TaskRows /\ t \in Waiting /\ task[t].todo \in SUBSET Keyframes
        /\ server \in [session : Nat, assets : SUBSET Keyframes, envelope : EnvelopeRows \cup {None}]
    BY <1>1, Submits
  <1>3. journal \in DraftRows /\ Sound(journal, runOf, server.envelope)
    BY <1>1, <1>2 DEF TypeOK, IInv, DraftsInv
  <1>4. /\ journal' \in DraftRows /\ journal'.samples = journal.samples
        /\ journal'.segment = journal.segment /\ journal'.acceptance = None
    <2>1. task[t].sent \in Keyframes
      BY <1>1, <1>3, SamplesAreKeyframes
    <2> QED
      BY <1>1, <1>3, <2>1 DEF DraftRows
  <1>5. KeyframesOf(journal') = KeyframesOf(journal) /\ Sound(journal', runOf, server.envelope)
    BY <1>3, <1>4 DEF KeyframesOf, Sound, Complete
  <1>6. \A k : IsSent(k) => k \in KeyframesOf(journal')
    BY <1>5 DEF IInv, SentInv
  <1>7. CASE ~Fine(t)
    <2>1. Stop(Served, t, "review") /\ UNCHANGED draft
      BY <1>7 DEF RecordMediaReceipt, GivenUp
    <2>2. Shown(t) /\ ServerMay(t)
      BY <1>1, <2>1 DEF Stop, Shown, ServerMay
    <2>3. draft # None => KeyframesOf(draft) \subseteq KeyframesOf(journal')
      BY <1>5 DEF IInv, ProtectedInv
    <2>4. Wrote(t)
      BY <1>1, <1>2, <1>4, <1>5, <1>6, <2>3 DEF Wrote
    <2> QED
      BY <1>1, <1>2, <2>1, <2>2, <2>4, Closes DEF Stop
  <1>8. CASE Fine(t)
    <2>1. PICK d \in DraftRows : d = journal'
      BY <1>4
    <2>2. PICK todo \in SUBSET Keyframes : todo = task[t].todo
      BY <1>2
    <2>3. draft' = d /\ Onward(Served, t, d, todo)
      BY <1>8, <2>1, <2>2 DEF RecordMediaReceipt
    <2> QED
      BY <1>1, <1>4, <1>5, <1>6, <1>8, <2>1, <2>3, GoesOnward
  <1> QED
    BY <1>7, <1>8

LEMMA SendDepthStep ==
    ASSUME GuidedConstants, IInv, NEW t \in Tasks, NEW k \in Keyframes, SendDepth(t, k)
    PROVE  IInv'
  <1>1. /\ t \in Under /\ task[t].step = "send"
        /\ UNCHANGED <<draft, journal, camera, runOf, activations, server>> /\ task[t].step \in Submission
    BY DEF SendDepth, At, Quiet, Submission
  <1>2. /\ TypeOK /\ task[t] \in TaskRows /\ t \notin Waiting /\ task[t].draft.acceptance = None
        /\ task[t].draft \in DraftRows /\ Sound(task[t].draft, runOf, server.envelope)
        /\ server \in [session : Nat, assets : SUBSET Keyframes, envelope : EnvelopeRows \cup {None}]
    BY <1>1, Submits
  <1>3. ServerMay(t)
    BY <1>1 DEF ServerMay
  <1>4. CASE ~Fine(t)
    <2>1. Stop(task, t, "review")
      BY <1>4 DEF SendDepth, GivenUp
    <2>2. Shown(t)
      BY <1>1, <2>1 DEF Stop, Shown
    <2> QED
      BY <1>1, <1>2, <1>3, <2>1, <2>2, Closes DEF Stop
  <1>5. CASE Fine(t)
    <2> DEFINE w == [task[t] EXCEPT !.step = "bind", !.draft.depths = @ \cup {k}]
    <2>1. /\ w \in TaskRows /\ w.step = "bind" /\ w.draft = [task[t].draft EXCEPT !.depths = @ \cup {k}]
          /\ w.current = task[t].current /\ w.cancelled = task[t].cancelled
      <3>1. "bind" \in Steps
        BY DEF Steps
      <3>2. [task[t].draft EXCEPT !.depths = @ \cup {k}] \in DraftRows
        BY <1>2 DEF DraftRows
      <3> QED
        BY <1>2, <3>1, <3>2 DEF TaskRows
    <2>2. task' = [task EXCEPT ![t] = Called(task, w)] /\ UNCHANGED <<state, active>>
      BY <1>5 DEF SendDepth, Calls
    <2> HIDE DEF w
    <2>3. \E x \in TaskRows : x = w
      BY <2>1
    <2>4. PICK r \in TaskRows : r = w
      BY <2>3
    <2>5. /\ r.draft \in DraftRows /\ r.draft.samples = task[t].draft.samples
          /\ r.draft.segment = task[t].draft.segment /\ r.draft.acceptance = None
      BY <1>2, <2>1, <2>4 DEF DraftRows
    <2>6. KeyframesOf(r.draft) = Kf(t) /\ Sound(r.draft, runOf, server'.envelope)
      BY <1>1, <1>2, <2>5 DEF KeyframesOf, Kf, Sound, Complete
    <2> QED
      BY <1>1, <1>2, <1>3, <1>5, <2>1, <2>2, <2>4, <2>5, <2>6, CallsFurther
  <1> QED
    BY <1>4, <1>5

\* The server has the envelope of the draft.
LEMMA AcceptStep ==
    ASSUME GuidedConstants, IInv, NEW t \in Tasks, AcceptEnvelope(t)
    PROVE  IInv'
  <1>1. /\ t \in Under /\ task[t].step = "accept" /\ Pending(task[t].draft) = {} /\ server.envelope = None
        /\ server' = [server EXCEPT !.envelope = IF @ = None THEN Envelope(task[t].draft) ELSE @]
        /\ UNCHANGED <<draft, journal, camera, runOf, activations>> /\ task[t].step \in Submission
    BY DEF AcceptEnvelope, IsFirst, At, Submission
  <1>2. /\ TypeOK /\ task[t] \in TaskRows /\ t \notin Waiting /\ task[t].draft.acceptance = None
        /\ task[t].draft \in DraftRows /\ Sound(task[t].draft, runOf, server.envelope)
        /\ server \in [session : Nat, assets : SUBSET Keyframes, envelope : EnvelopeRows \cup {None}]
    BY <1>1, Submits
  <1>3. Kf(t) \cap DepthFrames \subseteq task[t].draft.depths
    BY <1>1 DEF IInv, TasksInv, TaskInv
  <1>4. PICK e \in EnvelopeRows : e = Envelope(task[t].draft)
    <2>1. Envelope(task[t].draft) \in EnvelopeRows
      BY <1>2 DEF DraftRows, EnvelopeRows, Envelope
    <2> QED
      BY <2>1
  <1>5. /\ server' \in [session : Nat, assets : SUBSET Keyframes, envelope : EnvelopeRows \cup {None}]
        /\ server'.envelope = e /\ ServerMay(t)
    BY <1>1, <1>2, <1>4 DEF ServerMay
  <1>6. e # None
    BY DEF GuidedConstants
  <1>7. CASE ~Fine(t)
    <2>1. Stop(task, t, "review")
      BY <1>7 DEF AcceptEnvelope, GivenUp
    <2>2. Shown(t)
      BY <1>1, <2>1 DEF Stop, Shown
    <2> QED
      BY <1>1, <1>2, <1>5, <2>1, <2>2, Closes DEF Stop
  <1>8. CASE Fine(t)
    <2> DEFINE w == [task[t] EXCEPT !.step = "seal", !.draft.acceptance = e]
    <2>1. /\ w \in TaskRows /\ w.step = "seal" /\ w.draft = [task[t].draft EXCEPT !.acceptance = e]
          /\ w.current = task[t].current /\ w.cancelled = task[t].cancelled
      <3>1. "seal" \in Steps
        BY DEF Steps
      <3>2. [task[t].draft EXCEPT !.acceptance = e] \in DraftRows
        BY <1>2 DEF DraftRows
      <3> QED
        BY <1>2, <3>1, <3>2 DEF TaskRows
    <2>2. task' = [task EXCEPT ![t] = Called(task, w)] /\ UNCHANGED <<state, active>>
      BY <1>4, <1>8 DEF AcceptEnvelope, Calls
    <2> HIDE DEF w
    <2>3. \E x \in TaskRows : x = w
      BY <2>1
    <2>4. PICK r \in TaskRows : r = w
      BY <2>3
    <2>5. /\ r.draft \in DraftRows /\ r.draft.samples = task[t].draft.samples
          /\ r.draft.segment = task[t].draft.segment /\ r.draft.acceptance = e
          /\ r.draft.rooms = task[t].draft.rooms /\ r.draft.note = task[t].draft.note
          /\ r.draft.receipts = task[t].draft.receipts /\ r.draft.depths = task[t].draft.depths
          /\ r.draft.acceptance # None
      BY <1>2, <1>6, <2>1, <2>4 DEF DraftRows
    <2>6. KeyframesOf(r.draft) = Kf(t)
      BY <2>5 DEF KeyframesOf, Kf
    <2>7. Complete(r.draft, e)
      BY <1>1, <1>3, <1>4, <2>5, <2>6 DEF Complete, Envelope, Pending, KeyframesOf, Kf
    <2>8. Sound(r.draft, runOf, server'.envelope)
      BY <1>2, <1>5, <2>5, <2>7 DEF KeyframesOf, Sound
    <2> QED
      BY <1>1, <1>2, <1>5, <1>8, <2>1, <2>2, <2>4, <2>5, <2>6, <2>8, CallsFurther
  <1> QED
    BY <1>7, <1>8

LEMMA SealStep ==
    ASSUME GuidedConstants, IInv, NEW t \in Tasks, Seal(t)
    PROVE  IInv'
  <1>1. /\ t \in Under /\ task[t].step = "seal" /\ Turn(t) /\ journal' = task[t].draft /\ draft' = task[t].draft
        /\ state' = "accepted"
        /\ task' = [Served EXCEPT ![t] = [Task("check", None) EXCEPT !.cancelled = task[t].cancelled]]
        /\ UNCHANGED <<camera, runOf, active, activations, server>> /\ task[t].step \in Submission
    BY DEF Seal, At, Quiet, Submission
  <1>2. /\ TypeOK /\ t \in Tasks /\ task[t] \in TaskRows /\ t \in Waiting /\ task[t].draft \in DraftRows
        /\ Sound(task[t].draft, runOf, server.envelope)
    BY <1>1, Submits
  <1>3. Wrote(t)
    BY <1>1, <1>2, WritesItsDraft DEF Writers
  <1>4. task[t].draft.acceptance # None
    BY <1>1 DEF IInv, TasksInv, TaskInv
  <1> DEFINE w == [Task("check", None) EXCEPT !.cancelled = task[t].cancelled]
  <1>5. w \in TaskRows /\ w.step = "check" /\ w.draft = None /\ w.turn = 0 /\ w.current
    <2>1. "check" \in Steps
      BY DEF Steps
    <2> QED
      BY <1>2, <2>1 DEF Task, TaskRows
  <1>6. task' = [Served EXCEPT ![t] = w]
    BY <1>1
  <1> HIDE DEF w
  <1>7. task'[t] = w
    BY <1>2, <1>6, ServedRows
  <1>8. task' = [Served EXCEPT ![t] = task'[t]]
    BY <1>6, <1>7
  <1>9. /\ draft' \in DraftRows /\ journal' = draft' /\ Sound(draft', runOf, server.envelope)
        /\ \A k : IsSent(k) => k \in KeyframesOf(draft')
    BY <1>1, <1>2, <1>3 DEF Wrote
  <1> QED
    BY <1>1, <1>4, <1>5, <1>7, <1>8, <1>9, GoesFurther

LEMMA AnswerLostStep ==
    ASSUME GuidedConstants, IInv, NEW t \in Tasks, AnswerLost(t)
    PROVE  IInv'
  <1>1. /\ t \in Under /\ task[t].step \in {"open", "upload", "accept"}
        /\ UNCHANGED <<draft, journal, camera, runOf, activations>> /\ task[t].step \in Submission
    BY DEF AnswerLost, At, Submission
  <1>2. /\ TypeOK /\ task[t].draft \in DraftRows /\ t \notin Waiting /\ task[t].todo \in SUBSET Keyframes
        /\ server \in [session : Nat, assets : SUBSET Keyframes, envelope : EnvelopeRows \cup {None}]
    BY <1>1, Submits
  <1>3. /\ server' \in [session : Nat, assets : SUBSET Keyframes, envelope : EnvelopeRows \cup {None}]
        /\ ServerMay(t)
    <2>1. CASE server' = [server EXCEPT !.session = task[t].draft.rooms]
      <3>1. task[t].draft.rooms \in Nat
        BY <1>2 DEF DraftRows
      <3> QED
        BY <1>2, <2>1, <3>1 DEF ServerMay
    <2>2. CASE \E k \in task[t].todo : server' = [server EXCEPT !.assets = @ \cup {k}]
      BY <1>2, <2>2 DEF ServerMay
    <2>3. CASE server.envelope = None /\ server' = [server EXCEPT !.envelope = Envelope(task[t].draft)]
      <3>1. Envelope(task[t].draft) \in EnvelopeRows
        BY <1>2 DEF DraftRows, EnvelopeRows, Envelope
      <3> QED
        BY <1>1, <1>2, <2>3, <3>1 DEF ServerMay
    <2> QED
      BY <2>1, <2>2, <2>3 DEF AnswerLost
  <1>4. PICK s \in {"failed", "stopped"} : Stop(task, t, s)
    BY DEF AnswerLost
  <1>5. Shown(t)
    BY <1>1, <1>4 DEF Stop, Shown
  <1> QED
    BY <1>1, <1>2, <1>3, <1>4, <1>5, Closes DEF Stop

-----------------------------------------------------------------------------
(* What does not happen, and what is answered.                             *)

LEMMA FailsStep ==
    ASSUME GuidedConstants, IInv, NEW t \in Tasks, Fails(t)
    PROVE  IInv'
  <1>1. /\ t \in Under /\ task[t].step \notin {"load", "ask", "create", "save", "check", "reconstruct"}
        /\ UNCHANGED <<draft, journal, camera, runOf, activations, server>>
        /\ server \in [session : Nat, assets : SUBSET Keyframes, envelope : EnvelopeRows \cup {None}]
    BY DEF Fails, Quiet, IInv, TypeOK
  <1>2. PICK s \in {"failed", "review", "stopped"} :
            /\ Stop(IF Turn(t) THEN Served ELSE task, t, s)
            /\ s # "failed" => task[t].step \in Submission
    BY DEF Fails, Submission
  <1>3. \/ Turn(t) /\ task' = [Served EXCEPT ![t] = None]
        \/ t \notin Waiting /\ task' = [task EXCEPT ![t] = None]
    <2>1. CASE Turn(t)
      BY <1>2, <2>1 DEF Stop
    <2>2. CASE ~Turn(t)
      <3>1. t \notin Waiting
        BY <2>2 DEF Fails, Waiting
      <3> QED
        BY <1>2, <2>2, <3>1 DEF Stop
    <2> QED
      BY <2>1, <2>2
  <1>4. active' = IF active = t THEN None ELSE active
    BY <1>2 DEF Stop
  <1>5. Shown(t) /\ ServerMay(t)
    <2>1. state' = IF task[t].current THEN s ELSE state
      BY <1>2 DEF Stop
    <2> QED
      BY <1>1, <1>2, <2>1 DEF Shown, ServerMay
  <1> QED
    BY <1>1, <1>3, <1>4, <1>5, Closes

LEMMA AnsweredStep ==
    ASSUME GuidedConstants, IInv, NEW t \in Tasks, Answered(t)
    PROVE  IInv'
  <1>1. /\ t \in Under /\ task[t].step \in {"check", "reconstruct"} /\ t \notin Waiting
        /\ UNCHANGED <<draft, journal, camera, runOf, activations, server>>
        /\ server \in [session : Nat, assets : SUBSET Keyframes, envelope : EnvelopeRows \cup {None}]
    BY DEF Answered, At, Quiet, IInv, TypeOK, TasksInv, TaskInv, Waiting, Callers, Writers
  <1>2. PICK s \in {"accepted", "usable", "reconstructed", "failed", "stopped"} : Stop(task, t, s)
    BY DEF Answered
  <1>3. Shown(t) /\ ServerMay(t)
    <2>1. state' = IF task[t].current THEN s ELSE state
      BY <1>2 DEF Stop
    <2> QED
      BY <1>1, <1>2, <2>1 DEF Shown, ServerMay
  <1> QED
    BY <1>1, <1>2, <1>3, Closes DEF Stop

-----------------------------------------------------------------------------
(* The user at the screen.                                                 *)

LEMMA CallingRow ==
    ASSUME GuidedConstants, TypeOK, NEW step \in Steps, NEW d \in DraftRows \cup {None}
    PROVE  /\ Calling(step, d) \in TaskRows /\ Calling(step, d).step = step /\ Calling(step, d).draft = d
           /\ Calling(step, d).turn = 1 + Cardinality(Waiting) /\ Calling(step, d).turn > 0
           /\ Calling(step, d).current /\ ~Calling(step, d).cancelled
  <1>1. PICK r \in TaskRows : /\ r = Task(step, d) /\ r.step = step /\ r.draft = d
                              /\ r.current /\ ~r.cancelled
    BY TaskRow
  <1>2. /\ Called(task, r) = [r EXCEPT !.turn = 1 + Cardinality(Waiting)]
        /\ Called(task, r) \in TaskRows /\ Called(task, r).turn = 1 + Cardinality(Waiting)
        /\ Called(task, r).turn > 0
    BY CallsLast
  <1>3. Calling(step, d) = Called(task, r)
    BY <1>1 DEF Calling
  <1>4. /\ Called(task, r).step = step /\ Called(task, r).draft = d
        /\ Called(task, r).current /\ ~Called(task, r).cancelled
    BY <1>1, <1>2 DEF TaskRows
  <1> QED
    BY <1>2, <1>3, <1>4

\* A task begins beside the others, of which one may be cancelled.
LEMMA Starts ==
    ASSUME GuidedConstants, TypeOK, PlacesInv,
           NEW r \in TaskRows, r.current, r.turn \in {0, 1 + Cardinality(Waiting)},
           NEW tasks, tasks = task \/ tasks = Cancelled(task, active),
           Track(tasks, r) \/ (tasks = task /\ Spawn(r))
    PROVE  \E t \in Free :
              /\ task' \in [Tasks -> TaskRows \cup {None}] /\ task'[t] = r /\ Beside(t) /\ PlacesInv'
              /\ active' \in Tasks \cup {None} /\ (active' # None => active' \in Under')
              /\ Track(tasks, r) => active' = t
              /\ \A u \in Under : task'[u] = tasks[u]
  <1>1. PICK t \in Free : task' = [tasks EXCEPT ![t] = r] /\ (active' = t \/ (active' = active /\ ~Track(tasks, r)))
    <2>1. CASE Track(tasks, r)
      BY <2>1 DEF Track
    <2>2. CASE ~Track(tasks, r)
      BY <2>2 DEF Spawn
    <2> QED
      BY <2>1, <2>2
  <1>2. /\ t \in Tasks /\ t \notin Under /\ Under \subseteq Tasks /\ t # None
        /\ task \in [Tasks -> TaskRows \cup {None}]
        /\ \A u \in Under : task[u] \in TaskRows
        /\ \A u \in Free : u \in Tasks /\ task[u] = None
        /\ None \notin TaskRows
    BY DEF Under, Free, TypeOK, GuidedConstants
  <1>3. /\ tasks \in [Tasks -> TaskRows \cup {None}]
        /\ \A u \in Free : tasks[u] = None
        /\ \A u \in Under :
              /\ tasks[u] \in TaskRows /\ tasks[u].step = task[u].step /\ tasks[u].draft = task[u].draft
              /\ tasks[u].current = task[u].current /\ tasks[u].turn = task[u].turn
    <2>1. CASE tasks = task
      BY <1>2, <2>1
    <2>2. CASE tasks = Cancelled(task, active)
      BY <2>2, CancelledRows
    <2> QED
      BY <2>1, <2>2
  <1>4. /\ task' \in [Tasks -> TaskRows \cup {None}] /\ task'[t] = r
        /\ \A u \in Tasks \ {t} : task'[u] = tasks[u]
    BY <1>1, <1>2, <1>3
  <1>5. \A u \in Under : task'[u] = tasks[u]
    BY <1>2, <1>4
  <1>6. Beside(t)
    BY <1>2, <1>3, <1>4, <1>5 DEF Beside, Joins
  <1>7. PlacesInv'
    BY <1>4, <1>6, NewTaskKeepsPlaces DEF Beside
  <1>8. active \in Tasks \cup {None} /\ (active # None => active \in Under)
    BY DEF TypeOK
  <1>9. Under' = Under \cup {t}
    BY <1>6, NewTask
  <1>10. active' \in Tasks \cup {None} /\ (active' # None => active' \in Under')
    BY <1>1, <1>2, <1>8, <1>9
  <1> QED
    BY <1>1, <1>4, <1>5, <1>6, <1>7, <1>10

\* Nothing is under way, nor waits, of a capture on the screen.
LEMMA NobodyWaits ==
    ASSUME GuidedConstants, IInv, \A u \in Under : task[u].step \notin Local /\ ~task[u].cancelled,
           ~Accepted, state # "submitting"
    PROVE  Waiting = {} /\ Now = {} /\ \A u \in Under : task[u].step # "create"
  BY AtRest

\* The user begins to save, or to go on to the next segment.
LEMMA SavesOrMoves ==
    ASSUME GuidedConstants, IInv, \A u \in Under : task[u].step \notin Local /\ ~task[u].cancelled,
           draft # None, draft.acceptance = None, state # "submitting",
           NEW d \in DraftRows, NEW step \in {"save", "move", "prepare"},
           NEW tasks, tasks = task \/ tasks = Cancelled(task, active),
           Track(tasks, Calling(step, d)) \/ (step = "save" /\ tasks = task /\ Spawn(Calling(step, d))),
           draft' = d, d.acceptance = None, Sound(d, runOf, server.envelope),
           KeyframesOf(d) = KeyframesOf(draft), armed' => Live(d, runOf, runs'),
           armed' \in BOOLEAN, running' \in BOOLEAN, seen' \in BOOLEAN, runs' \in Nat,
           UNCHANGED <<journal, runOf, server>>,
           state' # "blocked", state' \in {"review", "submitting"} => ~armed',
           step = "move" => state' \notin {"ready", "capturing"} /\ InSegment(d) = {},
           step = "prepare" => ~armed' /\ ~running' /\ state' = "review"
    PROVE  IInv'
  <1>1. TypeOK /\ PlacesInv
    BY DEF IInv
  <1>2. Waiting = {} /\ Now = {} /\ \A u \in Under : task[u].step # "create"
    BY NobodyWaits DEF Accepted
  <1>3. PICK r \in TaskRows : /\ r = Calling(step, d) /\ r.step = step /\ r.draft = d
                              /\ r.turn = 1 + Cardinality(Waiting) /\ r.turn > 0 /\ r.current /\ ~r.cancelled
    BY <1>1, CallingRow DEF Steps
  <1>4. /\ r.turn \in {0, 1 + Cardinality(Waiting)}
        /\ Track(tasks, r) \/ (tasks = task /\ Spawn(r))
        /\ step # "save" => Track(tasks, r)
    BY <1>3
  <1>5. PICK t \in Free :
            /\ task' \in [Tasks -> TaskRows \cup {None}] /\ task'[t] = r /\ Beside(t) /\ PlacesInv'
            /\ active' \in Tasks \cup {None} /\ (active' # None => active' \in Under')
            /\ Track(tasks, r) => active' = t
    BY <1>1, <1>3, <1>4, Starts
  <1>6. TypeOK'
    BY <1>1, <1>5 DEF TypeOK
  <1>7. draft' # None
    BY DEF GuidedConstants
  <1>8. /\ ~task'[t].cancelled /\ task'[t].turn > 0 /\ task'[t].step = step /\ task'[t].draft = draft'
        /\ step = "prepare" => active' = t
    BY <1>3, <1>4, <1>5
  <1>9. /\ Sound(draft', runOf, server.envelope) /\ draft'.acceptance = None
        /\ KeyframesOf(draft') = KeyframesOf(draft) /\ (armed' => Live(draft', runOf, runs'))
        /\ step = "move" => InSegment(draft') = {}
    OBVIOUS
  <1> QED
    BY <1>2, <1>5, <1>6, <1>7, <1>8, <1>9, Begins

LEMMA EditStep ==
    ASSUME GuidedConstants, IInv, \A u \in Under : task[u].step \notin Local /\ ~task[u].cancelled,
           NEW note \in Notes, Edit(note)
    PROVE  IInv'
  <1>1. /\ TypeOK /\ draft \in DraftRows /\ draft # None /\ draft.acceptance = None
        /\ state \in {"ready", "review"} /\ draft' = [draft EXCEPT !.note = note]
        /\ Spawn(Calling("save", draft')) /\ UNCHANGED <<journal, state, camera, runOf, server>>
        /\ Sound(draft, runOf, server.envelope)
    BY DEF Edit, IInv, TypeOK, DraftsInv
  <1>2. [draft EXCEPT !.note = note] \in DraftRows
    BY <1>1 DEF DraftRows
  <1>3. PICK d \in DraftRows : d = [draft EXCEPT !.note = note]
    BY <1>2
  <1>4. d.samples = draft.samples /\ d.segment = draft.segment /\ d.acceptance = None
    BY <1>1, <1>3 DEF DraftRows
  <1>5. /\ KeyframesOf(d) = KeyframesOf(draft) /\ InSegment(d) = InSegment(draft)
        /\ Sound(d, runOf, server.envelope)
    BY <1>1, <1>4 DEF KeyframesOf, InSegment, Sound, Complete
  <1>6. draft' = d /\ Spawn(Calling("save", d))
    BY <1>1, <1>3
  <1>7. armed' => Live(d, runOf, runs')
    BY <1>1, <1>5 DEF IInv, ScreenInv, Live, camera
  <1>8. armed' \in BOOLEAN /\ running' \in BOOLEAN /\ seen' \in BOOLEAN /\ runs' \in Nat
    BY <1>1 DEF TypeOK, camera
  <1>9. state' # "blocked" /\ (state' \in {"review", "submitting"} => ~armed')
    BY <1>1 DEF IInv, ScreenInv, camera
  <1>10. "save" \in {"save", "move", "prepare"}
    OBVIOUS
  <1>11. PICK tasks : tasks = task
    OBVIOUS
  <1> QED
    BY <1>1, <1>4, <1>5, <1>6, <1>7, <1>8, <1>9, <1>10, <1>11, SavesOrMoves

LEMMA FinishStep ==
    ASSUME GuidedConstants, IInv, \A u \in Under : task[u].step \notin Local /\ ~task[u].cancelled,
           FinishRoomReview
    PROVE  IInv'
  <1>1. /\ TypeOK /\ draft \in DraftRows /\ draft # None /\ draft.acceptance = None
        /\ state \in {"ready", "failed"} /\ state' = "review" /\ StopEngine
        /\ Track(task, Calling("save", draft)) /\ UNCHANGED <<draft, journal, runOf, server>>
        /\ Sound(draft, runOf, server.envelope)
    BY DEF FinishRoomReview, IInv, TypeOK, DraftsInv
  <1>2. PICK d \in DraftRows : d = draft
    BY <1>1
  <1>3. Track(task, Calling("save", d))
    BY <1>1, <1>2
  <1>4. ~armed' /\ armed' \in BOOLEAN /\ running' \in BOOLEAN /\ seen' \in BOOLEAN /\ runs' \in Nat
    BY <1>1 DEF TypeOK, StopEngine
  <1>5. "save" \in {"save", "move", "prepare"}
    OBVIOUS
  <1>6. PICK tasks : tasks = task
    OBVIOUS
  <1> QED
    BY <1>1, <1>2, <1>3, <1>4, <1>5, <1>6, SavesOrMoves

LEMMA TransitionStep ==
    ASSUME GuidedConstants, IInv, \A u \in Under : task[u].step \notin Local /\ ~task[u].cancelled,
           CaptureMore \/ AddRoom \/ RecoverAfterInterruption
    PROVE  IInv'
  <1>1. /\ TypeOK /\ draft \in DraftRows /\ draft # None /\ draft.acceptance = None
        /\ Sound(draft, runOf, server.envelope)
    BY DEF CaptureMore, AddRoom, RecoverAfterInterruption, IInv, TypeOK, DraftsInv
  <1>2. /\ Segmented(draft) \in DraftRows
        /\ Segmented(draft).samples = draft.samples /\ Segmented(draft).acceptance = None
        /\ Sound(Segmented(draft), runOf, server.envelope) /\ InSegment(Segmented(draft)) = {}
    BY <1>1, SegmentedMovesOn
  <1>3. PICK d \in DraftRows :
            /\ Transition(d) /\ d.acceptance = None /\ KeyframesOf(d) = KeyframesOf(draft)
            /\ Sound(d, runOf, server.envelope) /\ InSegment(d) = {}
    <2>1. CASE CaptureMore \/ RecoverAfterInterruption
      <3>1. KeyframesOf(Segmented(draft)) = KeyframesOf(draft)
        BY <1>2 DEF KeyframesOf
      <3> QED
        BY <1>2, <2>1, <3>1 DEF CaptureMore, RecoverAfterInterruption
    <2>2. CASE AddRoom
      <3>1. PICK e \in DraftRows : e = Segmented(draft)
        BY <1>2
      <3>2. PICK d \in DraftRows : d = [e EXCEPT !.rooms = @ + 1]
        <4>1. e.rooms + 1 \in Nat
          BY DEF DraftRows
        <4>2. [e EXCEPT !.rooms = @ + 1] \in DraftRows
          BY <4>1 DEF DraftRows
        <4> QED
          BY <4>2
      <3>3. /\ d.samples = draft.samples /\ d.acceptance = None
            /\ d.samples = e.samples /\ d.segment = e.segment /\ e.acceptance = None
        BY <1>2, <3>1, <3>2 DEF DraftRows
      <3>4. Sound(d, runOf, server.envelope) /\ InSegment(d) = {} /\ KeyframesOf(d) = KeyframesOf(draft)
        BY <1>2, <3>1, <3>3 DEF KeyframesOf, InSegment, Sound, Complete
      <3>5. Transition(d)
        BY <2>2, <3>1, <3>2 DEF AddRoom
      <3> QED
        BY <3>3, <3>4, <3>5
    <2> QED
      BY <2>1, <2>2
  <1>4. /\ draft' = d /\ state' = "checking" /\ Track(task, Calling("move", d))
        /\ UNCHANGED <<journal, runOf, server>>
    BY <1>3 DEF Transition
  <1>5. armed' \in BOOLEAN /\ running' \in BOOLEAN /\ seen' \in BOOLEAN /\ runs' \in Nat
    <2>1. CASE AddRoom
      BY <1>1, <2>1 DEF TypeOK, AddRoom
    <2>2. CASE UNCHANGED camera
      BY <1>1, <2>2 DEF TypeOK, camera
    <2> QED
      BY <2>1, <2>2 DEF CaptureMore, RecoverAfterInterruption
  <1>6. Live(d, runOf, runs')
    BY <1>3 DEF Live
  <1>7. "move" \in {"save", "move", "prepare"} /\ state # "submitting"
    BY DEF CaptureMore, AddRoom, RecoverAfterInterruption
  <1>8. PICK tasks : tasks = task
    OBVIOUS
  <1>9. Track(tasks, Calling("move", d))
    BY <1>4, <1>8
  <1>10. state' # "blocked" /\ state' \notin {"review", "submitting", "ready", "capturing"}
    BY <1>4
  <1> QED
    BY <1>1, <1>3, <1>4, <1>5, <1>6, <1>7, <1>8, <1>9, <1>10, SavesOrMoves

LEMMA SubmitStep ==
    ASSUME GuidedConstants, IInv, \A u \in Under : task[u].step \notin Local /\ ~task[u].cancelled,
           Submit
    PROVE  IInv'
  <1>1. /\ TypeOK /\ draft \in DraftRows /\ draft # None /\ draft.acceptance = None
        /\ state = "review" /\ state' = "review" /\ ~running'
        /\ UNCHANGED <<armed, seen, runs, draft, journal, runOf, server>>
        /\ Track(Cancelled(task, active), Calling("prepare", draft))
        /\ Sound(draft, runOf, server.envelope)
    BY DEF Submit, IInv, TypeOK, DraftsInv
  <1>2. PICK d \in DraftRows : d = draft
    BY <1>1
  <1>3. PICK tasks : tasks = Cancelled(task, active)
    OBVIOUS
  <1>4. Track(tasks, Calling("prepare", d))
    BY <1>1, <1>2, <1>3
  <1>5. ~armed' /\ armed' \in BOOLEAN /\ seen' \in BOOLEAN /\ runs' \in Nat
    BY <1>1 DEF TypeOK, IInv, ScreenInv
  <1>6. running' \in BOOLEAN
    BY DEF Submit
  <1>7. "prepare" \in {"save", "move", "prepare"}
    OBVIOUS
  <1> QED
    BY <1>1, <1>2, <1>3, <1>4, <1>5, <1>6, <1>7, SavesOrMoves

\* The user asks the server for the state of what it has accepted.
LEMMA AskServerStep ==
    ASSUME GuidedConstants, IInv, \A u \in Under : task[u].step \notin Local /\ ~task[u].cancelled,
           CheckSourceReadiness \/ StartReconstruction
    PROVE  IInv'
  <1>1. /\ TypeOK /\ PlacesInv /\ Accepted /\ state \in {"accepted", "failed", "usable"}
        /\ state' \in {"accepted", "failed", "starting"}
        /\ UNCHANGED <<draft, journal, camera, runOf, server>>
    BY DEF CheckSourceReadiness, StartReconstruction, Accepted, IInv
  <1>2. /\ Waiting = {} /\ \A u \in Under : task[u].step # "create"
        /\ \A u \in Now : task[u].step \in {"check", "reconstruct"}
    BY <1>1, AtRest
  <1>3. PICK r \in TaskRows : /\ r.step \in {"check", "reconstruct"} /\ r.draft = None
                              /\ r.turn = 0 /\ r.current /\ ~r.cancelled
                              /\ Spawn(r) \/ Track(task, r)
    <2>1. CASE CheckSourceReadiness
      <3>1. PICK r \in TaskRows : /\ r = Task("check", None) /\ r.step = "check" /\ r.draft = None
                                  /\ r.turn = 0 /\ r.current /\ ~r.cancelled
        BY TaskRow DEF Steps
      <3> QED
        BY <2>1, <3>1 DEF CheckSourceReadiness
    <2>2. CASE StartReconstruction
      <3>1. PICK r \in TaskRows : /\ r = Task("reconstruct", None) /\ r.step = "reconstruct" /\ r.draft = None
                                  /\ r.turn = 0 /\ r.current /\ ~r.cancelled
        BY TaskRow DEF Steps
      <3> QED
        BY <2>2, <3>1 DEF StartReconstruction
    <2> QED
      BY <2>1, <2>2
  <1>4. PICK tasks : tasks = task
    OBVIOUS
  <1>5. Track(tasks, r) \/ (tasks = task /\ Spawn(r))
    BY <1>3, <1>4
  <1>6. PICK t \in Free :
            /\ task' \in [Tasks -> TaskRows \cup {None}] /\ task'[t] = r /\ Beside(t) /\ PlacesInv'
            /\ active' \in Tasks \cup {None} /\ (active' # None => active' \in Under')
    BY <1>1, <1>3, <1>4, <1>5, Starts
  <1>7. TypeOK'
    BY <1>1, <1>6 DEF TypeOK, camera
  <1> QED
    BY <1>1, <1>2, <1>3, <1>6, <1>7, AsksTheServer

LEMMA RequestStep ==
    ASSUME GuidedConstants, IInv, \A u \in Under : task[u].step \notin Local /\ ~task[u].cancelled,
           RequestPermission
    PROVE  IInv'
  <1>1. /\ TypeOK /\ PlacesInv /\ state = "blocked" /\ state' = "blocked"
        /\ Track(Cancelled(task, active), Task("ask", None))
        /\ UNCHANGED <<draft, journal, camera, runOf, server>>
    BY DEF RequestPermission, IInv
  <1>2. /\ ~armed
        /\ IF draft = None
           THEN journal = None \/ \E t \in Now : task[t].step = "load"
           ELSE KeyframesOf(draft) = {} /\ draft.acceptance = None
    BY <1>1 DEF IInv, ScreenInv
  <1>3. Waiting = {} /\ Now = {} /\ \A u \in Under : task[u].step # "create"
    BY <1>1, <1>2, NobodyWaits DEF Accepted
  <1>4. PICK r \in TaskRows : /\ r = Task("ask", None) /\ r.step = "ask" /\ r.draft = None
                              /\ r.turn = 0 /\ r.current /\ ~r.cancelled
    BY TaskRow DEF Steps
  <1>5. PICK tasks : tasks = Cancelled(task, active)
    OBVIOUS
  <1>6. Track(tasks, r)
    BY <1>1, <1>4, <1>5
  <1>7. PICK t \in Free :
            /\ task' \in [Tasks -> TaskRows \cup {None}] /\ task'[t] = r /\ Beside(t) /\ PlacesInv'
            /\ active' \in Tasks \cup {None} /\ (active' # None => active' \in Under')
    BY <1>1, <1>4, <1>5, <1>6, Starts
  <1>8. TypeOK'
    BY <1>1, <1>7 DEF TypeOK, camera
  <1>9. ~armed'
    BY <1>1, <1>2 DEF camera
  <1>10. IF draft = None THEN journal = None ELSE KeyframesOf(draft) = {}
    BY <1>2, <1>3
  <1>11. draft' # None =>
              /\ Sound(draft', runOf, server.envelope) /\ draft'.acceptance = None
              /\ KeyframesOf(draft') = KeyframesOf(draft)
              /\ armed' => Live(draft', runOf, runs')
    BY <1>1, <1>2, <1>9 DEF IInv, DraftsInv
  <1> QED
    BY <1>1, <1>3, <1>4, <1>7, <1>8, <1>9, <1>10, <1>11, Begins

LEMMA ArmStep ==
    ASSUME GuidedConstants, IInv, \A u \in Under : task[u].step \notin Local /\ ~task[u].cancelled, Arm
    PROVE  IInv'
  <1>1. TypeOK'
    BY DEF Arm, IInv, TypeOK, Under, Free
  <1> QED
    BY <1>1, Arms DEF Arm

LEMMA CancelStep ==
    ASSUME GuidedConstants, IInv, \A u \in Under : task[u].step \notin Local /\ ~task[u].cancelled,
           CancelSubmission
    PROVE  IInv'
  <1>1. TypeOK /\ task' = Cancelled(task, active) /\ UNCHANGED <<draft, journal, camera, runOf, active, server>>
    BY DEF CancelSubmission, IInv
  <1>2. task' \in [Tasks -> TaskRows \cup {None}] /\ \A u \in Under : u \in Tasks /\ task'[u] \in TaskRows
    BY <1>1, CancelledRows DEF Under
  <1>3. active' \in Tasks \cup {None} /\ (active' # None => active' \in Under')
    <2>1. \A u \in Under : u \in Under'
      BY <1>2 DEF Under, Free, GuidedConstants
    <2> QED
      BY <1>1, <2>1 DEF TypeOK
  <1>4. TypeOK'
    BY <1>1, <1>2, <1>3 DEF TypeOK, camera
  <1> QED
    BY <1>4, GivesUp DEF CancelSubmission

-----------------------------------------------------------------------------
(* What happens to the screen.                                             *)

LEMMA CaptureStep ==
    ASSUME GuidedConstants, IInv, Capture
    PROVE  IInv'
  <1>1. /\ TypeOK /\ PlacesInv /\ draft \in DraftRows /\ draft # None
        /\ state = "ready" /\ armed /\ state' = "capturing" /\ Track(task, Task("shoot", draft))
        /\ UNCHANGED <<draft, journal, camera, runOf, server>>
    BY DEF Capture, IInv, TypeOK
  <1>2. PICK r \in TaskRows : /\ r = Task("shoot", draft) /\ r.step = "shoot" /\ r.draft = draft
                              /\ r.turn = 0 /\ r.current /\ ~r.cancelled
    BY <1>1, TaskRow DEF Steps
  <1>3. PICK tasks : tasks = task
    OBVIOUS
  <1>4. Track(tasks, r)
    BY <1>1, <1>2, <1>3
  <1>5. PICK t \in Free :
            /\ task' \in [Tasks -> TaskRows \cup {None}] /\ task'[t] = r /\ Beside(t) /\ PlacesInv'
            /\ active' \in Tasks \cup {None} /\ (active' # None => active' \in Under')
            /\ Track(tasks, r) => active' = t
            /\ \A u \in Under : task'[u] = tasks[u]
    BY <1>1, <1>2, <1>3, <1>4, Starts
  <1>6. TypeOK'
    BY <1>1, <1>5 DEF TypeOK, camera
  <1>7. active' = t /\ \A u \in Under : task'[u] = task[u]
    BY <1>3, <1>4, <1>5
  <1>8. task'[t].step = "shoot" /\ task'[t].draft = draft /\ task'[t].turn = 0 /\ ~task'[t].cancelled
    BY <1>2, <1>5
  <1> QED
    BY <1>1, <1>5, <1>6, <1>7, <1>8, StartsToTake

\* The capture is interrupted, and saved as it is.
LEMMA InterruptedStep ==
    ASSUME GuidedConstants, IInv, draft # None, state \in {"ready", "capturing"},
           state' \in {"interrupted", "failed"}, StopEngine,
           Track(Cancelled(task, active), Calling("save", draft)), UNCHANGED <<draft, journal, runOf, server>>
    PROVE  IInv'
  <1>1. TypeOK /\ PlacesInv /\ draft \in DraftRows
    BY DEF IInv, TypeOK
  <1>2. PICK r \in TaskRows : /\ r = Calling("save", draft) /\ r.step = "save" /\ r.draft = draft
                              /\ r.turn = 1 + Cardinality(Waiting) /\ r.turn > 0 /\ r.current /\ ~r.cancelled
    BY <1>1, CallingRow DEF Steps
  <1>3. PICK tasks : tasks = Cancelled(task, active)
    OBVIOUS
  <1>4. Track(tasks, r) /\ r.turn \in {0, 1 + Cardinality(Waiting)}
    BY <1>2, <1>3
  <1>5. PICK t \in Free :
            /\ task' \in [Tasks -> TaskRows \cup {None}] /\ task'[t] = r /\ Beside(t) /\ PlacesInv'
            /\ active' \in Tasks \cup {None} /\ (active' # None => active' \in Under')
            /\ \A u \in Under : task'[u] = tasks[u]
    BY <1>1, <1>2, <1>3, <1>4, Starts
  <1>6. ~armed' /\ runs' = runs
    BY DEF StopEngine
  <1>7. TypeOK'
    <2>1. armed' \in BOOLEAN /\ running' \in BOOLEAN /\ seen' \in BOOLEAN /\ runs' \in Nat
      BY <1>1 DEF StopEngine, TypeOK
    <2> QED
      BY <1>1, <1>5, <2>1 DEF TypeOK
  <1>8. \A u \in Under : task'[u].cancelled <=> (task[u].cancelled \/ u = active)
    BY <1>1, <1>3, <1>5, CancelledRows
  <1>9. task'[t].step = "save" /\ task'[t].draft = draft /\ task'[t].turn > 0 /\ ~task'[t].cancelled
    BY <1>2, <1>5
  <1> QED
    BY <1>5, <1>6, <1>7, <1>8, <1>9, Interrupts

LEMMA BackgroundStep ==
    ASSUME GuidedConstants, IInv, HandleBackgrounding
    PROVE  IInv'
  BY InterruptedStep DEF HandleBackgrounding

LEMMA FailureStep ==
    ASSUME GuidedConstants, IInv, RuntimeFailure \/ InterruptionEnded
    PROVE  IInv'
  <1>1. CASE RuntimeFailure /\ state \in {"ready", "capturing"}
    BY <1>1, InterruptedStep DEF RuntimeFailure
  <1>2. CASE (RuntimeFailure /\ state \notin {"ready", "capturing"}) \/ InterruptionEnded
    <2>1. /\ running /\ state' \in {"interrupted", "failed"}
          /\ UNCHANGED <<draft, journal, camera, runOf, task, active, server>>
      BY <1>2 DEF RuntimeFailure, InterruptionEnded
    <2>2. TypeOK'
      BY <2>1 DEF IInv, TypeOK, camera, Under, Free
    <2> QED
      BY <2>1, <2>2, ShowsTrouble
  <1> QED
    BY <1>1, <1>2

LEMMA ActivateStep ==
    ASSUME GuidedConstants, IInv, Activate
    PROVE  IInv'
  <1>1. /\ TypeOK /\ PlacesInv /\ draft' = None /\ ~running' /\ ~seen' /\ ~armed' /\ UNCHANGED runs
        /\ active' = None /\ UNCHANGED <<journal, state, runOf, server>>
    BY DEF Activate, IInv
  <1>2. running' \in BOOLEAN /\ seen' \in BOOLEAN /\ armed' \in BOOLEAN
    BY DEF Activate
  <1>3. PICK r \in TaskRows : /\ r = Task("load", None) /\ r.step = "load" /\ r.draft = None
                              /\ r.turn = 0 /\ r.current /\ ~r.cancelled
    BY TaskRow DEF Steps
  <1>4. PICK e \in TaskRows : /\ e = Called(task, r) /\ e.step = "load" /\ e.draft = None /\ e.current
                              /\ e.turn = 1 + Cardinality(Waiting)
    <2>1. /\ Called(task, r) = [r EXCEPT !.turn = 1 + Cardinality(Waiting)]
          /\ Called(task, r) \in TaskRows /\ Called(task, r).turn = 1 + Cardinality(Waiting)
      BY <1>1, CallsLast
    <2>2. Called(task, r).step = "load" /\ Called(task, r).draft = None /\ Called(task, r).current
      BY <1>3, <2>1 DEF TaskRows
    <2> QED
      BY <2>1, <2>2
  <1>5. PICK tasks : tasks = Cancelled(task, active)
    OBVIOUS
  <1>6. PICK t \in Free :
            task' = [u \in Tasks |->
                      CASE u = t -> e
                        [] task[u] # None -> [tasks[u] EXCEPT !.current = FALSE]
                        [] OTHER -> None]
    BY <1>3, <1>4, <1>5 DEF Activate
  <1>7. t \in Tasks /\ task[t] = None
    BY DEF Free
  <1>8. task'[t] = e
    BY <1>6, <1>7
  <1>9. ASSUME NEW u \in Under
        PROVE  /\ u \in Tasks /\ u # t /\ task'[u] \in TaskRows /\ ~task'[u].current
               /\ task'[u].step = task[u].step /\ task'[u].draft = task[u].draft
               /\ task'[u].turn = task[u].turn
    <2>1. u \in Tasks /\ u # t /\ task[u] # None
      BY DEF Under, Free
    <2>2. task'[u] = [tasks[u] EXCEPT !.current = FALSE]
      BY <1>6, <1>7, <2>1
    <2>3. /\ tasks[u] \in TaskRows /\ tasks[u].step = task[u].step /\ tasks[u].draft = task[u].draft
          /\ tasks[u].turn = task[u].turn
      BY <1>1, <1>5, CancelledRows
    <2> QED
      BY <2>1, <2>2, <2>3 DEF TaskRows
  <1>10. \A u \in Free \ {t} : u \in Tasks /\ task'[u] = None
    BY <1>6, <1>7 DEF Free
  <1>11. task' \in [Tasks -> TaskRows \cup {None}]
    <2>1. \A u \in Tasks : task'[u] \in TaskRows \cup {None}
      BY <1>8, <1>9, <1>10 DEF Under
    <2>2. task' = [u \in Tasks |-> task'[u]]
      BY <1>6
    <2> QED
      BY <2>1, <2>2
  <1>12. Joins(t)
    BY <1>8, <1>9, <1>10 DEF Joins
  <1>13. PlacesInv'
    BY <1>1, <1>4, <1>8, <1>12, NewTaskKeepsPlaces
  <1>14. TypeOK'
    BY <1>1, <1>2, <1>11 DEF TypeOK
  <1> QED
    BY <1>1, <1>4, <1>8, <1>9, <1>12, <1>13, <1>14, Reopens

LEMMA RelaunchStep ==
    ASSUME GuidedConstants, IInv, Relaunch
    PROVE  IInv'
  <1>1. /\ TypeOK /\ task' = Fresh /\ draft' = None /\ active' = None /\ state' = "checking"
        /\ ~armed' /\ ~running' /\ UNCHANGED <<journal, runOf, runs, server>>
    BY DEF Relaunch, Fresh, IInv
  <1>2. armed' \in BOOLEAN /\ running' \in BOOLEAN /\ seen' \in BOOLEAN
    BY DEF Relaunch
  <1>3. task' \in [Tasks -> TaskRows \cup {None}]
    BY <1>1, FreshTask
  <1>4. TypeOK'
    BY <1>1, <1>2, <1>3 DEF TypeOK
  <1> QED
    BY <1>1, <1>4, Relaunches

-----------------------------------------------------------------------------
(* Every step.                                                             *)

LEMMA UserStepKeepsIInv ==
    ASSUME GuidedConstants, IInv, UserStep
    PROVE  IInv'
  <1>1. \A u \in Under : task[u].step \notin Local /\ ~task[u].cancelled
    BY DEF UserStep
  <1>2. ASSUME NEW note \in Notes, Edit(note) PROVE IInv'
    BY <1>1, <1>2, EditStep
  <1>3. CASE Arm
    BY <1>1, <1>3, ArmStep
  <1>4. CASE FinishRoomReview
    BY <1>1, <1>4, FinishStep
  <1>5. CASE CaptureMore \/ AddRoom \/ RecoverAfterInterruption
    BY <1>1, <1>5, TransitionStep
  <1>6. CASE Submit
    BY <1>1, <1>6, SubmitStep
  <1>7. CASE CancelSubmission
    BY <1>1, <1>7, CancelStep
  <1>8. CASE CheckSourceReadiness \/ StartReconstruction
    BY <1>1, <1>8, AskServerStep
  <1>9. CASE RequestPermission
    BY <1>1, <1>9, RequestStep
  <1> QED
    BY <1>2, <1>3, <1>4, <1>5, <1>6, <1>7, <1>8, <1>9 DEF UserStep

LEMMA SystemStepKeepsIInv ==
    ASSUME GuidedConstants, IInv, SystemStep
    PROVE  IInv'
  BY CaptureStep, BackgroundStep, FailureStep, ActivateStep, RelaunchStep DEF SystemStep

LEMMA TaskStepKeepsIInv ==
    ASSUME GuidedConstants, IInv, NEW t \in Tasks, TaskStep(t)
    PROVE  IInv'
  <1>1. CASE Load(t) \/ LoadFails(t) \/ Resume(t) \/ Ask(t) \/ Create(t) \/ CreateFails(t) \/ Move(t) \/ Save(t)
    BY <1>1, LoadsStep, ResumeStep, AskStep, CreateStep, MoveStep, SaveStep
  <1>2. CASE RejectCandidate(t) \/ StoreDepth(t) \/ Retain(t)
    BY <1>2, RejectStep, StoreDepthStep, RetainStep
  <1>3. ASSUME NEW k \in Keyframes, Shoot(t, k) \/ Upload(t, k) \/ SendDepth(t, k) PROVE IInv'
    BY <1>3, ShootStep, UploadStep, SendDepthStep
  <1>4. CASE Prepare(t) \/ OpenSession(t) \/ BindSession(t) \/ RecordMediaReceipt(t) \/ AcceptEnvelope(t)
    BY <1>4, PrepareStep, OpenSessionStep, BindStep, ReceiptStep, AcceptStep
  <1>5. CASE Seal(t) \/ AnswerLost(t) \/ Fails(t) \/ Answered(t)
    BY <1>5, SealStep, AnswerLostStep, FailsStep, AnsweredStep
  <1> QED
    BY <1>1, <1>2, <1>3, <1>4, <1>5 DEF TaskStep

LEMMA StutterKeepsIInv ==
    ASSUME IInv, UNCHANGED vars
    PROVE  IInv'
  <1>1. /\ draft' = draft /\ journal' = journal /\ state' = state /\ armed' = armed /\ seen' = seen
        /\ running' = running /\ runs' = runs /\ runOf' = runOf /\ task' = task /\ active' = active
        /\ server' = server
    BY DEF vars, camera
  <1>2. Under' = Under /\ Waiting' = Waiting /\ Now' = Now /\ (Accepted' <=> Accepted)
    BY <1>1 DEF Under, Free, Waiting, Now, Accepted
  <1>3. TypeOK' /\ DraftsInv' /\ PlacesInv' /\ QueueInv' /\ LoadsInv'
    BY <1>1, <1>2 DEF IInv, TypeOK, DraftsInv, PlacesInv, QueueInv, LoadsInv, Fine
  <1>4. TasksInv'
    BY <1>1, <1>2 DEF IInv, TasksInv, TaskInv, Kf
  <1>5. NowInv'
    BY <1>1, <1>2 DEF IInv, NowInv, OpeningInv, ShootingInv, MoveInv, SubmissionInv, Alone, Kf
  <1>6. AcceptedInv' /\ ScreenInv' /\ ProtectedInv'
    BY <1>1, <1>2 DEF IInv, AcceptedInv, ScreenInv, ProtectedInv, Kf
  <1>7. SentInv'
    BY <1>1, <1>2 DEF IInv, SentInv, IsSent, Kf
  <1> QED
    BY <1>3, <1>4, <1>5, <1>6, <1>7 DEF IInv

LEMMA StepKeepsIInv ==
    ASSUME GuidedConstants, IInv, [Next]_vars
    PROVE  IInv'
  BY UserStepKeepsIInv, SystemStepKeepsIInv, TaskStepKeepsIInv, StutterKeepsIInv DEF Next

-----------------------------------------------------------------------------
\* The guided capture is as it is described: every task of the queue, of the
\* screen, of a submission and of the camera stands where IInv says.
THEOREM GuidedCaptureIsSound ==
    ASSUME GuidedConstants
    PROVE  Spec => []IInv
  <1>1. Init => IInv
    BY InitHolds
  <1>2. IInv /\ [Next]_vars => IInv'
    BY StepKeepsIInv
  <1> QED
    BY <1>1, <1>2, PTL DEF Spec

\* No keyframe that the screen has counted as retained is lost with the app: the
\* journal of C14_8ProtectedCaptureStore has it.
THEOREM RetainedIsAlwaysProtected ==
    ASSUME GuidedConstants
    PROVE  Spec => []RetainedIsProtected
  <1>1. IInv => RetainedIsProtected
    BY DEF IInv, ProtectedInv, RetainedIsProtected
  <1> QED
    BY <1>1, GuidedCaptureIsSound, PTL

\* Views of one coordinate segment come from one run of ARKit, in whatever order
\* frames, interruptions and saves come.
THEOREM SegmentsAreOfOneRun ==
    ASSUME GuidedConstants
    PROVE  Spec => []SegmentsAreNeverJoined
  <1>1. IInv => SegmentsAreNeverJoined
    BY DEF IInv, DraftsInv, Sound, OneRun, SegmentsAreNeverJoined
  <1> QED
    BY <1>1, GuidedCaptureIsSound, PTL

\* What the app takes for accepted is what the server has accepted, entire.
THEOREM AcceptancesAreAlwaysTheServers ==
    ASSUME GuidedConstants
    PROVE  Spec => []AcceptancesAreTheServers
  <1>1. IInv => AcceptancesAreTheServers
    BY DEF IInv, DraftsInv, Sound, Complete, AcceptancesAreTheServers
  <1> QED
    BY <1>1, GuidedCaptureIsSound, PTL
=============================================================================

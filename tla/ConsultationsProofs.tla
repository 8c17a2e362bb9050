------------------------ MODULE ConsultationsProofs ------------------------
(***************************************************************************)
(* Proofs about the brief of C11 and its consultations, for any constants: *)
(* what every revision was made of, and how sessions end.  The brief and   *)
(* the sessions meet in one step, the confirmation of a proposal; the      *)
(* invariant has a part for each.                                          *)
(***************************************************************************)
EXTENDS Consultations, FiniteSetTheorems, SequenceTheorems, TLAPS

-----------------------------------------------------------------------------
(* The inductive invariant.                                                *)

Effects ==
    [operation : Patches \cup {Accepting, Nothing}, expected : Nat, revision : Nat]

\* The revision before, in any sequence of them.
Before(r, sequence) == IF r = 1 THEN Empty ELSE sequence[r - 1]

\* An effect made the revision after the one its author had seen, or none.
EffectsMadeRevisions ==
    /\ \A k \in DOMAIN effects : effects[k].revision # 0 =>
          /\ effects[k].revision \in DOMAIN revisions
          /\ effects[k].expected = effects[k].revision - 1
          /\ revisions[effects[k].revision] =
                Become(Before(effects[k].revision, revisions), effects[k].operation)
    /\ \A r \in DOMAIN revisions : \E k \in DOMAIN effects : effects[k].revision = r
    /\ \A k, other \in DOMAIN effects :
          effects[k].revision = effects[other].revision => k = other \/ effects[k].revision = 0

AcceptedAreOnRecord ==
    /\ \A r \in DOMAIN revisions : r \in acceptances <=> revisions[r].status = "accepted"
    /\ acceptances \subseteq DOMAIN revisions
    /\ \A r \in acceptances : r <= brief.latest /\ brief.latest \in acceptances

BriefInv ==
    /\ revisions \in Seq(Contents)
    /\ brief \in [current : Nat, latest : Nat] /\ brief.current = Len(revisions)
    /\ effects \in [DOMAIN effects -> Effects]
    /\ EffectsMadeRevisions /\ AcceptedAreOnRecord

SessionRows == [base : Nat, state : {"active", "cancelled", "completed"}, turns : Nat]

ProposalRows ==
    [session : Sessions, ordinal : Nat, status : {"pending", "rejected", "expired", "confirmed"},
     base : Nat, operation : Patches \cup {Nothing}]

Turns(s) == {m \in DOMAIN proposals : proposals[m].session = s}

\* A session as SessionsEndWithOneProposal has it, and of the base of its proposals.
SessionInv(s) ==
    /\ {proposals[m].ordinal : m \in Turns(s)} = 1..sessions[s].turns
    /\ Cardinality(Turns(s)) = sessions[s].turns
    /\ \A m \in Turns(s) :
          /\ proposals[m].status = "pending" =>
                sessions[s].state = "active" /\ proposals[m].ordinal = sessions[s].turns
          /\ m \in DOMAIN confirmations <=> proposals[m].status = "confirmed"
          /\ m \in DOMAIN confirmations => confirmations[m] = sessions[s].base + 1
          /\ proposals[m].base = sessions[s].base
    /\ IF sessions[s].state = "completed"
       THEN \E m : Turns(s) \cap DOMAIN confirmations = {m}
       ELSE Turns(s) \cap DOMAIN confirmations = {}

SessionTypes ==
    /\ sessions \in [DOMAIN sessions -> SessionRows] /\ DOMAIN sessions \subseteq Sessions
    /\ proposals \in [DOMAIN proposals -> ProposalRows] /\ IsFiniteSet(DOMAIN proposals)
    /\ \A m \in DOMAIN proposals : proposals[m].session \in DOMAIN sessions
    /\ DOMAIN confirmations \subseteq DOMAIN proposals

SessionsInv == SessionTypes /\ \A s \in DOMAIN sessions : SessionInv(s)

\* What a client's request has read is there.
ClientsInv ==
    /\ client = [c \in Clients |-> client[c]]
    /\ \A c \in Clients :
          /\ client[c].phase = "calling" =>
                client[c].session \in DOMAIN sessions /\ client[c].turns \in Nat
          /\ client[c].phase = "confirming" => client[c].message \in DOMAIN proposals

IInv == BriefInv /\ SessionsInv /\ ClientsInv

-----------------------------------------------------------------------------
(* Rows.                                                                   *)

\* A row more.
LEMMA Puts ==
    ASSUME NEW table, NEW key, NEW row
    PROVE  /\ DOMAIN Put(table, key, row) = DOMAIN table \cup {key}
           /\ Put(table, key, row)[key] = row
           /\ \A k \in DOMAIN table : k # key => Put(table, key, row)[k] = table[k]
           /\ Put(table, key, row) = [k \in DOMAIN Put(table, key, row) |-> Put(table, key, row)[k]]
  BY DEF Put

\* A row more of the same kind.
LEMMA PutsOfKind ==
    ASSUME NEW Kind, NEW table, table \in [DOMAIN table -> Kind], NEW key, NEW row \in Kind
    PROVE  Put(table, key, row) \in [DOMAIN Put(table, key, row) -> Kind]
  BY DEF Put

-----------------------------------------------------------------------------
(* The brief.                                                              *)

\* What a revision becomes is a revision.
LEMMA BecomesContents ==
    ASSUME NEW current \in Contents, NEW operation \in Patches \cup {Accepting, Nothing},
           CanBecome(current, operation)
    PROVE  /\ Become(current, operation) \in Contents
           /\ Become(current, operation).status = "accepted" <=> operation = Accepting
           /\ operation \in Patches \cup {Accepting}
  <1>1. Accepting.kind = "accept" /\ Nothing.kind = "none"
    BY DEF Accepting, Nothing
  <1>2. CASE operation = Accepting
    <2>1. Become(current, operation) = [current EXCEPT !.status = "accepted"]
      BY <1>2 DEF Become
    <2> QED
      BY <1>2, <2>1 DEF Contents
  <1>3. CASE operation # Accepting
    <2>1. operation \in Patches /\ operation.entry \in Entries
      BY <1>3 DEF CanBecome, Patches, Add, Remove
    <2>2. Become(current, operation) = Draft(Patched(current.entries, operation))
      BY <1>3 DEF Become
    <2>3. Patched(current.entries, operation) \in SUBSET Entries
      BY <2>1 DEF Patched, Contents
    <2> QED
      BY <1>3, <2>1, <2>2, <2>3 DEF Contents, Draft
  <1> QED
    BY <1>2, <1>3

\* The revision there is, or the empty one before the first.
LEMMA CurrentIsContents ==
    ASSUME BriefInv
    PROVE  Current \in Contents /\ Current = Before(brief.current + 1, revisions)
  <1>1. Empty \in Contents
    BY DEF Empty, Draft, Contents
  <1>2. brief.current \in Nat /\ DOMAIN revisions = 1..brief.current
        /\ \A r \in DOMAIN revisions : revisions[r] \in Contents
    <2> HIDE DEF Contents
    <2> QED
      BY DEF BriefInv
  <1> HIDE DEF Contents, Empty
  <1> QED
    BY <1>1, <1>2 DEF Current, Before

\* Revisions there are stay as they are.
LEMMA InsertKeepsBrief ==
    ASSUME BriefInv, NEW k, NEW expected, NEW operation \in Patches \cup {Accepting, Nothing},
           InsertRevision(k, expected, operation)
    PROVE  BriefInv'
  <1> DEFINE next == brief.current + 1
             record == Become(Current, operation)
             effect == [operation |-> operation, expected |-> expected, revision |-> next]
  <1>1. /\ k \notin DOMAIN effects /\ expected = brief.current /\ CanBecome(Current, operation)
        /\ revisions' = Append(revisions, record)
        /\ brief' = [current |-> next, latest |-> IF operation = Accepting THEN next ELSE brief.latest]
        /\ acceptances' = IF operation = Accepting THEN acceptances \cup {next} ELSE acceptances
        /\ effects' = Put(effects, k, effect)
    BY DEF InsertRevision, Claim, IsCurrent, Complete
  <1>2. /\ record \in Contents
        /\ record.status = "accepted" <=> operation = Accepting
        /\ record = Become(Before(next, revisions), operation)
    BY <1>1, CurrentIsContents, BecomesContents
  <1>3. effect \in Effects /\ effect.operation = operation /\ effect.expected = expected
        /\ effect.revision = next /\ next \in Nat /\ next # 0 /\ expected = next - 1
    BY <1>1 DEF BriefInv, Effects
  <1> HIDE DEF record, effect
  <1>4. /\ revisions' \in Seq(Contents) /\ Len(revisions') = next
        /\ DOMAIN revisions = 1..brief.current /\ DOMAIN revisions' = 1..next
        /\ \A r \in DOMAIN revisions : revisions'[r] = revisions[r]
        /\ revisions'[next] = record
    <2>1. revisions \in Seq(Contents) /\ brief.current = Len(revisions)
      BY DEF BriefInv
    <2>2. DOMAIN revisions = 1..brief.current /\ brief.current \in Nat
      BY <2>1
    <2>3. /\ revisions' \in Seq(Contents) /\ Len(revisions') = next
          /\ \A r \in 1..Len(revisions) : revisions'[r] = revisions[r]
          /\ revisions'[Len(revisions) + 1] = record
      <3>1. revisions' = Append(revisions, record) /\ record \in Contents
        BY <1>1, <1>2
      <3> QED
        BY <2>1, <3>1, AppendProperties
    <2> QED
      BY <2>1, <2>2, <2>3
  <1>5. /\ brief'.current = next /\ brief.current \in Nat /\ brief.latest \in Nat
        /\ brief'.latest = IF operation = Accepting THEN next ELSE brief.latest
        /\ brief' \in [current : Nat, latest : Nat]
    BY <1>1, <1>3 DEF BriefInv
  <1>6. \A r \in 1..next : Before(r, revisions') = Before(r, revisions)
    BY <1>3, <1>4, <1>5 DEF Before
  <1>7. /\ DOMAIN effects' = DOMAIN effects \cup {k} /\ effects'[k] = effect
        /\ \A key \in DOMAIN effects : effects'[key] = effects[key]
        /\ effects' \in [DOMAIN effects' -> Effects]
    <2>1. effects \in [DOMAIN effects -> Effects]
      BY DEF BriefInv
    <2>2. Put(effects, k, effect) \in [DOMAIN Put(effects, k, effect) -> Effects]
      BY <1>3, <2>1, PutsOfKind
    <2>3. /\ DOMAIN Put(effects, k, effect) = DOMAIN effects \cup {k}
          /\ Put(effects, k, effect)[k] = effect
          /\ \A key \in DOMAIN effects : key # k => Put(effects, k, effect)[key] = effects[key]
      BY DEF Put
    <2> QED
      BY <1>1, <2>2, <2>3
  <1>8. \A key \in DOMAIN effects : effects[key].revision \in 0..brief.current
    BY <1>4, <1>5 DEF BriefInv, EffectsMadeRevisions
  <1>9. EffectsMadeRevisions'
    <2>1. ASSUME NEW key \in DOMAIN effects', effects'[key].revision # 0
          PROVE  /\ effects'[key].revision \in DOMAIN revisions'
                 /\ effects'[key].expected = effects'[key].revision - 1
                 /\ revisions'[effects'[key].revision]
                       = Become(Before(effects'[key].revision, revisions'), effects'[key].operation)
      <3>1. CASE key = k
        BY <1>1, <1>2, <1>3, <1>4, <1>5, <1>6, <1>7, <3>1
      <3>2. CASE key # k
        <4>1. /\ key \in DOMAIN effects /\ effects'[key] = effects[key]
              /\ effects[key].revision \in DOMAIN revisions
              /\ effects[key].expected = effects[key].revision - 1
              /\ revisions[effects[key].revision]
                    = Become(Before(effects[key].revision, revisions), effects[key].operation)
          BY <1>7, <2>1, <3>2 DEF BriefInv, EffectsMadeRevisions
        <4>2. effects[key].revision \in 1..next
          BY <1>4, <1>5, <4>1
        <4> QED
          BY <1>4, <1>5, <1>6, <4>1, <4>2
      <3> QED
        BY <3>1, <3>2
    <2>2. ASSUME NEW r \in DOMAIN revisions'
          PROVE  \E key \in DOMAIN effects' : effects'[key].revision = r
      <3>1. CASE r = next
        BY <1>3, <1>7, <3>1
      <3>2. CASE r # next
        <4>1. r \in DOMAIN revisions
          BY <1>3, <1>4, <1>5, <3>2
        <4> QED
          BY <1>7, <4>1 DEF BriefInv, EffectsMadeRevisions
      <3> QED
        BY <3>1, <3>2
    <2>3. ASSUME NEW one \in DOMAIN effects', NEW other \in DOMAIN effects',
                 effects'[one].revision = effects'[other].revision
          PROVE  one = other \/ effects'[one].revision = 0
      <3>1. CASE one = k /\ other = k
        BY <3>1
      <3>2. CASE one # k /\ other # k
        BY <1>7, <2>3, <3>2 DEF BriefInv, EffectsMadeRevisions
      <3>3. \A key \in DOMAIN effects : effects'[key].revision # next
        BY <1>3, <1>5, <1>7, <1>8
      <3> QED
        BY <1>3, <1>7, <2>3, <3>1, <3>2, <3>3
    <2> QED
      BY <2>1, <2>2, <2>3 DEF EffectsMadeRevisions
  <1>10. AcceptedAreOnRecord'
    <2>1. \A r \in acceptances : r \in DOMAIN revisions /\ r <= brief.latest
      BY DEF BriefInv, AcceptedAreOnRecord
    <2>2. next \notin DOMAIN revisions
      BY <1>3, <1>4, <1>5
    <2>3. CASE operation = Accepting
      <3>1. acceptances' = acceptances \cup {next} /\ brief'.latest = next
        BY <1>1, <1>5, <2>3
      <3>2. \A r \in acceptances' : r <= next
        BY <1>3, <1>4, <1>5, <2>1, <3>1
      <3>3. \A r \in DOMAIN revisions' : r \in acceptances' <=> revisions'[r].status = "accepted"
        BY <1>2, <1>3, <1>4, <1>5, <2>3, <3>1 DEF BriefInv, AcceptedAreOnRecord
      <3> QED
        BY <1>3, <1>4, <1>5, <2>1, <3>1, <3>2, <3>3 DEF AcceptedAreOnRecord
    <2>4. CASE operation # Accepting
      <3>1. acceptances' = acceptances /\ brief'.latest = brief.latest
        BY <1>1, <1>5, <2>4
      <3>2. \A r \in DOMAIN revisions' : r \in acceptances' <=> revisions'[r].status = "accepted"
        BY <1>2, <1>3, <1>4, <1>5, <2>1, <2>2, <2>4, <3>1 DEF BriefInv, AcceptedAreOnRecord
      <3> QED
        BY <1>3, <1>4, <1>5, <2>1, <3>1, <3>2 DEF BriefInv, AcceptedAreOnRecord
    <2> QED
      BY <2>3, <2>4
  <1> QED
    BY <1>4, <1>5, <1>7, <1>9, <1>10 DEF BriefInv

\* A request about a session has a key, and makes no revision.
LEMMA CompleteKeepsBrief ==
    ASSUME BriefInv, NEW k, Claim(k), Complete(k, Nothing, 0, 0), UNCHANGED briefVars
    PROVE  BriefInv'
  <1> DEFINE effect == [operation |-> Nothing, expected |-> 0, revision |-> 0]
  <1>1. /\ k \notin DOMAIN effects /\ effects' = Put(effects, k, effect)
        /\ revisions' = revisions /\ brief' = brief /\ acceptances' = acceptances
    BY DEF Claim, Complete, briefVars
  <1>2. effect \in Effects /\ effect.revision = 0
    BY DEF Effects
  <1> HIDE DEF effect
  <1>3. /\ DOMAIN effects' = DOMAIN effects \cup {k} /\ effects'[k].revision = 0
        /\ \A key \in DOMAIN effects : effects'[key] = effects[key]
        /\ effects' \in [DOMAIN effects' -> Effects]
    <2>1. effects \in [DOMAIN effects -> Effects]
      BY DEF BriefInv
    <2>2. Put(effects, k, effect) \in [DOMAIN Put(effects, k, effect) -> Effects]
      BY <1>2, <2>1, PutsOfKind
    <2>3. /\ DOMAIN Put(effects, k, effect) = DOMAIN effects \cup {k}
          /\ Put(effects, k, effect)[k] = effect
          /\ \A key \in DOMAIN effects : key # k => Put(effects, k, effect)[key] = effects[key]
      BY DEF Put
    <2> QED
      BY <1>1, <1>2, <2>2, <2>3
  <1>4. 0 \notin DOMAIN revisions
    BY DEF BriefInv
  <1>5. EffectsMadeRevisions'
    BY <1>1, <1>3, <1>4 DEF BriefInv, EffectsMadeRevisions
  <1> QED
    BY <1>1, <1>3, <1>5 DEF BriefInv, AcceptedAreOnRecord

\* Everything else leaves the brief alone.
LEMMA BriefStays ==
    ASSUME BriefInv, UNCHANGED <<briefVars, effects>>
    PROVE  BriefInv'
  BY DEF briefVars, BriefInv, EffectsMadeRevisions, AcceptedAreOnRecord

-----------------------------------------------------------------------------
(* The sessions.                                                           *)

\* What a step may do to the proposals of a session it does not add to.
LEMMA SessionKeeps ==
    ASSUME NEW s, SessionInv(s), Turns(s)' = Turns(s),
           sessions'[s].turns = sessions[s].turns, sessions'[s].base = sessions[s].base,
           sessions'[s].state = "completed" <=> sessions[s].state = "completed",
           \A m \in Turns(s) :
              /\ proposals'[m].ordinal = proposals[m].ordinal
              /\ proposals'[m].base = proposals[m].base
              /\ \/ proposals'[m].status = proposals[m].status
                 \/ proposals'[m].status \in {"rejected", "expired"} /\ proposals[m].status = "pending"
              /\ proposals'[m].status = "pending" => sessions'[s].state = "active"
              /\ m \in DOMAIN confirmations' <=> m \in DOMAIN confirmations
              /\ m \in DOMAIN confirmations => confirmations'[m] = confirmations[m]
    PROVE  SessionInv(s)'
  <1>1. {proposals'[m].ordinal : m \in Turns(s)'} = 1..sessions'[s].turns
    BY DEF SessionInv
  <1>2. Cardinality(Turns(s)') = sessions'[s].turns
    BY DEF SessionInv
  <1>3. ASSUME NEW m \in Turns(s)'
        PROVE  /\ proposals'[m].status = "pending" =>
                      sessions'[s].state = "active" /\ proposals'[m].ordinal = sessions'[s].turns
               /\ m \in DOMAIN confirmations' <=> proposals'[m].status = "confirmed"
               /\ m \in DOMAIN confirmations' => confirmations'[m] = sessions'[s].base + 1
               /\ proposals'[m].base = sessions'[s].base
    BY DEF SessionInv
  <1>4. Turns(s)' \cap DOMAIN confirmations' = Turns(s) \cap DOMAIN confirmations
    OBVIOUS
  <1>5. IF sessions'[s].state = "completed"
        THEN \E m : Turns(s)' \cap DOMAIN confirmations' = {m}
        ELSE Turns(s)' \cap DOMAIN confirmations' = {}
    BY <1>4 DEF SessionInv
  <1> QED
    BY <1>1, <1>2, <1>3, <1>5 DEF SessionInv

\* Heads that change.
LEMMA HeadsRows ==
    ASSUME SessionTypes, NEW ms, NEW status \in {"rejected", "expired"}
    PROVE  /\ Heads(ms, status) \in [DOMAIN proposals -> ProposalRows]
           /\ \A m \in DOMAIN proposals :
                 /\ Heads(ms, status)[m].session = proposals[m].session
                 /\ Heads(ms, status)[m].ordinal = proposals[m].ordinal
                 /\ Heads(ms, status)[m].base = proposals[m].base
                 /\ Heads(ms, status)[m].status = IF m \in ms THEN status ELSE proposals[m].status
  <1> SUFFICES ASSUME NEW m \in DOMAIN proposals
               PROVE  /\ Heads(ms, status)[m] \in ProposalRows
                      /\ Heads(ms, status)[m].session = proposals[m].session
                      /\ Heads(ms, status)[m].ordinal = proposals[m].ordinal
                      /\ Heads(ms, status)[m].base = proposals[m].base
                      /\ Heads(ms, status)[m].status = IF m \in ms THEN status ELSE proposals[m].status
    BY DEF Heads
  <1>1. proposals[m] \in ProposalRows
    BY DEF SessionTypes
  <1>2. Heads(ms, status)[m] =
            IF m \in ms THEN [proposals[m] EXCEPT !.status = status] ELSE proposals[m]
    BY DEF Heads
  <1> QED
    BY <1>1, <1>2 DEF ProposalRows

\* A session more, without proposals.
LEMMA CreateSessionKeeps ==
    ASSUME SessionsInv, NEW k, NEW s \in Sessions, NEW revision, revision \in Nat,
           CreateSession(k, s, revision)
    PROVE  SessionsInv'
  <1> DEFINE row == [base |-> revision, state |-> "active", turns |-> 0]
  <1>1. /\ s \notin DOMAIN sessions /\ sessions' = Put(sessions, s, row)
        /\ proposals' = proposals /\ confirmations' = confirmations
    BY DEF CreateSession
  <1>2. row \in SessionRows /\ row.turns = 0 /\ row.state = "active"
    BY DEF SessionRows
  <1> HIDE DEF row
  <1>3. /\ DOMAIN sessions' = DOMAIN sessions \cup {s} /\ sessions'[s] = row
        /\ \A other \in DOMAIN sessions : sessions'[other] = sessions[other]
    BY <1>1 DEF Put
  <1>4. sessions' \in [DOMAIN sessions' -> SessionRows]
    BY <1>1, <1>2, PutsOfKind DEF SessionsInv, SessionTypes
  <1>5. SessionTypes'
    BY <1>1, <1>3, <1>4 DEF SessionsInv, SessionTypes
  <1>6. ASSUME NEW other \in DOMAIN sessions
        PROVE  SessionInv(other)'
    <2>1. SessionInv(other) /\ Turns(other)' = Turns(other) /\ sessions'[other] = sessions[other]
      BY <1>1, <1>3 DEF SessionsInv, Turns
    <2>2. \A m \in Turns(other) : proposals[m].status = "pending" => sessions[other].state = "active"
      BY <2>1 DEF SessionInv
    <2> QED
      BY <1>1, <2>1, <2>2, SessionKeeps
  <1>7. SessionInv(s)'
    <2>1. Turns(s)' = {}
      BY <1>1 DEF SessionsInv, SessionTypes, Turns
    <2>2. Cardinality(Turns(s)') = 0
      BY <2>1, FS_EmptySet
    <2> QED
      BY <1>2, <1>3, <2>1, <2>2 DEF SessionInv
  <1> QED
    BY <1>3, <1>5, <1>6, <1>7 DEF SessionsInv

\* A session that is cancelled has nothing pending.
LEMMA CancelSessionKeeps ==
    ASSUME SessionsInv, NEW k, NEW s, CancelSession(k, s)
    PROVE  SessionsInv'
  <1>1. /\ s \in DOMAIN sessions /\ sessions[s].state = "active"
        /\ sessions' = [sessions EXCEPT ![s].state = "cancelled"]
        /\ proposals' = Heads(Pending(s), "rejected") /\ confirmations' = confirmations
    BY DEF CancelSession
  <1>2. /\ proposals' \in [DOMAIN proposals -> ProposalRows] /\ DOMAIN proposals' = DOMAIN proposals
        /\ \A m \in DOMAIN proposals :
              /\ proposals'[m].session = proposals[m].session
              /\ proposals'[m].ordinal = proposals[m].ordinal
              /\ proposals'[m].base = proposals[m].base
              /\ proposals'[m].status = IF m \in Pending(s) THEN "rejected" ELSE proposals[m].status
    BY <1>1, HeadsRows DEF SessionsInv
  <1>3. /\ DOMAIN sessions' = DOMAIN sessions /\ sessions' \in [DOMAIN sessions -> SessionRows]
        /\ \A other \in DOMAIN sessions :
              /\ sessions'[other].turns = sessions[other].turns
              /\ sessions'[other].base = sessions[other].base
              /\ sessions'[other].state = IF other = s THEN "cancelled" ELSE sessions[other].state
    BY <1>1 DEF SessionsInv, SessionTypes, SessionRows
  <1>4. SessionTypes'
    BY <1>1, <1>2, <1>3 DEF SessionsInv, SessionTypes
  <1>5. ASSUME NEW other \in DOMAIN sessions
        PROVE  SessionInv(other)'
    <2>1. SessionInv(other) /\ Turns(other)' = Turns(other) /\ Turns(other) \subseteq DOMAIN proposals
      BY <1>2 DEF SessionsInv, Turns
    <2>2. ASSUME NEW m \in Turns(other)
          PROVE  proposals'[m].status = "pending" => sessions'[other].state = "active"
      BY <1>2, <1>3, <2>1 DEF SessionInv, Turns, Pending
    <2>3. \A m \in Turns(other) :
             \/ proposals'[m].status = proposals[m].status
             \/ proposals'[m].status \in {"rejected", "expired"} /\ proposals[m].status = "pending"
      BY <1>2, <2>1 DEF Pending
    <2>4. sessions'[other].state = "completed" <=> sessions[other].state = "completed"
      BY <1>1, <1>3
    <2> QED
      BY <1>1, <1>2, <1>3, <2>1, <2>2, <2>3, <2>4, SessionKeeps
  <1> QED
    BY <1>3, <1>4, <1>5 DEF SessionsInv

\* A proposal that has expired.
LEMMA GetProposalKeeps ==
    ASSUME SessionsInv, NEW m, GetProposal(m)
    PROVE  SessionsInv'
  <1>1. /\ proposals[m].status = "pending"
        /\ proposals' = Heads({m}, "expired") /\ confirmations' = confirmations
        /\ sessions' = sessions
    BY DEF GetProposal
  <1>2. /\ proposals' \in [DOMAIN proposals -> ProposalRows] /\ DOMAIN proposals' = DOMAIN proposals
        /\ \A n \in DOMAIN proposals :
              /\ proposals'[n].session = proposals[n].session
              /\ proposals'[n].ordinal = proposals[n].ordinal
              /\ proposals'[n].base = proposals[n].base
              /\ proposals'[n].status = IF n \in {m} THEN "expired" ELSE proposals[n].status
    BY <1>1, HeadsRows DEF SessionsInv
  <1>3. SessionTypes'
    BY <1>1, <1>2 DEF SessionsInv, SessionTypes
  <1>4. ASSUME NEW other \in DOMAIN sessions
        PROVE  SessionInv(other)'
    <2>1. SessionInv(other) /\ Turns(other)' = Turns(other) /\ Turns(other) \subseteq DOMAIN proposals
      BY <1>2 DEF SessionsInv, Turns
    <2>2. ASSUME NEW n \in Turns(other)
          PROVE  proposals'[n].status = "pending" => sessions[other].state = "active"
      BY <1>2, <2>1 DEF SessionInv
    <2>3. \A n \in Turns(other) :
             \/ proposals'[n].status = proposals[n].status
             \/ proposals'[n].status \in {"rejected", "expired"} /\ proposals[n].status = "pending"
      BY <1>1, <1>2, <2>1
    <2> QED
      BY <1>1, <1>2, <2>1, <2>2, <2>3, SessionKeeps
  <1> QED
    BY <1>1, <1>3, <1>4 DEF SessionsInv

\* A turn: its proposal takes the place of the pending one.
LEMMA AppendTurnKeeps ==
    ASSUME SessionsInv, NEW s \in DOMAIN sessions, NEW m, NEW operation \in Patches \cup {Nothing},
           m \notin DOMAIN proposals, sessions[s].state = "active",
           proposals' = Put(Heads(Pending(s), "rejected"), m,
              [session |-> s, ordinal |-> sessions[s].turns + 1, status |-> "pending",
               base |-> sessions[s].base, operation |-> operation]),
           sessions' = [sessions EXCEPT ![s].turns = sessions[s].turns + 1],
           confirmations' = confirmations
    PROVE  SessionsInv'
  <1> DEFINE row == [session |-> s, ordinal |-> sessions[s].turns + 1, status |-> "pending",
                     base |-> sessions[s].base, operation |-> operation]
             heads == Heads(Pending(s), "rejected")
  <1>1. /\ SessionInv(s) /\ SessionTypes /\ s \in Sessions /\ sessions[s] \in SessionRows
        /\ sessions[s].turns \in Nat /\ sessions[s].base \in Nat
    BY DEF SessionsInv, SessionTypes, SessionRows
  <1>2. /\ heads \in [DOMAIN proposals -> ProposalRows]
        /\ \A n \in DOMAIN proposals :
              /\ heads[n].session = proposals[n].session
              /\ heads[n].ordinal = proposals[n].ordinal
              /\ heads[n].base = proposals[n].base
              /\ heads[n].status = IF n \in Pending(s) THEN "rejected" ELSE proposals[n].status
    BY <1>1, HeadsRows
  <1>3. /\ row \in ProposalRows /\ row.session = s /\ row.ordinal = sessions[s].turns + 1
        /\ row.status = "pending" /\ row.base = sessions[s].base
    BY <1>1 DEF ProposalRows
  <1>4. proposals' = Put(heads, m, row)
    OBVIOUS
  <1> HIDE DEF row, heads
  <1>5. /\ DOMAIN proposals' = DOMAIN proposals \cup {m} /\ proposals'[m] = row
        /\ \A n \in DOMAIN proposals : proposals'[n] = heads[n]
    BY <1>2, <1>4 DEF Put
  <1>6. proposals' \in [DOMAIN proposals' -> ProposalRows]
    <2>1. DOMAIN heads = DOMAIN proposals /\ heads \in [DOMAIN heads -> ProposalRows]
      BY <1>2
    <2> QED
      BY <1>3, <1>4, <2>1, PutsOfKind
  <1>7. /\ DOMAIN sessions' = DOMAIN sessions /\ sessions' \in [DOMAIN sessions -> SessionRows]
        /\ \A other \in DOMAIN sessions :
              /\ sessions'[other].turns =
                    IF other = s THEN sessions[s].turns + 1 ELSE sessions[other].turns
              /\ sessions'[other].base = sessions[other].base
              /\ sessions'[other].state = sessions[other].state
    BY <1>1 DEF SessionTypes, SessionRows
  <1>8. SessionTypes'
    <2>1. IsFiniteSet(DOMAIN proposals')
      BY <1>1, <1>5, FS_AddElement DEF SessionTypes
    <2> QED
      BY <1>1, <1>2, <1>3, <1>5, <1>6, <1>7, <2>1 DEF SessionTypes
  <1>9. ASSUME NEW other \in DOMAIN sessions, other # s
        PROVE  SessionInv(other)'
    <2>1. SessionInv(other) /\ Turns(other)' = Turns(other) /\ Turns(other) \subseteq DOMAIN proposals
      BY <1>2, <1>3, <1>5, <1>9 DEF SessionsInv, Turns
    <2>2. \A n \in Turns(other) :
             /\ proposals'[n].status = proposals[n].status
             /\ proposals[n].status = "pending" => sessions[other].state = "active"
      BY <1>2, <1>5, <1>9, <2>1 DEF SessionInv, Turns, Pending
    <2> QED
      BY <1>2, <1>5, <1>7, <1>9, <2>1, <2>2, SessionKeeps
  <1>10. SessionInv(s)'
    <2>1. Turns(s)' = Turns(s) \cup {m} /\ m \notin Turns(s) /\ Turns(s) \subseteq DOMAIN proposals
      BY <1>2, <1>3, <1>5 DEF Turns
    <2>2. \A n \in Turns(s) :
             /\ proposals'[n].ordinal = proposals[n].ordinal
             /\ proposals'[n].base = proposals[n].base
             /\ proposals'[n].status # "pending"
             /\ proposals'[n].status = "confirmed" <=> proposals[n].status = "confirmed"
      BY <1>2, <1>5, <2>1 DEF Turns, Pending
    <2>3. {proposals'[n].ordinal : n \in Turns(s)'} = 1..sessions'[s].turns
      <3>1. {proposals'[n].ordinal : n \in Turns(s)'}
               = {proposals[n].ordinal : n \in Turns(s)} \cup {sessions[s].turns + 1}
        BY <1>3, <1>5, <2>1, <2>2
      <3>2. {proposals[n].ordinal : n \in Turns(s)} = 1..sessions[s].turns
        BY <1>1 DEF SessionInv
      <3>3. sessions'[s].turns = sessions[s].turns + 1
        BY <1>7
      <3>4. 1..(sessions[s].turns + 1) = (1..sessions[s].turns) \cup {sessions[s].turns + 1}
        BY <1>1
      <3> QED
        BY <3>1, <3>2, <3>3, <3>4
    <2>4. Cardinality(Turns(s)') = sessions'[s].turns
      <3>1. IsFiniteSet(Turns(s))
        BY <1>1, <2>1, FS_Subset DEF SessionTypes
      <3>2. Cardinality(Turns(s)') = Cardinality(Turns(s)) + 1
        BY <2>1, <3>1, FS_AddElement
      <3> QED
        BY <1>1, <1>7, <3>2 DEF SessionInv
    <2>5. m \notin DOMAIN confirmations
      BY <1>1 DEF SessionTypes
    <2>6. ASSUME NEW n \in Turns(s)'
          PROVE  /\ proposals'[n].status = "pending" =>
                        sessions'[s].state = "active" /\ proposals'[n].ordinal = sessions'[s].turns
                 /\ n \in DOMAIN confirmations' <=> proposals'[n].status = "confirmed"
                 /\ n \in DOMAIN confirmations' => confirmations'[n] = sessions'[s].base + 1
                 /\ proposals'[n].base = sessions'[s].base
      <3>1. CASE n = m
        BY <1>3, <1>5, <1>7, <2>5, <3>1
      <3>2. CASE n # m
        BY <1>1, <1>7, <2>1, <2>2, <3>2 DEF SessionInv
      <3> QED
        BY <3>1, <3>2
    <2>7. Turns(s)' \cap DOMAIN confirmations' = {} /\ sessions'[s].state = "active"
      BY <1>1, <1>7, <2>1, <2>5 DEF SessionInv
    <2> QED
      BY <2>3, <2>4, <2>6, <2>7 DEF SessionInv
  <1> QED
    BY <1>7, <1>8, <1>9, <1>10 DEF SessionsInv

\* The confirmation of a proposal, on the revision its session is about.
LEMMA ConfirmKeeps ==
    ASSUME BriefInv, SessionsInv, NEW c, Confirm(c), client[c].message \in DOMAIN proposals
    PROVE  BriefInv' /\ SessionsInv'
  <1>1. PICK m \in DOMAIN proposals : m = client[c].message
    OBVIOUS
  <1>2. PICK s \in DOMAIN sessions : s = proposals[m].session
    BY DEF SessionsInv, SessionTypes
  <1>3. /\ proposals[m].status = "pending" /\ sessions[s].state = "active"
        /\ InsertRevision(client[c].key, proposals[m].base, proposals[m].operation)
        /\ proposals' = [Heads(Pending(s), "rejected") EXCEPT ![m].status = "confirmed"]
        /\ sessions' = [sessions EXCEPT ![s].state = "completed"]
        /\ confirmations' = Put(confirmations, m, brief.current + 1)
    BY <1>1, <1>2 DEF Confirm, IsAsRead
  <1>4. /\ SessionInv(s) /\ SessionTypes /\ proposals[m] \in ProposalRows
        /\ proposals[m].operation \in Patches \cup {Accepting, Nothing}
    BY DEF SessionsInv, SessionTypes, ProposalRows
  <1>5. BriefInv'
    BY <1>3, <1>4, InsertKeepsBrief
  <1> DEFINE heads == Heads(Pending(s), "rejected")
  <1>6. /\ heads \in [DOMAIN proposals -> ProposalRows]
        /\ \A n \in DOMAIN proposals :
              /\ heads[n].session = proposals[n].session
              /\ heads[n].ordinal = proposals[n].ordinal
              /\ heads[n].base = proposals[n].base
              /\ heads[n].status = IF n \in Pending(s) THEN "rejected" ELSE proposals[n].status
    BY <1>4, HeadsRows
  <1>7. proposals' = [heads EXCEPT ![m].status = "confirmed"]
    BY <1>3
  <1> HIDE DEF heads
  <1>8. /\ DOMAIN proposals' = DOMAIN proposals /\ proposals' \in [DOMAIN proposals -> ProposalRows]
        /\ \A n \in DOMAIN proposals :
              /\ proposals'[n].session = proposals[n].session
              /\ proposals'[n].ordinal = proposals[n].ordinal
              /\ proposals'[n].base = proposals[n].base
              /\ proposals'[n].status =
                    IF n = m THEN "confirmed"
                    ELSE IF n \in Pending(s) THEN "rejected" ELSE proposals[n].status
    <2>1. heads[m] \in ProposalRows
      BY <1>6
    <2>2. /\ [heads[m] EXCEPT !.status = "confirmed"] \in ProposalRows
          /\ [heads[m] EXCEPT !.status = "confirmed"].session = heads[m].session
          /\ [heads[m] EXCEPT !.status = "confirmed"].ordinal = heads[m].ordinal
          /\ [heads[m] EXCEPT !.status = "confirmed"].base = heads[m].base
          /\ [heads[m] EXCEPT !.status = "confirmed"].status = "confirmed"
      BY <2>1 DEF ProposalRows
    <2>3. /\ DOMAIN proposals' = DOMAIN proposals
          /\ proposals'[m] = [heads[m] EXCEPT !.status = "confirmed"]
          /\ \A n \in DOMAIN proposals : n # m => proposals'[n] = heads[n]
          /\ proposals' = [n \in DOMAIN proposals |-> proposals'[n]]
      BY <1>6, <1>7
    <2>4. \A n \in DOMAIN proposals : proposals'[n] \in ProposalRows
      BY <1>6, <2>2, <2>3
    <2>5. proposals' \in [DOMAIN proposals -> ProposalRows]
      BY <2>3, <2>4
    <2> QED
      BY <1>6, <2>2, <2>3, <2>5
  <1>9. /\ DOMAIN sessions' = DOMAIN sessions /\ sessions' \in [DOMAIN sessions -> SessionRows]
        /\ \A other \in DOMAIN sessions :
              /\ sessions'[other].turns = sessions[other].turns
              /\ sessions'[other].base = sessions[other].base
              /\ sessions'[other].state = IF other = s THEN "completed" ELSE sessions[other].state
    BY <1>3, <1>4 DEF SessionTypes, SessionRows
  <1>10. /\ DOMAIN confirmations' = DOMAIN confirmations \cup {m}
         /\ confirmations'[m] = brief.current + 1
         /\ \A n \in DOMAIN confirmations : n # m => confirmations'[n] = confirmations[n]
    BY <1>3 DEF Put
  <1>11. SessionTypes'
    BY <1>4, <1>8, <1>9, <1>10 DEF SessionTypes
  <1>12. brief.current = proposals[m].base /\ m \in Turns(s)
    BY <1>2, <1>3 DEF InsertRevision, IsCurrent, Turns
  <1>13. m \notin DOMAIN confirmations
    BY <1>3, <1>4, <1>12 DEF SessionInv
  <1>14. ASSUME NEW other \in DOMAIN sessions, other # s
         PROVE  SessionInv(other)'
    <2>1. SessionInv(other) /\ Turns(other)' = Turns(other) /\ Turns(other) \subseteq DOMAIN proposals
      BY <1>8 DEF SessionsInv, Turns
    <2>2. \A n \in Turns(other) :
             /\ n # m /\ proposals'[n].status = proposals[n].status
             /\ proposals[n].status = "pending" => sessions[other].state = "active"
             /\ n \in DOMAIN confirmations' <=> n \in DOMAIN confirmations
             /\ n \in DOMAIN confirmations => confirmations'[n] = confirmations[n]
      BY <1>2, <1>8, <1>10, <1>14, <2>1 DEF SessionInv, Turns, Pending
    <2> QED
      BY <1>8, <1>9, <1>14, <2>1, <2>2, SessionKeeps
  <1>15. SessionInv(s)'
    <2>1. Turns(s)' = Turns(s) /\ Turns(s) \subseteq DOMAIN proposals
      BY <1>8 DEF Turns
    <2>2. {proposals'[n].ordinal : n \in Turns(s)'} = 1..sessions'[s].turns
      BY <1>4, <1>8, <1>9, <2>1 DEF SessionInv
    <2>3. Cardinality(Turns(s)') = sessions'[s].turns
      BY <1>4, <1>9, <2>1 DEF SessionInv
    <2>4. ASSUME NEW n \in Turns(s)'
          PROVE  /\ proposals'[n].status # "pending"
                 /\ n \in DOMAIN confirmations' <=> proposals'[n].status = "confirmed"
                 /\ n \in DOMAIN confirmations' => confirmations'[n] = sessions'[s].base + 1
                 /\ proposals'[n].base = sessions'[s].base
      <3>1. n \in DOMAIN proposals /\ proposals[n].session = s
        BY <2>1 DEF Turns
      <3>2. CASE n = m
        BY <1>4, <1>8, <1>9, <1>10, <1>12, <2>1, <3>1, <3>2 DEF SessionInv
      <3>3. CASE n # m
        BY <1>4, <1>8, <1>9, <1>10, <2>1, <3>1, <3>3 DEF SessionInv, Pending
      <3> QED
        BY <3>2, <3>3
    <2>5. Turns(s)' \cap DOMAIN confirmations' = {m} /\ sessions'[s].state = "completed"
      BY <1>3, <1>4, <1>9, <1>10, <1>12, <2>1 DEF SessionInv
    <2> QED
      BY <2>2, <2>3, <2>4, <2>5 DEF SessionInv
  <1> QED
    BY <1>5, <1>9, <1>11, <1>14, <1>15 DEF SessionsInv

-----------------------------------------------------------------------------
(* Steps.                                                                  *)

\* Sessions and proposals are never deleted.
LEMMA ClientsKeep ==
    ASSUME ClientsInv, DOMAIN sessions \subseteq DOMAIN sessions',
           DOMAIN proposals \subseteq DOMAIN proposals',
           \/ client' = client
           \/ \E c \in Clients : \E e :
                 /\ client' = [client EXCEPT ![c] = e]
                 /\ e.phase = "calling" => e.session \in DOMAIN sessions' /\ e.turns \in Nat
                 /\ e.phase = "confirming" => e.message \in DOMAIN proposals'
    PROVE  ClientsInv'
  <1>1. CASE client' = client
    BY <1>1 DEF ClientsInv
  <1>2. ASSUME NEW c \in Clients, NEW e, client' = [client EXCEPT ![c] = e],
               e.phase = "calling" => e.session \in DOMAIN sessions' /\ e.turns \in Nat,
               e.phase = "confirming" => e.message \in DOMAIN proposals'
        PROVE  ClientsInv'
    <2>1. \A d \in Clients : client'[d] = IF d = c THEN e ELSE client[d]
      BY <1>2 DEF ClientsInv
    <2>2. client' = [d \in Clients |-> client'[d]]
      BY <1>2 DEF ClientsInv
    <2> QED
      BY <1>2, <2>1, <2>2 DEF ClientsInv
  <1> QED
    BY <1>1, <1>2

\* A step beside the sessions.
LEMMA SessionsStay ==
    ASSUME SessionsInv, UNCHANGED <<sessions, proposals, confirmations>>
    PROVE  SessionsInv'
  <1>1. SessionTypes'
    BY DEF SessionsInv, SessionTypes
  <1>2. ASSUME NEW s \in DOMAIN sessions PROVE SessionInv(s)'
    <2>1. SessionInv(s) /\ Turns(s)' = Turns(s)
      BY DEF SessionsInv, Turns
    <2>2. \A m \in Turns(s) : proposals[m].status = "pending" => sessions[s].state = "active"
      BY <2>1 DEF SessionInv
    <2> QED
      BY <2>1, <2>2, SessionKeeps
  <1> QED
    BY <1>1, <1>2 DEF SessionsInv

\* A keyed request.
LEMMA KeyedKeeps ==
    ASSUME IInv, NEW k, KeyedStep(k)
    PROVE  IInv'
  <1>1. ASSUME NEW expected, NEW operation \in Patches \cup {Accepting},
               InsertRevision(k, expected, operation), UNCHANGED <<consultationVars, client>>
        PROVE  IInv'
    <2>1. BriefInv'
      BY <1>1, InsertKeepsBrief DEF IInv
    <2>2. SessionsInv'
      BY <1>1, SessionsStay DEF IInv, consultationVars
    <2>3. ClientsInv'
      BY <1>1, ClientsKeep DEF IInv, consultationVars
    <2> QED
      BY <2>1, <2>2, <2>3 DEF IInv
  <1>2. ASSUME NEW s \in Sessions, NEW revision \in 1..MaximumRevision, CreateSession(k, s, revision)
        PROVE  IInv'
    <2>1. BriefInv'
      BY <1>2, CompleteKeepsBrief DEF IInv, CreateSession
    <2>2. revision \in Nat
      BY <1>2 DEF IInv, BriefInv, CreateSession
    <2>3. SessionsInv'
      BY <1>2, <2>2, CreateSessionKeeps DEF IInv
    <2>4. DOMAIN sessions \subseteq DOMAIN sessions' /\ proposals' = proposals /\ client' = client
      BY <1>2, Puts DEF CreateSession, Put
    <2>5. ClientsInv'
      BY <2>4, ClientsKeep DEF IInv
    <2> QED
      BY <2>1, <2>3, <2>5 DEF IInv
  <1>3. ASSUME NEW s \in Sessions, CancelSession(k, s)
        PROVE  IInv'
    <2>1. BriefInv'
      BY <1>3, CompleteKeepsBrief DEF IInv, CancelSession
    <2>2. SessionsInv'
      BY <1>3, CancelSessionKeeps DEF IInv
    <2>3. DOMAIN sessions' = DOMAIN sessions /\ DOMAIN proposals' = DOMAIN proposals /\ client' = client
      BY <1>3 DEF CancelSession, Heads
    <2>4. ClientsInv'
      BY <2>3, ClientsKeep DEF IInv
    <2> QED
      BY <2>1, <2>2, <2>4 DEF IInv
  <1> QED
    BY <1>1, <1>2, <1>3 DEF KeyedStep, Update, Accept

\* A client's request, before and after it has read.
LEMMA ClientKeeps ==
    ASSUME IInv, NEW c \in Clients, ClientStep(c)
    PROVE  IInv'
  <1>1. ASSUME UNCHANGED <<briefVars, effects, consultationVars>>, NEW e,
               client' = [client EXCEPT ![c] = e],
               e.phase = "calling" => e.session \in DOMAIN sessions /\ e.turns \in Nat,
               e.phase = "confirming" => e.message \in DOMAIN proposals
        PROVE  IInv'
    <2>1. BriefInv' /\ SessionsInv'
      BY <1>1, BriefStays, SessionsStay DEF IInv, consultationVars
    <2>2. ClientsInv'
      BY <1>1, ClientsKeep DEF IInv, consultationVars
    <2> QED
      BY <2>1, <2>2 DEF IInv
  <1>2. ASSUME NEW s \in Sessions, NEW m \in Messages, SubmitTurn(c, s, m)
        PROVE  IInv'
    <2> DEFINE e == [phase |-> "calling", session |-> s, message |-> m, turns |-> sessions[s].turns]
    <2>1. e.phase = "calling" /\ e.session \in DOMAIN sessions /\ e.turns \in Nat
      BY <1>2 DEF SubmitTurn, IInv, SessionsInv, SessionTypes, SessionRows
    <2>2. client' = [client EXCEPT ![c] = e] /\ UNCHANGED <<briefVars, effects, consultationVars>>
      BY <1>2 DEF SubmitTurn
    <2> QED
      BY <1>1, <2>1, <2>2
  <1>3. ASSUME NEW k \in 1..MaximumKeys, NEW m \in Messages, AskToConfirm(c, k, m)
        PROVE  IInv'
    <2> DEFINE e == [phase |-> "confirming", key |-> k, message |-> m,
                     turns |-> sessions[proposals[m].session].turns]
    <2>1. e.phase = "confirming" /\ e.message \in DOMAIN proposals
      BY <1>3 DEF AskToConfirm
    <2>2. client' = [client EXCEPT ![c] = e] /\ UNCHANGED <<briefVars, effects, consultationVars>>
      BY <1>3 DEF AskToConfirm
    <2> QED
      BY <1>1, <2>1, <2>2
  <1>4. CASE GiveUp(c)
    BY <1>1, <1>4 DEF GiveUp, Idle
  <1>5. ASSUME NEW operation \in Patches \cup {Nothing}, AppendTurn(c, operation)
        PROVE  IInv'
    <2>1. /\ client[c].phase = "calling" /\ client' = [client EXCEPT ![c] = Idle]
          /\ UNCHANGED <<briefVars, effects, overdue, confirmations>>
      BY <1>5 DEF AppendTurn
    <2>2. BriefInv'
      BY <2>1, BriefStays DEF IInv
    <2>3. SessionsInv' /\ DOMAIN sessions \subseteq DOMAIN sessions'
          /\ DOMAIN proposals \subseteq DOMAIN proposals'
      <3>1. CASE UNCHANGED <<proposals, sessions>>
        BY <2>1, <3>1, SessionsStay DEF IInv
      <3>2. CASE ~UNCHANGED <<proposals, sessions>>
        <4>1. PICK s \in DOMAIN sessions : s = client[c].session
          BY <2>1 DEF IInv, ClientsInv
        <4>2. PICK m : m = client[c].message
          OBVIOUS
        <4>3. /\ m \notin DOMAIN proposals /\ sessions[s].state = "active"
              /\ proposals' = Put(Heads(Pending(s), "rejected"), m,
                    [session |-> s, ordinal |-> sessions[s].turns + 1, status |-> "pending",
                     base |-> sessions[s].base, operation |-> operation])
              /\ sessions' = [sessions EXCEPT ![s].turns = sessions[s].turns + 1]
          BY <1>5, <3>2, <4>1, <4>2 DEF AppendTurn, IsAsRead
        <4>4. SessionsInv'
          BY <2>1, <4>3, AppendTurnKeeps DEF IInv
        <4> QED
          BY <4>3, <4>4 DEF Put, Heads
      <3> QED
        BY <3>1, <3>2
    <2>4. ClientsInv'
      <3>1. Idle.phase = "idle" /\ ClientsInv
        BY DEF Idle, IInv
      <3> HIDE DEF Idle
      <3>2. \E e : client' = [client EXCEPT ![c] = e] /\ e.phase = "idle"
        BY <2>1, <3>1
      <3> QED
        BY <2>3, <3>1, <3>2, ClientsKeep
    <2> QED
      BY <2>2, <2>3, <2>4 DEF IInv
  <1>6. CASE Confirm(c)
    <2>1. client[c].message \in DOMAIN proposals /\ client' = [client EXCEPT ![c] = Idle]
      BY <1>6 DEF Confirm, IInv, ClientsInv
    <2>2. BriefInv' /\ SessionsInv'
      BY <1>6, <2>1, ConfirmKeeps DEF IInv
    <2>3. DOMAIN sessions' = DOMAIN sessions /\ DOMAIN proposals' = DOMAIN proposals
      BY <1>6 DEF Confirm, Heads
    <2>4. ClientsInv'
      <3>1. Idle.phase = "idle" /\ ClientsInv
        BY DEF Idle, IInv
      <3> HIDE DEF Idle
      <3>2. \E e : client' = [client EXCEPT ![c] = e] /\ e.phase = "idle"
        BY <2>1, <3>1
      <3> QED
        BY <2>3, <3>1, <3>2, ClientsKeep
    <2> QED
      BY <2>2, <2>4 DEF IInv
  <1> QED
    BY <1>2, <1>3, <1>4, <1>5, <1>6 DEF ClientStep

\* At first there is nothing.
LEMMA InitKeeps == Init => IInv
  <1> SUFFICES ASSUME Init PROVE IInv
    OBVIOUS
  <1>1. BriefInv
    BY DEF Init, BriefInv, EffectsMadeRevisions, AcceptedAreOnRecord, NoRows
  <1>2. SessionsInv
    BY FS_EmptySet DEF Init, SessionsInv, SessionTypes, NoRows
  <1>3. ClientsInv
    BY DEF Init, ClientsInv, Idle
  <1> QED
    BY <1>1, <1>2, <1>3 DEF IInv

\* Every step keeps the invariant.
LEMMA NextKeeps ==
    ASSUME IInv, [Next]_vars
    PROVE  IInv'
  <1>1. CASE \E k \in 1..MaximumKeys : KeyedStep(k)
    BY <1>1, KeyedKeeps
  <1>2. CASE \E c \in Clients : ClientStep(c)
    BY <1>2, ClientKeeps
  <1>3. ASSUME NEW m \in Messages, Expires(m) \/ UNCHANGED vars
        PROVE  IInv'
    <2>1. UNCHANGED <<briefVars, effects, sessions, proposals, confirmations, client>>
      BY <1>3 DEF Expires, vars, consultationVars
    <2> QED
      BY <2>1, BriefStays, SessionsStay, ClientsKeep DEF IInv
  <1>4. ASSUME NEW m \in Messages, GetProposal(m)
        PROVE  IInv'
    <2>1. UNCHANGED <<briefVars, effects, sessions, client>> /\ DOMAIN proposals' = DOMAIN proposals
      BY <1>4 DEF GetProposal, Heads
    <2> QED
      BY <1>4, <2>1, BriefStays, GetProposalKeeps, ClientsKeep DEF IInv
  <1>5. CASE UNCHANGED vars
    BY <1>5, BriefStays, SessionsStay, ClientsKeep DEF IInv, vars, consultationVars
  <1> QED
    BY <1>1, <1>2, <1>3, <1>4, <1>5 DEF Next

\* The invariant is what the runs check.
LEMMA RevisionsFollow == IInv => RevisionsAreWhatWasAsked
  <1> SUFFICES ASSUME IInv PROVE RevisionsAreWhatWasAsked
    OBVIOUS
  <1> DEFINE accepted == {r \in DOMAIN revisions : revisions[r].status = "accepted"}
  <1>1. acceptances = accepted /\ \A r \in accepted : r <= brief.latest /\ brief.latest \in accepted
    BY DEF IInv, BriefInv, AcceptedAreOnRecord
  <1>2. ASSUME NEW r \in DOMAIN revisions
        PROVE  \E k \in DOMAIN effects :
                  /\ effects[k].revision = r
                  /\ \A other \in DOMAIN effects : effects[other].revision = r => other = k
                  /\ revisions[r] = Become(At(effects[k].expected), effects[k].operation)
    <2>1. PICK k \in DOMAIN effects : effects[k].revision = r
      BY DEF IInv, BriefInv, EffectsMadeRevisions
    <2>2. r \in Nat /\ r # 0
      BY DEF IInv, BriefInv
    <2>3. At(r - 1) = Before(r, revisions)
      BY <2>2 DEF At, Before
    <2>4. effects[k].expected = r - 1 /\ revisions[r] = Become(Before(r, revisions), effects[k].operation)
      BY <2>1, <2>2 DEF IInv, BriefInv, EffectsMadeRevisions
    <2>5. \A other \in DOMAIN effects : effects[other].revision = r => other = k
      BY <2>1, <2>2 DEF IInv, BriefInv, EffectsMadeRevisions
    <2> QED
      BY <2>1, <2>3, <2>4, <2>5
  <1> QED
    BY <1>1, <1>2 DEF RevisionsAreWhatWasAsked

\* And how sessions end.
LEMMA SessionsFollow == IInv => SessionsEndWithOneProposal
  <1> SUFFICES ASSUME IInv, NEW s \in DOMAIN sessions
               PROVE  LET turns == {m \in DOMAIN proposals : proposals[m].session = s}
                          confirmed == turns \cap DOMAIN confirmations
                      IN  /\ {proposals[m].ordinal : m \in turns} = 1..sessions[s].turns
                          /\ Cardinality(turns) = sessions[s].turns
                          /\ \A m \in Pending(s) :
                                sessions[s].state = "active" /\ proposals[m].ordinal = sessions[s].turns
                          /\ Cardinality(confirmed) = IF sessions[s].state = "completed" THEN 1 ELSE 0
                          /\ \A m \in turns : m \in confirmed <=> proposals[m].status = "confirmed"
                          /\ \A m \in confirmed : confirmations[m] = sessions[s].base + 1
    BY DEF SessionsEndWithOneProposal
  <1>1. SessionInv(s)
    BY DEF IInv, SessionsInv
  <1>2. Cardinality(Turns(s) \cap DOMAIN confirmations)
            = IF sessions[s].state = "completed" THEN 1 ELSE 0
    BY <1>1, FS_EmptySet, FS_Singleton DEF SessionInv
  <1> QED
    BY <1>1, <1>2 DEF SessionInv, Turns, Pending

\* Every revision of a brief is what one keyed request made of the revision its
\* author had seen, and what was accepted stays on record.
THEOREM RevisionsStayAsAsked == Spec => []RevisionsAreWhatWasAsked
  BY InitKeeps, NextKeeps, RevisionsFollow, PTL DEF Spec

\* A session is completed by the confirmation of exactly one of its proposals.
THEOREM SessionsStayOfOneProposal == Spec => []SessionsEndWithOneProposal
  BY InitKeeps, NextKeeps, SessionsFollow, PTL DEF Spec

-----------------------------------------------------------------------------
(* The history of the brief.                                               *)

\* A step that makes no revision, and at most an effect without one.
Quiet ==
    /\ revisions' = revisions /\ brief' = brief
    /\ \A k \in DOMAIN effects : k \in DOMAIN effects' /\ effects'[k] = effects[k]
    /\ \A k \in DOMAIN effects' : k \in DOMAIN effects \/ effects'[k].revision = 0

\* Every step is quiet, or makes a revision.
LEMMA StepsOfTheBrief ==
    ASSUME IInv, [Next]_vars
    PROVE  Quiet \/ \E k, expected : \E operation \in Operations : InsertRevision(k, expected, operation)
  <1>1. ASSUME UNCHANGED <<briefVars, effects>> PROVE Quiet
    BY <1>1 DEF Quiet, briefVars
  <1>2. ASSUME NEW k, Complete(k, Nothing, 0, 0), Claim(k), UNCHANGED briefVars PROVE Quiet
    <2>1. effects' = Put(effects, k, [operation |-> Nothing, expected |-> 0, revision |-> 0])
      BY <1>2 DEF Complete
    <2> QED
      BY <1>2, <2>1 DEF Quiet, Claim, briefVars, Put
  <1>3. ASSUME NEW k, KeyedStep(k)
        PROVE  Quiet \/ \E expected : \E operation \in Operations : InsertRevision(k, expected, operation)
    BY <1>2, <1>3 DEF KeyedStep, Update, Accept, CreateSession, CancelSession, Operations
  <1>4. ASSUME NEW c \in Clients, Confirm(c)
        PROVE  \E k, expected : \E operation \in Operations : InsertRevision(k, expected, operation)
    <2>1. PICK m \in DOMAIN proposals : m = client[c].message
      BY <1>4 DEF IInv, ClientsInv, Confirm
    <2>2. proposals[m].operation \in Patches \cup {Nothing}
      BY DEF IInv, SessionsInv, SessionTypes, ProposalRows
    <2>3. InsertRevision(client[c].key, proposals[m].base, proposals[m].operation)
      BY <1>4, <2>1 DEF Confirm
    <2>4. proposals[m].operation # Nothing
      BY <2>3 DEF InsertRevision, CanBecome, Nothing, Accepting
    <2> QED
      BY <2>2, <2>3, <2>4 DEF Operations
  <1>5. ASSUME NEW c \in Clients, ClientStep(c), ~Confirm(c) PROVE Quiet
    BY <1>1, <1>5 DEF ClientStep, SubmitTurn, AppendTurn, AskToConfirm, GiveUp
  <1>6. ASSUME NEW m \in Messages, Expires(m) \/ GetProposal(m) PROVE Quiet
    BY <1>1, <1>6 DEF Expires, GetProposal
  <1>7. CASE UNCHANGED vars
    BY <1>1, <1>7 DEF vars
  <1> QED
    BY <1>3, <1>4, <1>5, <1>6, <1>7 DEF Next

\* A quiet step shows nothing.
LEMMA QuietShowsNothing ==
    ASSUME BriefInv, Quiet
    PROVE  BriefHistory' = BriefHistory
  <1>1. ASSUME NEW r \in Nat PROVE Entry(r)' = Entry(r)
    <2>1. At(r)' = At(r)
      BY DEF Quiet, At
    <2>2. {effects'[k].operation : k \in {key \in DOMAIN effects' : r > 0 /\ effects'[key].revision = r}}
             = {effects[k].operation : k \in {key \in DOMAIN effects : r > 0 /\ effects[key].revision = r}}
      BY DEF Quiet
    <2> QED
      BY <2>1, <2>2 DEF Entry
  <1>2. brief.current \in Nat /\ brief' = brief
    BY DEF Quiet, BriefInv
  <1>3. [r \in 0..brief.current |-> Entry(r)'] = [r \in 0..brief.current |-> Entry(r)]
    BY <1>1, <1>2
  <1> QED
    BY <1>2, <1>3 DEF BriefHistory

\* A revision is made by an operation on the one before.
LEMMA RevisionsAreHistory ==
    ASSUME BriefInv, NEW k, NEW expected, NEW operation \in Operations,
           InsertRevision(k, expected, operation)
    PROVE  History!ProposalNext
  <1>0. PICK n \in Nat : n = brief.current
    BY DEF BriefInv
  <1> DEFINE record == Become(Current, operation)
             effect == [operation |-> operation, expected |-> expected, revision |-> n + 1]
             reduce == [step \in Contents \X Operations |-> Become(step[1], step[2])]
  <1>1. /\ n = Len(revisions) /\ revisions \in Seq(Contents)
        /\ k \notin DOMAIN effects /\ effects' = Put(effects, k, effect)
        /\ revisions' = Append(revisions, record) /\ brief'.current = n + 1
        /\ CanBecome(Current, operation)
    BY <1>0 DEF BriefInv, InsertRevision, Claim, Complete
  <1>2. /\ Current \in Contents /\ Current = Before(n + 1, revisions)
        /\ operation \in Patches \cup {Accepting, Nothing}
    BY <1>0, CurrentIsContents DEF Operations
  <1>3. record \in Contents /\ reduce[<<Current, operation>>] = record
    BY <1>1, <1>2, BecomesContents
  <1>4. effect.revision = n + 1 /\ effect.operation = operation
    OBVIOUS
  <1> HIDE DEF record, effect
  <1>5. /\ \A r \in 1..n : revisions'[r] = revisions[r]
        /\ revisions'[n + 1] = record
    <2>1. revisions' = Append(revisions, record) /\ record \in Contents
      BY <1>1, <1>3
    <2> QED
      BY <1>1, <2>1, AppendProperties
  <1>6. /\ DOMAIN effects' = DOMAIN effects \cup {k} /\ effects'[k] = effect
        /\ \A key \in DOMAIN effects : effects'[key] = effects[key]
    BY <1>1 DEF Put
  <1>7. \A key \in DOMAIN effects : effects[key].revision \in 0..n
    BY <1>0, <1>1 DEF BriefInv, EffectsMadeRevisions
  <1>8. ASSUME NEW r \in 0..n PROVE Entry(r)' = Entry(r)
    <2>1. At(r)' = At(r)
      BY <1>1, <1>5 DEF At
    <2>2. {key \in DOMAIN effects' : r > 0 /\ effects'[key].revision = r}
             = {key \in DOMAIN effects : r > 0 /\ effects[key].revision = r}
      BY <1>1, <1>4, <1>6
    <2>3. {effects'[key].operation : key \in {i \in DOMAIN effects' : r > 0 /\ effects'[i].revision = r}}
             = {effects[key].operation : key \in {i \in DOMAIN effects : r > 0 /\ effects[i].revision = r}}
      BY <1>6, <2>2
    <2> QED
      BY <2>1, <2>3 DEF Entry
  <1>9. Entry(n + 1)' = History!Made(record, operation)
    <2>1. At(n + 1)' = record
      BY <1>1, <1>5 DEF At
    <2>2. {key \in DOMAIN effects' : n + 1 > 0 /\ effects'[key].revision = n + 1} = {k}
      BY <1>1, <1>4, <1>6, <1>7
    <2>3. {effects'[key].operation :
              key \in {i \in DOMAIN effects' : n + 1 > 0 /\ effects'[i].revision = n + 1}} = {operation}
      BY <1>4, <1>6, <2>2
    <2> QED
      BY <2>1, <2>3 DEF Entry, History!Made
  <1>10. BriefHistory' = [b \in {"brief"} |-> [r \in 0..(n + 1) |-> Entry(r)']]
    BY <1>0, <1>1 DEF BriefHistory
  <1>11. CASE n = 0
    <2>1. BriefHistory = NoRows /\ DOMAIN BriefHistory = {} /\ Current = Empty
      BY <1>0, <1>11 DEF BriefHistory, NoRows, Current
    <2>2. Entry(0)' = History!Taken(Empty)
      BY <1>8, <1>11 DEF Entry, At, History!Taken
    <2>3. BriefHistory' # BriefHistory
      BY <1>10, <2>1
    <2> DEFINE made == [r \in 0..1 |-> IF r = 0 THEN History!Taken(Empty)
                                       ELSE History!Made(reduce[<<Empty, operation>>], operation)]
    <2>4. [r \in 0..(n + 1) |-> Entry(r)'] = made
      BY <1>3, <1>9, <1>11, <2>1, <2>2
    <2>5. BriefHistory' = Put(BriefHistory, "brief", made)
      BY <1>10, <2>1, <2>4 DEF Put
    <2>6. History!Propose("brief", Empty, operation)
      BY <2>1, <2>5 DEF History!Propose, History!Put, Put
    <2> QED
      BY <2>3, <2>6 DEF History!ProposalNext
  <1>12. CASE n # 0
    <2>1. BriefHistory = [b \in {"brief"} |-> [r \in 0..n |-> Entry(r)]]
      BY <1>0, <1>12 DEF BriefHistory
    <2>2. BriefHistory' # BriefHistory
      <3>1. DOMAIN BriefHistory'["brief"] = 0..(n + 1) /\ DOMAIN BriefHistory["brief"] = 0..n
        BY <1>10, <2>1
      <3> QED
        BY <1>1, <3>1
    <2>3. History!Last("brief") = n
      <3>1. DOMAIN BriefHistory["brief"] = 0..n
        BY <2>1
      <3> QED
        BY <1>1, <3>1 DEF History!Last
    <2>4. BriefHistory["brief"][n].content = Current
      BY <1>0, <1>12, <2>1 DEF Entry, At, Current
    <2>5. BriefHistory' = [BriefHistory EXCEPT !["brief"] =
              Put(BriefHistory["brief"], n + 1, History!Made(record, operation))]
      <3>1. [r \in 0..(n + 1) |-> Entry(r)']
               = Put([r \in 0..n |-> Entry(r)], n + 1, History!Made(record, operation))
        BY <1>1, <1>8, <1>9 DEF Put
      <3> QED
        BY <1>10, <2>1, <3>1
    <2>6. History!Operate("brief", operation)
      <3>1. reduce[<<BriefHistory["brief"][History!Last("brief")].content, operation>>] = record
        BY <1>3, <2>3, <2>4
      <3>2. History!AppendTo("brief", History!Made(record, operation))
        <4>1. BriefHistory' = [BriefHistory EXCEPT !["brief"] =
                  History!Put(BriefHistory["brief"], n + 1, History!Made(record, operation))]
          BY <2>5 DEF History!Put, Put
        <4> QED
          BY <2>3, <4>1 DEF History!AppendTo
      <3> QED
        BY <1>3, <3>1, <3>2 DEF History!Operate
    <2> QED
      BY <2>1, <2>2, <2>6 DEF History!ProposalNext
  <1> QED
    BY <1>11, <1>12

\* So every step of the brief is one of its history, or shows nothing.
LEMMA BriefStepsAreHistory ==
    ASSUME BriefInv,
           Quiet \/ \E k, expected : \E operation \in Operations : InsertRevision(k, expected, operation)
    PROVE  [History!ProposalNext]_BriefHistory
  BY QuietShowsNothing, RevisionsAreHistory

LEMMA NoBriefIsNoHistory == brief.current = 0 => History!Init
  BY DEF BriefHistory, History!Init, History!NoRows, NoRows

\* The revisions of a brief, edited and consulted about at once, are an
\* append-only history that begins as a proposal.
THEOREM BriefsAreHistories == Spec => ImplementsBranchHistory
  <1>1. Init => History!Init
    BY NoBriefIsNoHistory DEF Init
  <1>2. IInv /\ [Next]_vars => [History!ProposalNext]_BriefHistory
    BY StepsOfTheBrief, BriefStepsAreHistory DEF IInv
  <1> QED
    BY <1>1, <1>2, InitKeeps, NextKeeps, PTL DEF Spec, ImplementsBranchHistory, History!ProposalSpec
=============================================================================

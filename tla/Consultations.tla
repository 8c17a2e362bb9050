--------------------------- MODULE Consultations ---------------------------
(***************************************************************************)
(* The C11 brief of a project and the consultations about it:              *)
(* PostgresBriefRepository with its kernel, PostgresDesignAgentRepository  *)
(* and the services of both.                                               *)
(*                                                                         *)
(* A mutation is one transaction and one action; a request that first      *)
(* reads, or asks the model, is two.  A message has one proposal, which    *)
(* goes by its name, and a proposal or an update has one operation.  Keys  *)
(* are named in the order they are first used.  Refused and replayed       *)
(* requests change nothing.  Left out are the reference board (patched     *)
(* like the entries), the replacement of an entry by itself, the sources   *)
(* of an entry (they never change once they may be used) and times, except *)
(* for expiry.                                                             *)
(***************************************************************************)
EXTENDS Integers, Sequences, FiniteSets, Rows

CONSTANTS
    Entries,          \* entries a brief may have
    Sessions, Messages, Clients,
    MaximumRevision,  \* bound: revisions of the brief
    MaximumKeys,      \* bound: keyed requests that took effect
    MaximumTurns      \* c11BriefPolicy.maximumConsultationTurns

VARIABLES
    revisions,      \* design_brief_revisions: a sequence of status, entries
    brief,          \* design_briefs: current and latest accepted revision; 0 for none
    acceptances,    \* design_brief_acceptance_events
    effects,        \* design_brief_idempotency_effects: key -> what it did
    sessions,       \* consultation_sessions: id -> base, state, turns
    proposals,      \* messages, proposals and their heads: id -> session, ordinal, base, operation, status
    overdue,        \* proposals whose expires_at has passed
    confirmations,  \* consultation_proposal_confirmations: proposal -> applied revision
    client          \* what each client's request has read

briefVars == <<revisions, brief, acceptances>>
consultationVars == <<sessions, proposals, overdue, confirmations>>
vars == <<briefVars, effects, consultationVars, client>>

-----------------------------------------------------------------------------
(* The kernel.                                                             *)

Add(e) == [kind |-> "entry.add", entry |-> e]
Remove(e) == [kind |-> "entry.remove", entry |-> e]
Patches == {Add(e) : e \in Entries} \cup {Remove(e) : e \in Entries}
Accepting == [kind |-> "accept"]
Nothing == [kind |-> "none"]  \* a proposal that only asks back

Draft(entries) == [status |-> "draft", entries |-> entries]

\* applyOperations
Applies(entries, operation) ==
    IF operation.kind = "entry.add" THEN operation.entry \notin entries ELSE operation.entry \in entries

Patched(entries, operation) ==
    IF operation.kind = "entry.add" THEN entries \cup {operation.entry} ELSE entries \ {operation.entry}

Empty == Draft({})

Current == IF brief.current = 0 THEN Empty ELSE revisions[brief.current]

\* revise (which reopens an accepted brief), create and accept
CanBecome(current, operation) ==
    IF operation = Accepting THEN current.status = "draft" /\ current.entries # {}
    ELSE operation # Nothing /\ Applies(current.entries, operation)

Become(current, operation) ==
    IF operation = Accepting THEN [current EXCEPT !.status = "accepted"]
    ELSE Draft(Patched(current.entries, operation))

-----------------------------------------------------------------------------
(* Keys and revisions.                                                     *)

Claimed(k) == k \in 1..MaximumKeys /\ k <= Cardinality(DOMAIN effects) + 1

ClaimAnyTime(k) == Claimed(k)

\* claimEffect: the key is new, or the request is answered as it was.
Claim(k) == Claimed(k) /\ k \notin DOMAIN effects

\* completeEffect: what was asked for, and the revision it made (0 for none).
Complete(k, operation, expected, revision) ==
    effects' = Put(effects, k, [operation |-> operation, expected |-> expected, revision |-> revision])

IsKnown(expected) == expected <= brief.current

\* The revision the request expects is the current one.
IsCurrent(expected) == expected = brief.current

\* insertRevision, and what was asked for.
InsertRevision(k, expected, operation) ==
    LET revision == brief.current + 1
        record == Become(Current, operation)
    IN  /\ Claim(k) /\ IsCurrent(expected) /\ revision <= MaximumRevision
        /\ CanBecome(Current, operation)
        /\ revisions' = Append(revisions, record)
        /\ brief' = [current |-> revision,
                     latest |-> IF operation = Accepting THEN revision ELSE brief.latest]
        /\ acceptances' = IF operation = Accepting THEN acceptances \cup {revision} ELSE acceptances
        /\ Complete(k, operation, expected, revision)

Update(k, expected, operation) ==
    /\ operation \in Patches
    /\ InsertRevision(k, expected, operation)
    /\ UNCHANGED <<consultationVars, client>>

Accept(k, expected) ==
    /\ expected > 0
    /\ InsertRevision(k, expected, Accepting)
    /\ UNCHANGED <<consultationVars, client>>

-----------------------------------------------------------------------------
(* Sessions.                                                               *)

\* requireExactBrief
ExactDraft(revision) == revision = brief.current /\ Current.status = "draft"

\* createSession; the service looked at the brief before, and the foreign key
\* only wants the revision.
CreateSession(k, s, revision) ==
    /\ Claim(k) /\ s \notin DOMAIN sessions /\ revision \in DOMAIN revisions
    /\ revisions[revision].status = "draft"
    /\ sessions' = Put(sessions, s, [base |-> revision, state |-> "active", turns |-> 0])
    /\ Complete(k, Nothing, 0, 0)
    /\ UNCHANGED <<briefVars, proposals, overdue, confirmations, client>>

Pending(s) == {m \in DOMAIN proposals : proposals[m].session = s /\ proposals[m].status = "pending"}

\* The heads of these become status.
Heads(ms, status) ==
    [m \in DOMAIN proposals |->
        IF m \in ms THEN [proposals[m] EXCEPT !.status = status] ELSE proposals[m]]

\* cancelSession at the turn the service has read; it can only have moved on.
CancelSession(k, s) ==
    /\ Claim(k) /\ s \in DOMAIN sessions /\ sessions[s].state = "active"
    /\ sessions' = [sessions EXCEPT ![s].state = "cancelled"]
    /\ proposals' = Heads(Pending(s), "rejected")
    /\ Complete(k, Nothing, 0, 0)
    /\ UNCHANGED <<briefVars, overdue, confirmations, client>>

-----------------------------------------------------------------------------
(* Turns.                                                                  *)

Idle == [phase |-> "idle"]

\* submitTurn up to the call of the model.
SubmitTurn(c, s, m) ==
    /\ client[c] = Idle
    /\ s \in DOMAIN sessions /\ m \notin DOMAIN proposals
    /\ sessions[s].state = "active" /\ sessions[s].turns < MaximumTurns
    /\ ExactDraft(sessions[s].base)
    /\ client' = [client EXCEPT ![c] =
          [phase |-> "calling", session |-> s, message |-> m, turns |-> sessions[s].turns]]
    /\ UNCHANGED <<briefVars, effects, consultationVars>>

IsActive(s, turns) == sessions[s].state = "active"

IsAtTurn(s, turns) == sessions[s].turns = turns

\* The session is as the request has read it.
IsAsRead(s, turns) == sessions[s].state = "active" /\ sessions[s].turns = turns

\* appendTurn of what the model proposes; it takes the place of the pending
\* proposal.
AppendTurn(c, operation) ==
    LET e == client[c]
    IN  /\ e.phase = "calling"
        /\ IF e.message \notin DOMAIN proposals /\ IsAsRead(e.session, e.turns)
           THEN /\ proposals' = Put(Heads(Pending(e.session), "rejected"), e.message,
                      [session |-> e.session, ordinal |-> e.turns + 1, status |-> "pending",
                       base |-> sessions[e.session].base, operation |-> operation])
                /\ sessions' = [sessions EXCEPT ![e.session].turns = e.turns + 1]
           ELSE UNCHANGED <<proposals, sessions>>
        /\ client' = [client EXCEPT ![c] = Idle]
        /\ UNCHANGED <<briefVars, effects, overdue, confirmations>>

\* The model fails, or the API stops during a request.
GiveUp(c) ==
    /\ client[c] # Idle
    /\ client' = [client EXCEPT ![c] = Idle]
    /\ UNCHANGED <<briefVars, effects, consultationVars>>

-----------------------------------------------------------------------------
(* Proposals.                                                              *)

Expires(m) ==
    /\ m \in DOMAIN proposals /\ m \notin overdue
    /\ overdue' = overdue \cup {m}
    /\ UNCHANGED <<briefVars, effects, sessions, proposals, confirmations, client>>

\* getProposal of an overdue proposal: expireProposal
GetProposal(m) ==
    /\ m \in overdue /\ proposals[m].status = "pending"
    /\ proposals' = Heads({m}, "expired")
    /\ UNCHANGED <<briefVars, effects, sessions, overdue, confirmations, client>>

\* confirmProposal up to the transaction.
AskToConfirm(c, k, m) ==
    /\ client[c] = Idle
    /\ m \in DOMAIN proposals /\ m \notin overdue /\ proposals[m].status = "pending"
    /\ sessions[proposals[m].session].state = "active" /\ proposals[m].operation # Nothing
    /\ Claimed(k) /\ ExactDraft(proposals[m].base)
    /\ client' = [client EXCEPT ![c] =
          [phase |-> "confirming", key |-> k, message |-> m,
           turns |-> sessions[proposals[m].session].turns]]
    /\ UNCHANGED <<briefVars, effects, consultationVars>>

\* confirmProposal of the brief repository: it is verified again, applied, its
\* siblings are rejected and the session is completed.
Confirm(c) ==
    LET e == client[c]
        p == proposals[e.message]
    IN  /\ e.phase = "confirming"
        /\ p.status = "pending" /\ e.message \notin overdue /\ IsAsRead(p.session, e.turns)
        /\ InsertRevision(e.key, p.base, p.operation)
        /\ proposals' = [Heads(Pending(p.session), "rejected") EXCEPT ![e.message].status = "confirmed"]
        /\ sessions' = [sessions EXCEPT ![p.session].state = "completed"]
        /\ confirmations' = Put(confirmations, e.message, brief.current + 1)
        /\ client' = [client EXCEPT ![c] = Idle]
        /\ UNCHANGED overdue

-----------------------------------------------------------------------------

Init ==
    /\ revisions = <<>> /\ brief = [current |-> 0, latest |-> 0]
    /\ acceptances = {}
    /\ effects = NoRows
    /\ sessions = NoRows /\ proposals = NoRows /\ overdue = {} /\ confirmations = NoRows
    /\ client = [c \in Clients |-> Idle]

KeyedStep(k) ==
    \/ \E expected \in 0..MaximumRevision :
          \/ \E operation \in Patches : Update(k, expected, operation)
          \/ Accept(k, expected)
    \/ \E s \in Sessions :
          \/ \E revision \in 1..MaximumRevision : CreateSession(k, s, revision)
          \/ CancelSession(k, s)

ClientStep(c) ==
    \/ \E s \in Sessions, m \in Messages : SubmitTurn(c, s, m)
    \/ \E operation \in Patches \cup {Nothing} : AppendTurn(c, operation)
    \/ \E k \in 1..MaximumKeys, m \in Messages : AskToConfirm(c, k, m)
    \/ Confirm(c) \/ GiveUp(c)

Next ==
    \/ \E k \in 1..MaximumKeys : KeyedStep(k)
    \/ \E c \in Clients : ClientStep(c)
    \/ \E m \in Messages : Expires(m) \/ GetProposal(m)

Spec == Init /\ [][Next]_vars

-----------------------------------------------------------------------------
(* Properties.                                                             *)

At(r) == IF r = 0 THEN Empty ELSE revisions[r]

\* Every revision of a brief is what exactly one keyed request made of the
\* revision its author had seen, however often it was sent and whatever was
\* sent beside it; what was accepted stays on record.
RevisionsAreWhatWasAsked ==
    LET accepted == {r \in DOMAIN revisions : revisions[r].status = "accepted"}
    IN  /\ \A r \in DOMAIN revisions : \E k \in DOMAIN effects :
              /\ effects[k].revision = r
              /\ \A other \in DOMAIN effects : effects[other].revision = r => other = k
              /\ revisions[r] = Become(At(effects[k].expected), effects[k].operation)
        /\ acceptances = accepted
        /\ \A r \in accepted : r <= brief.latest /\ brief.latest \in accepted

\* A session is completed by the confirmation of one of its proposals, which
\* is the revision after the one the session was about; once a session has
\* ended nothing of it is pending, and until then only its last turn may be.
SessionsEndWithOneProposal ==
    \A s \in DOMAIN sessions :
        LET turns == {m \in DOMAIN proposals : proposals[m].session = s}
            confirmed == turns \cap DOMAIN confirmations
        IN  /\ {proposals[m].ordinal : m \in turns} = 1..sessions[s].turns
            /\ Cardinality(turns) = sessions[s].turns
            /\ \A m \in Pending(s) :
                  sessions[s].state = "active" /\ proposals[m].ordinal = sessions[s].turns
            /\ Cardinality(confirmed) = IF sessions[s].state = "completed" THEN 1 ELSE 0
            /\ \A m \in turns : m \in confirmed <=> proposals[m].status = "confirmed"
            /\ \A m \in confirmed : confirmations[m] = sessions[s].base + 1

\* The content of every revision, from the empty one on, and the operation
\* that made it.
Entry(r) ==
    [content |-> At(r),
     operations |-> {effects[k].operation :
         k \in {key \in DOMAIN effects : r > 0 /\ effects[key].revision = r}}]

BriefHistory ==
    IF brief.current = 0 THEN NoRows ELSE [b \in {"brief"} |-> [r \in 0..brief.current |-> Entry(r)]]

Contents == [status : {"draft", "accepted"}, entries : SUBSET Entries]

Operations == Patches \cup {Accepting}

\* The revisions are an append-only history like that of a branch.
History == INSTANCE ProposedHistory WITH
    BranchIds <- {"brief"}, Derived <- Empty,
    Reduce <- [step \in Contents \X Operations |-> Become(step[1], step[2])],
    history <- BriefHistory

ImplementsBranchHistory == History!ProposalSpec
=============================================================================

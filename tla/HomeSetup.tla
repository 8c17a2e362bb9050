------------------------------ MODULE HomeSetup ------------------------------
(***************************************************************************)
(* How a project gets its home: the intake of C1, the property of C3 with  *)
(* its dossiers, and the one-time initialization of the home workspace     *)
(* that C5 makes of them.                                                  *)
(*                                                                         *)
(* A client asks once with a key, and what it asked may reach the server   *)
(* late, repeatedly or never.  Every transaction holds the lock of the     *)
(* project row; three tables of idempotency keys tell repetitions, which   *)
(* change nothing, and other uses of a key, which are refused.  The first  *)
(* selection of a property sets its version to one, and each makes a new   *)
(* identity, so that the version is the number of properties.  Addresses,  *)
(* providers, items and source records are left out, as are projects that  *)
(* are created.  Of the workspace only its property is kept: ModelBranches *)
(* has its initialization, and what becomes of it.                         *)
(***************************************************************************)
EXTENDS Integers, Sequences, FiniteSets, SequencesExt

CONSTANTS
    Keys,          \* idempotency keys, each with one request
    MaximumCount,  \* bound: versions of the intake, resolutions, properties, dossiers of one
    None           \* an absent reference

\* What is asked with a key; dossiers are read of a property.
Requests ==
    [kind : {"intake", "resolve", "select", "refresh", "initialize"}, expected : Nat,
     of : Nat \cup {None}]

\* What holds of the constants: an absent reference is no key and no request.
SetupConstants == None \notin Keys \cup Requests

VARIABLES
    requests,     \* what was asked with each key
    intake,       \* the versions of the intake, as the keys that made them
    resolutions,  \* the resolutions of addresses: key, and whether it has expired
    properties,   \* the selected properties, the current one last
    home          \* the canonical profile: the property of its snapshot, and the key

vars == <<requests, intake, resolutions, properties, home>>

NoHome == [of |-> None, key |-> None]

\* The dossiers of the current property.
Dossiers == IF properties = <<>> THEN <<>> ELSE Last(properties).dossiers

-----------------------------------------------------------------------------
(* What clients ask, on what they have seen.                               *)

Ask(k, kind, expected, of) ==
    /\ requests[k] = None
    /\ requests' = [requests EXCEPT ![k] = [kind |-> kind, expected |-> expected, of |-> of]]
    /\ UNCHANGED <<intake, resolutions, properties, home>>

AskForIntake(k) == Ask(k, "intake", Len(intake), None)

AskToResolve(k) == Ask(k, "resolve", 0, None)

\* Of a resolution, or an address typed in.
AskToSelect(k) ==
    \E of \in DOMAIN resolutions \cup {None} : Ask(k, "select", Len(properties), of)

AskToRefresh(k) == Ask(k, "refresh", Len(Dossiers), None)

\* getDossier, which the route of the home workspace reads before it
\* initializes; a repeated request reads it again.
ReadDossier(k) ==
    /\ properties # <<>>
    /\ requests[k] # None => requests[k].kind = "initialize"
    /\ requests' = [requests EXCEPT ![k] =
           [kind |-> "initialize", expected |-> 0, of |-> Len(properties)]]
    /\ UNCHANGED <<intake, resolutions, properties, home>>

-----------------------------------------------------------------------------
(* The transactions.                                                       *)

Has(k, kind) == requests[k] # None /\ requests[k].kind = kind

\* What was made with a key, table by table.
MadeIntake(k) == {<<"intake", v>> : v \in {v \in DOMAIN intake : intake[v] = k}}

MadeResolution(k) ==
    {<<"resolve", r>> : r \in {r \in DOMAIN resolutions : resolutions[r].key = k}}

MadeProperty(k) ==
    {<<"select", p>> : p \in {p \in DOMAIN properties : properties[p].key = k}}

MadeDossier(k) ==
    UNION {{<<"refresh", p, v>> : v \in {v \in DOMAIN properties[p].dossiers :
                v > 1 /\ properties[p].dossiers[v].key = k}} : p \in DOMAIN properties}

MadeHome(k) == IF home.key = k THEN {<<"initialize", home.of>>} ELSE {}

Made(k) ==
    MadeIntake(k) \cup MadeResolution(k) \cup MadeProperty(k) \cup MadeDossier(k) \cup MadeHome(k)

\* Without a claim, the expected version has to do.
ClaimNothing(k) == requests[k] # None

\* claimIdempotency, claimPropertyIdempotency
Claim(k) == Made(k) = {}

UpsertIntake(k) ==
    /\ Has(k, "intake") /\ Claim(k)
    /\ Len(intake) = requests[k].expected /\ Len(intake) < MaximumCount
    /\ intake' = Append(intake, k)
    /\ UNCHANGED <<requests, resolutions, properties, home>>

\* resolve; the providers were asked before the transaction
Resolve(k) ==
    /\ Has(k, "resolve") /\ Claim(k) /\ Len(resolutions) < MaximumCount
    /\ resolutions' = Append(resolutions, [key |-> k, expired |-> FALSE])
    /\ UNCHANGED <<requests, intake, properties, home>>

\* expires_at
Expire(r) ==
    /\ ~resolutions[r].expired
    /\ resolutions' = [resolutions EXCEPT ![r].expired = TRUE]
    /\ UNCHANGED <<requests, intake, properties, home>>

\* A resolution that has not expired, whatever became of it.
IsFresh(r) == ~resolutions[r].expired

\* property_resolution_consumptions
IsOpen(r) == ~resolutions[r].expired /\ \A p \in DOMAIN properties : properties[p].of # r

\* buildPropertyDossier, with loadIntakeSnapshot
Dossier(k) == [intake |-> Len(intake), key |-> k]

Select(k) ==
    /\ Has(k, "select") /\ Claim(k)
    /\ Len(properties) = requests[k].expected /\ Len(properties) < MaximumCount
    /\ requests[k].of # None => IsOpen(requests[k].of)
    /\ properties' = Append(properties,
           [of |-> requests[k].of, key |-> k, dossiers |-> <<Dossier(k)>>])
    /\ UNCHANGED <<requests, intake, resolutions, home>>

RefreshDossier(k) ==
    /\ Has(k, "refresh") /\ Claim(k) /\ properties # <<>>
    /\ Len(Dossiers) = requests[k].expected /\ Len(Dossiers) < MaximumCount
    /\ properties' = [properties EXCEPT ![Len(properties)].dossiers = Append(@, Dossier(k))]
    /\ UNCHANGED <<requests, intake, resolutions, home>>

\* initialize; the property that was read need not be the current one any more
Initialize(k) ==
    /\ Has(k, "initialize") /\ Claim(k)
    /\ home = NoHome
    /\ home' = [of |-> requests[k].of, key |-> k]
    /\ UNCHANGED <<requests, intake, resolutions, properties>>

-----------------------------------------------------------------------------

Init ==
    /\ requests = [k \in Keys |-> None]
    /\ intake = <<>> /\ resolutions = <<>> /\ properties = <<>>
    /\ home = NoHome

Next ==
    \/ \E k \in Keys :
          \/ AskForIntake(k) \/ AskToResolve(k) \/ AskToSelect(k) \/ AskToRefresh(k)
          \/ ReadDossier(k)
          \/ UpsertIntake(k) \/ Resolve(k) \/ Select(k) \/ RefreshDossier(k) \/ Initialize(k)
    \/ \E r \in DOMAIN resolutions : Expire(r)

Spec == Init /\ [][Next]_vars

-----------------------------------------------------------------------------
(* Properties.                                                             *)

\* A key makes at most one thing, of the kind that was asked with it and on
\* the version its author had seen, however often its request arrives: also
\* when a newly selected property has reached the version that a delayed
\* refresh expects of the one before.  And an address that was resolved
\* becomes at most one property.
SetupIsWhatWasAsked ==
    /\ \A k \in Keys : \A thing, other \in Made(k) :
          /\ thing = other /\ Has(k, thing[1])
          /\ thing[1] \in {"intake", "select"} => thing[2] = requests[k].expected + 1
          /\ thing[1] = "refresh" => thing[3] = requests[k].expected + 1
    /\ \A p, q \in DOMAIN properties :
          properties[p].of = properties[q].of => p = q \/ properties[p].of = None
=============================================================================

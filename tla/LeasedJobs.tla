----------------------------- MODULE LeasedJobs -----------------------------
(***************************************************************************)
(* What every leased queue of the platform promises of a job, whatever its *)
(* stages, its workers and their messages.                                 *)
(*                                                                         *)
(* A job is worked on under one claim at a time; a cancelled or failed job *)
(* may be tried again a bounded number of times; what a finished job shows *)
(* was made under its last claim, and it never changes again.  One         *)
(* transaction may move several jobs.                                      *)
(***************************************************************************)
EXTENDS Integers

CONSTANTS Jobs, MaximumAttempts

\* Of a job: its status, its attempts so far, how often the present one has
\* been claimed, and the <<attempt, claim>> its output was made under.
VARIABLE view

NoOutput == <<0, 0>>

Init ==
    view = [j \in Jobs |-> [status |-> "absent", attempt |-> 0, claims |-> 0, output |-> NoOutput]]

\* A first attempt, or one more.
Queue(old, new) ==
    /\ old.status \in {"absent", "cancelled", "failed"} /\ old.attempt < MaximumAttempts
    /\ new = [old EXCEPT !.status = "waiting", !.attempt = @ + 1, !.claims = 0]

\* A worker starts on it, or takes it over from one that is gone.
Claim(old, new) ==
    /\ old.status \in {"waiting", "working"}
    /\ new = [old EXCEPT !.status = "working", !.claims = @ + 1]

\* Only the worker of the last claim finishes it.
Finish(old, new) ==
    /\ old.status = "working"
    /\ new = [old EXCEPT !.status = "done", !.output = <<old.attempt, old.claims>>]

\* The ways it ends without output.  While a worker may be on it, a
\* cancellation is only asked for.
Endings ==
    {<<"waiting", "cancelled">>, <<"waiting", "failed">>,
     <<"working", "stopping">>, <<"working", "failed">>,
     <<"stopping", "cancelled">>, <<"stopping", "failed">>, <<"failed", "cancelled">>}

End(old, new) ==
    /\ <<old.status, new.status>> \in Endings
    /\ new = [old EXCEPT !.status = new.status]

Step(old, new) == Queue(old, new) \/ Claim(old, new) \/ Finish(old, new) \/ End(old, new)

Next ==
    /\ DOMAIN view' = Jobs
    /\ \A j \in Jobs : view'[j] = view[j] \/ Step(view[j], view'[j])

Spec == Init /\ [][Next]_view
=============================================================================

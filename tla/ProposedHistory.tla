--------------------------- MODULE ProposedHistory ---------------------------
(***************************************************************************)
(* What confirmations promise of the branches they make and commit to: the *)
(* histories of BranchHistory, but a branch may begin as a proposal, with  *)
(* operations on a content of its own.                                     *)
(***************************************************************************)
EXTENDS BranchHistory

CONSTANT Derived   \* the content the first proposals begin with

Propose(b, content, operations) ==
    /\ b \notin DOMAIN history
    /\ history' = Put(history, b,
           [r \in 0..1 |-> IF r = 0 THEN Taken(content)
                          ELSE Made(Reduce[<<content, operations>>], operations)])

\* The first conjunct saves TLC the search when the history stays as it is.
ProposalNext ==
    /\ history' # history
    /\ \E operations \in Operations :
          \/ \E b \in BranchIds, content \in Recorded \cup {Derived} : Propose(b, content, operations)
          \/ \E b \in DOMAIN history : Operate(b, operations)

ProposalSpec == Init /\ [][ProposalNext]_history
=============================================================================

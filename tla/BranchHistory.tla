---------------------------- MODULE BranchHistory ----------------------------
(***************************************************************************)
(* What the model-operation repository promises its callers, without       *)
(* snapshots, hashes, previews, keys or expiry: a branch is an append-only *)
(* list of contents, each with the operations that made it, if any did.  A *)
(* branch starts from a content some branch already has (the very first    *)
(* from an imported one), and every further content is either what         *)
(* operations make of the last one or, with no operations, a content       *)
(* restored from the history of some branch.                               *)
(***************************************************************************)
EXTENDS Naturals, Rows

CONSTANTS BranchIds, Contents, Operations, Reduce

VARIABLE history   \* branch -> revision -> entry, from revision 0

\* A content, and the operations that made it of the one before.
Made(content, operations) == [content |-> content, operations |-> {operations}]
Taken(content) == [content |-> content, operations |-> {}]

Last(b) == CHOOSE r \in DOMAIN history[b] : r + 1 \notin DOMAIN history[b]

Recorded == UNION {{history[b][r].content : r \in DOMAIN history[b]} : b \in DOMAIN history}

AppendTo(b, entry) == history' = [history EXCEPT ![b] = Put(@, Last(b) + 1, entry)]

Init == history = NoRows

\* The import is the source of the branch and its first commit.
Import(b, content) ==
    /\ DOMAIN history = {}
    /\ history' = Put(history, b, [r \in 0..1 |-> Taken(content)])

BranchFrom(b, content) ==
    /\ b \notin DOMAIN history
    /\ content \in Recorded
    /\ history' = Put(history, b, [r \in {0} |-> Taken(content)])

Operate(b, operations) ==
    LET content == Reduce[<<history[b][Last(b)].content, operations>>]
    IN  /\ content \in Contents
        /\ AppendTo(b, Made(content, operations))

RestoreTo(b, content) ==
    /\ content \in Recorded
    /\ AppendTo(b, Taken(content))

Next ==
    \/ \E b \in BranchIds, content \in Contents :
          Import(b, content) \/ BranchFrom(b, content)
    \/ \E b \in DOMAIN history :
          \/ \E operations \in Operations : Operate(b, operations)
          \/ \E content \in Recorded : RestoreTo(b, content)

Spec == Init /\ [][Next]_history
=============================================================================

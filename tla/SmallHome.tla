------------------------------ MODULE SmallHome ------------------------------
(***************************************************************************)
(* Values for the instances of ModelBranches: two contents that one        *)
(* operation toggles between, so that a head hash can come back, and an    *)
(* operation that is blocked on one of them.                               *)
(***************************************************************************)
CONSTANTS home, altered, toggle, widen

HomeContents == {home, altered}
HomeOperations == {toggle, widen}

HomeReduce(blocked) ==
    [pair \in HomeContents \X HomeOperations |->
        CASE pair = <<home, toggle>> -> altered
          [] pair = <<altered, toggle>> -> home
          [] pair = <<home, widen>> -> blocked
          [] pair = <<altered, widen>> -> altered]

=============================================================================

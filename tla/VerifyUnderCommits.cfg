SPECIFICATION VerificationSpec
CONSTANTS
    Actors = {a1}
    Keys = {1, 2, 3}
    SnapshotIds = {1, 2}
    BranchIds = {11, 12}
    PreviewIds = {21}
    home = home
    altered = altered
    toggle = toggle
    widen = widen
    Contents <- HomeContents
    Operations <- HomeOperations
    Reduce <- MCReduce
    Blocked = Blocked
    None = None
INVARIANT IntactHistoryIsVerified
CHECK_DEADLOCK FALSE

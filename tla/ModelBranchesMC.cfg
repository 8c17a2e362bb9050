SPECIFICATION Spec
CONSTANTS
    Actors = {a1, a2}
    Keys = {1, 2, 3, 4, 5}
    SnapshotIds = {1, 2, 3, 4}
    BranchIds = {11, 12}
    PreviewIds = {21, 22}
    home = home
    altered = altered
    toggle = toggle
    widen = widen
    Contents <- HomeContents
    Operations <- HomeOperations
    Reduce <- MCReduce
    Blocked = Blocked
    None = None
CONSTRAINT KeysInOrder
SYMMETRY Symmetry
INVARIANTS
    EveryBranchReplays
    HistoryIsOneChain
    CommitsFollowWhatTheCallerSaw
    CommitsAreTheirPreviews
    ProfilePointsToNewest
    CommitsAreOnRecord
PROPERTIES
    CommitReplaysAreStable
    ImplementsBranchHistory
CHECK_DEADLOCK FALSE

SPECIFICATION CleanedSpec
CONSTANTS
    Actors = {a1}
    Keys = {1, 2, 3, 4}
    SnapshotIds = {1, 2}
    BranchIds = {11}
    PreviewIds = {21, 22}
    home = home
    altered = altered
    toggle = toggle
    widen = widen
    Contents <- HomeContents
    Operations <- HomeOperations
    Reduce <- MCReduce
    Blocked = Blocked
    None = None
PROPERTY ExpiredPreviewsGo
CHECK_DEADLOCK FALSE

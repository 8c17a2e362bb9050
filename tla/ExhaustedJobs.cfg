SPECIFICATION FairSpec
CONSTANTS
    Workers = {w1}
    Owners = {"spatial-worker-local"}
    WorkerId <- MCWorkerId
    Jobs = {j1}
    InvalidJobs = {}
    MaximumAttempts = 2
    Kinds = {"preview", "metadata-manifest"}
    Manifest = "metadata-manifest"
    Outcomes = {"ready", "quarantined", "rejected"}
    None = None
PROPERTY ExhaustedJobsFail
CHECK_DEADLOCK FALSE

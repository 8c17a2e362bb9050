SPECIFICATION QueuesSpec
CONSTANTS
    Workers = {w1, w2}
    Owners = {"spatial-worker-local"}
    WorkerId <- MCWorkerId
    Jobs = {j1, j2}
    InvalidJobs = {j2}
    MaximumAttempts = 3
    Kinds = {"preview", "metadata-manifest"}
    Manifest = "metadata-manifest"
    Outcomes = {"ready", "quarantined", "rejected"}
    None = None
    JobsOf <- MCJobsOf
    AttemptsOf <- MCAttemptsOf
    MishapsOf <- MCMishapsOf
    Volumes = {volume}
    VolumeOf <- MCVolumeOf
    Estimate <- MCEstimate
    Floor = 15
    FreeBytes = {16, 17}
    MaximumTries = 2
    ArkitSessions = {}
    ArtifactsOf <- MCArtifactsOf
    MaximumRevision = 1
    SourcesOf <- MCSourcesOf
    Discrepancies = {a, b}
    MaximumVersion = 3
    r1 = r1
    r2 = r2
    volume = volume
    p1 = p1
    o1 = o1
    scan = scan
    a = a
    b = b
PROPERTY AcknowledgementsCancel
CHECK_DEADLOCK FALSE

SPECIFICATION RecordsSpec
CONSTANTS
    api = api
    spatial = spatial
    Hosts <- MCHosts
    MaximumTime = 5
    u1 = u1
    u2 = u2
    c1 = c1
    c2 = c2
    scan = scan
    arkit = arkit
    a = a
    b = b
    w1 = w1
    j1 = j1
    j2 = j2
    o1 = o1
    o2 = o2
    chair = chair
    q1 = q1
    q2 = q2
    need = need
    wish = wish
    talk1 = talk1
    talk2 = talk2
    turn1 = turn1
    turn2 = turn2
    x1 = x1
    x2 = x2
    k1 = k1
    k2 = k2
    h1 = h1
    h2 = h2
    h3 = h3
    h4 = h4
    f1 = f1
    f2 = f2
    n1 = n1
    None = None
    Uploads = {u1, u2}
    PartsOf <- MCPartsOf
    Checksums = {c1, c2}
    Scans = {scan, arkit}
    ArkitScans = {arkit}
    ArtifactsOf <- MCArtifactsOf
    CaptureWorkers = {w1}
    CaptureAttempts = 1
    CaptureMishaps = 1
    JobsIn <- MCJobsIn
    OptionsIn <- MCOptionsIn
    DesignJobs = {j1, j2}
    Options = {o1, o2}
    JobOf <- MCJobOf
    SceneCalls = {q1, q2}
    SpecificationRevisions = 3
    MaximumPreviews = 2
    CallsIn <- MCCallsIn
    RevisionsIn <- MCRevisionsIn
    PreviewsIn <- MCPreviewsIn
    Assets = {chair}
    EntriesIn <- MCEntriesIn
    TalksIn <- MCTalksIn
    MessagesIn <- MCMessagesIn
    ClientsIn <- MCClientsIn
    BriefRevisions = 3
    MaximumKeys = 4
    MaximumTurns = 2
    Commands = {k1, k2}
    MaximumPending = 2
    EditorRevisions = 2
    Keys = {h1, h2, h3, h4}
    MaximumCount = 2
    Keyframes = {f1, f2}
    DepthFrames = {f1}
    Notes = {n1}
    Tasks <- MCTasks
    MaximumRooms = 2
    MaximumSegments = 2
    MaximumActivations = 2
    Size = 2
    MaximumPoints = 5
    MaximumOpenings = 4
    Corners <- MCCorners
SYMMETRY Symmetry
INVARIANTS
    StampsPass
    CompletedUploadsAreStored
    ShownEnvelopesHold
    SpecificationsDescribeTheirModel
    SceneLinksAreTruthful
    RevisionsAreWhatWasAsked
    SetupIsWhatWasAsked
    FindingsAreRight
    CapturedEvidenceIsKept
PROPERTIES
    EndedUploadsStayClosed
    CommandsAreKeptOnce
    ImplementsBranchHistory
CHECK_DEADLOCK FALSE

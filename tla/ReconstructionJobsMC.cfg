SPECIFICATION Spec
CONSTANTS
    Workers = {w1, w2}
    Jobs = {j1}
    Assets = {a1, a2}
    SourcesOf <- MCSourcesOf
    OptionalAppearance = {j1}
    MaximumAttempts = 2
    MaximumMishaps = 1
SYMMETRY Symmetry
INVARIANTS
    RowsAgree
    ResultsArePublished
    PublicationsHoldTheirLease
    HolderIsInStep
PROPERTIES
    ImplementsLeasedJobs
    TriggersNeverRaise
    RightsStayLost
CHECK_DEADLOCK FALSE

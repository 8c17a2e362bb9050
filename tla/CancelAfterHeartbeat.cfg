SPECIFICATION Spec
CONSTANTS
    api = api
    worker = worker
    Hosts <- MCHosts
    MaximumTime = 5
SYMMETRY Symmetry
INVARIANTS
    CancellationsPass
CHECK_DEADLOCK FALSE

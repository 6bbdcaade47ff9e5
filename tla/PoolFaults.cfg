SPECIFICATION Spec
CONSTANTS
    p1 = p1
    Tickers = {tick}
    Triggers = {trig}
    Processes = {p1}
    RunsIn <- OneProcess
    Sandboxes = {s1, s2, s3, s4}
    NoSandbox = NoSandbox
    PoolEnabled = TRUE
    PoolSize = 3
    PoolMaxPending = 2
    MaxGiven = 2
    Faults = {"redis", "k8s", "pod", "crash"}
SYMMETRY SandboxSymmetry
INVARIANTS
    TypeOK
    HandedOutOnce
    PoolDisjoint
    PoolBound
    MutexHasHolder
PROPERTIES
    PoolAccounted
    ImplementsLife

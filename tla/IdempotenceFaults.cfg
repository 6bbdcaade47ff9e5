SPECIFICATION Spec
CONSTANTS
    c1 = c1
    p1 = p1
    p2 = p2
    Callers = {c1, c2, c3}
    Processes = {p1, p2}
    ServedBy <- TwoProcesses
    Keys = {k1, k2}
    Sandboxes = {s1, s2, s3}
    NoKey = NoKey
    NoSandbox = NoSandbox
    Faults = {"redis", "k8s", "crash", "lease", "record"}
SYMMETRY CallerSymmetry
CHECK_DEADLOCK FALSE
INVARIANTS
    TypeOK
    ClaimExclusion
    NoLeakedSandbox
    DeliveredForKey
PROPERTIES
    MarkerKeepsOwner

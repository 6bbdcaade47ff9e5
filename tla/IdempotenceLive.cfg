SPECIFICATION LiveSpec
CONSTANTS
    c1 = c1
    p1 = p1
    p2 = p2
    Callers = {c1, c2}
    Processes = {p1, p2}
    ServedBy <- TwoProcesses
    Keys = {k1}
    Sandboxes = {s1, s2, s3}
    NoKey = NoKey
    NoSandbox = NoSandbox
    Faults = {"redis", "k8s", "crash"}
CHECK_DEADLOCK FALSE
PROPERTIES
    CallsReturn
    MarkerCleared

SPECIFICATION Spec
CONSTANTS
    a = a
    prefixed = prefixed
    Callers = {c1, c2}
    Releasers = {r1}
    Projects = {a, prefixed}
    NoProject = NoProject
    Clean <- PrefixedIds
    Sandboxes = {s1, s2}
    NoSandbox = NoSandbox
    MaxRequests = 2
    MaxReleases = 1
    Faults = {"redis", "k8s", "lease", "expire", "crash", "overlap"}
SYMMETRY Symmetry
INVARIANTS
    TypeOK
    TenantIsolation
    ServiceFollowsMapping
PROPERTIES
    ImplementsLife
    ReverseMapped

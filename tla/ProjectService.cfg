SPECIFICATION Spec
CONSTANTS
    a = a
    prefixed = prefixed
    Callers = {c1, c2}
    Releasers = {r1}
    Projects = {a}
    NoProject = NoProject
    Clean <- PlainIds
    Sandboxes = {s1, s2}
    NoSandbox = NoSandbox
    MaxRequests = 2
    MaxReleases = 1
    Faults = {}
INVARIANTS
    HostnameReachesSandbox

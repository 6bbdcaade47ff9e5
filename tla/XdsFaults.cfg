SPECIFICATION FairSpec
CONSTANTS
    p1 = p1
    p2 = p2
    pe = pe
    Writers = {w1, w2}
    Projects = {p1, p2, pe}
    NoProject = NoProject
    Activator = Activator
    NoSnapshot = NoSnapshot
    Clean <- CleanIds
    Parse <- ParseParts
    NoMessage = NoMessage
    MaxWrites = 2
    Faults = {"redis", "expire"}
INVARIANTS
    TypeOK
    SetCoversMappings
    SteadyProjectsServed
    SnapshotFollowsRoutes
PROPERTIES
    EventuallyServing
CHECK_DEADLOCK FALSE

SPECIFICATION FairSpec
CONSTANTS
    p1 = p1
    p2 = p2
    pe = pe
    Writers = {w1}
    Projects = {p1, p2}
    NoProject = NoProject
    Activator = Activator
    NoSnapshot = NoSnapshot
    Clean <- CleanIds
    Parse <- ParsePlain
    NoMessage = NoMessage
    MaxWrites = 2
    Faults = {}
PROPERTIES
    UpdatesReachRoutes
CHECK_DEADLOCK FALSE

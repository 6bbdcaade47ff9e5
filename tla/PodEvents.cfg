SPECIFICATION FairSpec
CONSTANTS
    Sandboxes = {s1}
    Others = {o1}
    NoNotice = NoNotice
    NoSandbox = NoSandbox
    Cap = 1
    PageSize = 1
    MaxErrors = 1
    MaxRestarts = 1
INVARIANTS
    TypeOK
    OnlyTroubledReleased
    TroubleOnItsWay
PROPERTIES
    OnlyLateNoticePanics
    CleanupComplete
    PodsReaped
    WaitEnds

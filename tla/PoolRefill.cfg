SPECIFICATION FairSpec
CONSTANTS
    p1 = p1
    Tickers = {tick}
    Triggers = {trig}
    Processes = {p1}
    RunsIn <- OneProcess
    Sandboxes = {s1, s2, s3}
    NoSandbox = NoSandbox
    PoolEnabled = TRUE
    PoolSize = 2
    PoolMaxPending = 1
    MaxGiven = 1
    Faults = {"recount"}
PROPERTIES
    PoolRefills

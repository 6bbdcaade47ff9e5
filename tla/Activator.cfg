SPECIFICATION FairSpec
CONSTANTS
    MaxRetries = 3
    InitialBackoff = 1
    MaxBackoff = 2
    BackoffFactor = 2
INVARIANTS
    TypeOK
    BodyDeliveredOnce
    RetriesBounded
PROPERTIES
    RequestAnswered
CHECK_DEADLOCK FALSE

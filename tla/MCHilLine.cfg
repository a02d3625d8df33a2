CONSTANTS
    Readers <- EveryReader
    Commands <- SomeCommands
    Responses <- SomeResponses
    MAX_PAYLOAD = 16
    BRIDGE_LIMIT = 36
    NoiseBytes <- Disturbances
    MAX_FRAMES = 3
    MAX_FAULTS = 1
    MAX_BURST = 2
    MAX_CUTS = 2
CHECK_DEADLOCK FALSE
SPECIFICATION FairSpec
INVARIANTS
    TypeOK
    OnlySent
    InOrder
    LossBounded
    TimedReadExact
PROPERTIES
    TimedReadReturns

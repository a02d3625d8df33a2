CONSTANTS
    W = 8
    MOVEMENT_TIMEOUT = 5
    CHECK_PERIOD = 2
    DEAD_TIME = 1
    ACK_DELAY = 1
    PAUSE = 1
    CALIBRATION_TIME = 1
    Frames <- EveryFrame
    BUFFER = 2
SPECIFICATION FairSpec
INVARIANTS
    RelayFollowsCommand
    OnTimeBounded
    OvertravelBounded
    StallBounded
PROPERTIES
    ServiceKept
    ListensAgain

CONSTANTS
    W = 5
    MOVEMENT_TIMEOUT = 2
    DEAD_TIME = 2
    FRAME_TIMEOUT = 1
    REPLY_TIME = 1
    CURRENT_IGNORE_TIME = 1
    CALIBRATION_TIME = 1
    Frames <- AllFrames
    JamOutcomes = {FALSE}
SPECIFICATION Spec
INVARIANTS
    RelaysMatchState
    OnTimeBounded
    OvertravelBounded
    SensorViewCurrent
    AckTellsState
PROPERTIES
    DeadTimeRespected
    FaultLatched
    AcceptedMovementKept

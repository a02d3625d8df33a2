CONSTANTS
    W = 4
    MOVEMENT_TIMEOUT = 1
    DEAD_TIME = 1
    FRAME_TIMEOUT = 1
    REPLY_TIME = 1
    CURRENT_IGNORE_TIME = 0
    CALIBRATION_TIME = 0
    Frames <- StartStopFrames
    JamOutcomes = {FALSE, TRUE}
SPECIFICATION FairSpec
PROPERTIES
    MovementEnds
    ConflictDisablesTool
    ServiceKept

CONSTANTS
    W = 8
    MOVEMENT_TIMEOUT = 5
    DEAD_TIME = 2
    FRAME_TIMEOUT = 1
    REPLY_TIME = 1
    CURRENT_IGNORE_TIME = 1
    CALIBRATION_TIME = 1
    Frames <- StartStopFrames
    JamOutcomes = {FALSE, TRUE}
SPECIFICATION Spec
INVARIANTS
    JamStopsMotor

CONSTANTS
    CENTER = 1500
    DEADBAND = 60
    ENABLE_PWM = 1700
    BRAKE_ACTIVE_HIGH = FALSE
    SwitchPwm <- SwitchEdges
    StickPwm <- StickEdges
SPECIFICATION FairSpec
INVARIANTS
    BrakesTogether
    LockedIsBraked
    RulesFollowed
PROPERTIES
    LockHolds

CONSTANTS
    CommandLines <- EachCommandLine
    Pwm <- SwitchValues
    Fronts <- SomeFronts
    RC_BUFFER = 1
    TOOL_BUFFER = 2
    MAX_UPSETS = 1
    MAX_NOISE = 1
SPECIFICATION FairSpec
INVARIANTS
    OutOfBandDecides
    AnswersMatchUntilGivenUp
    BacklogBounded
    ChangeCommandedOnce
PROPERTIES
    SwitchObeyed
    ShutdownCompletes

CONSTANTS
    CommandLines <- DefaultCommandLine
    Pwm <- NoisyValues
    Fronts <- NoFront
    RC_BUFFER = 1
    TOOL_BUFFER = 1
    MAX_UPSETS = 0
    MAX_NOISE = 0
SPECIFICATION Spec
PROPERTIES
    BandIsQuiet

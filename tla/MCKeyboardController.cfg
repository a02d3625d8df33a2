CONSTANTS
    MAX_ATTEMPTS = 2
    BUFFER = 1
    MAX_TRANSACTIONS = 2
CHECK_DEADLOCK FALSE
SPECIFICATION FairSpec
INVARIANTS
    PortReady
    ExecutionsWithinAttempts
    AnswersOwed
PROPERTIES
    TransactionEnds

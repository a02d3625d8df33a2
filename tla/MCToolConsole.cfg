CONSTANTS
    MAX_ATTEMPTS = 2
    MAX_TRANSACTIONS = 2
CHECK_DEADLOCK FALSE
SPECIFICATION FairSpec
INVARIANTS
    StopConfirmed
    FaultConfirmed
PROPERTIES
    TransactionEnds

CONSTANTS
    NSym = 8
    Parities <- MCParities
    EncParities <- MCEncParities
    Received <- MCReceived
    AGGREGATE = 8
    RATE_INV = 4
    KSet <- MCKSet
SPECIFICATION MCSpec
INVARIANT StoppedAtStoppingSet

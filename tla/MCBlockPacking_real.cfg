CONSTANTS
    BLOCK_SIZE = 16777216
    TRANSACTION_SIZE = 316
    K_SYS = 128
    BASE_SYMBOL_SIZE = 131072
    Batch = 1000
    StepNum = 1000
    Throttle = 60000
    MaxTx = 54000
    Signals = {"start"}
    MaxSig = 1
    Round = 1
    SideId = 0
    MaxSlot = 2
    Sizes = {}
    MaxNet = 0
SPECIFICATION Spec
INVARIANT DecodedIsPacked

CONSTANTS
    BLOCK_SIZE = 9
    TRANSACTION_SIZE = 3
    K_SYS = 3
    BASE_SYMBOL_SIZE = 3
    Batch = 2
    StepNum = 1
    Throttle = 6
    MaxTx = 12
    Signals = {"start", "stop", "step", "simulate"}
    MaxSig = 2
    Round = 2
    SideId = 1
    MaxSlot = 6
    Sizes = {8, 15}
    MaxNet = 1
SPECIFICATION Spec
INVARIANT PackagingConserves
INVARIANT BlockIsFull
INVARIANT SentIdsIncrease
INVARIANT SampleMatchesProposal

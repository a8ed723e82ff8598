CONSTANTS
    NScale = 3
    NumSym = 8
    Ids = {1, 2, 3}
    Bad = {3}
    Holders <- MCHoldersAll
SPECIFICATION Spec
INVARIANT TypeOK
INVARIANT ChainFollowsContract
PROPERTY EveryJobCompletes
PROPERTY ImplementsLocalChain

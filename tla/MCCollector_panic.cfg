CONSTANTS
    NScale = 10
    NumSym = 512
    Ids = {1}
    Bad = {}
    Holders <- MCHoldersAll
SPECIFICATION Spec
INVARIANT ManagerNeverPanics

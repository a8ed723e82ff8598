CONSTANTS
    N = 10
    Self = 1
    Hdrs = {h1}
    THRESH = 1
SPECIFICATION Spec
INVARIANT AtMostOneVote

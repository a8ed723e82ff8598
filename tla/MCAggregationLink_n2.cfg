CONSTANTS
    N = 2
    Self = 1
    LinkPeer = 2
    h1 = h1
    h2 = h2
    Hdrs = {h1, h2}
    THRESH = 1
    Msgs <- Hdrs
    Payload <- MCPayload
    CAP = 2
SPECIFICATION LinkedSpec
INVARIANT TypeOK
INVARIANT CountSigIsPopcount
INVARIANT VoteCarriesItsSigners
INVARIANT LinkIsFifo
PROPERTY EventuallyVoted
PROPERTY SampledNodeSigns
PROPERTY LinkDelivers

CONSTANTS
    Blocks = {1}
    Admin = {"reset", "addscale"}
    Queries = {"state", "sidenode", "receipt"}
SPECIFICATION Spec
INVARIANT TypeOK
INVARIANT LossOnlyWhenPending
PROPERTY SenderReleased

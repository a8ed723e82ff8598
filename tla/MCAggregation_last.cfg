CONSTANTS
    N = 10
    Self = 10
    Hdrs = {h1}
    THRESH = 1
SPECIFICATION Spec
PROPERTY SampledNodeSigns

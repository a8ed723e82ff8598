CONSTANTS
    NSym = 8
    Parities <- MCParities
    EncParities <- MCEncParities
    Received <- MCReceived
    AGGREGATE = 8
    RATE_INV = 4
    KSet <- MCKSet
SPECIFICATION MCSpec
INVARIANT TypeOK
INVARIANT EncodeIsSystematicCodeword
INVARIANT DegreeCountsEmpty
INVARIANT HandOverIsPartition
INVARIANT ProofFollowsHandOver
INVARIANT NoFalseCodingProof
INVARIANT OkOnlyForCodewords
INVARIANT ParityValueIsKnownSum
INVARIANT NotZeroProofVerifies
PROPERTY Terminates
PROPERTY ImplementsErasureDecoder

SPECIFICATION EnrichSpec
CONSTANTS
    Count = 2
    Types <- Two
    Plans <- Threes
    Cap <- One
INVARIANT
    ProofOfEnrichment

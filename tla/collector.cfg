SPECIFICATION Spec
CONSTANTS
    Callable <- EveryAgent
    MaxTargets = 3
INVARIANTS
    ProofOfSearch
    SensitiveAreRestricted
PROPERTIES
    AnswersOnce

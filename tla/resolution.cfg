SPECIFICATION Spec
CONSTANTS
    corporate = corporate
    hnwi = hnwi
    untyped = untyped
    ein = ein
    cik = cik
    Entities = {1, 2, 3, 4, 5}
    Types = {corporate, hnwi}
    NoType = untyped
    TypeOf <- MCTypeOf
    IdValues = {ein, cik}
    IdChoices <- MCIdChoices
INVARIANTS
    TypeOK
    DecisionsExplainClusters
    SharedIdsMeet
    EveryPairIsJudged
    StoreAgreesWithState

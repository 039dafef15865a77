SPECIFICATION Spec
CONSTANTS
    acme = acme
    acmeInc = acmeInc
    smith = smith
    Entities = {acme, acmeInc, smith}
    Bucket <- MCBucket
    Candidates <- MCCandidates
    Undirected = {"MENTIONED_WITH"}
    Schemas = {"migrations"}
    Faulty = FALSE
INVARIANTS
    OfacHitsNeedReview

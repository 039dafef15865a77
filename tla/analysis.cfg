SPECIFICATION Spec
CONSTANTS
    acme = acme
    acmeInc = acmeInc
    smith = smith
    Entities = {acme, acmeInc, smith}
    Bucket <- MCBucket
    Candidates <- MCCandidates
    Undirected = {"MENTIONED_WITH"}
    Schemas = {"migrations", "nullable"}
    Faulty = TRUE
INVARIANTS
    TypeOK
    MergedAwayIsGone
    NobodyVanishes
    EdgesAreAccountedFor
    NoEdgeIsStoredTwice
    Neo4jFollowsPostgres
    FlaggedAreBriefedOnlyTogether

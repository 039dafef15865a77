-------------------------- MODULE Analysis_proofs --------------------------
(***************************************************************************)
(* The invariants of Analysis, for any entities, buckets and candidate     *)
(* edges, with or without failing calls.                                   *)
(*                                                                         *)
(* What every proof rests on: the list that the nodes after dedup work on  *)
(* (Working) no longer changes once dedup has run, and before that nothing *)
(* has been drafted, linked, scored or briefed.                            *)
(***************************************************************************)
EXTENDS Analysis, TLAPS

Early == at \in {"enrichment", "dedup"}

\* Where nothing that a node writes exists yet.
Phases ==
    /\ at = "enrichment" => enriched = {}
    /\ at = "dedup" => enriched = {} \/ enriched = canonical
    /\ Early => /\ primary = [e \in Entities |-> e]
                /\ draft = {} /\ nodes = {} /\ scored = {} /\ briefed = {}
    /\ Early \/ at = "relationship" =>
           unsent = {} /\ rows = {} /\ rejected = {} /\ evidence = {}
    /\ Early \/ at \in {"relationship", "edges", "sync"} => links = {}

\* What dedup leaves: an entity that was merged away is not in the list, the one
\* that it was merged into is.
Merged ==
    /\ \A e \in Entities : primary[e] # e => e \notin enriched /\ primary[e] \in enriched
    /\ ~Early /\ at # "raised" => \A e \in canonical : primary[e] \in Working

\* All that the later nodes hand on stems from Working.
FromWorking ==
    /\ \A x \in draft : Ends(x) \subseteq Working
    /\ nodes \subseteq Working
    /\ scored \subseteq Working
    /\ at \in {"verification", "briefing", "done"} => scored = Working

\* _RelBuilder never drafts two edges with the same key.
KeysDiffer == \A x, y \in draft : Key(x) = Key(y) => x = y

Gated ==
    /\ verified \cap flagged = {}
    /\ at \in {"briefing", "done"} => scored = verified \cup flagged
    /\ at \notin {"briefing", "done", "raised"} => verified = {} /\ flagged = {}
    /\ at \notin {"done", "raised"} => briefed = {}
    /\ briefed \in {{}, Scope}
    /\ briefed # {} => at = "done"

IInv ==
    /\ TypeOK /\ Phases /\ Merged /\ FromWorking /\ KeysDiffer /\ Gated
    /\ EdgesAreAccountedFor /\ Neo4jFollowsPostgres

-----------------------------------------------------------------------------
LEMMA WorkingIsCanonical ==
    ASSUME TypeOK
    PROVE  Working \subseteq canonical
BY DEF TypeOK, Working

LEMMA StartFailsKeeps ==
    ASSUME IInv, StartFails
    PROVE  IInv'
<1>1. TypeOK'
  BY DEF IInv, TypeOK, Nodes, StartFails, env, screening, edges, neo4j, gate
<1>2. Phases'
  BY DEF IInv, Phases, Early, StartFails, env, edges, neo4j
<1>3. Merged'
  BY DEF IInv, Merged, Early, Working, StartFails, env
<1>4. FromWorking'
  BY DEF IInv, FromWorking, Working, StartFails, env, edges, neo4j
<1>5. Gated'
  BY DEF IInv, Gated, Scope, StartFails, gate, Nodes
<1>6. EdgesAreAccountedFor'
  BY DEF IInv, EdgesAreAccountedFor, StartFails, edges
<1>7. KeysDiffer' /\ Neo4jFollowsPostgres'
  BY DEF IInv, KeysDiffer, Neo4jFollowsPostgres, StartFails, edges, neo4j
<1> QED  BY <1>1, <1>2, <1>3, <1>4, <1>5, <1>6, <1>7 DEF IInv

LEMMA NothingToEnrichKeeps ==
    ASSUME IInv, NothingToEnrich
    PROVE  IInv'
<1>1. TypeOK'
  BY DEF IInv, TypeOK, Nodes, NothingToEnrich, env, screening, edges, neo4j,
     gate
<1>2. Phases'
  BY DEF IInv, Phases, Early, NothingToEnrich, env, edges, neo4j
<1>3. Merged'
  BY DEF IInv, Merged, Early, Working, NothingToEnrich, env
<1>4. FromWorking'
  BY DEF IInv, FromWorking, Working, NothingToEnrich, env, edges, neo4j
<1>5. Gated'
  BY DEF IInv, Gated, Scope, NothingToEnrich, gate
<1>6. EdgesAreAccountedFor'
  BY DEF IInv, EdgesAreAccountedFor, NothingToEnrich, edges
<1>7. KeysDiffer' /\ Neo4jFollowsPostgres'
  BY DEF IInv, KeysDiffer, Neo4jFollowsPostgres, NothingToEnrich, edges,
     neo4j
<1> QED  BY <1>1, <1>2, <1>3, <1>4, <1>5, <1>6, <1>7 DEF IInv

LEMMA EnrichmentRaisesKeeps ==
    ASSUME IInv, EnrichmentRaises
    PROVE  IInv'
<1>1. TypeOK'
  BY DEF IInv, TypeOK, Nodes, EnrichmentRaises, Fail, env, screening, edges,
     neo4j, gate
<1>2. Phases'
  BY DEF IInv, Phases, Early, EnrichmentRaises, Fail, env, edges, neo4j
<1>3. Merged'
  BY DEF IInv, Merged, Early, Working, EnrichmentRaises, Fail, env
<1>4. FromWorking'
  BY DEF IInv, FromWorking, Working, EnrichmentRaises, Fail, env, edges,
     neo4j
<1>5. Gated'
  BY DEF IInv, Gated, Scope, EnrichmentRaises, Fail, gate
<1>6. EdgesAreAccountedFor'
  BY DEF IInv, EdgesAreAccountedFor, EnrichmentRaises, Fail, edges
<1>7. KeysDiffer' /\ Neo4jFollowsPostgres'
  BY DEF IInv, KeysDiffer, Neo4jFollowsPostgres, EnrichmentRaises, edges,
     neo4j
<1> QED  BY <1>1, <1>2, <1>3, <1>4, <1>5, <1>6, <1>7 DEF IInv

LEMMA FinishEnrichmentKeeps ==
    ASSUME IInv, FinishEnrichment
    PROVE  IInv'
<1>1. TypeOK'
  BY DEF IInv, TypeOK, Nodes, FinishEnrichment, env, screening, edges, neo4j,
     gate
<1>2. Phases'
  BY DEF IInv, Phases, Early, FinishEnrichment, env, edges, neo4j
<1>3. Merged'
  BY DEF IInv, Merged, Early, Working, FinishEnrichment, env, Phases, TypeOK
<1>4. FromWorking'
  BY DEF IInv, FromWorking, Working, FinishEnrichment, env, edges, neo4j,
     Phases, Early, Ends
<1>5. Gated'
  BY DEF IInv, Gated, Scope, FinishEnrichment, gate
<1>6. EdgesAreAccountedFor'
  BY DEF IInv, EdgesAreAccountedFor, FinishEnrichment, edges
<1>7. KeysDiffer' /\ Neo4jFollowsPostgres'
  BY DEF IInv, KeysDiffer, Neo4jFollowsPostgres, FinishEnrichment, edges,
     neo4j
<1> QED  BY <1>1, <1>2, <1>3, <1>4, <1>5, <1>6, <1>7 DEF IInv

LEMMA ScreenCleanKeeps ==
    ASSUME NEW e \in Entities, IInv, ScreenClean(e)
    PROVE  IInv'
<1>1. TypeOK'
  BY DEF IInv, TypeOK, Nodes, ScreenClean, env, edges, neo4j, gate
<1>2. Phases' /\ Merged' /\ FromWorking' /\ KeysDiffer' /\ Gated' /\ EdgesAreAccountedFor' /\ Neo4jFollowsPostgres'
  BY DEF IInv, Phases, Merged, FromWorking, KeysDiffer, Gated,
     EdgesAreAccountedFor, Neo4jFollowsPostgres, Early, Scope, Working,
     ScreenClean, env, edges, neo4j, gate
<1> QED  BY <1>1, <1>2 DEF IInv

LEMMA ScreenHitKeeps ==
    ASSUME NEW e \in Entities, IInv, ScreenHit(e)
    PROVE  IInv'
<1>1. TypeOK'
  BY DEF IInv, TypeOK, Nodes, ScreenHit, env, edges, neo4j, gate
<1>2. Phases' /\ Merged' /\ FromWorking' /\ KeysDiffer' /\ Gated' /\ EdgesAreAccountedFor' /\ Neo4jFollowsPostgres'
  BY DEF IInv, Phases, Merged, FromWorking, KeysDiffer, Gated,
     EdgesAreAccountedFor, Neo4jFollowsPostgres, Early, Scope, Working,
     ScreenHit, env, edges, neo4j, gate
<1> QED  BY <1>1, <1>2 DEF IInv

LEMMA DedupKeeps ==
    ASSUME IInv, Dedup
    PROVE  IInv'
<1>1. TypeOK'
  BY DEF IInv, TypeOK, Nodes, Dedup, env, screening, edges, neo4j, gate,
     Elections
<1>2. Phases'
  BY DEF IInv, Phases, Early, Dedup, env, edges, neo4j
<1>3. Merged'
  BY DEF IInv, Merged, Early, Working, Dedup, env, Elections, TypeOK, Phases
<1>4. FromWorking'
  BY DEF IInv, FromWorking, Working, Dedup, env, edges, neo4j, Phases, Early,
     Ends
<1>5. Gated'
  BY DEF IInv, Gated, Scope, Dedup, gate
<1>6. EdgesAreAccountedFor'
  BY DEF IInv, EdgesAreAccountedFor, Dedup, edges
<1>7. KeysDiffer' /\ Neo4jFollowsPostgres'
  BY DEF IInv, KeysDiffer, Neo4jFollowsPostgres, Dedup, edges, neo4j
<1> QED  BY <1>1, <1>2, <1>3, <1>4, <1>5, <1>6, <1>7 DEF IInv

LEMMA NothingToRelateKeeps ==
    ASSUME IInv, NothingToRelate
    PROVE  IInv'
<1>1. TypeOK'
  BY DEF IInv, TypeOK, Nodes, NothingToRelate, env, screening, edges, neo4j,
     gate
<1>2. Phases'
  BY DEF IInv, Phases, Early, NothingToRelate, env, edges, neo4j
<1>3. Merged'
  BY DEF IInv, Merged, Early, Working, NothingToRelate, env
<1>4. FromWorking'
  BY DEF IInv, FromWorking, Working, NothingToRelate, env, edges, neo4j
<1>5. Gated'
  BY DEF IInv, Gated, Scope, NothingToRelate, gate
<1>6. EdgesAreAccountedFor'
  BY DEF IInv, EdgesAreAccountedFor, NothingToRelate, edges, Phases,
     FromWorking, Ends
<1>7. KeysDiffer' /\ Neo4jFollowsPostgres'
  BY DEF IInv, KeysDiffer, Neo4jFollowsPostgres, NothingToRelate, edges,
     neo4j
<1> QED  BY <1>1, <1>2, <1>3, <1>4, <1>5, <1>6, <1>7 DEF IInv

LEMMA RelationshipRaisesKeeps ==
    ASSUME IInv, RelationshipRaises
    PROVE  IInv'
<1>1. TypeOK'
  BY DEF IInv, TypeOK, Nodes, RelationshipRaises, Fail, env, screening,
     neo4j, gate, Phases, Early, Neo4jFollowsPostgres
<1>2. Phases'
  BY DEF IInv, Phases, Early, RelationshipRaises, Fail, env, neo4j
<1>3. Merged'
  BY DEF IInv, Merged, Early, Working, RelationshipRaises, Fail, env
<1>4. FromWorking'
  BY DEF IInv, FromWorking, Working, RelationshipRaises, Fail, env, neo4j
<1>5. KeysDiffer'
  BY DEF IInv, KeysDiffer, RelationshipRaises, Fail
<1>6. Gated'
  BY DEF IInv, Gated, Scope, RelationshipRaises, Fail, gate
<1>7. EdgesAreAccountedFor'
  BY DEF IInv, EdgesAreAccountedFor, RelationshipRaises, Fail, Phases
<1>8. Neo4jFollowsPostgres'
  BY DEF IInv, Neo4jFollowsPostgres, RelationshipRaises, neo4j
<1> QED  BY <1>1, <1>2, <1>3, <1>4, <1>5, <1>6, <1>7, <1>8 DEF IInv

LEMMA FinishExtractionKeeps ==
    ASSUME IInv, FinishExtraction
    PROVE  IInv'
<1>1. TypeOK'
  BY DEF IInv, TypeOK, Nodes, FinishExtraction, env, screening, neo4j, gate
<1>2. Phases'
  BY DEF IInv, Phases, Early, FinishExtraction, env, neo4j
<1>3. Merged'
  BY DEF IInv, Merged, Early, Working, FinishExtraction, env
<1>4. FromWorking'
  BY DEF IInv, FromWorking, Working, FinishExtraction, env, neo4j
<1>5. Gated'
  BY DEF IInv, Gated, Scope, FinishExtraction, gate
<1>6. EdgesAreAccountedFor'
  BY DEF IInv, EdgesAreAccountedFor, FinishExtraction, Phases
<1>7. KeysDiffer' /\ Neo4jFollowsPostgres'
  BY DEF IInv, KeysDiffer, Neo4jFollowsPostgres, FinishExtraction, neo4j
<1> QED  BY <1>1, <1>2, <1>3, <1>4, <1>5, <1>6, <1>7 DEF IInv

LEMMA AddEdgeKeeps ==
    ASSUME NEW x \in Candidates, IInv, AddEdge(x)
    PROVE  IInv'
<1>1. TypeOK'
  BY DEF IInv, TypeOK, Nodes, AddEdge, env, screening, neo4j, gate
<1>2. Phases'
  BY DEF IInv, Phases, Early, AddEdge, env, neo4j
<1>3. FromWorking'
  BY DEF IInv, FromWorking, Working, AddEdge, env, neo4j, Ends
<1>4. KeysDiffer'
  BY DEF IInv, KeysDiffer, AddEdge
<1>5. EdgesAreAccountedFor'
  BY DEF IInv, EdgesAreAccountedFor, AddEdge
<1>6. Merged' /\ Gated' /\ Neo4jFollowsPostgres'
  BY DEF IInv, Merged, Gated, Neo4jFollowsPostgres, Early, Scope, Working,
     AddEdge, env, neo4j, gate
<1> QED  BY <1>1, <1>2, <1>3, <1>4, <1>5, <1>6 DEF IInv

LEMMA RejectUnsourcedKeeps ==
    ASSUME NEW x \in Candidates, IInv, RejectUnsourced(x)
    PROVE  IInv'
<1>1. TypeOK'
  BY DEF IInv, TypeOK, Nodes, RejectUnsourced, env, screening, neo4j, gate
<1>2. Phases'
  BY DEF IInv, Phases, Early, RejectUnsourced, env, neo4j
<1>3. EdgesAreAccountedFor'
  BY DEF IInv, EdgesAreAccountedFor, RejectUnsourced
<1>4. Merged' /\ FromWorking' /\ KeysDiffer' /\ Gated' /\ Neo4jFollowsPostgres'
  BY DEF IInv, Merged, FromWorking, KeysDiffer, Gated, Neo4jFollowsPostgres,
     Early, Scope, Working, RejectUnsourced, env, neo4j, gate
<1> QED  BY <1>1, <1>2, <1>3, <1>4 DEF IInv

LEMMA EvidenceFailsKeeps ==
    ASSUME NEW x \in Candidates, IInv, EvidenceFails(x)
    PROVE  IInv'
<1>1. TypeOK'
  BY DEF IInv, TypeOK, Nodes, EvidenceFails, env, screening, neo4j, gate
<1>2. Phases'
  BY DEF IInv, Phases, Early, EvidenceFails, env, neo4j
<1>3. EdgesAreAccountedFor'
  BY DEF IInv, EdgesAreAccountedFor, EvidenceFails
<1>4. Merged' /\ FromWorking' /\ KeysDiffer' /\ Gated' /\ Neo4jFollowsPostgres'
  BY DEF IInv, Merged, FromWorking, KeysDiffer, Gated, Neo4jFollowsPostgres,
     Early, Scope, Working, EvidenceFails, env, neo4j, gate
<1> QED  BY <1>1, <1>2, <1>3, <1>4 DEF IInv

LEMMA WriteEdgeKeeps ==
    ASSUME NEW x \in Candidates, IInv, WriteEdge(x)
    PROVE  IInv'
<1>1. TypeOK'
  BY DEF IInv, TypeOK, Nodes, WriteEdge, env, screening, neo4j, gate
<1>2. Phases'
  BY DEF IInv, Phases, Early, WriteEdge, env, neo4j
<1>3. EdgesAreAccountedFor'
  BY DEF IInv, EdgesAreAccountedFor, WriteEdge
<1>4. Neo4jFollowsPostgres'
  BY DEF IInv, Neo4jFollowsPostgres, WriteEdge, neo4j
<1>5. Merged' /\ FromWorking' /\ KeysDiffer' /\ Gated'
  BY DEF IInv, Merged, FromWorking, KeysDiffer, Gated, Early, Scope, Working,
     WriteEdge, env, neo4j, gate
<1> QED  BY <1>1, <1>2, <1>3, <1>4, <1>5 DEF IInv

LEMMA RowFailsKeeps ==
    ASSUME NEW x \in Candidates, IInv, RowFails(x)
    PROVE  IInv'
<1>1. TypeOK'
  BY DEF IInv, TypeOK, Nodes, RowFails, env, screening, neo4j, gate
<1>2. Phases'
  BY DEF IInv, Phases, Early, RowFails, env, neo4j
<1>3. EdgesAreAccountedFor'
  BY DEF IInv, EdgesAreAccountedFor, RowFails
<1>4. Merged' /\ FromWorking' /\ KeysDiffer' /\ Gated' /\ Neo4jFollowsPostgres'
  BY DEF IInv, Merged, FromWorking, KeysDiffer, Gated, Neo4jFollowsPostgres,
     Early, Scope, Working, RowFails, env, neo4j, gate
<1> QED  BY <1>1, <1>2, <1>3, <1>4 DEF IInv

LEMMA UpsertNodesKeeps ==
    ASSUME IInv, UpsertNodes
    PROVE  IInv'
<1>1. TypeOK'
  BY WorkingIsCanonical DEF IInv, TypeOK, Nodes, UpsertNodes, Succeeding,
     env, screening, edges, gate
<1>2. Phases'
  BY DEF IInv, Phases, Early, UpsertNodes, env, edges
<1>3. Merged'
  BY DEF IInv, Merged, Early, Working, UpsertNodes, env
<1>4. FromWorking'
  BY DEF IInv, FromWorking, Working, UpsertNodes, Succeeding, env, edges
<1>5. Gated'
  BY DEF IInv, Gated, Scope, UpsertNodes, gate
<1>6. EdgesAreAccountedFor'
  BY DEF IInv, EdgesAreAccountedFor, UpsertNodes, edges
<1>7. Neo4jFollowsPostgres'
  BY DEF IInv, Neo4jFollowsPostgres, UpsertNodes, Succeeding, edges, Phases
<1>8. KeysDiffer'
  BY DEF IInv, KeysDiffer, UpsertNodes, edges
<1> QED  BY <1>1, <1>2, <1>3, <1>4, <1>5, <1>6, <1>7, <1>8 DEF IInv

LEMMA UpsertEdgesKeeps ==
    ASSUME IInv, UpsertEdges
    PROVE  IInv'
<1>1. TypeOK'
  BY DEF IInv, TypeOK, Nodes, UpsertEdges, Succeeding, env, screening, edges,
     gate, Sendable
<1>2. Phases'
  BY DEF IInv, Phases, Early, UpsertEdges, env, edges
<1>3. Merged'
  BY DEF IInv, Merged, Early, Working, UpsertEdges, env
<1>4. FromWorking'
  BY DEF IInv, FromWorking, Working, UpsertEdges, Succeeding, env, edges
<1>5. Gated'
  BY DEF IInv, Gated, Scope, UpsertEdges, gate
<1>6. EdgesAreAccountedFor'
  BY DEF IInv, EdgesAreAccountedFor, UpsertEdges, edges
<1>7. Neo4jFollowsPostgres'
  BY DEF IInv, Neo4jFollowsPostgres, UpsertEdges, Succeeding, edges,
     Sendable, Ends
<1>8. KeysDiffer'
  BY DEF IInv, KeysDiffer, UpsertEdges, edges
<1> QED  BY <1>1, <1>2, <1>3, <1>4, <1>5, <1>6, <1>7, <1>8 DEF IInv

LEMMA MarkSyncedKeeps ==
    ASSUME IInv, MarkSynced
    PROVE  IInv'
<1>1. TypeOK'
  BY DEF IInv, TypeOK, Nodes, MarkSynced, env, screening, edges, gate
<1>2. Phases'
  BY DEF IInv, Phases, Early, MarkSynced, env, edges
<1>3. Merged'
  BY DEF IInv, Merged, Early, Working, MarkSynced, env
<1>4. FromWorking'
  BY DEF IInv, FromWorking, Working, MarkSynced, env, edges
<1>5. Gated'
  BY DEF IInv, Gated, Scope, MarkSynced, gate
<1>6. EdgesAreAccountedFor'
  BY DEF IInv, EdgesAreAccountedFor, MarkSynced, edges
<1>7. Neo4jFollowsPostgres'
  BY DEF IInv, Neo4jFollowsPostgres, MarkSynced, edges
<1>8. KeysDiffer'
  BY DEF IInv, KeysDiffer, MarkSynced, edges
<1> QED  BY <1>1, <1>2, <1>3, <1>4, <1>5, <1>6, <1>7, <1>8 DEF IInv

LEMMA ScoreKeeps ==
    ASSUME IInv, Score
    PROVE  IInv'
<1>1. TypeOK'
  BY WorkingIsCanonical DEF IInv, TypeOK, Nodes, Score, env, screening,
     edges, neo4j, gate, Gated
<1>2. Phases'
  BY DEF IInv, Phases, Early, Score, env, edges, neo4j
<1>3. Merged'
  BY DEF IInv, Merged, Early, Working, Score, env
<1>4. FromWorking'
  BY DEF IInv, FromWorking, Working, Score, env, edges, neo4j
<1>5. Gated'
  BY DEF IInv, Gated, Scope, Score, gate
<1>6. EdgesAreAccountedFor'
  BY DEF IInv, EdgesAreAccountedFor, Score, edges
<1>7. KeysDiffer' /\ Neo4jFollowsPostgres'
  BY DEF IInv, KeysDiffer, Neo4jFollowsPostgres, Score, edges, neo4j
<1> QED  BY <1>1, <1>2, <1>3, <1>4, <1>5, <1>6, <1>7 DEF IInv

LEMMA NothingToVerifyKeeps ==
    ASSUME IInv, NothingToVerify
    PROVE  IInv'
<1>1. TypeOK'
  BY DEF IInv, TypeOK, Nodes, NothingToVerify, env, screening, edges, neo4j,
     gate
<1>2. Phases'
  BY DEF IInv, Phases, Early, NothingToVerify, env, edges, neo4j
<1>3. Merged'
  BY DEF IInv, Merged, Early, Working, NothingToVerify, env
<1>4. FromWorking'
  BY DEF IInv, FromWorking, Working, NothingToVerify, env, edges, neo4j
<1>5. Gated'
  BY DEF IInv, Gated, Scope, NothingToVerify, gate
<1>6. EdgesAreAccountedFor'
  BY DEF IInv, EdgesAreAccountedFor, NothingToVerify, edges
<1>7. KeysDiffer' /\ Neo4jFollowsPostgres'
  BY DEF IInv, KeysDiffer, Neo4jFollowsPostgres, NothingToVerify, edges,
     neo4j
<1> QED  BY <1>1, <1>2, <1>3, <1>4, <1>5, <1>6, <1>7 DEF IInv

LEMMA VerifyKeeps ==
    ASSUME IInv, Verify
    PROVE  IInv'
<1>1. TypeOK'
  BY DEF IInv, TypeOK, Nodes, Verify, Succeeding, env, edges, neo4j, Passing
<1>2. Phases'
  BY DEF IInv, Phases, Early, Verify, env, edges, neo4j
<1>3. Merged'
  BY DEF IInv, Merged, Early, Working, Verify, env
<1>4. FromWorking'
  BY DEF IInv, FromWorking, Working, Verify, Succeeding, env, edges, neo4j
<1>5. Gated'
  BY DEF IInv, Gated, Scope, Verify, Passing
<1>6. EdgesAreAccountedFor'
  BY DEF IInv, EdgesAreAccountedFor, Verify, edges
<1>7. KeysDiffer' /\ Neo4jFollowsPostgres'
  BY DEF IInv, KeysDiffer, Neo4jFollowsPostgres, Verify, edges, neo4j
<1> QED  BY <1>1, <1>2, <1>3, <1>4, <1>5, <1>6, <1>7 DEF IInv

LEMMA BriefKeeps ==
    ASSUME IInv, Brief
    PROVE  IInv'
<1>1. TypeOK'
  BY DEF IInv, TypeOK, Nodes, Brief, env, screening, edges, neo4j, gate,
     Scope
<1>2. Phases'
  BY DEF IInv, Phases, Early, Brief, env, edges, neo4j
<1>3. Merged'
  BY DEF IInv, Merged, Early, Working, Brief, env
<1>4. FromWorking'
  BY DEF IInv, FromWorking, Working, Brief, env, edges, neo4j
<1>5. Gated'
  BY DEF IInv, Gated, Scope, Brief, gate
<1>6. EdgesAreAccountedFor'
  BY DEF IInv, EdgesAreAccountedFor, Brief, edges
<1>7. KeysDiffer' /\ Neo4jFollowsPostgres'
  BY DEF IInv, KeysDiffer, Neo4jFollowsPostgres, Brief, edges, neo4j
<1> QED  BY <1>1, <1>2, <1>3, <1>4, <1>5, <1>6, <1>7 DEF IInv

LEMMA BriefingRaisesKeeps ==
    ASSUME IInv, BriefingRaises
    PROVE  IInv'
<1>1. TypeOK'
  BY DEF IInv, TypeOK, Nodes, BriefingRaises, Fail, env, screening, edges,
     neo4j, gate
<1>2. Phases'
  BY DEF IInv, Phases, Early, BriefingRaises, Fail, env, edges, neo4j
<1>3. Merged'
  BY DEF IInv, Merged, Early, Working, BriefingRaises, Fail, env
<1>4. FromWorking'
  BY DEF IInv, FromWorking, Working, BriefingRaises, Fail, env, edges, neo4j
<1>5. Gated'
  BY DEF IInv, Gated, Scope, BriefingRaises, Fail, gate
<1>6. EdgesAreAccountedFor'
  BY DEF IInv, EdgesAreAccountedFor, BriefingRaises, Fail, edges
<1>7. KeysDiffer' /\ Neo4jFollowsPostgres'
  BY DEF IInv, KeysDiffer, Neo4jFollowsPostgres, BriefingRaises, edges, neo4j
<1> QED  BY <1>1, <1>2, <1>3, <1>4, <1>5, <1>6, <1>7 DEF IInv

-----------------------------------------------------------------------------
LEMMA StutterKeeps ==
    ASSUME IInv, UNCHANGED vars
    PROVE  IInv'
<1> USE DEF vars, env, screening, edges, neo4j, gate
<1>1. TypeOK' /\ Phases' /\ Merged'
  BY DEF IInv, TypeOK, Phases, Merged, Early, Working
<1>2. FromWorking' /\ KeysDiffer' /\ Gated'
  BY DEF IInv, FromWorking, KeysDiffer, Gated, Working, Scope
<1>3. EdgesAreAccountedFor' /\ Neo4jFollowsPostgres'
  BY DEF IInv, EdgesAreAccountedFor, Neo4jFollowsPostgres
<1> QED  BY <1>1, <1>2, <1>3 DEF IInv

LEMMA InitEstablishes ==
    ASSUME Init
    PROVE  IInv
<1>1. TypeOK
  BY DEF Init, TypeOK, Nodes
<1>2. Phases /\ Merged /\ FromWorking
  BY DEF Init, Phases, Merged, FromWorking, Early, Working
<1>3. KeysDiffer /\ Gated /\ EdgesAreAccountedFor /\ Neo4jFollowsPostgres
  BY DEF Init, KeysDiffer, Gated, EdgesAreAccountedFor, Neo4jFollowsPostgres
<1> QED  BY <1>1, <1>2, <1>3 DEF IInv

LEMMA StepKeeps ==
    ASSUME IInv, [Next]_vars
    PROVE  IInv'
<1>1. CASE StartFails  BY <1>1, StartFailsKeeps
<1>2. CASE NothingToEnrich  BY <1>2, NothingToEnrichKeeps
<1>3. CASE EnrichmentRaises  BY <1>3, EnrichmentRaisesKeeps
<1>4. CASE FinishEnrichment  BY <1>4, FinishEnrichmentKeeps
<1>5. ASSUME NEW e \in unscreened, ScreenClean(e) \/ ScreenHit(e)  PROVE IInv'
  <2>1. e \in Entities  BY DEF IInv, TypeOK
  <2> QED  BY <1>5, <2>1, ScreenCleanKeeps, ScreenHitKeeps
<1>6. CASE Dedup  BY <1>6, DedupKeeps
<1>7. CASE NothingToRelate  BY <1>7, NothingToRelateKeeps
<1>8. CASE RelationshipRaises  BY <1>8, RelationshipRaisesKeeps
<1>9. CASE FinishExtraction  BY <1>9, FinishExtractionKeeps
<1>10. ASSUME NEW x \in Candidates, AddEdge(x)  PROVE IInv'
  BY <1>10, AddEdgeKeeps
<1>11. ASSUME NEW x \in unsent,
              RejectUnsourced(x) \/ EvidenceFails(x) \/ WriteEdge(x) \/ RowFails(x)
       PROVE  IInv'
  <2>1. x \in Candidates  BY DEF IInv, TypeOK
  <2> QED  BY <1>11, <2>1, RejectUnsourcedKeeps, EvidenceFailsKeeps, WriteEdgeKeeps,
              RowFailsKeeps
<1>12. CASE UpsertNodes  BY <1>12, UpsertNodesKeeps
<1>13. CASE UpsertEdges  BY <1>13, UpsertEdgesKeeps
<1>14. CASE MarkSynced  BY <1>14, MarkSyncedKeeps
<1>15. CASE Score  BY <1>15, ScoreKeeps
<1>16. CASE NothingToVerify  BY <1>16, NothingToVerifyKeeps
<1>17. CASE Verify  BY <1>17, VerifyKeeps
<1>18. CASE Brief  BY <1>18, BriefKeeps
<1>19. CASE BriefingRaises  BY <1>19, BriefingRaisesKeeps
<1>20. CASE Ended \/ UNCHANGED vars  BY <1>20, StutterKeeps DEF Ended
<1> QED
  BY <1>1, <1>2, <1>3, <1>4, <1>5, <1>6, <1>7, <1>8, <1>9, <1>10, <1>11, <1>12,
     <1>13, <1>14, <1>15, <1>16, <1>17, <1>18, <1>19, <1>20 DEF Next

LEMMA Invariance == Spec => []IInv
BY InitEstablishes, StepKeeps, PTL DEF Spec

-----------------------------------------------------------------------------
\* Every list that a node hands on, every row and every node of Neo4j is made of
\* canonical entities and of candidate edges.
THEOREM TypeCorrect == Spec => []TypeOK
<1>1. IInv => TypeOK  BY DEF IInv
<1> QED  BY <1>1, Invariance, PTL

\* For any buckets and any names that are alike: an entity that dedup merged away
\* has no edge, no node, no score and no place in the brief.
THEOREM MergedAwayStaysOut == Spec => []MergedAwayIsGone
<1>1. ASSUME IInv  PROVE MergedAwayIsGone
  <2> SUFFICES ASSUME NEW e \in Entities, primary[e] # e
               PROVE  /\ \A x \in draft : e \notin Ends(x)
                      /\ e \notin enriched \cup nodes \cup scored \cup briefed
    BY DEF MergedAwayIsGone
  <2>1. e \notin enriched /\ enriched # {}
    BY <1>1 DEF IInv, Merged
  <2>2. e \notin Working
    BY <2>1 DEF Working
  <2>3. briefed \subseteq Working
    BY <1>1 DEF IInv, TypeOK, FromWorking
  <2> QED
    BY <1>1, <2>1, <2>2, <2>3 DEF IInv, FromWorking
<1> QED  BY <1>1, Invariance, PTL

\* Whatever fails on the way, each canonical entity is scored, itself or as the
\* one it was merged into, and each scored one passes the gate or is flagged.
THEOREM NobodyIsLost == Spec => []NobodyVanishes
<1>1. IInv => NobodyVanishes
  BY DEF IInv, NobodyVanishes, Merged, Early, FromWorking, Gated
<1> QED  BY <1>1, Invariance, PTL

\* Every drafted edge is stored with its evidence or rejected.
THEOREM EdgesAreKept == Spec => []EdgesAreAccountedFor
<1>1. IInv => EdgesAreAccountedFor  BY DEF IInv
<1> QED  BY <1>1, Invariance, PTL

\* The keys that _RelBuilder remembers keep the second of two equal edges out of
\* the store, also when the edge is undirected and comes from its other end.
THEOREM EdgesAreDistinct == Spec => []NoEdgeIsStoredTwice
<1>1. ASSUME IInv  PROVE NoEdgeIsStoredTwice
  <2> SUFFICES ASSUME NEW x \in rows, NEW y \in rows, x.kind = y.kind,
                      \/ x.from = y.from /\ x.to = y.to
                      \/ x.kind \in Undirected /\ Ends(x) = Ends(y)
               PROVE  x = y
    BY DEF NoEdgeIsStoredTwice
  <2>1. x \in draft /\ y \in draft
    BY <1>1 DEF IInv, TypeOK
  <2>2. Key(x) = Key(y)
    <3>1. CASE x.from = y.from /\ x.to = y.to
      BY <3>1 DEF Key
    <3>2. CASE x.kind \in Undirected /\ Ends(x) = Ends(y)
      <4>1. \/ x.from = y.from /\ x.to = y.to
            \/ x.from = y.to /\ x.to = y.from
        BY <3>2 DEF Ends
      <4>2. {<<x.from, x.to>>, <<x.to, x.from>>} = {<<y.from, y.to>>, <<y.to, y.from>>}
        BY <4>1
      <4> QED  BY <3>2, <4>2 DEF Key
    <3> QED  BY <3>1, <3>2
  <2> QED  BY <1>1, <2>1, <2>2 DEF IInv, KeysDiffer
<1> QED  BY <1>1, Invariance, PTL

\* Neo4j holds no edge that Postgres does not, and none without its two nodes.
THEOREM Neo4jIsDerived == Spec => []Neo4jFollowsPostgres
<1>1. IInv => Neo4jFollowsPostgres  BY DEF IInv
<1> QED  BY <1>1, Invariance, PTL

\* The brief names an entity that failed verification only in the case where
\* every entity failed, and it then names them all.
THEOREM FlaggedTogetherOrNot == Spec => []FlaggedAreBriefedOnlyTogether
<1>1. IInv => FlaggedAreBriefedOnlyTogether
  BY DEF IInv, FlaggedAreBriefedOnlyTogether, Gated, Scope, TypeOK
<1> QED  BY <1>1, Invariance, PTL
=============================================================================

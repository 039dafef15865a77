------------------------------ MODULE Analysis ------------------------------
(***************************************************************************)
(* The pipeline after resolution: enrichment, dedup, relationship,         *)
(* scoring, verification and briefing, one node of the graph after the     *)
(* other.  What is modelled is which entities and which edges each node    *)
(* hands on through the state, what it writes to Postgres and to Neo4j,    *)
(* and what is left of both when a call fails.  What an entity contains,   *)
(* its scores and its claims are left out; a verdict, a likeness of two    *)
(* names and the edges that an extractor finds are any.                    *)
(*                                                                         *)
(* A node that raises within run() hands on nothing and the graph goes on; *)
(* one whose bookkeeping outside run() raises ends the graph.              *)
(***************************************************************************)
EXTENDS FiniteSets

CONSTANTS
    Entities,     \* entity ids
    Bucket,       \* DEDUP_BUCKETS of each entity's type
    Candidates,   \* edges that the extractors and the LLM may propose
    Undirected,   \* relationship types whose RELATIONSHIP_DIRECTION is undirected
    Schemas,      \* of entity_evidence: "migrations", "nullable"
    Faulty        \* whether a call to a database or an API may fail

ASSUME EntitiesAssumption == IsFiniteSet(Entities) /\ Faulty \in BOOLEAN

ASSUME CandidatesAssumption ==
    \A x \in Candidates : x.from \in Entities /\ x.to \in Entities /\ x.sourced \in BOOLEAN

Nodes == {"enrichment", "dedup", "relationship", "scoring", "verification", "briefing"}

VARIABLES
    schema,       \* whether entity_evidence.retrieved_at is NOT NULL
    at,           \* the node that is next, or where relationship is
    failed,       \* nodes whose agent_statuses entry is "error"
    canonical,    \* canonical_entities
    unscreened,   \* entities that enrichment has to visit
    suspects,     \* entities with needs_review in memory: the OFAC hits
    review,       \* entities with needs_review in Postgres
    enriched,     \* enriched_entities
    primary,      \* the entity that dedup kept for each
    draft,        \* _RelBuilder.draft
    unsent,       \* drafts that _write_relationships has to visit
    evidence,     \* drafts with a row in entity_evidence
    rows,         \* relationships_draft: edges with a row in relationships
    rejected,     \* relationships_rejected
    nodes,        \* entities in Neo4j
    links,        \* edges in Neo4j
    synced,       \* rows with neo4j_synced
    scored,       \* scored_entities
    verified,     \* verified_entity_ids
    flagged,      \* flagged_entity_ids
    briefed       \* the entities in scope of the briefing

screening == <<unscreened, suspects, review>>
edges     == <<draft, unsent, evidence, rows, rejected>>
neo4j     == <<nodes, links, synced>>
gate      == <<verified, flagged>>
env       == <<schema, canonical>>
vars == <<env, at, failed, screening, enriched, primary, edges, neo4j, scored, gate, briefed>>

TypeOK ==
    /\ schema \in Schemas
    /\ at \in Nodes \cup {"edges", "sync", "links", "done", "raised"}
    /\ failed \subseteq Nodes
    /\ canonical \subseteq Entities /\ unscreened \subseteq canonical
    /\ suspects \subseteq canonical /\ review \subseteq canonical
    /\ enriched \subseteq canonical
    /\ primary \in [Entities -> Entities]
    /\ draft \subseteq Candidates /\ unsent \subseteq draft /\ evidence \subseteq draft
    /\ rows \subseteq draft /\ rejected \subseteq draft
    /\ nodes \subseteq canonical /\ links \subseteq draft /\ synced \subseteq draft
    /\ scored \subseteq canonical
    /\ verified \subseteq scored /\ flagged \subseteq scored /\ briefed \subseteq scored

Init ==
    /\ schema \in Schemas
    /\ at = "enrichment" /\ failed = {}
    /\ canonical \in SUBSET Entities
    /\ unscreened = canonical /\ suspects = {} /\ review = {}
    /\ enriched = {} /\ primary = [e \in Entities |-> e]
    /\ draft = {} /\ unsent = {} /\ evidence = {} /\ rows = {} /\ rejected = {}
    /\ nodes = {} /\ links = {} /\ synced = {}
    /\ scored = {} /\ verified = {} /\ flagged = {} /\ briefed = {}

-----------------------------------------------------------------------------
(* BaseAgent.__call__.                                                      *)

\* The Redis status cannot be set, which nothing catches.
StartFails ==
    /\ Faulty /\ at \in Nodes
    /\ at' = "raised"
    /\ UNCHANGED <<env, failed, screening, enriched, primary, edges, neo4j,
                   scored, gate, briefed>>

\* run() of node n raised: the patch holds the status "error" and nothing else ...
Fail(n, next) ==
    \/ failed' = failed \cup {n} /\ at' = next
    \* ... but _on_error, which records it, may raise in turn.
    \/ Faulty /\ failed' = failed /\ at' = "raised"

-----------------------------------------------------------------------------
(* EnrichmentAgent.                                                         *)

\* canonical_entities is empty: _empty_patch.
NothingToEnrich ==
    /\ at = "enrichment" /\ canonical = {}
    /\ at' = "dedup"
    /\ UNCHANGED <<env, failed, screening, enriched, primary, edges, neo4j,
                   scored, gate, briefed>>

\* No match, or the OFAC search failed: the entity is taken over as it is.
ScreenClean(e) ==
    /\ at = "enrichment" /\ e \in unscreened
    /\ unscreened' = unscreened \ {e}
    /\ UNCHANGED <<env, at, failed, suspects, review, enriched, primary, edges,
                   neo4j, scored, gate, briefed>>

\* A match.  The entity is flagged in memory; its evidence, which lacks
\* supported_field, is never written.  expire_entity then points superseded_by
\* at a row that write_entity would insert after it: the foreign key refuses
\* the UPDATE, the INSERT is skipped and the row stays as it was.
ScreenHit(e) ==
    /\ at = "enrichment" /\ e \in unscreened
    /\ unscreened' = unscreened \ {e}
    /\ suspects' = suspects \cup {e}
    /\ UNCHANGED <<env, at, failed, review, enriched, primary, edges, neo4j,
                   scored, gate, briefed>>

\* The search record of an entity cannot be written: the whole node fails.
EnrichmentRaises ==
    /\ Faulty /\ at = "enrichment" /\ unscreened # {}
    /\ Fail("enrichment", "dedup")
    /\ UNCHANGED <<env, screening, enriched, primary, edges, neo4j, scored, gate, briefed>>

FinishEnrichment ==
    /\ at = "enrichment" /\ canonical # {} /\ unscreened = {}
    /\ at' = "dedup"
    /\ enriched' = canonical
    /\ UNCHANGED <<env, failed, screening, primary, edges, neo4j, scored, gate, briefed>>

-----------------------------------------------------------------------------
(* DedupAgent.                                                              *)

\* The names that are alike in a bucket make clusters, each with one primary.
Elections ==
    {p \in [Entities -> Entities] : \A e \in Entities :
        /\ p[p[e]] = p[e] /\ Bucket[p[e]] = Bucket[e]
        /\ e \in enriched => p[e] \in enriched
        /\ e \notin enriched => p[e] = e}

Dedup ==
    /\ at = "dedup"
    /\ at' = "relationship"
    /\ \E p \in Elections :
        /\ primary' = p
        /\ enriched' = {p[e] : e \in enriched}
    /\ UNCHANGED <<env, failed, screening, edges, neo4j, scored, gate, briefed>>

-----------------------------------------------------------------------------
(* RelationshipAgent.                                                       *)

\* Mutant: a node that failed leaves nothing to work on.
Working_NoFallback == enriched

\* Mutant: the list that dedup replaced.
Working_Canonical == canonical

\* enriched_entities or canonical_entities.
Working == IF enriched # {} THEN enriched ELSE canonical

\* Mutant: the ids of an undirected edge keep their order.
Key_Directed(x) == <<{<<x.from, x.to>>}, x.kind>>

\* What _RelBuilder remembers of an edge that it has seen.
Key(x) ==
    IF x.kind \in Undirected THEN <<{<<x.from, x.to>>, <<x.to, x.from>>}, x.kind>>
                             ELSE <<{<<x.from, x.to>>}, x.kind>>

NothingToRelate ==
    /\ at = "relationship" /\ Working = {}
    /\ at' = "scoring"
    /\ UNCHANGED <<env, failed, screening, enriched, primary, edges, neo4j,
                   scored, gate, briefed>>

\* _RelBuilder.add, called by the extractors and for what the LLM answers.
AddEdge(x) ==
    /\ at = "relationship" /\ {x.from, x.to} \subseteq Working
    /\ x.from # x.to
    /\ \A y \in draft : Key(y) # Key(x)
    /\ draft' = draft \cup {x}
    /\ UNCHANGED <<env, at, failed, screening, enriched, primary, unsent,
                   evidence, rows, rejected, neo4j, scored, gate, briefed>>

\* An extractor meets fields that it cannot read: nothing was written yet.
RelationshipRaises ==
    /\ at = "relationship" /\ Working # {}
    /\ draft' = {}
    /\ Fail("relationship", "scoring")
    /\ UNCHANGED <<env, screening, enriched, primary, unsent, evidence, rows,
                   rejected, neo4j, scored, gate, briefed>>

FinishExtraction ==
    /\ at = "relationship" /\ Working # {}
    /\ at' = "edges" /\ unsent' = draft
    /\ UNCHANGED <<env, failed, screening, enriched, primary, draft, evidence,
                   rows, rejected, neo4j, scored, gate, briefed>>

\* An edge without a source_url is rejected before any write.
RejectUnsourced(x) ==
    /\ at = "edges" /\ x \in unsent /\ ~x.sourced
    /\ unsent' = unsent \ {x}
    /\ rejected' = rejected \cup {x}
    /\ UNCHANGED <<env, at, failed, screening, enriched, primary, draft,
                   evidence, rows, neo4j, scored, gate, briefed>>

\* write_evidence sends NULL for retrieved_at, which the record lacks: a column
\* that is NOT NULL refuses it, whatever its default.
EvidenceRefused == schema = "migrations"

EvidenceFails(x) ==
    /\ at = "edges" /\ x \in unsent /\ x.sourced
    /\ EvidenceRefused \/ Faulty
    /\ unsent' = unsent \ {x}
    /\ rejected' = rejected \cup {x}
    /\ UNCHANGED <<env, at, failed, screening, enriched, primary, draft,
                   evidence, rows, neo4j, scored, gate, briefed>>

WriteEdge(x) ==
    /\ at = "edges" /\ x \in unsent /\ x.sourced /\ ~EvidenceRefused
    /\ unsent' = unsent \ {x}
    /\ evidence' = evidence \cup {x}
    /\ rows' = rows \cup {x}
    /\ UNCHANGED <<env, at, failed, screening, enriched, primary, draft,
                   rejected, neo4j, scored, gate, briefed>>

\* Mutant: the loop moves on without rejected.append(edge).
RowFails_OnlyLogs(x) ==
    /\ Faulty /\ at = "edges" /\ x \in unsent /\ x.sourced /\ ~EvidenceRefused
    /\ unsent' = unsent \ {x}
    /\ evidence' = evidence \cup {x}
    /\ UNCHANGED <<env, at, failed, screening, enriched, primary, draft, rows,
                   rejected, neo4j, scored, gate, briefed>>

\* The evidence of an edge whose relationship cannot be written stays.
RowFails(x) ==
    /\ Faulty /\ at = "edges" /\ x \in unsent /\ x.sourced /\ ~EvidenceRefused
    /\ unsent' = unsent \ {x}
    /\ evidence' = evidence \cup {x}
    /\ rejected' = rejected \cup {x}
    /\ UNCHANGED <<env, at, failed, screening, enriched, primary, draft, rows,
                   neo4j, scored, gate, briefed>>

\* Those of a set of calls that succeed, when each may fail by itself.
Succeeding(all) == IF Faulty THEN SUBSET all ELSE {all}

UpsertNodes ==
    /\ at = "edges" /\ unsent = {}
    /\ at' = "sync"
    /\ nodes' \in Succeeding(Working)
    /\ UNCHANGED <<env, failed, screening, enriched, primary, edges, links,
                   synced, scored, gate, briefed>>

\* Mutant: all that was drafted is sent, the rejected edges too.
Sendable_Drafts == draft

\* written_edges.
Sendable == rows

\* upsert_edge matches both ends and does nothing if one of them is missing.
UpsertEdges ==
    /\ at = "sync"
    /\ at' = "links"
    /\ \E sent \in Succeeding(Sendable) :
        links' = {x \in sent : {x.from, x.to} \subseteq nodes}
    /\ UNCHANGED <<env, failed, screening, enriched, primary, edges, nodes,
                   synced, scored, gate, briefed>>

\* Every edge that was written is marked, whatever became of it in Neo4j.
MarkSynced ==
    /\ at = "links"
    /\ at' = "scoring"
    /\ synced' \in {rows} \cup (IF Faulty THEN {{}} ELSE {})
    /\ UNCHANGED <<env, failed, screening, enriched, primary, edges, nodes,
                   links, scored, gate, briefed>>

-----------------------------------------------------------------------------
(* ScoringAgent, VerificationAgent and BriefingAgent.                       *)

\* An entity that cannot be scored is kept, with zeros.
Score ==
    /\ at = "scoring"
    /\ at' = "verification"
    /\ scored' = Working
    /\ UNCHANGED <<env, failed, screening, enriched, primary, edges, neo4j,
                   gate, briefed>>

NothingToVerify ==
    /\ at = "verification" /\ scored = {}
    /\ at' = "briefing"
    /\ UNCHANGED <<env, failed, screening, enriched, primary, edges, neo4j,
                   scored, gate, briefed>>

\* Mutant: only an entity whose claims all hold passes.
Passing_WithoutDoubts(fails, unsure) == scored \ (fails \cup unsure)

\* Everything without a fail of high confidence passes: what was not verified too.
Passing(fails, unsure) == scored \ fails

Verify ==
    /\ at = "verification" /\ scored # {}
    /\ at' = "briefing"
    /\ \E fails \in SUBSET scored : \E unsure \in SUBSET (scored \ fails) :
        /\ flagged' = fails
        /\ verified' = Passing(fails, unsure)
        /\ \E ok \in Succeeding({fails}) : review' = review \cup UNION ok
    /\ UNCHANGED <<env, failed, unscreened, suspects, enriched, primary, edges,
                   neo4j, scored, briefed>>

\* Mutant: the brief takes the list that resolution left.
Scope_Canonical == canonical

\* Mutant: the brief takes all that was scored.
Scope_Scored == scored

\* set(verified_entity_ids), or of everything scored when that list is empty.
Scope == IF verified # {} THEN verified ELSE scored

Brief ==
    /\ at = "briefing"
    /\ at' = "done"
    /\ briefed' = Scope
    /\ UNCHANGED <<env, failed, screening, enriched, primary, edges, neo4j,
                   scored, gate>>

BriefingRaises ==
    /\ at = "briefing"
    /\ Fail("briefing", "done")
    /\ UNCHANGED <<env, screening, enriched, primary, edges, neo4j, scored,
                   gate, briefed>>

-----------------------------------------------------------------------------
Ended == at \in {"done", "raised"} /\ UNCHANGED vars

Next ==
    \/ StartFails
    \/ NothingToEnrich \/ EnrichmentRaises \/ FinishEnrichment
    \/ \E e \in unscreened : ScreenClean(e) \/ ScreenHit(e)
    \/ Dedup
    \/ NothingToRelate \/ RelationshipRaises \/ FinishExtraction
    \/ \E x \in Candidates : AddEdge(x)
    \/ \E x \in unsent : RejectUnsourced(x) \/ EvidenceFails(x) \/ WriteEdge(x) \/ RowFails(x)
    \/ UpsertNodes \/ UpsertEdges \/ MarkSynced
    \/ Score \/ NothingToVerify \/ Verify \/ Brief \/ BriefingRaises
    \/ Ended

Spec == Init /\ [][Next]_vars

-----------------------------------------------------------------------------
(* What should hold.                                                        *)

Ends(x) == {x.from, x.to}

\* An entity that dedup merged into another takes no part in what follows: no
\* edge ends at it, it has no node in Neo4j, no score and no place in the brief.
\* Each later node finds the list that dedup shortened in a state that still
\* holds the longer one.
MergedAwayIsGone ==
    \A e \in Entities : primary[e] # e =>
        /\ \A x \in draft : e \notin Ends(x)
        /\ e \notin enriched \cup nodes \cup scored \cup briefed

\* Whatever failed before, every canonical entity or the one it was merged into
\* is scored; the gate then puts every scored entity on one side and only one.
NobodyVanishes ==
    /\ at \in {"verification", "briefing", "done"} =>
           \A e \in canonical : primary[e] \in scored
    /\ at \in {"briefing", "done"} =>
           scored = verified \cup flagged /\ verified \cap flagged = {}

\* Each edge that was drafted ends up in the store or among the rejected, never
\* in both and never lost, also when its relationship fails after its evidence
\* was written; and what is stored has its evidence.
EdgesAreAccountedFor ==
    /\ at \notin {"relationship", "raised"} => draft = unsent \cup rows \cup rejected
    /\ rows \cap rejected = {} /\ unsent \cap (rows \cup rejected) = {}
    /\ rows \subseteq evidence

\* Of one kind, no two stored edges lead from the same entity to the same other,
\* nor, where the kind is undirected, join the same two: the UNIQUE constraint of
\* the table would let the second pair pass.
NoEdgeIsStoredTwice ==
    \A x, y \in rows :
        /\ x.kind = y.kind
        /\ \/ x.from = y.from /\ x.to = y.to
           \/ x.kind \in Undirected /\ Ends(x) = Ends(y)
        => x = y

\* Neo4j is derived from Postgres: a link stands for a stored relationship, and
\* both its ends are nodes.
Neo4jFollowsPostgres ==
    /\ links \subseteq rows /\ synced \subseteq rows
    /\ \A x \in links : Ends(x) \subseteq nodes

\* An entity that failed verification is in the brief only if none passed, and
\* then all of them are.
FlaggedAreBriefedOnlyTogether ==
    briefed \cap flagged # {} => verified = {} /\ briefed = flagged

(* What comments and docstrings say.                                        *)

\* _run_ofac_check reinserts the entity so that "the review queue API (reads
\* from DB entities table) sees the flag".  Asked for where no call fails.
OfacHitsNeedReview ==
    at = "dedup" /\ ~Faulty => suspects \subseteq review
=============================================================================

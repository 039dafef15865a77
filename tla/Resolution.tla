----------------------------- MODULE Resolution -----------------------------
(***************************************************************************)
(* The resolution agent (osint/agents/resolution.py): from raw_entities,   *)
(* in which one organisation or person may be listed by many agents, to    *)
(* the canonical entities that the rest of the pipeline works on.          *)
(*                                                                         *)
(* The entities of each type are compared in three layers, by shared       *)
(* external ids, by the likeness of their names and by the similarity of   *)
(* their embeddings; each layer may merge clusters that the earlier ones   *)
(* left apart.  The UnionFind is modelled by what find() tells apart: the  *)
(* cluster of every entity.  The canonical entity of a cluster is the      *)
(* cluster itself; the merge of the fields is left out.                    *)
(*                                                                         *)
(* What a comparison answers is not modelled either: a pair of names may   *)
(* or may not reach FUZZY_AUTO_MERGE_MIN, and a pair of embeddings may be  *)
(* alike, ambiguous or different, whatever the other pairs were.           *)
(***************************************************************************)
EXTENDS Integers, FiniteSets

CONSTANTS
    Entities,     \* positions in raw_entities
    Types,        \* the entity types
    NoType,       \* of an entity that has none
    TypeOf,       \* entity_type
    IdValues,     \* "key:value" of an external id
    IdChoices     \* the external ids that the entities may carry

ASSUME EntitiesAssumption == Entities \subseteq Nat /\ IsFiniteSet(Entities)

ASSUME TypesAssumption ==
    /\ NoType \notin Types
    /\ TypeOf \in [Entities -> Types \cup {NoType}]
    /\ IdChoices \subseteq [Entities -> SUBSET IdValues]

VARIABLES
    raw,          \* raw_entities
    ids,          \* _get_external_ids of each entity
    at,           \* where run() is
    group,        \* the type that _resolve_group works on
    resolved,     \* the types it has finished
    left,         \* pairs that the loop of the current layer has to visit
    cluster,      \* per entity, the entities that the UnionFind finds with it
    decisions,    \* merge_decisions: pairs
    ambiguous,    \* ambiguous_merges: pairs
    rejected,     \* pairs logged as "L3 REJECT"
    embedded,     \* entities of the group that _embed_all has a vector for
    unwritten,    \* canonical entities that the write loop has to visit
    stored,       \* canonical entities with a row in Postgres
    evidence,     \* canonical entities whose evidence is in Postgres
    canonical     \* written_entities, returned as canonical_entities

inputs  == <<raw, ids>>
merging == <<group, resolved, left, cluster, decisions, ambiguous, rejected, embedded>>
writing == <<unwritten, stored, evidence, canonical>>
vars    == <<inputs, at, merging, writing>>

Group(t) == {e \in raw : TypeOf[e] = t}

Pairs(t) == {p \in Group(t) \X Group(t) : p[1] < p[2]}

Typed == {e \in raw : TypeOf[e] # NoType}

TypeOK ==
    /\ raw \subseteq Entities /\ ids \in IdChoices
    /\ at \in {"groups", "ids", "names", "embeddings", "writing", "done", "failed"}
    /\ group \in Types \cup {NoType} /\ resolved \subseteq Types
    /\ left \subseteq Pairs(group)
    /\ cluster \in [Entities -> SUBSET Entities]
    /\ decisions \subseteq Entities \X Entities
    /\ ambiguous \subseteq Entities \X Entities
    /\ rejected  \subseteq Entities \X Entities
    /\ embedded  \subseteq Entities
    /\ unwritten \subseteq SUBSET Entities
    /\ stored    \subseteq SUBSET Entities
    /\ evidence  \subseteq SUBSET Entities
    /\ canonical \subseteq SUBSET Entities

Init ==
    /\ raw \in SUBSET Entities
    /\ ids \in IdChoices
    /\ at = "groups" /\ group = NoType /\ resolved = {} /\ left = {}
    /\ cluster = [e \in Entities |-> {e}]
    /\ decisions = {} /\ ambiguous = {} /\ rejected = {} /\ embedded = {}
    /\ unwritten = {} /\ stored = {} /\ evidence = {} /\ canonical = {}

-----------------------------------------------------------------------------
(* UnionFind.                                                               *)

SameCluster(p) == cluster[p[1]] = cluster[p[2]]

\* Mutant: the parent of the entity is set instead of the parent of its root.
Union_MovesOneEntity(p) ==
    LET joined == cluster[p[1]] \cup {p[2]}
    IN  [e \in Entities |->
            IF e \in joined THEN joined
            ELSE IF e \in cluster[p[2]] THEN cluster[p[2]] \ {p[2]} ELSE cluster[e]]

Union(p) ==
    LET joined == cluster[p[1]] \cup cluster[p[2]]
    IN  [e \in Entities |-> IF e \in joined THEN joined ELSE cluster[e]]

Clusters == {cluster[e] : e \in Typed}

-----------------------------------------------------------------------------
(* _resolve_group.                                                          *)

\* raw_entities is empty: _empty_patch.
NothingToResolve ==
    /\ at = "groups" /\ raw = {}
    /\ at' = "done"
    /\ UNCHANGED <<inputs, merging, writing>>

\* A group of one is promoted without a comparison.
PromoteSingleton(t) ==
    /\ at = "groups" /\ t \notin resolved /\ Cardinality(Group(t)) = 1
    /\ resolved' = resolved \cup {t}
    /\ UNCHANGED <<inputs, at, group, left, cluster, decisions, ambiguous,
                   rejected, embedded, writing>>

\* Mutant: the loop over the holders of an id starts one too late.
IdPairs_SkipsOne(t) ==
    {p \in Pairs(t) : \E v \in ids[p[1]] \cap ids[p[2]] :
        /\ \A e \in Group(t) : v \in ids[e] => p[1] <= e
        /\ \E e \in Group(t) : v \in ids[e] /\ p[1] < e /\ e < p[2]}

\* Mutant: the first holder is among those that it is compared with.
IdPairs_WithItself(t) ==
    {p \in Group(t) \X Group(t) : p[1] <= p[2] /\ \E v \in ids[p[1]] \cap ids[p[2]] :
        \A e \in Group(t) : v \in ids[e] => p[1] <= e}

\* The first holder of an id with each other holder of it.
IdPairs(t) ==
    {p \in Pairs(t) : \E v \in ids[p[1]] \cap ids[p[2]] :
        \A e \in Group(t) : v \in ids[e] => p[1] <= e}

BeginGroup(t) ==
    /\ at = "groups" /\ t \notin resolved /\ Cardinality(Group(t)) > 1
    /\ at' = "ids" /\ group' = t
    /\ left' = IdPairs(t)
    /\ UNCHANGED <<inputs, resolved, cluster, decisions, ambiguous, rejected,
                   embedded, writing>>

\* uf.union(..) and decisions.append(..).
Merge(p) ==
    /\ cluster'   = Union(p)
    /\ decisions' = decisions \cup {p}

Skip == UNCHANGED <<cluster, decisions>>

\* Layer 1.  The order is that of a dictionary of ids; here it is any.
MergeById(p) ==
    /\ at = "ids" /\ p \in left
    /\ left' = left \ {p}
    /\ IF SameCluster(p) THEN Skip ELSE Merge(p)
    /\ UNCHANGED <<inputs, at, group, resolved, ambiguous, rejected, embedded, writing>>

BeginNames ==
    /\ at = "ids" /\ left = {}
    /\ at' = "names"
    /\ left' = Pairs(group)
    /\ UNCHANGED <<inputs, group, resolved, cluster, decisions, ambiguous,
                   rejected, embedded, writing>>

\* for i in range(n): for j in range(i + 1, n).
IsNext(p) ==
    /\ p \in left
    /\ \A q \in left : p[1] < q[1] \/ (p[1] = q[1] /\ p[2] <= q[2])

\* Layer 2.
CompareNames(p) ==
    /\ at = "names" /\ IsNext(p)
    /\ left' = left \ {p}
    /\ \/ Skip
       \/ ~SameCluster(p) /\ Merge(p)
    /\ UNCHANGED <<inputs, at, group, resolved, ambiguous, rejected, embedded, writing>>

\* Mutant: only neighbours in the list are unresolved.
UnresolvedPairs_Neighbours ==
    {p \in Pairs(group) : ~SameCluster(p) /\ \A e \in Group(group) : ~(p[1] < e /\ e < p[2])}

UnresolvedPairs == {p \in Pairs(group) : ~SameCluster(p)}

\* _embed_all: an entity whose embedding failed has the empty vector.
EmbedAll ==
    /\ at = "names" /\ left = {} /\ UnresolvedPairs # {}
    /\ at' = "embeddings"
    /\ left' = UnresolvedPairs
    /\ embedded' \in SUBSET Group(group)
    /\ UNCHANGED <<inputs, group, resolved, cluster, decisions, ambiguous,
                   rejected, writing>>

\* Layer 3, one pair.
VisitPair(p) ==
    /\ at = "embeddings" /\ IsNext(p)
    /\ left' = left \ {p}
    /\ UNCHANGED <<inputs, at, group, resolved, embedded, writing>>

BothEmbedded(p) == p[1] \in embedded /\ p[2] \in embedded

\* An earlier pair of this loop has merged the two.
SkipMerged(p) ==
    /\ SameCluster(p) /\ VisitPair(p)
    /\ UNCHANGED <<cluster, decisions, ambiguous, rejected>>

MergeBySimilarity(p) ==
    /\ ~SameCluster(p) /\ BothEmbedded(p) /\ VisitPair(p)
    /\ Merge(p)
    /\ UNCHANGED <<ambiguous, rejected>>

\* The recommendation of the language model, or {} after a timeout or an
\* error of its client, is kept with the pair and decides nothing.
HoldForReview(p) ==
    /\ ~SameCluster(p) /\ BothEmbedded(p) /\ VisitPair(p)
    /\ ambiguous' = ambiguous \cup {p}
    /\ UNCHANGED <<cluster, decisions, rejected>>

\* An empty vector has similarity 0.
Reject(p) ==
    /\ ~SameCluster(p) /\ VisitPair(p)
    /\ rejected' = rejected \cup {p}
    /\ UNCHANGED <<cluster, decisions, ambiguous>>

\* int(result.get("confidence", 0)), outside of the try: a reply with a
\* confidence that is no number ends run() with an error.
ArbitrationRaises(p) ==
    /\ at = "embeddings" /\ IsNext(p)
    /\ ~SameCluster(p) /\ BothEmbedded(p)
    /\ at' = "failed"
    /\ UNCHANGED <<inputs, merging, writing>>

EndGroup ==
    /\ left = {}
    /\ at = "embeddings" \/ (at = "names" /\ UnresolvedPairs = {})
    /\ at' = "groups"
    /\ resolved' = resolved \cup {group}
    /\ UNCHANGED <<inputs, group, left, cluster, decisions, ambiguous, rejected,
                   embedded, writing>>

-----------------------------------------------------------------------------
(* The write loop of run().                                                 *)

BeginWriting ==
    /\ at = "groups" /\ raw # {}
    /\ \A t \in Types : Group(t) # {} => t \in resolved
    /\ at' = "writing"
    /\ unwritten' = Clusters
    /\ UNCHANGED <<inputs, merging, stored, evidence, canonical>>

WriteEntity(c) ==
    /\ at = "writing" /\ c \in unwritten
    /\ unwritten' = unwritten \ {c}
    /\ stored'    = stored \cup {c}
    /\ canonical' = canonical \cup {c}
    /\ evidence' \in {evidence, evidence \cup {c}}
    /\ UNCHANGED <<inputs, at, merging>>

\* Mutant: the entity is appended to written_entities before the try.
InsertFails_Reported(c) ==
    /\ at = "writing" /\ c \in unwritten
    /\ unwritten' = unwritten \ {c}
    /\ canonical' = canonical \cup {c}
    /\ UNCHANGED <<inputs, at, merging, stored, evidence>>

\* The INSERT raises: the entity is dropped from the run.
InsertFails(c) ==
    /\ at = "writing" /\ c \in unwritten
    /\ unwritten' = unwritten \ {c}
    /\ UNCHANGED <<inputs, at, merging, stored, evidence, canonical>>

\* BaseAgent.write_entity inserts the row and then counts it in Redis; if
\* Redis raises, the run drops an entity that is in the database.
CountFails(c) ==
    /\ at = "writing" /\ c \in unwritten
    /\ unwritten' = unwritten \ {c}
    /\ stored' = stored \cup {c}
    /\ UNCHANGED <<inputs, at, merging, evidence, canonical>>

\* The writes of the embeddings, of the pairs for review and of the decisions
\* are guarded: none of them changes what run() returns.
Return ==
    /\ at = "writing" /\ unwritten = {}
    /\ at' = "done"
    /\ UNCHANGED <<inputs, merging, writing>>

-----------------------------------------------------------------------------
Ended == at \in {"done", "failed"} /\ UNCHANGED vars

Compare(p) ==
    \/ MergeById(p) \/ CompareNames(p) \/ SkipMerged(p) \/ MergeBySimilarity(p)
    \/ HoldForReview(p) \/ Reject(p) \/ ArbitrationRaises(p)

Write(c) == WriteEntity(c) \/ InsertFails(c) \/ CountFails(c)

Next ==
    \/ NothingToResolve
    \/ \E t \in Types : PromoteSingleton(t) \/ BeginGroup(t)
    \/ \E p \in left : Compare(p)
    \/ BeginNames \/ EmbedAll \/ EndGroup
    \/ BeginWriting
    \/ \E c \in unwritten : Write(c)
    \/ Return
    \/ Ended

Spec == Init /\ [][Next]_vars

-----------------------------------------------------------------------------
(* Properties.                                                              *)

Closed(S) == \A p \in decisions : p[1] \in S <=> p[2] \in S

\* merge_decisions explains the result: two entities share a cluster if and
\* only if a chain of recorded merges leads from one to the other (a cluster
\* is the smallest set around its members that no recorded merge leaves), and
\* no merge is recorded between entities that an earlier one had joined.
DecisionsExplainClusters ==
    /\ \A e \in Entities : e \in cluster[e] /\ Closed(cluster[e])
    /\ \A S \in SUBSET Entities : Closed(S) => \A e \in S : cluster[e] \subseteq S
    /\ Cardinality(decisions) + Cardinality(Clusters) = Cardinality(Typed)

\* "Any two entities sharing a value in any external_ids key are auto-merged"
\* (resolution.py:11): from the second layer on, the holders of an id are in
\* one cluster, although layer 1 pairs each of them with the first only.
SharedIdsMeet ==
    \A t \in resolved \cup (IF at \in {"names", "embeddings"} THEN {group} ELSE {}) :
        \A p \in Pairs(t) : ids[p[1]] \cap ids[p[2]] # {} => SameCluster(p)

\* No pair of one type is forgotten: once its group is resolved, the two are
\* merged, or the last layer has looked at them and has held them for review
\* or rejected them.
EveryPairIsJudged ==
    \A t \in resolved : \A p \in Pairs(t) :
        SameCluster(p) \/ p \in ambiguous \cup rejected

\* Clusters never cross types, and the canonical entities of the run are
\* clusters that Postgres holds; evidence is there only for an entity that
\* the run knows; a resolution that fails leaves nothing behind.
StoreAgreesWithState ==
    /\ \A e \in Entities : \A f \in cluster[e] : TypeOf[e] = TypeOf[f]
    /\ stored \subseteq Clusters
    /\ evidence \subseteq canonical /\ canonical \subseteq stored
    /\ at = "failed" => stored = {}
    /\ at = "done" /\ raw # {} => unwritten = {}

-----------------------------------------------------------------------------
(* The inductive invariant of the safety theorems.                          *)

\* The clusters partition the entities, and never cross types.
ClustersPartition ==
    \A e \in Entities : e \in cluster[e] /\ \A f \in cluster[e] :
        cluster[f] = cluster[e] /\ TypeOf[f] = TypeOf[e]

DecisionsStayInside ==
    \A p \in decisions : p[1] \in Typed /\ p[2] \in Typed /\ SameCluster(p)

NothingElseMerges ==
    \A S \in SUBSET Entities : Closed(S) => \A e \in S : cluster[e] \subseteq S

OneDecisionPerMerge == Cardinality(decisions) + Cardinality(Clusters) = Cardinality(Typed)

InGroup == at \in {"ids", "names", "embeddings"}

GroupInProgress == InGroup => group \in Types \ resolved

\* What the loop of the current layer has left to do.
LayerOne == at = "ids" => \A p \in IdPairs(group) : SameCluster(p) \/ p \in left

LayerThree ==
    at = "embeddings" => \A p \in Pairs(group) :
        SameCluster(p) \/ p \in left \/ p \in ambiguous \cup rejected

\* Nothing is written before every group is resolved.
WritesComeLast ==
    /\ at \notin {"writing", "done"} =>
           stored = {} /\ evidence = {} /\ canonical = {} /\ unwritten = {}
    /\ at = "done" => unwritten = {}
    /\ stored \cup unwritten \subseteq Clusters
    /\ evidence \subseteq canonical /\ canonical \subseteq stored

IInv == /\ TypeOK
        /\ ClustersPartition
        /\ DecisionsStayInside
        /\ NothingElseMerges
        /\ OneDecisionPerMerge
        /\ GroupInProgress
        /\ SharedIdsMeet
        /\ EveryPairIsJudged
        /\ LayerOne
        /\ LayerThree
        /\ WritesComeLast

=============================================================================

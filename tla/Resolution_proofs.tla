-------------------------- MODULE Resolution_proofs --------------------------
(***************************************************************************)
(* Type correctness and the safety properties of Resolution, for any list  *)
(* of raw entities, any types and any ids, from the inductive invariant    *)
(* IInv.  A step either leaves the UnionFind alone or merges one pair of   *)
(* the current group; what that keeps is shown once, in MergeKeeps.  Then  *)
(* what layer 1 computes exactly, and that the loops end.                  *)
(***************************************************************************)
EXTENDS Resolution, FiniteSetTheorems, WellFoundedInduction, TLAPS

(* Facts about the entities.                                                *)

\* A set of positions has a first one.
LEMMA FirstExists ==
    ASSUME NEW H \in SUBSET Entities, H # {}
    PROVE  \E m \in H : \A e \in H : m <= e
<1> DEFINE upto(m) == {e \in H : e <= m}
           T == {upto(m) : m \in H}
           R == StrictSubsetOrdering(H)
<1>1. IsFiniteSet(H) /\ H \subseteq Nat
  BY FS_Subset, EntitiesAssumption
<1>2. T \subseteq FiniteSubsetsOf(H) /\ T # {}
  <2>1. ASSUME NEW m \in H PROVE upto(m) \in FiniteSubsetsOf(H)
    <3>1. upto(m) \in SUBSET H
      OBVIOUS
    <3>2. IsFiniteSet(upto(m))
      BY <1>1, <3>1, FS_Subset
    <3> QED BY <3>1, <3>2 DEF FiniteSubsetsOf
  <2> HIDE DEF upto
  <2>2. QED BY <2>1
<1>3. IsWellFoundedOn(R, FiniteSubsetsOf(H))
  BY FS_StrictSubsetOrderingWellFounded
<1>4. PICK U \in T : \A V \in T : ~(<<V, U>> \in R)
  <2> HIDE DEF T, R
  <2> QED BY <1>2, <1>3, WFMin
<1>5. PICK m \in H : U = upto(m)
  BY <1>4
<1>6. ASSUME NEW e \in H, e < m PROVE FALSE
  <2>1. upto(e) \in T
    OBVIOUS
  <2>2. upto(e) \subseteq upto(m) /\ m \in upto(m) /\ m \notin upto(e)
    <3> HIDE DEF T, R
    <3>1. \A x \in H : x \in Nat
      BY <1>1
    <3>2. m \in Nat /\ e \in Nat /\ e < m
      BY <3>1, <1>6
    <3>3. \A x \in H : x <= e => x <= m
      BY <3>1, <3>2
    <3>4. ~(m <= e) /\ m <= m
      BY <3>2
    <3> QED BY <3>3, <3>4
  <2>3. <<upto(e), upto(m)>> \in R
    <3>1. upto(e) \in SUBSET H /\ upto(m) \in SUBSET H /\ upto(e) # upto(m)
      BY <2>2
    <3> HIDE DEF upto
    <3> QED BY <2>2, <3>1 DEF StrictSubsetOrdering
  <2> QED BY <1>4, <1>5, <2>1, <2>3
<1>7. QED BY <1>1, <1>6

\* What the definitions say of a pair.
LEMMA PairFacts ==
    ASSUME TypeOK, NEW t \in Types, NEW p \in Pairs(t)
    PROVE  /\ p \in Entities \X Entities
           /\ p[1] \in Typed /\ p[2] \in Typed
           /\ p[1] \in Group(t) /\ p[2] \in Group(t)
           /\ TypeOf[p[1]] = t /\ TypeOf[p[2]] = t
BY TypesAssumption DEF TypeOK, Pairs, Group, Typed

\* Nothing that is derived from raw_entities alone changes.
LEMMA InputsDecide ==
    ASSUME UNCHANGED inputs
    PROVE  /\ Typed' = Typed
           /\ \A t : Group(t)' = Group(t) /\ Pairs(t)' = Pairs(t) /\ IdPairs(t)' = IdPairs(t)
BY DEF inputs, Typed, Group, Pairs, IdPairs

\* If the first holder of every id is merged with the others, all are.
LEMMA IdPairsSuffice ==
    ASSUME TypeOK, NEW t \in Types, \A q \in IdPairs(t) : SameCluster(q)
    PROVE  \A p \in Pairs(t) : ids[p[1]] \cap ids[p[2]] # {} => SameCluster(p)
<1> SUFFICES ASSUME NEW p \in Pairs(t), NEW v \in ids[p[1]] \cap ids[p[2]]
             PROVE  SameCluster(p)
  OBVIOUS
<1> DEFINE H == {e \in Group(t) : v \in ids[e]}
<1>1. p[1] \in H /\ p[2] \in H /\ H \in SUBSET Entities
  BY PairFacts DEF TypeOK, Group
<1>2. PICK m \in H : \A e \in H : m <= e
  <2> HIDE DEF H
  <2> QED BY <1>1, FirstExists
<1>3. ASSUME NEW e \in H PROVE cluster[m] = cluster[e]
  <2>1. CASE e = m
    BY <2>1
  <2>2. CASE e # m
    <3>1. m < e
      <4>1. m \in Nat /\ e \in Nat
        <5> HIDE DEF H
        <5> QED BY <1>1, EntitiesAssumption
      <4>2. m <= e
        BY <1>2
      <4> QED BY <2>2, <4>1, <4>2
    <3>2. <<m, e>> \in IdPairs(t)
      <4>1. <<m, e>> \in Pairs(t)
        BY <3>1 DEF Pairs
      <4>2. v \in ids[m] \cap ids[e] /\ \A f \in Group(t) : v \in ids[f] => m <= f
        BY <1>2
      <4> HIDE DEF H
      <4> QED BY <4>1, <4>2 DEF IdPairs
    <3> QED BY <3>2 DEF SameCluster
  <2> QED BY <2>1, <2>2
<1> QED BY <1>1, <1>3 DEF SameCluster

\* A group of one entity has no pairs.
LEMMA SingletonHasNoPairs ==
    ASSUME TypeOK, NEW t \in Types, Cardinality(Group(t)) = 1
    PROVE  Pairs(t) = {}
<1>1. IsFiniteSet(Group(t)) /\ Group(t) \subseteq Nat
  <2>1. Group(t) \in SUBSET Entities
    BY DEF TypeOK, Group
  <2> QED BY <2>1, FS_Subset, EntitiesAssumption
<1>2. PICK x : Group(t) = {x}
  BY <1>1, FS_Singleton
<1> QED BY <1>1, <1>2 DEF Pairs

-----------------------------------------------------------------------------
(* One merge.                                                               *)

Shape == ClustersPartition /\ DecisionsStayInside /\ NothingElseMerges /\ OneDecisionPerMerge

\* The clusters of two entities become one, all others stay.
LEMMA UnionFacts ==
    ASSUME TypeOK, ClustersPartition, NEW p \in Entities \X Entities, cluster' = Union(p)
    PROVE  /\ cluster' \in [Entities -> SUBSET Entities]
           /\ \A e \in Entities : cluster'[e] =
                  IF e \in cluster[p[1]] \cup cluster[p[2]]
                  THEN cluster[p[1]] \cup cluster[p[2]] ELSE cluster[e]
           /\ \A x, y \in Entities : cluster[x] = cluster[y] => cluster'[x] = cluster'[y]
           /\ cluster'[p[1]] = cluster'[p[2]]
<1>1. \A e \in Entities : cluster'[e] =
         IF e \in cluster[p[1]] \cup cluster[p[2]]
         THEN cluster[p[1]] \cup cluster[p[2]] ELSE cluster[e]
  BY DEF Union
<1>2. cluster' \in [Entities -> SUBSET Entities]
  BY DEF Union, TypeOK
<1>3. p[1] \in cluster[p[1]] /\ p[2] \in cluster[p[2]] /\ p[1] \in Entities /\ p[2] \in Entities
  BY DEF ClustersPartition
<1>4. ASSUME NEW x \in Entities, NEW y \in Entities, cluster[x] = cluster[y]
      PROVE  cluster'[x] = cluster'[y]
  <2>1. \A q \in Entities : x \in cluster[q] <=> y \in cluster[q]
    BY <1>4 DEF ClustersPartition, TypeOK
  <2> QED BY <1>1, <1>3, <1>4, <2>1
<1> QED BY <1>1, <1>2, <1>3, <1>4

LEMMA MergeKeeps ==
    ASSUME IInv, UNCHANGED inputs, InGroup, NEW p \in left, ~SameCluster(p), Merge(p)
    PROVE  /\ Shape'
           /\ cluster' \in [Entities -> SUBSET Entities]
           /\ decisions' \subseteq Entities \X Entities
           /\ \A q \in Entities \X Entities : SameCluster(q) => SameCluster(q)'
<1> DEFINE a == cluster[p[1]]
           b == cluster[p[2]]
<1>1. /\ p \in Entities \X Entities /\ p[1] \in Typed /\ p[2] \in Typed
      /\ TypeOf[p[1]] = TypeOf[p[2]]
  <2>1. group \in Types /\ p \in Pairs(group)
    BY DEF IInv, GroupInProgress, TypeOK
  <2> QED BY <2>1, PairFacts DEF IInv
<1>2. p[1] \in Entities /\ p[2] \in Entities /\ p[1] \in a /\ p[2] \in b
      /\ a # b /\ a \subseteq Entities /\ b \subseteq Entities
  BY <1>1 DEF SameCluster, IInv, ClustersPartition, TypeOK
<1>3. /\ cluster' \in [Entities -> SUBSET Entities]
      /\ \A e \in Entities : cluster'[e] = IF e \in a \cup b THEN a \cup b ELSE cluster[e]
      /\ \A x, y \in Entities : cluster[x] = cluster[y] => cluster'[x] = cluster'[y]
      /\ cluster'[p[1]] = cluster'[p[2]]
  BY <1>1, UnionFacts DEF IInv, Merge
<1>4. /\ \A e \in Entities : e \in cluster[e]
      /\ \A e \in Entities : \A f \in cluster[e] :
             f \in Entities /\ cluster[f] = cluster[e] /\ TypeOf[f] = TypeOf[e]
  BY DEF IInv, TypeOK, ClustersPartition
<1>5. ClustersPartition'
  <2>1. ASSUME NEW e \in Entities PROVE e \in cluster'[e]
    BY <1>3, <1>4
  <2>2. ASSUME NEW e \in Entities, NEW f \in cluster'[e]
        PROVE  cluster'[f] = cluster'[e] /\ TypeOf[f] = TypeOf[e]
    <3>1. CASE e \in a \cup b
      <4>1. f \in a \cup b /\ f \in Entities
        BY <1>2, <1>3, <3>1
      <4>2. \A x \in a \cup b : TypeOf[x] = TypeOf[p[1]]
        BY <1>1, <1>2, <1>4
      <4> QED BY <1>3, <3>1, <4>1, <4>2
    <3>2. CASE e \notin a \cup b
      <4>1. f \in cluster[e] /\ f \in Entities /\ cluster[f] = cluster[e] /\ TypeOf[f] = TypeOf[e]
        BY <1>3, <1>4, <3>2
      <4>2. f \notin a \cup b
        BY <1>2, <1>4, <3>2, <4>1
      <4> QED BY <1>3, <3>2, <4>1, <4>2
    <3> QED BY <3>1, <3>2
  <2> QED BY <2>1, <2>2 DEF ClustersPartition
<1>6. DecisionsStayInside'
  <2>1. Typed' = Typed /\ Typed \subseteq Entities
    BY InputsDecide DEF IInv, TypeOK, Typed
  <2>2. decisions' = decisions \cup {p}
    BY DEF Merge
  <2> QED BY <1>1, <1>3, <2>1, <2>2 DEF IInv, DecisionsStayInside, SameCluster
<1>7. NothingElseMerges'
  <2> SUFFICES ASSUME NEW S \in SUBSET Entities, Closed(S)', NEW e \in S
               PROVE  cluster'[e] \subseteq S
    BY DEF NothingElseMerges
  <2>1. Closed(S) /\ (p[1] \in S <=> p[2] \in S)
    BY DEF Closed, Merge
  <2>2. \A x \in S : cluster[x] \subseteq S
    BY <2>1 DEF IInv, NothingElseMerges
  <2>3. CASE e \in a \cup b
    <3>1. p[1] \in S \/ p[2] \in S
      BY <1>2, <1>4, <2>2, <2>3
    <3> QED BY <1>3, <2>1, <2>2, <2>3, <3>1
  <2>4. CASE e \notin a \cup b
    BY <1>3, <2>2, <2>4
  <2> QED BY <2>3, <2>4
<1>8. OneDecisionPerMerge'
  <2>1. IsFiniteSet(decisions) /\ IsFiniteSet(Clusters)
    <3>1. decisions \in SUBSET (Entities \X Entities) /\ IsFiniteSet(Entities \X Entities)
      BY EntitiesAssumption, FS_Product DEF IInv, TypeOK
    <3>2. Clusters \in SUBSET (SUBSET Entities) /\ IsFiniteSet(SUBSET Entities)
      BY EntitiesAssumption, FS_SUBSET DEF IInv, TypeOK, Clusters, Typed
    <3> QED BY <3>1, <3>2, FS_Subset
  <2>2. Cardinality(decisions') = Cardinality(decisions) + 1
    <3>1. p \notin decisions /\ decisions' = decisions \cup {p}
      BY DEF IInv, DecisionsStayInside, Merge
    <3> QED BY <2>1, <3>1, FS_AddElement
  <2>3. Clusters' = ((Clusters \ {a}) \ {b}) \cup {a \cup b}
    <3>0. Typed' = Typed /\ Typed \subseteq Entities
      BY InputsDecide DEF IInv, TypeOK, Typed
    <3>1. Clusters' = {cluster'[e] : e \in Typed}
      BY <3>0 DEF Clusters
    <3>2. ASSUME NEW e \in Typed
          PROVE  cluster'[e] \in ((Clusters \ {a}) \ {b}) \cup {a \cup b}
      <4>1. CASE e \in a \cup b
        BY <1>3, <3>0, <4>1
      <4>2. CASE e \notin a \cup b
        <5>1. cluster'[e] = cluster[e] /\ e \in cluster[e]
          BY <1>3, <1>4, <3>0, <4>2
        <5> QED BY <4>2, <5>1 DEF Clusters
      <4> QED BY <4>1, <4>2
    <3>3. ASSUME NEW c \in Clusters, c # a, c # b PROVE c \in Clusters'
      <4>1. PICK e \in Typed : c = cluster[e]
        BY DEF Clusters
      <4>2. e \notin a \cup b
        BY <1>2, <1>4, <3>3, <4>1
      <4> QED BY <1>3, <3>0, <3>1, <4>1, <4>2
    <3>4. a \cup b \in Clusters'
      <4>1. cluster'[p[1]] = a \cup b
        BY <1>2, <1>3
      <4> QED BY <1>1, <3>1, <4>1
    <3> QED BY <3>1, <3>2, <3>3, <3>4
  <2>4. a \in Clusters /\ b \in Clusters /\ a # b /\ a \cup b \notin Clusters
    <3>1. a \in Clusters /\ b \in Clusters
      BY <1>1 DEF Clusters
    <3>2. ASSUME a \cup b \in Clusters PROVE FALSE
      <4>1. PICK e \in Typed : a \cup b = cluster[e]
        BY <3>2 DEF Clusters
      <4>2. e \in Entities
        BY <4>1 DEF IInv, TypeOK, Typed
      <4>3. a = cluster[e] /\ b = cluster[e]
        BY <1>2, <1>4, <4>1, <4>2
      <4> QED BY <1>2, <4>3
    <3> QED BY <1>2, <3>1, <3>2
  <2>5. Cardinality(Clusters') = Cardinality(Clusters) - 1
    <3> HIDE DEF a, b
    <3>1. /\ IsFiniteSet(Clusters \ {a})
          /\ Cardinality(Clusters \ {a}) = Cardinality(Clusters) - 1
      BY <2>1, <2>4, FS_RemoveElement
    <3>2. /\ IsFiniteSet((Clusters \ {a}) \ {b})
          /\ Cardinality((Clusters \ {a}) \ {b}) = Cardinality(Clusters \ {a}) - 1
      BY <2>4, <3>1, FS_RemoveElement
    <3>3. Cardinality(((Clusters \ {a}) \ {b}) \cup {a \cup b})
              = Cardinality((Clusters \ {a}) \ {b}) + 1
      BY <2>4, <3>2, FS_AddElement
    <3>4. Cardinality(Clusters) \in Nat
      BY <2>1, FS_CardinalityType
    <3> QED BY <2>3, <3>1, <3>2, <3>3, <3>4
  <2>6. Cardinality(Clusters) \in Nat /\ Cardinality(decisions) \in Nat
    BY <2>1, FS_CardinalityType
  <2>7. Typed' = Typed
    BY InputsDecide
  <2> QED BY <2>2, <2>5, <2>6, <2>7 DEF IInv, OneDecisionPerMerge
<1>9. decisions' \subseteq Entities \X Entities
  BY <1>1 DEF IInv, TypeOK, Merge
<1>10. \A q \in Entities \X Entities : SameCluster(q) => SameCluster(q)'
  BY <1>3 DEF SameCluster
<1> QED BY <1>3, <1>5, <1>6, <1>7, <1>8, <1>9, <1>10 DEF Shape
\* A step that leaves the UnionFind alone keeps what is said of it.
LEMMA SkipKeeps ==
    ASSUME IInv, UNCHANGED inputs, UNCHANGED <<cluster, decisions>>
    PROVE  /\ Shape'
           /\ cluster' \in [Entities -> SUBSET Entities]
           /\ decisions' \subseteq Entities \X Entities
           /\ \A q \in Entities \X Entities : SameCluster(q) => SameCluster(q)'
<1>1. Typed' = Typed /\ Clusters' = Clusters
  BY InputsDecide DEF Clusters
<1>2. \A S : Closed(S)' <=> Closed(S)
  BY DEF Closed
<1>3. ClustersPartition' /\ DecisionsStayInside' /\ NothingElseMerges' /\ OneDecisionPerMerge'
  BY <1>1, <1>2 DEF IInv, ClustersPartition, DecisionsStayInside, NothingElseMerges,
                    OneDecisionPerMerge, SameCluster
<1> QED BY <1>3 DEF Shape, IInv, TypeOK, SameCluster

-----------------------------------------------------------------------------
(* The initial states and the steps.                                        *)

LEMMA InitIInv == Init => IInv
<1> SUFFICES ASSUME Init PROVE IInv
  OBVIOUS
<1>1. TypeOK
  BY DEF Init, TypeOK
<1>2. ClustersPartition /\ DecisionsStayInside /\ NothingElseMerges
  BY DEF Init, ClustersPartition, DecisionsStayInside, NothingElseMerges
<1>3. OneDecisionPerMerge
  <2> DEFINE f == [e \in Typed |-> {e}]
  <2>1. Typed \in SUBSET Entities
    BY DEF Init, Typed
  <2>2. IsFiniteSet(Typed)
    BY <2>1, EntitiesAssumption, FS_Subset
  <2>3. Clusters = {{e} : e \in Typed}
    BY <2>1 DEF Init, Clusters
  <2>4. f \in Bijection(Typed, Clusters)
    BY <2>3 DEF Bijection, Injection, Surjection, IsInjective
  <2>5. Cardinality(Clusters) = Cardinality(Typed)
    BY <2>2, <2>4, FS_Bijection DEF ExistsBijection
  <2>6. Cardinality(decisions) = 0 /\ Cardinality(Typed) \in Nat
    BY <2>2, FS_EmptySet, FS_CardinalityType DEF Init
  <2> QED BY <2>5, <2>6 DEF OneDecisionPerMerge
<1>4. /\ GroupInProgress /\ SharedIdsMeet /\ EveryPairIsJudged
      /\ LayerOne /\ LayerThree /\ WritesComeLast
  BY DEF Init, GroupInProgress, InGroup, SharedIdsMeet, EveryPairIsJudged,
         LayerOne, LayerThree, WritesComeLast
<1> QED BY <1>1, <1>2, <1>3, <1>4 DEF IInv

\* What every visit of a pair in a loop shares: the group, its pairs and the
\* types that are resolved stay, and what was judged stays judged.
LEMMA VisitKeeps ==
    ASSUME IInv, UNCHANGED <<inputs, group, resolved, embedded, writing>>, UNCHANGED at,
           InGroup, NEW p \in left, left' = left \ {p},
           (UNCHANGED <<cluster, decisions>>) \/ (~SameCluster(p) /\ Merge(p)),
           ambiguous \subseteq ambiguous', ambiguous' \subseteq ambiguous \cup {p},
           rejected \subseteq rejected', rejected' \subseteq rejected \cup {p},
           at = "ids" => SameCluster(p)',
           at = "embeddings" => SameCluster(p)' \/ p \in ambiguous' \cup rejected'
    PROVE  IInv'
<1>1. /\ Shape'
      /\ cluster' \in [Entities -> SUBSET Entities]
      /\ decisions' \subseteq Entities \X Entities
      /\ \A q \in Entities \X Entities : SameCluster(q) => SameCluster(q)'
  BY MergeKeeps, SkipKeeps
<1>2. /\ Typed' = Typed
      /\ \A t : Pairs(t)' = Pairs(t) /\ IdPairs(t)' = IdPairs(t)
  BY InputsDecide
<1>3. group \in Types /\ group \notin resolved /\ p \in Pairs(group) /\ resolved \subseteq Types
  BY DEF IInv, GroupInProgress, TypeOK
<1>4. \A t \in Types : \A q \in Pairs(t) : q \in Entities \X Entities
  BY PairFacts DEF IInv
<1>5. TypeOK'
  <2>1. p \in Entities \X Entities
    BY <1>3, <1>4
  <2>2. left' \subseteq Pairs(group)'
    BY <1>2 DEF IInv, TypeOK
  <2> QED BY <1>1, <2>1, <2>2 DEF IInv, TypeOK, inputs, writing
<1>6. GroupInProgress' /\ InGroup'
  BY DEF IInv, GroupInProgress, InGroup
<1>7. SharedIdsMeet'
  <2> DEFINE settled == resolved \cup (IF at \in {"names", "embeddings"} THEN {group} ELSE {})
  <2>1. \A t \in settled : \A q \in Pairs(t) : ids[q[1]] \cap ids[q[2]] # {} => SameCluster(q)
    BY DEF IInv, SharedIdsMeet
  <2>2. settled \subseteq Types
    BY <1>3
  <2>3. \A t \in settled : \A q \in Pairs(t)' :
            ids'[q[1]] \cap ids'[q[2]] # {} => SameCluster(q)'
    <3> HIDE DEF settled
    <3> QED BY <1>1, <1>2, <1>4, <2>1, <2>2 DEF inputs
  <2> QED BY <2>3 DEF SharedIdsMeet
<1>8. EveryPairIsJudged'
  BY <1>1, <1>2, <1>3, <1>4 DEF IInv, EveryPairIsJudged
<1>9. LayerOne'
  <2> SUFFICES ASSUME at = "ids", NEW q \in IdPairs(group), q \notin left'
               PROVE  SameCluster(q)'
    BY <1>2 DEF LayerOne
  <2>1. q \in Entities \X Entities
    BY <1>3, <1>4 DEF IdPairs
  <2>2. CASE q = p
    BY <2>2
  <2>3. CASE q # p
    BY <1>1, <2>1, <2>3 DEF IInv, LayerOne
  <2> QED BY <2>2, <2>3
<1>10. LayerThree'
  <2> SUFFICES ASSUME at = "embeddings", NEW q \in Pairs(group), q \notin left'
               PROVE  SameCluster(q)' \/ q \in ambiguous' \cup rejected'
    BY <1>2 DEF LayerThree
  <2>1. q \in Entities \X Entities
    BY <1>3, <1>4
  <2>2. CASE q = p
    BY <2>2
  <2>3. CASE q # p
    BY <1>1, <2>1, <2>3 DEF IInv, LayerThree
  <2> QED BY <2>2, <2>3
<1>11. WritesComeLast'
  <2>1. stored = {} /\ evidence = {} /\ canonical = {} /\ unwritten = {}
    BY DEF IInv, WritesComeLast, InGroup
  <2> QED BY <2>1 DEF WritesComeLast, writing, InGroup
<1> QED BY <1>1, <1>5, <1>6, <1>7, <1>8, <1>9, <1>10, <1>11 DEF IInv, Shape

LEMMA VisitStep ==
    ASSUME IInv, NEW p \in left,
           \/ MergeById(p) \/ CompareNames(p) \/ SkipMerged(p)
           \/ MergeBySimilarity(p) \/ HoldForReview(p) \/ Reject(p)
    PROVE  IInv'
<1>0. p \in Entities \X Entities
  <2>1. group \in Types
    BY TypesAssumption, PairFacts DEF IInv, TypeOK, GroupInProgress, InGroup,
       MergeById, CompareNames, SkipMerged, MergeBySimilarity, HoldForReview, Reject, VisitPair
  <2> QED BY <2>1, PairFacts DEF IInv, TypeOK
<1>1. Merge(p) => SameCluster(p)'
  BY <1>0, UnionFacts DEF IInv, Merge, SameCluster
<1>2. CASE MergeById(p)
  <2>1. (UNCHANGED <<cluster, decisions>>) \/ (~SameCluster(p) /\ Merge(p))
    BY <1>2 DEF MergeById, Skip
  <2>2. SameCluster(p)'
    BY <1>1, <1>2 DEF MergeById, Skip, SameCluster
  <2> QED BY <1>2, <2>1, <2>2, VisitKeeps DEF MergeById, InGroup
<1>3. CASE CompareNames(p)
  <2>1. (UNCHANGED <<cluster, decisions>>) \/ (~SameCluster(p) /\ Merge(p))
    BY <1>3 DEF CompareNames, Skip
  <2> QED BY <1>3, <2>1, VisitKeeps DEF CompareNames, InGroup
<1>4. CASE SkipMerged(p)
  <2>1. SameCluster(p)'
    BY <1>4 DEF SkipMerged, SameCluster
  <2> QED BY <1>4, <2>1, VisitKeeps DEF SkipMerged, VisitPair, InGroup
<1>5. CASE MergeBySimilarity(p)
  BY <1>1, <1>5, VisitKeeps DEF MergeBySimilarity, VisitPair, InGroup
<1>6. CASE HoldForReview(p)
  BY <1>6, VisitKeeps DEF HoldForReview, VisitPair, InGroup
<1>7. CASE Reject(p)
  BY <1>7, VisitKeeps DEF Reject, VisitPair, InGroup
<1> QED BY <1>2, <1>3, <1>4, <1>5, <1>6, <1>7

\* The steps between the loops leave the UnionFind and the judgements alone.
LEMMA BetweenLoops ==
    ASSUME IInv, UNCHANGED <<inputs, cluster, decisions, ambiguous, rejected>>,
           resolved' = resolved
    PROVE  /\ Shape'
           /\ EveryPairIsJudged'
           /\ Clusters' = Clusters
           /\ \A t : /\ Pairs(t)' = Pairs(t) /\ IdPairs(t)' = IdPairs(t)
                     /\ Group(t)' = Group(t)
           /\ \A q : SameCluster(q)' <=> SameCluster(q)
<1>1. Shape'
  BY SkipKeeps
<1>2. \A t : Pairs(t)' = Pairs(t) /\ IdPairs(t)' = IdPairs(t) /\ Group(t)' = Group(t)
  BY InputsDecide
<1>3. \A q : SameCluster(q)' <=> SameCluster(q)
  BY DEF SameCluster
<1>4. EveryPairIsJudged'
  BY <1>2, <1>3 DEF IInv, EveryPairIsJudged
<1>5. Clusters' = Clusters
  BY InputsDecide DEF Clusters
<1> QED BY <1>1, <1>2, <1>3, <1>4, <1>5

\* Types whose groups have been judged keep their ids together.
LEMMA IdsStayMet ==
    ASSUME IInv, UNCHANGED <<inputs, cluster>>, resolved' = resolved,
           at' \notin {"names", "embeddings"}
               \/ (at \in {"names", "embeddings"} /\ group' = group)
    PROVE  SharedIdsMeet'
<1> DEFINE settled == resolved \cup (IF at \in {"names", "embeddings"} THEN {group} ELSE {})
<1>1. \A t \in settled : \A q \in Pairs(t) : ids[q[1]] \cap ids[q[2]] # {} => SameCluster(q)
  BY DEF IInv, SharedIdsMeet
<1>2. (resolved \cup (IF at \in {"names", "embeddings"} THEN {group} ELSE {}))' \subseteq settled
  OBVIOUS
<1>3. \A t \in settled : \A q \in Pairs(t)' :
          ids'[q[1]] \cap ids'[q[2]] # {} => SameCluster(q)'
  <2> HIDE DEF settled
  <2> QED BY <1>1, InputsDecide DEF inputs, SameCluster
<1> QED BY <1>2, <1>3 DEF SharedIdsMeet

LEMMA NothingToResolveStep == ASSUME IInv, NothingToResolve PROVE IInv'
<1> USE DEF NothingToResolve, inputs, merging, writing
<1>1. Shape' /\ EveryPairIsJudged' /\ Clusters' = Clusters
      /\ \A t : Pairs(t)' = Pairs(t)
  BY BetweenLoops
<1>2. TypeOK'
  BY <1>1 DEF IInv, TypeOK
<1>3. SharedIdsMeet'
  BY IdsStayMet
<1>4. GroupInProgress' /\ LayerOne' /\ LayerThree'
  BY DEF GroupInProgress, InGroup, LayerOne, LayerThree
<1>5. WritesComeLast'
  BY <1>1 DEF IInv, WritesComeLast
<1> QED BY <1>1, <1>2, <1>3, <1>4, <1>5 DEF IInv, Shape

LEMMA PromoteSingletonStep ==
    ASSUME IInv, NEW t \in Types, PromoteSingleton(t) PROVE IInv'
<1> USE DEF PromoteSingleton, inputs, writing
<1>1. Shape' /\ Clusters' = Clusters
  BY SkipKeeps, InputsDecide DEF Clusters
<1>2. /\ \A u : Pairs(u)' = Pairs(u)
      /\ \A q : SameCluster(q)' <=> SameCluster(q)
      /\ Pairs(t) = {}
  BY InputsDecide, SingletonHasNoPairs DEF IInv, SameCluster
<1>3. TypeOK'
  BY <1>2 DEF IInv, TypeOK
<1>4. EveryPairIsJudged'
  BY <1>2 DEF IInv, EveryPairIsJudged
<1>5. SharedIdsMeet'
  BY <1>2 DEF IInv, SharedIdsMeet
<1>6. GroupInProgress' /\ LayerOne' /\ LayerThree'
  BY DEF GroupInProgress, InGroup, LayerOne, LayerThree
<1>7. WritesComeLast'
  BY <1>1 DEF IInv, WritesComeLast
<1> QED BY <1>1, <1>3, <1>4, <1>5, <1>6, <1>7 DEF IInv, Shape

LEMMA BeginGroupStep == ASSUME IInv, NEW t \in Types, BeginGroup(t) PROVE IInv'
<1> USE DEF BeginGroup, inputs, writing
<1>1. /\ Shape' /\ EveryPairIsJudged' /\ Clusters' = Clusters
      /\ \A u : Pairs(u)' = Pairs(u) /\ IdPairs(u)' = IdPairs(u)
  BY BetweenLoops
<1>2. TypeOK'
  <2>1. left' \subseteq Pairs(group')
    BY DEF IdPairs
  <2> QED BY <1>1, <2>1 DEF IInv, TypeOK
<1>3. SharedIdsMeet'
  BY IdsStayMet
<1>4. GroupInProgress' /\ LayerOne' /\ LayerThree'
  BY <1>1 DEF GroupInProgress, LayerOne, LayerThree
<1>5. WritesComeLast'
  BY <1>1 DEF IInv, WritesComeLast
<1> QED BY <1>1, <1>2, <1>3, <1>4, <1>5 DEF IInv, Shape

LEMMA BeginNamesStep == ASSUME IInv, BeginNames PROVE IInv'
<1> USE DEF BeginNames, inputs, writing
<1>1. /\ Shape' /\ EveryPairIsJudged' /\ Clusters' = Clusters
      /\ \A u : Pairs(u)' = Pairs(u)
      /\ \A q : SameCluster(q)' <=> SameCluster(q)
  BY BetweenLoops
<1>2. TypeOK'
  BY <1>1 DEF IInv, TypeOK
<1>3. SharedIdsMeet'
  <2>1. group \in Types /\ \A q \in IdPairs(group) : SameCluster(q)
    BY DEF IInv, LayerOne, GroupInProgress, InGroup
  <2>2. \A q \in Pairs(group) : ids[q[1]] \cap ids[q[2]] # {} => SameCluster(q)
    BY <2>1, IdPairsSuffice DEF IInv
  <2> QED BY <1>1, <2>2 DEF IInv, SharedIdsMeet
<1>4. GroupInProgress' /\ LayerOne' /\ LayerThree'
  BY DEF IInv, GroupInProgress, InGroup, LayerOne, LayerThree
<1>5. WritesComeLast'
  BY <1>1 DEF IInv, WritesComeLast
<1> QED BY <1>1, <1>2, <1>3, <1>4, <1>5 DEF IInv, Shape

LEMMA EmbedAllStep == ASSUME IInv, EmbedAll PROVE IInv'
<1> USE DEF EmbedAll, inputs, writing
<1>1. /\ Shape' /\ EveryPairIsJudged' /\ Clusters' = Clusters
      /\ \A u : Pairs(u)' = Pairs(u)
      /\ \A q : SameCluster(q)' <=> SameCluster(q)
  BY BetweenLoops
<1>2. TypeOK'
  <2>1. embedded' \subseteq Entities
    BY DEF Group, IInv, TypeOK
  <2>2. left' \subseteq Pairs(group')
    BY DEF UnresolvedPairs
  <2> QED BY <1>1, <2>1, <2>2 DEF IInv, TypeOK
<1>3. SharedIdsMeet'
  BY IdsStayMet
<1>4. GroupInProgress' /\ LayerOne' /\ LayerThree'
  BY <1>1 DEF IInv, GroupInProgress, InGroup, LayerOne, LayerThree, UnresolvedPairs
<1>5. WritesComeLast'
  BY <1>1 DEF IInv, WritesComeLast
<1> QED BY <1>1, <1>2, <1>3, <1>4, <1>5 DEF IInv, Shape

LEMMA EndGroupStep == ASSUME IInv, EndGroup PROVE IInv'
<1> USE DEF EndGroup, inputs, writing
<1>1. Shape' /\ Clusters' = Clusters
  BY SkipKeeps, InputsDecide DEF Clusters
<1>2. /\ \A u : Pairs(u)' = Pairs(u)
      /\ \A q : SameCluster(q)' <=> SameCluster(q)
      /\ group \in Types
  BY InputsDecide DEF IInv, GroupInProgress, InGroup, SameCluster
<1>3. TypeOK'
  BY <1>2 DEF IInv, TypeOK
<1>4. EveryPairIsJudged'
  <2>1. \A q \in Pairs(group) : SameCluster(q) \/ q \in ambiguous \cup rejected
    BY DEF IInv, LayerThree, UnresolvedPairs
  <2> QED BY <1>2, <2>1 DEF IInv, EveryPairIsJudged
<1>5. SharedIdsMeet'
  BY <1>2 DEF IInv, SharedIdsMeet
<1>6. GroupInProgress' /\ LayerOne' /\ LayerThree'
  BY DEF GroupInProgress, InGroup, LayerOne, LayerThree
<1>7. WritesComeLast'
  BY <1>1 DEF IInv, WritesComeLast
<1> QED BY <1>1, <1>3, <1>4, <1>5, <1>6, <1>7 DEF IInv, Shape

LEMMA ArbitrationRaisesStep ==
    ASSUME IInv, NEW p \in left, ArbitrationRaises(p) PROVE IInv'
<1> USE DEF ArbitrationRaises, inputs, merging, writing
<1>1. Shape' /\ EveryPairIsJudged' /\ Clusters' = Clusters
      /\ \A t : Pairs(t)' = Pairs(t)
  BY BetweenLoops
<1>2. TypeOK'
  BY <1>1 DEF IInv, TypeOK
<1>3. SharedIdsMeet'
  BY IdsStayMet
<1>4. GroupInProgress' /\ LayerOne' /\ LayerThree'
  BY DEF GroupInProgress, InGroup, LayerOne, LayerThree
<1>5. WritesComeLast'
  BY <1>1 DEF IInv, WritesComeLast
<1> QED BY <1>1, <1>2, <1>3, <1>4, <1>5 DEF IInv, Shape

\* The write loop touches the store and nothing else.
LEMMA WriteStep ==
    ASSUME IInv,
           BeginWriting \/ (\E c \in unwritten : Write(c)) \/ Return
    PROVE  IInv'
<1>0. UNCHANGED <<inputs, merging>> /\ at' \in {"writing", "done"}
  BY DEF BeginWriting, Write, WriteEntity, InsertFails, CountFails, Return
<1>1. Shape' /\ EveryPairIsJudged' /\ Clusters' = Clusters
      /\ \A t : Pairs(t)' = Pairs(t)
  BY <1>0, BetweenLoops DEF merging
<1>2. unwritten' \subseteq Clusters' /\ stored' \subseteq Clusters'
      /\ evidence' \subseteq canonical' /\ canonical' \subseteq stored'
  BY <1>1 DEF IInv, WritesComeLast, BeginWriting, Write, WriteEntity, InsertFails,
              CountFails, Return, writing
<1>3. Clusters' \subseteq SUBSET Entities
  BY <1>1 DEF IInv, TypeOK, Clusters, Typed
<1>4. TypeOK'
  BY <1>0, <1>1, <1>2, <1>3 DEF IInv, TypeOK, inputs, merging
<1>5. SharedIdsMeet'
  BY <1>0, IdsStayMet DEF merging
<1>6. GroupInProgress' /\ LayerOne' /\ LayerThree'
  BY <1>0 DEF GroupInProgress, InGroup, LayerOne, LayerThree
<1>7. WritesComeLast'
  <2>1. at' = "done" => unwritten' = {}
    BY DEF IInv, WritesComeLast, BeginWriting, Write, WriteEntity, InsertFails,
           CountFails, Return, writing
  <2> QED BY <1>0, <1>2, <2>1 DEF WritesComeLast
<1> QED BY <1>1, <1>4, <1>5, <1>6, <1>7 DEF IInv, Shape

LEMMA StutterStep == ASSUME IInv, UNCHANGED vars PROVE IInv'
<1> USE DEF vars, inputs, merging, writing
<1>1. Shape' /\ EveryPairIsJudged' /\ Clusters' = Clusters
      /\ (\A t : Pairs(t)' = Pairs(t) /\ IdPairs(t)' = IdPairs(t))
      /\ \A q : SameCluster(q)' <=> SameCluster(q)
  BY BetweenLoops
<1>2. TypeOK'
  BY <1>1 DEF IInv, TypeOK
<1>3. SharedIdsMeet'
  BY IdsStayMet
<1>4. GroupInProgress' /\ LayerOne' /\ LayerThree' /\ WritesComeLast'
  BY <1>1 DEF IInv, GroupInProgress, InGroup, LayerOne, LayerThree, WritesComeLast
<1> QED BY <1>1, <1>2, <1>3, <1>4 DEF IInv, Shape

LEMMA InvariantHolds == Spec => []IInv
<1>1. Init => IInv
  BY InitIInv
<1>2. IInv /\ [Next]_vars => IInv'
  <2> SUFFICES ASSUME IInv, [Next]_vars PROVE IInv'
    OBVIOUS
  <2>1. CASE NothingToResolve
    BY <2>1, NothingToResolveStep
  <2>2. ASSUME NEW t \in Types, PromoteSingleton(t) \/ BeginGroup(t) PROVE IInv'
    BY <2>2, PromoteSingletonStep, BeginGroupStep
  <2>3. ASSUME NEW p \in left, Compare(p) PROVE IInv'
    BY <2>3, VisitStep, ArbitrationRaisesStep DEF Compare
  <2>4. CASE BeginNames
    BY <2>4, BeginNamesStep
  <2>5. CASE EmbedAll
    BY <2>5, EmbedAllStep
  <2>6. CASE EndGroup
    BY <2>6, EndGroupStep
  <2>7. CASE BeginWriting \/ (\E c \in unwritten : Write(c)) \/ Return
    BY <2>7, WriteStep
  <2>8. CASE Ended \/ UNCHANGED vars
    BY <2>8, StutterStep DEF Ended
  <2> QED BY <2>1, <2>2, <2>3, <2>4, <2>5, <2>6, <2>7, <2>8 DEF Next
<1> QED BY <1>1, <1>2, PTL DEF Spec

-----------------------------------------------------------------------------
(* The theorems.                                                            *)

\* Every variable keeps its type.
THEOREM TypeCorrect == Spec => []TypeOK
<1>1. IInv => TypeOK
  BY DEF IInv
<1> QED BY <1>1, InvariantHolds, PTL

\* Whatever the comparisons answer, the canonical entities are the classes of
\* the recorded merges, and every merge is recorded once.
THEOREM ClustersAreExplained == Spec => []DecisionsExplainClusters
<1>1. IInv => DecisionsExplainClusters
  <2> SUFFICES ASSUME IInv PROVE DecisionsExplainClusters
    OBVIOUS
  <2>1. ASSUME NEW e \in Entities PROVE e \in cluster[e] /\ Closed(cluster[e])
    <3>1. e \in cluster[e]
      BY DEF IInv, ClustersPartition
    <3>2. ASSUME NEW p \in decisions PROVE p[1] \in cluster[e] <=> p[2] \in cluster[e]
      <4>1. p[1] \in Entities /\ p[2] \in Entities /\ cluster[p[1]] = cluster[p[2]]
        BY DEF IInv, DecisionsStayInside, SameCluster, Typed, TypeOK
      <4> QED BY <4>1 DEF IInv, ClustersPartition
    <3> QED BY <3>1, <3>2 DEF Closed
  <2> QED BY <2>1 DEF IInv, NothingElseMerges, OneDecisionPerMerge, DecisionsExplainClusters
<1> QED BY <1>1, InvariantHolds, PTL

\* Layer 1 joins all holders of an id, also those it never pairs.
THEOREM IdHoldersMeet == Spec => []SharedIdsMeet
<1>1. IInv => SharedIdsMeet
  BY DEF IInv
<1> QED BY <1>1, InvariantHolds, PTL

\* The loops of the three layers forget no pair of a group.
THEOREM NoPairIsForgotten == Spec => []EveryPairIsJudged
<1>1. IInv => EveryPairIsJudged
  BY DEF IInv
<1> QED BY <1>1, InvariantHolds, PTL

\* What the run goes on with is in the database, and evidence only with it.
THEOREM CanonicalIsStored == Spec => []StoreAgreesWithState
<1>1. IInv => StoreAgreesWithState
  BY DEF IInv, ClustersPartition, WritesComeLast, StoreAgreesWithState
<1> QED BY <1>1, InvariantHolds, PTL

-----------------------------------------------------------------------------
(* What layer 1 computes, whatever the order of the dictionary of ids.      *)

ShareAnId(p) == ids[p[1]] \cap ids[p[2]] # {}

\* No two entities of type t that share an id are on different sides of S.
ClosedUnderIds(S, t) == \A p \in Pairs(t) : ShareAnId(p) => (p[1] \in S <=> p[2] \in S)

\* When its loop ends, the clusters of the group are the classes of the chains
\* of shared ids.
LayerOneIsExact ==
    at = "ids" /\ left = {} =>
        \A e \in Group(group) :
            /\ ClosedUnderIds(cluster[e], group)
            /\ \A S \in SUBSET Entities :
                   ClosedUnderIds(S, group) /\ e \in S => cluster[e] \subseteq S

\* A merge is of a type that was begun, and layer 1 merges who shares an id.
MergesHaveAGroup ==
    at = "failed" \/ \A p \in decisions :
        TypeOf[p[1]] \in resolved \cup (IF InGroup THEN {group} ELSE {})

MergesShareIds ==
    at = "ids" => \A p \in decisions :
        TypeOf[p[1]] = group => p \in Pairs(group) /\ ShareAnId(p)

\* The pairs that layer 1 has still to visit do.
LeftShareIds == at = "ids" => \A p \in left : ShareAnId(p)

LayerOneInv == MergesHaveAGroup /\ MergesShareIds /\ LeftShareIds

LEMMA LayerOneStep == IInv /\ LayerOneInv /\ [Next]_vars => LayerOneInv'
<1> SUFFICES ASSUME IInv, LayerOneInv, [Next]_vars PROVE LayerOneInv'
  OBVIOUS
<1> USE DEF LayerOneInv, MergesHaveAGroup, MergesShareIds, LeftShareIds, InGroup
<1>1. CASE NothingToResolve
  BY <1>1 DEF NothingToResolve, merging
<1>2. ASSUME NEW t \in Types, PromoteSingleton(t) PROVE LayerOneInv'
  BY <1>2 DEF PromoteSingleton
<1>3. ASSUME NEW t \in Types, BeginGroup(t) PROVE LayerOneInv'
  BY <1>3 DEF BeginGroup, IdPairs, inputs, ShareAnId
<1>4. ASSUME NEW p \in left, Compare(p) PROVE LayerOneInv'
  <2>1. CASE ArbitrationRaises(p)
    BY <2>1 DEF ArbitrationRaises
  <2>2. CASE ~ArbitrationRaises(p)
    <3>1. /\ at' = at /\ InGroup /\ UNCHANGED <<inputs, group, resolved>>
          /\ decisions' \subseteq decisions \cup {p}
      BY <1>4, <2>2 DEF Compare, MergeById, CompareNames, SkipMerged, MergeBySimilarity,
         HoldForReview, Reject, VisitPair, Merge, Skip
    <3>2. p \in Pairs(group) /\ group \in Types
      BY <3>1 DEF IInv, TypeOK, GroupInProgress
    <3>3. TypeOf[p[1]] = group
      BY <3>2, PairFacts DEF IInv
    <3>4. at = "ids" => ShareAnId(p)
      OBVIOUS
    <3>5. left' \subseteq left
      BY <1>4, <2>2 DEF Compare, MergeById, CompareNames, SkipMerged, MergeBySimilarity,
         HoldForReview, Reject, VisitPair
    <3> QED
      BY <3>1, <3>2, <3>3, <3>4, <3>5, InputsDecide DEF inputs, ShareAnId
  <2> QED
    BY <2>1, <2>2
<1>5. CASE BeginNames
  BY <1>5 DEF BeginNames
<1>6. CASE EmbedAll
  BY <1>6 DEF EmbedAll
<1>7. CASE EndGroup
  BY <1>7 DEF EndGroup
<1>8. CASE BeginWriting
  BY <1>8 DEF BeginWriting, merging
<1>9. ASSUME NEW c \in unwritten, Write(c) PROVE LayerOneInv'
  BY <1>9 DEF Write, WriteEntity, InsertFails, CountFails, merging
<1>10. CASE Return
  BY <1>10 DEF Return, merging
<1>11. CASE Ended \/ UNCHANGED vars
  <2>1. UNCHANGED vars
    BY <1>11 DEF Ended
  <2> QED
    BY <2>1, InputsDecide DEF vars, inputs, merging, ShareAnId
<1> QED
  BY <1>1, <1>2, <1>3, <1>4, <1>5, <1>6, <1>7, <1>8, <1>9, <1>10, <1>11 DEF Next

\* Two entities of a type are in one cluster after layer 1 exactly if a chain of
\* shared ids leads from one to the other: each id is only compared with its
\* first holder, in the order of a dictionary, and neither decides anything.
THEOREM LayerOneJoinsTheIds == Spec => []LayerOneIsExact
<1>1. Init => LayerOneInv
  BY DEF Init, LayerOneInv, MergesHaveAGroup, MergesShareIds, LeftShareIds
<1>2. IInv /\ LayerOneInv => LayerOneIsExact
  <2> SUFFICES ASSUME IInv, LayerOneInv, at = "ids", left = {}, NEW e \in Group(group)
               PROVE  /\ ClosedUnderIds(cluster[e], group)
                      /\ \A S \in SUBSET Entities :
                             ClosedUnderIds(S, group) /\ e \in S => cluster[e] \subseteq S
    BY DEF LayerOneIsExact
  <2>1. group \in Types /\ e \in Entities /\ e \in raw /\ TypeOf[e] = group
    BY DEF IInv, TypeOK, GroupInProgress, InGroup, Group
  <2>2. ClosedUnderIds(cluster[e], group)
    <3> SUFFICES ASSUME NEW p \in Pairs(group), ShareAnId(p)
                 PROVE  p[1] \in cluster[e] <=> p[2] \in cluster[e]
      BY DEF ClosedUnderIds
    <3>1. \A q \in IdPairs(group) : SameCluster(q)
      BY DEF IInv, LayerOne
    <3>2. SameCluster(p)
      BY <2>1, <3>1, IdPairsSuffice DEF IInv, ShareAnId
    <3>3. p[1] \in Entities /\ p[2] \in Entities
      BY <2>1, PairFacts DEF IInv
    <3> QED
      BY <2>1, <3>2, <3>3 DEF IInv, ClustersPartition, SameCluster
  <2>3. ASSUME NEW S \in SUBSET Entities, ClosedUnderIds(S, group), e \in S
        PROVE  cluster[e] \subseteq S
    <3> DEFINE T == S \cap Group(group)
    <3>1. Closed(T)
      <4> SUFFICES ASSUME NEW p \in decisions PROVE p[1] \in T <=> p[2] \in T
        BY DEF Closed
      <4>1. /\ p[1] \in raw /\ p[2] \in raw /\ p[1] \in Entities /\ p[2] \in Entities
            /\ cluster[p[1]] = cluster[p[2]]
        BY DEF IInv, TypeOK, DecisionsStayInside, Typed, SameCluster
      <4>2. TypeOf[p[1]] = TypeOf[p[2]]
        BY <4>1 DEF IInv, ClustersPartition
      <4>3. CASE TypeOf[p[1]] = group
        <5>1. p \in Pairs(group) /\ ShareAnId(p)
          BY <4>3 DEF LayerOneInv, MergesShareIds
        <5>2. p[1] \in S <=> p[2] \in S
          BY <2>3, <5>1 DEF ClosedUnderIds
        <5> QED
          BY <4>1, <4>2, <4>3, <5>2 DEF Group
      <4>4. CASE TypeOf[p[1]] # group
        BY <4>2, <4>4 DEF Group
      <4> QED
        BY <4>3, <4>4
    <3>2. T \in SUBSET Entities /\ e \in T
      BY <2>3
    <3> HIDE DEF T
    <3>3. cluster[e] \subseteq T
      BY <3>1, <3>2 DEF IInv, NothingElseMerges
    <3> QED
      BY <3>3 DEF T
  <2> QED
    BY <2>2, <2>3
<1> QED
  BY <1>1, <1>2, LayerOneStep, InvariantHolds, PTL DEF Spec

-----------------------------------------------------------------------------
(* The loops end.                                                           *)

\* Types that are not resolved; a type is begun only if an entity has it.
Open == {TypeOf[e] : e \in raw} \ resolved

AllPairs == Cardinality(Entities \X Entities)

\* The steps that one type takes at most: three loops and four steps around them.
Round == 3 * AllPairs + 4

Rounds == Round * Cardinality(Open)

\* Beginning to write, one step per canonical entity, returning.
Tail == Cardinality(Entities) + 2

\* How many steps run() can still take.
Left ==
    CASE at = "groups"     -> Rounds + Tail
      [] at = "ids"        -> Rounds - Round + 2 * AllPairs + 3 + Cardinality(left) + Tail
      [] at = "names"      -> Rounds - Round + AllPairs + 2 + Cardinality(left) + Tail
      [] at = "embeddings" -> Rounds - Round + 1 + Cardinality(left) + Tail
      [] at = "writing"    -> Cardinality(unwritten) + 1
      [] OTHER             -> 0

Bound == Round * Cardinality(Entities) + Tail

\* A type is begun for its entities.
BegunIsThere == InGroup => group \in {TypeOf[e] : e \in raw}

LEMMA TimesRemovesOne ==
    ASSUME NEW w \in Nat, NEW n \in Nat
    PROVE  /\ w * n \in Nat
           /\ n > 0 => w * (n - 1) = w * n - w /\ w * n >= w
           /\ \A m \in Nat : n <= m => w * n <= w * m
<1>1. w * n \in Nat
  OBVIOUS
<1>2. ASSUME n > 0 PROVE w * (n - 1) = w * n - w /\ w * n >= w
  <2>1. PICK k \in Nat : n = k + 1
    <3>1. n - 1 \in Nat /\ n = (n - 1) + 1
      BY <1>2
    <3> QED
      BY <3>1
  <2>2. w * (k + 1) = w * k + w
    OBVIOUS
  <2> QED
    BY <2>1, <2>2
<1>3. ASSUME NEW m \in Nat, n <= m PROVE w * n <= w * m
  <2>1. PICK k \in Nat : m = n + k
    <3>1. m - n \in Nat /\ m = n + (m - n)
      BY <1>3
    <3> QED
      BY <3>1
  <2>2. w * (n + k) = w * n + w * k /\ w * k \in Nat
    OBVIOUS
  <2> QED
    BY <2>1, <2>2, <1>1
<1> QED
  BY <1>1, <1>2, <1>3

\* The pairs of a loop are pairs of entities.
LEMMA PairsAreFew ==
    /\ AllPairs \in Nat /\ Round \in Nat /\ Tail \in Nat
    /\ \A P \in SUBSET (Entities \X Entities) :
           IsFiniteSet(P) /\ Cardinality(P) \in 0..AllPairs
<1>1. IsFiniteSet(Entities \X Entities) /\ IsFiniteSet(Entities)
  BY EntitiesAssumption, FS_Product
<1>2. AllPairs \in Nat /\ Cardinality(Entities) \in Nat
  BY <1>1, FS_CardinalityType DEF AllPairs
<1>3. \A P \in SUBSET (Entities \X Entities) :
          IsFiniteSet(P) /\ Cardinality(P) \in Nat /\ Cardinality(P) <= AllPairs
  BY <1>1, FS_Subset, FS_CardinalityType DEF AllPairs
<1> QED
  BY <1>2, <1>3 DEF Round, Tail

LEMMA OpenIsFinite ==
    ASSUME TypeOK
    PROVE  IsFiniteSet(Open) /\ Cardinality(Open) \in 0..Cardinality(Entities)
<1>1. IsFiniteSet(raw) /\ Cardinality(raw) \in Nat /\ Cardinality(Entities) \in Nat
      /\ Cardinality(raw) <= Cardinality(Entities)
  BY EntitiesAssumption, FS_Subset, FS_CardinalityType DEF TypeOK
<1> DEFINE all == {TypeOf[e] : e \in raw}
<1>2. IsFiniteSet(all) /\ Cardinality(all) <= Cardinality(raw) /\ Cardinality(all) \in Nat
  <2>1. [e \in raw |-> TypeOf[e]] \in Surjection(raw, all)
    BY DEF Surjection
  <2> QED
    BY <1>1, <2>1, FS_Surjection, FS_CardinalityType
<1>3. Open \subseteq all
  BY DEF Open
<1> HIDE DEF all
<1>4. IsFiniteSet(Open) /\ Cardinality(Open) <= Cardinality(all) /\ Cardinality(Open) \in Nat
  BY <1>2, <1>3, FS_Subset, FS_CardinalityType
<1> QED
  BY <1>1, <1>2, <1>4

LEMMA ClustersAreFew ==
    ASSUME TypeOK
    PROVE  \A S \in SUBSET Clusters :
               IsFiniteSet(S) /\ Cardinality(S) \in 0..Cardinality(Entities)
<1>1. Typed \in SUBSET Entities
  BY DEF TypeOK, Typed
<1>2. IsFiniteSet(Typed) /\ Cardinality(Typed) \in Nat /\ Cardinality(Entities) \in Nat
      /\ Cardinality(Typed) <= Cardinality(Entities)
  BY <1>1, EntitiesAssumption, FS_Subset, FS_CardinalityType
<1>3. IsFiniteSet(Clusters) /\ Cardinality(Clusters) <= Cardinality(Typed)
      /\ Cardinality(Clusters) \in Nat
  <2>1. [e \in Typed |-> cluster[e]] \in Surjection(Typed, Clusters)
    BY DEF Surjection, Clusters
  <2> QED
    BY <1>2, <2>1, FS_Surjection, FS_CardinalityType
<1>4. \A S \in SUBSET Clusters :
          IsFiniteSet(S) /\ Cardinality(S) <= Cardinality(Clusters) /\ Cardinality(S) \in Nat
  BY <1>3, FS_Subset, FS_CardinalityType
<1> QED
  BY <1>2, <1>3, <1>4

\* The numbers that Left is made of.
LEMMA LeftParts ==
    ASSUME IInv, BegunIsThere
    PROVE  /\ Rounds \in 0..(Round * Cardinality(Entities))
           /\ Cardinality(unwritten) \in 0..Cardinality(Entities)
           /\ InGroup => /\ Rounds >= Round /\ group \in Open
                         /\ IsFiniteSet(left) /\ Cardinality(left) \in 0..AllPairs
<1>1. IsFiniteSet(Open) /\ Cardinality(Open) \in Nat /\ Cardinality(Entities) \in Nat
      /\ Cardinality(Open) <= Cardinality(Entities)
  BY OpenIsFinite, EntitiesAssumption, FS_CardinalityType DEF IInv
<1>2. Rounds \in 0..(Round * Cardinality(Entities))
  BY <1>1, PairsAreFew, TimesRemovesOne DEF Rounds
<1>3. Cardinality(unwritten) \in 0..Cardinality(Entities)
  BY ClustersAreFew DEF IInv, WritesComeLast
<1>4. ASSUME InGroup
      PROVE  /\ Rounds >= Round /\ group \in Open
             /\ IsFiniteSet(left) /\ Cardinality(left) \in 0..AllPairs
  <2>1. group \in Types \ resolved /\ left \in SUBSET (Entities \X Entities)
    BY <1>4, PairFacts DEF IInv, TypeOK, GroupInProgress
  <2>2. group \in Open
    BY <1>4, <2>1 DEF BegunIsThere, Open
  <2>3. Cardinality(Open) > 0
    BY <1>1, <2>2, FS_EmptySet
  <2> QED
    BY <1>1, <2>1, <2>2, <2>3, PairsAreFew, TimesRemovesOne DEF Rounds
<1> QED
  BY <1>2, <1>3, <1>4

LEMMA MembersAreThere ==
    ASSUME NEW t \in Types, Cardinality(Group(t)) >= 1
    PROVE  t \in {TypeOf[e] : e \in raw}
<1>1. Group(t) # {}
  BY FS_EmptySet
<1> QED
  BY <1>1 DEF Group

LEMMA BegunStep == TypeOK /\ BegunIsThere /\ [Next]_vars => BegunIsThere'
<1> SUFFICES ASSUME TypeOK, BegunIsThere, [Next]_vars PROVE BegunIsThere'
  OBVIOUS
<1> USE DEF BegunIsThere, InGroup
<1>1. ASSUME NEW t \in Types, BeginGroup(t) PROVE BegunIsThere'
  <2>1. Cardinality(Group(t)) >= 1
    <3>1. Group(t) \in SUBSET Entities
      BY DEF Group, TypeOK
    <3>2. Cardinality(Group(t)) \in Nat
      BY <3>1, EntitiesAssumption, FS_Subset, FS_CardinalityType
    <3> QED
      BY <1>1, <3>2 DEF BeginGroup
  <2> QED
    BY <1>1, <2>1, MembersAreThere DEF BeginGroup, inputs
<1>2. ASSUME NEW t \in Types, PromoteSingleton(t) PROVE BegunIsThere'
  BY <1>2 DEF PromoteSingleton, inputs
<1>3. ASSUME NEW p \in left, Compare(p) PROVE BegunIsThere'
  BY <1>3 DEF Compare, MergeById, CompareNames, SkipMerged, MergeBySimilarity,
     HoldForReview, Reject, VisitPair, ArbitrationRaises, inputs
<1>4. CASE NothingToResolve \/ BeginNames \/ EmbedAll \/ EndGroup
  BY <1>4 DEF NothingToResolve, BeginNames, EmbedAll, EndGroup, inputs
<1>5. CASE BeginWriting \/ (\E c \in unwritten : Write(c)) \/ Return
  BY <1>5 DEF BeginWriting, Write, WriteEntity, InsertFails, CountFails, Return
<1>6. CASE Ended \/ UNCHANGED vars
  BY <1>6 DEF Ended, vars, inputs, merging
<1> QED
  BY <1>1, <1>2, <1>3, <1>4, <1>5, <1>6 DEF Next

\* Resolving a type takes a round off.
LEMMA OneTypeLess ==
    ASSUME TypeOK, NEW t \in Open, UNCHANGED raw, resolved' = resolved \cup {t}
    PROVE  Rounds' = Rounds - Round /\ Rounds >= Round
<1>1. Open' = Open \ {t}
  BY DEF Open
<1>2. IsFiniteSet(Open) /\ Cardinality(Open) \in Nat /\ Cardinality(Open) > 0
  BY OpenIsFinite, FS_EmptySet, FS_CardinalityType
<1>3. Cardinality(Open') = Cardinality(Open) - 1
  BY <1>1, <1>2, FS_RemoveElement
<1> QED
  BY <1>2, <1>3, PairsAreFew, TimesRemovesOne DEF Rounds

\* Visiting a pair, or writing an entity, leaves one less.
LEMMA OneLess ==
    ASSUME NEW S, IsFiniteSet(S), NEW x \in S
    PROVE  Cardinality(S \ {x}) = Cardinality(S) - 1 /\ Cardinality(S) \in Nat
BY FS_RemoveElement, FS_CardinalityType

LEMMA StepIsCloser ==
    ASSUME IInv, BegunIsThere, IInv', [Next]_vars
    PROVE  [Left' < Left]_vars
<1> SUFFICES ASSUME Next, vars' # vars PROVE Left' < Left
  OBVIOUS
<1>1. /\ Rounds \in Nat /\ Cardinality(unwritten) \in 0..Cardinality(Entities)
      /\ InGroup => /\ Rounds >= Round /\ group \in Open
                    /\ IsFiniteSet(left) /\ Cardinality(left) \in 0..AllPairs
  BY LeftParts
<1>2. /\ Cardinality(Clusters) \in 0..Cardinality(Entities)
      /\ Cardinality(left') \in 0..AllPairs
  <2>1. left' \in SUBSET (Entities \X Entities)
    BY DEF IInv, TypeOK, Pairs, Group
  <2> QED
    BY <2>1, ClustersAreFew, PairsAreFew DEF IInv
<1>3. /\ AllPairs \in Nat /\ Round = 3 * AllPairs + 4
      /\ Cardinality(Entities) \in Nat /\ Tail = Cardinality(Entities) + 2
  BY PairsAreFew, EntitiesAssumption, FS_CardinalityType DEF Round, Tail
<1>4. UNCHANGED <<raw, resolved>> => Rounds' = Rounds
  BY DEF Rounds, Open
<1>5. ASSUME NEW t \in Types, PromoteSingleton(t) PROVE Left' < Left
  <2>1. t \in Open
    BY <1>5, MembersAreThere DEF PromoteSingleton, Open
  <2>2. Rounds' = Rounds - Round
    BY <1>5, <2>1, OneTypeLess DEF PromoteSingleton, inputs, IInv
  <2> QED
    BY <1>1, <1>3, <1>5, <2>2 DEF PromoteSingleton, Left
<1>6. ASSUME NEW t \in Types, BeginGroup(t) PROVE Left' < Left
  BY <1>1, <1>2, <1>3, <1>4, <1>6 DEF BeginGroup, inputs, Left, InGroup
<1>7. CASE NothingToResolve
  BY <1>1, <1>3, <1>7 DEF NothingToResolve, Left
<1>8. ASSUME NEW p \in left, Compare(p) PROVE Left' < Left
  <2>1. CASE ArbitrationRaises(p)
    BY <1>1, <1>3, <2>1 DEF ArbitrationRaises, Left, InGroup
  <2>2. CASE ~ArbitrationRaises(p)
    <3>1. /\ at' = at /\ InGroup /\ UNCHANGED <<raw, resolved>>
          /\ left' = left \ {p}
      BY <1>8, <2>2 DEF Compare, MergeById, CompareNames, SkipMerged, MergeBySimilarity,
         HoldForReview, Reject, VisitPair, inputs, InGroup
    <3>2. Cardinality(left') = Cardinality(left) - 1 /\ Cardinality(left) \in Nat
      BY <1>1, <3>1, OneLess
    <3> QED
      BY <1>1, <1>3, <1>4, <3>1, <3>2 DEF Left, InGroup
  <2> QED
    BY <2>1, <2>2
<1>9. CASE BeginNames \/ EmbedAll
  BY <1>1, <1>2, <1>3, <1>4, <1>9 DEF BeginNames, EmbedAll, inputs, Left, InGroup
<1>10. CASE EndGroup
  <2>1. Rounds' = Rounds - Round
    BY <1>1, <1>10, OneTypeLess DEF EndGroup, inputs, IInv, InGroup
  <2> QED
    BY <1>1, <1>3, <1>10, <2>1 DEF EndGroup, Left, InGroup
<1>11. CASE BeginWriting
  BY <1>1, <1>2, <1>3, <1>11 DEF BeginWriting, Left
<1>12. ASSUME NEW c \in unwritten, Write(c) PROVE Left' < Left
  <2>1. unwritten' = unwritten \ {c} /\ at = "writing" /\ at' = "writing"
    BY <1>12 DEF Write, WriteEntity, InsertFails, CountFails
  <2>2. IsFiniteSet(unwritten)
    BY ClustersAreFew DEF IInv, WritesComeLast
  <2> QED
    BY <2>1, <2>2, OneLess DEF Left
<1>13. CASE Return
  BY <1>1, <1>13 DEF Return, Left
<1>14. CASE Ended
  BY <1>14 DEF Ended
<1> QED
  BY <1>5, <1>6, <1>7, <1>8, <1>9, <1>10, <1>11, <1>12, <1>13, <1>14 DEF Next

\* Whatever the comparisons answer and whatever fails, run() comes to its end:
\* every step leaves less to do, and the steps are at most those of three loops
\* over the pairs of each type and one loop over the canonical entities.  No
\* merge sends a loop back to pairs that it has visited.
THEOREM ResolutionIsBounded == Spec => [](Left \in 0..Bound) /\ [][Left' < Left]_vars
<1>1. Init => BegunIsThere
  BY DEF Init, BegunIsThere, InGroup
<1>2. IInv => TypeOK
  BY DEF IInv
<1>3. IInv /\ BegunIsThere => Left \in 0..Bound
  <2> SUFFICES ASSUME IInv, BegunIsThere PROVE Left \in 0..Bound
    OBVIOUS
  <2>1. /\ AllPairs \in Nat /\ Round = 3 * AllPairs + 4 /\ Round * Cardinality(Entities) \in Nat
        /\ Cardinality(Entities) \in Nat /\ Tail = Cardinality(Entities) + 2
    BY PairsAreFew, EntitiesAssumption, FS_CardinalityType, TimesRemovesOne DEF Round, Tail
  <2>2. CASE InGroup
    <3> DEFINE most == Round * Cardinality(Entities)
    <3>1. /\ most \in Nat /\ Rounds \in 0..most /\ Rounds >= Round
          /\ Cardinality(left) \in 0..AllPairs /\ Bound = most + Tail
      BY <2>1, <2>2, LeftParts DEF Bound
    <3> HIDE DEF most
    <3> QED
      BY <2>1, <2>2, <3>1 DEF Left, InGroup
  <2>3. CASE ~InGroup
    BY <2>1, <2>3, LeftParts DEF Left, InGroup, Bound
  <2> QED
    BY <2>2, <2>3
<1>4. IInv /\ BegunIsThere /\ IInv' /\ [Next]_vars => [Left' < Left]_vars
  BY StepIsCloser
<1> QED
  BY <1>1, <1>2, <1>3, <1>4, BegunStep, InvariantHolds, PTL DEF Spec

=============================================================================

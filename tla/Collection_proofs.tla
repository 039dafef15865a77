-------------------------- MODULE Collection_proofs --------------------------
(***************************************************************************)
(* Type correctness and the safety properties of Collection, for any       *)
(* number of collectors and categories, from the inductive invariant IInv. *)
(* One lemma per action shows that it keeps IInv.                          *)
(***************************************************************************)
EXTENDS Collection, FiniteSetTheorems, WellFoundedInduction, TLAPS

(* The scores: the gap analysis and the conditional edge compare different  *)
(* numbers with the threshold and agree all the same.                       *)

\* What integer division promises, for the one quotient that is rounded.
LEMMA RoundedQuotientBounds ==
    ASSUME NEW found \in Nat, NEW expected \in Nat, expected # 0
    PROVE  LET q == RoundedQuotient(found, expected)
           IN  /\ q \in Nat
               /\ 2 * expected * q <= 2 * Unit * found + expected
               /\ 2 * Unit * found + expected < 2 * expected * q + 2 * expected
<1> DEFINE a == 2 * Unit * found + expected
           b == 2 * expected
           q == a \div b
<1>1. a \in Nat /\ b \in Nat /\ b > 0
  BY DEF Unit
<1> HIDE DEF a, b
<1>2. q \in Nat /\ b * q <= a /\ a < b * q + b
  BY <1>1
<1> QED BY <1>2 DEF RoundedQuotient, Unit, a, b

\* Rounding to four decimals moves no category across the threshold, as long
\* as fewer than 2000 entities are expected of it (gap_analysis.py's is_thin
\* against graph.py's test on the stored coverage_score).
THEOREM RoundingKeepsTheSide ==
    \A found, expected :
        found \in Nat /\ expected \in 0..1999 =>
            (TriggersPass2(CoverageScore(found, expected)) <=> IsThin(found, expected))
<1> TAKE found, expected
<1> HAVE found \in Nat /\ expected \in 0..1999
<1>1. CASE expected = 0
  BY <1>1 DEF TriggersPass2, CoverageScore, IsThin, Unit, Threshold
<1>2. CASE expected # 0 /\ found >= expected
  BY <1>2 DEF TriggersPass2, CoverageScore, IsThin, Unit, Threshold
<1>3. CASE expected # 0 /\ found < expected
  <2> DEFINE q == RoundedQuotient(found, expected)
  <2>1. CoverageScore(found, expected) = q
    BY <1>3 DEF CoverageScore
  <2>2. /\ q \in Nat
        /\ 2 * expected * q <= 20000 * found + expected
        /\ 20000 * found + expected < 2 * expected * q + 2 * expected
    <3>1. expected \in Nat
      OBVIOUS
    <3>2. /\ q \in Nat
          /\ 2 * expected * q <= 2 * Unit * found + expected
          /\ 2 * Unit * found + expected < 2 * expected * q + 2 * expected
      BY <1>3, <3>1, RoundedQuotientBounds
    <3> HIDE DEF q
    <3>3. QED BY <3>1, <3>2 DEF Unit
  <2> HIDE DEF q
  <2>3. ASSUME q < 6000 PROVE 10 * found < 6 * expected
    <3>1. expected * q <= expected * 5999
      BY <2>2, <2>3
    <3>2. QED BY <2>2, <3>1, <1>3
  <2>4. ASSUME 10 * found < 6 * expected PROVE q < 6000
    <3>1. SUFFICES ASSUME q >= 6000 PROVE FALSE
      BY <2>2
    <3>2. expected * q >= expected * 6000
      BY <2>2, <3>1
    <3>3. QED BY <2>2, <2>4, <3>2, <1>3
  <2>5. QED
    BY <2>1, <2>2, <2>3, <2>4 DEF TriggersPass2, IsThin, Unit, Threshold
<1>4. QED BY <1>1, <1>2, <1>3

\* A stored coverage_score is an integer from 0 to 10000.
LEMMA ScoreIsInRange ==
    \A found, expected :
        found \in Nat /\ expected \in 0..1999 => CoverageScore(found, expected) \in 0..Unit
<1> TAKE found, expected
<1> HAVE found \in Nat /\ expected \in 0..1999
<1>1. CASE expected = 0 \/ found >= expected
  BY <1>1 DEF CoverageScore, Unit
<1>2. CASE expected # 0 /\ found < expected
  <2> DEFINE q == RoundedQuotient(found, expected)
  <2>1. expected \in Nat
    OBVIOUS
  <2>2. /\ q \in Nat
        /\ 2 * expected * q <= 2 * Unit * found + expected
        /\ 2 * Unit * found + expected < 2 * expected * q + 2 * expected
    BY <1>2, <2>1, RoundedQuotientBounds
  <2>3. CoverageScore(found, expected) = q
    BY <1>2 DEF CoverageScore
  <2> HIDE DEF q
  <2>4. q <= 10000
    <3>1. SUFFICES ASSUME q >= 10001 PROVE FALSE
      BY <2>2
    <3>2. expected * q >= expected * 10001
      BY <2>1, <2>2, <3>1
    <3>3. QED BY <1>2, <2>1, <2>2, <3>2 DEF Unit
  <2>5. QED BY <2>2, <2>3, <2>4 DEF Unit
<1>3. QED BY <1>1, <1>2

-----------------------------------------------------------------------------
(* The invariant.                                                           *)

\* The entities of one category are finitely many, so their number is one.
LEMMA EntityCountIsNat ==
    ASSUME TypeOK, NEW k \in Categories
    PROVE  EntityCount(k) \in Nat
<1> DEFINE batch(d) == {d} \X (1..(appended[d] * call[d].found[k]))
<1>1. IsFiniteSet(Calls)
  <2>1. IsFiniteSet({1, 2})
    <3>1. IsFiniteSet({1} \cup {2})
      BY FS_Singleton, FS_AddElement
    <3>2. {1, 2} = {1} \cup {2}
      OBVIOUS
    <3>3. QED BY <3>1, <3>2
  <2>2. QED BY <2>1, FS_Product, AgentsAssumption DEF Calls
<1>2. ASSUME NEW d \in Calls PROVE IsFiniteSet(batch(d))
  <2>1. appended[d] * call[d].found[k] \in Nat
    <3>1. appended[d] \in Nat /\ call[d].found[k] \in Nat
      BY DEF TypeOK, Call
    <3> QED BY <3>1
  <2>2. IsFiniteSet(1..(appended[d] * call[d].found[k]))
    BY <2>1, FS_Interval
  <2>3. IsFiniteSet({d})
    BY FS_Singleton
  <2>4. QED BY <2>2, <2>3, FS_Product
<1>3. IsFiniteSet({batch(d) : d \in Calls})
  <2> DEFINE batches == {batch(d) : d \in Calls}
             f == [d \in Calls |-> batch(d)]
  <2>1. f \in Surjection(Calls, batches)
    BY DEF Surjection
  <2>2. QED BY <1>1, <2>1, FS_Surjection
<1>4. IsFiniteSet(UNION {batch(d) : d \in Calls})
  BY <1>2, <1>3, FS_UNION
<1>5. QED BY <1>4, FS_CardinalityType DEF EntityCount, RawEntities

\* A score table is never the empty gap analysis.
LEMMA ScoresAreData ==
    ASSUME NEW s \in [Categories -> 0..Unit]
    PROVE  s # NoData
BY AgentsAssumption DEF NoData

LEMMA AnswersAreCalls ==
    ASSUME NEW c \in Collectors, NEW a \in Answers(c) \cup {Raised}
    PROVE  /\ a \in Call
           /\ a.result # "none"
           /\ a \in Answers(c) => a.result \in {"success", "error"}
<1>1. Nothing \in [Categories -> Nat]
  BY DEF Nothing
<1>2. CASE a \in Succeeded(c)
  <2>1. a.found \in [Categories -> Nat]
    BY <1>2, AgentsAssumption DEF Succeeded
  <2>2. QED BY <1>2, <2>1 DEF Succeeded, Call, Results
<1>3. CASE a = Failed
  BY <1>1, <1>3 DEF Failed, Call, Results
<1>4. CASE a = Raised
  BY <1>1, <1>4 DEF Raised, Failed, Succeeded, Answers, Call, Results
<1>5. QED BY <1>2, <1>3, <1>4 DEF Answers

LEMMA InitIInv == Init => IInv
<1> SUFFICES ASSUME Init PROVE IInv
  OBVIOUS
<1>1. TypeOK
  BY DEF Init, TypeOK, Nodes, Phases, Call, Results, NotCalled, Nothing
<1>2. CollectedOnce /\ RouteFollowsTargets /\ StatusesTellTheLastCall
  BY DEF Init, CollectedOnce, RouteFollowsTargets, StatusesTellTheLastCall, Joined, Calls
<1>3. BeforeTheJoin /\ CallsOfPass1 /\ CallsOfPass2
  <2>1. \A c \in Collectors, p \in {1, 2} : call[<<c, p>>].result = "none"
    BY DEF Init, NotCalled, Calls
  <2>2. QED
    BY <2>1 DEF Init, BeforeTheJoin, CallsOfPass1, CallsOfPass2, Joined, Called, Calls
<1>4. ScoresAgreeWithTargets /\ PhaseAtTheNode
  BY DEF Init, ScoresAgreeWithTargets, PhaseAtTheNode
<1>5. QED BY <1>1, <1>2, <1>3, <1>4 DEF IInv

LEMMA OrchestrateStep == IInv /\ Orchestrate => IInv'
<1> SUFFICES ASSUME IInv, Orchestrate PROVE IInv'
  OBVIOUS
<1> USE DEF Orchestrate
<1>1. TypeOK'
  BY DEF IInv, TypeOK, Nodes, Phases
<1>2. CollectedOnce'
  BY DEF IInv, CollectedOnce, Joined, Calls
<1>3. RouteFollowsTargets' /\ StatusesTellTheLastCall' /\ CallsOfPass1'
  BY DEF RouteFollowsTargets, StatusesTellTheLastCall, CallsOfPass1, Joined
<1>4. BeforeTheJoin'
  BY DEF IInv, BeforeTheJoin
<1>5. CallsOfPass2'
  BY DEF IInv, CallsOfPass2, Called, AgentsToRun
<1>6. ScoresAgreeWithTargets' /\ PhaseAtTheNode'
  BY DEF IInv, ScoresAgreeWithTargets, PhaseAtTheNode
<1>7. QED BY <1>1, <1>2, <1>3, <1>4, <1>5, <1>6 DEF IInv

\* A collector answers, with the exception that ends the graph or without.
LEMMA CollectStep ==
    ASSUME NEW c \in Collectors, IInv, Collect(c) \/ CollectRaises(c)
    PROVE  IInv'
<1>1. PICK a \in (Answers(c) \cup {Raised}) : call' = [call EXCEPT ![<<c, 1>>] = a]
  BY DEF Collect, CollectRaises
<1>2. /\ node = "collection" /\ node' \in {"collection", "raised"}
      /\ ~Called(<<c, 1>>)
      /\ UNCHANGED <<phase, appended, statuses, errors, warned, score, targets>>
  BY DEF Collect, CollectRaises
<1>3. <<c, 1>> \in Calls
  BY DEF Calls
<1>4. a \in Call /\ a.result # "none"
  BY AnswersAreCalls
<1>5. TypeOK'
  <2>1. call' \in [Calls -> Call]
    BY <1>1, <1>3, <1>4 DEF IInv, TypeOK
  <2>2. QED BY <1>2, <2>1 DEF IInv, TypeOK, Nodes
<1>6. \A k \in Calls : appended'[k] = 0
  BY <1>2 DEF IInv, BeforeTheJoin
<1>7. CollectedOnce'
  BY <1>2, <1>6 DEF CollectedOnce, Joined, Calls
<1>8. RouteFollowsTargets' /\ StatusesTellTheLastCall' /\ CallsOfPass1' /\ PhaseAtTheNode'
  BY <1>2 DEF RouteFollowsTargets, StatusesTellTheLastCall, CallsOfPass1, Joined,
              PhaseAtTheNode
<1>9. BeforeTheJoin' /\ ScoresAgreeWithTargets'
  <2>1. ASSUME node' = "collection", NEW d \in Collectors
        PROVE  call'[<<d, 1>>].result # "raised"
    <3>1. a.result # "raised"
      <4>1. Collect(c)
        BY <2>1 DEF CollectRaises
      <4>2. \E b \in Answers(c) : call' = [call EXCEPT ![<<c, 1>>] = b]
        BY <4>1 DEF Collect
      <4>3. a \in Answers(c)
        BY <1>1, <1>3, <4>2 DEF IInv, TypeOK
      <4>4. QED BY <4>3, AnswersAreCalls
    <3>2. call'[<<d, 1>>] = IF d = c THEN a ELSE call[<<d, 1>>]
      BY <1>1 DEF IInv, TypeOK, Calls
    <3>3. QED BY <1>2, <3>1, <3>2 DEF IInv, BeforeTheJoin
  <2>2. BeforeTheJoin'
    BY <1>2, <1>6, <2>1 DEF IInv, BeforeTheJoin
  <2>3. QED BY <1>2, <2>2 DEF IInv, ScoresAgreeWithTargets
<1>10. CallsOfPass2'
  <2>1. \A d \in Collectors : call'[<<d, 2>>] = call[<<d, 2>>]
    BY <1>1 DEF IInv, TypeOK, Calls
  <2>2. QED BY <1>2, <2>1 DEF IInv, CallsOfPass2, Called, AgentsToRun
<1>11. QED BY <1>5, <1>7, <1>8, <1>9, <1>10 DEF IInv

LEMMA JoinCollectionStep == IInv /\ JoinCollection => IInv'
<1> SUFFICES ASSUME IInv, JoinCollection PROVE IInv'
  OBVIOUS
<1>1. /\ node = "collection" /\ node' = "gate"
      /\ UNCHANGED <<phase, call, warned, score, targets>>
      /\ score = NoData /\ targets = {}
      /\ \A k \in Calls : appended[k] = 0
  BY DEF JoinCollection, IInv, BeforeTheJoin
<1>2. \A c \in Collectors : call[<<c, 1>>].result \in {"success", "error"}
  <2>1. \A c \in Collectors : call[<<c, 1>>].result # "none" /\ call[<<c, 1>>].result # "raised"
    BY DEF JoinCollection, Called, IInv, BeforeTheJoin
  <2>2. \A c \in Collectors : call[<<c, 1>>].result \in Results
    BY DEF IInv, TypeOK, Call, Calls
  <2>3. QED BY <2>1, <2>2 DEF Results
<1>3. \A c \in Collectors : statuses'[c] = call[<<c, 1>>].result
  BY DEF JoinCollection, MergeDicts
<1>4. \A k \in Calls :
        appended'[k] = IF k[2] = 1 /\ call[k].result = "success" THEN 1 ELSE 0
  BY <1>1 DEF JoinCollection, AppendDeltas, Successful
<1>5. TypeOK'
  <2>1. appended' \in [Calls -> Nat]
    BY DEF JoinCollection, AppendDeltas, IInv, TypeOK
  <2>2. statuses' \in [Collectors -> {"none", "success", "error"}]
    BY <1>2, <1>3 DEF JoinCollection, MergeDicts
  <2>3. QED BY <1>1, <2>1, <2>2 DEF JoinCollection, IInv, TypeOK, Nodes
<1>6. CollectedOnce'
  BY <1>1, <1>4 DEF CollectedOnce, Joined, Calls
<1>7. StatusesTellTheLastCall' /\ CallsOfPass1'
  BY <1>1, <1>2, <1>3 DEF StatusesTellTheLastCall, CallsOfPass1
<1>8. RouteFollowsTargets' /\ BeforeTheJoin' /\ ScoresAgreeWithTargets' /\ PhaseAtTheNode'
  BY <1>1 DEF RouteFollowsTargets, BeforeTheJoin, ScoresAgreeWithTargets, PhaseAtTheNode
<1>9. CallsOfPass2'
  <2>1. \A c \in Collectors : appended'[<<c, 2>>] = 0
    BY <1>4 DEF Calls
  <2>2. QED BY <1>1, <2>1 DEF IInv, CallsOfPass2, Called, AgentsToRun
<1>10. QED BY <1>5, <1>6, <1>7, <1>8, <1>9 DEF IInv

LEMMA CollectionGateStep == IInv /\ CollectionGate => IInv'
<1> SUFFICES ASSUME IInv, CollectionGate PROVE IInv'
  OBVIOUS
<1> USE DEF CollectionGate
<1>1. TypeOK'
  BY DEF IInv, TypeOK, Nodes, Phases
<1>2. CollectedOnce'
  BY DEF IInv, CollectedOnce, Joined, Calls
<1>3. StatusesTellTheLastCall' /\ CallsOfPass1'
  BY DEF IInv, StatusesTellTheLastCall, CallsOfPass1, Joined
<1>4. RouteFollowsTargets' /\ BeforeTheJoin' /\ ScoresAgreeWithTargets' /\ PhaseAtTheNode'
  BY DEF IInv, RouteFollowsTargets, BeforeTheJoin, ScoresAgreeWithTargets, PhaseAtTheNode
<1>5. CallsOfPass2'
  BY DEF IInv, CallsOfPass2, Called, AgentsToRun
<1>6. QED BY <1>1, <1>2, <1>3, <1>4, <1>5 DEF IInv

LEMMA GapAnalysisStep == IInv /\ GapAnalysis => IInv'
<1> SUFFICES ASSUME IInv, GapAnalysis PROVE IInv'
  OBVIOUS
<1>1. /\ node = "gap_analysis" /\ node' = "routing"
      /\ UNCHANGED <<call, appended, statuses, errors, warned>>
      /\ phase' = IF targets' # {} THEN "COLLECTION_PASS2" ELSE "RESOLUTION"
  BY DEF GapAnalysis
<1>2. \A k \in Categories : EntityCount(k) \in Nat /\ Expected[k] \in 0..1999
  BY EntityCountIsNat, ExpectedAssumption DEF IInv
<1>3. \A k \in Categories : TriggersPass2(score'[k]) <=> k \in targets'
  <2> TAKE k \in Categories
  <2>1. score'[k] = CoverageScore(EntityCount(k), Expected[k])
    BY DEF GapAnalysis
  <2>2. k \in targets' <=> IsThin(EntityCount(k), Expected[k])
    BY DEF GapAnalysis
  <2>3. TriggersPass2(CoverageScore(EntityCount(k), Expected[k]))
            <=> IsThin(EntityCount(k), Expected[k])
    BY <1>2, RoundingKeepsTheSide
  <2>4. QED BY <2>1, <2>2, <2>3
<1>4. score' \in [Categories -> 0..Unit]
  <2>1. \A k \in Categories : CoverageScore(EntityCount(k), Expected[k]) \in 0..Unit
    BY <1>2, ScoreIsInRange
  <2>2. QED BY <2>1 DEF GapAnalysis
<1>5. score' # NoData
  BY <1>4, ScoresAreData
<1>6. TypeOK'
  BY <1>1, <1>4 DEF GapAnalysis, IInv, TypeOK, Nodes, Phases
<1>7. CollectedOnce' /\ StatusesTellTheLastCall' /\ CallsOfPass1'
  BY <1>1 DEF IInv, CollectedOnce, StatusesTellTheLastCall, CallsOfPass1, Joined, Calls
<1>8. RouteFollowsTargets' /\ BeforeTheJoin' /\ ScoresAgreeWithTargets' /\ PhaseAtTheNode'
  BY <1>1, <1>3, <1>5 DEF RouteFollowsTargets, BeforeTheJoin, ScoresAgreeWithTargets,
                          PhaseAtTheNode
<1>9. CallsOfPass2'
  BY <1>1 DEF IInv, CallsOfPass2, Called
<1>10. QED BY <1>6, <1>7, <1>8, <1>9 DEF IInv

LEMMA GapAnalysisFailsStep == IInv /\ GapAnalysisFails => IInv'
<1> SUFFICES ASSUME IInv, GapAnalysisFails PROVE IInv'
  OBVIOUS
<1> USE DEF GapAnalysisFails
<1>1. TypeOK'
  BY DEF IInv, TypeOK, Nodes
<1>2. CollectedOnce' /\ StatusesTellTheLastCall' /\ CallsOfPass1'
  BY DEF IInv, CollectedOnce, StatusesTellTheLastCall, CallsOfPass1, Joined, Calls
<1>3. RouteFollowsTargets' /\ BeforeTheJoin' /\ ScoresAgreeWithTargets' /\ PhaseAtTheNode'
  BY DEF IInv, RouteFollowsTargets, BeforeTheJoin, ScoresAgreeWithTargets, PhaseAtTheNode
<1>4. CallsOfPass2'
  BY DEF IInv, CallsOfPass2, Called, AgentsToRun
<1>5. QED BY <1>1, <1>2, <1>3, <1>4 DEF IInv

LEMMA RouteStep == IInv /\ Route => IInv'
<1> SUFFICES ASSUME IInv, Route PROVE IInv'
  OBVIOUS
<1>1. /\ node = "routing"
      /\ UNCHANGED <<phase, call, appended, statuses, errors, warned, score, targets>>
      /\ node' = IF score # NoData /\ targets # {} THEN "pass2" ELSE "resolution"
  <2>1. targets \subseteq Categories
    BY DEF IInv, TypeOK
  <2>2. ShouldRunPass2 <=> score # NoData /\ targets # {}
    BY <2>1 DEF IInv, ScoresAgreeWithTargets, ShouldRunPass2
  <2>3. QED BY <2>2 DEF Route
<1>2. TypeOK'
  BY <1>1 DEF IInv, TypeOK, Nodes
<1>3. \A c \in Collectors : ~Called(<<c, 2>>) /\ (~Called(<<c, 2>>))'
  BY <1>1 DEF IInv, CallsOfPass2, Called
<1>4. CollectedOnce'
  BY <1>1, <1>3 DEF IInv, CollectedOnce, Joined, Calls, Called
<1>5. StatusesTellTheLastCall' /\ CallsOfPass1'
  BY <1>1, <1>3 DEF IInv, StatusesTellTheLastCall, CallsOfPass1, Joined
<1>6. RouteFollowsTargets' /\ BeforeTheJoin' /\ ScoresAgreeWithTargets' /\ PhaseAtTheNode'
  BY <1>1 DEF IInv, RouteFollowsTargets, BeforeTheJoin, ScoresAgreeWithTargets,
              PhaseAtTheNode
<1>7. CallsOfPass2'
  BY <1>1, <1>3 DEF IInv, CallsOfPass2
<1>8. QED BY <1>2, <1>4, <1>5, <1>6, <1>7 DEF IInv

LEMMA SkipPass2Step == IInv /\ SkipPass2 => IInv'
<1> SUFFICES ASSUME IInv, SkipPass2 PROVE IInv'
  OBVIOUS
<1> USE DEF SkipPass2
<1>1. \A c \in Collectors : ~Called(<<c, 2>>) /\ (~Called(<<c, 2>>))'
  BY DEF IInv, CallsOfPass2, Called
<1>2. TypeOK'
  BY DEF IInv, TypeOK, Nodes, Phases
<1>3. CollectedOnce'
  BY <1>1 DEF IInv, CollectedOnce, Joined, Calls, Called
<1>4. StatusesTellTheLastCall' /\ CallsOfPass1'
  BY <1>1 DEF IInv, StatusesTellTheLastCall, CallsOfPass1, Joined
<1>5. RouteFollowsTargets' /\ BeforeTheJoin' /\ ScoresAgreeWithTargets' /\ PhaseAtTheNode'
  BY DEF IInv, RouteFollowsTargets, BeforeTheJoin, ScoresAgreeWithTargets, PhaseAtTheNode
<1>6. CallsOfPass2'
  BY <1>1 DEF CallsOfPass2
<1>7. QED BY <1>2, <1>3, <1>4, <1>5, <1>6 DEF IInv

LEMMA RetryStep ==
    ASSUME NEW c \in Collectors, IInv, Retry(c)
    PROVE  IInv'
<1>1. PICK a \in (Answers(c) \cup {Raised}) : call' = [call EXCEPT ![<<c, 2>>] = a]
  BY DEF Retry
<1>2. /\ node = "pass2" /\ c \in AgentsToRun /\ ~Called(<<c, 2>>)
      /\ UNCHANGED <<node, phase, appended, statuses, errors, warned, score, targets>>
  BY DEF Retry
<1>3. a \in Call /\ a.result # "none"
  BY AnswersAreCalls
<1>4. TypeOK'
  <2>1. call' \in [Calls -> Call]
    BY <1>1, <1>3 DEF IInv, TypeOK, Calls
  <2>2. QED BY <1>2, <2>1 DEF IInv, TypeOK
<1>5. \A d \in Collectors : /\ call'[<<d, 1>>] = call[<<d, 1>>]
                            /\ d # c => call'[<<d, 2>>] = call[<<d, 2>>]
  BY <1>1 DEF IInv, TypeOK, Calls
<1>6. \A d \in Collectors : appended'[<<d, 2>>] = 0
  BY <1>2 DEF IInv, CallsOfPass2
<1>7. CollectedOnce'
  <2> SUFFICES ASSUME NEW d \in Collectors, NEW p \in {1, 2}
               PROVE  /\ appended'[<<d, p>>] <= 1
                      /\ appended'[<<d, p>>] = 1 => call'[<<d, p>>].result = "success"
                      /\ Joined(p)' /\ call'[<<d, p>>].result = "success"
                             => appended'[<<d, p>>] = 1
    BY DEF CollectedOnce, Joined
  <2>1. CASE p = 1
    BY <1>2, <1>5, <2>1 DEF IInv, CollectedOnce, Joined, Calls
  <2>2. CASE p = 2
    BY <1>2, <1>6, <2>2 DEF Joined
  <2>3. QED BY <2>1, <2>2
<1>8. StatusesTellTheLastCall' /\ CallsOfPass1'
  BY <1>2, <1>5 DEF IInv, StatusesTellTheLastCall, CallsOfPass1, Joined
<1>9. RouteFollowsTargets' /\ BeforeTheJoin' /\ ScoresAgreeWithTargets' /\ PhaseAtTheNode'
  BY <1>2 DEF IInv, RouteFollowsTargets, BeforeTheJoin, ScoresAgreeWithTargets,
              PhaseAtTheNode
<1>10. CallsOfPass2'
  BY <1>2, <1>5, <1>6 DEF IInv, CallsOfPass2, Called, AgentsToRun
<1>11. QED BY <1>4, <1>7, <1>8, <1>9, <1>10 DEF IInv

LEMMA JoinPass2Step == IInv /\ JoinPass2 => IInv'
<1> SUFFICES ASSUME IInv, JoinPass2 PROVE IInv'
  OBVIOUS
<1>1. /\ node = "pass2" /\ node' = "resolution" /\ phase' = "RESOLUTION"
      /\ UNCHANGED <<call, errors, warned, score, targets>>
      /\ \A c \in AgentsToRun : Called(<<c, 2>>)
  BY DEF JoinPass2
<1>2. \A c \in Collectors : Called(<<c, 2>>) <=> c \in AgentsToRun
  BY <1>1 DEF IInv, CallsOfPass2
<1>3. \A c \in Collectors :
        statuses'[c] = IF c \in AgentsToRun THEN StatusOf(c) ELSE statuses[c]
  BY DEF JoinPass2, MergeDicts
<1>4. \A c \in Collectors :
        /\ appended'[<<c, 1>>] = appended[<<c, 1>>]
        /\ appended'[<<c, 2>>] = IF call[<<c, 2>>].result = "success" THEN 1 ELSE 0
  <2> TAKE c \in Collectors
  <2>1. <<c, 1>> \in Calls /\ <<c, 2>> \in Calls
    BY DEF Calls
  <2>2. appended[<<c, 2>>] = 0
    BY <1>1 DEF IInv, CallsOfPass2
  <2>3. /\ <<c, 1>> \notin Successful(2)
        /\ <<c, 2>> \in Successful(2) <=> call[<<c, 2>>].result = "success"
    BY <2>1 DEF Successful
  <2>4. QED BY <2>1, <2>2, <2>3 DEF JoinPass2, AppendDeltas
<1>5. TypeOK'
  <2>1. appended' \in [Calls -> Nat]
    BY DEF JoinPass2, AppendDeltas, IInv, TypeOK
  <2>2. \A c \in AgentsToRun : c \in Collectors =>
            StatusOf(c) \in {"none", "success", "error"}
    BY DEF StatusOf, IInv, TypeOK, Call, Results, Calls
  <2>3. statuses' \in [Collectors -> {"none", "success", "error"}]
    BY <1>3, <2>2 DEF JoinPass2, MergeDicts, IInv, TypeOK
  <2>4. QED BY <1>1, <2>1, <2>3 DEF IInv, TypeOK, Nodes, Phases
<1>6. CollectedOnce'
  <2> SUFFICES ASSUME NEW d \in Collectors, NEW p \in {1, 2}
               PROVE  /\ appended'[<<d, p>>] <= 1
                      /\ appended'[<<d, p>>] = 1 => call'[<<d, p>>].result = "success"
                      /\ Joined(p)' /\ call'[<<d, p>>].result = "success"
                             => appended'[<<d, p>>] = 1
    BY DEF CollectedOnce, Joined
  <2>1. CASE p = 1
    BY <1>1, <1>4, <2>1 DEF IInv, CollectedOnce, Joined, Calls
  <2>2. CASE p = 2
    <3>1. appended'[<<d, 2>>] = IF call'[<<d, 2>>].result = "success" THEN 1 ELSE 0
      BY <1>1, <1>4
    <3>2. QED BY <2>2, <3>1
  <2>3. QED BY <2>1, <2>2
<1>7. StatusesTellTheLastCall' /\ CallsOfPass1'
  BY <1>1, <1>2, <1>3
     DEF IInv, StatusesTellTheLastCall, CallsOfPass1, Joined, Called, StatusOf
<1>8. RouteFollowsTargets' /\ BeforeTheJoin' /\ ScoresAgreeWithTargets' /\ PhaseAtTheNode'
  BY <1>1 DEF IInv, RouteFollowsTargets, BeforeTheJoin, ScoresAgreeWithTargets,
              PhaseAtTheNode
<1>9. CallsOfPass2'
  BY <1>1, <1>2 DEF CallsOfPass2, Called, AgentsToRun
<1>10. QED BY <1>5, <1>6, <1>7, <1>8, <1>9 DEF IInv

LEMMA NodeRaisesStep == IInv /\ NodeRaises => IInv'
<1> SUFFICES ASSUME IInv, NodeRaises PROVE IInv'
  OBVIOUS
<1> USE DEF NodeRaises
<1>1. TypeOK'
  BY DEF IInv, TypeOK, Nodes
<1>2. CollectedOnce'
  BY DEF IInv, CollectedOnce, Joined, Calls
<1>3. StatusesTellTheLastCall' /\ CallsOfPass1' /\ RouteFollowsTargets'
  BY DEF StatusesTellTheLastCall, CallsOfPass1, Joined, RouteFollowsTargets
<1>4. BeforeTheJoin' /\ ScoresAgreeWithTargets' /\ PhaseAtTheNode'
  BY DEF IInv, BeforeTheJoin, ScoresAgreeWithTargets, PhaseAtTheNode
<1>5. CallsOfPass2'
  BY DEF IInv, CallsOfPass2, Called, AgentsToRun
<1>6. QED BY <1>1, <1>2, <1>3, <1>4, <1>5 DEF IInv

LEMMA StutterStep == IInv /\ UNCHANGED vars => IInv'
<1> SUFFICES ASSUME IInv, UNCHANGED vars PROVE IInv'
  OBVIOUS
<1> USE DEF vars
<1>1. TypeOK' /\ RouteFollowsTargets' /\ BeforeTheJoin'
  BY DEF IInv, TypeOK, RouteFollowsTargets, BeforeTheJoin
<1>2. CollectedOnce' /\ StatusesTellTheLastCall' /\ CallsOfPass1'
  BY DEF IInv, CollectedOnce, StatusesTellTheLastCall, CallsOfPass1, Joined, Called, StatusOf
<1>3. CallsOfPass2' /\ ScoresAgreeWithTargets' /\ PhaseAtTheNode'
  BY DEF IInv, CallsOfPass2, ScoresAgreeWithTargets, PhaseAtTheNode, Called, AgentsToRun
<1>4. QED BY <1>1, <1>2, <1>3 DEF IInv

LEMMA Invariance == Spec => []IInv
<1>1. ASSUME IInv, Next PROVE IInv'
  <2>1. CASE Step
    BY <1>1, <2>1, OrchestrateStep, CollectStep, JoinCollectionStep, CollectionGateStep,
       GapAnalysisStep, GapAnalysisFailsStep, RouteStep, SkipPass2Step, RetryStep,
       JoinPass2Step, NodeRaisesStep DEF Step
  <2>2. CASE Ended
    BY <1>1, <2>2, StutterStep DEF Ended
  <2>3. QED BY <1>1, <2>1, <2>2 DEF Next
<1>2. QED BY InitIInv, <1>1, StutterStep, PTL DEF Spec

\* Every variable of the collection half of the graph keeps its type.
THEOREM TypeCorrect == Spec => []TypeOK
<1>1. IInv => TypeOK
  BY DEF IInv
<1>2. QED BY Invariance, <1>1, PTL

\* raw_entities holds the delta of every successful call exactly once, for any
\* number of agents and whatever they report (state.py's operator.add reducer,
\* graph.py:121-126).
THEOREM NothingCollectedTwice == Spec => []CollectedOnce
<1>1. IInv => CollectedOnce
  BY DEF IInv
<1>2. QED BY Invariance, <1>1, PTL

\* should_run_pass2 and the gap analysis never disagree about pass 2.
THEOREM RouteIsRight == Spec => []RouteFollowsTargets
<1>1. IInv => RouteFollowsTargets
  BY DEF IInv
<1>2. QED BY Invariance, <1>1, PTL

\* agent_statuses and the gate's warnings report the calls as they ended.
THEOREM StatusesAreRight == Spec => []StatusesTellTheLastCall
<1>1. IInv => StatusesTellTheLastCall
  BY DEF IInv
<1>2. QED BY Invariance, <1>1, PTL

-----------------------------------------------------------------------------
(* The second pass: the fold over the agents and the length of raw_entities *)
(* count the same entities.                                                 *)

\* The entities that the agents in S reported of category k in pass 1.
Reports(S, k) == UNION {{c} \X (1..Reported(c, k)) : c \in S}

LEMMA ReportedIsNat ==
    ASSUME TypeOK, NEW c \in Collectors, NEW k \in Categories
    PROVE  Reported(c, k) \in Nat
<1>1. call[<<c, 1>>] \in Call
  BY DEF TypeOK, Calls
<1> QED
  BY <1>1 DEF Reported, Call

\* One more agent adds what it reported.
LEMMA OneMoreReport ==
    ASSUME TypeOK, NEW k \in Categories,
           NEW S \in SUBSET Collectors, NEW c \in Collectors, c \notin S,
           IsFiniteSet(Reports(S, k))
    PROVE  /\ IsFiniteSet(Reports(S \cup {c}, k))
           /\ Cardinality(Reports(S \cup {c}, k)) = Reported(c, k) + Cardinality(Reports(S, k))
<1> DEFINE own == {c} \X (1..Reported(c, k))
<1>1. Reported(c, k) \in Nat
  BY ReportedIsNat
<1>2. IsFiniteSet(own) /\ Cardinality(own) = Reported(c, k)
  <2>1. IsFiniteSet(1..Reported(c, k)) /\ Cardinality(1..Reported(c, k)) = Reported(c, k)
    BY <1>1, FS_Interval
  <2>2. IsFiniteSet({c}) /\ Cardinality({c}) = 1
    BY FS_Singleton
  <2>3. IsFiniteSet(own) /\ Cardinality(own) = 1 * Reported(c, k)
    BY <2>1, <2>2, FS_Product
  <2> QED
    BY <1>1, <2>3
<1>3. Reports(S \cup {c}, k) = Reports(S, k) \cup own
  BY DEF Reports
<1>4. Reports(S, k) \cap own = {}
  BY DEF Reports
<1> HIDE DEF own
<1>5. Cardinality(Reports(S, k)) \in Nat
  BY FS_CardinalityType
<1>6. IsFiniteSet(Reports(S, k) \cup own)
      /\ Cardinality(Reports(S, k) \cup own)
         = Cardinality(Reports(S, k)) + Cardinality(own) - Cardinality(Reports(S, k) \cap own)
  BY <1>2, FS_Union
<1>7. Cardinality({}) = 0
  BY FS_EmptySet
<1>8. Cardinality(Reports(S, k) \cup own) = Cardinality(Reports(S, k)) + Reported(c, k)
  <2>1. Cardinality(Reports(S, k) \cap own) = 0
    BY <1>4, <1>7
  <2> QED
    BY <1>1, <1>2, <1>5, <1>6, <2>1
<1>9. IsFiniteSet(Reports(S \cup {c}, k))
  BY <1>3, <1>6
<1>10. Cardinality(Reports(S \cup {c}, k)) = Reported(c, k) + Cardinality(Reports(S, k))
  <2>1. Cardinality(Reports(S \cup {c}, k)) = Cardinality(Reports(S, k) \cup own)
    BY <1>3
  <2> DEFINE n == Cardinality(Reports(S, k))
  <2>2. n + Reported(c, k) = Reported(c, k) + n
    <3> HIDE DEF n
    <3>1. n \in Nat
      BY <1>5 DEF n
    <3> QED
      BY <1>1, <3>1
  <2> QED
    BY <1>8, <2>1, <2>2
<1> QED
  BY <1>9, <1>10

\* What a smallest counterexample proves of all sets of agents.
LEMMA AgentsInduction ==
    ASSUME NEW Good \in SUBSET SUBSET Collectors,
           \A S \in SUBSET Collectors : (\A c \in S : S \ {c} \in Good) => S \in Good
    PROVE  \A S \in SUBSET Collectors : S \in Good
<1> SUFFICES ASSUME (SUBSET Collectors) \ Good # {} PROVE FALSE
  OBVIOUS
<1> DEFINE R == StrictSubsetOrdering(Collectors)
           Bad == (SUBSET Collectors) \ Good
<1>1. FiniteSubsetsOf(Collectors) = SUBSET Collectors
  BY AgentsAssumption, FS_Subset DEF FiniteSubsetsOf
<1>2. IsWellFoundedOn(R, SUBSET Collectors)
  <2>1. IsWellFoundedOn(R, FiniteSubsetsOf(Collectors))
    BY FS_StrictSubsetOrderingWellFounded
  <2> QED
    BY <1>1, <2>1
<1>3. PICK S \in Bad : \A T \in Bad : ~(<<T, S>> \in R)
  <2> HIDE DEF R
  <2> QED
    BY <1>2, WFMin
<1>4. PICK c \in S : S \ {c} \notin Good
  BY <1>3
<1>5. S \ {c} \in Bad /\ <<S \ {c}, S>> \in R
  BY <1>3, <1>4 DEF StrictSubsetOrdering
<1> QED
  BY <1>3, <1>5

\* Finitely many agents reported finitely many entities.
LEMMA ReportsAreFinite ==
    ASSUME TypeOK, NEW k \in Categories
    PROVE  \A S \in SUBSET Collectors : IsFiniteSet(Reports(S, k))
<1> DEFINE Good == {S \in SUBSET Collectors : IsFiniteSet(Reports(S, k))}
<1>1. ASSUME NEW S \in SUBSET Collectors, \A c \in S : S \ {c} \in Good
      PROVE  S \in Good
  <2>1. CASE S = {}
    <3>1. Reports(S, k) = {}
      BY <2>1 DEF Reports
    <3> QED
      BY <3>1, FS_EmptySet
  <2>2. CASE S # {}
    <3>1. PICK c \in S : TRUE
      BY <2>2
    <3>2. IsFiniteSet(Reports(S \ {c}, k)) /\ (S \ {c}) \cup {c} = S
      BY <1>1, <3>1
    <3>3. IsFiniteSet(Reports((S \ {c}) \cup {c}, k))
      BY <3>1, <3>2, OneMoreReport
    <3> QED
      BY <3>2, <3>3
  <2> QED
    BY <2>1, <2>2
<1> QED
  BY <1>1, AgentsInduction

\* The fold of the property counts the reports, whichever agent it takes
\* first.
LEMMA FoldCounts ==
    ASSUME TypeOK, NEW k \in Categories
    PROVE  MapThenSumSet(LAMBDA c : Reported(c, k), Collectors)
               = Cardinality(Reports(Collectors, k))
<1> DEFINE first(S) == CHOOSE c \in S : TRUE
           Sums(f) == f = [S \in SUBSET Collectors |->
                              IF S = {} THEN 0 ELSE Reported(first(S), k) + f[S \ {first(S)}]]
           size == [S \in SUBSET Collectors |-> Cardinality(Reports(S, k))]
           sum == CHOOSE f : Sums(f)
<1>1. ASSUME NEW S \in SUBSET Collectors, S # {}
      PROVE  /\ first(S) \in S /\ S \ {first(S)} \in SUBSET Collectors
             /\ Cardinality(Reports(S, k))
                  = Reported(first(S), k) + Cardinality(Reports(S \ {first(S)}, k))
  <2> DEFINE c == first(S)
  <2>1. c \in S
    BY <1>1
  <2> HIDE DEF c
  <2>2. S = (S \ {c}) \cup {c} /\ S \ {c} \in SUBSET Collectors /\ c \in Collectors
    BY <2>1
  <2>3. IsFiniteSet(Reports(S \ {c}, k))
    BY <2>2, ReportsAreFinite
  <2>4. Cardinality(Reports((S \ {c}) \cup {c}, k))
           = Reported(c, k) + Cardinality(Reports(S \ {c}, k))
    BY <2>2, <2>3, OneMoreReport
  <2> QED
    BY <2>1, <2>2, <2>4 DEF c
<1>2. Cardinality(Reports({}, k)) = 0
  <2>1. Reports({}, k) = {}
    BY DEF Reports
  <2> QED
    BY <2>1, FS_EmptySet
<1> HIDE DEF first
<1>3. Sums(size)
  BY <1>1, <1>2
<1>4. Sums(sum)
  BY <1>3
<1>5. \A S \in SUBSET Collectors : sum[S] = size[S]
  <2> DEFINE Good == {S \in SUBSET Collectors : sum[S] = size[S]}
  <2> HIDE DEF sum
  <2>1. ASSUME NEW S \in SUBSET Collectors, \A c \in S : S \ {c} \in Good
        PROVE  S \in Good
    <3>1. CASE S = {}
      BY <1>2, <1>4, <3>1
    <3>2. CASE S # {}
      <4>1. S \ {first(S)} \in Good
        BY <1>1, <2>1, <3>2
      <4>2. sum[S] = Reported(first(S), k) + sum[S \ {first(S)}]
        BY <1>4, <3>2
      <4> QED
        BY <1>1, <3>2, <4>1, <4>2
    <3> QED
      BY <3>1, <3>2
  <2> QED
    BY <2>1, AgentsInduction
<1>6. MapThenSumSet(LAMBDA c : Reported(c, k), Collectors) = sum[Collectors]
  BY DEF MapThenSumSet, MapThenFoldSet, first
<1> QED
  BY <1>5, <1>6

\* At the gap analysis the list holds exactly what pass 1 reported.
LEMMA EntitiesAreReports ==
    ASSUME IInv, node = "gap_analysis", NEW k \in Categories
    PROVE  EntityCount(k) = Cardinality(Reports(Collectors, k))
<1> DEFINE f == [r \in Reports(Collectors, k) |-> << <<r[1], 1>>, r[2] >>]
<1>1. ASSUME NEW c \in Collectors
      PROVE  /\ appended[<<c, 1>>] * call[<<c, 1>>].found[k] = Reported(c, k)
             /\ appended[<<c, 2>>] * call[<<c, 2>>].found[k] = 0
  <2>1. call[<<c, 1>>].found[k] \in Nat /\ call[<<c, 2>>].found[k] \in Nat
    BY DEF IInv, TypeOK, Calls, Call
  <2>2. appended[<<c, 2>>] = 0
    BY DEF IInv, CallsOfPass2
  <2>3. appended[<<c, 1>>] = IF call[<<c, 1>>].result = "success" THEN 1 ELSE 0
    <3>1. appended[<<c, 1>>] \in Nat
      BY DEF IInv, TypeOK, Calls
    <3>2. Joined(1)
      BY DEF Joined
    <3>3. /\ appended[<<c, 1>>] <= 1
          /\ appended[<<c, 1>>] = 1 <=> call[<<c, 1>>].result = "success"
      BY <3>2 DEF IInv, CollectedOnce
    <3> QED
      BY <3>1, <3>3
  <2>4. CASE call[<<c, 1>>].result = "success"
    <3>1. appended[<<c, 1>>] = 1 /\ Reported(c, k) = call[<<c, 1>>].found[k]
      BY <2>3, <2>4 DEF Reported
    <3> QED
      BY <2>1, <2>2, <3>1
  <2>5. CASE call[<<c, 1>>].result # "success"
    <3>1. appended[<<c, 1>>] = 0 /\ Reported(c, k) = 0
      BY <2>3, <2>5 DEF Reported
    <3> QED
      BY <2>1, <2>2, <3>1
  <2> QED
    BY <2>4, <2>5
<1>2. \A e : e \in RawEntities(k) <=>
              \E c \in Collectors : \E i \in 1..Reported(c, k) : e = << <<c, 1>>, i >>
  <2>1. \A e : e \in RawEntities(k) <=>
               \E d \in Calls : \E i \in 1..(appended[d] * call[d].found[k]) : e = <<d, i>>
    BY DEF RawEntities
  <2>2. \A d : d \in Calls <=> \E c \in Collectors : d = <<c, 1>> \/ d = <<c, 2>>
    BY DEF Calls
  <2>3. \A c \in Collectors : 1..(appended[<<c, 1>>] * call[<<c, 1>>].found[k]) = 1..Reported(c, k)
    BY <1>1
  <2>4. \A c \in Collectors : 1..(appended[<<c, 2>>] * call[<<c, 2>>].found[k]) = {}
    <3>1. 1..0 = {}
      OBVIOUS
    <3> QED
      BY <1>1, <3>1
  <2> SUFFICES ASSUME NEW e
               PROVE  e \in RawEntities(k) <=>
                         \E c \in Collectors : \E i \in 1..Reported(c, k) : e = << <<c, 1>>, i >>
    OBVIOUS
  <2>5. ASSUME NEW c \in Collectors, NEW i \in 1..Reported(c, k), e = << <<c, 1>>, i >>
        PROVE  e \in RawEntities(k)
    BY <2>1, <2>2, <2>3, <2>5
  <2>6. ASSUME e \in RawEntities(k)
        PROVE  \E c \in Collectors : \E i \in 1..Reported(c, k) : e = << <<c, 1>>, i >>
    <3>1. PICK d \in Calls : \E i \in 1..(appended[d] * call[d].found[k]) : e = <<d, i>>
      BY <2>1, <2>6
    <3>2. PICK c \in Collectors : d = <<c, 1>> \/ d = <<c, 2>>
      BY <2>2
    <3> QED
      BY <2>3, <2>4, <3>1, <3>2
  <2> QED
    BY <2>5, <2>6
<1>3. \A r : r \in Reports(Collectors, k) <=>
             \E c \in Collectors : \E i \in 1..Reported(c, k) : r = <<c, i>>
  BY DEF Reports
<1>4. f \in Bijection(Reports(Collectors, k), RawEntities(k))
  <2>1. \A r \in Reports(Collectors, k) : f[r] \in RawEntities(k)
    BY <1>2, <1>3
  <2>2. \A r, s \in Reports(Collectors, k) : f[r] = f[s] => r = s
    BY <1>3
  <2>3. \A e \in RawEntities(k) : \E r \in Reports(Collectors, k) : f[r] = e
    <3> SUFFICES ASSUME NEW e \in RawEntities(k)
                 PROVE  \E r \in Reports(Collectors, k) : f[r] = e
      OBVIOUS
    <3>1. PICK c \in Collectors : \E i \in 1..Reported(c, k) : e = << <<c, 1>>, i >>
      BY <1>2
    <3>9. PICK i \in 1..Reported(c, k) : e = << <<c, 1>>, i >>
      BY <3>1
    <3>2. <<c, i>> \in Reports(Collectors, k)
      BY <1>3
    <3>3. f[<<c, i>>] = e
      BY <3>9, <3>2
    <3> QED
      BY <3>2, <3>3
  <2> QED
    <3>1. f \in [Reports(Collectors, k) -> RawEntities(k)]
      BY <2>1
    <3> HIDE DEF f
    <3> QED
      BY <2>2, <2>3, <3>1 DEF Bijection, Injection, IsInjective, Surjection
<1>5. IsFiniteSet(Reports(Collectors, k))
  BY ReportsAreFinite DEF IInv
<1> HIDE DEF f
<1> QED
  BY <1>4, <1>5, FS_Bijection DEF EntityCount, ExistsBijection

\* The targets of a gap analysis that did not fail are the short categories,
\* whatever pass 2 has found since.
TargetsAreShort == score # NoData => targets = {k \in Categories : Short(k)}

\* Nobody is forgotten when the resolution begins.
AllAreRetried == node = "resolution" => \A c \in AgentsToRun : Called(<<c, 2>>)

\* What pass 1 reported makes a category short, now and in the next state.
LEMMA ShortIsACount ==
    TypeOK => \A k \in Categories :
                  Short(k) <=> IsThin(Cardinality(Reports(Collectors, k)), Expected[k])
BY FoldCounts DEF Short, IsThin

LEMMA ShortIsACountNext ==
    TypeOK' => \A k \in Categories :
                   Short(k)' <=> IsThin(Cardinality(Reports(Collectors, k)'), Expected[k])
<1>1. (TypeOK => \A k \in Categories :
                     Short(k) <=> IsThin(Cardinality(Reports(Collectors, k)), Expected[k]))'
  BY ShortIsACount, PTL
<1> QED
  BY <1>1 DEF IsThin

\* As long as pass 1 stays as it ended, the same categories are short.
LEMMA ShortStays ==
    ASSUME TypeOK, TypeOK', \A c \in Collectors : call'[<<c, 1>>] = call[<<c, 1>>]
    PROVE  \A k \in Categories : Short(k)' <=> Short(k)
<1> TAKE k \in Categories
<1>1. \A c \in Collectors : Reported(c, k)' = Reported(c, k)
  BY DEF Reported
<1>2. Reports(Collectors, k)' = Reports(Collectors, k)
  BY <1>1 DEF Reports
<1> QED
  BY <1>2, ShortIsACount, ShortIsACountNext

\* The gap analysis finds the short categories.
LEMMA GapAnalysisTargets ==
    IInv /\ TypeOK' /\ GapAnalysis => TargetsAreShort' /\ AllAreRetried'
<1> SUFFICES ASSUME IInv, TypeOK', GapAnalysis PROVE TargetsAreShort' /\ AllAreRetried'
  OBVIOUS
<1>1. \A k \in Categories : IsThin(EntityCount(k), Expected[k]) <=> Short(k)
  BY EntitiesAreReports, ShortIsACount DEF GapAnalysis, IInv
<1>2. \A k \in Categories : Short(k)' <=> Short(k)
  BY ShortStays DEF GapAnalysis, IInv
<1>3. targets' = {k \in Categories : IsThin(EntityCount(k), Expected[k])}
  BY DEF GapAnalysis
<1>4. targets' = {k \in Categories : Short(k)'}
  BY <1>1, <1>2, <1>3
<1> QED
  BY <1>4 DEF GapAnalysis, TargetsAreShort, AllAreRetried

\* No other step changes the targets or, once there are scores, a call of
\* pass 1.
LEMMA TargetsStayShort ==
    ASSUME TypeOK, TypeOK', TargetsAreShort, UNCHANGED <<score, targets>>,
           score # NoData => \A c \in Collectors : call'[<<c, 1>>] = call[<<c, 1>>]
    PROVE  TargetsAreShort'
BY ShortStays DEF TargetsAreShort

LEMMA SecondPassStep ==
    IInv /\ IInv' /\ TargetsAreShort /\ AllAreRetried /\ [Next]_vars
        => TargetsAreShort' /\ AllAreRetried'
<1> SUFFICES ASSUME IInv, IInv', TargetsAreShort, AllAreRetried, [Next]_vars
             PROVE  TargetsAreShort' /\ AllAreRetried'
  OBVIOUS
<1>1. TypeOK /\ TypeOK'
  BY DEF IInv
<1>2. CASE GapAnalysis
  BY <1>1, <1>2, GapAnalysisTargets
<1>3. CASE Orchestrate \/ JoinCollection \/ CollectionGate \/ GapAnalysisFails \/ NodeRaises
  <2>1. /\ UNCHANGED <<call, score, targets>> /\ node' # "resolution"
    BY <1>3 DEF Orchestrate, JoinCollection, CollectionGate, GapAnalysisFails, NodeRaises
  <2>2. TargetsAreShort'
    BY <1>1, <2>1, TargetsStayShort
  <2> QED
    BY <2>1, <2>2 DEF AllAreRetried
<1>4. ASSUME NEW c \in Collectors, Collect(c) \/ CollectRaises(c)
      PROVE  TargetsAreShort' /\ AllAreRetried'
  <2>1. score' = NoData /\ node' # "resolution"
    BY <1>4 DEF Collect, CollectRaises, IInv, BeforeTheJoin
  <2> QED
    BY <2>1 DEF TargetsAreShort, AllAreRetried
<1>5. CASE Route
  <2>1. UNCHANGED <<call, score, targets>>
    BY <1>5 DEF Route
  <2>2. TargetsAreShort'
    BY <1>1, <2>1, TargetsStayShort
  <2>3. ASSUME node' = "resolution" PROVE targets' = {}
    <3>1. ~ShouldRunPass2
      BY <1>5, <2>3 DEF Route
    <3> QED
      BY <1>1, <2>1, <3>1 DEF ShouldRunPass2, IInv, ScoresAgreeWithTargets, TypeOK
  <2>4. AllAreRetried'
    BY <2>3 DEF AllAreRetried, AgentsToRun
  <2> QED
    BY <2>2, <2>4
<1>6. CASE SkipPass2 \/ JoinPass2
  <2>1. UNCHANGED <<call, score, targets>>
    BY <1>6 DEF SkipPass2, JoinPass2
  <2>2. TargetsAreShort'
    BY <1>1, <2>1, TargetsStayShort
  <2>3. \A c \in AgentsToRun : Called(<<c, 2>>)
    BY <1>6 DEF SkipPass2, JoinPass2
  <2>4. AllAreRetried'
    BY <2>1, <2>3 DEF AllAreRetried, AgentsToRun, Called
  <2> QED
    BY <2>2, <2>4
<1>7. ASSUME NEW c \in Collectors, Retry(c)
      PROVE  TargetsAreShort' /\ AllAreRetried'
  <2>1. \A d \in Collectors : call'[<<d, 1>>] = call[<<d, 1>>]
    BY <1>1, <1>7 DEF Retry, TypeOK, Calls
  <2>2. UNCHANGED <<score, targets>> /\ node' # "resolution"
    BY <1>7 DEF Retry
  <2>3. TargetsAreShort'
    BY <1>1, <2>1, <2>2, TargetsStayShort
  <2> QED
    BY <2>2, <2>3 DEF AllAreRetried
<1>8. CASE UNCHANGED vars
  <2>1. UNCHANGED <<node, call, score, targets>>
    BY <1>8 DEF vars
  <2>2. TargetsAreShort'
    BY <1>1, <2>1, TargetsStayShort
  <2> QED
    BY <2>1, <2>2 DEF AllAreRetried, AgentsToRun, Called
<1> QED
  BY <1>2, <1>3, <1>4, <1>5, <1>6, <1>7, <1>8 DEF Next, Step, Ended

\* Pass 2 repeats exactly the agents of the categories that pass 1 left short,
\* for any number of agents and categories, whatever they report
\* (gap_analysis.py's counts, the dispatcher of pass2_dispatcher.py).
THEOREM SecondPassIsDue == Spec => []SecondPassIsForTheThin
<1>1. Init => TargetsAreShort /\ AllAreRetried
  BY DEF Init, TargetsAreShort, AllAreRetried
<1>2. IInv /\ TargetsAreShort /\ AllAreRetried => SecondPassIsForTheThin
  <2> SUFFICES ASSUME IInv, TargetsAreShort, AllAreRetried PROVE SecondPassIsForTheThin
    OBVIOUS
  <2>1. CASE score = NoData
    <3>1. AgentsToRun = {}
      BY <2>1 DEF IInv, ScoresAgreeWithTargets, AgentsToRun
    <3> QED
      BY <2>1, <3>1 DEF SecondPassIsForTheThin, IInv, CallsOfPass2
  <2>2. CASE score # NoData
    <3>1. AgentsToRun = {AgentOf[k] : k \in {j \in Categories : Short(j)}} \cap Registered
      BY <2>2 DEF TargetsAreShort, AgentsToRun
    <3> QED
      BY <3>1 DEF SecondPassIsForTheThin, IInv, CallsOfPass2, AllAreRetried
  <2> QED
    BY <2>1, <2>2
<1> QED
  BY Invariance, SecondPassStep, <1>1, <1>2, PTL DEF Spec

-----------------------------------------------------------------------------
(* The way to the resolution: every step leaves less to do.                 *)

\* How many nodes are still to come.
Distance ==
    [orchestrator |-> 7, collection |-> 6, gate |-> 5, gap_analysis |-> 4,
     routing |-> 3, pass2 |-> 2, resolution |-> 0, raised |-> 0]

Uncalled == {k \in Calls : ~Called(k)}

Left == Distance[node] + Cardinality(Uncalled)

LEMMA CallsAreFinite == IsFiniteSet(Calls) /\ Cardinality(Calls) \in Nat
<1>1. IsFiniteSet({1, 2})
  <2>1. IsFiniteSet({1} \cup {2})
    BY FS_Singleton, FS_AddElement
  <2>2. {1, 2} = {1} \cup {2}
    OBVIOUS
  <2> QED
    BY <2>1, <2>2
<1> QED
  BY <1>1, AgentsAssumption, FS_Product, FS_CardinalityType DEF Calls

LEMMA UncalledIsFinite ==
    /\ IsFiniteSet(Uncalled) /\ Cardinality(Uncalled) \in 0..Cardinality(Calls)
<1>1. Uncalled \in SUBSET Calls
  BY DEF Uncalled
<1> QED
  BY <1>1, CallsAreFinite, FS_Subset, FS_CardinalityType

LEMMA DistanceIsNat == \A n \in Nodes : Distance[n] \in 0..7
BY DEF Nodes, Distance

\* A step between nodes that calls nobody.
LEMMA NodeStepIsNearer ==
    ASSUME TypeOK, TypeOK', call' = call, Distance[node'] < Distance[node]
    PROVE  Left' < Left
<1>1. Uncalled' = Uncalled
  BY DEF Uncalled, Called
<1>2. Distance[node] \in Nat /\ Distance[node'] \in Nat /\ Cardinality(Uncalled) \in Nat
  BY DistanceIsNat, UncalledIsFinite DEF TypeOK
<1> QED
  BY <1>1, <1>2 DEF Left

\* One more call.
LEMMA CallIsNearer ==
    ASSUME TypeOK, TypeOK', NEW k \in Calls, ~Called(k), NEW a, a.result # "none",
           call' = [call EXCEPT ![k] = a], Distance[node'] <= Distance[node]
    PROVE  Left' < Left
<1>1. Uncalled' = Uncalled \ {k} /\ k \in Uncalled
  BY DEF Uncalled, Called, TypeOK
<1>2. Cardinality(Uncalled') = Cardinality(Uncalled) - 1
  BY <1>1, UncalledIsFinite, FS_RemoveElement
<1>3. Distance[node] \in Nat /\ Distance[node'] \in Nat /\ Cardinality(Uncalled) \in Nat
  BY DistanceIsNat, UncalledIsFinite DEF TypeOK
<1> QED
  BY <1>2, <1>3 DEF Left

LEMMA StepIsNearer == TypeOK /\ TypeOK' /\ Next => [Left' < Left]_vars
<1> SUFFICES ASSUME TypeOK, TypeOK', Next PROVE [Left' < Left]_vars
  OBVIOUS
<1> USE DEF Distance
<1>1. CASE Orchestrate \/ JoinCollection \/ CollectionGate \/ GapAnalysis \/ GapAnalysisFails
           \/ SkipPass2 \/ JoinPass2
  <2>1. call' = call /\ Distance[node'] < Distance[node]
    BY <1>1 DEF Orchestrate, JoinCollection, CollectionGate, GapAnalysis, GapAnalysisFails,
                SkipPass2, JoinPass2
  <2> QED
    BY <2>1, NodeStepIsNearer
<1>2. CASE Route
  <2>1. call' = call /\ node = "routing" /\ node' \in {"pass2", "resolution"}
    BY <1>2 DEF Route
  <2> QED
    BY <2>1, NodeStepIsNearer
<1>3. CASE NodeRaises
  <2>1. call' = call /\ node \in {"orchestrator", "gap_analysis", "pass2"} /\ node' = "raised"
    BY <1>3 DEF NodeRaises
  <2> QED
    BY <2>1, NodeStepIsNearer
<1>4. ASSUME NEW c \in Collectors, Collect(c) \/ CollectRaises(c) PROVE Left' < Left
  <2>1. PICK a \in Answers(c) \cup {Raised} : call' = [call EXCEPT ![<<c, 1>>] = a]
    BY <1>4 DEF Collect, CollectRaises
  <2>2. /\ ~Called(<<c, 1>>) /\ <<c, 1>> \in Calls
        /\ node = "collection" /\ node' \in {"collection", "raised"}
    BY <1>4 DEF Collect, CollectRaises, Calls
  <2>3. Distance[node'] <= Distance[node]
    BY <2>2
  <2> QED
    BY <2>1, <2>2, <2>3, AnswersAreCalls, CallIsNearer
<1>5. ASSUME NEW c \in Collectors, Retry(c) PROVE Left' < Left
  <2>1. PICK a \in Answers(c) \cup {Raised} : call' = [call EXCEPT ![<<c, 2>>] = a]
    BY <1>5 DEF Retry
  <2>2. ~Called(<<c, 2>>) /\ <<c, 2>> \in Calls /\ node = "pass2" /\ node' = "pass2"
    BY <1>5 DEF Retry, Calls
  <2>3. Distance[node'] <= Distance[node]
    BY <2>2
  <2> QED
    BY <2>1, <2>2, <2>3, AnswersAreCalls, CallIsNearer
<1>6. CASE Ended
  BY <1>6 DEF Ended
<1> QED
  BY <1>1, <1>2, <1>3, <1>4, <1>5, <1>6 DEF Next, Step

\* Whatever answers, fails or raises, a run has taken the way from the
\* orchestrator to the resolution or to the exception handler after at most
\* seven steps between nodes and one call of each agent in each pass: no node
\* of graph.py is run again, no agent is called twice in a pass.
THEOREM CollectionIsBounded ==
    Spec => [](Left \in 0..(7 + Cardinality(Calls))) /\ [][Left' < Left]_vars
<1>1. IInv => Left \in 0..(7 + Cardinality(Calls))
  <2> SUFFICES ASSUME IInv PROVE Left \in 0..(7 + Cardinality(Calls))
    OBVIOUS
  <2>1. Distance[node] \in 0..7
    BY DistanceIsNat DEF IInv, TypeOK
  <2> QED
    BY <2>1, UncalledIsFinite, CallsAreFinite DEF Left
<1>2. IInv /\ IInv' /\ [Next]_vars => [Left' < Left]_vars
  BY StepIsNearer DEF IInv
<1> QED
  BY <1>1, <1>2, Invariance, PTL DEF Spec

-----------------------------------------------------------------------------
(* A call of Collection is one step of AgentCall, as it is one of Collector. *)

\* The entities of a call, numbered per category.
Delta(k) == UNION {{j} \X (1..call[k].found[j]) : j \in Categories}

Abstract(k) ==
    INSTANCE AgentCall WITH Found <- Categories \X Nat, result <- call[k].result,
                            delta <- Delta(k)

LEMMA NothingIsFound == ASSUME NEW k, call[k].found = Nothing PROVE Delta(k) = {}
<1>1. \A j \in Categories : call[k].found[j] = 0
  BY DEF Nothing
<1>2. \A j \in Categories : 1..call[k].found[j] = {}
  BY <1>1
<1> QED
  BY <1>2 DEF Delta

\* Every call of either pass is one answer of AgentCall, with everything that
\* is counted of it or with nothing: what CallIsOneAnswer shows of Collector
\* is what Collection takes for granted.
THEOREM CallsAreAnswers ==
    ASSUME NEW k \in Calls
    PROVE  Spec => /\ Abstract(k)!Init
                   /\ [][Abstract(k)!Answer]_<<call[k].result, Delta(k)>>
<1>1. Init => Abstract(k)!Init
  BY NothingIsFound DEF Init, NotCalled, Abstract!Init
<1>2. ASSUME IInv, [Next]_vars
      PROVE  [Abstract(k)!Answer]_<<call[k].result, Delta(k)>>
  <2>1. CASE call'[k] = call[k]
    BY <2>1 DEF Delta
  <2>2. CASE call'[k] # call[k]
    <3>1. PICK c \in Collectors, p \in {1, 2} :
              /\ ~Called(<<c, p>>)
              /\ \E a \in Answers(c) \cup {Raised} : call' = [call EXCEPT ![<<c, p>>] = a]
      <4>1. PICK c \in Collectors : Collect(c) \/ CollectRaises(c) \/ Retry(c)
        BY <1>2, <2>2 DEF Next, Step, Ended, vars, Orchestrate, JoinCollection, CollectionGate,
             GapAnalysis, GapAnalysisFails, Route, SkipPass2, JoinPass2, NodeRaises
      <4>2. CASE Collect(c) \/ CollectRaises(c)
        BY <4>2 DEF Collect, CollectRaises
      <4>3. CASE Retry(c)
        BY <4>3 DEF Retry
      <4> QED
        BY <4>1, <4>2, <4>3
    <3> PICK a \in Answers(c) \cup {Raised} : call' = [call EXCEPT ![<<c, p>>] = a]
      BY <3>1
    <3>2. k = <<c, p>> /\ call'[k] = a /\ call[k].result = "none"
      BY <1>2, <2>2, <3>1 DEF Called, IInv, TypeOK
    <3>3. CASE a \in Succeeded(c)
      <4>1. a.result = "success" /\ a.found \in [Categories -> Nat]
        BY <3>3, AgentsAssumption DEF Succeeded
      <4>2. Delta(k)' \subseteq Categories \X Nat
        BY <3>2, <4>1 DEF Delta
      <4> QED
        BY <3>2, <4>1, <4>2 DEF Abstract!Answer
    <3>4. CASE a \in {Failed, Raised}
      <4>1. a.result \in {"error", "raised"} /\ a.found = Nothing
        BY <3>4 DEF Failed, Raised
      <4>2. Delta(k)' = {}
        BY <3>2, <4>1 DEF Delta, Nothing
      <4> QED
        BY <3>2, <4>1, <4>2 DEF Abstract!Answer
    <3> QED
      BY <3>1, <3>3, <3>4 DEF Answers
  <2> QED
    BY <2>1, <2>2
<1> QED
  BY <1>1, <1>2, Invariance, PTL DEF Spec

=============================================================================

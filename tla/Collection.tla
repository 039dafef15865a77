----------------------------- MODULE Collection -----------------------------
(***************************************************************************)
(* The first half of the pipeline graph (osint/graph/graph.py): the        *)
(* orchestrator, the fan-out to the collection agents, the collection      *)
(* gate, the gap analysis and the second collection pass over the thin     *)
(* categories, up to the resolution agent.                                 *)
(*                                                                         *)
(* The agents of a pass run concurrently and answer with a DELTA, a patch  *)
(* of the run's state.  The deltas of pass 1 are merged by the reducers of *)
(* OSINTRunState when the last agent has answered, those of pass 2 by the  *)
(* dispatcher.  An agent whose run() raises answers with an error patch;   *)
(* one whose bookkeeping raises (set_agent_status or _on_error) lets the   *)
(* exception out, which ends the graph in pass 1 and is one more error in  *)
(* pass 2.                                                                 *)
(*                                                                         *)
(* raw_entities is a list to which deltas are appended.  What matters of   *)
(* it is how often the delta of each call is in it, and how many entities  *)
(* of each category that makes.  What an agent asks its sources, and which *)
(* queries the language model suggests, does not matter here: an agent may *)
(* find anything in Finds[c].                                              *)
(***************************************************************************)
EXTENDS Coverage, FiniteSets, FiniteSetsExt

CONSTANTS
    Collectors,   \* the agents the orchestrator fans out to
    Registered,   \* those the pass 2 dispatcher was given
    Categories,   \* keys of MIN_ENTITIES_PER_CATEGORY
    Expected,     \* MIN_ENTITIES_PER_CATEGORY
    AgentOf,      \* ENTITY_TYPE_TO_AGENTS: the agent to retry for a category
    Finds         \* per agent, the counts per category one call can report

ASSUME AgentsAssumption ==
    /\ IsFiniteSet(Collectors) /\ Categories # {}
    /\ Registered \subseteq Collectors
    /\ AgentOf \in [Categories -> Collectors]
    /\ Finds \in [Collectors -> SUBSET [Categories -> Nat]]

\* With 2000 or more expected entities the rounded score could cross the
\* threshold that the exact one does not; the configuration stays below 11.
ASSUME ExpectedAssumption == Expected \in [Categories -> 0..1999]

Calls == Collectors \X {1, 2}

Nothing == [k \in Categories |-> 0]

VARIABLES
    node,       \* the node the graph is about to run, or in the middle of
    phase,      \* current_phase
    call,       \* how each call of an agent ended
    appended,   \* raw_entities: how often the delta of a call is in the list
    statuses,   \* agent_statuses
    errors,     \* keys of agent_errors
    warned,     \* agents the gate put into warnings
    score,      \* gap_analysis: coverage_score per category, {} before
    targets     \* pass2_targets: the thin categories

vars == <<node, phase, call, appended, statuses, errors, warned, score, targets>>

Nodes == {"orchestrator", "collection", "gate", "gap_analysis", "routing",
          "pass2", "resolution", "raised"}

Phases == {"INIT", "COLLECTION_PASS1", "GAP_ANALYSIS", "COLLECTION_PASS2",
           "RESOLUTION"}

Results == {"none", "success", "error", "raised"}

Call == [result : Results, found : [Categories -> Nat]]

NotCalled == [result |-> "none", found |-> Nothing]

NoData == [k \in {} |-> 0]

TypeOK ==
    /\ node     \in Nodes
    /\ phase    \in Phases
    /\ call     \in [Calls -> Call]
    /\ appended \in [Calls -> Nat]
    /\ statuses \in [Collectors -> {"none", "success", "error"}]
    /\ errors   \subseteq Collectors
    /\ warned   \subseteq Collectors
    /\ score    \in [Categories -> 0..Unit] \cup {NoData}
    /\ targets  \subseteq Categories

\* initial_state.
Init ==
    /\ node     = "orchestrator"
    /\ phase    = "INIT"
    /\ call     = [k \in Calls |-> NotCalled]
    /\ appended = [k \in Calls |-> 0]
    /\ statuses = [c \in Collectors |-> "none"]
    /\ errors   = {}
    /\ warned   = {}
    /\ score    = NoData
    /\ targets  = {}

-----------------------------------------------------------------------------
(* One call of an agent: BaseAgent.__call__.                                *)

\* run() returns its patch; an error of the telemetry is swallowed.
Succeeded(c) == [result : {"success"}, found : Finds[c]]

\* run() raises; _error_patch holds a status and an error, no entities.
Failed == [result |-> "error", found |-> Nothing]

\* set_agent_status or _on_error raises.
Raised == [result |-> "raised", found |-> Nothing]

Answers(c) == Succeeded(c) \cup {Failed}

Called(k) == call[k].result # "none"

-----------------------------------------------------------------------------
(* The reducers of OSINTRunState.                                           *)

\* operator.add on raw_entities: the deltas of some calls are appended.
AppendDeltas(list, deltas) ==
    [k \in Calls |-> IF k \in deltas THEN list[k] + 1 ELSE list[k]]

\* _merge_dicts: the new keys overwrite the old ones.
MergeDicts(old, new) ==
    [c \in Collectors |-> IF c \in DOMAIN new THEN new[c] ELSE old[c]]

Successful(pass) ==
    {k \in Calls : k[2] = pass /\ call[k].result = "success"}

-----------------------------------------------------------------------------
(* Pass 1.                                                                  *)

\* The orchestrator scopes the run; if it fails, its error patch leaves the
\* phase as it was and the fan-out takes place all the same.
Orchestrate ==
    /\ node = "orchestrator"
    /\ node' = "collection"
    /\ phase' \in {"COLLECTION_PASS1", phase}
    /\ UNCHANGED <<call, appended, statuses, errors, warned, score, targets>>

Collect(c) ==
    /\ node = "collection" /\ ~Called(<<c, 1>>)
    /\ \E a \in Answers(c) : call' = [call EXCEPT ![<<c, 1>>] = a]
    /\ UNCHANGED <<node, phase, appended, statuses, errors, warned, score, targets>>

\* The exception ends the graph: no delta of this pass is merged.
CollectRaises(c) ==
    /\ node = "collection" /\ ~Called(<<c, 1>>)
    /\ call' = [call EXCEPT ![<<c, 1>>] = Raised]
    /\ node' = "raised"
    /\ UNCHANGED <<phase, appended, statuses, errors, warned, score, targets>>

\* The last agent has answered; the reducers merge all deltas.
JoinCollection ==
    /\ node = "collection"
    /\ \A c \in Collectors : Called(<<c, 1>>)
    /\ node' = "gate"
    /\ appended' = AppendDeltas(appended, Successful(1))
    /\ statuses' = MergeDicts(statuses, [c \in Collectors |-> call[<<c, 1>>].result])
    /\ errors' = errors \cup {c \in Collectors : call[<<c, 1>>].result = "error"}
    /\ UNCHANGED <<phase, call, warned, score, targets>>

\* Mutant: the patch spreads **state, so the reducer appends the whole list
\* to itself.
CollectionGate_SpreadsState ==
    /\ node = "gate"
    /\ node' = "gap_analysis"
    /\ phase' = "GAP_ANALYSIS"
    /\ warned' = {c \in Collectors : statuses[c] = "error"}
    /\ appended' = [k \in Calls |-> 2 * appended[k]]
    /\ UNCHANGED <<call, statuses, errors, score, targets>>

\* collection_gate: warns about the agents in error and lets the run pass.
CollectionGate ==
    /\ node = "gate"
    /\ node' = "gap_analysis"
    /\ phase' = "GAP_ANALYSIS"
    /\ warned' = {c \in Collectors : statuses[c] = "error"}
    /\ UNCHANGED <<call, appended, statuses, errors, score, targets>>

-----------------------------------------------------------------------------
(* Gap analysis and routing.                                                *)

\* The entities of category k in the list, and their entity_counts.
RawEntities(k) == UNION {{d} \X (1..(appended[d] * call[d].found[k])) : d \in Calls}

EntityCount(k) == Cardinality(RawEntities(k))

GapAnalysis ==
    /\ node = "gap_analysis"
    /\ node' = "routing"
    /\ score' = [k \in Categories |-> CoverageScore(EntityCount(k), Expected[k])]
    /\ targets' = {k \in Categories : IsThin(EntityCount(k), Expected[k])}
    /\ phase' = IF targets' # {} THEN "COLLECTION_PASS2" ELSE "RESOLUTION"
    /\ UNCHANGED <<call, appended, statuses, errors, warned>>

\* run() raises: no gap data, no targets, the phase stays.
GapAnalysisFails ==
    /\ node = "gap_analysis"
    /\ node' = "routing"
    /\ UNCHANGED <<phase, call, appended, statuses, errors, warned, score, targets>>

\* Mutant: scores at the threshold count as too low.
ShouldRunPass2_AtThreshold ==
    /\ score # NoData
    /\ \E k \in Categories : 10 * score[k] <= Threshold * Unit

\* should_run_pass2.
ShouldRunPass2 ==
    /\ score # NoData
    /\ \E k \in Categories : TriggersPass2(score[k])

Route ==
    /\ node = "routing"
    /\ node' = IF ShouldRunPass2 THEN "pass2" ELSE "resolution"
    /\ UNCHANGED <<phase, call, appended, statuses, errors, warned, score, targets>>

-----------------------------------------------------------------------------
(* Pass 2: the dispatcher calls the agents itself.                          *)

\* Mutant: the dispatcher does not look the agent up.
AgentsToRun_Unchecked == {AgentOf[k] : k \in targets}

AgentsToRun == {AgentOf[k] : k \in targets} \cap Registered

\* _passthrough_patch: none of the targets has a registered agent.
SkipPass2 ==
    /\ node = "pass2" /\ AgentsToRun = {}
    /\ node' = "resolution"
    /\ phase' = "RESOLUTION"
    /\ UNCHANGED <<call, appended, statuses, errors, warned, score, targets>>

\* Mutant: gather without return_exceptions, and the status of the dispatcher
\* cannot be written either: the exception of an agent leaves the graph.
Retry_Escapes(c) ==
    /\ node = "pass2" /\ c \in AgentsToRun /\ ~Called(<<c, 2>>)
    /\ \E a \in Answers(c) \cup {Raised} :
        /\ call' = [call EXCEPT ![<<c, 2>>] = a]
        /\ node' = IF a = Raised THEN "raised" ELSE node
    /\ UNCHANGED <<phase, appended, statuses, errors, warned, score, targets>>

\* asyncio.gather(.., return_exceptions=True): an exception is an answer too.
Retry(c) ==
    /\ node = "pass2" /\ c \in AgentsToRun /\ ~Called(<<c, 2>>)
    /\ \E a \in Answers(c) \cup {Raised} : call' = [call EXCEPT ![<<c, 2>>] = a]
    /\ UNCHANGED <<node, phase, appended, statuses, errors, warned, score, targets>>

\* The status a call stands for in the dispatcher's patch.
StatusOf(c) == IF call[<<c, 2>>].result = "raised" THEN "error" ELSE call[<<c, 2>>].result

\* Mutant: gather without return_exceptions: the statuses of a pass in which
\* one agent raised are lost.
JoinPass2_AllOrNothing ==
    /\ node = "pass2" /\ AgentsToRun # {}
    /\ \A c \in AgentsToRun : Called(<<c, 2>>)
    /\ node' = "resolution"
    /\ phase' = "RESOLUTION"
    /\ IF \E c \in AgentsToRun : call[<<c, 2>>].result = "raised"
       THEN UNCHANGED <<appended, statuses>>
       ELSE /\ appended' = AppendDeltas(appended, Successful(2))
            /\ statuses' = MergeDicts(statuses, [c \in AgentsToRun |-> StatusOf(c)])
    /\ UNCHANGED <<call, errors, warned, score, targets>>

\* The dispatcher's patch: the deltas of the agents that answered, a status
\* for each of them.  The errors stay in the assessment it writes; they do
\* not reach agent_errors.
JoinPass2 ==
    /\ node = "pass2" /\ AgentsToRun # {}
    /\ \A c \in AgentsToRun : Called(<<c, 2>>)
    /\ node' = "resolution"
    /\ phase' = "RESOLUTION"
    /\ appended' = AppendDeltas(appended, Successful(2))
    /\ statuses' = MergeDicts(statuses, [c \in AgentsToRun |-> StatusOf(c)])
    /\ UNCHANGED <<call, errors, warned, score, targets>>

\* A node whose own bookkeeping raises ends the graph.
NodeRaises ==
    /\ node \in {"orchestrator", "gap_analysis", "pass2"}
    /\ \A c \in Collectors : ~Called(<<c, 2>>)
    /\ node' = "raised"
    /\ UNCHANGED <<phase, call, appended, statuses, errors, warned, score, targets>>

-----------------------------------------------------------------------------
\* The graph has handed over to the resolution agent, or was aborted.
Ended == node \in {"resolution", "raised"} /\ UNCHANGED vars

Step ==
    \/ Orchestrate
    \/ \E c \in Collectors : Collect(c) \/ CollectRaises(c)
    \/ JoinCollection
    \/ CollectionGate
    \/ GapAnalysis
    \/ GapAnalysisFails
    \/ Route
    \/ SkipPass2
    \/ \E c \in Collectors : Retry(c)
    \/ JoinPass2
    \/ NodeRaises

Next == Step \/ Ended

Spec == Init /\ [][Next]_vars

\* The event loop runs every node and every agent of a pass.
FairSpec == Spec /\ WF_vars(Step)

-----------------------------------------------------------------------------
(* Properties.                                                              *)

Joined(pass) == IF pass = 1
                THEN node \in {"gate", "gap_analysis", "routing", "pass2", "resolution"}
                ELSE node = "resolution"

\* Once a pass is joined, raw_entities holds the delta of every call that
\* succeeded exactly once and of no other call: the fan-in loses none, however
\* the other calls of the pass ended, and no later node feeds the list back
\* through its reducer, which "would double every entry" (graph.py:121-126).
CollectedOnce ==
    \A c \in Collectors, p \in {1, 2} :
        /\ appended[<<c, p>>] <= 1
        /\ appended[<<c, p>>] = 1 => call[<<c, p>>].result = "success"
        /\ Joined(p) /\ call[<<c, p>>].result = "success" => appended[<<c, p>>] = 1

\* What agent c reported of category k in pass 1.
Reported(c, k) ==
    IF call[<<c, 1>>].result = "success" THEN call[<<c, 1>>].found[k] ELSE 0

\* Category k came out of pass 1 with less than 0.6 of what is expected,
\* counting what each agent of pass 1 reported.
Short(k) ==
    /\ Expected[k] # 0
    /\ 10 * MapThenSumSet(LAMBDA c : Reported(c, k), Collectors) < Threshold * Expected[k]

\* Pass 2 repeats exactly the agents the dispatcher knows for the categories
\* that pass 1 left short: no other agent is called again, and once the
\* resolution begins none was forgotten, unless the gap analysis itself failed.
SecondPassIsForTheThin ==
    LET due == {AgentOf[k] : k \in {j \in Categories : Short(j)}} \cap Registered
    IN  /\ \A c \in Collectors : Called(<<c, 2>>) => c \in due
        /\ node = "resolution" /\ score # NoData =>
               \A c \in due : Called(<<c, 2>>)

\* The conditional edge, which compares rounded scores, and the gap analysis,
\* which compares exact ones, never disagree: pass 2 is entered with targets
\* and in its phase, and the resolution begins in its own phase unless the gap
\* analysis failed and left no data.
RouteFollowsTargets ==
    /\ node = "pass2" => targets # {} /\ phase = "COLLECTION_PASS2"
    /\ node = "resolution" =>
           phase = IF score = NoData THEN "GAP_ANALYSIS" ELSE "RESOLUTION"

\* agent_statuses tells how the last joined call of each agent ended, and the
\* warnings of the gate name exactly the agents that failed in pass 1, also
\* those that pass 2 repaired since.
StatusesTellTheLastCall ==
    /\ Joined(1) => \A c \in Collectors :
           statuses[c] = IF node = "resolution" /\ Called(<<c, 2>>)
                         THEN StatusOf(c) ELSE call[<<c, 1>>].result
    /\ Joined(1) /\ node # "gate" =>
           warned = {c \in Collectors : call[<<c, 1>>].result = "error"}

\* Whatever fails, the run reaches the resolution agent or its exception
\* handler; and once the dispatcher has called an agent it is the former: an
\* exception that would have ended the graph in pass 1 cannot end it in pass 2,
\* and what pass 1 collected is resolved (return_exceptions in the dispatcher).
ReachesResolution ==
    /\ <>(node \in {"resolution", "raised"})
    /\ \A c \in Collectors : Called(<<c, 2>>) ~> node = "resolution"

-----------------------------------------------------------------------------
(* The inductive invariant of the safety theorems: what the node the graph  *)
(* is at says about the calls and about the gap analysis.                   *)

BeforeTheJoin ==
    /\ node \in {"orchestrator", "collection"} =>
           /\ \A k \in Calls : appended[k] = 0
           /\ \A c \in Collectors : call[<<c, 1>>].result # "raised"
           /\ score = NoData /\ targets = {}
    /\ node \in {"gate", "gap_analysis"} => score = NoData /\ targets = {}

CallsOfPass1 ==
    Joined(1) => \A c \in Collectors : call[<<c, 1>>].result \in {"success", "error"}

CallsOfPass2 ==
    \A c \in Collectors :
        /\ Called(<<c, 2>>) => c \in AgentsToRun
        /\ node \notin {"pass2", "resolution", "raised"} => ~Called(<<c, 2>>)
        /\ node # "resolution" => appended[<<c, 2>>] = 0

ScoresAgreeWithTargets ==
    /\ score = NoData => targets = {}
    /\ score # NoData => \A k \in Categories : TriggersPass2(score[k]) <=> k \in targets

PhaseAtTheNode ==
    /\ node = "gap_analysis" => phase = "GAP_ANALYSIS"
    /\ node = "routing" =>
           phase = IF score = NoData THEN "GAP_ANALYSIS"
                   ELSE IF targets # {} THEN "COLLECTION_PASS2" ELSE "RESOLUTION"
    /\ node = "pass2" => score # NoData

IInv == /\ TypeOK
        /\ CollectedOnce
        /\ RouteFollowsTargets
        /\ StatusesTellTheLastCall
        /\ BeforeTheJoin
        /\ CallsOfPass1
        /\ CallsOfPass2
        /\ ScoresAgreeWithTargets
        /\ PhaseAtTheNode

=============================================================================

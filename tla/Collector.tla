----------------------------- MODULE Collector -----------------------------
(***************************************************************************)
(* One call of a collection agent, from BaseAgent.__call__ into run() and  *)
(* back (osint/agents/base.py and the agents that Sources lists).          *)
(*                                                                         *)
(* run() asks one source after the other and keeps what it reads.  A call  *)
(* that fails is caught, recorded by write_search_record and passed over.  *)
(* Neither the search record nor the reading of an answer is guarded: if   *)
(* one of them raises, run() raises, and what earlier sources brought is   *)
(* in no patch.  An agent's calls and statements follow one another in one *)
(* coroutine; other agents share no state with it.                         *)
(***************************************************************************)
EXTENDS Sources, FiniteSets, FiniteSetsExt

CONSTANTS
    Callable,    \* the agents that are called
    MaxTargets   \* bound on the targeted queries of pass 2

ASSUME CallableAssumption == Callable \subseteq Agents
ASSUME TargetsAssumption == MaxTargets \in Nat

\* What the sources of an agent need: keys, and the state of the city.
NeedsOf(a) ==
    {Source(a, i).needs : i \in DOMAIN SourcesOf[a]} \ {"nothing"}

VARIABLES
    agent,    \* AGENT_NAME
    have,     \* keys that are set, and "state" if the city's state is known
    queries,  \* number of targeted queries, 0 in pass 1
    pc,       \* where __call__ is
    at,       \* the source run() is asking
    asked,    \* calls that were made, <<source, number>>
    traced,   \* calls with a search record; number 0 is "not asked at all"
    kept,     \* new_raw_entities
    result,   \* how the call ended
    delta     \* raw_entities of the patch

vars == <<agent, have, queries, pc, at, asked, traced, kept, result, delta>>

world == <<agent, have, queries>>

Call == (1..6) \X (0..20)

Entity == [from : Call, type : EntityTypes, restricted : BOOLEAN]

TypeOK ==
    /\ agent   \in Callable
    /\ have    \subseteq NeedsOf(agent)
    /\ queries \in 0..MaxTargets
    /\ pc      \in {"start", "run", "raised", "ended"}
    /\ at      \in 1..(Len(SourcesOf[agent]) + 1)
    /\ asked   \subseteq Call
    /\ traced  \subseteq Call
    /\ kept    \subseteq Entity
    /\ result  \in {"none", "success", "error", "raised"}
    /\ delta   \subseteq kept

Init ==
    /\ agent \in Callable
    /\ have \in SUBSET NeedsOf(agent)
    /\ queries \in 0..MaxTargets
    /\ pc = "start" /\ at = 1
    /\ asked = {} /\ traced = {} /\ kept = {}
    /\ result = "none" /\ delta = {}

-----------------------------------------------------------------------------

Here == Source(agent, at)

Usable(i) == Source(agent, i).needs \in have \cup {"nothing"}

\* The calls of the source before i that brought an entity.
Fruitful(i) == {e.from[2] : e \in {x \in kept : x.from[1] = i - 1}}

\* The calls source i makes: its own, the targeted ones in their place, or
\* one per call of the source before it that brought an entity.
CallsOf(i) ==
    LET s == Source(agent, i) IN
    IF s.kind = "detail" THEN Fruitful(i)
    ELSE IF s.targets > 0 /\ queries > 0 THEN 1..Min({s.targets, queries})
    ELSE 1..s.asks

Pending == {n \in CallsOf(at) : <<at, n>> \notin asked}

Working == pc = "run" /\ at <= Len(SourcesOf[agent])

\* The call whose turn it is.
Turn == <<at, Min(Pending)>>

Asking ==
    /\ Working /\ Usable(at) /\ Pending # {}
    /\ asked' = asked \cup {Turn}

Made(types) ==
    {[from |-> Turn, type |-> t, restricted |-> Here.reads.restricted] : t \in types}

\* The entities that an answer with records of these classes may make.
Readings(classes) ==
    IF classes \subseteq Here.reads.skips
    THEN {{}}
    ELSE {Here.reads.makes \cup extra : extra \in SUBSET Here.reads.stubs}

-----------------------------------------------------------------------------

\* set_agent_status is outside of the try.
Start ==
    /\ pc = "start"
    /\ \/ pc' = "run" /\ UNCHANGED result
       \/ pc' = "ended" /\ result' = "raised"
    /\ UNCHANGED <<world, at, asked, traced, kept, delta>>

\* write_search_record raises through run().
TraceFails ==
    /\ pc' = "raised"
    /\ UNCHANGED <<world, at, traced, kept, result, delta>>

Trace(c) ==
    /\ traced' = traced \cup {c}
    /\ UNCHANGED <<world, pc, result, delta>>

\* Mutant: a source without its key is passed over without a word.
SkipSource_Silent ==
    /\ Working /\ ~Usable(at)
    /\ at' = at + 1
    /\ UNCHANGED <<world, pc, asked, traced, kept, result, delta>>

\* What the source needs is missing: one record says so.
SkipSource ==
    /\ Working /\ ~Usable(at)
    /\ \/ Trace(<<at, 0>>) /\ at' = at + 1 /\ UNCHANGED kept
       \/ TraceFails
    /\ UNCHANGED asked

\* _collect_from_seeds; without a seed module there is nothing to record.
LoadSeeds ==
    /\ Asking /\ Here.kind = "seeds"
    /\ \/ /\ kept' = kept \cup Made(Here.reads.makes)
          /\ Trace(Turn) /\ UNCHANGED at
       \/ UNCHANGED <<world, pc, at, traced, kept, result, delta>>
       \/ TraceFails

CallFails ==
    /\ Asking /\ Here.kind # "seeds" /\ Here.traced
    /\ \/ Trace(Turn) /\ UNCHANGED <<at, kept>>
       \/ TraceFails

\* The answer is recorded, then its records are read one by one.
Answered ==
    /\ Asking /\ Here.kind = "search"
    /\ \/ /\ \E classes \in SUBSET Classes :
             /\ "null" \in classes => "null" \in Here.reads.skips
             /\ \E types \in Readings(classes) : kept' = kept \cup Made(types)
          /\ Trace(Turn) /\ UNCHANGED at
       \/ TraceFails

\* The details of one more entity, which change nothing that is kept here.
Detailed ==
    /\ Asking /\ Here.kind = "detail" /\ Here.works
    /\ \/ Trace(Turn) /\ UNCHANGED <<at, kept>>
       \/ TraceFails

\* The entity lacks the number or link to ask for; or, where failed calls are
\* not recorded, the call fails or has an empty answer.
PassOver ==
    /\ Asking /\ Here.kind = "detail"
    /\ UNCHANGED <<world, pc, at, traced, kept, result, delta>>

\* The answer is recorded, then one of its records cannot be read.
AnswerBreaks ==
    /\ Asking
    /\ \/ Here.kind = "search" /\ "null" \notin Here.reads.skips
       \/ Here.kind = "detail" /\ Here.works
    /\ traced' = traced \cup {Turn}
    /\ pc' = "raised"
    /\ UNCHANGED <<world, at, kept, result, delta>>

NextSource ==
    /\ Working /\ Usable(at) /\ Pending = {}
    /\ at' = at + 1
    /\ UNCHANGED <<world, pc, asked, traced, kept, result, delta>>

\* run() returns its patch; an error of _on_success is swallowed.
Succeed ==
    /\ pc = "run" /\ ~Working
    /\ pc' = "ended" /\ result' = "success" /\ delta' = kept
    /\ UNCHANGED <<world, at, asked, traced, kept>>

\* Mutant: the error patch carries what was found so far.
HandleError_KeepsDelta ==
    /\ pc = "raised"
    /\ pc' = "ended" /\ result' \in {"error", "raised"} /\ delta' = kept
    /\ UNCHANGED <<world, at, asked, traced, kept>>

\* _on_error, which may raise in turn, and the error patch.
HandleError ==
    /\ pc = "raised"
    /\ pc' = "ended" /\ result' \in {"error", "raised"}
    /\ UNCHANGED <<world, at, asked, traced, kept, delta>>

Step ==
    \/ Start \/ SkipSource \/ LoadSeeds \/ CallFails \/ Answered \/ Detailed
    \/ PassOver \/ AnswerBreaks \/ NextSource \/ Succeed \/ HandleError

Ended == pc = "ended" /\ UNCHANGED vars

Next == Step \/ Ended

\* Calls to sources and databases have timeouts, so a coroutine that waits
\* for one is resumed.
Spec == Init /\ [][Next]_vars /\ WF_vars(Step)

-----------------------------------------------------------------------------

\* The audit trail of base.py ("called on EVERY search attempt"): in a call
\* that succeeds every source has left a record of each of its calls, or one
\* that says why it was not asked, and whatever is reported was found by a
\* recorded call.  Seeds without a module, and details, may leave no record.
ProofOfSearch ==
    result = "success" =>
        /\ \A i \in DOMAIN SourcesOf[agent] :
              IF Usable(i)
              THEN Source(agent, i).kind = "search" =>
                       \A n \in CallsOf(i) : <<i, n>> \in traced
              ELSE <<i, 0>> \in traced
        /\ \A e \in delta : e.from \in traced

\* Politicians, political organisations and illicit actors are restricted and
\* held for review whoever finds them and in whichever answer; the curated
\* politicians are not.
SensitiveAreRestricted ==
    \A e \in delta :
        /\ e.type \in {"political", "illicit", "politician"}
        /\ Source(agent, e.from[1]).kind # "seeds"
        => e.restricted

Abstract == INSTANCE AgentCall WITH Found <- Entity

\* One call is one answer, all or nothing: a patch with everything that was
\* kept, or nothing at all, and it comes in the end.
AnswersOnce == Abstract!Spec

=============================================================================

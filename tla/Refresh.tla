------------------------------ MODULE Refresh ------------------------------
(***************************************************************************)
(* The enrichment refresh of one scheduled city (osint/scheduler.py), the  *)
(* entities of the discovery runs of that city, beside which it runs, and  *)
(* which run is its latest completed one.                                  *)
(*                                                                         *)
(* A tick is the six hours between two refreshes.  The staleness of 12     *)
(* hours is three ticks: at the second one an entity was verified a little *)
(* less than 12 hours ago.  No step expires an entity, so those of all     *)
(* earlier runs stay alive.  A job ends before the next tick, its timeout  *)
(* is four hours.                                                          *)
(***************************************************************************)
EXTENDS Integers, FiniteSets

CONSTANTS
    Discovery,   \* discovery runs of the city
    Name,        \* names of entities
    Finds,       \* what a discovery run finds
    Score,       \* score_influence of a name
    Limit,       \* at most so many entities in a refresh, 500 in the code
    StaleAfter,  \* ticks until a verified entity is stale
    MaxFaults    \* bound on failures

ASSUME DiscoveryAssumption == {"none", "refresh"} \cap Discovery = {}
ASSUME ScoreAssumption ==
    Finds \in [Discovery -> SUBSET Name] /\ Score \in [Name -> Nat]
ASSUME LimitAssumption ==
    Limit \in Nat \ {0} /\ StaleAfter \in Nat \ {0} /\ MaxFaults \in Nat

Id == UNION {{d} \X Finds[d] : d \in Discovery}

VARIABLES
    status,      \* run_status of the discovery runs
    rows,        \* entities with valid_to NULL, named by run and name
    briefed,     \* discovery runs with a briefing assessment
    latest,      \* latest run that is complete
    age,         \* ticks since last_verified; StaleAfter also if it is NULL
    stage,       \* where _refresh_city is
    registered,  \* whether its run has a row
    batch,       \* the entities it loaded
    enriched,    \* enriched_entities
    faults       \* failures so far

discoveryVars == <<status, rows, briefed>>
jobVars       == <<stage, registered, batch, enriched>>
refreshVars   == <<discoveryVars, latest, age, jobVars, faults>>

Run == Discovery \cup {"none", "refresh"}

Stages == {"idle", "connecting", "registering", "loading", "enriching",
           "relating", "stamping", "completing", "failing"}

RefreshTypeOK ==
    /\ status \in [Discovery -> {"none", "running", "complete", "failed"}]
    /\ rows \subseteq Id
    /\ briefed \subseteq Discovery
    /\ latest \in Run
    /\ age \in [Id -> 0..StaleAfter]
    /\ stage \in Stages
    /\ registered \in BOOLEAN
    /\ batch \subseteq rows /\ enriched \subseteq batch
    /\ faults \in 0..MaxFaults

RefreshInit ==
    /\ status = [d \in Discovery |-> "none"]
    /\ rows = {} /\ briefed = {} /\ latest = "none"
    /\ age = [i \in Id |-> StaleAfter]
    /\ stage = "idle" /\ registered = FALSE /\ batch = {} /\ enriched = {}
    /\ faults = 0

\* _refresh_city returns and forgets what it had in memory.
Return == stage' = "idle" /\ registered' = FALSE /\ batch' = {} /\ enriched' = {}

Fault == faults < MaxFaults /\ faults' = faults + 1

-----------------------------------------------------------------------------
(* A discovery run, as far as the views and the refresh see it.             *)

Begin(d) ==
    /\ status[d] = "none"
    /\ status' = [status EXCEPT ![d] = "running"]
    /\ UNCHANGED <<rows, briefed, latest, age, jobVars, faults>>

\* write_entity of the resolution; last_verified is NULL.
Insert(d, n) ==
    /\ status[d] = "running" /\ d \notin briefed /\ <<d, n>> \notin rows
    /\ rows' = rows \cup {<<d, n>>}
    /\ UNCHANGED <<status, briefed, latest, age, jobVars, faults>>

Brief(d) ==
    /\ status[d] = "running" /\ d \notin briefed
    /\ briefed' = briefed \cup {d}
    /\ UNCHANGED <<status, rows, latest, age, jobVars, faults>>

\* complete_run, with a briefing or without.
Complete(d) ==
    /\ status[d] = "running"
    /\ status' = [status EXCEPT ![d] = "complete"]
    /\ latest' = d
    /\ UNCHANGED <<rows, briefed, age, jobVars, faults>>

Abort(d) ==
    /\ status[d] = "running"
    /\ status' = [status EXCEPT ![d] = "failed"]
    /\ UNCHANGED <<rows, briefed, latest, age, jobVars, faults>>

-----------------------------------------------------------------------------
(* run_enrichment_refresh.                                                  *)

\* The cron fires.
Tick ==
    /\ stage = "idle"
    /\ age' = [i \in Id |-> IF age[i] < StaleAfter THEN age[i] + 1 ELSE age[i]]
    /\ stage' = "connecting"
    /\ UNCHANGED <<discoveryVars, latest, registered, batch, enriched, faults>>

Connect ==
    /\ stage = "connecting"
    /\ \/ stage' = "registering" /\ UNCHANGED faults
       \/ Fault /\ stage' = "idle"
    /\ UNCHANGED <<discoveryVars, latest, age, registered, batch, enriched>>

\* upsert_run; its failure is only logged.
Register ==
    /\ stage = "registering"
    /\ stage' = "loading"
    /\ \/ registered' = TRUE /\ UNCHANGED faults
       \/ Fault /\ UNCHANGED registered
    /\ UNCHANGED <<discoveryVars, latest, age, batch, enriched>>

\* Mutant: stale_only is left at its default.
Stale_All == rows

Stale == {i \in rows : age[i] = StaleAfter}

\* The batches that ORDER BY score_influence DESC LIMIT may return.
Batches ==
    {b \in SUBSET Stale :
        /\ Cardinality(b) = IF Cardinality(Stale) < Limit THEN Cardinality(Stale) ELSE Limit
        /\ \A i \in b, j \in Stale \ b : Score[i[2]] >= Score[j[2]]}

\* get_entities_by_city.  With nothing to do the run is complete.
Load ==
    /\ stage = "loading"
    /\ \/ /\ batch' \in Batches
          /\ stage' = IF batch' = {} THEN "completing" ELSE "enriching"
          /\ UNCHANGED faults
       \/ Fault /\ stage' = "failing" /\ UNCHANGED batch
    /\ UNCHANGED <<discoveryVars, latest, age, registered, enriched>>

\* The call of the enrichment agent.  What it finds stays in memory.  An error
\* patch has no entities and an exception fails the run; without a row of the
\* run the foreign key of its first search record makes it one of both.
Enrich ==
    /\ stage = "enriching"
    /\ \/ registered /\ enriched' = batch /\ stage' = "relating" /\ UNCHANGED faults
       \/ /\ IF registered THEN Fault ELSE UNCHANGED faults
          /\ stage' \in {"relating", "failing"}
          /\ UNCHANGED enriched
    /\ UNCHANGED <<discoveryVars, latest, age, registered, batch>>

\* The call of the relationship agent, of which nothing is fatal.
Relate ==
    /\ stage = "relating"
    /\ stage' = "stamping"
    /\ UNCHANGED <<discoveryVars, latest, age, registered, batch, enriched, faults>>

\* Mutant: what was loaded is stamped.
Stamp_Batch ==
    /\ stage = "stamping"
    /\ age' = [i \in Id |-> IF i \in batch THEN 0 ELSE age[i]]
    /\ stage' = "completing"
    /\ UNCHANGED <<discoveryVars, latest, registered, batch, enriched, faults>>

\* update_entity_last_verified of each; gather ignores those that fail.
Stamp ==
    /\ stage = "stamping"
    /\ \E stamped \in SUBSET enriched :
        /\ IF stamped = enriched THEN UNCHANGED faults ELSE Fault
        /\ age' = [i \in Id |-> IF i \in stamped THEN 0 ELSE age[i]]
    /\ stage' = "completing"
    /\ UNCHANGED <<discoveryVars, latest, registered, batch, enriched>>

\* _mark_run_complete: an UPDATE of the row, if there is one; a failure is
\* logged.
Finish ==
    /\ stage = "completing"
    /\ Return
    /\ \/ latest' = (IF registered THEN "refresh" ELSE latest) /\ UNCHANGED faults
       \/ Fault /\ UNCHANGED latest
    /\ UNCHANGED <<discoveryVars, age>>

\* _mark_run_failed.
GiveUp ==
    /\ stage = "failing"
    /\ Return
    /\ UNCHANGED <<discoveryVars, latest, age, faults>>

\* The worker dies or the job is cancelled; it is not tried again.
Die ==
    /\ stage # "idle"
    /\ Fault /\ Return
    /\ UNCHANGED <<discoveryVars, latest, age>>

Work ==
    \/ Connect \/ Register \/ Load \/ Enrich \/ Relate \/ Stamp \/ Finish \/ GiveUp

RefreshNext ==
    \/ \E d \in Discovery :
        Begin(d) \/ Brief(d) \/ Complete(d) \/ Abort(d) \/ \E n \in Finds[d] : Insert(d, n)
    \/ Tick \/ Work \/ Die

-----------------------------------------------------------------------------

\* Only what a registered run enriched is stamped as verified: whatever call
\* failed, an entity that this refresh did not enrich is as stale after it as
\* before, and the next one loads it again.
OnlyEnrichedAreFresh ==
    \A i \in batch : age[i] < StaleAfter => registered /\ i \in enriched

\* No live entity is left out for good, although each refresh takes only the
\* Limit most influential of the stale ones: as long as the city has no more
\* entities than the refreshes take while one of them is fresh, 1500 in the
\* code.  Beyond that the least influential ones have no turn.
EveryEntityIsRefreshed ==
    Cardinality(Id) <= Limit * StaleAfter => \A i \in Id : i \in rows ~> age[i] = 0

=============================================================================

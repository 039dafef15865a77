# A verification project for OSINT-Ecosystem

This directory holds TLA+ modules that model the run lifecycle, the agent
pipeline, the refresh of a city with its views, and the rate limiter of the
repository, configurations that check them with TLC, and proofs that TLAPS checks. Paths below are relative to the repository; `osint/` is the
Python package.

## 1. The system

A *run* collects intelligence about one city. It is requested through the API
or by a weekly cron, executed by a worker as a graph of agents, and read back
through the API.

| Part | State it keeps | Operations | Interacts with |
|---|---|---|---|
| API (`osint/api/app.py`) | none of its own | `POST /runs`, `GET /runs/*`, `GET /cities/*`, `GET /entities/*` | inserts rows of `agent_runs`, enqueues ARQ jobs, reads Postgres |
| Scheduler (`osint/scheduler.py`) | `continuous_schedule` | `run_weekly_discovery`, `run_enrichment_refresh` | as the API; the refresh works on entities of earlier runs |
| Worker (`osint/workers/worker.py`) | one coroutine per job, at most three at a time | `run_osint_pipeline` | takes jobs from Redis, writes the row of the run, runs the graph |
| Graph (`osint/graph/graph.py`, `osint/state.py`) | `OSINTRunState`, merged by reducers | 21 nodes, one fan-out, one conditional edge | calls the agents, hands the state on |
| Agent wrapper (`osint/agents/base.py`) | counters of the call | `__call__`: patch, error patch or exception | Redis status, `agent_outputs` |
| Orchestrator and collection agents | none | draft the scope; ask sources one after the other, record each search, return `raw_entities` | source clients, seeds, `search_records` |
| Gap analysis, second pass | `gap_analysis`, `pass2_targets` | score categories, repeat the agents of thin ones | call collection agents themselves |
| Resolution | `canonical_entities`, `merge_decisions`, `ambiguous_merges` | three layers of merging, the write loop | entities and evidence in Postgres, ChromaDB |
| Enrichment, dedup | `enriched_entities`, marks in `category_fields` | screen, ask sixteen sources, merge look-alikes | OFAC and other sources, `search_records` |
| Relationship | `relationships_draft`, `relationships_rejected` | extract, write evidence and edges, sync | Postgres, Neo4j |
| Scoring, verification, briefing | `scored_entities`, `verified_entity_ids`, `flagged_entity_ids`, `briefing_json` | score, judge, draft, complete the run | Postgres |
| Rate limiter (`osint/core/rate_limiter.py`) | counters, cache and spend in Redis | `get`, `post`, `check_budget`, `record_spend` | every source client of every worker |
| City views (`osint/api/app.py`, `osint/db/supabase.py`) | none | `GET /cities/{key}` and its entities, relationships, briefing | the latest completed run of the city |
| Operator tools | the run that the script holds | `mark_run_failed.py`, migration 009 | `agent_runs` |
| Stores (`osint/db/`) | Postgres, Neo4j, Redis, ChromaDB | one statement per method | everybody |
| Clients, LLM router, ETL, export, dashboards | none that others read | requests and conversions | outside services |

What is hard about it:

- **Many writers of one row.** The request handler, the worker, two agents, a
  script and a migration all write `agent_runs`, by an upsert or an
  unconditional update, without a transaction that spans a read and a write.
- **Failure is swallowed almost everywhere.** An agent that raises becomes an
  error patch and the graph goes on; a write that fails is logged. The question
  is always what the later steps then see.
- **Time.** A job is cancelled after four hours without a word to the database;
  a cleanup decides by the age of a row.
- **Concurrent agents and reducers.** Eleven agents answer in any order; a
  reducer that appends turns an innocent `**state` into a doubled list.
- **Two lists of the same thing.** `canonical_entities` stays in the state after
  `enriched_entities` has replaced it, and later nodes choose between them.

- **Check, then use.** Quotas, windows and budgets are read by one Redis command
  and counted by another, by every agent of every worker at once.
- **An audit trail by convention.** Every search is to leave a record; some forty
  places call `write_search_record`, before or after they keep what they found.
- **The latest run.** The views of a city follow its latest completed run, and two
  kinds of run complete.

What makes each part correct is stated by the properties of section 4; the
hazards, each at its line, are in `PROJECT.json`.

## 2. The modules

| Module | What it models |
|---|---|
| `RunStore` | one row of `agent_runs` as a value; `upsert_run`, `complete_run` and the operator's update as operators on it |
| `RunLifecycle` | everybody who writes that row: request handlers, cron, queue, worker coroutine, script, migration (extends `RunStore`) |
| `Coverage` | the coverage score with its rounding to four decimals, and the two comparisons with the threshold |
| `Collection` | orchestrator, fan-out, join, gate, gap analysis, routing, second pass (extends `Coverage`) |
| `Resolution` | grouping, the three layers, the union-find, the write loop |
| `Analysis` | enrichment, dedup, relationship, scoring, verification, briefing, as far as they hand on and store |
| `Sources` | what each collection agent asks, in order, and how it reads one record of an answer |
| `Collector` | one call of a collection agent, from `__call__` through its sources and back (extends `Sources`) |
| `AgentCall` | what `__call__` promises the graph; `Collector` is shown to implement it |
| `Enrichment` | the sixteen sources of the enrichment agent, entity by entity, in a discovery run and the refreshes after it |
| `Rules` | which edge each extractor of the relationship agent reads from which field, in the order of `run()` |
| `Inference` | the draft of the relationship agent from empty to complete (extends `Rules`) |
| `Refresh` | `run_enrichment_refresh` of one city beside its discovery runs |
| `CityViews` | requests for the views of that city (extends `Refresh`) |
| `Limiter` | requests to one domain through cache, quota, window, retries and budget |
| `MC*` | values of the constants for TLC |
| `*_proofs` | the theorems of the module of that name and their proofs; `CityViews_proofs` also has those of `Enrichment`, which the refresh calls |

Four state machines follow one run: `RunLifecycle` is the frame, in which
the whole graph between the orchestrator's upsert and the briefing is the single
step `Collect`; `Collection`, `Resolution` and `Analysis` are what happens
inside it, one after the other. They are connected where one ends and the next
begins: `Collection` ends at the resolution node with the deltas in
`raw_entities`; `Resolution` starts from any `raw_entities` and ends with
`canonical`; `Analysis` starts from any `canonical`, the empty one included, which
is what a failed resolution leaves. An exception that escapes a node is
`raised` in `Collection` and `Analysis` and `GraphRaises` in `RunLifecycle`.

Three more open up one step of these: `Collector` is the call that `Collection`
takes for one step (`AgentCall` is the promise between the two), `Enrichment` the
node that `Analysis` takes for one step, `Inference` the extraction whose result
`Analysis` starts from as a set of candidate edges. `CityViews` composes the
refresh cron, which calls the enrichment agent again, with the discovery runs and
with readers. `Limiter` stands below every source client.

### RunStore and RunLifecycle

`row` is the table, one record per run. The columns kept are those somebody
decides on: the status, the kind of run (`run_mode` and `run_type` always change
together), `scheduled`, which of the two algorithms made the city key, and flags
for `completed_at`, `failure_reason` and the totals. `Upserted` resets what the
`ON CONFLICT` list of `upsert_run` resets; the city key keeps its first value.

`req[r]` is where the handler or the loop body of the cron stands, `queue` and
`job[r]` where ARQ and the coroutine stand, `script` the run that
`mark_run_failed.py` has read. One action is one database statement with the code
around it. A statement may fail (`Fault`), at most `MaxFaults` times. Four kinds
of disaster can be switched on: the job timeout, a crash of a process, a job lost
by Redis, and a briefing agent that raises before it has written anything.
`enqueue_job` may raise with or without the job in the queue. `Age` moves a row
past three hours and past a day. A job can be cancelled from the first of the two
marks on, which is earlier than its four hours: it only adds behaviours.

ARQ is external. That a job is started once follows from `max_tries = 1`, the
bound on live coroutines from `max_jobs`.

### Coverage and Collection

`call[<<c, p>>]` is how the call of agent `c` in pass `p` ended and what it found
per category. `appended` counts how often the delta of a call is in
`raw_entities`, so that a doubled list can be told from a correct one, and
`RawEntities(k)` are the entities of a category that are in the list. The deltas
of pass 1 reach the state in `JoinCollection`, as the reducers merge them when
the superstep ends; those of pass 2 in the dispatcher's patch. An agent that
lets an exception out ends the graph in pass 1 (nothing of the superstep is
merged) and is an error like others in pass 2 (`return_exceptions=True`).

### Resolution

`cluster[e]` are the entities that the union-find finds with `e`. The visiting
order of the loops over pairs is kept (`IsNext`), because what layer 3 visits is a
list taken before the layer begins. Names and embeddings may compare in any way;
the only thing known is that an empty vector is similar to nothing. An entity
without a type is in no group and is dropped, as in the code. The write loop may
fail at the INSERT or at the Redis counter after it.

### Analysis

`at` is the node that is next. What each node hands on is kept as sets of
entities and of edges. `Working` is the expression `enriched_entities or
canonical_entities` that three nodes share. The write loop of the edges has four
outcomes per edge: no source, evidence refused, relationship refused, both
written. `schema` tells whether `entity_evidence.retrieved_at` is `NOT NULL`, as
the migrations say, or accepts NULL: on the former no edge is ever written (see
section 6), and the rest of the code is only reached on the latter. `Faulty =
FALSE` is a world in which no call to a database or an API fails.

### Sources, Collector and AgentCall

An agent is a sequence of sources, a source a number of calls with a *reading*:
which types of entity a record makes, for which reasons it is left out, and
whether the entities are restricted. Records fall into five classes; `null`, a
field that the code takes for granted and that is not there, raises in every
reading. `at` is the source that `run()` is asking, `asked` and `traced` are the
calls made and the calls with a search record, `kept` is `new_raw_entities`. The
order of record and reading is the code's: an answer is recorded, then read, so
that a reading that raises leaves its record (`AnswerBreaks`). `write_search_record`
is not guarded anywhere, so its failure raises too. `have` are the keys that are
configured; in pass 2 `queries` targeted ones replace the templates of a source.

### Enrichment

A source is a record of its habits: for which types it is asked, what counts
against its cap, after which answers it writes a search record, after which it
marks the entity as looked up, in which order it does so, whether reading an
answer can raise and whether it writes to `category_fields`. `fields` and `marks`
are what is in memory: `dict(entity)` is a shallow copy, so they belong to the
canonical entity whether the node succeeds or not. `Persist` is the scoring node,
the only one that stores them, and only in a discovery run; `Refresh` starts
again from what is stored.

### Rules and Inference

`Fields[step]` are the rules of an extractor: the types of the holder of a field,
the types that the name in it is looked up with, the type and quality of the edge
and its direction. `who` gives each entity a name and a type. A name is matched
letter by letter or is only alike (`Mention`); `FindByName` keeps the code's order
of attempts, including the exact match of another type. `Draft` and `Fresh` are
`_RelBuilder.add`. The extractors that derive edges from the draft (`CoInvestments`,
`CoFounders`, `WorksUnder`) read it when their turn comes, and others add to it
afterwards. Strengths are in ten-thousandths.

### Refresh and CityViews

A tick is the six hours of the cron and `StaleAfter` ticks make an entity stale:
three in the code, where 12 hours are a little more than two ticks because the
stamp is later than the load. `age` counts ticks since `last_verified`. `stage` is
where `_refresh_city` stands; each of its database calls may fail, and it may die
anywhere. `rows` are the live entities, those of all runs, since no step expires
any. `latest` is `get_latest_completed_run_for_city`. A request has parts that
look up that run by themselves (`Resolve`) and then query it (`Query`); everything
else may happen in between.

### Limiter

One action is one Redis command with the code up to the next. `count[w]` is the
counter of window `w`, which is a second or a minute; `key[c]` is the window whose
counter caller `c` looked at, which it increments even if it slept into a later
one. `sent[w]` are the first attempts that went out in a window: retries are
counted by nobody. `spend` is in calls. A day is longer than a behaviour.

## 3. The plan

Order of work, the most important behaviour first.

1. `RunLifecycle`: the row of a run and everybody who writes it. *Done, proved.*
2. `Collection`: fan-out, reducers, second pass. *Done, proved.*
3. `Resolution`: merging and the write loop. *Done, proved.*
4. `Analysis`: what the sequential half hands on and stores. *Done, proved.*
5. `Collector` with `Sources`: the call inside `Collection`, with the refinement of
   `AgentCall`. *Done, proved.*
6. `Refresh` and `CityViews`. *Done, safety proved, liveness checked.*
7. `Limiter`. *Done, proved.*
8. `Enrichment`. *Done, proved.*
9. `Rules` and `Inference`. *Done, proved.*
10. `UnionFind`: parent and rank with path compression, shown to implement the
    partition of `Resolution`. *Open.*
11. `FieldMerge`: the status-aware merge of the fields of a cluster as a fold,
    against a reference definition. *Open.*

Theorems still worth proving: what the operators of `UnionFind` and `FieldMerge`
compute, once they are there.

## 4. The runs

Every property of a passing run has a mutant, a definition changed as a plausible
bug would change it, under which TLC finds the property violated
(`PROJECT.json`, "mutants").

**`lifecycle_safety`** (1.6 million states): one run of the API and one of
the cron, one worker slot, one failing statement, all disasters. Two runs are
enough because they meet only in the worker's slots, the cron loop, the script and
the migration, and one slot makes them compete. One failing statement is enough to
reach every swallowed error; that two hide the briefing of a complete run is the
condition in `CompleteHasBriefing`.

- `CompleteHasBriefing`: a complete run has a briefing to show unless two
  statements failed, although both assessments are written under a guard and the
  row may be failed and completed again in between.
- `RowShape`: `completed_at` exactly on settled rows, `failure_reason` exactly on
  failed ones, through every sequence of upserts and updates.
- `JobsHaveRows`: a job never works without its row, so its final update is never
  a silent no-op.
- `CompleteMeansFinalized`: "complete" is seen only after the run's own job has
  ended by itself.
- `EndedJobsSettleTheirRun`, `RefusedRunsDoNotPend`: as long as no statement fails, a
  job that ends or a request that is refused leaves no row behind.
- `CompleteIsFinal`: nobody takes a complete run back, with two exceptions that
  the property names: the script, which writes what it read earlier, and the
  compensation of an `enqueue_job` that raised after the job was queued.
- `OnlyTheJobRevives`: a failed run changes its status only through its own job.

**`lifecycle_liveness`**: no disasters, no failed statements. `EventuallySettled`
asks that a registered run of the API, or a run of the cron that reached the
queue, is settled in the end. Fairness: weak for the steps of a handler and of a
coroutine, because the event loop resumes each of them; strong for taking a job,
because ARQ polls its queue whenever a slot is free, and slots become free and are
taken again. No fairness for requests, the script, the migration or time.

**`collection`** (12 thousand states): five agents, three of them known to the
dispatcher, four categories. One category expects nothing, as `illicit` does in
the configuration, and one that the dispatcher has no agent for expects one
entity, which the configuration does not ask of it: only then a target has no
agent and the dispatcher passes the run through. An agent finds less
than the threshold, exactly the threshold or enough; two agents report the same
category, so that one can make up for the other. Larger counts repeat one of
these cases.

- `CollectedOnce`: the delta of each successful call is in the list exactly once.
- `SecondPassIsForTheThin`: pass 2 repeats exactly the agents for which pass 1
  fell short.
- `RouteFollowsTargets`: the edge, with rounded scores, and the analysis, with
  exact ones, agree.
- `StatusesTellTheLastCall`: statuses and warnings tell how calls ended.
- `ReachesResolution`: under weak fairness of the graph's steps the graph is left,
  and once pass 2 has called an agent it is left for the resolution, whoever raises:
  pass 1 ends with the first exception, `gather` keeps it as an answer.

**`resolution`** (1.5 million states): three organisations and an entity of a
second type, one without a type, two ids on any of the organisations. Three
members are the smallest group in which a merge makes a later pair of the list
stale, and in which a chain joins two entities that were never compared.

- `DecisionsExplainClusters`: recorded merges generate exactly the clusters and
  none is superfluous.
- `SharedIdsMeet`: the promise of the docstring, for a layer that pairs every
  holder of an id with the first one only.
- `EveryPairIsJudged`: no pair of a type is forgotten, merges in the middle of
  the loop included.
- `StoreAgreesWithState`: what the run knows is in Postgres.

**`analysis`** (1.6 million states): two companies that may be one and a person;
edges in both directions of an undirected kind, one without a source, one from the
entity that may be merged away, a loop; both schemas, every call may fail.

- `MergedAwayIsGone`, `NobodyVanishes`: with two lists in the state, nobody
  reappears and nobody is lost, whichever node failed.
- `EdgesAreAccountedFor`, `NoEdgeIsStoredTwice`, `Neo4jFollowsPostgres`: the
  edges, from the draft to the two stores.
- `FlaggedAreBriefedOnlyTogether`: exactly when a flagged entity is briefed.

**`collector`** (54 thousand states): all eleven agents, any keys, no or up to three
targeted queries. No agent has more than six sources or four calls of one; the
community leader's limit of three targeted queries is reached.

- `ProofOfSearch`: in a call that succeeds, each search of each source has its
  record, or a record says why the source was not asked, and every entity comes
  from a recorded call.
- `SensitiveAreRestricted`: a reading that can make a politician, a political
  organisation or an illicit actor restricts it; the curated politicians are the
  exception, see section 6.
- `AnswersOnce`: the refinement. The call is one step of `AgentCall`, all or
  nothing, and it comes: weak fairness of the steps, because clients, Redis and
  Postgres all have timeouts and the event loop resumes who waits for them.

**`inference`** (3.7 million states): three entities, two names, three types, two
fields that lead to edges. A derived edge needs two fields and at most three
entities, so a third field adds nothing but repetitions.

- `WorksUnderIsTheChain`, `SharedTargetsAreLinked`: the derived edges of the complete
  draft are exactly those it implies, both ways, although they are derived in the
  middle of the extractors and from what happens to be drafted by then.
- `DelicateEdgesAreSensitive`: the duplicate test keeps the first draft of an edge
  and drops the others, which must not lose the mark.

**`limiter`** (620 thousand states, the callers being interchangeable): two callers,
seven requests, three windows, one retry, one failing command, a free domain with
a quota and a paid one with a budget. The overrun of two callers is already the
general case: `n` callers can each have passed the same check. The bounds are
reached in the run, and `Limiter_proofs` has them for every number.

- `DayOverrunIsBounded`, `WindowOverrunIsBounded`, `BudgetOverrunIsBounded`: by how
  much a check and a later increment can be overtaken. The budget can be exceeded
  by unbilled answers exactly as often as a command failed after an answer.

The run turns the deadlock check off: after its last request the model has nothing
left to do.

**`city`** (1 million states): two discovery runs, one that finds two entities and
one that finds none, one failure or crash, `Limit` 1 and `StaleAfter` 2, so that a
refresh takes half of what the city has and the other half has to wait its turn.
With 500 and 3 the same bound is 1500 entities.

- `AnswersAreWhole`: each part of an answer is about a run that was the latest at
  some moment of the request, is complete and shows all it found, although its
  parts look the run up separately.
- `OnlyEnrichedAreFresh`: whatever fails, an entity that was not enriched by a
  registered refresh is as stale as before.
- `EveryEntityIsRefreshed`: no entity starves although a refresh takes the most
  influential first, up to the capacity that the property names. Fairness: the
  cron fires (`Tick`) and a job goes on (`Work`); failures are bounded, as a refresh
  that fails forever refreshes nothing.

**`enrichment`** (1.2 million states): two entities, three of the sixteen sources in
a behaviour, chosen so that each source occurs, every cap 1. Sources share nothing
but the fields that a later one needs, which `needs` leaves open.

- `ProofOfEnrichment`: a node that succeeds has screened every entity in the OFAC
  list, in a refresh as well and whatever was marked; and no recorded source leaves
  data without a record, in memory or in Postgres, although what a failed node had
  read is kept by the shallow copy and stored by the scoring node.

Each machine may stop where the program does, after its last node; the modules
say so with an action `Ended` that stutters, so TLC's deadlock check stays on.
`RunLifecycle` never stops: the migration can always be applied again.

## 5. The proofs

Every safety invariant of a passing run, and every action property, is a theorem
for every value of the constants (`RunLifecycle_proofs`, `Collection_proofs`,
`Resolution_proofs`, `Analysis_proofs`, `Limiter_proofs`, `CityViews_proofs`,
`Collector_proofs`, `Inference_proofs`). The assumptions are the named `ASSUME`s of
the modules: finite sets of runs, agents, callers and entities, at least one worker
slot, categories that expect fewer than 2000 entities.

The argument is the same each time: an inductive invariant (`IInv`, or the lemma of
that role in `Analysis_proofs`) holds initially, is preserved by each action, one
step of the proof per action, and implies the property; `PTL` closes the
temporal part.

- **RunLifecycle.** The properties themselves are not inductive. Missing is what
  binds the request to the queue: an idle or registered request has no job
  (`UntouchedBeforeRequest`), a queued job was not started (`QueuedBeforeStarted`), the
  script holds a row that exists (`ScriptHoldsARow`). With them `CompleteMeansFinalized`
  is preserved by the upserts, which could otherwise meet a complete row. The two
  action properties follow from the invariant step by step.
- **Collection.** The invariant says at each node what calls may have happened
  (`CallsOfPass1`, `CallsOfPass2`), that scores and targets agree
  (`ScoresAgreeWithTargets`) and which phase belongs to the node. The arithmetic is
  a lemma of its own: `RoundingKeepsTheSide`, rounding to four decimals does not move
  a quotient across 0.6 if its denominator is below 2000. It is the reason why
  two different comparisons in two files are allowed to exist.
  `SecondPassIsForTheThin` compares what the gap analysis counts in `raw_entities`
  with the sum of what the agents reported, a fold over them. Induction over data
  is out of the prover's reach; instead the sets of agents for which the two differ
  are ordered by inclusion, a smallest one is not empty, and without one of its
  agents it would be smaller still. `CollectionIsBounded`: every step lowers `Left`,
  the calls not made plus the nodes ahead, so the two passes cannot go on forever.
  `CallsAreAnswers`: each call is one step of `AgentCall`; with `CallIsOneAnswer` of
  the collector, both sides of that promise are proved.
- **Resolution.** The heart is `DecisionsExplainClusters`, proved through the
  partition (`ClustersPartition`), the fact that a set no recorded merge leaves
  contains the clusters of its members (`NothingElseMerges`), and a count
  (`OneDecisionPerMerge`): each merge lowers the number of clusters by one. `LayerOne`
  and `LayerThree` say what the current loop has left to do. `LayerOneJoinsTheIds`
  is stronger than `SharedIdsMeet`: when layer 1 ends the clusters are exactly the
  classes of the chains of shared ids, nothing more, so that neither comparing with
  first holders only nor the order of the dictionary decides anything. It needs
  that merges are of types already begun and, in layer 1, of pairs that share an
  id (`LayerOneInv`). `ResolutionIsBounded`: every step lowers the visits left, at
  most three of each pair per type and one of each cluster. It needs that a type is
  begun only for its entities, so that finitely many are.
- **Analysis.** Merged entities are kept out of the draft by what `Working` is
  after dedup; the edges by a bookkeeping invariant over the write loop.
- **Limiter.** Each bound is an inequality between a counter and the number of
  callers at certain places: whoever is between the check and the increment of a
  day has passed the check, so count and callers on the way stay below quota plus
  callers. The window needs one such sum per window and one for those that count for
  an earlier one; the budget counts spent calls, calls on the way and failures.
  The lemmas are about the cardinality of `At(place)` when one caller moves.
- **CityViews.** The latest run is complete or a refresh; a part that has resolved
  a run resolved one that was latest, which is in `seen`; a complete run inserts no
  more, so what a query showed stays whole. A stamp is bound to the stage: before
  `Stamp` every entity of the batch is as stale as it was loaded.
- **Enrichment** (in `CityViews_proofs`, about `EnrichSpec`). Data of a recorded source
  are traced, in memory and in Postgres; the OFAC source is never marked and its
  place is the first in the order, so whoever has been passed by the cursor is
  screened.
- **Inference.** The draft only grows. Its edges are sound (of a known type, marked
  if delicate), no two are the same, and what matters is who drafts what when:
  before its deriving step there is no derived edge, and after it no extractor
  drafts a type that the step started from. For investments and foundations that
  is a fact about `Rules`, proved table by table; `WORKS_UNDER` is derived last, from
  everything. With it the derived edges of the complete draft are those it implies.
  `NothingIsDraftedTwice` is what `Analysis` takes for granted of its candidates.
- **Collector.** First a lemma per agent: its sources are `WellMade`, of a known
  kind, with a handful of calls and, unless curated, a careful reading. Then the
  invariant: sources before the cursor are `Done`, searches that were made have
  their record unless `run()` is raising (`Trail`), and an entity has the marks of
  the source that brought it (`Marked`). `CallIsOneAnswer` is the safety part of the
  refinement: initial states map to initial states and each step to `Answer` or a
  stutter. `CallIsBounded`: each step lowers the calls, sources and stages ahead, 135
  at most, and no source is asked the same twice.

Only model-checked: liveness (`EventuallySettled`, `ReachesResolution`,
`EveryEntityIsRefreshed` and that part of `AnswersOnce`), because fairness, `ENABLED`
and arguments about eventual progress are out of reach of the prover. Where a
theorem says that each step leaves less to do and that what is left is bounded
(`Collection`, `Collector`, `Resolution`), the part that remains is that some step is
always possible until the end, which TLC's deadlock check covers. What the two
properties of the runs that expect a violation say is false, and not proved. That
`Reported`, `Delta` and the tables of `Sources` and `Rules` are those of the code is
shown by their lines in `PROJECT.json`, not by a theorem.

## 6. Where the code and its words disagree

Two runs are counterexamples; the property of each is what the cited words say.

| Run | Words | What the run shows |
|---|---|---|
| `finding_ofac` | enrichment.py:706-707, the review queue sees the flag | the foreign key refuses the first of two statements |
| `finding_city` | app.py:915-916, 404 without intelligence or briefing | six hours later the refresh is the latest run: the briefing of the discovery run is a 404 |

The others, with lines and quotations in `PROJECT.json`, follow from the modelled
code directly:

| Where | Words | What the code does |
|---|---|---|
| worker.py:335 | :86, the run is marked failed on all exceptions | a job cancelled at its timeout leaves it "running" (`TimeOut` in `RunLifecycle`) |
| migration 009:33 | :9-10, older than three hours is orphaned | a live worker has four hours |
| briefing.py:707 | app.py:488, complete means briefing available | with both writes failed the run completes and its briefing is a 404; hence the `faults < 2` of `CompleteHasBriefing` |
| resolution.py:982 | :939-940, on any failure returns {} | a reply with a word as confidence ends the resolution |
| briefing.py:413 | state.py:120, flagged ids are excluded | when all are flagged, all are briefed |
| supabase.py:698 | relationship.py:2331-2336, evidence and relationship per draft | an explicit NULL in a NOT NULL column refuses all of them |
| base.py:391 | politician.py:108, all are restricted | the curated ones are not |
| corporate.py:799 | base.py:288-290, seeds enter unconditionally | a later source that raises drops them |
| nonprofit.py:384 | base.py:464, a record of every attempt | failed or empty details, and eight sources of the enrichment, write none |
| relationship.py:316 | :303, within the same type | an exact name of any type is taken |
| scheduler.py:14 | updates existing ones | what a refresh enriches is never stored |
| supabase.py:593 | scheduler.py:11, all known entities | 500 at a time; beyond 1500 some never |
| enrichment.py:272 | :270-271, not the state original | `category_fields` are shared with it |

Defects without contrary words are there as `code_bug`: two agents that call what
does not exist, edges that the schema cannot hold, quotas that nobody enforces, a
failed OFAC download that makes everybody look clean.

## 7. What is not modelled

- The contents of answers: which name, amount or location a record has. Sources and
  readings are modelled by the classes of records that the code tells apart; how alike
  two names are is arbitrary.
- The text of the briefing, scores, claims: nothing in the control depends on
  them beyond the verdicts, which are arbitrary.
- The merge of fields in resolution and dedup, and the union-find below the
  partition (open, 10 and 11): the first is data that no later step branches on, the
  second is modelled by what it computes.
- Several cities in one refresh, the bookkeeping columns of `continuous_schedule`, the
  lists of runs and cities, the review queue: single statements nobody decides on.
- Pages of a view while a run completes between two requests: each request is an
  answer of its own.
- Clients, LLM router, ETL, STIX export, dashboards: I/O and pure conversions.
- ChromaDB and the status keys in Redis: written, never read by the pipeline.

## 8. Running it

`tlc -config <run>.cfg <module>` with the pairs of `PROJECT.json`, and
`tlapm <module>_proofs.tla`. The longest run takes a bit more than a minute with
two workers, the longest proof a few minutes.

---------------------------- MODULE RunLifecycle ----------------------------
(***************************************************************************)
(* The life of one pipeline run, from the request to the settled row of    *)
(* agent_runs, with everybody who writes that row on the way:              *)
(*                                                                         *)
(*   - POST /runs (osint/api/app.py, trigger_run) and the weekly cron      *)
(*     (osint/scheduler.py, run_weekly_discovery) insert the row as        *)
(*     "pending" and enqueue an ARQ job;                                   *)
(*   - the worker (osint/workers/worker.py, run_osint_pipeline) connects   *)
(*     its clients, marks the row "running", runs the graph and marks the  *)
(*     row "failed" if an exception escapes;                               *)
(*   - inside the graph the orchestrator upserts the row again and the     *)
(*     briefing agent, last of all, writes the two briefing assessments    *)
(*     and completes the row;                                              *)
(*   - an operator can run mark_run_failed.py or migration 009.            *)
(*                                                                         *)
(* ARQ itself (queue, one delivery, the job timeout) is external and       *)
(* modelled from the settings worker.py gives it.  Each database statement *)
(* is one atomic step and may fail; the failed statements of one behaviour *)
(* are counted in `faults' and bounded by MaxFaults.  What the graph does  *)
(* between the orchestrator and the briefing is the subject of             *)
(* Collection and Analysis and a single step here.                         *)
(***************************************************************************)
EXTENDS RunStore, Naturals, FiniteSets

CONSTANTS
    ApiRuns,      \* runs requested through POST /runs
    WeeklyRuns,   \* runs the weekly cron creates, one per scheduled city
    NoRun,        \* "the script has no run in hand"
    MaxJobs,      \* WorkerSettings.max_jobs
    MaxFaults,    \* bound on failed statements
    Disasters     \* which of DisasterKinds can happen

Runs == ApiRuns \cup WeeklyRuns

DisasterKinds == {"timeout", "crash", "queue_loss", "briefing_error"}

ASSUME RunsAssumption ==
    /\ ApiRuns \cap WeeklyRuns = {}
    /\ NoRun \notin Runs
    /\ IsFiniteSet(Runs)

ASSUME BoundsAssumption ==
    /\ MaxJobs \in Nat \ {0}
    /\ MaxFaults \in Nat
    /\ Disasters \subseteq DisasterKinds

VARIABLES
    row,      \* agent_runs: the row of each run
    brief,    \* analytical_assessments: which briefing records a run has
    age,      \* started_at: 0 recent, 1 over three hours ago, 2 over a day
    req,      \* where the request handler, or the cron's loop body, is
    queue,    \* ARQ: jobs enqueued and not yet taken
    job,      \* where the worker's coroutine for the run is
    booked,   \* continuous_schedule.last_discovery_run_id was set to the run
    script,   \* run that mark_run_failed.py has read and decided to fail
    faults    \* statements that failed so far

vars == <<row, brief, age, req, queue, job, booked, script, faults>>

ReqState == {"idle", "registered", "unqueued", "accepted", "refused", "died"}

JobState == {"none", "connecting", "marking", "orchestrating", "collecting",
             "drafting", "summary", "full", "finalizing", "raised",
             "done", "unfinished", "timedout", "crashed"}

\* The coroutine exists: it holds one of the worker's max_jobs slots.
Live(r) == job[r] \notin {"none", "done", "unfinished", "timedout", "crashed"}

TypeOK ==
    /\ row    \in [Runs -> Row]
    /\ brief  \in [Runs -> SUBSET {"final_briefing", "final_briefing_full"}]
    /\ age    \in [Runs -> 0..2]
    /\ req    \in [Runs -> ReqState]
    /\ queue  \subseteq Runs
    /\ job    \in [Runs -> JobState]
    /\ booked \subseteq WeeklyRuns
    /\ script \in Runs \cup {NoRun}
    /\ faults \in 0..MaxFaults

Init ==
    /\ row    = [r \in Runs |-> NoRow]
    /\ brief  = [r \in Runs |-> {}]
    /\ age    = [r \in Runs |-> 0]
    /\ req    = [r \in Runs |-> "idle"]
    /\ queue  = {}
    /\ job    = [r \in Runs |-> "none"]
    /\ booked = {}
    /\ script = NoRun
    /\ faults = 0

-----------------------------------------------------------------------------
(* The statements.  A statement that fails leaves the table alone and       *)
(* costs one of the MaxFaults faults.                                       *)

Fault == /\ faults < MaxFaults
         /\ faults' = faults + 1

Upsert(r, status, kind, scheduled, key) ==
    /\ row' = [row EXCEPT ![r] = Upserted(@, status, kind, scheduled, key)]
    /\ UNCHANGED faults

Complete(r, status, totals) ==
    /\ row' = [row EXCEPT ![r] = Completed(@, status, totals)]
    /\ UNCHANGED faults

Move(r, from, to) == /\ job[r] = from
                     /\ job' = [job EXCEPT ![r] = to]

-----------------------------------------------------------------------------
(* Requests: trigger_run, and the body of run_weekly_discovery's loop.      *)

\* The weekly loop handles one city at a time.
CronFree == \A q \in WeeklyRuns : req[q] # "registered"

\* The row is inserted as "pending".
Register(r) ==
    /\ req[r] = "idle"
    /\ \/ /\ r \in ApiRuns
          /\ Upsert(r, "pending", "manual", FALSE, "name2")
       \/ /\ r \in WeeklyRuns /\ CronFree
          /\ Upsert(r, "pending", "discovery", TRUE, "iso2")
    /\ req' = [req EXCEPT ![r] = "registered"]
    /\ UNCHANGED <<brief, age, queue, job, booked, script>>

\* Mutant: the failed insert is logged and ignored, as the worker's is.
RegisterFails_Swallowed(r) ==
    /\ req[r] = "idle"
    /\ r \in WeeklyRuns => CronFree
    /\ Fault
    /\ req' = [req EXCEPT ![r] = "registered"]
    /\ UNCHANGED <<row, brief, age, queue, job, booked, script>>

\* The insert fails: HTTP 500, or the city goes to the cron's failed list.
RegisterFails(r) ==
    /\ req[r] = "idle"
    /\ r \in WeeklyRuns => CronFree
    /\ Fault
    /\ req' = [req EXCEPT ![r] = "refused"]
    /\ UNCHANGED <<row, brief, age, queue, job, booked, script>>

\* HTTP 503: the API has no queue connection, nothing is written.
RefuseWithoutPool(r) ==
    /\ req[r] = "idle" /\ r \in ApiRuns
    /\ req' = [req EXCEPT ![r] = "refused"]
    /\ UNCHANGED <<row, brief, age, queue, job, booked, script, faults>>

\* The job reaches the queue.  The cron also books the run in
\* continuous_schedule, an update whose failure it ignores.
Enqueue(r) ==
    /\ req[r] = "registered"
    /\ queue' = queue \cup {r}
    /\ req' = [req EXCEPT ![r] = "accepted"]
    /\ \/ /\ booked' = IF r \in WeeklyRuns THEN booked \cup {r} ELSE booked
          /\ UNCHANGED faults
       \/ /\ r \in WeeklyRuns
          /\ Fault
          /\ UNCHANGED booked
    /\ UNCHANGED <<row, brief, age, job, script>>

\* enqueue_job raises, with the job in the queue or not: Redis may have run
\* the command before the connection broke.  The API goes on to mark the run
\* failed, the cron only puts the city on its failed list.
EnqueueFails(r) ==
    /\ req[r] = "registered"
    /\ queue' \in {queue, queue \cup {r}}
    /\ req' = [req EXCEPT ![r] = IF r \in ApiRuns THEN "unqueued" ELSE "refused"]
    /\ UNCHANGED <<row, brief, age, job, booked, script, faults>>

\* Mutant: the 503 is raised without marking the run failed.
CompensateEnqueue_OnlyRaises(r) ==
    /\ req[r] = "unqueued"
    /\ req' = [req EXCEPT ![r] = "refused"]
    /\ UNCHANGED <<row, brief, age, queue, job, booked, script, faults>>

\* The API's compensation; if the statement fails too, its exception is what
\* the client sees.
CompensateEnqueue(r) ==
    /\ req[r] = "unqueued"
    /\ \/ Complete(r, "failed", FALSE)
       \/ Fault /\ UNCHANGED row
    /\ req' = [req EXCEPT ![r] = "refused"]
    /\ UNCHANGED <<brief, age, queue, job, booked, script>>

\* The process of the handler or of the cron dies between two statements.
RequesterDies(r) ==
    /\ "crash" \in Disasters
    /\ req[r] \in {"registered", "unqueued"}
    /\ req' = [req EXCEPT ![r] = "died"]
    /\ UNCHANGED <<row, brief, age, queue, job, booked, script, faults>>

-----------------------------------------------------------------------------
(* The worker's coroutine.                                                  *)

\* ARQ starts a queued job; max_tries = 1, so a job is started only once.
TakeJob(r) ==
    /\ r \in queue
    /\ Cardinality({q \in Runs : Live(q)}) < MaxJobs
    /\ queue' = queue \ {r}
    /\ Move(r, "none", "connecting")
    /\ UNCHANGED <<row, brief, age, req, booked, script, faults>>

Connect(r) ==
    /\ Move(r, "connecting", "marking")
    /\ UNCHANGED <<row, brief, age, req, queue, booked, script, faults>>

\* One of the five clients does not connect; the run is marked failed if the
\* database is not the one that is missing, and the error swallowed if it is.
ConnectFails(r) ==
    /\ Move(r, "connecting", "done")
    /\ \/ Complete(r, "failed", FALSE)
       \/ Fault /\ UNCHANGED row
    /\ UNCHANGED <<brief, age, req, queue, booked, script>>

\* upsert_run(run_status = "running"); a failure is logged and ignored.
\* run_mode, run_type and scheduled are not passed and take their defaults.
MarkRunning(r) ==
    /\ Move(r, "marking", "orchestrating")
    /\ \/ Upsert(r, "running", "manual", FALSE, "iso2")
       \/ Fault /\ UNCHANGED row
    /\ UNCHANGED <<brief, age, req, queue, booked, script>>

\* The orchestrator node upserts the row again.  If that fails the agent's
\* error is recorded and the graph goes on.
Orchestrate(r) ==
    /\ Move(r, "orchestrating", "collecting")
    /\ \/ Upsert(r, "running", "manual", FALSE, "iso2")
       \/ Fault /\ UNCHANGED row
    /\ UNCHANGED <<brief, age, req, queue, booked, script>>

\* Mutant: a collection agent marks the run "running" once more.
Collect_TouchesRow(r) ==
    /\ Move(r, "collecting", "drafting")
    /\ Upsert(r, "running", "manual", FALSE, "iso2")
    /\ UNCHANGED <<brief, age, req, queue, booked, script>>

\* All the nodes from the collection agents to verification.
Collect(r) ==
    /\ Move(r, "collecting", "drafting")
    /\ UNCHANGED <<row, brief, age, req, queue, booked, script, faults>>

\* An exception escapes a node: set_agent_status or _on_error raised.
GraphRaises(r) ==
    /\ \E s \in {"orchestrating", "collecting", "drafting"} : Move(r, s, "raised")
    /\ UNCHANGED <<row, brief, age, req, queue, booked, script, faults>>

\* The briefing agent drafts its sections ...
Draft(r) ==
    /\ Move(r, "drafting", "summary")
    /\ UNCHANGED <<row, brief, age, req, queue, booked, script, faults>>

\* Mutant: a draft that broke is finalized like any other.
DraftFails_Finalizes(r) ==
    /\ "briefing_error" \in Disasters
    /\ Move(r, "drafting", "finalizing")
    /\ UNCHANGED <<row, brief, age, req, queue, booked, script, faults>>

\* ... or breaks before it wrote anything: BaseAgent.__call__ turns the
\* exception into an error patch, the graph ends and so does the job.
DraftFails(r) ==
    /\ "briefing_error" \in Disasters
    /\ Move(r, "drafting", "unfinished")
    /\ UNCHANGED <<row, brief, age, req, queue, booked, script, faults>>

\* _write_briefing_assessment and _write_full_briefing swallow their errors.
WriteAssessment(r, from, to, kind) ==
    /\ Move(r, from, to)
    /\ \/ /\ brief' = [brief EXCEPT ![r] = @ \cup {kind}]
          /\ UNCHANGED faults
       \/ Fault /\ UNCHANGED brief
    /\ UNCHANGED <<row, age, req, queue, booked, script>>

\* Mutant: the run is completed before its second assessment is written.
WriteSummary_Completes(r) ==
    /\ Move(r, "summary", "full")
    /\ brief' = [brief EXCEPT ![r] = @ \cup {"final_briefing"}]
    /\ Complete(r, "complete", TRUE)
    /\ UNCHANGED <<age, req, queue, booked, script>>

WriteSummary(r) == WriteAssessment(r, "summary", "full", "final_briefing")
WriteFull(r)    == WriteAssessment(r, "full", "finalizing", "final_briefing_full")

\* _finalize_run: the only statement of a pipeline run that says "complete".
FinalizeRun(r) ==
    /\ Move(r, "finalizing", "done")
    /\ \/ Complete(r, "complete", TRUE)
       \/ Fault /\ UNCHANGED row
    /\ UNCHANGED <<brief, age, req, queue, booked, script>>

\* Mutant: the exception is logged and the row left as it is.
HandleException_OnlyLogs(r) ==
    /\ Move(r, "raised", "done")
    /\ UNCHANGED <<row, brief, age, req, queue, booked, script, faults>>

\* run_osint_pipeline's except clause.
HandleException(r) ==
    /\ Move(r, "raised", "done")
    /\ \/ Complete(r, "failed", FALSE)
       \/ Fault /\ UNCHANGED row
    /\ UNCHANGED <<brief, age, req, queue, booked, script>>

\* ARQ cancels a job after job_timeout = 4 h.  CancelledError is not an
\* Exception: the coroutine disconnects its clients and is gone.
TimeOut(r) ==
    /\ "timeout" \in Disasters
    /\ Live(r) /\ age[r] > 0
    /\ job' = [job EXCEPT ![r] = "timedout"]
    /\ UNCHANGED <<row, brief, age, req, queue, booked, script, faults>>

\* The worker process dies; a redelivered job has used up its only try.
Crash(r) ==
    /\ "crash" \in Disasters
    /\ Live(r)
    /\ job' = [job EXCEPT ![r] = "crashed"]
    /\ UNCHANGED <<row, brief, age, req, queue, booked, script, faults>>

\* Redis loses a queued job.
LoseJob(r) ==
    /\ "queue_loss" \in Disasters
    /\ r \in queue
    /\ queue' = queue \ {r}
    /\ UNCHANGED <<row, brief, age, req, job, booked, script, faults>>

-----------------------------------------------------------------------------
(* Time and the operator.                                                   *)

Age(r) ==
    /\ row[r].status # "absent" /\ age[r] < 2
    /\ age' = [age EXCEPT ![r] = @ + 1]
    /\ UNCHANGED <<row, brief, req, queue, job, booked, script, faults>>

\* mark_run_failed.py reads the row and stops if it is settled ...
ScriptReads(r) ==
    /\ script = NoRun
    /\ row[r].status \notin {"absent", "failed", "complete"}
    /\ script' = r
    /\ UNCHANGED <<row, brief, age, req, queue, job, booked, faults>>

\* ... and later, in a statement of its own, fails it.
ScriptWrites ==
    /\ script # NoRun
    /\ row' = [row EXCEPT ![script] = FailedByHand(@)]
    /\ script' = NoRun
    /\ UNCHANGED <<brief, age, req, queue, job, booked, faults>>

\* Mutant: age alone makes a run an orphan.
Orphaned_AnyOldRun(r) == row[r].status # "failed" /\ age[r] >= 1

\* Migration 009: one transaction over the whole table.
Orphaned(r) == \/ row[r].status = "running" /\ age[r] >= 1
               \/ row[r].status = "pending" /\ age[r] = 2

CleanedRow(r) ==
    LET rekeyed == [row[r] EXCEPT !.key = "iso2"]
    IN  IF Orphaned(r) THEN FailedByHand(rekeyed) ELSE rekeyed

Cleanup ==
    /\ row' = [r \in Runs |-> CleanedRow(r)]
    /\ UNCHANGED <<brief, age, req, queue, job, booked, script, faults>>

-----------------------------------------------------------------------------
Request(r) == \/ Register(r) \/ RegisterFails(r) \/ RefuseWithoutPool(r)
              \/ Enqueue(r) \/ EnqueueFails(r) \/ CompensateEnqueue(r)

Work(r) == \/ Connect(r) \/ ConnectFails(r) \/ MarkRunning(r) \/ Orchestrate(r)
           \/ Collect(r) \/ GraphRaises(r) \/ Draft(r) \/ DraftFails(r)
           \/ WriteSummary(r) \/ WriteFull(r) \/ FinalizeRun(r)
           \/ HandleException(r)

Disaster(r) == RequesterDies(r) \/ TimeOut(r) \/ Crash(r) \/ LoseJob(r)

Next ==
    \/ \E r \in Runs : \/ Request(r) \/ TakeJob(r) \/ Work(r) \/ Disaster(r)
                       \/ Age(r) \/ ScriptReads(r)
    \/ ScriptWrites
    \/ Cleanup

Spec == Init /\ [][Next]_vars

\* Handlers and coroutines are scheduled by an event loop that lets every one
\* of them move on, and ARQ polls its queue.  Nobody is obliged to send a
\* request, to run the script or to apply the migration.
Fairness ==
    \A r \in Runs : /\ WF_vars(req[r] # "idle" /\ Request(r))
                    /\ SF_vars(TakeJob(r))
                    /\ WF_vars(Work(r))

FairSpec == Spec /\ Fairness

-----------------------------------------------------------------------------
(* Safety properties.                                                       *)

\* Every row is well formed, whatever sequence of upserts, completions, script
\* and migration wrote it: completed_at is set exactly on the settled rows and
\* failure_reason exactly on the failed ones.  GET /cities/* skips a complete
\* row without completed_at.
RowShape == \A r \in Runs : WellFormed(row[r])

\* A job in the queue or started has its row, so the worker's complete_run,
\* an UPDATE by run_id, is never a silent no-op.
JobsHaveRows ==
    \A r \in Runs : r \in queue \/ job[r] # "none" => row[r].status # "absent"

\* "complete" is only ever seen after the run's own job has gone through the
\* briefing agent and ended by itself: not while the job still works, not
\* after a timeout or a crash.
CompleteMeansFinalized ==
    \A r \in Runs : row[r].status = "complete" => job[r] = "done"

\* As long as no statement failed, a job that ended by itself, its briefing
\* drafted or an exception handled, leaves its run settled: every exception
\* that escapes the graph or the connection phase is turned into "failed"
\* (worker.py, both except clauses), every drafted briefing into "complete".
EndedJobsSettleTheirRun ==
    faults = 0 => \A r \in Runs : job[r] = "done" => Settled(row[r])

\* A refused API request does not leave its row hanging in "pending"
\* (app.py:395), as long as the database works.
RefusedRunsDoNotPend ==
    faults = 0 => \A r \in ApiRuns : req[r] = "refused" => row[r].status # "pending"

\* GET /runs/{run_id}/briefing, for a run that exists: get_run's status
\* decides between 409 and the search for an assessment, get_briefing prefers
\* the full one and falls back to the summary.
BriefingResponse(r) ==
    IF ~Readable(row[r])                         THEN "409"
    ELSE IF "final_briefing_full" \in brief[r]   THEN "full"
    ELSE IF "final_briefing" \in brief[r]        THEN "summary"
    ELSE "404"

\* A complete run has its briefing although both assessments are written under
\* a guard that only logs: one of them is there unless two statements failed,
\* whatever became of the job and the row in between.
CompleteHasBriefing ==
    faults < 2 => \A r \in Runs : row[r].status = "complete" => BriefingResponse(r) # "404"

\* What binds the assessments to the job that writes them.
BriefingsKeepUp ==
    \A r \in Runs :
        /\ job[r] = "full" /\ faults = 0 => brief[r] # {}
        /\ job[r] = "finalizing" /\ faults < 2 => brief[r] # {}
        /\ row[r].status = "complete" /\ faults < 2 => brief[r] # {}

\* The inductive invariant of the safety theorems.  A run whose request is
\* still at its start has left no trace, a job waits in the queue only before
\* it was started, and the script holds an existing run.
UntouchedBeforeRequest ==
    \A r \in Runs :
        /\ req[r] = "idle" => row[r].status = "absent"
        /\ req[r] \in {"idle", "registered"} => r \notin queue /\ job[r] = "none"
        /\ req[r] \in {"registered", "unqueued"} => row[r].status # "absent"

QueuedBeforeStarted == \A r \in queue : job[r] = "none"

ScriptHoldsARow == script # NoRun => row[script].status # "absent"

IInv == /\ TypeOK
        /\ RowShape
        /\ JobsHaveRows
        /\ CompleteMeansFinalized
        /\ EndedJobsSettleTheirRun
        /\ RefusedRunsDoNotPend
        /\ UntouchedBeforeRequest
        /\ QueuedBeforeStarted
        /\ ScriptHoldsARow

-----------------------------------------------------------------------------
(* Action properties.                                                       *)

\* A complete run stays complete: no late "running", no second delivery, no
\* exception handler and no cleanup takes it back.  Two stale writers are the
\* exceptions: mark_run_failed.py, which writes on what it read in an earlier
\* statement, and the API's compensation of an enqueue_job that raised although
\* the job had reached the queue.
StaleWriter(r) == script = r \/ req[r] = "unqueued"

CompleteIsFinal ==
    [][\A r \in Runs : row[r].status = "complete" =>
            row'[r].status = "complete" \/ StaleWriter(r)]_vars

\* A run marked failed while its job still waits or works can come back, but
\* only through that job's own two "running" upserts or its final "complete".
OnlyTheJobRevives ==
    [][\A r \in Runs : row[r].status = "failed" /\ row'[r].status # "failed" =>
            job[r] \in {"marking", "orchestrating", "finalizing"}]_vars

-----------------------------------------------------------------------------
(* Liveness.                                                                *)

\* Without disasters and failed statements every run the API registered is
\* settled in the end, accepted or not, and so is every run the cron got into
\* the queue: no order of handlers, jobs sharing max_jobs slots, script and
\* migration keeps one "pending" or "running".
EventuallySettled ==
    \A r \in Runs : row[r].status = "pending" /\ (r \in ApiRuns \/ r \in queue)
                    ~> Settled(row[r])

=============================================================================

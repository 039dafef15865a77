------------------------ MODULE RunLifecycle_proofs ------------------------
(***************************************************************************)
(* The safety properties of RunLifecycle hold for any number of runs, any  *)
(* worker size, any number of failed statements and any set of disasters.  *)
(***************************************************************************)
EXTENDS RunLifecycle, TLAPS

\* What upsert_run makes of a row: it is well formed and neither settled nor
\* absent.
LEMMA UpsertedIsOpen ==
    ASSUME NEW old \in Row, NEW status \in {"pending", "running"},
           NEW kind \in RunKind, NEW scheduled \in BOOLEAN, NEW key \in CityKey
    PROVE  /\ Upserted(old, status, kind, scheduled, key) \in Row
           /\ Upserted(old, status, kind, scheduled, key).status = status
           /\ WellFormed(Upserted(old, status, kind, scheduled, key))
BY DEF Row, RunStatus, Upserted, WellFormed, Settled

\* What complete_run makes of a row: a missing one stays missing, any other is
\* settled with the status asked for, and well-formedness is kept.
LEMMA CompletedIsSettled ==
    ASSUME NEW old \in Row, NEW status \in {"complete", "failed"},
           NEW totals \in BOOLEAN
    PROVE  /\ Completed(old, status, totals) \in Row
           /\ Completed(old, status, totals).status =
                  IF old.status = "absent" THEN "absent" ELSE status
           /\ WellFormed(old) => WellFormed(Completed(old, status, totals))
BY DEF Row, RunStatus, Completed, WellFormed, Settled

\* What an operator's UPDATE makes of a row.
LEMMA FailedByHandIsFailed ==
    ASSUME NEW old \in Row
    PROVE  /\ FailedByHand(old) \in Row
           /\ FailedByHand(old).status = "failed"
           /\ WellFormed(FailedByHand(old))
BY DEF Row, RunStatus, FailedByHand, WellFormed, Settled

\* The same of the two statements, as the actions use them.
LEMMA UpsertStep ==
    ASSUME TypeOK, NEW r \in Runs, NEW status \in {"pending", "running"},
           NEW kind \in RunKind, NEW scheduled \in BOOLEAN, NEW key \in CityKey,
           Upsert(r, status, kind, scheduled, key)
    PROVE  \E new \in Row : /\ row' = [row EXCEPT ![r] = new]
                            /\ new.status = status
                            /\ WellFormed(new)
<1> row[r] \in Row
  BY DEF TypeOK
<1> QED
  BY UpsertedIsOpen DEF Upsert

\* (for complete_run)
LEMMA CompleteStep ==
    ASSUME TypeOK, RowShape, NEW r \in Runs, NEW status \in {"complete", "failed"},
           NEW totals \in BOOLEAN, Complete(r, status, totals)
    PROVE  \E new \in Row :
               /\ row' = [row EXCEPT ![r] = new]
               /\ new.status = IF row[r].status = "absent" THEN "absent" ELSE status
               /\ WellFormed(new)
<1> row[r] \in Row /\ WellFormed(row[r])
  BY DEF TypeOK, RowShape
<1> QED
  BY CompletedIsSettled DEF Complete

\* The invariant holds of the empty table.
LEMMA InitIInv == Init => IInv
BY RunsAssumption, BoundsAssumption
DEF Init, IInv, TypeOK, RowShape, JobsHaveRows, CompleteMeansFinalized,
    EndedJobsSettleTheirRun, RefusedRunsDoNotPend, UntouchedBeforeRequest,
    QueuedBeforeStarted, ScriptHoldsARow, NoRow, Row, RunStatus, RunKind, CityKey,
    WellFormed, Settled, ReqState, JobState, Runs

(***************************************************************************)
(* One lemma per action: it keeps the inductive invariant.  The lemmas     *)
(* speak of all parts of the invariant, so these are visible throughout    *)
(* the section; a leaf names what it needs beyond them.                    *)
(***************************************************************************)

USE DEF IInv, TypeOK, RowShape, JobsHaveRows, CompleteMeansFinalized,
        EndedJobsSettleTheirRun, RefusedRunsDoNotPend, UntouchedBeforeRequest,
        QueuedBeforeStarted, ScriptHoldsARow, Settled, ReqState, JobState

LEMMA RegisterStep == ASSUME IInv, NEW r \in Runs, Register(r) PROVE IInv'
<1>1. PICK new \in Row : /\ row' = [row EXCEPT ![r] = new]
                        /\ new.status = "pending"
                        /\ WellFormed(new)
  BY UpsertStep DEF Register, RunKind, CityKey
<1>2. faults' = faults
  BY DEF Register, Upsert
<1> QED
  BY <1>1, <1>2 DEF Register

LEMMA RegisterFailsStep == ASSUME IInv, NEW r \in Runs, RegisterFails(r) PROVE IInv'
BY BoundsAssumption DEF RegisterFails, Fault

LEMMA RefuseWithoutPoolStep == ASSUME IInv, NEW r \in Runs, RefuseWithoutPool(r) PROVE IInv'
BY DEF RefuseWithoutPool

LEMMA EnqueueStep == ASSUME IInv, NEW r \in Runs, Enqueue(r) PROVE IInv'
BY BoundsAssumption DEF Enqueue, Fault

LEMMA EnqueueFailsStep == ASSUME IInv, NEW r \in Runs, EnqueueFails(r) PROVE IInv'
BY DEF EnqueueFails

LEMMA CompensateEnqueueStep == ASSUME IInv, NEW r \in Runs, CompensateEnqueue(r) PROVE IInv'
<1>1. CASE Fault /\ UNCHANGED row
  BY <1>1, BoundsAssumption DEF CompensateEnqueue, Fault
<1>2. CASE Complete(r, "failed", FALSE)
  <2>1. PICK new \in Row :
            /\ row' = [row EXCEPT ![r] = new]
            /\ new.status = IF row[r].status = "absent" THEN "absent" ELSE "failed"
            /\ WellFormed(new)
    BY <1>2, CompleteStep
  <2>2. faults' = faults
    BY <1>2 DEF Complete
  <2> QED
    BY <2>1, <2>2 DEF CompensateEnqueue
<1> QED
  BY <1>1, <1>2 DEF CompensateEnqueue

LEMMA RequesterDiesStep == ASSUME IInv, NEW r \in Runs, RequesterDies(r) PROVE IInv'
BY DEF RequesterDies

LEMMA TakeJobStep == ASSUME IInv, NEW r \in Runs, TakeJob(r) PROVE IInv'
BY DEF TakeJob, Move

LEMMA ConnectStep == ASSUME IInv, NEW r \in Runs, Connect(r) PROVE IInv'
BY DEF Connect, Move

LEMMA ConnectFailsStep == ASSUME IInv, NEW r \in Runs, ConnectFails(r) PROVE IInv'
<1>1. CASE Fault /\ UNCHANGED row
  BY <1>1, BoundsAssumption DEF ConnectFails, Fault, Move
<1>2. CASE Complete(r, "failed", FALSE)
  <2>1. PICK new \in Row :
            /\ row' = [row EXCEPT ![r] = new]
            /\ new.status = IF row[r].status = "absent" THEN "absent" ELSE "failed"
            /\ WellFormed(new)
    BY <1>2, CompleteStep
  <2>2. faults' = faults
    BY <1>2 DEF Complete
  <2> QED
    BY <2>1, <2>2 DEF ConnectFails, Move
<1> QED
  BY <1>1, <1>2 DEF ConnectFails

LEMMA MarkRunningStep == ASSUME IInv, NEW r \in Runs, MarkRunning(r) PROVE IInv'
<1>1. CASE Fault /\ UNCHANGED row
  BY <1>1, BoundsAssumption DEF MarkRunning, Fault, Move
<1>2. CASE Upsert(r, "running", "manual", FALSE, "iso2")
  <2>1. PICK new \in Row : /\ row' = [row EXCEPT ![r] = new]
                          /\ new.status = "running"
                          /\ WellFormed(new)
    BY <1>2, UpsertStep DEF RunKind, CityKey
  <2>2. faults' = faults
    BY <1>2 DEF Upsert
  <2> QED
    BY <2>1, <2>2 DEF MarkRunning, Move
<1> QED
  BY <1>1, <1>2 DEF MarkRunning

LEMMA OrchestrateStep == ASSUME IInv, NEW r \in Runs, Orchestrate(r) PROVE IInv'
<1>1. CASE Fault /\ UNCHANGED row
  BY <1>1, BoundsAssumption DEF Orchestrate, Fault, Move
<1>2. CASE Upsert(r, "running", "manual", FALSE, "iso2")
  <2>1. PICK new \in Row : /\ row' = [row EXCEPT ![r] = new]
                          /\ new.status = "running"
                          /\ WellFormed(new)
    BY <1>2, UpsertStep DEF RunKind, CityKey
  <2>2. faults' = faults
    BY <1>2 DEF Upsert
  <2> QED
    BY <2>1, <2>2 DEF Orchestrate, Move
<1> QED
  BY <1>1, <1>2 DEF Orchestrate

LEMMA CollectStep == ASSUME IInv, NEW r \in Runs, Collect(r) PROVE IInv'
BY DEF Collect, Move

LEMMA GraphRaisesStep == ASSUME IInv, NEW r \in Runs, GraphRaises(r) PROVE IInv'
BY DEF GraphRaises, Move

LEMMA DraftStep == ASSUME IInv, NEW r \in Runs, Draft(r) PROVE IInv'
BY DEF Draft, Move

LEMMA DraftFailsStep == ASSUME IInv, NEW r \in Runs, DraftFails(r) PROVE IInv'
BY DEF DraftFails, Move

LEMMA WriteAssessmentStep ==
    ASSUME IInv, NEW r \in Runs, NEW kind \in {"final_briefing", "final_briefing_full"},
           NEW from \in {"summary", "full"}, NEW to \in {"full", "finalizing"},
           WriteAssessment(r, from, to, kind)
    PROVE  IInv'
BY RunsAssumption, BoundsAssumption
DEF WriteAssessment, Fault, Move

LEMMA FinalizeRunStep == ASSUME IInv, NEW r \in Runs, FinalizeRun(r) PROVE IInv'
<1>1. CASE Fault /\ UNCHANGED row
  BY <1>1, BoundsAssumption DEF FinalizeRun, Fault, Move
<1>2. CASE Complete(r, "complete", TRUE)
  <2>1. PICK new \in Row :
            /\ row' = [row EXCEPT ![r] = new]
            /\ new.status = IF row[r].status = "absent" THEN "absent" ELSE "complete"
            /\ WellFormed(new)
    BY <1>2, CompleteStep
  <2>2. faults' = faults
    BY <1>2 DEF Complete
  <2> QED
    BY <2>1, <2>2 DEF FinalizeRun, Move
<1> QED
  BY <1>1, <1>2 DEF FinalizeRun

LEMMA HandleExceptionStep == ASSUME IInv, NEW r \in Runs, HandleException(r) PROVE IInv'
<1>1. CASE Fault /\ UNCHANGED row
  BY <1>1, BoundsAssumption DEF HandleException, Fault, Move
<1>2. CASE Complete(r, "failed", FALSE)
  <2>1. PICK new \in Row :
            /\ row' = [row EXCEPT ![r] = new]
            /\ new.status = IF row[r].status = "absent" THEN "absent" ELSE "failed"
            /\ WellFormed(new)
    BY <1>2, CompleteStep
  <2>2. faults' = faults
    BY <1>2 DEF Complete
  <2> QED
    BY <2>1, <2>2 DEF HandleException, Move
<1> QED
  BY <1>1, <1>2 DEF HandleException

LEMMA TimeOutStep == ASSUME IInv, NEW r \in Runs, TimeOut(r) PROVE IInv'
BY DEF TimeOut, Live

LEMMA CrashStep == ASSUME IInv, NEW r \in Runs, Crash(r) PROVE IInv'
BY DEF Crash, Live

LEMMA LoseJobStep == ASSUME IInv, NEW r \in Runs, LoseJob(r) PROVE IInv'
BY DEF LoseJob

LEMMA AgeStep == ASSUME IInv, NEW r \in Runs, Age(r) PROVE IInv'
BY DEF Age

LEMMA ScriptReadsStep == ASSUME IInv, NEW r \in Runs, ScriptReads(r) PROVE IInv'
BY RunsAssumption, BoundsAssumption
DEF ScriptReads

LEMMA ScriptWritesStep == ASSUME IInv, ScriptWrites PROVE IInv'
<1>1. script \in Runs /\ row[script] \in Row
  BY DEF ScriptWrites, IInv, TypeOK
<1>2. PICK new \in Row : /\ row' = [row EXCEPT ![script] = new]
                        /\ new.status = "failed"
                        /\ WellFormed(new)
  BY <1>1, FailedByHandIsFailed DEF ScriptWrites
<1> QED
  BY <1>1, <1>2 DEF ScriptWrites

LEMMA CleanupStep == ASSUME IInv, Cleanup PROVE IInv'
<1>1. \A r \in Runs :
          /\ CleanedRow(r) \in Row
          /\ WellFormed(CleanedRow(r))
          /\ CleanedRow(r).status =
                 IF Orphaned(r) THEN "failed" ELSE row[r].status
          /\ Orphaned(r) => row[r].status \in {"running", "pending"}
  <2> SUFFICES ASSUME NEW r \in Runs
               PROVE  /\ CleanedRow(r) \in Row
                      /\ WellFormed(CleanedRow(r))
                      /\ CleanedRow(r).status =
                             IF Orphaned(r) THEN "failed" ELSE row[r].status
                      /\ Orphaned(r) => row[r].status \in {"running", "pending"}
    OBVIOUS
  <2> DEFINE rekeyed == [row[r] EXCEPT !.key = "iso2"]
  <2>1. /\ rekeyed \in Row
        /\ WellFormed(rekeyed)
        /\ rekeyed.status = row[r].status
    BY DEF IInv, TypeOK, RowShape, WellFormed, Settled, Row, RunStatus, CityKey
  <2> HIDE DEF rekeyed
  <2>2. /\ FailedByHand(rekeyed) \in Row
        /\ FailedByHand(rekeyed).status = "failed"
        /\ WellFormed(FailedByHand(rekeyed))
    BY <2>1, FailedByHandIsFailed
  <2>3. CleanedRow(r) = IF Orphaned(r) THEN FailedByHand(rekeyed) ELSE rekeyed
    BY DEF CleanedRow, rekeyed
  <2>4. Orphaned(r) => row[r].status \in {"running", "pending"}
    BY DEF Orphaned
  <2> QED
    BY <2>1, <2>2, <2>3, <2>4
<1>2. /\ row' \in [Runs -> Row]
      /\ \A r \in Runs : row'[r] = CleanedRow(r)
  BY <1>1 DEF Cleanup
<1> HIDE DEF CleanedRow, Orphaned
<1> QED
  BY <1>1, <1>2 DEF Cleanup, Runs

(***************************************************************************)
(* The invariant is inductive.                                             *)
(***************************************************************************)

HIDE DEF IInv, TypeOK, RowShape, JobsHaveRows, CompleteMeansFinalized,
         EndedJobsSettleTheirRun, RefusedRunsDoNotPend, UntouchedBeforeRequest,
         QueuedBeforeStarted, ScriptHoldsARow, Settled, ReqState, JobState

\* No step of anybody breaks it.
LEMMA NextKeepsIInv == IInv /\ [Next]_vars => IInv'
<1> SUFFICES ASSUME IInv, [Next]_vars PROVE IInv'
  OBVIOUS
<1>1. ASSUME NEW r \in Runs, Request(r) PROVE IInv'
  BY <1>1, RegisterStep, RegisterFailsStep, RefuseWithoutPoolStep, EnqueueStep,
     EnqueueFailsStep, CompensateEnqueueStep DEF Request
<1>2. ASSUME NEW r \in Runs, Work(r) PROVE IInv'
  <2>1. ASSUME WriteSummary(r) \/ WriteFull(r) PROVE IInv'
    BY <2>1, WriteAssessmentStep DEF WriteSummary, WriteFull
  <2> QED
    BY <1>2, <2>1, ConnectStep, ConnectFailsStep, MarkRunningStep, OrchestrateStep,
       CollectStep, GraphRaisesStep, DraftStep, DraftFailsStep, FinalizeRunStep,
       HandleExceptionStep DEF Work
<1>3. ASSUME NEW r \in Runs, Disaster(r) PROVE IInv'
  BY <1>3, RequesterDiesStep, TimeOutStep, CrashStep, LoseJobStep DEF Disaster
<1>4. ASSUME UNCHANGED vars PROVE IInv'
  BY <1>4
  DEF vars, IInv, TypeOK, RowShape, JobsHaveRows, CompleteMeansFinalized,
      EndedJobsSettleTheirRun, RefusedRunsDoNotPend, UntouchedBeforeRequest,
      QueuedBeforeStarted, ScriptHoldsARow
<1> QED
  BY <1>1, <1>2, <1>3, <1>4, TakeJobStep, AgeStep, ScriptReadsStep, ScriptWritesStep,
     CleanupStep DEF Next

\* Hence it always holds.
LEMMA Invariance == Spec => []IInv
BY InitIInv, NextKeepsIInv, PTL DEF Spec

(***************************************************************************)
(* The theorems.                                                           *)
(***************************************************************************)

\* Every variable keeps its type: in particular no statement writes a status
\* the CHECK constraint of agent_runs rejects.
THEOREM TypeCorrect == Spec => []TypeOK
BY Invariance, PTL DEF IInv

\* completed_at and failure_reason always agree with the status of a row.
THEOREM RowsAreWellFormed == Spec => []RowShape
BY Invariance, PTL DEF IInv

\* A worker never updates a row that is not there.
THEOREM QueuedJobsHaveRows == Spec => []JobsHaveRows
BY Invariance, PTL DEF IInv

\* A run that reads "complete" went through its briefing agent to the end.
THEOREM CompletionIsEarned == Spec => []CompleteMeansFinalized
BY Invariance, PTL DEF IInv

\* A job that ended by itself leaves a settled run while no statement fails.
THEOREM EndedJobsSettle == Spec => []EndedJobsSettleTheirRun
BY Invariance, PTL DEF IInv

\* A refused request leaves no pending run while no statement fails.
THEOREM RefusedRunsSettle == Spec => []RefusedRunsDoNotPend
BY Invariance, PTL DEF IInv

\* One step never takes "complete" back unless a stale writer takes it.
LEMMA StepKeepsComplete ==
    ASSUME IInv, [Next]_vars, NEW q \in Runs, row[q].status = "complete"
    PROVE  row'[q].status = "complete" \/ StaleWriter(q)
<1> SUFFICES ASSUME ~StaleWriter(q) PROVE row'[q].status = "complete"
  OBVIOUS
<1>1. /\ row \in [Runs -> Row]
      /\ job[q] = "done"
      /\ req[q] \notin {"idle", "unqueued"}
      /\ script # q
  BY DEF IInv, TypeOK, CompleteMeansFinalized, UntouchedBeforeRequest, StaleWriter
<1>2. ASSUME NEW r \in Runs, Request(r) PROVE row'[q].status = "complete"
  BY <1>1, <1>2
  DEF Request, Register, RegisterFails, RefuseWithoutPool, Enqueue, EnqueueFails,
      CompensateEnqueue, Upsert, Complete
<1>3. ASSUME NEW r \in Runs, Work(r) PROVE row'[q].status = "complete"
  BY <1>1, <1>3
  DEF Work, Connect, ConnectFails, MarkRunning, Orchestrate, Collect, GraphRaises,
      Draft, DraftFails, WriteSummary, WriteFull, WriteAssessment, FinalizeRun,
      HandleException, Move, Upsert, Complete
<1>4. ASSUME NEW r \in Runs, \/ Disaster(r) \/ TakeJob(r) \/ Age(r) \/ ScriptReads(r)
      PROVE row'[q].status = "complete"
  BY <1>4
  DEF Disaster, RequesterDies, TimeOut, Crash, LoseJob, TakeJob, Age, ScriptReads
<1>5. CASE ScriptWrites
  BY <1>1, <1>5 DEF ScriptWrites
<1>6. CASE Cleanup
  BY <1>1, <1>6 DEF Cleanup, CleanedRow, Orphaned, Row
<1>7. CASE UNCHANGED vars
  BY <1>7 DEF vars
<1> QED
  BY <1>2, <1>3, <1>4, <1>5, <1>6, <1>7 DEF Next

\* A complete run stays complete, but for the two stale writers.
THEOREM CompletionIsFinal == Spec => CompleteIsFinal
<1>1. IInv /\ [Next]_vars =>
        [\A r \in Runs : row[r].status = "complete" =>
            row'[r].status = "complete" \/ StaleWriter(r)]_vars
  BY StepKeepsComplete
<1> QED
  BY <1>1, Invariance, PTL DEF Spec, CompleteIsFinal

\* One step takes "failed" back only if it is the job's own.
LEMMA StepKeepsFailed ==
    ASSUME IInv, [Next]_vars, NEW q \in Runs, row[q].status = "failed",
           job[q] \notin {"marking", "orchestrating", "finalizing"}
    PROVE  row'[q].status = "failed"
<1>1. /\ row \in [Runs -> Row]
      /\ req[q] # "idle"
  BY DEF IInv, TypeOK, UntouchedBeforeRequest
<1>2. ASSUME NEW r \in Runs, Complete(r, "failed", FALSE) PROVE row'[q].status = "failed"
  BY <1>1, <1>2 DEF Complete, Completed, Row
<1>3. ASSUME NEW r \in Runs, Request(r) PROVE row'[q].status = "failed"
  BY <1>1, <1>2, <1>3
  DEF Request, Register, RegisterFails, RefuseWithoutPool, Enqueue, EnqueueFails,
      CompensateEnqueue, Upsert
<1>4. ASSUME NEW r \in Runs, Work(r) PROVE row'[q].status = "failed"
  BY <1>1, <1>2, <1>4
  DEF Work, Connect, ConnectFails, MarkRunning, Orchestrate, Collect, GraphRaises,
      Draft, DraftFails, WriteSummary, WriteFull, WriteAssessment, FinalizeRun,
      HandleException, Move, Upsert, Complete
<1>5. ASSUME NEW r \in Runs, \/ Disaster(r) \/ TakeJob(r) \/ Age(r) \/ ScriptReads(r)
      PROVE row'[q].status = "failed"
  BY <1>5
  DEF Disaster, RequesterDies, TimeOut, Crash, LoseJob, TakeJob, Age, ScriptReads
<1>6. CASE ScriptWrites
  BY <1>1, <1>6 DEF ScriptWrites, FailedByHand, Row
<1>7. CASE Cleanup
  BY <1>1, <1>7 DEF Cleanup, CleanedRow, FailedByHand, Row
<1>8. CASE UNCHANGED vars
  BY <1>8 DEF vars
<1> QED
  BY <1>3, <1>4, <1>5, <1>6, <1>7, <1>8 DEF Next

\* A failed run comes back only through its own job.
THEOREM OnlyTheJobRevivesARun == Spec => OnlyTheJobRevives
<1>1. IInv /\ [Next]_vars =>
        [\A r \in Runs : row[r].status = "failed" /\ row'[r].status # "failed" =>
            job[r] \in {"marking", "orchestrating", "finalizing"}]_vars
  BY StepKeepsFailed
<1> QED
  BY <1>1, Invariance, PTL DEF Spec, OnlyTheJobRevives

\* Only the last step of a job makes a run complete, of a row that is there.
LEMMA OnlyFinalizeCompletes ==
    ASSUME IInv, [Next]_vars, NEW q \in Runs, row'[q].status = "complete",
           row[q].status # "complete"
    PROVE  job[q] = "finalizing"
<1>1. row \in [Runs -> Row]
  BY DEF IInv, TypeOK
<1>2. ASSUME NEW r \in Runs, Complete(r, "failed", FALSE) PROVE FALSE
  BY <1>1, <1>2 DEF Complete, Completed, Row
<1>2a. ASSUME NEW r \in Runs, NEW status \in {"pending", "running"},
             NEW kind \in RunKind, NEW scheduled \in BOOLEAN, NEW key \in CityKey,
             Upsert(r, status, kind, scheduled, key)
      PROVE  FALSE
  BY <1>1, <1>2a, UpsertStep DEF IInv
<1>3. ASSUME NEW r \in Runs, Request(r) PROVE FALSE
  <2>1. ~Register(r)
    BY <1>2a DEF Register, RunKind, CityKey
  <2> QED
    BY <1>2, <1>3, <2>1
    DEF Request, RegisterFails, RefuseWithoutPool, Enqueue, EnqueueFails, CompensateEnqueue
<1>4. ASSUME NEW r \in Runs, Work(r), job[q] # "finalizing" PROVE FALSE
  <2>1. CASE FinalizeRun(r)
    BY <1>1, <1>4, <2>1 DEF FinalizeRun, Move, Complete
  <2>2. CASE MarkRunning(r) \/ Orchestrate(r)
    BY <1>2a, <2>2 DEF MarkRunning, Orchestrate, RunKind, CityKey
  <2> QED
    BY <1>2, <1>4, <2>1, <2>2
    DEF Work, Connect, ConnectFails, Collect, GraphRaises, Draft, DraftFails,
        WriteSummary, WriteFull, WriteAssessment, HandleException
<1>5. ASSUME NEW r \in Runs, \/ Disaster(r) \/ TakeJob(r) \/ Age(r) \/ ScriptReads(r)
      PROVE FALSE
  BY <1>5
  DEF Disaster, RequesterDies, TimeOut, Crash, LoseJob, TakeJob, Age, ScriptReads
<1>6. CASE ScriptWrites
  BY <1>1, <1>6 DEF ScriptWrites, FailedByHand, Row
<1>7. CASE Cleanup
  BY <1>1, <1>7 DEF Cleanup, CleanedRow, FailedByHand, Row
<1>8. CASE UNCHANGED vars
  BY <1>8 DEF vars
<1> QED
  BY <1>3, <1>4, <1>5, <1>6, <1>7, <1>8 DEF Next

\* Assessments are only added, and failures only counted up.
LEMMA BriefingsGrow ==
    ASSUME IInv, [Next]_vars, NEW q \in Runs
    PROVE  brief[q] \subseteq brief'[q] /\ faults <= faults' /\ faults' \in Nat
<1>1. /\ brief \in [Runs -> SUBSET {"final_briefing", "final_briefing_full"}]
      /\ faults \in Nat
  BY BoundsAssumption DEF IInv, TypeOK
<1>2. ASSUME NEW r \in Runs, NEW kind, NEW from, NEW to, WriteAssessment(r, from, to, kind)
      PROVE  brief[q] \subseteq brief'[q] /\ faults <= faults' /\ faults' \in Nat
  BY <1>1, <1>2 DEF WriteAssessment, Fault
<1>3. ASSUME \A r \in Runs : ~WriteSummary(r) /\ ~WriteFull(r)
      PROVE  brief' = brief /\ (faults' = faults \/ Fault)
  BY <1>3
  DEF Next, vars, Request, Register, RegisterFails, RefuseWithoutPool, Enqueue,
      EnqueueFails, CompensateEnqueue, Work, Connect, ConnectFails, MarkRunning,
      Orchestrate, Collect, GraphRaises, Draft, DraftFails, FinalizeRun,
      HandleException, Disaster, RequesterDies, TimeOut, Crash, LoseJob, TakeJob,
      Age, ScriptReads, ScriptWrites, Cleanup, Upsert, Complete
<1> QED
  BY <1>1, <1>2, <1>3 DEF Fault, WriteSummary, WriteFull

\* A job reaches the second assessment only past the first, and the end only
\* past the second; what fails on the way is counted.
LEMMA JobWritesBeforeItEnds ==
    ASSUME IInv, [Next]_vars, NEW q \in Runs
    PROVE  /\ job'[q] = "full" /\ job[q] # "full" =>
                  /\ job[q] = "summary"
                  /\ brief'[q] # {} \/ faults' = faults + 1
           /\ job'[q] = "finalizing" /\ job[q] # "finalizing" =>
                  /\ job[q] = "full"
                  /\ brief'[q] # {} \/ faults' = faults + 1
<1>1. /\ brief \in [Runs -> SUBSET {"final_briefing", "final_briefing_full"}]
      /\ job \in [Runs -> JobState]
  BY DEF IInv, TypeOK
<1>2. ASSUME NEW r \in Runs, WriteSummary(r)
      PROVE  /\ q # r => job'[q] = job[q]
             /\ job[r] = "summary" /\ job'[r] = "full"
             /\ brief'[r] # {} \/ faults' = faults + 1
  BY <1>1, <1>2 DEF WriteSummary, WriteAssessment, Move, Fault
<1>3. ASSUME NEW r \in Runs, WriteFull(r)
      PROVE  /\ q # r => job'[q] = job[q]
             /\ job[r] = "full" /\ job'[r] = "finalizing"
             /\ brief'[r] # {} \/ faults' = faults + 1
  BY <1>1, <1>3 DEF WriteFull, WriteAssessment, Move, Fault
<1>4. ASSUME \A r \in Runs : ~WriteSummary(r) /\ ~WriteFull(r)
      PROVE  job'[q] # job[q] => job'[q] \notin {"full", "finalizing"}
  BY <1>1, <1>4
  DEF Next, vars, Request, Register, RegisterFails, RefuseWithoutPool, Enqueue,
      EnqueueFails, CompensateEnqueue, Work, Connect, ConnectFails, MarkRunning,
      Orchestrate, Collect, GraphRaises, Draft, DraftFails, FinalizeRun,
      HandleException, Disaster, RequesterDies, TimeOut, Crash, LoseJob, TakeJob,
      Age, ScriptReads, ScriptWrites, Cleanup, Move
<1> QED
  BY <1>2, <1>3, <1>4

\* A complete run has a briefing unless two statements failed.
THEOREM CompletionIsBriefed == Spec => []CompleteHasBriefing
<1>1. Init => BriefingsKeepUp
  BY DEF Init, BriefingsKeepUp, NoRow, Runs
<1>2. IInv /\ BriefingsKeepUp /\ [Next]_vars => BriefingsKeepUp'
  <2> SUFFICES ASSUME IInv, BriefingsKeepUp, [Next]_vars, NEW q \in Runs
               PROVE  /\ job'[q] = "full" /\ faults' = 0 => brief'[q] # {}
                      /\ job'[q] = "finalizing" /\ faults' < 2 => brief'[q] # {}
                      /\ row'[q].status = "complete" /\ faults' < 2 => brief'[q] # {}
    BY DEF BriefingsKeepUp
  <2>1. faults \in Nat
    BY BoundsAssumption DEF IInv, TypeOK
  <2>2. brief[q] \subseteq brief'[q] /\ faults <= faults' /\ faults' \in Nat
    BY BriefingsGrow
  <2>3. job'[q] = "full" /\ faults' = 0 => brief'[q] # {}
    BY <2>1, <2>2, JobWritesBeforeItEnds DEF BriefingsKeepUp
  <2>4. job'[q] = "finalizing" /\ faults' < 2 => brief'[q] # {}
    BY <2>1, <2>2, JobWritesBeforeItEnds DEF BriefingsKeepUp
  <2>5. row'[q].status = "complete" /\ faults' < 2 => brief'[q] # {}
    BY <2>1, <2>2, OnlyFinalizeCompletes DEF BriefingsKeepUp
  <2> QED
    BY <2>3, <2>4, <2>5
<1>3. IInv /\ BriefingsKeepUp => CompleteHasBriefing
  BY DEF IInv, TypeOK, BriefingsKeepUp, CompleteHasBriefing, BriefingResponse, Readable
<1> QED
  BY <1>1, <1>2, <1>3, Invariance, PTL DEF Spec

=============================================================================

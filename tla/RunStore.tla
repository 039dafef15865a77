------------------------------ MODULE RunStore ------------------------------
(***************************************************************************)
(* One record of the Postgres table agent_runs, and the two statements     *)
(* through which every part of the program writes it: upsert_run           *)
(* (INSERT .. ON CONFLICT DO UPDATE) and complete_run (UPDATE .. WHERE      *)
(* run_id = ..), both in osint/db/supabase.py.  A row is a value here; the *)
(* modules that EXTEND this one keep the table in a variable.              *)
(*                                                                         *)
(* Only the columns somebody decides on are kept.  Times become flags      *)
(* ("completed_at is not NULL"); the columns that count entities, edges    *)
(* and claims become one flag, "the totals are those of a finished         *)
(* briefing".  All runs are of one United States city, so the two          *)
(* algorithms that compute a city key give two different keys.             *)
(***************************************************************************)

\* The CHECK constraint on agent_runs.run_status.  No statement of the
\* program writes "partial"; the readers still accept it.
RunStatus == {"pending", "running", "complete", "failed", "partial"}

\* run_mode and run_type always change together: full/manual,
\* discovery_pass/weekly_discovery, enrichment_refresh/enrichment_refresh.
RunKind == {"manual", "discovery", "refresh"}

\* "name2": the first two letters of the country's name (philadelphia_un);
\* "iso2": the ISO code from a lookup table (philadelphia_us).
CityKey == {"name2", "iso2"}

Row == [status    : RunStatus \cup {"absent"},
        kind      : RunKind,
        scheduled : BOOLEAN,
        key       : CityKey,
        finished  : BOOLEAN,    \* completed_at IS NOT NULL
        reason    : BOOLEAN,    \* failure_reason IS NOT NULL
        totals    : BOOLEAN]    \* total_* columns hold a briefing's summary

\* No row with this run_id in the table.
NoRow == [status |-> "absent", kind |-> "manual", scheduled |-> FALSE,
          key |-> "iso2", finished |-> FALSE, reason |-> FALSE,
          totals |-> FALSE]

\* Mutant: the upsert forgets failure_reason.
Upserted_KeepsReason(old, status, kind, scheduled, key) ==
    [status |-> status, kind |-> kind, scheduled |-> scheduled,
     key |-> IF old.status = "absent" THEN key ELSE old.key,
     finished |-> FALSE, reason |-> old.reason, totals |-> FALSE]

\* upsert_run's ON CONFLICT list: status, mode, type and scheduled are
\* overwritten, completed_at and failure_reason go back to NULL and the totals
\* to the column default 0 (EXCLUDED is never NULL there, so COALESCE picks
\* it); city_key is not in the list and keeps the first value inserted.
Upserted(old, status, kind, scheduled, key) ==
    [status    |-> status,
     kind      |-> kind,
     scheduled |-> scheduled,
     key       |-> IF old.status = "absent" THEN key ELSE old.key,
     finished  |-> FALSE,
     reason    |-> FALSE,
     totals    |-> FALSE]

\* complete_run: an unconditional UPDATE by run_id, a no-op when the row is
\* missing.  Every caller that passes "failed" gives a failure_reason and
\* summary = {}; no caller that passes "complete" gives a reason.
Completed(old, status, totals) ==
    IF old.status = "absent"
    THEN old
    ELSE [old EXCEPT !.status   = status,
                     !.finished = TRUE,
                     !.reason   = (status = "failed"),
                     !.totals   = totals]

\* The UPDATE of an operator, by mark_run_failed.py or by migration 009.
FailedByHand(old) == [old EXCEPT !.status = "failed", !.finished = TRUE, !.reason = TRUE]

\* The statuses GET /cities/* and GET /runs/{id}/briefing accept.
Readable(row) == row.status \in {"complete", "partial"}

\* A run nobody is expected to touch any more.
Settled(row) == row.status \in {"complete", "failed", "partial"}

\* The columns agree with each other: completed_at is set exactly on the
\* settled rows and failure_reason exactly on the failed ones.
WellFormed(row) == /\ row.finished <=> Settled(row)
                   /\ row.reason   <=> row.status = "failed"

=============================================================================

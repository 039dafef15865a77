----------------------------- MODULE CityViews -----------------------------
(***************************************************************************)
(* GET /cities/{city_key}, /entities, /relationships and /briefing         *)
(* (osint/api/app.py) over the latest completed run of a city              *)
(* (osint/db/supabase.py), while runs of it begin and complete.            *)
(*                                                                         *)
(* A request looks up the latest run, and most parts of its answer look it *)
(* up again, each with statements of its own.  Authentication, the         *)
(* validation of the parameters and the form of the JSON are left out.     *)
(***************************************************************************)
EXTENDS Refresh

VARIABLES
    view,  \* the view that was asked for
    part,  \* how far each part of the answer is, and what it says
    seen   \* runs that were the latest one since the request

reader == <<view, part, seen>>
vars   == <<refreshVars, reader>>

Views == {"overview", "entities", "relationships", "briefing"}

Parts(v) == CASE v = "overview"      -> {"counts"}
              [] v = "entities"      -> {"page", "total"}
              [] v = "relationships" -> {"edges"}
              [] v = "briefing"      -> {"full"}
              [] OTHER               -> {}

AllParts == UNION {Parts(v) : v \in Views}

Answer == [at : {"resolve", "query", "done"}, run : Run, shown : SUBSET Id]

TypeOK ==
    /\ RefreshTypeOK
    /\ view \in Views \cup {"none"}
    /\ part \in [Parts(view) -> Answer]
    /\ seen \subseteq Run

Init ==
    /\ RefreshInit
    /\ view = "none" /\ part = <<>> /\ seen = {latest}

Answered == \A p \in DOMAIN part : part[p].at = "done"

\* 404: no run of the city has completed.
NotFound == [at |-> "done", run |-> "none", shown |-> {}]

\* get_latest_completed_run_for_city, once for the overview, and again in each
\* part of the other answers.
Ask(v) ==
    /\ Answered
    /\ view' = v
    /\ seen' = {latest}
    /\ part' = [p \in Parts(v) |->
                    IF latest = "none" THEN NotFound
                    ELSE IF v = "overview" THEN [at |-> "query", run |-> latest, shown |-> {}]
                    ELSE [at |-> "resolve", run |-> "none", shown |-> {}]]
    /\ UNCHANGED refreshVars

\* Mutant: the run that was started last.
Resolve_Started(p) ==
    /\ part[p].at = "resolve"
    /\ \E r \in Discovery :
        /\ status[r] # "none"
        /\ part' = [part EXCEPT ![p].at = "query", ![p].run = r]
    /\ UNCHANGED <<refreshVars, view, seen>>

\* A part of an answer looks up the run.
Resolve(p) ==
    /\ part[p].at = "resolve"
    /\ part' = [part EXCEPT ![p].at = "query", ![p].run = latest]
    /\ UNCHANGED <<refreshVars, view, seen>>

\* The entities whose source_run_ids hold the run: a refresh adds itself to
\* none of them.
EntitiesOf(r) == {i \in rows : i[1] = r}

\* The statements of a part.
Query(p) ==
    /\ part[p].at = "query"
    /\ part' = [part EXCEPT ![p].at = "done",
                            ![p].shown = IF p \in {"counts", "page", "total"}
                                         THEN EntitiesOf(part[p].run) ELSE {}]
    /\ UNCHANGED <<refreshVars, view, seen>>

Step == RefreshNext /\ seen' = seen \cup {latest'} /\ UNCHANGED <<view, part>>

Next ==
    \/ Step
    \/ \E v \in Views : Ask(v)
    \/ \E p \in DOMAIN part : Resolve(p) \/ Query(p)

\* The worker runs the cron and its job; nobody has to discover or to ask.
Fairness == WF_refreshVars(Tick) /\ WF_refreshVars(Work)

Spec == Init /\ [][Next]_vars /\ Fairness

-----------------------------------------------------------------------------

\* Every part of an answer is of a run that was the latest completed one at
\* some moment of the request, and shows all that this run found, although
\* other runs insert and complete in between.
AnswersAreWhole ==
    \A p \in DOMAIN part : part[p].at = "done" =>
        /\ part[p].run \in seen
        /\ part[p].run \in Discovery => status[part[p].run] = "complete"
        /\ p \in {"counts", "page", "total"} => part[p].shown = EntitiesOf(part[p].run)

\* The briefing is missing only "if the city has no completed intelligence or
\* no briefing was generated" (app.py:915-916).  Asked for where no run completes
\* during the request.
BriefingStaysVisible ==
    /\ view = "briefing" /\ Answered /\ Cardinality(seen) = 1
    /\ \E d \in briefed : status[d] = "complete"
    => part["full"].run \in briefed
=============================================================================

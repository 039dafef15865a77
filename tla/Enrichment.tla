----------------------------- MODULE Enrichment -----------------------------
(***************************************************************************)
(* The enrichment agent (osint/agents/enrichment.py): sixteen sources that *)
(* are asked one after the other for one canonical entity after the other, *)
(* once in the discovery run and again in every refresh of the city.       *)
(*                                                                         *)
(* The agent works on dict(entity), a copy whose category_fields are those *)
(* of the original: what a source writes there outlives a failure of the   *)
(* node, what it writes beside them does not.  The scoring node stores the *)
(* category_fields; after a refresh nobody does.                           *)
(*                                                                         *)
(* Sources outside of plan are left out of a behaviour.  Sources share     *)
(* nothing but the fields that the needs of a later one read.              *)
(***************************************************************************)
EXTENDS Integers, Sequences

CONSTANTS
    Count,  \* number of canonical entities, in the order of their list
    Types,  \* their types
    Plans,  \* sets of sources that are asked
    Cap     \* *_MAX_ENTITIES of each source; 20 to 60 in the code

EveryType == {"corporate", "investor", "executive_hnw", "hnwi", "illicit",
              "politician", "political", "community_leader", "nonprofit"}

Companies == {"corporate", "investor"}

ASSUME TypesAssumption == Types \subseteq EveryType /\ Count \in Nat \ {0}

-----------------------------------------------------------------------------
(* The sources.  An answer is "failed", "empty" (also one that fits nobody) *)
(* or "found".                                                              *)

\* A source that says nothing of what it did.
Unrecorded(types) ==
    [types   |-> types,
     needs   |-> FALSE,      \* whether it needs more than a name
     counts  |-> {"found"},  \* what counts against its cap
     records |-> {},         \* after which answers it writes a search record
     marks   |-> {},         \* after which answers it is not asked again
     early   |-> FALSE,      \* whether it is marked before it is recorded
     quiet   |-> FALSE,      \* whether a record that fails is passed over
     breaks  |-> TRUE,       \* whether reading an answer may raise
     nested  |-> TRUE]       \* whether it writes to category_fields

Recorded(answers, types) == [Unrecorded(types) EXCEPT !.records = answers]

Answers == {"failed", "empty", "found"}

Ofac == Recorded(Answers, EveryType)

Proxycurl ==
    [Recorded(Answers, {"executive_hnw", "hnwi"}) EXCEPT
        !.needs = TRUE, !.counts = {"empty", "found"}, !.marks = {"found"}]

LittleSis ==
    [Recorded({"empty", "found"}, EveryType) EXCEPT !.marks = {"empty", "found"}]

\* A description, which is no part of category_fields.
Gdelt ==
    [Recorded({"empty", "found"}, EveryType) EXCEPT !.needs = TRUE, !.nested = FALSE]

PatentView == [Recorded({"empty", "found"}, Companies) EXCEPT !.marks = Answers]

OpenCorporates ==
    [Recorded({"empty", "found"}, Companies) EXCEPT !.marks = Answers, !.early = TRUE]

FollowTheMoney ==
    [Recorded({"empty", "found"}, {"politician", "political", "executive_hnw", "hnwi"}) EXCEPT
        !.marks = Answers, !.early = TRUE]

\* Eventbrite; Meetup is asked where the city's coordinates are known, and a
\* city_key is no name of a city.
Events ==
    [Recorded({"empty", "found"}, {"community_leader", "corporate"}) EXCEPT
        !.marks = Answers, !.early = TRUE, !.quiet = TRUE, !.breaks = FALSE]

Bizapedia == Unrecorded(Companies)

StateRegisters == Unrecorded(Companies)

\* A website and an old company of which few executives are known.
Wayback == [Unrecorded(Companies) EXCEPT !.needs = TRUE, !.breaks = FALSE]

\* A CIK.
EdgarDocuments == [Unrecorded(Companies) EXCEPT !.needs = TRUE]

\* A name that does not look like the heading of a list.
CourtListener ==
    [Unrecorded(Companies \cup {"executive_hnw", "illicit"}) EXCEPT !.needs = TRUE]

Fincen == Unrecorded({"corporate"})

Hud == Unrecorded(Companies \cup {"real_estate"})

\* icij_nodes is its own mark.
Icij == [Unrecorded(Companies \cup {"illicit"}) EXCEPT !.marks = {"found"}]

Source ==
    [ofac |-> Ofac, proxycurl |-> Proxycurl, littlesis |-> LittleSis, gdelt |-> Gdelt,
     patentview |-> PatentView, opencorporates |-> OpenCorporates,
     ftm |-> FollowTheMoney, events |-> Events, bizapedia |-> Bizapedia,
     sos |-> StateRegisters, wayback |-> Wayback, edgar |-> EdgarDocuments,
     courtlistener |-> CourtListener, fincen |-> Fincen, hud |-> Hud, icij |-> Icij]

Sources == DOMAIN Source

\* The order in which run() asks them.
Order ==
    <<"ofac", "proxycurl", "littlesis", "gdelt", "patentview", "opencorporates",
      "ftm", "events", "bizapedia", "sos", "wayback", "edgar", "courtlistener",
      "fincen", "hud", "icij">>

ASSUME PlansAssumption ==
    /\ \A p \in Plans : p \subseteq Sources /\ "ofac" \in p
    /\ Cap \in [Sources -> Nat \ {0}]

Entity == 1..Count

-----------------------------------------------------------------------------
VARIABLES
    type,      \* entity_type of each entity
    plan,      \* the sources that are asked
    node,      \* "asking", or how the node ended, or "idle" after that
    refresh,   \* whether this is a refresh
    at,        \* the entity and the place in the order
    count,     \* what counts against the cap of each source
    fields,    \* sources of the category_fields of each entity, in memory
    marks,     \* sources that are not asked again, in memory
    stored,    \* the category_fields in Postgres
    traced,    \* <<entity, source>> with a search record, of any run
    screened   \* entities with a search record of the OFAC list in this run

enrichVars == <<type, plan, node, refresh, at, count, fields, marks, stored, traced, screened>>

world   == <<type, plan, refresh, stored>>
records == <<traced, screened>>

Nothing == [e \in Entity |-> {}]

EnrichTypeOK ==
    /\ type     \in [Entity -> Types]
    /\ plan     \in Plans
    /\ node     \in {"asking", "success", "error", "raised", "idle"}
    /\ refresh  \in BOOLEAN
    /\ at       \in (1..(Count + 1)) \X DOMAIN Order
    /\ count    \in [Sources -> Nat]
    /\ fields   \in [Entity -> SUBSET Sources]
    /\ marks    \in [Entity -> SUBSET Sources]
    /\ stored   \in [fields : [Entity -> SUBSET Sources], marks : [Entity -> SUBSET Sources]]
    /\ traced   \subseteq Entity \X Sources
    /\ screened \subseteq Entity

EnrichInit ==
    /\ type \in [Entity -> Types] /\ plan \in Plans
    /\ node = "asking" /\ refresh = FALSE
    /\ at = <<1, 1>> /\ count = [s \in Sources |-> 0]
    /\ fields = Nothing /\ marks = Nothing
    /\ stored = [fields |-> Nothing, marks |-> Nothing]
    /\ traced = {} /\ screened = {}

-----------------------------------------------------------------------------
(* One source and one entity.                                              *)

Who == at[1]

Here == Order[at[2]]

\* The next source, or the first one for the next entity.
Advance ==
    at' = IF at[2] < Len(Order) THEN <<Who, at[2] + 1>> ELSE <<Who + 1, 1>>

Asking == node = "asking" /\ Who <= Count

Due ==
    /\ Asking /\ Here \in plan
    /\ type[Who] \in Source[Here].types
    /\ Here \notin marks[Who]
    /\ count[Here] < Cap[Here] \/ Here = "ofac"

\* Not asked: not for this type, its cap is reached, it was asked before, or
\* what it needs is missing.
Pass ==
    /\ Asking
    /\ Due => Source[Here].needs
    /\ Advance
    /\ UNCHANGED <<world, node, count, fields, marks, records>>

Counted(answer) ==
    IF answer \in Source[Here].counts /\ Here # "ofac"
    THEN [count EXCEPT ![Here] = @ + 1] ELSE count

Marked(answer) ==
    IF answer \in Source[Here].marks THEN [marks EXCEPT ![Who] = @ \cup {Here}] ELSE marks

Kept(answer) ==
    IF answer = "found" /\ Source[Here].nested
    THEN [fields EXCEPT ![Who] = @ \cup {Here}] ELSE fields

Record ==
    /\ traced' = traced \cup {<<Who, Here>>}
    /\ screened' = IF Here = "ofac" THEN screened \cup {Who} ELSE screened

\* An answer: where it is recorded, that comes before its data.
Receive(answer) ==
    /\ Due
    /\ IF answer \in Source[Here].records THEN Record ELSE UNCHANGED records
    /\ marks' = Marked(answer) /\ fields' = Kept(answer) /\ count' = Counted(answer)
    /\ Advance
    /\ UNCHANGED <<world, node>>

\* BudgetExceeded: it is as if the cap were reached.
OverBudget ==
    /\ Due /\ Here = "proxycurl"
    /\ count' = [count EXCEPT ![Here] = Cap[Here]]
    /\ Advance
    /\ UNCHANGED <<world, node, fields, marks, records>>

\* The exception leaves run(): an error patch, or an exception of __call__.
Raise == node' \in {"error", "raised"} /\ UNCHANGED at

\* Mutant: the data are kept before they are recorded.
RecordFails_AfterData(answer) ==
    /\ Due /\ answer \in Source[Here].records /\ ~Source[Here].quiet
    /\ marks' = IF Source[Here].early THEN Marked(answer) ELSE marks
    /\ fields' = Kept(answer)
    /\ Raise
    /\ UNCHANGED <<world, count, records>>

\* The search record cannot be written.
RecordFails(answer) ==
    /\ Due /\ answer \in Source[Here].records
    /\ marks' = IF Source[Here].early THEN Marked(answer) ELSE marks
    /\ IF Source[Here].quiet
       THEN Advance /\ UNCHANGED node
       ELSE Raise
    /\ UNCHANGED <<world, count, fields, records>>

\* The answer cannot be read.  How far its reading went says whether it was
\* recorded, marked and partly kept, in this order but for the early marks.
Breaks ==
    /\ Due /\ Source[Here].breaks
    /\ \E recorded, marked, kept \in BOOLEAN :
        /\ recorded => Source[Here].records # {}
        /\ marked /\ Source[Here].records # {} => recorded \/ Source[Here].early
        /\ kept /\ Source[Here].records # {} => recorded
        /\ IF recorded THEN Record ELSE UNCHANGED records
        /\ marks' = IF marked THEN Marked("found") ELSE marks
        /\ fields' = IF kept THEN Kept("found") ELSE fields
    /\ Raise
    /\ UNCHANGED <<world, count>>

Succeed ==
    /\ node = "asking" /\ Who > Count
    /\ node' = "success"
    /\ UNCHANGED <<world, at, count, fields, marks, records>>

-----------------------------------------------------------------------------
(* Before and after the node.                                              *)

\* The scoring node of a discovery run stores the category_fields of each
\* entity it was handed, enriched or, after an error patch, canonical; a
\* write may fail, and dedup may have left an entity out.  An exception of
\* __call__ ends the run.
Persist ==
    /\ node \in {"success", "error", "raised"}
    /\ node' = "idle"
    /\ \E S \in IF refresh \/ node = "raised" THEN {{}} ELSE SUBSET Entity :
          stored' = [fields |-> [e \in Entity |-> IF e \in S THEN fields[e] ELSE stored.fields[e]],
                     marks  |-> [e \in Entity |-> IF e \in S THEN marks[e] ELSE stored.marks[e]]]
    /\ UNCHANGED <<type, plan, refresh, at, count, fields, marks, records>>

\* get_entities_by_city loads what is stored, for a new agent.
Refresh ==
    /\ node = "idle"
    /\ node' = "asking" /\ refresh' = TRUE
    /\ at' = <<1, 1>> /\ count' = [s \in Sources |-> 0]
    /\ fields' = stored.fields /\ marks' = stored.marks
    /\ screened' = {}
    /\ UNCHANGED <<type, plan, stored, traced>>

EnrichNext ==
    \/ Pass \/ OverBudget \/ Breaks \/ Succeed \/ Persist \/ Refresh
    \/ \E answer \in Answers : Receive(answer) \/ RecordFails(answer)

EnrichSpec == EnrichInit /\ [][EnrichNext]_enrichVars

-----------------------------------------------------------------------------

\* A node that succeeds has looked up every entity in the OFAC list, whatever
\* is stored of it and whatever else was asked; and no data of a source that
\* records its answers are in the memory of the run or in Postgres without a
\* search record, although what was read before a failure is kept and stored.
ProofOfEnrichment ==
    /\ node = "success" => screened = Entity
    /\ \A e \in Entity : \A s \in fields[e] \cup stored.fields[e] :
          "found" \in Source[s].records => <<e, s>> \in traced

=============================================================================

-------------------------- MODULE CityViews_proofs --------------------------
(***************************************************************************)
(* The answers of the city views and the stamps of the refresh are right   *)
(* for any discovery runs, any findings, any limit and any staleness; and  *)
(* the enrichment agent, which those runs and the refresh call, keeps its  *)
(* promise (the last part, about EnrichSpec).                              *)
(***************************************************************************)
EXTENDS CityViews, Enrichment, TLAPS

-----------------------------------------------------------------------------
(* The refresh and the discovery runs beside it.                           *)

\* Nothing is in memory before it was loaded.
LoadedLate ==
    stage \in {"idle", "connecting", "registering", "loading"} =>
        batch = {} /\ enriched = {}

RefreshInv == RefreshTypeOK /\ LoadedLate

\* A failure is counted within its bound.
LEMMA FaultIsCounted ==
    ASSUME RefreshTypeOK, Fault PROVE faults' \in 0..MaxFaults
BY LimitAssumption DEF RefreshTypeOK, Fault

\* The initial states have the types.
LEMMA RefreshInitTyped == RefreshInit => RefreshInv
<1> SUFFICES ASSUME RefreshInit PROVE RefreshInv
  OBVIOUS
<1>1. faults \in 0..MaxFaults /\ StaleAfter \in 0..StaleAfter
  BY LimitAssumption DEF RefreshInit
<1>2. age \in [Id -> 0..StaleAfter]
  BY <1>1 DEF RefreshInit
<1>3. registered \in BOOLEAN
  BY DEF RefreshInit
<1> QED
  BY <1>1, <1>2, <1>3 DEF RefreshInit, RefreshInv, RefreshTypeOK, LoadedLate, Stages, Run

\* A discovery run keeps the types.
LEMMA DiscoveryTyped ==
    ASSUME RefreshInv, NEW d \in Discovery,
           \/ Begin(d) \/ Brief(d) \/ Complete(d) \/ Abort(d)
           \/ \E n \in Finds[d] : Insert(d, n)
    PROVE  RefreshInv'
<1> USE DEF RefreshInv, RefreshTypeOK, LoadedLate, jobVars
<1>1. CASE Begin(d) \/ Complete(d) \/ Abort(d)
  BY <1>1 DEF Begin, Complete, Abort, Run
<1>2. CASE Brief(d)
  BY <1>2 DEF Brief
<1>3. ASSUME NEW n \in Finds[d], Insert(d, n) PROVE RefreshInv'
  <2>1. <<d, n>> \in Id
    BY DEF Id
  <2> QED
    BY <1>3, <2>1 DEF Insert
<1> QED
  BY <1>1, <1>2, <1>3

\* So does the refresh.
LEMMA WorkTyped ==
    ASSUME RefreshInv, Tick \/ Work \/ Die
    PROVE  RefreshInv'
<1>1. /\ RefreshTypeOK /\ LoadedLate
      /\ registered \in BOOLEAN /\ faults \in 0..MaxFaults
      /\ batch \subseteq rows /\ enriched \subseteq batch
  BY DEF RefreshInv, RefreshTypeOK
<1>2. rows' = rows /\ status' = status /\ briefed' = briefed
  BY DEF Tick, Work, Die, Connect, Register, Load, Enrich, Relate, Stamp, Finish, GiveUp,
     discoveryVars
<1>3. faults' \in 0..MaxFaults
  <2>1. UNCHANGED faults \/ Fault
    BY DEF Tick, Work, Die, Connect, Register, Load, Enrich, Relate, Stamp, Finish, GiveUp
  <2> QED
    BY <1>1, <2>1, FaultIsCounted
<1>4. registered' \in BOOLEAN
  BY <1>1 DEF Tick, Work, Die, Connect, Register, Load, Enrich, Relate, Stamp, Finish,
     GiveUp, Return
<1>5. latest' \in Run
  BY <1>1 DEF Tick, Work, Die, Connect, Register, Load, Enrich, Relate, Stamp, Finish,
     GiveUp, RefreshTypeOK, Run
<1>6. stage' \in Stages
  BY <1>1 DEF Tick, Work, Die, Connect, Register, Load, Enrich, Relate, Stamp, Finish,
     GiveUp, Return, RefreshTypeOK, Stages
<1>7. age' \in [Id -> 0..StaleAfter]
  <2>1. CASE Tick
    BY <1>1, <2>1, LimitAssumption DEF Tick, RefreshTypeOK
  <2>2. CASE Stamp
    BY <1>1, <2>2, LimitAssumption DEF Stamp, RefreshTypeOK
  <2>3. CASE ~Tick /\ ~Stamp
    BY <1>1, <2>3 DEF Tick, Work, Die, Connect, Register, Load, Enrich, Relate, Finish,
       GiveUp, RefreshTypeOK
  <2> QED
    BY <2>1, <2>2, <2>3
<1>8. /\ batch' \subseteq rows' /\ enriched' \subseteq batch'
      /\ LoadedLate'
  <2>1. CASE Load
    <3>1. batch = {} /\ enriched = {} /\ enriched' = enriched
      BY <1>1, <2>1 DEF Load, LoadedLate
    <3>2. batch' \subseteq rows
      BY <1>1, <2>1 DEF Load, Batches, Stale
    <3>3. stage' \in {"completing", "enriching", "failing"}
      BY <2>1 DEF Load
    <3> QED
      BY <1>2, <3>1, <3>2, <3>3 DEF LoadedLate
  <2>2. CASE Enrich
    BY <1>1, <1>2, <2>2 DEF Enrich, LoadedLate
  <2>3. CASE Finish \/ GiveUp \/ Die
    BY <2>3 DEF Finish, GiveUp, Die, Return, LoadedLate
  <2>4. CASE Tick \/ Connect \/ Register \/ Relate \/ Stamp
    BY <1>1, <1>2, <2>4 DEF Tick, Connect, Register, Relate, Stamp, LoadedLate
  <2> QED
    BY <2>1, <2>2, <2>3, <2>4 DEF Work
<1> QED
  BY <1>1, <1>2, <1>3, <1>4, <1>5, <1>6, <1>7, <1>8 DEF RefreshInv, RefreshTypeOK

\* Every step of the city keeps the types.
LEMMA RefreshTyped == RefreshInv /\ RefreshNext => RefreshInv'
BY DiscoveryTyped, WorkTyped DEF RefreshNext

\* What a refresh has in memory and stamps: nothing of it is fresh before the
\* stamps, and only a registered run enriches.
StampInv ==
    /\ enriched # {} => registered
    /\ OnlyEnrichedAreFresh

\* Nothing is in memory yet.
LEMMA StampInit == RefreshInit => StampInv
BY DEF RefreshInit, StampInv, OnlyEnrichedAreFresh

\* An entity is loaded while it is stale, ages only between two refreshes, and
\* is stamped only if it was enriched.
LEMMA StampStep == RefreshInv /\ StampInv /\ RefreshNext => StampInv'
<1> SUFFICES ASSUME RefreshInv, StampInv, RefreshNext PROVE StampInv'
  OBVIOUS
<1>1. /\ enriched \subseteq batch /\ batch \subseteq Id /\ age \in [Id -> 0..StaleAfter]
      /\ StaleAfter \in Nat
  BY LimitAssumption DEF RefreshInv, RefreshTypeOK
<1>2. CASE \E d \in Discovery :
             \/ Begin(d) \/ Brief(d) \/ Complete(d) \/ Abort(d)
             \/ \E n \in Finds[d] : Insert(d, n)
  <2>1. registered' = registered /\ batch' = batch /\ enriched' = enriched /\ age' = age
    BY <1>2 DEF Begin, Brief, Complete, Abort, Insert, jobVars
  <2> QED
    BY <2>1 DEF StampInv, OnlyEnrichedAreFresh
<1>3. CASE Tick
  <2>1. batch' = {} /\ enriched' = {}
    BY <1>3 DEF Tick, RefreshInv, LoadedLate
  <2> QED
    BY <2>1 DEF StampInv, OnlyEnrichedAreFresh
<1>4. CASE Connect \/ Register
  <2>1. batch' = {} /\ enriched' = {}
    BY <1>4 DEF Connect, Register, RefreshInv, LoadedLate
  <2> QED
    BY <2>1 DEF StampInv, OnlyEnrichedAreFresh
<1>5. CASE Load
  <2>1. enriched' = {} /\ age' = age
    BY <1>5 DEF Load, RefreshInv, LoadedLate
  <2>2. \A i \in batch' : age[i] = StaleAfter
    BY <1>5 DEF Load, Batches, Stale, RefreshInv, LoadedLate
  <2> QED
    BY <1>1, <2>1, <2>2 DEF StampInv, OnlyEnrichedAreFresh
<1>6. CASE Enrich
  BY <1>1, <1>6 DEF Enrich, StampInv, OnlyEnrichedAreFresh
<1>7. CASE Relate
  BY <1>7 DEF Relate, StampInv, OnlyEnrichedAreFresh
<1>8. CASE Stamp
  <2>1. PICK stamped \in SUBSET enriched :
            age' = [i \in Id |-> IF i \in stamped THEN 0 ELSE age[i]]
    BY <1>8 DEF Stamp
  <2>2. registered' = registered /\ batch' = batch /\ enriched' = enriched
    BY <1>8 DEF Stamp
  <2> QED
    BY <1>1, <2>1, <2>2 DEF StampInv, OnlyEnrichedAreFresh
<1>9. CASE Finish \/ GiveUp \/ Die
  <2>1. batch' = {} /\ enriched' = {}
    BY <1>9 DEF Finish, GiveUp, Die, Return
  <2> QED
    BY <2>1 DEF StampInv, OnlyEnrichedAreFresh
<1> QED
  BY <1>2, <1>3, <1>4, <1>5, <1>6, <1>7, <1>8, <1>9 DEF RefreshNext, Work

-----------------------------------------------------------------------------
(* The views.                                                              *)

\* Every part that knows its run knows one that was the latest during the
\* request and has completed, and what it shows is what that run found.
PartsAreOfOneRun ==
    /\ latest \in seen
    /\ latest \in Discovery => status[latest] = "complete"
    /\ \A p \in DOMAIN part :
          part[p].at \in {"query", "done"} =>
              /\ part[p].run \in seen
              /\ part[p].run \in Discovery => status[part[p].run] = "complete"
    /\ \A p \in DOMAIN part :
          part[p].at = "done" /\ p \in {"counts", "page", "total"} =>
              part[p].shown = EntitiesOf(part[p].run)

\* What is between two states of a reader.
ViewInv == TypeOK /\ LoadedLate /\ PartsAreOfOneRun

\* No run has completed and nobody has asked.
LEMMA ViewInit == Init => ViewInv
<1> SUFFICES ASSUME Init PROVE ViewInv
  OBVIOUS
<1>1. RefreshInv
  BY RefreshInitTyped DEF Init
<1>2. part = <<>> /\ DOMAIN part = {} /\ Parts("none") = {}
  BY DEF Init, Parts
<1>3. part \in [Parts(view) -> Answer]
  BY <1>2 DEF Init
<1>4. latest = "none" /\ seen = {"none"} /\ "none" \notin Discovery
  BY DiscoveryAssumption DEF Init, RefreshInit
<1>5. TypeOK
  BY <1>1, <1>3, <1>4 DEF Init, TypeOK, RefreshInv, Run
<1>6. PartsAreOfOneRun
  BY <1>2, <1>4 DEF PartsAreOfOneRun
<1> QED
  BY <1>1, <1>5, <1>6 DEF ViewInv, RefreshInv

\* A run that has completed stays complete, and finds nothing more.
LEMMA CompleteRunsRest ==
    ASSUME RefreshInv, RefreshNext, NEW r \in Run,
           r \in Discovery => status[r] = "complete"
    PROVE  /\ r \in Discovery => status'[r] = "complete"
           /\ EntitiesOf(r)' = EntitiesOf(r)
<1>1. status \in [Discovery -> {"none", "running", "complete", "failed"}]
  BY DEF RefreshInv, RefreshTypeOK
<1>2. CASE \E d \in Discovery : Begin(d) \/ Brief(d) \/ Complete(d) \/ Abort(d)
  BY <1>1, <1>2 DEF Begin, Brief, Complete, Abort, EntitiesOf
<1>3. ASSUME NEW d \in Discovery, NEW n \in Finds[d], Insert(d, n)
      PROVE  /\ r \in Discovery => status'[r] = "complete"
             /\ EntitiesOf(r)' = EntitiesOf(r)
  <2>1. status' = status /\ rows' = rows \cup {<<d, n>>} /\ status[d] = "running"
    BY <1>3 DEF Insert
  <2>2. r # d
    BY <2>1
  <2> QED
    BY <2>1, <2>2 DEF EntitiesOf
<1>4. CASE Tick \/ Work \/ Die
  BY <1>4 DEF Tick, Work, Die, Connect, Register, Load, Enrich, Relate, Stamp, Finish,
     GiveUp, discoveryVars, EntitiesOf
<1> QED
  BY <1>2, <1>3, <1>4 DEF RefreshNext

\* The latest run is always a complete one, or a refresh.
LEMMA LatestIsComplete ==
    ASSUME RefreshInv, RefreshNext, latest \in Discovery => status[latest] = "complete"
    PROVE  latest' \in Discovery => status'[latest'] = "complete"
<1>1. status \in [Discovery -> {"none", "running", "complete", "failed"}] /\ latest \in Run
  BY DEF RefreshInv, RefreshTypeOK
<1>2. CASE latest' = latest
  BY <1>1, <1>2, CompleteRunsRest
<1>3. CASE latest' # latest
  <2>1. ASSUME NEW d \in Discovery, Complete(d)
        PROVE  latest' \in Discovery => status'[latest'] = "complete"
    BY <1>1, <2>1 DEF Complete
  <2>2. CASE Finish
    BY <1>3, <2>2, DiscoveryAssumption DEF Finish
  <2>3. (\E d \in Discovery : Complete(d)) \/ Finish
    BY <1>3 DEF RefreshNext, Begin, Brief, Abort, Insert, Tick, Work, Die, Connect,
       Register, Load, Enrich, Relate, Stamp, GiveUp
  <2> QED
    BY <2>1, <2>2, <2>3
<1> QED
  BY <1>2, <1>3

\* The worker and the other runs do not disturb a request.
LEMMA ViewBesideWork ==
    ASSUME ViewInv, Step PROVE ViewInv'
<1>1. RefreshInv /\ RefreshInv'
  BY RefreshTyped DEF ViewInv, TypeOK, RefreshInv, Step
<1>2. /\ RefreshNext /\ seen' = seen \cup {latest'} /\ part' = part /\ view' = view
      /\ PartsAreOfOneRun /\ part \in [Parts(view) -> Answer] /\ seen \subseteq Run
  BY DEF Step, ViewInv, TypeOK
<1>3. TypeOK'
  <2>1. latest' \in Run
    BY <1>1 DEF RefreshInv, RefreshTypeOK
  <2> QED
    BY <1>1, <1>2, <2>1 DEF TypeOK, RefreshInv, ViewInv
<1>4. latest' \in seen' /\ (latest' \in Discovery => status'[latest'] = "complete")
  BY <1>1, <1>2, LatestIsComplete DEF PartsAreOfOneRun
<1>5. ASSUME NEW p \in DOMAIN part, part[p].at \in {"query", "done"}
      PROVE  /\ part[p].run \in seen'
             /\ part[p].run \in Discovery => status'[part[p].run] = "complete"
             /\ EntitiesOf(part[p].run)' = EntitiesOf(part[p].run)
  <2>1. /\ part[p].run \in Run /\ part[p].run \in seen
        /\ part[p].run \in Discovery => status[part[p].run] = "complete"
    BY <1>2, <1>5 DEF PartsAreOfOneRun, Answer
  <2> DEFINE r == part[p].run
  <2>2. /\ r \in Discovery => status'[r] = "complete"
        /\ EntitiesOf(r)' = EntitiesOf(r)
    <3> HIDE DEF r
    <3> QED
      BY <1>1, <1>2, <2>1, CompleteRunsRest DEF r
  <2> QED
    BY <1>2, <2>1, <2>2
<1>6. PartsAreOfOneRun'
  BY <1>2, <1>4, <1>5 DEF PartsAreOfOneRun, EntitiesOf
<1> QED
  BY <1>1, <1>3, <1>6 DEF ViewInv, RefreshInv

\* A request begins with the latest run, or with none.
LEMMA ViewAsk ==
    ASSUME ViewInv, NEW v \in Views, Ask(v) PROVE ViewInv'
<1>1. /\ UNCHANGED refreshVars /\ view' = v /\ seen' = {latest}
      /\ DOMAIN part' = Parts(v)
      /\ \A p \in Parts(v) :
            \/ part'[p] = NotFound /\ latest = "none"
            \/ part'[p] = [at |-> "query", run |-> latest, shown |-> {}]
            \/ part'[p] = [at |-> "resolve", run |-> "none", shown |-> {}]
      /\ part' = [p \in Parts(v) |-> part'[p]]
  BY DEF Ask
<1>2. /\ latest \in Run /\ "none" \in Run /\ rows \subseteq Id
      /\ latest \in Discovery => status[latest] = "complete"
  BY DEF ViewInv, TypeOK, RefreshTypeOK, Run, PartsAreOfOneRun
<1>3. RefreshTypeOK' /\ LoadedLate'
  BY <1>1 DEF ViewInv, TypeOK, refreshVars, discoveryVars, jobVars, RefreshTypeOK,
     LoadedLate
<1>4. \A p \in Parts(v) : part'[p] \in Answer
  BY <1>1, <1>2 DEF Answer, NotFound
<1>5. part' \in [Parts(v) -> Answer]
  BY <1>1, <1>4
<1>6. TypeOK'
  BY <1>1, <1>2, <1>3, <1>5 DEF TypeOK
<1>7. EntitiesOf("none")' = {}
  <2>1. \A i \in Id : i[1] \in Discovery
    BY DEF Id
  <2>2. rows' \subseteq Id
    BY <1>1, <1>2 DEF refreshVars, discoveryVars
  <2> QED
    BY <2>1, <2>2, DiscoveryAssumption DEF EntitiesOf
<1>8. latest' = latest /\ status' = status
  BY <1>1 DEF refreshVars, discoveryVars
<1>9. PartsAreOfOneRun'
  <2>1. ASSUME NEW p \in Parts(v), part'[p].at \in {"query", "done"}
        PROVE  /\ part'[p].run \in seen'
               /\ part'[p].run \in Discovery => status'[part'[p].run] = "complete"
    BY <1>1, <1>2, <1>8, <2>1 DEF NotFound
  <2>2. ASSUME NEW p \in Parts(v), part'[p].at = "done"
        PROVE  part'[p].shown = EntitiesOf(part[p].run)'
    <3>1. part'[p].run = "none" /\ part'[p].shown = {}
      BY <1>1, <2>2 DEF NotFound
    <3> QED
      BY <1>7, <3>1
  <2> QED
    BY <1>1, <1>2, <1>8, <2>1, <2>2 DEF PartsAreOfOneRun
<1> QED
  BY <1>3, <1>6, <1>9 DEF ViewInv

\* One part of an answer goes on.
LEMMA ViewGoesOn ==
    ASSUME ViewInv, NEW p \in DOMAIN part, Resolve(p) \/ Query(p) PROVE ViewInv'
<1>1. UNCHANGED <<refreshVars, view, seen>>
  BY DEF Resolve, Query
<1>2. /\ part \in [Parts(view) -> Answer] /\ part[p] \in Answer
      /\ latest \in Run /\ rows \subseteq Id /\ PartsAreOfOneRun
  BY DEF ViewInv, TypeOK, RefreshTypeOK
<1>3. RefreshTypeOK' /\ LoadedLate'
  BY <1>1 DEF ViewInv, TypeOK, refreshVars, discoveryVars, jobVars, RefreshTypeOK,
     LoadedLate
<1>4. latest' = latest /\ status' = status /\ rows' = rows /\ seen' = seen
  BY <1>1 DEF refreshVars, discoveryVars
<1>5. \A r : EntitiesOf(r)' = EntitiesOf(r)
  BY <1>4 DEF EntitiesOf
<1>6. PICK new \in Answer :
          /\ part' = [part EXCEPT ![p] = new]
          /\ new.at \in {"query", "done"}
          /\ new.run = latest \/ (new.run = part[p].run /\ part[p].at = "query")
          /\ new.at = "done" /\ p \in {"counts", "page", "total"} =>
                 new.shown = EntitiesOf(new.run)
  <2>1. CASE Resolve(p)
    <3> DEFINE new == [part[p] EXCEPT !.at = "query", !.run = latest]
    <3>1. part' = [part EXCEPT ![p] = new]
      BY <1>2, <2>1 DEF Resolve, Answer
    <3>2. new \in Answer /\ new.at = "query" /\ new.run = latest
      BY <1>2 DEF Answer
    <3> HIDE DEF new
    <3> QED
      BY <3>1, <3>2
  <2>2. CASE Query(p)
    <3> DEFINE S == IF p \in {"counts", "page", "total"} THEN EntitiesOf(part[p].run) ELSE {}
               new == [part[p] EXCEPT !.at = "done", !.shown = S]
    <3>1. part' = [part EXCEPT ![p] = new]
      BY <1>2, <2>2 DEF Query, Answer
    <3>2. S \in SUBSET Id
      BY <1>2 DEF EntitiesOf
    <3>3. /\ new \in Answer /\ new.at = "done" /\ new.run = part[p].run
          /\ new.shown = S
      BY <1>2, <3>2 DEF Answer
    <3>4. part[p].at = "query"
      BY <2>2 DEF Query
    <3> QED
      BY <3>1, <3>3, <3>4
  <2> QED
    BY <2>1, <2>2
<1>7. TypeOK'
  BY <1>1, <1>2, <1>3, <1>6 DEF ViewInv, TypeOK
<1>8. /\ new.run \in seen /\ (new.run \in Discovery => status[new.run] = "complete")
  BY <1>2, <1>6 DEF PartsAreOfOneRun
<1>9. PartsAreOfOneRun'
  BY <1>2, <1>4, <1>5, <1>6, <1>8 DEF PartsAreOfOneRun
<1> QED
  BY <1>3, <1>7, <1>9 DEF ViewInv

\* Every step keeps the invariant of the views.
LEMMA ViewStep == ViewInv /\ [Next]_vars => ViewInv'
<1> SUFFICES ASSUME ViewInv, [Next]_vars PROVE ViewInv'
  OBVIOUS
<1>1. CASE UNCHANGED vars
  BY <1>1 DEF vars, reader, refreshVars, discoveryVars, jobVars, ViewInv, TypeOK,
     RefreshTypeOK, LoadedLate, PartsAreOfOneRun, EntitiesOf
<1> QED
  BY <1>1, ViewBesideWork, ViewAsk, ViewGoesOn DEF Next

-----------------------------------------------------------------------------

\* Every variable of the city keeps its type, for any runs and findings.
THEOREM TypeCorrect == Spec => []TypeOK
<1>1. ViewInv => TypeOK
  BY DEF ViewInv
<1> QED
  BY ViewInit, ViewStep, <1>1, PTL DEF Spec

\* Every part of an answer is the whole of one run that was the latest one
\* during the request, however runs insert, complete and refresh in between.
THEOREM AnswersAreOfOneRun == Spec => []AnswersAreWhole
<1>1. ViewInv => AnswersAreWhole
  BY DEF ViewInv, PartsAreOfOneRun, AnswersAreWhole
<1> QED
  BY ViewInit, ViewStep, <1>1, PTL DEF Spec

\* Only what a registered refresh enriched is stamped.
THEOREM StampsAreEarned == Spec => []OnlyEnrichedAreFresh
<1> DEFINE Inv == ViewInv /\ StampInv
<1>1. Init => Inv
  BY ViewInit, StampInit DEF Init
<1>2. Inv /\ [Next]_vars => Inv'
  <2> SUFFICES ASSUME Inv, [Next]_vars PROVE StampInv'
    BY ViewStep
  <2>1. CASE Step
    BY <2>1, StampStep DEF Step, ViewInv, TypeOK, RefreshInv
  <2>2. CASE UNCHANGED refreshVars
    BY <2>2 DEF refreshVars, jobVars, discoveryVars, StampInv, OnlyEnrichedAreFresh
  <2> QED
    BY <2>1, <2>2 DEF Next, vars, Ask, Resolve, Query
<1>3. Inv => OnlyEnrichedAreFresh
  BY DEF StampInv
<1> QED
  BY <1>1, <1>2, <1>3, PTL DEF Spec

-----------------------------------------------------------------------------
(* The agent that the refresh calls, as the discovery runs did before it:   *)
(* every entity is screened, and what is kept was recorded, for any number  *)
(* of entities, any types, any plans of sources and any caps.               *)

\* The order is one of sources, and begins with the OFAC list.
LEMMA OrderIsOfSources ==
    /\ DOMAIN Order = 1..16 /\ Len(Order) = 16
    /\ \A i \in DOMAIN Order : Order[i] \in Sources
    /\ Order[1] = "ofac"
<1>1. DOMAIN Order = 1..16 /\ Len(Order) = 16 /\ Order[1] = "ofac"
  BY DEF Order
<1>2. \A i \in 1..16 : Order[i] \in Sources
  BY DEF Order, Sources, Source
<1> QED
  BY <1>1, <1>2

\* What is special of the OFAC list: all are asked, each answer is recorded,
\* and nobody is left out the next time.
LEMMA OfacIsForAll ==
    /\ "ofac" \in Sources
    /\ Source["ofac"].types = EveryType /\ Source["ofac"].records = Answers
    /\ ~Source["ofac"].needs /\ Source["ofac"].marks = {} /\ ~Source["ofac"].quiet
BY DEF Sources, Source, Ofac, Recorded, Unrecorded

-----------------------------------------------------------------------------

\* Sources of the data, of the marks, and of what is stored of them.
Kinds ==
    /\ fields \in [Entity -> SUBSET Sources] /\ marks \in [Entity -> SUBSET Sources]
    /\ stored.fields \in [Entity -> SUBSET Sources]
    /\ stored.marks \in [Entity -> SUBSET Sources]

\* Where the agent is, and what it knows of the world.
Places ==
    /\ type \in [Entity -> Types] /\ plan \in Plans
    /\ at[1] \in Nat /\ at[1] >= 1 /\ at[2] \in DOMAIN Order
    /\ at = <<at[1], at[2]>>

\* Whatever is kept of a source that records its answers was recorded.
KeptIsTraced ==
    \A e \in Entity : \A s \in fields[e] \cup stored.fields[e] :
        "found" \in Source[s].records => <<e, s>> \in traced

\* The OFAC list is never left out.
NobodyIsExempt ==
    \A e \in Entity : "ofac" \notin marks[e] /\ "ofac" \notin stored.marks[e]

\* Whoever the agent has passed is screened.
PassedAreScreened ==
    /\ node = "asking" =>
           \A e \in Entity : e < at[1] \/ (e = at[1] /\ at[2] # 1) => e \in screened
    /\ node = "success" => \A e \in Entity : e \in screened

EnrichInv ==
    /\ Kinds /\ Places /\ KeptIsTraced /\ NobodyIsExempt /\ PassedAreScreened
    /\ screened \subseteq Entity

\* Nothing is kept and nobody passed.
LEMMA EnrichInitInv == EnrichInit => EnrichInv
<1> SUFFICES ASSUME EnrichInit PROVE EnrichInv
  OBVIOUS
<1>1. /\ fields = [e \in Entity |-> {}] /\ marks = [e \in Entity |-> {}]
      /\ stored.fields = [e \in Entity |-> {}] /\ stored.marks = [e \in Entity |-> {}]
  BY DEF EnrichInit, Nothing
<1>2. Kinds /\ KeptIsTraced /\ NobodyIsExempt
  BY <1>1 DEF Kinds, KeptIsTraced, NobodyIsExempt
<1>3. Places
  BY OrderIsOfSources DEF EnrichInit, Places
<1>4. PassedAreScreened /\ screened \subseteq Entity
  BY TypesAssumption DEF EnrichInit, PassedAreScreened, Entity
<1> QED
  BY <1>2, <1>3, <1>4 DEF EnrichInv

\* What the source whose turn it is makes of one entity.
LEMMA HereIsASource ==
    ASSUME EnrichInv, Asking
    PROVE  Here \in Sources /\ Who \in Entity
<1>1. Here \in Sources
  BY OrderIsOfSources DEF EnrichInv, Places, Here
<1>2. Who \in Entity
  BY TypesAssumption DEF EnrichInv, Places, Asking, Who, Entity
<1> QED
  BY <1>1, <1>2

\* The OFAC list is due for everybody whose turn it is.
LEMMA OfacIsDue ==
    ASSUME EnrichInv, Asking, Here = "ofac" PROVE Due
<1>1. Who \in Entity /\ type[Who] \in EveryType
  BY HereIsASource, TypesAssumption DEF EnrichInv, Places
<1>2. "ofac" \in plan
  BY PlansAssumption DEF EnrichInv, Places
<1>3. "ofac" \notin marks[Who]
  BY <1>1 DEF EnrichInv, NobodyIsExempt
<1> QED
  BY <1>1, <1>2, <1>3, OfacIsForAll DEF Due

\* The turn goes on within the order, and only from its last source to the
\* next entity.
LEMMA AdvanceKeepsPlaces ==
    ASSUME EnrichInv, Asking, Advance, UNCHANGED <<type, plan>>
    PROVE  /\ Places'
           /\ \A e \in Entity : e < at'[1] \/ (e = at'[1] /\ at'[2] # 1)
                                => e < Who \/ e = Who
<1>1. at[1] \in Nat /\ at[1] >= 1 /\ at[2] \in 1..16 /\ Len(Order) = 16 /\ DOMAIN Order = 1..16
  BY OrderIsOfSources DEF EnrichInv, Places
<1>2. at' = IF at[2] < 16 THEN <<at[1], at[2] + 1>> ELSE <<at[1] + 1, 1>>
  BY <1>1 DEF Advance, Who
<1>3. Places'
  BY <1>1, <1>2 DEF EnrichInv, Places
<1>4. \A e \in Entity : e \in Int
  BY DEF Entity
<1>5. ASSUME NEW e \in Entity, e < at'[1] \/ (e = at'[1] /\ at'[2] # 1)
      PROVE  e < at[1] \/ e = at[1]
  <2>1. at'[1] = at[1] \/ (at'[1] = at[1] + 1 /\ at'[2] = 1)
    BY <1>2
  <2> QED
    BY <1>1, <1>4, <1>5, <2>1
<1> QED
  BY <1>3, <1>5 DEF Who

\* When the agent goes on after the OFAC list has its answer, or from any
\* other source, it leaves nobody behind.
LEMMA AdvanceScreens ==
    ASSUME EnrichInv, Asking, Advance, UNCHANGED <<type, plan, node>>,
           screened' \subseteq Entity, screened \subseteq screened',
           Here = "ofac" => Who \in screened'
    PROVE  Places' /\ PassedAreScreened' /\ screened' \subseteq Entity
<1>1. Places'
  BY AdvanceKeepsPlaces
<1>2. Who \in screened'
  <2>1. CASE at[2] = 1
    BY <2>1, OrderIsOfSources DEF Here
  <2>2. CASE at[2] # 1
    BY <2>2, HereIsASource DEF EnrichInv, PassedAreScreened, Asking, Who
  <2> QED
    BY <2>1, <2>2
<1>3. \A e \in Entity : e < Who => e \in screened'
  BY DEF EnrichInv, PassedAreScreened, Asking, Who
<1>4. \A e \in Entity : e < at'[1] \/ (e = at'[1] /\ at'[2] # 1) => e \in screened'
  BY <1>2, <1>3, AdvanceKeepsPlaces
<1> QED
  BY <1>1, <1>4 DEF PassedAreScreened, Asking

\* An exception ends the node: nobody is promised to be screened.
LEMMA RaiseScreens ==
    ASSUME EnrichInv, Raise, UNCHANGED <<type, plan>>, screened' \subseteq Entity
    PROVE  Places' /\ PassedAreScreened' /\ screened' \subseteq Entity
BY DEF EnrichInv, Places, Raise, PassedAreScreened

\* Marks and data of one more source keep their kinds; the OFAC list makes no
\* marks.
LEMMA OneMoreSource ==
    ASSUME EnrichInv, Asking, NEW answer \in Answers,
           marks' = Marked(answer) \/ marks' = marks,
           fields' = Kept(answer) \/ fields' = fields,
           stored' = stored
    PROVE  Kinds' /\ NobodyIsExempt'
<1>1. Here \in Sources /\ Who \in Entity
  BY HereIsASource
<1>2. Kinds'
  BY <1>1 DEF EnrichInv, Kinds, Marked, Kept
<1>3. NobodyIsExempt'
  <2>1. Here = "ofac" => answer \notin Source[Here].marks
    BY OfacIsForAll
  <2>2. marks' = marks \/ (marks' = [marks EXCEPT ![Who] = @ \cup {Here}] /\ Here # "ofac")
    BY <2>1 DEF Marked
  <2> QED
    BY <1>1, <2>2 DEF EnrichInv, Kinds, NobodyIsExempt
<1> QED
  BY <1>2, <1>3

\* Data of one more source are traced if the answer was recorded.
LEMMA OneMoreTrace ==
    ASSUME EnrichInv, Asking, stored' = stored, traced \subseteq traced',
           \/ fields' = fields
           \/ /\ fields' = [fields EXCEPT ![Who] = @ \cup {Here}]
              /\ "found" \in Source[Here].records => <<Who, Here>> \in traced'
    PROVE  KeptIsTraced'
<1>1. Here \in Sources /\ Who \in Entity
  BY HereIsASource
<1> SUFFICES ASSUME NEW e \in Entity, NEW s \in (fields[e] \cup stored.fields[e])',
                    "found" \in Source[s].records
             PROVE  <<e, s>> \in traced'
  BY DEF KeptIsTraced
<1>2. CASE s \in fields[e] \cup stored.fields[e]
  BY <1>2 DEF EnrichInv, KeptIsTraced
<1>3. CASE s \notin fields[e] \cup stored.fields[e]
  <2>1. e = Who /\ s = Here /\ <<Who, Here>> \in traced'
    BY <1>1, <1>3 DEF EnrichInv, Kinds
  <2> QED
    BY <2>1
<1> QED
  BY <1>2, <1>3

\* Every step keeps the invariant.
LEMMA EnrichStepInv == EnrichInv /\ [EnrichNext]_enrichVars => EnrichInv'
<1> SUFFICES ASSUME EnrichInv, [EnrichNext]_enrichVars PROVE EnrichInv'
  OBVIOUS
<1> USE DEF world, records
<1>1. CASE UNCHANGED enrichVars
  BY <1>1 DEF enrichVars, EnrichInv, Kinds, Places, KeptIsTraced, NobodyIsExempt, PassedAreScreened
<1>2. CASE Pass
  <2>1. /\ Asking /\ Advance
        /\ UNCHANGED <<type, plan, node, fields, marks, stored, traced, screened>>
    BY <1>2 DEF Pass
  <2>2. Here # "ofac"
    BY <1>2, <2>1, OfacIsDue, OfacIsForAll DEF Pass
  <2>3. Places' /\ PassedAreScreened' /\ screened' \subseteq Entity
    BY <2>1, <2>2, AdvanceScreens DEF EnrichInv
  <2>4. Kinds' /\ KeptIsTraced' /\ NobodyIsExempt'
    BY <2>1 DEF EnrichInv, Kinds, KeptIsTraced, NobodyIsExempt
  <2> QED
    BY <2>3, <2>4 DEF EnrichInv
<1>3. CASE OverBudget
  <2>1. /\ Asking /\ Advance /\ Here = "proxycurl"
        /\ UNCHANGED <<type, plan, node, fields, marks, stored, traced, screened>>
    BY <1>3 DEF OverBudget, Due
  <2>2. Places' /\ PassedAreScreened' /\ screened' \subseteq Entity
    BY <2>1, AdvanceScreens DEF EnrichInv
  <2>3. Kinds' /\ KeptIsTraced' /\ NobodyIsExempt'
    BY <2>1 DEF EnrichInv, Kinds, KeptIsTraced, NobodyIsExempt
  <2> QED
    BY <2>2, <2>3 DEF EnrichInv
<1>4. ASSUME NEW answer \in Answers, Receive(answer) PROVE EnrichInv'
  <2>1. /\ Asking /\ Advance /\ UNCHANGED <<type, plan, node, stored>>
        /\ marks' = Marked(answer) /\ fields' = Kept(answer)
        /\ IF answer \in Source[Here].records THEN Record ELSE UNCHANGED <<traced, screened>>
    BY <1>4 DEF Receive, Due
  <2>2. Who \in Entity
    BY <2>1, HereIsASource
  <2>3. /\ traced \subseteq traced' /\ screened \subseteq screened' /\ screened' \subseteq Entity
        /\ Here = "ofac" => Who \in screened'
        /\ answer \in Source[Here].records => <<Who, Here>> \in traced'
    BY <2>1, <2>2, OfacIsForAll DEF Record, EnrichInv
  <2>4. Places' /\ PassedAreScreened' /\ screened' \subseteq Entity
    BY <2>1, <2>3, AdvanceScreens
  <2>5. Kinds' /\ NobodyIsExempt'
    BY <2>1, OneMoreSource
  <2>6. KeptIsTraced'
    <3>1. \/ fields' = fields
          \/ answer = "found" /\ fields' = [fields EXCEPT ![Who] = @ \cup {Here}]
      BY <2>1 DEF Kept
    <3> QED
      BY <2>1, <2>3, <3>1, OneMoreTrace
  <2> QED
    BY <2>4, <2>5, <2>6 DEF EnrichInv
<1>5. ASSUME NEW answer \in Answers, RecordFails(answer) PROVE EnrichInv'
  <2>1. /\ Asking /\ UNCHANGED <<type, plan, stored, fields, traced, screened>>
        /\ marks' = Marked(answer) \/ marks' = marks
        /\ Raise \/ (Source[Here].quiet /\ Advance /\ node' = node)
    BY <1>5 DEF RecordFails, Due
  <2>2. Places' /\ PassedAreScreened' /\ screened' \subseteq Entity
    <3>1. CASE Raise
      BY <2>1, <3>1, RaiseScreens DEF EnrichInv
    <3>2. CASE ~Raise
      <4>1. Here # "ofac" /\ Advance /\ node' = node
        BY <2>1, <3>2, OfacIsForAll
      <4> QED
        BY <2>1, <4>1, AdvanceScreens DEF EnrichInv
    <3> QED
      BY <3>1, <3>2
  <2>3. Kinds' /\ NobodyIsExempt'
    BY <2>1, OneMoreSource
  <2>4. KeptIsTraced'
    BY <2>1, OneMoreTrace
  <2> QED
    BY <2>2, <2>3, <2>4 DEF EnrichInv
<1>6. CASE Breaks
  <2>1. PICK recorded \in BOOLEAN, marked \in BOOLEAN, kept \in BOOLEAN :
            /\ kept /\ Source[Here].records # {} => recorded
            /\ IF recorded THEN Record ELSE UNCHANGED records
            /\ marks' = IF marked THEN Marked("found") ELSE marks
            /\ fields' = IF kept THEN Kept("found") ELSE fields
    BY <1>6 DEF Breaks
  <2>2. Asking /\ Raise /\ UNCHANGED <<type, plan, stored>>
    BY <1>6 DEF Breaks, Due
  <2>3. Who \in Entity
    BY <2>2, HereIsASource
  <2>4. /\ traced \subseteq traced' /\ screened' \subseteq Entity
        /\ recorded => <<Who, Here>> \in traced'
    BY <2>1, <2>3 DEF Record, EnrichInv
  <2>5. Places' /\ PassedAreScreened' /\ screened' \subseteq Entity
    BY <2>2, <2>4, RaiseScreens
  <2>6. Kinds' /\ NobodyIsExempt'
    <3>1. "found" \in Answers
      BY DEF Answers
    <3> QED
      BY <2>1, <2>2, <3>1, OneMoreSource
  <2>7. KeptIsTraced'
    <3>1. \/ fields' = fields
          \/ /\ fields' = [fields EXCEPT ![Who] = @ \cup {Here}]
             /\ "found" \in Source[Here].records => <<Who, Here>> \in traced'
      BY <2>1, <2>4 DEF Kept
    <3> QED
      BY <2>2, <2>4, <3>1, OneMoreTrace
  <2> QED
    BY <2>5, <2>6, <2>7 DEF EnrichInv
<1>7. CASE Succeed
  <2>1. /\ node' = "success" /\ node = "asking" /\ at[1] > Count
        /\ UNCHANGED <<type, plan, at, fields, marks, stored, traced, screened>>
    BY <1>7 DEF Succeed, Who
  <2>2. \A e \in Entity : e < at[1]
    BY <2>1, TypesAssumption DEF EnrichInv, Places, Entity
  <2> QED
    BY <2>1, <2>2 DEF EnrichInv, Kinds, Places, KeptIsTraced, NobodyIsExempt, PassedAreScreened
<1>8. CASE Persist
  <2>1. /\ node' = "idle"
        /\ UNCHANGED <<type, plan, at, fields, marks, traced, screened>>
    BY <1>8 DEF Persist
  <2>2. PICK S \in SUBSET Entity :
            stored' = [fields |-> [e \in Entity |-> IF e \in S THEN fields[e] ELSE stored.fields[e]],
                       marks  |-> [e \in Entity |-> IF e \in S THEN marks[e] ELSE stored.marks[e]]]
    BY <1>8 DEF Persist
  <2>3. /\ stored'.fields = [e \in Entity |-> IF e \in S THEN fields[e] ELSE stored.fields[e]]
        /\ stored'.marks = [e \in Entity |-> IF e \in S THEN marks[e] ELSE stored.marks[e]]
    BY <2>2
  <2>4. Kinds'
    BY <2>1, <2>3 DEF EnrichInv, Kinds
  <2>5. KeptIsTraced'
    BY <2>1, <2>3 DEF EnrichInv, KeptIsTraced
  <2>6. NobodyIsExempt'
    BY <2>1, <2>3 DEF EnrichInv, NobodyIsExempt
  <2> QED
    BY <2>1, <2>4, <2>5, <2>6 DEF EnrichInv, Places, PassedAreScreened
<1>9. CASE Refresh
  <2>1. /\ node' = "asking" /\ at' = <<1, 1>>
        /\ fields' = stored.fields /\ marks' = stored.marks /\ screened' = {}
        /\ UNCHANGED <<type, plan, stored, traced>>
    BY <1>9 DEF Refresh
  <2>2. Kinds' /\ KeptIsTraced' /\ NobodyIsExempt'
    BY <2>1 DEF EnrichInv, Kinds, KeptIsTraced, NobodyIsExempt
  <2>3. Places'
    BY <2>1, OrderIsOfSources DEF EnrichInv, Places
  <2>4. PassedAreScreened' /\ screened' \subseteq Entity
    BY <2>1 DEF PassedAreScreened, Entity
  <2> QED
    BY <2>2, <2>3, <2>4 DEF EnrichInv
<1> QED
  BY <1>1, <1>2, <1>3, <1>4, <1>5, <1>6, <1>7, <1>8, <1>9 DEF EnrichNext

\* A node that succeeds has screened every entity, and what is kept in memory
\* or in Postgres of a source that records was recorded, whatever failed.
THEOREM KeptIsProven == EnrichSpec => []ProofOfEnrichment
<1>1. EnrichInv => ProofOfEnrichment
  BY DEF EnrichInv, PassedAreScreened, KeptIsTraced, ProofOfEnrichment
<1> QED
  BY EnrichInitInv, EnrichStepInv, <1>1, PTL DEF EnrichSpec

=============================================================================

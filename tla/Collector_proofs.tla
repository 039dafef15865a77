-------------------------- MODULE Collector_proofs --------------------------
(***************************************************************************)
(* One call of a collection agent leaves its audit trail, restricts whom   *)
(* it must, and answers once, for any number of targeted queries.          *)
(***************************************************************************)
EXTENDS Collector, FiniteSetTheorems, WellFoundedInduction, TLAPS

-----------------------------------------------------------------------------
(* The table of sources.                                                   *)

\* What a reading makes: entities, of which the delicate ones are restricted.
Fit(reading) ==
    /\ reading.makes \subseteq EntityTypes /\ reading.stubs \subseteq EntityTypes
    /\ reading.restricted \in BOOLEAN

Careful(reading) ==
    \A t \in reading.makes \cup reading.stubs :
        t \in {"political", "illicit", "politician"} => reading.restricted

\* A source of one of the kinds, with a handful of calls, which is careful
\* unless it is curated.
WellMade(s) ==
    /\ s.kind \in {"search", "seeds", "detail"}
    /\ s.asks \in 0..20 /\ s.targets \in 0..20
    /\ Fit(s.reads)
    /\ s.kind # "seeds" => Careful(s.reads)

\* The agents are those of the table.
LEMMA AgentsAreListed ==
    Agents = {"corporate_agent", "nonprofit_agent", "politician_agent", "investor_agent",
              "executive_hnw_agent", "philanthropic_agent", "political_agent",
              "illicit_agent", "community_leader_agent", "hnwi_agent", "pipeline_agent"}
BY DEF Agents, SourcesOf

\* Readings of the ordinary types, and restricted ones of any type.
LEMMA Readings1 ==
    ASSUME NEW types \in SUBSET EntityTypes, NEW skipped
    PROVE  /\ Fit(Reading(types, skipped))
           /\ types \cap {"political", "illicit", "politician"} = {} =>
                  Careful(Reading(types, skipped))
           /\ Fit(Restricted(Reading(types, skipped)))
           /\ Careful(Restricted(Reading(types, skipped)))
<1>1. /\ Reading(types, skipped).makes = types /\ Reading(types, skipped).stubs = {}
      /\ Reading(types, skipped).restricted = FALSE
  BY DEF Reading
<1>2. /\ Restricted(Reading(types, skipped)).makes = types
      /\ Restricted(Reading(types, skipped)).stubs = {}
      /\ Restricted(Reading(types, skipped)).restricted = TRUE
  BY DEF Reading, Restricted
<1>3. Fit(Reading(types, skipped)) /\ Fit(Restricted(Reading(types, skipped)))
  <2>1. FALSE \in BOOLEAN /\ TRUE \in BOOLEAN
    OBVIOUS
  <2> QED
    BY <1>1, <1>2, <2>1 DEF Fit
<1>4. types \cap {"political", "illicit", "politician"} = {} =>
          Careful(Reading(types, skipped))
  BY <1>1 DEF Careful
<1>5. Careful(Restricted(Reading(types, skipped)))
  BY <1>2 DEF Careful
<1> QED
  BY <1>3, <1>4, <1>5

\* Sources of a good reading.
LEMMA SearchIsWellMade ==
    ASSUME NEW n \in 0..20, NEW m \in 0..20, NEW what, NEW reading,
           Fit(reading), Careful(reading)
    PROVE  /\ WellMade(Search(n, reading))
           /\ WellMade(Needing(what, Search(n, reading)))
           /\ WellMade(SerpApi(n, reading))
           /\ WellMade(Targetable(m, SerpApi(n, reading)))
BY DEF WellMade, Search, Needing, SerpApi, Targetable

\* Curated lists.
LEMMA SeedsAreWellMade ==
    ASSUME NEW type \in EntityTypes PROVE WellMade(Seeds(type))
<1>1. /\ Seeds(type).kind = "seeds" /\ Seeds(type).asks = 1 /\ Seeds(type).targets = 0
      /\ Seeds(type).reads = Reading({type}, {})
  BY DEF Seeds, Search
<1> QED
  BY <1>1, Readings1 DEF WellMade

\* Details, whatever works or is traced.
LEMMA DetailIsWellMade ==
    /\ WellMade(Detail) /\ WellMade(NonprofitDetail) /\ WellMade(ExecutiveProfiles)
<1>1. /\ Detail.kind = "detail" /\ Detail.asks = 0 /\ Detail.targets = 0
      /\ Detail.reads = Reading({}, {})
  BY DEF Detail, Search
<1>2. /\ NonprofitDetail.kind = "detail" /\ NonprofitDetail.asks = 0
      /\ NonprofitDetail.targets = 0 /\ NonprofitDetail.reads = Reading({}, {})
  BY DEF NonprofitDetail, Detail, Search
<1>3. /\ ExecutiveProfiles.kind = "detail" /\ ExecutiveProfiles.asks = 0
      /\ ExecutiveProfiles.targets = 0 /\ ExecutiveProfiles.reads = Reading({}, {})
  BY DEF ExecutiveProfiles, Detail, Search
<1>4. Fit(Reading({}, {})) /\ Careful(Reading({}, {}))
  BY Readings1
<1> QED
  BY <1>1, <1>2, <1>3, <1>4 DEF WellMade

\* What the corporate agent asks; a Form D makes stubs of officers, too.
LEMMA CorporateSourcesAreWellMade ==
    /\ DOMAIN CorporateSources = 1..6
    /\ \A i \in 1..6 : WellMade(CorporateSources[i])
<1> {"corporate"} \in SUBSET EntityTypes /\ "corporate" \in EntityTypes
  BY DEF EntityTypes
<1>1. WellMade(Seeds("corporate"))
  BY SeedsAreWellMade
<1>2. WellMade(CorporateCrunchbase)
  BY Readings1, SearchIsWellMade DEF CorporateCrunchbase, CrunchbaseCompany
<1>3. WellMade(CorporateFormD)
  <2>1. /\ FormDFiling.makes = {"corporate"} /\ FormDFiling.stubs = {"executive_hnw"}
        /\ FormDFiling.restricted = FALSE
    BY DEF FormDFiling, Reading
  <2>2. Fit(FormDFiling) /\ Careful(FormDFiling)
    BY <2>1 DEF Fit, Careful, EntityTypes
  <2> QED
    BY <2>2, SearchIsWellMade DEF CorporateFormD
<1>4. WellMade(CorporateEdgar)
  BY Readings1, SearchIsWellMade DEF CorporateEdgar, AnnualReport
<1>5. WellMade(CorporateRegistry)
  BY Readings1, SearchIsWellMade DEF CorporateRegistry, RegisteredCompany
<1>6. WellMade(CorporateSerp)
  BY Readings1, SearchIsWellMade DEF CorporateSerp, CompanyFromText, Extraction
<1> QED
  BY <1>1, <1>2, <1>3, <1>4, <1>5, <1>6 DEF CorporateSources

\* What the nonprofit agent asks.
LEMMA NonprofitSourcesAreWellMade ==
    /\ DOMAIN NonprofitSources = 1..6
    /\ \A i \in 1..6 : WellMade(NonprofitSources[i])
<1> {"nonprofit"} \in SUBSET EntityTypes /\ "nonprofit" \in EntityTypes
  BY DEF EntityTypes
<1> {"philanthropic"} \in SUBSET EntityTypes /\ "philanthropic" \in EntityTypes
  BY DEF EntityTypes
<1>1. WellMade(Seeds("nonprofit"))
  BY SeedsAreWellMade
<1>2. WellMade(Seeds("philanthropic"))
  BY SeedsAreWellMade
<1>3. WellMade(NonprofitRegister)
  BY Readings1, SearchIsWellMade DEF NonprofitRegister, EcosystemNonprofit
<1>4. WellMade(NonprofitDetail)
  BY DetailIsWellMade
<1>5. WellMade(NonprofitGrants)
  BY Readings1, SearchIsWellMade DEF NonprofitGrants, GrantRecipient
<1>6. WellMade(NonprofitSerp)
  BY Readings1, SearchIsWellMade DEF NonprofitSerp, NonprofitFromText, Extraction
<1> QED
  BY <1>1, <1>2, <1>3, <1>4, <1>5, <1>6 DEF NonprofitSources

\* What the politician agent asks.
LEMMA PoliticianSourcesAreWellMade ==
    /\ DOMAIN PoliticianSources = 1..4
    /\ \A i \in 1..4 : WellMade(PoliticianSources[i])
<1> {"politician"} \in SUBSET EntityTypes /\ "politician" \in EntityTypes
  BY DEF EntityTypes
<1>1. WellMade(Seeds("politician"))
  BY SeedsAreWellMade
<1>2. WellMade(PoliticianCongress)
  BY Readings1, SearchIsWellMade DEF PoliticianCongress, CongressMember
<1>3. WellMade(PoliticianFEC)
  BY Readings1, SearchIsWellMade DEF PoliticianFEC, FederalCandidate
<1>4. WellMade(PoliticianSerp)
  BY Readings1, SearchIsWellMade DEF PoliticianSerp, OfficialFromText, Extraction
<1> QED
  BY <1>1, <1>2, <1>3, <1>4 DEF PoliticianSources

\* What the investor agent asks.
LEMMA InvestorSourcesAreWellMade ==
    /\ DOMAIN InvestorSources = 1..4
    /\ \A i \in 1..4 : WellMade(InvestorSources[i])
<1> {"investor"} \in SUBSET EntityTypes /\ "investor" \in EntityTypes
  BY DEF EntityTypes
<1>1. WellMade(Seeds("investor"))
  BY SeedsAreWellMade
<1>2. WellMade(InvestorCrunchbase)
  BY Readings1, SearchIsWellMade DEF InvestorCrunchbase, CrunchbaseInvestor
<1>3. WellMade(InvestorSerp)
  BY Readings1, SearchIsWellMade DEF InvestorSerp, InvestorFromText
<1>4. WellMade(InvestorEdgar)
  BY Readings1, SearchIsWellMade DEF InvestorEdgar, RegisteredAdviser
<1> QED
  BY <1>1, <1>2, <1>3, <1>4 DEF InvestorSources

\* What the executive_hnw agent asks.
LEMMA ExecutiveSourcesAreWellMade ==
    /\ DOMAIN ExecutiveSources = 1..4
    /\ \A i \in 1..4 : WellMade(ExecutiveSources[i])
<1> {"executive_hnw"} \in SUBSET EntityTypes /\ "executive_hnw" \in EntityTypes
  BY DEF EntityTypes
<1>1. WellMade(Seeds("executive_hnw"))
  BY SeedsAreWellMade
<1>2. WellMade(ExecutiveCrunchbase)
  BY Readings1, SearchIsWellMade DEF ExecutiveCrunchbase, CrunchbasePerson
<1>3. WellMade(ExecutiveProfiles)
  BY DetailIsWellMade
<1>4. WellMade(ExecutiveSerp)
  BY Readings1, SearchIsWellMade DEF ExecutiveSerp, ExecutiveFromText, Extraction
<1> QED
  BY <1>1, <1>2, <1>3, <1>4 DEF ExecutiveSources

\* What the philanthropic agent asks.
LEMMA PhilanthropicSourcesAreWellMade ==
    /\ DOMAIN PhilanthropicSources = 1..3
    /\ \A i \in 1..3 : WellMade(PhilanthropicSources[i])
<1> {"philanthropic"} \in SUBSET EntityTypes /\ "philanthropic" \in EntityTypes
  BY DEF EntityTypes
<1>1. WellMade(PhilanthropicRegister)
  BY Readings1, SearchIsWellMade DEF PhilanthropicRegister, Foundation
<1>2. WellMade(PhilanthropicEdgar)
  BY Readings1, SearchIsWellMade DEF PhilanthropicEdgar, FoundationFiler
<1>3. WellMade(PhilanthropicSerp)
  BY Readings1, SearchIsWellMade DEF PhilanthropicSerp, DonorFromText, Extraction
<1> QED
  BY <1>1, <1>2, <1>3 DEF PhilanthropicSources

\* What the political agent asks.
LEMMA PoliticalSourcesAreWellMade ==
    /\ DOMAIN PoliticalSources = 1..3
    /\ \A i \in 1..3 : WellMade(PoliticalSources[i])
<1> {"political"} \in SUBSET EntityTypes /\ "political" \in EntityTypes
  BY DEF EntityTypes
<1>1. WellMade(PoliticalFEC)
  BY Readings1, SearchIsWellMade DEF PoliticalFEC, Committee
<1>2. WellMade(PoliticalOpenSecrets)
  BY Readings1, SearchIsWellMade DEF PoliticalOpenSecrets, Spender
<1>3. WellMade(PoliticalSerp)
  BY Readings1, SearchIsWellMade DEF PoliticalSerp, OrganizationFromText, Extraction
<1> QED
  BY <1>1, <1>2, <1>3 DEF PoliticalSources

\* What the illicit agent asks.
LEMMA IllicitSourcesAreWellMade ==
    /\ DOMAIN IllicitSources = 1..2
    /\ \A i \in 1..2 : WellMade(IllicitSources[i])
<1> {"illicit"} \in SUBSET EntityTypes /\ "illicit" \in EntityTypes
  BY DEF EntityTypes
<1>1. WellMade(IllicitOFAC)
  BY Readings1, SearchIsWellMade DEF IllicitOFAC, SanctionMatch
<1>2. WellMade(IllicitCourts)
  BY Readings1, SearchIsWellMade DEF IllicitCourts, Defendant
<1> QED
  BY <1>1, <1>2 DEF IllicitSources

\* What the community_leader agent asks.
LEMMA CommunitySourcesAreWellMade ==
    /\ DOMAIN CommunitySources = 1..2
    /\ \A i \in 1..2 : WellMade(CommunitySources[i])
<1> {"community_leader"} \in SUBSET EntityTypes /\ "community_leader" \in EntityTypes
  BY DEF EntityTypes
<1>1. WellMade(CommunitySerp)
  BY Readings1, SearchIsWellMade DEF CommunitySerp, LeaderFromText, Extraction
<1>2. WellMade(CommunityNews)
  BY Readings1, SearchIsWellMade DEF CommunityNews, LeaderFromArticle, Extraction
<1> QED
  BY <1>1, <1>2 DEF CommunitySources

\* What the hnwi agent asks.
LEMMA HnwiSourcesAreWellMade ==
    /\ DOMAIN HnwiSources = 1..2
    /\ \A i \in 1..2 : WellMade(HnwiSources[i])
<1> {"hnwi"} \in SUBSET EntityTypes /\ "hnwi" \in EntityTypes
  BY DEF EntityTypes
<1>1. WellMade(HnwiEdgar)
  BY Readings1, SearchIsWellMade DEF HnwiEdgar, Insider
<1>2. WellMade(HnwiSerp)
  BY Readings1, SearchIsWellMade DEF HnwiSerp, WealthFromText, Extraction
<1> QED
  BY <1>1, <1>2 DEF HnwiSources

\* What the pipeline agent asks.
LEMMA PipelineSourcesAreWellMade ==
    /\ DOMAIN PipelineSources = 1..1
    /\ \A i \in 1..1 : WellMade(PipelineSources[i])
<1>1. WellMade(PipelineRecords)
  BY Readings1, SearchIsWellMade DEF PipelineRecords, ResearchFinding
<1> QED
  BY <1>1 DEF PipelineSources

\* Every agent has at most six sources, each of them well made.
LEMMA SourcesAreWellMade ==
    ASSUME NEW a \in Agents
    PROVE  /\ \E n \in 0..6 : DOMAIN SourcesOf[a] = 1..n /\ Len(SourcesOf[a]) = n
           /\ \A i \in DOMAIN SourcesOf[a] : WellMade(SourcesOf[a][i])
<1> DEFINE P(s) == /\ \E n \in 0..6 : DOMAIN s = 1..n /\ Len(s) = n
                   /\ \A i \in DOMAIN s : WellMade(s[i])
<1>1. P(CorporateSources)
  BY CorporateSourcesAreWellMade DEF CorporateSources
<1>2. P(NonprofitSources)
  BY NonprofitSourcesAreWellMade DEF NonprofitSources
<1>3. P(PoliticianSources)
  BY PoliticianSourcesAreWellMade DEF PoliticianSources
<1>4. P(InvestorSources)
  BY InvestorSourcesAreWellMade DEF InvestorSources
<1>5. P(ExecutiveSources)
  BY ExecutiveSourcesAreWellMade DEF ExecutiveSources
<1>6. P(PhilanthropicSources)
  BY PhilanthropicSourcesAreWellMade DEF PhilanthropicSources
<1>7. P(PoliticalSources)
  BY PoliticalSourcesAreWellMade DEF PoliticalSources
<1>8. P(IllicitSources)
  BY IllicitSourcesAreWellMade DEF IllicitSources
<1>9. P(CommunitySources)
  BY CommunitySourcesAreWellMade DEF CommunitySources
<1>10. P(HnwiSources)
  BY HnwiSourcesAreWellMade DEF HnwiSources
<1>11. P(PipelineSources)
  BY PipelineSourcesAreWellMade DEF PipelineSources
<1> HIDE DEF P
<1>12. P(SourcesOf[a])
  BY <1>1, <1>2, <1>3, <1>4, <1>5, <1>6, <1>7, <1>8, <1>9, <1>10, <1>11,
     AgentsAreListed DEF SourcesOf
<1> QED
  BY <1>12 DEF P

\* A source that is asked, one of the agent's.
LEMMA SourceIsWellMade ==
    ASSUME agent \in Agents, NEW i \in DOMAIN SourcesOf[agent]
    PROVE  i \in 1..6 /\ WellMade(Source(agent, i))
BY SourcesAreWellMade DEF Source

-----------------------------------------------------------------------------
(* The invariant.                                                          *)

\* What ProofOfSearch asks of a source that is done with.
Done(i) ==
    IF Usable(i)
    THEN Source(agent, i).kind = "search" => \A n \in CallsOf(i) : <<i, n>> \in traced
    ELSE <<i, 0>> \in traced

Typed ==
    /\ agent \in Agents
    /\ queries \in Nat
    /\ at \in Nat \ {0}
    /\ kept \subseteq Entity

\* Every search that was made has its record, unless run() is raising.
Trail ==
    /\ \A i \in DOMAIN SourcesOf[agent] : i < at => Done(i)
    /\ \A c \in asked : Source(agent, c[1]).kind = "search" => c \in traced

Outcome ==
    /\ pc \in {"start", "run", "raised", "ended"}
    /\ pc = "start" => at = 1 /\ asked = {}
    /\ pc # "ended" => result = "none" /\ delta = {}
    /\ result = "success" => \A i \in DOMAIN SourcesOf[agent] : Done(i)
    /\ delta \subseteq kept

\* An entity has the reading of the source that brought it.
Marked ==
    \A e \in kept :
        /\ e.from \in traced
        /\ e.from[1] \in DOMAIN SourcesOf[agent]
        /\ e.type \in Source(agent, e.from[1]).reads.makes
                          \cup Source(agent, e.from[1]).reads.stubs
        /\ e.restricted = Source(agent, e.from[1]).reads.restricted

IInv ==
    /\ Typed
    /\ pc \in {"start", "run"} => Trail
    /\ Outcome
    /\ Marked

\* The smallest of some numbers is one of them.
LEMMA MinIsOne ==
    ASSUME NEW S \in SUBSET Nat, S # {}
    PROVE  /\ Min(S) \in S
           /\ \A y \in S : Min(S) <= y
<1> DEFINE R == {ss \in Nat \X Nat : ss[1] < ss[2]}
<1>1. IsWellFoundedOn(R, Nat)
  BY NatLessThanWellFounded DEF OpToRel
<1>2. PICK x \in S : \A y \in S : ~(<<y, x>> \in R)
  <2> HIDE DEF R
  <2> QED
    BY <1>1, WFMin
<1>3. \A y \in S : x <= y
  <2> SUFFICES ASSUME NEW y \in S PROVE x <= y
    OBVIOUS
  <2>1. <<y, x>> \notin R /\ <<y, x>> \in Nat \X Nat
    BY <1>2
  <2> QED
    BY <2>1
<1> QED
  BY <1>3 DEF Min

\* A source makes a handful of calls.
LEMMA CallsAreFew ==
    ASSUME Typed, NEW i \in DOMAIN SourcesOf[agent]
    PROVE  CallsOf(i) \subseteq 0..20
<1> DEFINE s == Source(agent, i)
<1>1. s.asks \in 0..20 /\ s.targets \in 0..20
  BY SourceIsWellMade DEF Typed, WellMade
<1> HIDE DEF s
<1>2. CASE s.kind = "detail"
  <2>1. Fruitful(i) \subseteq 0..20
    BY DEF Typed, Entity, Call, Fruitful
  <2>2. CallsOf(i) = Fruitful(i)
    BY <1>2 DEF CallsOf, s
  <2> QED
    BY <2>1, <2>2
<1>3. CASE s.kind # "detail" /\ s.targets > 0 /\ queries > 0
  <2>1. CallsOf(i) = 1..Min({s.targets, queries})
    BY <1>3 DEF CallsOf, s
  <2>2. {s.targets, queries} \in SUBSET Nat /\ {s.targets, queries} # {}
    BY <1>1 DEF Typed
  <2>3. Min({s.targets, queries}) \in Nat /\ Min({s.targets, queries}) <= s.targets
    BY <2>2, MinIsOne
  <2> QED
    BY <1>1, <2>1, <2>3
<1>4. CASE s.kind # "detail" /\ ~(s.targets > 0 /\ queries > 0)
  <2>1. CallsOf(i) = 1..s.asks
    BY <1>4 DEF CallsOf, s
  <2> QED
    BY <1>1, <2>1
<1> QED
  BY <1>2, <1>3, <1>4

\* Whose turn it is.
LEMMA TurnIsACall ==
    ASSUME Typed, Asking
    PROVE  /\ at \in DOMAIN SourcesOf[agent]
           /\ Turn \in Call /\ Turn[1] = at
<1>1. at \in DOMAIN SourcesOf[agent]
  BY SourcesAreWellMade DEF Typed, Asking, Working
<1>2. Pending \subseteq 0..20 /\ Pending # {}
  BY <1>1, CallsAreFew DEF Pending, Asking
<1>3. Min(Pending) \in 0..20
  <2>1. Pending \in SUBSET Nat
    BY <1>2
  <2>2. Min(Pending) \in Pending
    BY <1>2, <2>1, MinIsOne
  <2> QED
    BY <1>2, <2>2
<1>4. at \in 1..6
  BY <1>1, SourceIsWellMade DEF Typed
<1> QED
  BY <1>1, <1>3, <1>4 DEF Turn, Call

\* What a reading makes is an entity with the marks of its source.
LEMMA MadeIsMarked ==
    ASSUME Typed, Asking,
           NEW types \in SUBSET (Here.reads.makes \cup Here.reads.stubs)
    PROVE  /\ Made(types) \subseteq Entity
           /\ \A e \in Made(types) :
                 /\ e.from = Turn /\ e.from[1] = at
                 /\ e.type \in Here.reads.makes \cup Here.reads.stubs
                 /\ e.restricted = Here.reads.restricted
<1>1. /\ at \in DOMAIN SourcesOf[agent] /\ Turn \in Call /\ Turn[1] = at
  BY TurnIsACall
<1>2. Fit(Here.reads)
  BY <1>1, SourceIsWellMade DEF Typed, WellMade, Here
<1>3. \A e \in Made(types) :
          \E t \in types : e = [from |-> Turn, type |-> t, restricted |-> Here.reads.restricted]
  BY DEF Made
<1>4. \A e \in Made(types) :
          /\ e.from = Turn
          /\ e.type \in Here.reads.makes \cup Here.reads.stubs
          /\ e.restricted = Here.reads.restricted
  BY <1>3
<1>5. Made(types) \subseteq Entity
  BY <1>1, <1>2, <1>3 DEF Fit, Entity
<1> QED
  BY <1>1, <1>4, <1>5

\* A source that is done with stays so.
LEMMA DoneStays ==
    ASSUME UNCHANGED world, traced \subseteq traced', NEW i, Done(i)
    PROVE  Done(i)'
<1>1. agent' = agent /\ have' = have /\ queries' = queries
  BY DEF world
<1>2. Source(agent, i)' = Source(agent, i) /\ Usable(i)' = Usable(i)
  BY <1>1 DEF Usable, Source
<1>3. CASE Usable(i) /\ Source(agent, i).kind = "search"
  <2>1. CallsOf(i)' = CallsOf(i)
    BY <1>1, <1>3 DEF CallsOf, Source
  <2> QED
    BY <1>2, <1>3, <2>1 DEF Done
<1>4. CASE Usable(i) /\ Source(agent, i).kind # "search"
  BY <1>2, <1>4 DEF Done
<1>5. CASE ~Usable(i)
  BY <1>2, <1>5 DEF Done
<1> QED
  BY <1>3, <1>4, <1>5

-----------------------------------------------------------------------------
(* The invariant is one.                                                   *)

LEMMA InitIsGood ==
    ASSUME Init PROVE IInv
<1>1. agent \in Agents /\ queries \in Nat
  BY CallableAssumption, TargetsAssumption DEF Init
<1>2. at = 1 /\ asked = {} /\ kept = {} /\ delta = {} /\ pc = "start" /\ result = "none"
  BY DEF Init
<1>3. \A i \in DOMAIN SourcesOf[agent] : ~(i < at)
  BY <1>1, <1>2, SourceIsWellMade
<1> QED
  BY <1>1, <1>2, <1>3 DEF IInv, Typed, Trail, Outcome, Marked

\* A call that leaves its record and what it brought.
LEMMA CallIsTraced ==
    ASSUME IInv, Asking, Trace(Turn), at' = at,
           NEW types \in SUBSET (Here.reads.makes \cup Here.reads.stubs),
           kept' = kept \cup Made(types)
    PROVE  IInv'
<1>1. /\ pc = "run" /\ pc' = "run" /\ UNCHANGED world
      /\ traced' = traced \cup {Turn} /\ asked' = asked \cup {Turn}
      /\ result' = result /\ delta' = delta
  BY DEF Asking, Working, Trace
<1>2. Typed /\ Trail /\ Outcome /\ Marked
  BY <1>1 DEF IInv
<1>3. agent' = agent /\ have' = have /\ queries' = queries
  BY <1>1 DEF world
<1>4. /\ Made(types) \subseteq Entity
      /\ \A e \in Made(types) :
            /\ e.from = Turn /\ e.from[1] = at
            /\ e.type \in Here.reads.makes \cup Here.reads.stubs
            /\ e.restricted = Here.reads.restricted
  BY <1>2, MadeIsMarked
<1>5. Typed'
  BY <1>2, <1>3, <1>4 DEF Typed
<1>6. Trail'
  <2>1. \A i \in DOMAIN SourcesOf[agent] : i < at => Done(i)'
    BY <1>1, <1>2, DoneStays DEF Trail
  <2>2. \A c \in asked' : Source(agent, c[1]).kind = "search" => c \in traced'
    BY <1>1, <1>2 DEF Trail
  <2> QED
    BY <1>3, <2>1, <2>2 DEF Trail
<1>7. Outcome'
  BY <1>1, <1>2 DEF Outcome
<1>8. Marked'
  <2>1. at \in DOMAIN SourcesOf[agent]
    BY <1>2, TurnIsACall
  <2> SUFFICES ASSUME NEW e \in kept'
               PROVE  /\ e.from \in traced'
                      /\ e.from[1] \in DOMAIN SourcesOf[agent]
                      /\ e.type \in Source(agent, e.from[1]).reads.makes
                                        \cup Source(agent, e.from[1]).reads.stubs
                      /\ e.restricted = Source(agent, e.from[1]).reads.restricted
    BY <1>3 DEF Marked
  <2>2. CASE e \in kept
    BY <1>1, <1>2, <2>2 DEF Marked
  <2>3. CASE e \in Made(types)
    BY <1>1, <1>4, <2>1, <2>3 DEF Here
  <2> QED
    BY <2>2, <2>3
<1> QED
  BY <1>5, <1>6, <1>7, <1>8 DEF IInv

\* A call that brings nothing, whether it is recorded or not.
LEMMA IdleCallIsFine ==
    ASSUME IInv, Asking, UNCHANGED <<world, at, kept, result, delta>>,
           \/ pc' = pc /\ traced' = traced \cup {Turn}
           \/ pc' = pc /\ traced' = traced /\ Here.kind # "search"
           \/ pc' = "raised" /\ traced \subseteq traced'
    PROVE  IInv'
<1>1. pc = "run" /\ UNCHANGED world /\ asked' = asked \cup {Turn} /\ traced \subseteq traced'
  BY DEF Asking, Working
<1>2. Typed /\ Trail /\ Outcome /\ Marked
  BY <1>1 DEF IInv
<1>3. agent' = agent /\ have' = have /\ queries' = queries
  BY <1>1 DEF world
<1>4. Typed' /\ Marked'
  BY <1>1, <1>2, <1>3 DEF Typed, Marked
<1>5. Outcome'
  BY <1>1, <1>2 DEF Outcome
<1>6. CASE pc' = "raised"
  BY <1>4, <1>5, <1>6 DEF IInv
<1>7. CASE pc' = pc /\ (traced' = traced \cup {Turn} \/ Here.kind # "search")
  <2>1. \A i \in DOMAIN SourcesOf[agent] : i < at => Done(i)'
    BY <1>1, <1>2, DoneStays DEF Trail
  <2>2. Turn[1] = at
    BY <1>2, TurnIsACall
  <2>3. \A c \in asked' : Source(agent, c[1]).kind = "search" => c \in traced'
    BY <1>1, <1>2, <1>7, <2>2 DEF Trail, Here
  <2>4. Trail'
    BY <1>3, <2>1, <2>3 DEF Trail
  <2> QED
    BY <1>4, <1>5, <2>4 DEF IInv
<1> QED
  BY <1>6, <1>7

\* On to the next source, done with this one.
LEMMA SourceIsDone ==
    ASSUME IInv, Working, UNCHANGED <<world, pc, asked, kept, result, delta>>,
           at' = at + 1, traced \subseteq traced',
           NEW here \in DOMAIN SourcesOf[agent], here = at, Done(here)'
    PROVE  IInv'
<1>1. pc = "run" /\ pc' = pc /\ UNCHANGED world /\ asked' = asked
  BY DEF Working
<1>2. Typed /\ Trail /\ Outcome /\ Marked
  BY <1>1 DEF IInv
<1>3. agent' = agent /\ have' = have /\ queries' = queries
  BY <1>1 DEF world
<1>4. Typed' /\ Marked'
  BY <1>1, <1>2, <1>3 DEF Typed, Marked
<1>5. Outcome'
  BY <1>1, <1>2 DEF Outcome
<1>6. Trail'
  <2>1. \A i \in DOMAIN SourcesOf[agent] : i < at => Done(i)'
    BY <1>1, <1>2, DoneStays DEF Trail
  <2>2. \A i \in DOMAIN SourcesOf[agent] : i < at + 1 => i < at \/ i = at
    BY <1>2, SourceIsWellMade DEF Typed
  <2>3. ASSUME NEW i \in DOMAIN SourcesOf[agent], i < at + 1 PROVE Done(i)'
    <3>1. CASE i = here
      BY <3>1
    <3> QED
      BY <2>1, <2>2, <2>3, <3>1
  <2>4. \A c \in asked' : Source(agent, c[1]).kind = "search" => c \in traced'
    BY <1>1, <1>2 DEF Trail
  <2> QED
    BY <1>3, <2>3, <2>4 DEF Trail
<1> QED
  BY <1>4, <1>5, <1>6 DEF IInv

\* Without the record of a call or of a source, run() raises.
LEMMA RaisingIsFine ==
    ASSUME IInv, pc = "run", TraceFails
    PROVE  IInv'
<1>1. Typed /\ Outcome /\ Marked /\ agent' = agent /\ queries' = queries
  BY DEF IInv, TraceFails, world
<1>2. pc' = "raised" /\ UNCHANGED <<at, traced, kept, result, delta>>
  BY DEF TraceFails
<1> QED
  BY <1>1, <1>2 DEF IInv, Typed, Outcome, Marked

LEMMA StepKeepsInv ==
    ASSUME IInv, [Next]_vars PROVE IInv'
<1> USE DEF IInv
<1>1. CASE Start
  <2>1. /\ pc = "start" /\ pc' \in {"run", "ended"} /\ UNCHANGED world
        /\ UNCHANGED <<at, asked, traced, kept, delta>>
        /\ result' = result \/ (pc' = "ended" /\ result' = "raised")
    BY <1>1 DEF Start
  <2>2. agent' = agent /\ have' = have /\ queries' = queries
    BY <2>1 DEF world
  <2>3. Typed' /\ Marked'
    BY <2>1, <2>2 DEF Typed, Marked
  <2>4. Outcome'
    BY <2>1 DEF Outcome
  <2>5. Trail'
    <3>1. \A i \in DOMAIN SourcesOf[agent] : i < at => Done(i)'
      BY <2>1, DoneStays DEF Trail
    <3> QED
      BY <2>1, <2>2, <3>1 DEF Trail
  <2> QED
    BY <2>3, <2>4, <2>5
<1>2. CASE SkipSource
  <2>1. Working /\ ~Usable(at) /\ UNCHANGED asked /\ pc = "run"
    BY <1>2 DEF SkipSource, Working
  <2>2. CASE Trace(<<at, 0>>) /\ at' = at + 1 /\ UNCHANGED kept
    <3>1. PICK here \in DOMAIN SourcesOf[agent] : here = at
      BY <2>1, SourcesAreWellMade DEF Typed, Working
    <3>2. UNCHANGED world /\ traced' = traced \cup {<<at, 0>>}
      BY <2>2 DEF Trace
    <3>3. Done(here)'
      <4>1. ~Usable(here)'
        BY <2>1, <3>1, <3>2 DEF Usable, Source, world
      <4> QED
        BY <3>1, <3>2, <4>1 DEF Done
    <3> QED
      BY <2>1, <2>2, <3>1, <3>2, <3>3, SourceIsDone DEF Trace
  <2>3. CASE TraceFails
    BY <2>1, <2>3, RaisingIsFine
  <2> QED
    BY <1>2, <2>2, <2>3 DEF SkipSource
<1>3. CASE LoadSeeds
  <2>1. Asking /\ Here.kind = "seeds" /\ pc = "run"
    BY <1>3 DEF LoadSeeds, Asking, Working
  <2>2. CASE kept' = kept \cup Made(Here.reads.makes) /\ Trace(Turn) /\ UNCHANGED at
    BY <2>1, <2>2, CallIsTraced
  <2>3. CASE UNCHANGED <<world, pc, at, traced, kept, result, delta>>
    BY <2>1, <2>3, IdleCallIsFine
  <2>4. CASE TraceFails
    BY <2>1, <2>4, RaisingIsFine
  <2> QED
    BY <1>3, <2>2, <2>3, <2>4 DEF LoadSeeds
<1>4. CASE CallFails
  <2>1. Asking /\ pc = "run"
    BY <1>4 DEF CallFails, Asking, Working
  <2>2. CASE Trace(Turn) /\ UNCHANGED <<at, kept>>
    BY <2>1, <2>2, IdleCallIsFine DEF Trace
  <2>3. CASE TraceFails
    BY <2>1, <2>3, RaisingIsFine
  <2> QED
    BY <1>4, <2>2, <2>3 DEF CallFails
<1>5. CASE Answered
  <2>1. Asking /\ pc = "run"
    BY <1>5 DEF Answered, Asking, Working
  <2>2. ASSUME NEW classes \in SUBSET Classes, NEW types \in Readings(classes),
               kept' = kept \cup Made(types), Trace(Turn), UNCHANGED at
        PROVE  IInv'
    <3>1. types \in SUBSET (Here.reads.makes \cup Here.reads.stubs)
      BY <2>2 DEF Readings
    <3> QED
      BY <2>1, <2>2, <3>1, CallIsTraced
  <2>3. CASE TraceFails
    BY <2>1, <2>3, RaisingIsFine
  <2> QED
    BY <1>5, <2>2, <2>3 DEF Answered
<1>6. CASE Detailed
  <2>1. Asking /\ pc = "run"
    BY <1>6 DEF Detailed, Asking, Working
  <2>2. CASE Trace(Turn) /\ UNCHANGED <<at, kept>>
    BY <2>1, <2>2, IdleCallIsFine DEF Trace
  <2>3. CASE TraceFails
    BY <2>1, <2>3, RaisingIsFine
  <2> QED
    BY <1>6, <2>2, <2>3 DEF Detailed
<1>7. CASE PassOver
  BY <1>7, IdleCallIsFine DEF PassOver
<1>8. CASE AnswerBreaks
  BY <1>8, IdleCallIsFine DEF AnswerBreaks
<1>9. CASE NextSource
  <2>1. /\ Working /\ Usable(at) /\ Pending = {} /\ at' = at + 1
        /\ UNCHANGED <<world, pc, asked, traced, kept, result, delta>>
    BY <1>9 DEF NextSource
  <2>2. PICK here \in DOMAIN SourcesOf[agent] : here = at
    BY <2>1, SourcesAreWellMade DEF Typed, Working
  <2>3. \A n \in CallsOf(here) : <<here, n>> \in asked /\ <<here, n>>[1] = here
    BY <2>1, <2>2 DEF Pending
  <2>4. Done(here)
    <3>1. Trail
      BY <2>1 DEF Working
    <3> QED
      BY <2>1, <2>2, <2>3, <3>1 DEF Done, Trail
  <2>5. Done(here)'
    BY <2>1, <2>4, DoneStays
  <2> QED
    BY <2>1, <2>2, <2>5, SourceIsDone
<1>10. CASE Succeed
  <2>1. /\ pc = "run" /\ ~Working /\ pc' = "ended" /\ result' = "success"
        /\ delta' = kept /\ UNCHANGED <<world, at, asked, traced, kept>>
    BY <1>10 DEF Succeed
  <2>2. \A i \in DOMAIN SourcesOf[agent] : i < at
    BY <2>1, SourcesAreWellMade DEF Typed, Working
  <2>3. \A i \in DOMAIN SourcesOf[agent] : Done(i)'
    BY <2>1, <2>2, DoneStays DEF Trail
  <2>4. agent' = agent /\ have' = have /\ queries' = queries
    BY <2>1 DEF world
  <2>5. Typed' /\ Marked'
    BY <2>1, <2>4 DEF Typed, Marked
  <2>6. Outcome'
    BY <2>1, <2>3, <2>4 DEF Outcome
  <2> QED
    BY <2>1, <2>5, <2>6
<1>11. CASE HandleError
  <2>1. /\ pc = "raised" /\ pc' = "ended" /\ result' \in {"error", "raised"}
        /\ UNCHANGED <<world, at, asked, traced, kept, delta>>
    BY <1>11 DEF HandleError
  <2>2. agent' = agent /\ have' = have /\ queries' = queries
    BY <2>1 DEF world
  <2>3. Typed' /\ Marked' /\ Outcome'
    BY <2>1, <2>2 DEF Typed, Marked, Outcome
  <2> QED
    BY <2>1, <2>3
<1>12. CASE UNCHANGED vars
  <2>1. /\ UNCHANGED <<agent, have, queries>> /\ UNCHANGED world
        /\ UNCHANGED <<pc, at, asked, traced, kept, result, delta>>
    BY <1>12 DEF vars, world
  <2>2. \A i \in DOMAIN SourcesOf[agent] : Done(i) => Done(i)'
    BY <2>1, DoneStays
  <2>3. Typed' /\ Marked'
    BY <2>1 DEF Typed, Marked
  <2>4. Outcome' /\ (Trail => Trail')
    BY <2>1, <2>2 DEF Outcome, Trail
  <2> QED
    BY <2>1, <2>3, <2>4
<1> QED
  BY <1>1, <1>2, <1>3, <1>4, <1>5, <1>6, <1>7, <1>8, <1>9, <1>10, <1>11, <1>12
     DEF Next, Step, Ended

\* The invariant of a call.
THEOREM InvHolds == Spec => []IInv
<1>1. Init => IInv
  BY InitIsGood
<1>2. IInv /\ [Next]_vars => IInv'
  BY StepKeepsInv
<1> QED
  BY <1>1, <1>2, PTL DEF Spec

-----------------------------------------------------------------------------

\* BaseAgent.write_search_record: a call that succeeds has left the record of
\* every search, or why a source was not asked, and reports nothing else.
THEOREM SearchIsProven == Spec => []ProofOfSearch
<1>1. IInv => ProofOfSearch
  BY DEF IInv, Outcome, Marked, ProofOfSearch, Done
<1> QED
  BY <1>1, InvHolds, PTL

\* Whoever finds a politician, a political organisation or an illicit actor
\* outside of the curated lists restricts it, at every step of a call.
THEOREM SensitiveIsRestricted == Spec => []SensitiveAreRestricted
<1>1. ASSUME IInv PROVE SensitiveAreRestricted
  <2> SUFFICES ASSUME NEW e \in delta,
                      e.type \in {"political", "illicit", "politician"},
                      Source(agent, e.from[1]).kind # "seeds"
               PROVE  e.restricted
    BY DEF SensitiveAreRestricted
  <2>1. /\ agent \in Agents
        /\ e.from[1] \in DOMAIN SourcesOf[agent]
        /\ e.type \in Source(agent, e.from[1]).reads.makes
                          \cup Source(agent, e.from[1]).reads.stubs
        /\ e.restricted = Source(agent, e.from[1]).reads.restricted
    BY <1>1 DEF IInv, Typed, Outcome, Marked
  <2>2. Careful(Source(agent, e.from[1]).reads)
    BY <2>1, SourceIsWellMade DEF WellMade
  <2> QED
    BY <2>1, <2>2 DEF Careful
<1> QED
  BY <1>1, InvHolds, PTL

\* The safety of AnswersOnce: a call of an agent is one step of AgentCall, all
\* it kept or nothing.
THEOREM CallIsOneAnswer ==
    Spec => Abstract!Init /\ [][Abstract!Answer]_<<result, delta>>
<1>1. Init => Abstract!Init
  BY DEF Init, Abstract!Init
<1>2. ASSUME IInv, [Next]_vars PROVE [Abstract!Answer]_<<result, delta>>
  <2>1. CASE UNCHANGED <<result, delta>>
    BY <2>1
  <2>2. CASE Start /\ pc' = "ended" /\ result' = "raised"
    BY <1>2, <2>2 DEF Start, IInv, Outcome, Abstract!Answer
  <2>3. CASE Succeed
    BY <1>2, <2>3 DEF Succeed, IInv, Outcome, Typed, Abstract!Answer
  <2>4. CASE HandleError
    BY <1>2, <2>4 DEF HandleError, IInv, Outcome, Abstract!Answer
  <2>5. CASE UNCHANGED vars
    BY <2>5 DEF vars
  <2> QED
    BY <1>2, <2>1, <2>2, <2>3, <2>4, <2>5
       DEF Next, Step, Ended, Start, SkipSource, LoadSeeds, CallFails, Answered, Detailed,
           PassOver, AnswerBreaks, NextSource, Trace, TraceFails
<1> QED
  BY <1>1, <1>2, InvHolds, PTL DEF Spec

-----------------------------------------------------------------------------
(* The call comes to its end: every step leaves less to do.                *)

\* Where __call__ still has to go.
Distance == [start |-> 3, run |-> 2, raised |-> 1, ended |-> 0]

\* That, the sources and the calls that are left.
Left == Distance[pc] + (7 - at) + Cardinality(Call \ asked)

Bounded == at \in 1..7 /\ asked \subseteq Call

LEMMA CallsAreFinite == IsFiniteSet(Call) /\ Cardinality(Call) = 126
<1>1. \A a, b \in Int : /\ IsFiniteSet(a..b)
                         /\ Cardinality(a..b) = IF a > b THEN 0 ELSE b - a + 1
  BY FS_Interval
<1>2. IsFiniteSet(1..6) /\ Cardinality(1..6) = 6
  <2>1. /\ IsFiniteSet(1..6)
        /\ Cardinality(1..6) = IF 1 > 6 THEN 0 ELSE 6 - 1 + 1
    BY <1>1, 1 \in Int, 6 \in Int, Zenon
  <2> QED
    BY <2>1
<1>3. IsFiniteSet(0..20) /\ Cardinality(0..20) = 21
  <2>1. /\ IsFiniteSet(0..20)
        /\ Cardinality(0..20) = IF 0 > 20 THEN 0 ELSE 20 - 0 + 1
    BY <1>1, 0 \in Int, 20 \in Int, Zenon
  <2> QED
    BY <2>1
<1>4. IsFiniteSet(Call) /\ Cardinality(Call) = Cardinality(1..6) * Cardinality(0..20)
  BY <1>2, <1>3, FS_Product DEF Call
<1> QED
  BY <1>2, <1>3, <1>4

LEMMA RestIsFinite ==
    IsFiniteSet(Call \ asked) /\ Cardinality(Call \ asked) \in 0..126
<1>1. Call \ asked \in SUBSET Call
  OBVIOUS
<1>2. IsFiniteSet(Call \ asked) /\ Cardinality(Call \ asked) <= Cardinality(Call)
  BY <1>1, CallsAreFinite, FS_Subset
<1>3. Cardinality(Call \ asked) \in Nat
  BY <1>2, FS_CardinalityType
<1> QED
  BY <1>2, <1>3, CallsAreFinite

\* The call whose turn it is was not made before.
LEMMA TurnIsNew == ASSUME Typed, Asking PROVE Turn \notin asked
<1>1. at \in DOMAIN SourcesOf[agent] /\ Pending # {}
  BY TurnIsACall DEF Asking
<1>2. Pending \in SUBSET Nat
  BY <1>1, CallsAreFew DEF Pending
<1>3. Min(Pending) \in Pending
  BY <1>1, <1>2, MinIsOne
<1> QED
  BY <1>3 DEF Turn, Pending

\* What a step may do: go on in __call__, go on to another source, or make a
\* call.
LEMMA StepsAreOfThreeKinds ==
    ASSUME IInv, Next
    PROVE  \/ UNCHANGED vars
           \/ /\ UNCHANGED <<at, asked>> /\ pc' \in DOMAIN Distance
              /\ Distance[pc'] < Distance[pc]
           \/ Working /\ at' = at + 1 /\ UNCHANGED <<pc, asked>>
           \/ Asking /\ at' = at /\ pc' \in {"run", "raised"}
<1> USE DEF Distance
<1>1. CASE Start
  BY <1>1 DEF Start
<1>2. CASE SkipSource
  BY <1>2 DEF SkipSource, Working, Trace, TraceFails
<1>3. CASE LoadSeeds \/ CallFails \/ Answered \/ Detailed
  BY <1>3 DEF LoadSeeds, CallFails, Answered, Detailed, Asking, Working, Trace, TraceFails
<1>4. CASE PassOver \/ AnswerBreaks
  BY <1>4 DEF PassOver, AnswerBreaks, Asking, Working
<1>5. CASE NextSource
  BY <1>5 DEF NextSource
<1>6. CASE Succeed
  BY <1>6 DEF Succeed
<1>7. CASE HandleError
  BY <1>7 DEF HandleError
<1>8. CASE Ended
  BY <1>8 DEF Ended
<1> QED
  BY <1>1, <1>2, <1>3, <1>4, <1>5, <1>6, <1>7, <1>8 DEF Next, Step

LEMMA StepIsNearer ==
    ASSUME IInv, Bounded, Next
    PROVE  Bounded' /\ [Left' < Left]_vars
<1>1. Distance[pc] \in 0..3 /\ (pc = "run" => Distance[pc] = 2)
  BY DEF Distance, IInv, Outcome
<1>2. at \in 1..7 /\ Cardinality(Call \ asked) \in 0..126
  BY RestIsFinite DEF Bounded
<1>3. CASE UNCHANGED vars
  BY <1>3 DEF vars, Bounded
<1>4. CASE /\ UNCHANGED <<at, asked>> /\ pc' \in DOMAIN Distance
           /\ Distance[pc'] < Distance[pc]
  <2>1. Distance[pc'] \in 0..3
    BY <1>4 DEF Distance
  <2>2. Call \ asked' = Call \ asked
    BY <1>4
  <2> QED
    BY <1>1, <1>2, <1>4, <2>1, <2>2 DEF Left, Bounded
<1>5. CASE Working /\ at' = at + 1 /\ UNCHANGED <<pc, asked>>
  <2>1. at \in 1..6
    <3>1. PICK n \in 0..6 : Len(SourcesOf[agent]) = n
      BY SourcesAreWellMade DEF IInv, Typed
    <3> QED
      BY <1>2, <1>5, <3>1 DEF Working
  <2>2. Call \ asked' = Call \ asked
    BY <1>5
  <2> QED
    BY <1>1, <1>2, <1>5, <2>1, <2>2 DEF Left, Bounded
<1>6. CASE Asking /\ at' = at /\ pc' \in {"run", "raised"}
  <2>1. asked' = asked \cup {Turn} /\ Turn \in Call /\ Turn \notin asked /\ pc = "run"
    BY <1>6, TurnIsACall, TurnIsNew DEF IInv, Asking, Working
  <2>2. Call \ asked' = (Call \ asked) \ {Turn} /\ Turn \in Call \ asked
    BY <2>1
  <2>3. Cardinality(Call \ asked') = Cardinality(Call \ asked) - 1
    BY <2>2, RestIsFinite, FS_RemoveElement
  <2>4. Distance[pc'] \in 1..2
    BY <1>6 DEF Distance
  <2> QED
    BY <1>1, <1>2, <1>6, <2>1, <2>3, <2>4 DEF Left, Bounded
<1> QED
  BY <1>3, <1>4, <1>5, <1>6, StepsAreOfThreeKinds

\* Whatever answers, fails or raises, a call comes to its end: every step of
\* __call__ and run() leaves fewer calls, sources or stages than before, and no
\* call to a source is made twice.
THEOREM CallIsBounded == Spec => [](Left \in 0..135) /\ [][Left' < Left]_vars
<1>1. Init => Bounded
  BY DEF Init, Bounded
<1>2. IInv /\ Bounded /\ [Next]_vars => Bounded' /\ [Left' < Left]_vars
  <2>1. UNCHANGED vars /\ Bounded => Bounded'
    BY DEF vars, Bounded
  <2> QED
    BY <2>1, StepIsNearer
<1>3. IInv /\ Bounded => Left \in 0..135
  <2> SUFFICES ASSUME IInv, Bounded PROVE Left \in 0..135
    OBVIOUS
  <2>1. Distance[pc] \in 0..3
    BY DEF Distance, IInv, Outcome
  <2> QED
    BY <2>1, RestIsFinite DEF Left, Bounded
<1> QED
  BY <1>1, <1>2, <1>3, InvHolds, PTL DEF Spec

=============================================================================

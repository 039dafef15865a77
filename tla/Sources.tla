------------------------------ MODULE Sources ------------------------------
(***************************************************************************)
(* What each collection agent asks, in the order its run() asks it         *)
(* (osint/agents/*.py).  An agent is a sequence of sources.  A source is a *)
(* number of calls together with the reading of one record of an answer:   *)
(* which entities a record makes, and for which reasons it is left out.    *)
(*                                                                         *)
(* A record of an answer belongs to one of these classes:                  *)
(*   good      it names somebody the agent collects;                       *)
(*   nameless  it has no name;                                             *)
(*   unfit     it is too small, of the wrong kind, too old, a generic name *)
(*             or a name already seen, which some agents test;             *)
(*   unread    the language model does not answer, or its answer lacks a   *)
(*             name or a quote;                                            *)
(*   null      a field the code takes for granted is null, of another type *)
(*             or an empty list: .strip(), [0], .get or [:n] raises.       *)
(* No reading guards against the last one.                                 *)
(***************************************************************************)
EXTENDS Integers, Sequences

Classes == {"good", "nameless", "unfit", "unread", "null"}

EntityTypes == {"corporate", "executive_hnw", "investor", "nonprofit",
                "philanthropic", "politician", "political", "illicit",
                "community_leader", "hnwi"}

\* A reading: the types of entity a good record makes, those it may make in
\* addition, the classes that are skipped, and whether the entities are
\* restricted and held for review.
Reading(types, skipped) ==
    [makes |-> types, stubs |-> {}, skips |-> skipped, restricted |-> FALSE]

\* sensitivity_tier "restricted" and needs_review, which always go together.
Restricted(reading) == [reading EXCEPT !.restricted = TRUE]

\* A source with n calls; needs what must be configured or known for the
\* first, targets how many queries of the gap analysis replace the calls.
Search(n, reading) ==
    [kind |-> "search", needs |-> "nothing", asks |-> n, targets |-> 0,
     reads |-> reading, works |-> TRUE, traced |-> TRUE]

Needing(what, source) == [source EXCEPT !.needs = what]

Targetable(n, source) == [source EXCEPT !.targets = n]

\* The curated list of a type: no call, every entity standard and unreviewed.
Seeds(type) == [Search(1, Reading({type}, {})) EXCEPT !.kind = "seeds"]

\* A further call for each entity of the source before it, which the answer
\* changes in place.
Detail == [Search(0, Reading({}, {})) EXCEPT !.kind = "detail"]

\* What every SerpAPI source and GDELT do with one result.
Extraction(type) == Reading({type}, {"nameless", "unread"})

SerpApi(n, reading) == Targetable(n, Needing("serpapi", Search(n, reading)))

-----------------------------------------------------------------------------
(* corporate_agent                                                         *)

CrunchbaseCompany == Reading({"corporate"}, {"nameless", "unfit"})
CorporateCrunchbase == Needing("crunchbase", Search(1, CrunchbaseCompany))

\* A filing makes its issuer and a stub for each officer.
FormDFiling ==
    [Reading({"corporate"}, {"nameless"}) EXCEPT !.stubs = {"executive_hnw"}]
CorporateFormD == Search(1, FormDFiling)

AnnualReport == Reading({"corporate"}, {"nameless"})
CorporateEdgar == Search(1, AnnualReport)

RegisteredCompany == Reading({"corporate"}, {"nameless", "unfit"})
CorporateRegistry == Search(1, RegisteredCompany)

CompanyFromText == Extraction("corporate")
CorporateSerp == SerpApi(3, CompanyFromText)

CorporateSources ==
    <<Seeds("corporate"), CorporateCrunchbase, CorporateFormD, CorporateEdgar,
      CorporateRegistry, CorporateSerp>>

-----------------------------------------------------------------------------
(* nonprofit_agent, which loads the seeds of the philanthropic agent too    *)

EcosystemNonprofit == Reading({"nonprofit"}, {"nameless", "unfit"})
NonprofitRegister == Search(2, EcosystemNonprofit)

\* _enrich_from_990_detail: a call that fails, or answers with nothing, is
\* passed over without a search record.
NonprofitDetail == [Detail EXCEPT !.traced = FALSE]

GrantRecipient == Reading({"nonprofit"}, {"nameless", "unfit"})
NonprofitGrants == Search(1, GrantRecipient)

NonprofitFromText == Extraction("nonprofit")
NonprofitSerp == SerpApi(3, NonprofitFromText)

NonprofitSources ==
    <<Seeds("nonprofit"), Seeds("philanthropic"), NonprofitRegister,
      NonprofitDetail, NonprofitGrants, NonprofitSerp>>

-----------------------------------------------------------------------------
(* politician_agent                                                        *)

\* Both chambers, if the state of the city is in the table.
CongressMember == Restricted(Reading({"politician"}, {"nameless"}))
PoliticianCongress == Needing("state", Search(2, CongressMember))

FederalCandidate == Restricted(Reading({"politician"}, {"nameless"}))
PoliticianFEC == Needing("state", Search(1, FederalCandidate))

\* Mutant: built like any other extraction.
OfficialFromText_Standard == Extraction("politician")

OfficialFromText == Restricted(Extraction("politician"))
PoliticianSerp == SerpApi(2, OfficialFromText)

PoliticianSources ==
    <<Seeds("politician"), PoliticianCongress, PoliticianFEC, PoliticianSerp>>

-----------------------------------------------------------------------------
(* investor_agent                                                          *)

CrunchbaseInvestor == Reading({"investor"}, {"nameless"})
InvestorCrunchbase == Needing("crunchbase", Search(1, CrunchbaseInvestor))

\* The only agent that tests an extracted name with is_garbage_entity_name.
InvestorFromText == Reading({"investor"}, {"nameless", "unread", "unfit"})
InvestorSerp == SerpApi(3, InvestorFromText)

RegisteredAdviser == Reading({"investor"}, {"nameless"})
InvestorEdgar == Search(1, RegisteredAdviser)

InvestorSources ==
    <<Seeds("investor"), InvestorCrunchbase, InvestorSerp, InvestorEdgar>>

-----------------------------------------------------------------------------
(* executive_hnw_agent                                                     *)

CrunchbasePerson == Reading({"executive_hnw"}, {"nameless"})
ExecutiveCrunchbase == Needing("crunchbase", Search(1, CrunchbasePerson))

\* _enrich_with_proxycurl leaves out the run_id that get_person_profile
\* requires: every call raises a TypeError, which is caught and recorded.
ExecutiveProfiles == [Detail EXCEPT !.works = FALSE]

ExecutiveFromText == Extraction("executive_hnw")
ExecutiveSerp == SerpApi(3, ExecutiveFromText)

ExecutiveSources ==
    <<Seeds("executive_hnw"), ExecutiveCrunchbase, ExecutiveProfiles,
      ExecutiveSerp>>

-----------------------------------------------------------------------------
(* philanthropic_agent, which loads no seeds                               *)

Foundation == Reading({"philanthropic"}, {"nameless", "unfit"})
PhilanthropicRegister == Search(1, Foundation)

FoundationFiler == Reading({"philanthropic"}, {"nameless", "unfit"})
PhilanthropicEdgar == Search(1, FoundationFiler)

DonorFromText == Extraction("philanthropic")
PhilanthropicSerp == SerpApi(3, DonorFromText)

PhilanthropicSources ==
    <<PhilanthropicRegister, PhilanthropicEdgar, PhilanthropicSerp>>

-----------------------------------------------------------------------------
(* political_agent: there are no seeds of its type                         *)

Committee == Restricted(Reading({"political"}, {"nameless"}))
PoliticalFEC == Search(1, Committee)

Spender == Restricted(Reading({"political"}, {"nameless"}))
PoliticalOpenSecrets == Needing("opensecrets", Search(1, Spender))

OrganizationFromText == Restricted(Extraction("political"))
PoliticalSerp == SerpApi(2, OrganizationFromText)

PoliticalSources == <<PoliticalFEC, PoliticalOpenSecrets, PoliticalSerp>>

-----------------------------------------------------------------------------
(* illicit_agent, which has no use for the targets of pass 2               *)

SanctionMatch == Restricted(Reading({"illicit"}, {"nameless", "unfit"}))
IllicitOFAC == Search(1, SanctionMatch)

Defendant == Restricted(Reading({"illicit"}, {"nameless", "unfit"}))
IllicitCourts == Search(1, Defendant)

IllicitSources == <<IllicitOFAC, IllicitCourts>>

-----------------------------------------------------------------------------
(* community_leader_agent, which loads no seeds                            *)

\* Four of its five templates, the practitioner's angle among them if the
\* orchestrator drafted one; at most three targeted queries.
LeaderFromText == Extraction("community_leader")
CommunitySerp == Targetable(3, SerpApi(4, LeaderFromText))

LeaderFromArticle == Extraction("community_leader")
CommunityNews == Search(2, LeaderFromArticle)

CommunitySources == <<CommunitySerp, CommunityNews>>

-----------------------------------------------------------------------------
(* hnwi_agent, which loads no seeds                                        *)

Insider == Reading({"hnwi"}, {"nameless", "unfit"})
HnwiEdgar == Search(1, Insider)

WealthFromText == Extraction("hnwi")
HnwiSerp == SerpApi(3, WealthFromText)

HnwiSources == <<HnwiEdgar, HnwiSerp>>

-----------------------------------------------------------------------------
(* pipeline_agent                                                          *)

\* A call of _llm_extract_entities fails on the attribute self.llm, which no
\* agent has, and the guard turns that into an empty list: whatever the other
\* database holds, nothing becomes an entity.  A database that cannot be
\* reached answers like an empty one.
ResearchFinding == Reading({}, Classes)
PipelineRecords == Needing("pipeline_db", Search(1, ResearchFinding))

PipelineSources == <<PipelineRecords>>

-----------------------------------------------------------------------------

SourcesOf == [
    corporate_agent        |-> CorporateSources,
    nonprofit_agent        |-> NonprofitSources,
    politician_agent       |-> PoliticianSources,
    investor_agent         |-> InvestorSources,
    executive_hnw_agent    |-> ExecutiveSources,
    philanthropic_agent    |-> PhilanthropicSources,
    political_agent        |-> PoliticalSources,
    illicit_agent          |-> IllicitSources,
    community_leader_agent |-> CommunitySources,
    hnwi_agent             |-> HnwiSources,
    pipeline_agent         |-> PipelineSources]

Agents == DOMAIN SourcesOf

Source(agent, i) == SourcesOf[agent][i]

=============================================================================

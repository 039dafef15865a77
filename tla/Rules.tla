------------------------------- MODULE Rules -------------------------------
(***************************************************************************)
(* Which edge each extractor of the relationship agent reads from which    *)
(* field (osint/agents/relationship.py).  A field belongs to an entity of  *)
(* a certain type, its holder, and names another entity; the name is       *)
(* looked up with one type after the other.  The steps stand in the order  *)
(* in which run() calls them.                                              *)
(***************************************************************************)
EXTENDS Integers, Sequences, FiniteSetsExt

Persons == {"executive_hnw", "hnwi", "politician", "community_leader"}

\* SENSITIVE_REL_TYPES.
SensitiveTypes == {"LITIGATION_AGAINST", "POLITICALLY_CONNECTED_TO", "DONATED_TO",
                   "REGULATORY_OVERSIGHT"}

\* RELATIONSHIP_DIRECTION; a type that it lacks is directed.
Undirected == {"CO_INVESTED_WITH", "PEER_INVESTOR_IN", "CO_FOUNDED_WITH",
               "MENTIONED_WITH", "POLITICALLY_CONNECTED_TO"}

\* The holder is the source of the edge; end is the other one.
From(holders, types, edge, quality) ==
    [holders |-> holders, wanted |-> types, edge |-> edge,
     quality |-> quality, holderIs |-> "source"]

\* The holder is the target of the edge.
To(holders, types, edge, quality) ==
    [From(holders, types, edge, quality) EXCEPT !.holderIs = "target"]

-----------------------------------------------------------------------------
(* One extractor each.                                                     *)

InvestedIn ==
    {From({"investor"}, <<"corporate", "nonprofit", "philanthropic">>, "INVESTED_IN", "primary"),
     To({"corporate"}, <<"investor", "executive_hnw">>, "INVESTED_IN", "primary")}

Founded ==
    {To({"corporate"}, <<"executive_hnw">>, "FOUNDED", "primary"),
     From({"executive_hnw"}, <<"corporate", "investor">>, "FOUNDED", "primary")}

EmployedBy ==
    {From({"executive_hnw"}, <<"corporate", "investor", "nonprofit">>, "EMPLOYED_BY", q) :
        q \in {"primary", "secondary"}}

SitsOnBoardOf ==
    {From({"executive_hnw", "politician"}, <<"corporate", "nonprofit", "philanthropic">>,
          "SITS_ON_BOARD_OF", "secondary")}

DonatedTo ==
    {To({"political", "politician"}, <<"hnwi", "investor", "corporate", "executive_hnw">>,
        "DONATED_TO", "primary")}

ReceivedGrantFrom ==
    {From({"nonprofit"}, <<"philanthropic", "corporate">>, "RECEIVED_GRANT_FROM", "primary"),
     To({"philanthropic"}, <<"nonprofit", "corporate">>, "RECEIVED_GRANT_FROM", "primary")}

SubsidiaryOf == {From({"corporate"}, <<"corporate">>, "SUBSIDIARY_OF", "secondary")}

FollowTheMoney ==
    {To({"politician", "political"}, <<"executive_hnw", "hnwi", "corporate", "investor">>,
        "DONATED_TO", "primary"),
     From({"executive_hnw", "hnwi"}, <<"politician", "political">>, "DONATED_TO", "primary")}

\* The people that the registers, the archive and the filings name.
Officer == <<"executive_hnw", "hnwi", "investor">>

\* The position decides between a seat on the board and an employment.
OpenCorporates ==
    {To({"corporate"}, Officer, edge, "secondary") : edge \in {"SITS_ON_BOARD_OF", "EMPLOYED_BY"}}

Bizapedia ==
    {To({"corporate", "investor"}, Officer, edge, "secondary") :
        edge \in {"SITS_ON_BOARD_OF", "EMPLOYED_BY"}}

Wayback == {To({"corporate", "investor"}, Officer, "FORMERLY_EMPLOYED_BY", "tertiary")}

EdgarDocuments ==
    {To({"corporate", "investor"}, <<"executive_hnw", "hnwi">>, "EMPLOYED_BY", "primary"),
     To({"corporate", "investor"}, Officer, "SITS_ON_BOARD_OF", "primary")}

\* The steps that look one name up, and their rules.
Fields == [
    invested_in         |-> InvestedIn,
    founded             |-> Founded,
    employed_by         |-> EmployedBy,
    sits_on_board_of    |-> SitsOnBoardOf,
    donated_to          |-> DonatedTo,
    received_grant_from |-> ReceivedGrantFrom,
    subsidiary_of       |-> SubsidiaryOf,
    ftm                 |-> FollowTheMoney,
    opencorporates      |-> OpenCorporates,
    bizapedia           |-> Bizapedia,
    wayback             |-> Wayback,
    edgar_doc           |-> EdgarDocuments]

\* What the categories of LittleSis become: Position by its description,
\* then Donation, Lobbying, Ownership, Professional and Membership.
LittleSisTypes == {"SITS_ON_BOARD_OF", "EMPLOYED_BY", "DONATED_TO", "LOBBYING_FOR",
                   "SUBSIDIARY_OF", "MENTIONED_WITH"}

LLMTypes == {"MENTIONED_WITH", "POLITICALLY_CONNECTED_TO"}

\* Mutant: the derived edges are looked for before there are others.
Steps_DerivedFirst ==
    <<"co_investments", "co_founders", "invested_in", "founded", "employed_by",
      "sits_on_board_of", "donated_to", "received_grant_from", "litigation",
      "subsidiary_of", "littlesis", "ftm", "opencorporates", "bizapedia", "wayback",
      "courtlistener", "edgar_doc", "hud", "icij", "llm", "works_under", "done">>

Steps ==
    <<"invested_in", "founded", "employed_by", "sits_on_board_of", "donated_to",
      "received_grant_from", "litigation", "subsidiary_of", "co_investments",
      "co_founders", "littlesis", "ftm", "opencorporates", "bizapedia", "wayback",
      "courtlistener", "edgar_doc", "hud", "icij", "llm", "works_under", "done">>

-----------------------------------------------------------------------------
(* _relationship_strength_v2 for one piece of evidence without a date, as   *)
(* every caller asks it, in ten-thousandths.                               *)

Quality == [primary |-> 10000, secondary |-> 7000, tertiary |-> 4000]

\* A tertiary source makes an edge indirect, which halves it.
Directness(quality) ==
    IF quality = "tertiary" THEN Quality[quality] \div 2 ELSE Quality[quality]

Cap == [MENTIONED_WITH |-> 4000, POLITICALLY_CONNECTED_TO |-> 6000, WORKS_UNDER |-> 6500]

Capped(edge, x) == IF edge \in DOMAIN Cap THEN Min({Cap[edge], x}) ELSE x

Strength(edge, quality, inferred) ==
    LET base == Capped(edge, Directness(quality)) IN
    IF inferred THEN Max({(base * 6) \div 10, 3500}) ELSE base

=============================================================================

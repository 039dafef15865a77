---------------------------- MODULE MCEnrichment ----------------------------
(***************************************************************************)
(* Two entities, each a company or a wealthy executive; three sources at a *)
(* time, so that each of the sixteen is asked, and one entity reaches      *)
(* every cap.                                                              *)
(***************************************************************************)
EXTENDS Enrichment

Two == {"corporate", "executive_hnw"}

Threes ==
    {{"ofac", "proxycurl", "littlesis"}, {"ofac", "gdelt", "patentview"},
     {"ofac", "opencorporates", "ftm"}, {"ofac", "events", "bizapedia"},
     {"ofac", "sos", "wayback"}, {"ofac", "edgar", "courtlistener"},
     {"ofac", "fincen", "hud"}, {"ofac", "littlesis", "icij"}}

One == [s \in Sources |-> 1]

=============================================================================

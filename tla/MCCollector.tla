---------------------------- MODULE MCCollector ----------------------------
(***************************************************************************)
(* Every agent that the graph calls, with none to three targeted queries.  *)
(***************************************************************************)
EXTENDS Collector

EveryAgent == Agents

=============================================================================

----------------------------- MODULE AgentCall -----------------------------
(***************************************************************************)
(* What BaseAgent.__call__ promises the graph: one answer, which is a      *)
(* patch with everything the agent found, or an error patch with nothing,  *)
(* or an exception.  Collection takes a call of a collection agent for one *)
(* such step; Collector is shown to implement it.                          *)
(***************************************************************************)
CONSTANT Found     \* whatever an agent may find

VARIABLES result,  \* how the call ended
          delta    \* raw_entities of its patch

Init == result = "none" /\ delta = {}

\* "raised" is an exception that leaves __call__.
Answer ==
    /\ result = "none"
    /\ \/ result' = "success" /\ delta' \in SUBSET Found
       \/ result' \in {"error", "raised"} /\ delta' = {}

Spec ==
    /\ Init /\ [][Answer]_<<result, delta>>
    /\ WF_<<result, delta>>(Answer)

=============================================================================

----------------------------- MODULE MCAnalysis -----------------------------
(* Two companies that may be one and a person.  Of the edges, two are the   *)
(* same undirected edge from both ends, one points back from the company    *)
(* that may be merged and has no source, one is a loop.                     *)
EXTENDS Analysis, TLC

CONSTANTS acme, acmeInc, smith

MCBucket == (acme :> "org") @@ (acmeInc :> "org") @@ (smith :> "person")

Edge(a, b, k, s) == [from |-> a, to |-> b, kind |-> k, sourced |-> s]

MCCandidates ==
    {Edge(acme, smith, "MENTIONED_WITH", TRUE), Edge(smith, acme, "MENTIONED_WITH", TRUE),
     Edge(acme, acmeInc, "SUBSIDIARY_OF", FALSE), Edge(smith, acmeInc, "EMPLOYED_BY", TRUE),
     Edge(acme, acme, "LITIGATION_AGAINST", TRUE)}
=============================================================================

---------------------------- MODULE MCCollection ----------------------------
(* Four collectors with a category each, of which illicit is not registered *)
(* with the dispatcher, and one collector without a category of its own.    *)
(* The repository expects no illicit entity; here one is, so that a target  *)
(* without a registered agent occurs, and no politician.                    *)
EXTENDS Collection, TLC

CONSTANTS investor, hnwi, illicit, politician, pipeline,
          kInvestor, kHnwi, kIllicit, kPolitician

AllCollectors   == {investor, hnwi, illicit, politician, pipeline}
AllRegistered   == {investor, hnwi, politician}
AllCategories   == {kInvestor, kHnwi, kIllicit, kPolitician}
MCExpected      == (kInvestor :> 5) @@ (kHnwi :> 2) @@ (kIllicit :> 1) @@ (kPolitician :> 0)
MCAgentOf       == (kInvestor :> investor) @@ (kHnwi :> hnwi) @@ (kIllicit :> illicit)
                   @@ (kPolitician :> politician)

Only(k, ns) == {[j \in AllCategories |-> IF j = k THEN n ELSE 0] : n \in ns}

\* 2 of 5 is thin and 3 of 5 is exactly the threshold; the pipeline database
\* may add the investor that is missing.
MCFinds ==
    (investor :> Only(kInvestor, {0, 2, 3})) @@ (hnwi :> Only(kHnwi, {0, 3}))
    @@ (illicit :> Only(kIllicit, {0, 1})) @@ (politician :> Only(kPolitician, {0}))
    @@ (pipeline :> Only(kInvestor, {0, 1}))
=============================================================================

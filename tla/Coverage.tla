------------------------------ MODULE Coverage ------------------------------
(***************************************************************************)
(* How the gap analysis measures a category (osint/agents/gap_analysis.py) *)
(* and how the graph's conditional edge reads the measure back             *)
(* (osint/graph/graph.py, should_run_pass2).  The two compare different    *)
(* numbers with PASS2_TRIGGER_THRESHOLD: the agent the exact quotient, the *)
(* edge the quotient rounded to four decimals.  Quotients are kept as      *)
(* integers: a score of 0.3333 is 3333.                                    *)
(***************************************************************************)
EXTENDS Naturals

\* PASS2_TRIGGER_THRESHOLD, in tenths.
Threshold == 6

Unit == 10000

\* round(x, 4) of a quotient.  Ties do not occur for the expected minima of
\* the configuration (all at most 10), so rounding half up is rounding.
RoundedQuotient(found, expected) ==
    (2 * Unit * found + expected) \div (2 * expected)

\* Mutant: the quotient is not capped at 1.
CoverageScore_Uncapped(found, expected) ==
    IF expected = 0 THEN Unit ELSE RoundedQuotient(found, expected)

\* coverage_score as it is stored in the gap analysis.  A category with
\* expected_min = 0 (illicit) is always covered.
CoverageScore(found, expected) ==
    IF expected = 0 \/ found >= expected
    THEN Unit
    ELSE RoundedQuotient(found, expected)

\* is_thin: found / expected < 0.6, never for expected_min = 0.
IsThin(found, expected) == expected # 0 /\ 10 * found < Threshold * expected

\* should_run_pass2's test of one category.
TriggersPass2(score) == 10 * score < Threshold * Unit

=============================================================================

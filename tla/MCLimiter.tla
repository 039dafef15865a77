----------------------------- MODULE MCLimiter -----------------------------
(***************************************************************************)
(* A domain with a quota and a window, as crunchbase has it, and a paid    *)
(* one, as proxycurl is, each with the smallest limits: two callers reach  *)
(* every overrun.                                                          *)
(***************************************************************************)
EXTENDS Limiter, TLC

CONSTANTS c1, c2

Two == {c1, c2}

TwoDomains ==
    {[perDay |-> 2, perWindow |-> 1, cap |-> 0],
     [perDay |-> 0, perWindow |-> 1, cap |-> 2]}

Alike == Permutations(Two)

=============================================================================

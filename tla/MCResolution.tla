---------------------------- MODULE MCResolution ----------------------------
(* Three organisations that may be one, a person on its own, an entity that *)
(* has no type; two ids, held by any of the organisations.                  *)
EXTENDS Resolution, TLC

CONSTANTS corporate, hnwi, untyped, ein, cik

MCTypeOf == (1 :> corporate) @@ (2 :> corporate) @@ (3 :> hnwi)
            @@ (4 :> corporate) @@ (5 :> untyped)

MCIdChoices ==
    {i \in [1..5 -> SUBSET {ein, cik}] : i[3] = {} /\ i[5] = {}}
=============================================================================

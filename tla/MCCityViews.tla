---------------------------- MODULE MCCityViews ----------------------------
(***************************************************************************)
(* Of two discovery runs of a city one finds two entities and one none; a  *)
(* refresh takes one entity, and entities are fresh for two ticks.         *)
(***************************************************************************)
EXTENDS CityViews

CONSTANTS d1, d2, n1, n2

Two   == {d1, d2}
One   == {d1}
Names == {n1, n2}
Both  == [d \in Two |-> IF d = d1 THEN Names ELSE {}]
All   == [d \in One |-> Names]
Ranks == [n \in Names |-> IF n = n1 THEN 2 ELSE 1]
=============================================================================

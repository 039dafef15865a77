--------------------------- MODULE MCRunLifecycle ---------------------------
(* Model values for RunLifecycle. *)
EXTENDS RunLifecycle

CONSTANTS a1, w1

OneApi    == {a1}
OneWeekly == {w1}
NoRuns    == {}

AllDisasters      == DisasterKinds
NoDisasters       == {}
=============================================================================

---------------------------- MODULE MCInference ----------------------------
(***************************************************************************)
(* Three entities, two of which may share a name, of the types that the    *)
(* derived edges are about; two fields that lead somewhere are enough to   *)
(* make every derived edge.                                                *)
(***************************************************************************)
EXTENDS Inference

Three == 1..3

=============================================================================

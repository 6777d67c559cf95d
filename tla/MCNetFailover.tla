--------------------------- MODULE MCNetFailover ----------------------------
(* NetFailover with the constants its configurations give. *)
EXTENDS NetFailover
=============================================================================

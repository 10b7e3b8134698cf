---------------------------- MODULE MCSchemaLedger ----------------------------
(***************************************************************************)
(* Instances of SchemaLedger for TLC.                                      *)
(***************************************************************************)
EXTENDS SchemaLedger, TLC

Symmetry == Permutations(Servers) \cup Permutations(Operators)
=============================================================================

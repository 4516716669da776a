----------------------------- MODULE MCMcpPool -----------------------------
(***************************************************************************)
(* Model checking of McpPool: the callers are interchangeable.  Symmetry   *)
(* is used for the safety properties only.                                 *)
(***************************************************************************)
EXTENDS McpPool, TLC

Symmetry == Permutations(Callers)
=============================================================================

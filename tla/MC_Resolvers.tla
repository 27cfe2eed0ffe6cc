---- MODULE MC_Resolvers ----
(***************************************************************************)
(* Two recovery operations, each submitted in two versions, with another   *)
(* journal record, a revocation, and one failure or kill.  No symmetry:    *)
(* the run checks liveness.                                                *)
(***************************************************************************)
EXTENDS ResolverProps

CONSTANTS o1, o2, v1, v2
====

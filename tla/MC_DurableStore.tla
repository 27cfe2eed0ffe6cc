---------------------------- MODULE MC_DurableStore ----------------------------
(* Two processes over one root; two records of one code and one of another. *)
EXTENDS DurableStore, TLC

CONSTANTS p1, p2, n1, n2, a1, a2, b1

MC_CodeOf(b) == IF b = b1 THEN n2 ELSE n1
TwoProcs == Permutations({p1, p2})
===============================================================================

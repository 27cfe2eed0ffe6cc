---------------------------- MODULE MC_RestrictedCas ----------------------------
(* Two processes over one CAS root, two operations, two artifacts. *)
EXTENDS RestrictedCas, TLC

CONSTANTS p1, p2, o1, o2, a1, a2

Symmetric == Permutations({p1, p2}) \cup Permutations({o1, o2}) \cup Permutations({a1, a2})
===============================================================================

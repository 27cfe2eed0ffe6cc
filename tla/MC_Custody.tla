------------------------------ MODULE MC_Custody ------------------------------
(* Two operations over one artifact, two handle calls. *)
EXTENDS Custody, TLC

CONSTANTS o1, o2, a1, c1, c2

MC_ArtifactOf(o) == a1
Symmetric == Permutations({o1, o2}) \cup Permutations({c1, c2})
===============================================================================

---- MODULE MC_Evidence ----
(* Instances of EvidenceImport for TLC. *)
EXTENDS EvidenceProps

CONSTANTS b1, d1, d2, k1, k2, k3, p1, p2, p3, n1

Rows(artifacts, events, custody, runs, candidates) ==
  [artifacts |-> artifacts, events |-> events, custody |-> custody, runs |-> runs,
   candidates |-> candidates]

\* One body whose copies later bundles move, withdraw and restore, with times set back.
Custody ==
  [artifacts |-> {b1}, copies |-> {k1, k2}, backends |-> {p1, p2}, chains |-> {},
   kinds |-> {"placed", "relocated", "restricted", "restored", "tombstoned"},
   created |-> {3},
   times |-> [artifacts |-> {1}, events |-> {<<1, 1, 1>>, <<2, 2, 3>>},
              custody |-> {<<1, 1>>, <<2, 2>>, <<2, 3>>}, runs |-> {<<2, 3>>}, candidates |-> {}],
   rows |-> <<Rows(1, 1, 1, 0, 0), Rows(0, 1, 2, 1, 0), Rows(0, 0, 1, 1, 0)>>]

\* Two derived artifacts, runs that produce and consume them, candidates from them.
Lineage ==
  [artifacts |-> {b1, d1, d2}, copies |-> {k3}, backends |-> {p3}, chains |-> {n1},
   kinds |-> {"placed"},
   created |-> {3},
   times |-> [artifacts |-> {1}, events |-> {<<1, 1, 1>>}, custody |-> {<<1, 1>>},
              runs |-> {<<1, 2>>}, candidates |-> {2, 3}],
   rows |-> <<Rows(2, 1, 2, 1, 1), Rows(1, 0, 1, 2, 1)>>]

CustodyAndLineage == {Custody, Lineage}
Alike == Permutations({p1, p2}) \cup Permutations({d1, d2}) \cup Permutations({k1, k2})
====

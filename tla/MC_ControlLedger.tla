---- MODULE MC_ControlLedger ----
(* An instance of ControlLedger for TLC. *)
EXTENDS ControlLedgerProps, TLC

OneWindow == {[wait |-> 0, lasts |-> 4]}

\* The ids of operations are interchangeable.
Interchangeable == Permutations(Ops)

\* Bound of the instance: histories with at most one audited recovery.
OneRecovery == Cardinality({ n \in DOMAIN log : log[n].events[1].kind = "recovered" }) <= 1
====

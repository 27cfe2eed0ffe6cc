---- MODULE BackupHistory ----
(***************************************************************************)
(* The D9.5 history (backup-restore/history.mjs): every record is put in   *)
(* its namespace under a code of its own, and then a receipt for it in the *)
(* global journal.  Neither is ever replaced.  No lock is taken: a         *)
(* receipt's code is its sequence number, read before the target is put,   *)
(* so of two processes that read the same head one loses its receipt.      *)
(*                                                                         *)
(* A digest is the record itself, and a receipt is the record it is for.   *)
(* Calls read the clock anew, so of two records with one code the second   *)
(* is never the same record, and never a replay.                           *)
(***************************************************************************)
EXTENDS Integers, FiniteSets, Sequences, Functions, FiniteSetsExt

CONSTANTS
  Procs,      \* the processes, each with a runtime of its own on the shared stores
  Backups,    \* the backup operations, one backup set each
  Restores,   \* the restore operations
  None

ASSUME NoneAssumption == None \notin Procs \cup Backups \cup Restores

VARIABLES
  targets,    \* the records of every namespace but the journal's
  journal     \* the journal: the record each receipt is for

historyVars == <<targets, journal>>

(* op is the backup set or the operation the record belongs to, n its      *)
(* number in its chain and ref what else a reader tells it by.             *)
Rec(ns, op, n, ref) == [ns |-> ns, op |-> op, n |-> n, ref |-> ref]

\* Manifests and the receipts named after a chain position share it across sets.
Code(r) == <<r.ns, IF r.ns \in {"manifest", "prior", "final"} THEN None ELSE r.op, r.n>>

Of(ns, op) == {r \in targets : r.ns = ns /\ r.op = op}
All(ns) == {r \in targets : r.ns = ns}
Leaf(records) == CHOOSE r \in records : \A s \in records : s.n <= r.n
NextIn(records) == IF records = {} THEN 1 ELSE Leaf(records).n + 1

Receipted(r) == r \in Range(journal)
Position(r) == CHOOSE i \in DOMAIN journal : journal[i] = r

\* verifyCompleteState: every target has its one receipt, every receipt its target.
Complete == Cardinality(targets) = Len(journal) /\ targets = Range(journal)

Taken(r) == \E s \in targets : Code(s) = Code(r)

\* append up to the read of the head: the history is whole and the code is free.
Appendable(r) == Complete /\ ~Taken(r)

\* store.append of the target: no name is replaced.
PutTarget(r) == ~Taken(r) /\ targets' = targets \cup {r}

\* The receipt takes the number after the head that was read before the target was put.
PutReceipt(r, head) == Len(journal) = head /\ journal' = Append(journal, r)
====

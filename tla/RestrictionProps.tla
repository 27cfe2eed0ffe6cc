---- MODULE RestrictionProps ----
(***************************************************************************)
(* What the D9.4 ledger and the deletion of a primary name promise.        *)
(***************************************************************************)
EXTENDS Restriction

Written == Range(ledger) \cup ({bare} \ {None})
OnRecord(format, kind, stream) ==
  \E r \in Written : r.format = format /\ r.kind = kind /\ r.stream = stream

\* What a reader of the whole history would call grounds for the removal.
OpenHold == \E h \in Holds : Leaf("control", h) = "hold_imposed"
Grounds(d) == Leaf("control", d) = "tombstone_applied"

\* operations.mjs: the primary name is removed only while, in the same instant, no
\* hold is open in any stream, the operation's tombstone is not revoked, no
\* authority target is revoked, and the capability and the receiver are really off.
RemovedOnlyWhenAllowed ==
  [][name = "present" /\ name' = "unlinked" =>
       /\ ~OpenHold /\ events = <<>> /\ ~capability /\ ~receiver
       /\ \E c \in Callers : lock = c /\ Grounds(job[c].deletion)]_vars

DeletionTrue ==
  \A d \in Deletions : OnRecord("receipt", "deletion_receipt", d) =>
    /\ name = "absent"
    /\ LET at(kind) == CHOOSE i \in Indices("execution", d) : ledger[i].kind = kind
       IN /\ Cardinality(Indices("execution", d)) = 4
          /\ at("execution_started") < at("inventory_observed")
          /\ at("inventory_observed") < at("unlink_attempted")
          /\ at("unlink_attempted") < at("primary_absence_verified")

TerminationTrue ==
  /\ OnRecord("access", "capability_revoked", "capability") => ~capability
  /\ OnRecord("access", "descriptor_termination_confirmed", "descriptor") => ~receiver

\* What the ledger attests has happened.  A deletion receipt on record tells the truth
\* for good: the name is gone, no power loss brings it back, and the whole course of
\* the operation stands before it.  A terminal access record, also one still without
\* its receipt, is written only after the effect it attests (access-control.mjs).
ReceiptTruthful == DeletionTrue /\ TerminationTrue

\* From the moment a revocation is on record (authority.mjs), or a target has lost the
\* call that was to receipt it (ledger.mjs), nothing new is persisted and nothing is
\* removed, whatever the calls in flight had checked before.
SilentAfterRevocation ==
  [][events # <<>> \/ (bare # None /\ lock = None) =>
       UNCHANGED <<ledger, bare>> /\ (name = "present" => name' = "present")]_vars

\* Without a fault a removal is always followed by its record: the checks made again
\* after the effect refuse nothing they admitted before it (operations.mjs).  And after
\* whatever fault, a removal that no deletion receipt covers is never reconstructed as
\* complete (recovery.mjs).
RemovalRecorded ==
  name # "present" =>
    /\ faults = 0 =>
         \/ \E d \in Deletions : OnRecord("execution", "unlink_attempted", d)
         \/ \E c \in Callers : lock = c /\ job[c].step \in {"sync", "target"}
    /\ bare = None /\ (\A d \in Deletions : ~OnRecord("receipt", "deletion_receipt", d))
         => LedgerState = "recovery_required"
====

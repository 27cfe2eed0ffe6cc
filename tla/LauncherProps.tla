---- MODULE LauncherProps ----
(***************************************************************************)
(* What a caller of the trusted launcher may rely on, whatever the worker, *)
(* the pipe, the clock and the other calls do.                             *)
(***************************************************************************)
EXTENDS Launcher, ControlLedgerProps

Calls == (Runs \X {"begin", "end", "mark"}) \cup (Sides \X {"side"})
Requests == [call : Calls, txn : Txns, events : Seq(Event), at : Nat]

ReasonNames ==
  {"pending_publish", "append_lock_present", "incomplete_append_lock", "unanchored_commit",
   "incomplete_operation_lock", "lock_without_operation", "terminal_operation_lock",
   "unfinished_operation", "operation_without_lock", "operation_recovery_hold"}

Inspections == [seq : Nat, reasons : SUBSET ReasonNames, op : Ops \cup {None}]
Flights == [req : Requests, prior : Inspections, reply : {None, "persisted", "rejected", "terminal"}]

ASSUME NoneIsNothing == None \notin Leases \cup Flights \cup {"persisted", "rejected", "terminal"}

Wrote(a, n) == log[n].txn = a.txn /\ log[n].events = a.events /\ log[n].at = a.at

\* A definite answer about an append is true for good: what was "persisted" is
\* an anchored commit, what is "absent" is not in the store and never will be
\* (state-append-broker.mjs:374, read after the worker was killed).
AnswersTruthful ==
  \A a \in answers :
    /\ a.says = "persisted" => \E n \in 1..head : Wrote(a, n)
    /\ a.says \in {"absent", "closed"} =>
         \A n \in DOMAIN log : Wrote(a, n) => \E b \in answers : b.call # a.call /\ Wrote(b, n)

Anchors(e) == \E f \in Now : f.says = e

HandlesUnderClaim ==
  \A r \in Audits :
    run[r].given > 0 =>
      /\ Anchors(Transition(run[r].permit, "claim", run[r].op))
      /\ Anchors(Started(run[r].op, run[r].nonce, broker.gen, run[r].permit))
      /\ ~Anchors(NoEffect(run[r].op))
      /\ PermitState(Now, run[r].permit) \in {"in_progress", "recovery_required"}

\* The outcome a run reports is the one on record, though the kernel lock is
\* released before the end is sent and other calls append in between.  And a
\* recipient gets handles only under the claim of its permit, which once used
\* never serves again and is never reported as without effect.
OutcomesTrue ==
  /\ HandlesUnderClaim
  /\ \A r \in Runs :
       /\ run[r].at = "noEffect" => Anchors(NoEffect(run[r].op)) /\ (lock # None => lock.op # run[r].op)
       /\ run[r].at = "recoveryRequired" =>
            /\ Anchors(Ambiguous(run[r].op)) /\ hold
            /\ run[r].permit # None => PermitState(Now, run[r].permit) = "recovery_required"

\* Once a run has failed no operation is begun any more: not by a run that had
\* passed its own checks before, nor by an append that was waiting in the queue.
NoWorkAfterHold == [][hold => Said(Facts(log)', "started") = Said(Facts(log), "started")]_allVars

\* Every run that was called comes to an end, whoever dies on the way: time and
\* again none is under way.
RunEnds == []<>(\A r \in Runs : run[r].at \in {"idle"} \cup Ends)
====

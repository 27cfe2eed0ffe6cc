---- MODULE BackupProps ----
(***************************************************************************)
(* What backups and restores promise.                                      *)
(***************************************************************************)
EXTENDS BackupRestore

Journaled(r) == {n \in DOMAIN Stages : \E s \in Of("life", r) : s.n = n /\ Receipted(s)}
Last(s) == s[Len(s)]
PlanOf(r) == CHOOSE x \in Of("plan", r) : TRUE
Busy(r) == \E p \in Procs : job[p].call = "restore" /\ Op(p) = r

(* A generation whose bytes can be reached is whole, is of one restore     *)
(* whose seven stages up to the start of promotion are all on the journal, *)
(* whichever others worked on the same target.                             *)
ExposedOnlyVerified ==
  \A t \in DOMAIN generation : generation[t] # None /\ generation[t].open =>
    /\ generation[t].files = Whole
    /\ 1..7 \subseteq Journaled(generation[t].op)

\* The records of the journal's first j receipts.  Among them the last decision on the
\* restore's set is the one its plan binds; it retains the set and is attested.
Prefix(j) == {journal[k] : k \in 1..j}
Standing(r, j) ==
  LET b == SetOf(r)   n == PlanOf(r).ref
      seen(ns) == {x \in Prefix(j) : x.ns = ns /\ x.op = b}
  IN \E d \in seen("retention"), h \in seen("head") :
       /\ d.n = n /\ d.ref = 0 /\ h.n = d.n
       /\ \A e \in seen("retention") : e.n <= d.n

(* Movement cancels promotion (docs/d9-5-0-backup-restore-contracts.md): a *)
(* retention decision receipted before any stage of a restore cancels each *)
(* later stage that revalidates, and one receipted before the start of the *)
(* promotion keeps its bytes from being reached.  The stage under way may  *)
(* still be receipted after a decision that its observation did not see:   *)
(* nothing ties the observation (runtime.mjs:423) to the head that append  *)
(* reads (history.mjs:72), and a whole decision fits between them.  That   *)
(* is one stage and no more, however the calls overlap.  (The journal only *)
(* grows: its last receipt is the one to look at.)                         *)
MovementCancels ==
  LET StageOf(j, r) == journal[j].ns = "life" /\ journal[j].op = r
  IN /\ \A j \in 1..(Len(journal) - 1) :
          LET stage == Last(journal)
          IN stage.ns = "life" /\ Stages[stage.n] \in Revalidated /\ StageOf(j, stage.op)
             => Standing(stage.op, j)
     /\ \A t \in DOMAIN generation, j \in DOMAIN journal :
          /\ generation[t] # None /\ generation[t].open
          /\ StageOf(j, generation[t].op) /\ journal[j].n <= Stage("promotion_started")
          => Standing(generation[t].op, j)

(* What was answered lasts.  A restore that answered success, on its first *)
(* run or as a replay, has all its stages on the journal and its           *)
(* generation whole and reachable.  A backup has its manifest, its source  *)
(* and prior receipts on the journal in that order, the final one after    *)
(* them, and its bytes stay readable.  No later call of any process,       *)
(* failing or not, takes that away.  A replayed backup has the final       *)
(* receipt on record, but it may not be on the journal yet, or ever: its   *)
(* reads (runtime.mjs:162, :170) follow one another, and the process that  *)
(* makes the set may put that record between them and then die.            *)
AnswersLast ==
  /\ \A r \in Restores, call \in {"restore", "restoreAgain"} : <<call, r>> \in said =>
       LET g == generation[Target[r]]
       IN Journaled(r) = DOMAIN Stages /\ g # None /\ g.op = r /\ g.open /\ g.files = Whole
  /\ \A b \in Backups, call \in {"backup", "backupAgain"} : <<call, b>> \in said =>
       /\ Readable(Content[b])
       /\ \E m \in Of("manifest", b), s \in Of("source", b), o \in Of("prior", b), f \in Of("final", b) :
            /\ {m, s, o} \subseteq Range(journal)
            /\ Position(m) < Position(s) /\ Position(s) < Position(o)
            /\ Receipted(f) => Position(o) < Position(f)
            /\ call = "backup" => Receipted(f)

(* inspectRestoreRecovery, where it answers. *)
Classification(r) ==
  LET g == generation[Target[r]]
  IN CASE Of("plan", r) = {} -> "safe_no_effect"
       [] Of("plan", r) # {} /\ 10 \in Lifecycle(r) /\ g # None
            /\ ~lock[Target[r]] /\ staging[r] = None -> "exact_replay_no_op_after_full_revalidation"
       [] Of("plan", r) # {} /\ g # None /\ (10 \notin Lifecycle(r) \/ lock[Target[r]] \/ staging[r] # None)
            -> "recovery_required_no_automatic_rollback"
       [] Of("plan", r) # {} /\ g = None /\ staging[r] = None /\ ~lock[Target[r]] -> "safe_no_effect"
       [] OTHER -> "retain_inaccessible_and_reconcile"

(* The classification of a restore nobody is running is true of the disk   *)
(* and of what restore would answer: "safe_no_effect" leaves nothing of    *)
(* it behind, and "exact replay" is what restore would do as soon as       *)
(* nothing has moved.                                                      *)
ClassificationTrue ==
  \A r \in Restores : Complete /\ ~Busy(r) =>
    /\ Classification(r) = "safe_no_effect" =>
         staging[r] = None /\ \A t \in DOMAIN generation : generation[t] # None => generation[t].op # r
    /\ Classification(r) = "exact_replay_no_op_after_full_revalidation" =>
         Intact(r) /\ generation[Target[r]].op = r
====

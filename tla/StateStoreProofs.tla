-------------------------- MODULE StateStoreProofs --------------------------
(***************************************************************************)
(* Proofs about StateStore, for every set of processes and operations,     *)
(* every bound and every choice of faults: the types, the append mutex and *)
(* the history that never forks, with the invariant IInv; that an          *)
(* operation starts and ends once; that HistoryInv, which says how far the *)
(* durable history can be behind, and LockInv, about operation.lock, are   *)
(* kept by every step; then what the whole invariant HInv gives: an intact *)
(* history, an operation in progress always locked, and that the store     *)
(* implements DurableLog.  Last, where kills alone strike: what they leave *)
(* (KillInv, RetryInv), from which the recovery's audit is truthful and    *)
(* the recovery possible.                                                  *)
(***************************************************************************)
EXTENDS StateStoreProps, TLAPS

-----------------------------------------------------------------------------
(* Types of the operators the steps are built from *)

LEMMA EmptyTypes ==
    /\ NoCommit \in Commit /\ NoAlock \in Alock /\ NoOlock \in Olock
    /\ NoIntent \in Intent /\ EmptyDirectory \in Directory
BY DEF NoCommit, Commit, Subject, Txn, OrdinaryTxns, RecoveryTxns, Action, NoAlock, Alock,
       LockState, NoOlock, Olock, NoIntent, Intent, EmptyDirectory, Directory

LEMMA PendingTypes ==
    ASSUME NEW c \in Commit, NEW who \in {"append", "recovery"}
    PROVE  /\ CommitPending(c, who) \in Pending
           /\ Torn(CommitPending(c, who)) \in Pending
           /\ HeadPending(c, who) \in Pending
BY DEF CommitPending, HeadPending, Torn, Pending

LEMMA SyncedTypes ==
    ASSUME NEW d \in Directory, NEW f \in Directory
    PROVE  /\ RootSynced(d, f) \in Directory
           /\ CommitsSynced(d, f) \in Directory
           /\ PendingSynced(d, f) \in Directory
BY DEF RootSynced, CommitsSynced, PendingSynced, Directory

LEMMA RecoveredInCommits ==
    ASSUME NEW d \in Directory
    PROVE  Recovered(d) \subseteq d.commits
BY DEF Recovered, Unanchored, Anchored

LEMMA FreshIntentType ==
    ASSUME NEW d \in Directory
    PROVE  FreshIntent(d) \in Intent
<1> DEFINE affected == IF Recovered(d) = {} THEN NoCommit ELSE CHOOSE c \in Recovered(d) : TRUE
<1>1. affected \in Commit
  BY RecoveredInCommits, EmptyTypes DEF Directory
<1>2. RecoveryAction(d) \in Action
  BY DEF RecoveryAction, Action
<1>3. FreshIntent(d).audit \in Commit
  <2>1. (IF affected = NoCommit THEN d.head ELSE affected.seq) + 1 \in Nat
    BY <1>1 DEF Directory, Commit
  <2> QED
    BY <1>2, <2>1 DEF FreshIntent, Commit, Txn, Subject
<1>4. FreshIntent(d).names \in SUBSET Pending
  BY DEF FreshIntent, Directory
<1> QED
  BY <1>1, <1>3, <1>4 DEF FreshIntent, Intent

LEMMA NextAnchorType ==
    ASSUME NEW d \in Directory
    PROVE  NextAnchor(d) \in Commit
BY DEF NextAnchor, Directory, Intent

LEMMA NewCommitType ==
    ASSUME TypeOK, NEW txn \in Txn, NEW subj \in Subject, NEW act \in Action, NEW tag \in Nat
    PROVE  NewCommit(txn, subj, act, tag) \in Commit
BY DEF NewCommit, TypeOK, Directory, Commit

\* The changes the steps make to a directory.
LEMMA DirectoryUpdates ==
    ASSUME NEW d \in Directory
    PROVE  /\ \A n \in Nat : [d EXCEPT !.head = n] \in Directory
           /\ \A C \in SUBSET Commit : [d EXCEPT !.commits = C] \in Directory
           /\ \A P \in SUBSET Pending : [d EXCEPT !.pend = P] \in Directory
           /\ \A a \in Alock : [d EXCEPT !.alock = a] \in Directory
           /\ \A l \in Olock : [d EXCEPT !.olock = l] \in Directory
           /\ \A i \in Intent : [d EXCEPT !.intent = i] \in Directory
           /\ \A P \in SUBSET Pending, n \in Nat :
                [d EXCEPT !.pend = P, !.head = n] \in Directory
BY DEF Directory

LEMMA LockUpdates ==
    ASSUME NEW d \in Directory, NEW st \in LockState
    PROVE  /\ [d EXCEPT !.alock.st = st] \in Directory
           /\ [d EXCEPT !.alock.st = st, !.alock.live = TRUE] \in Directory
           /\ [d EXCEPT !.alock.live = FALSE] \in Directory
           /\ [d EXCEPT !.olock.st = st] \in Directory
           /\ [d EXCEPT !.intent.st = "torn"] \in Directory
BY DEF Directory, Alock, Olock, Intent

\* The common parts of the steps.
LEMMA MovesType ==
    ASSUME TypeOK, NEW p \in Procs, NEW next \in Pc, NEW f \in Directory, Moves(p, next, f)
    PROVE  fs' \in Directory /\ disk' \in Directory /\ pc' \in [Procs -> Pc]
BY DEF TypeOK, Moves

LEMMA MovesSyncedType ==
    ASSUME TypeOK, NEW p \in Procs, NEW next \in Pc, NEW f \in Directory,
           NEW d \in Directory, MovesSynced(p, next, f, d)
    PROVE  fs' \in Directory /\ disk' \in Directory /\ pc' \in [Procs -> Pc]
BY DEF TypeOK, MovesSynced

LEMMA BeginsType ==
    ASSUME TypeOK, NEW p \in Procs, NEW next \in Pc, NEW c \in Commit, Begins(p, next, c)
    PROVE  pc' \in [Procs -> Pc] /\ want' \in [Procs -> Commit] /\ ok' \in [Procs -> BOOLEAN]
BY DEF TypeOK, Begins

LEMMA EndsType ==
    ASSUME TypeOK, NEW p \in Procs, Ends(p)
    PROVE  pc' \in [Procs -> Pc] /\ want' \in [Procs -> Commit] /\ ok' \in [Procs -> BOOLEAN]
BY EmptyTypes DEF TypeOK, Ends, Pc

LEMMA FailsType ==
    ASSUME TypeOK, NEW p \in Procs, NEW next \in Pc, Fails(p, next)
    PROVE  pc' \in [Procs -> Pc] /\ ok' \in [Procs -> BOOLEAN]
BY DEF TypeOK, Fails

\* The steps: calls, appends, recovery calls, recoveries, faults.
LEMMA CallTypes ==
    ASSUME TypeOK, NEW p \in Procs, Call(p)
    PROVE  TypeOK'
<1> USE DEF TypeOK
<1>1. "acquire" \in Pc /\ "opmkdir" \in Pc
  BY DEF Pc, CallPcs, AppendPcs
<1>2. CASE Activate(p)
  <2>1. NewCommit("generation-pair.activation", p, "none", 0) \in Commit
    BY NewCommitType DEF Txn, OrdinaryTxns, Subject, Action
  <2> QED
    BY <1>1, <1>2, <2>1, BeginsType DEF Activate
<1>3. CASE Record(p)
  <2>1. NewCommit("record", p, "none", 0) \in Commit
    BY NewCommitType DEF Txn, OrdinaryTxns, Subject, Action
  <2> QED
    BY <1>1, <1>3, <2>1, BeginsType DEF Record
<1>4. ASSUME NEW o \in Ops, BeginOperation(p, o) PROVE TypeOK'
  <2>1. NewCommit("operation.begin", o, "none", 0) \in Commit
    BY NewCommitType DEF Txn, OrdinaryTxns, Subject, Action
  <2> QED
    BY <1>1, <1>4, <2>1, BeginsType DEF BeginOperation
<1>5. ASSUME NEW txn \in {"operation.no-effect", "operation.recovery-required"},
             EndOperation(p, txn)
      PROVE  TypeOK'
  <2>1. NewCommit(txn, lease[p], "none", 0) \in Commit
    BY NewCommitType DEF Txn, OrdinaryTxns, Action
  <2> QED
    BY <1>1, <1>5, <2>1, BeginsType DEF EndOperation
<1> QED
  BY <1>2, <1>3, <1>4, <1>5 DEF Call

LEMMA AppendTypes ==
    ASSUME TypeOK, NEW p \in Procs, AppendStep(p)
    PROVE  TypeOK'
<1> USE DEF TypeOK
<1>1. AppendPcs \cup {"idle", "oplease", "unlock"} \subseteq Pc
  BY DEF Pc, CallPcs
<1>2. fs \in Directory /\ disk \in Directory /\ want[p] \in Commit
  OBVIOUS
<1>3. CASE MakeOperationLock(p)
  <2>1. CASE fs.olock.st = "none"
    <3> DEFINE f == [fs EXCEPT !.olock = [st |-> "dir", op |-> want[p].subj, token |-> disk.head]]
    <3>1. f \in Directory
      BY <1>2, DirectoryUpdates DEF Olock, LockState, Commit, Directory
    <3> QED
      BY <1>1, <1>3, <2>1, <3>1, MovesType DEF MakeOperationLock
  <2>2. CASE fs.olock.st # "none"
    BY <1>3, <2>2, EndsType DEF MakeOperationLock
  <2> QED
    BY <2>1, <2>2
<1>4. CASE WriteOperationLease(p)
  <2>1. [fs EXCEPT !.olock.st = "full"] \in Directory
    BY <1>2, LockUpdates DEF LockState
  <2> QED
    BY <1>1, <1>2, <1>4, <2>1, SyncedTypes, MovesSyncedType
    DEF WriteOperationLease, Commit, AppendPcs
<1>5. CASE AcquireAppendLock(p)
  <2>1. [fs EXCEPT !.alock = [st |-> "dir", by |-> p, live |-> FALSE, sealed |-> FALSE,
                            of |-> want[p]]] \in Directory
    BY <1>2, DirectoryUpdates DEF Alock, LockState
  <2> QED
    BY <1>1, <1>5, <2>1, MovesType, FailsType DEF AcquireAppendLock, AppendPcs
<1>6. CASE WriteAppendLease(p)
  <2>1. [fs EXCEPT !.alock.st = "full", !.alock.live = TRUE] \in Directory
    BY <1>2, LockUpdates DEF LockState
  <2> QED
    BY <1>1, <1>2, <1>6, <2>1, SyncedTypes, MovesSyncedType DEF WriteAppendLease, AppendPcs
<1>7. CASE CheckUnderMutex(p)
  BY <1>1, <1>7 DEF CheckUnderMutex, Fails, AppendPcs
<1>8. CASE WritePending(p)
  <2>1. fs.pend \cup {CommitPending(want[p], "append")} \in SUBSET Pending
    BY <1>2, PendingTypes DEF Directory
  <2>2. [fs EXCEPT !.pend = @ \cup {CommitPending(want[p], "append")}] \in Directory
    BY <1>2, <2>1, DirectoryUpdates
  <2> QED
    BY <1>1, <1>8, <2>2, MovesType DEF WritePending, AppendPcs
<1>9. CASE LinkCommit(p)
  <2>1. [fs EXCEPT !.commits = @ \cup {want[p]}] \in Directory
    BY <1>2, DirectoryUpdates DEF Directory
  <2> QED
    BY <1>1, <1>9, <2>1, MovesType DEF LinkCommit, AppendPcs
<1>10. CASE SyncCommits(p)
  BY <1>1, <1>2, <1>10, SyncedTypes, MovesSyncedType DEF SyncCommits, AppendPcs
<1>11. CASE WriteHeadTemp(p)
  <2>1. fs.pend \cup {HeadPending(want[p], "append")} \in SUBSET Pending
    BY <1>2, PendingTypes DEF Directory
  <2>2. [fs EXCEPT !.pend = @ \cup {HeadPending(want[p], "append")}] \in Directory
    BY <1>2, <2>1, DirectoryUpdates
  <2> QED
    BY <1>1, <1>2, <1>11, <2>2, SyncedTypes, MovesSyncedType DEF WriteHeadTemp, AppendPcs
<1>12. CASE RenameHead(p)
  <2>1. [fs EXCEPT !.pend = @ \ {HeadPending(want[p], "append")}, !.head = want[p].seq]
          \in Directory
    BY <1>2, DirectoryUpdates DEF Directory, Commit
  <2> QED
    BY <1>1, <1>12, <2>1, MovesType DEF RenameHead, AppendPcs
<1>13. CASE SyncHead(p)
  BY <1>1, <1>2, <1>13, SyncedTypes, MovesSyncedType DEF SyncHead, AppendPcs
<1>14. CASE UnlinkPending(p)
  <2>1. [fs EXCEPT !.pend = @ \ {CommitPending(want[p], "append")}] \in Directory
    BY <1>2, DirectoryUpdates DEF Directory
  <2> QED
    BY <1>1, <1>2, <1>14, <2>1, SyncedTypes, MovesSyncedType DEF UnlinkPending, AppendPcs
<1>15. CASE ReleaseAppendLock(p)
  <2>1. [fs EXCEPT !.alock.st = "dir"] \in Directory /\ [fs EXCEPT !.alock = NoAlock] \in Directory
    BY <1>2, LockUpdates, DirectoryUpdates, EmptyTypes DEF LockState
  <2> QED
    BY <1>1, <1>2, <1>15, <2>1, SyncedTypes, MovesType, MovesSyncedType
    DEF ReleaseAppendLock, AppendPcs
<1>16. CASE ReturnFromAppend(p)
  BY <1>1, <1>2, <1>16, EndsType DEF ReturnFromAppend
<1>17. CASE ReleaseOperationLock(p)
  <2>1. [fs EXCEPT !.olock.st = "dir"] \in Directory /\ [fs EXCEPT !.olock = NoOlock] \in Directory
    BY <1>2, LockUpdates, DirectoryUpdates, EmptyTypes DEF LockState
  <2>2. CASE fs.olock.st = "full"
    BY <1>1, <1>17, <2>1, <2>2, MovesType DEF ReleaseOperationLock
  <2>3. CASE fs.olock.st # "full"
    BY <1>2, <1>17, <2>1, <2>3, EndsType, SyncedTypes DEF ReleaseOperationLock, Subject
  <2> QED
    BY <2>2, <2>3
<1> QED
  BY <1>3, <1>4, <1>5, <1>6, <1>7, <1>8, <1>9, <1>10, <1>11, <1>12, <1>13, <1>14, <1>15,
     <1>16, <1>17
  DEF AppendStep

LEMMA RecoveryCallTypes ==
    ASSUME TypeOK, NEW p \in Procs, RecoveryCall(p)
    PROVE  TypeOK'
<1> USE DEF TypeOK
<1>1. {"acquire", "unlock", "g.lock", "r.intent", "r.lock"} \subseteq Pc
  BY DEF Pc, CallPcs, AppendPcs, PublishRecoveryPcs, PregenesisPcs
<1>2. fs.olock.op \in Subject /\ fs.olock.token \in Nat
  BY DEF Directory, Olock
<1>3. ASSUME NEW txn \in RecoveryTxns, NEW act \in Action, StartLockRecovery(p, txn, act)
      PROVE  TypeOK'
  <2>1. NewCommit(txn, fs.olock.op, act, fs.olock.token) \in Commit
    BY <1>2, NewCommitType DEF Txn
  <2>2. (IF LockAudit(txn, act) THEN "unlock" ELSE "acquire") \in Pc
    BY <1>1
  <2> QED
    BY <1>3, <2>1, <2>2, BeginsType DEF StartLockRecovery
<1>4. CASE DiscardUnregisteredLock(p)
  BY <1>3, <1>4 DEF DiscardUnregisteredLock, RecoveryTxns, Action
<1>5. CASE ReconcileTerminalLock(p)
  BY <1>3, <1>5 DEF ReconcileTerminalLock, RecoveryTxns, Action
<1>6. CASE RecoverNoEffectAfterCrash(p)
  <2>1. NewCommit("recovery.operation-no-effect", fs.olock.op, "none", 0) \in Commit
    BY <1>2, NewCommitType DEF Txn, RecoveryTxns, Action
  <2>2. lease' \in [Procs -> Subject]
    BY <1>2, <1>6 DEF RecoverNoEffectAfterCrash
  <2>3. pc' \in [Procs -> Pc] /\ want' \in [Procs -> Commit] /\ ok' \in [Procs -> BOOLEAN]
    <3>1. CASE Reasons(fs, FALSE, fs.olock.op) = {}
      BY <1>1, <1>6, <2>1, <3>1, BeginsType DEF RecoverNoEffectAfterCrash
    <3>2. CASE Reasons(fs, FALSE, fs.olock.op) # {}
      BY <1>6, <3>2 DEF RecoverNoEffectAfterCrash
    <3> QED
      BY <3>1, <3>2
  <2> QED
    BY <1>6, <2>2, <2>3 DEF RecoverNoEffectAfterCrash
<1>7. CASE RecoverInterruptedPublish(p)
  BY <1>1, <1>7 DEF RecoverInterruptedPublish
<1> QED
  BY <1>4, <1>5, <1>6, <1>7 DEF RecoveryCall

LEMMA RecoveryTypes ==
    ASSUME TypeOK, NEW p \in Procs, RecoveryStep(p)
    PROVE  TypeOK'
<1> USE DEF TypeOK
<1>1. PublishRecoveryPcs \cup {"idle"} \subseteq Pc
  BY DEF Pc
<1>2. fs \in Directory /\ disk \in Directory
  OBVIOUS
<1>3. fs.intent.audit \in Commit /\ NextAnchor(fs) \in Commit
  BY NextAnchorType DEF Directory, Intent
<1>4. AfterLockCleanup \in PublishRecoveryPcs
  BY DEF AfterLockCleanup, PublishRecoveryPcs
<1>5. \A P \in SUBSET Pending : [fs EXCEPT !.pend = P] \in Directory
  BY <1>2, DirectoryUpdates
<1>6. [fs EXCEPT !.alock.st = "dir"] \in Directory /\ [fs EXCEPT !.alock = NoAlock] \in Directory
  BY <1>2, LockUpdates, DirectoryUpdates, EmptyTypes DEF LockState
<1>7. CASE DiscardPreGenesisLock(p)
  BY <1>1, <1>6, <1>7, MovesType DEF DiscardPreGenesisLock, PublishRecoveryPcs, PregenesisPcs
<1>8. CASE DiscardPreGenesisPending(p)
  BY <1>1, <1>2, <1>5, <1>8, SyncedTypes, MovesSyncedType DEF DiscardPreGenesisPending
<1>9. CASE WriteIntent(p)
  <2>1. [fs EXCEPT !.intent = FreshIntent(fs), !.alock.sealed = fs.alock.st = "full"] \in Directory
    BY <1>2, FreshIntentType DEF Directory, Alock
  <2> QED
    BY <1>1, <1>2, <1>9, <2>1, SyncedTypes, MovesSyncedType DEF WriteIntent, PublishRecoveryPcs
<1>10. CASE RemoveAppendLock(p)
  BY <1>1, <1>2, <1>4, <1>6, <1>10, SyncedTypes, MovesType, MovesSyncedType
  DEF RemoveAppendLock, PublishRecoveryPcs
<1>11. CASE RecoverySyncCommits(p)
  BY <1>1, <1>2, <1>11, SyncedTypes, MovesSyncedType DEF RecoverySyncCommits, PublishRecoveryPcs
<1>12. CASE RecoveryHeadTemp(p)
  <2>1. fs.pend \cup {HeadPending(NextAnchor(fs), "recovery")} \in SUBSET Pending
    BY <1>2, <1>3, PendingTypes DEF Directory
  <2> QED
    BY <1>1, <1>2, <1>5, <1>12, <2>1, SyncedTypes, MovesSyncedType
    DEF RecoveryHeadTemp, PublishRecoveryPcs
<1>13. CASE RecoveryRenameHead(p)
  <2>1. fs.pend \ {HeadPending(NextAnchor(fs), "recovery")} \in SUBSET Pending
        /\ NextAnchor(fs).seq \in Nat
    BY <1>2, <1>3 DEF Directory, Commit
  <2>2. [fs EXCEPT !.pend = @ \ {HeadPending(NextAnchor(fs), "recovery")},
                   !.head = NextAnchor(fs).seq] \in Directory
    BY <1>2, <2>1, DirectoryUpdates
  <2> QED
    BY <1>1, <1>13, <2>2, MovesType DEF RecoveryRenameHead, PublishRecoveryPcs
<1>14. CASE RecoverySyncHead(p)
  <2>1. (IF fs.head = fs.intent.audit.seq THEN "r.done" ELSE "r.unlink") \in Pc
    BY <1>1 DEF PublishRecoveryPcs
  <2> QED
    BY <1>2, <1>14, <2>1, SyncedTypes, MovesSyncedType DEF RecoverySyncHead
<1>15. CASE RecoveryUnlinkPending(p)
  <2>1. "r.unlink" \in Pc /\ "r.audit" \in Pc
    BY <1>1 DEF PublishRecoveryPcs
  <2>2. \A e : fs.pend \ {e} \in SUBSET Pending
    BY <1>2 DEF Directory
  <2> QED
    BY <1>2, <1>5, <1>15, <2>1, <2>2, SyncedTypes, MovesType, MovesSyncedType
    DEF RecoveryUnlinkPending
<1>16. CASE WriteAudit(p)
  <2>1. fs.pend \cup {AuditPending(fs.intent)} \in SUBSET Pending
    BY <1>2, <1>3, PendingTypes DEF Directory, AuditPending
  <2>2. {"r.temp", "r.done", "r.link"} \subseteq Pc
    BY <1>1 DEF PublishRecoveryPcs
  <2>3. CASE fs.intent.audit \in fs.commits
    BY <1>2, <1>16, <2>2, <2>3, MovesType DEF WriteAudit
  <2>4. CASE fs.intent.audit \notin fs.commits /\ AuditPending(fs.intent) \in fs.pend
    BY <1>2, <1>16, <2>2, <2>4, MovesType DEF WriteAudit
  <2>5. CASE fs.intent.audit \notin fs.commits /\ AuditPending(fs.intent) \notin fs.pend
    BY <1>2, <1>5, <1>16, <2>1, <2>2, <2>5, SyncedTypes, MovesSyncedType DEF WriteAudit
  <2> QED
    BY <2>3, <2>4, <2>5
<1>17. CASE LinkAudit(p)
  <2>1. fs.commits \cup {fs.intent.audit} \in SUBSET Commit
    BY <1>2, <1>3 DEF Directory
  <2>2. [fs EXCEPT !.commits = @ \cup {fs.intent.audit}] \in Directory
    BY <1>2, <2>1, DirectoryUpdates
  <2> QED
    BY <1>1, <1>17, <2>2, MovesType DEF LinkAudit, PublishRecoveryPcs
<1>18. CASE SyncAudit(p)
  BY <1>1, <1>2, <1>18, SyncedTypes, MovesSyncedType DEF SyncAudit, PublishRecoveryPcs
<1>19. CASE UnlinkAuditPending(p)
  <2>1. fs.pend \ {AuditPending(fs.intent), Torn(AuditPending(fs.intent))} \in SUBSET Pending
    BY <1>2 DEF Directory
  <2> QED
    BY <1>1, <1>2, <1>5, <1>19, <2>1, SyncedTypes, MovesSyncedType
    DEF UnlinkAuditPending, PublishRecoveryPcs
<1>20. CASE ClearIntent(p)
  <2>1. [fs EXCEPT !.intent = NoIntent] \in Directory
    BY <1>2, EmptyTypes, DirectoryUpdates
  <2>2. fs' \in Directory /\ disk' \in Directory /\ pc' \in [Procs -> Pc]
    BY <1>1, <1>2, <1>20, <2>1, SyncedTypes, MovesSyncedType DEF ClearIntent
  <2> QED
    BY <1>3, <1>20, <2>2 DEF ClearIntent
<1> QED
  BY <1>7, <1>8, <1>9, <1>10, <1>11, <1>12, <1>13, <1>14, <1>15, <1>16, <1>17, <1>18, <1>19,
     <1>20
  DEF RecoveryStep

LEMMA CutShortType ==
    ASSUME TypeOK, NEW p \in Procs
    PROVE  CutShort(p) \subseteq Directory
<1>1. fs \in Directory /\ want[p] \in Commit /\ fs.intent.audit \in Commit
      /\ NextAnchor(fs) \in Commit
  BY NextAnchorType DEF TypeOK, Directory, Intent
<1>2. \A P \in SUBSET Pending : [fs EXCEPT !.pend = P] \in Directory
  BY <1>1, DirectoryUpdates
<1>3. \A e \in Pending : fs.pend \cup {e} \in SUBSET Pending
  BY <1>1 DEF Directory
<1>4. \A e : fs.pend \ {e} \in SUBSET Pending
  BY <1>1 DEF Directory
<1>5. /\ Torn(CommitPending(want[p], "append")) \in Pending
      /\ HeadPending(want[p], "append") \in Pending
      /\ Torn(AuditPending(fs.intent)) \in Pending
      /\ HeadPending(NextAnchor(fs), "recovery") \in Pending
  BY <1>1, PendingTypes DEF AuditPending
<1>6. [fs EXCEPT !.intent.st = "torn"] \in Directory
  BY <1>1, LockUpdates DEF LockState
<1>7. /\ [fs EXCEPT !.pend = @ \cup {Torn(CommitPending(want[p], "append"))}] \in Directory
      /\ [fs EXCEPT !.pend = @ \cup {HeadPending(want[p], "append")}] \in Directory
      /\ [fs EXCEPT !.pend = @ \ {CommitPending(want[p], "append")}] \in Directory
      /\ [fs EXCEPT !.pend = @ \cup {Torn(AuditPending(fs.intent))}] \in Directory
      /\ [fs EXCEPT !.pend = @ \cup {HeadPending(NextAnchor(fs), "recovery")}] \in Directory
  BY <1>2, <1>3, <1>4, <1>5
<1> QED
  BY <1>1, <1>6, <1>7 DEF CutShort

LEMMA FaultTypes ==
    ASSUME TypeOK,
           PowerLoss \/ \E p \in Procs : Kill(p) \/ Exit(p) \/ IoError(p)
    PROVE  TypeOK'
<1> USE DEF TypeOK
<1>1. {"idle", "return", "release"} \subseteq Pc
  BY DEF Pc, CallPcs, AppendPcs
<1>2. faults + 1 \in Nat /\ None \in Subject
  BY DEF Subject
<1>3. ASSUME NEW p \in Procs, Kill(p) PROVE TypeOK'
  <2>1. PICK f \in CutShort(p) :
          fs' = IF f.alock.by = p THEN [f EXCEPT !.alock.live = FALSE] ELSE f
    BY <1>3 DEF Kill
  <2>2. f \in Directory
    BY CutShortType
  <2>3. fs' \in Directory
    BY <2>1, <2>2, LockUpdates DEF LockState
  <2> QED
    BY <1>2, <1>3, <2>3, EndsType DEF Kill, Fault
<1>4. ASSUME NEW p \in Procs, Exit(p) PROVE TypeOK'
  BY <1>2, <1>4 DEF Exit
<1>5. ASSUME NEW p \in Procs, IoError(p) PROVE TypeOK'
  <2>1. [fs EXCEPT !.olock = NoOlock] \in Directory /\ [fs EXCEPT !.alock = NoAlock] \in Directory
    BY DirectoryUpdates, EmptyTypes
  <2>2. fs' \in Directory
    BY <1>5, <2>1, CutShortType DEF IoError
  <2>3. pc' \in [Procs -> Pc] /\ want' \in [Procs -> Commit] /\ ok' \in [Procs -> BOOLEAN]
    BY <1>1, <1>5, EndsType, FailsType DEF IoError
  <2> QED
    BY <1>2, <1>5, <2>2, <2>3 DEF IoError, Fault
<1>6. CASE PowerLoss
  <2>1. fs' \in Directory
    <3>1. PICK h \in {disk.head, fs.head}, a \in {disk.alock, fs.alock},
               l \in {disk.olock, fs.olock}, i \in {disk.intent, fs.intent},
               C \in SUBSET (fs.commits \ disk.commits),
               P \in SUBSET ((fs.pend \ disk.pend) \cup (disk.pend \ fs.pend)) :
            fs' = [head |-> h, commits |-> disk.commits \cup C,
                   pend |-> (disk.pend \cap fs.pend) \cup P,
                   alock |-> [a EXCEPT !.live = FALSE], olock |-> l, intent |-> i]
      BY <1>6 DEF PowerLoss
    <3>2. h \in Nat /\ l \in Olock /\ i \in Intent
      BY <3>1 DEF Directory
    <3>3. [a EXCEPT !.live = FALSE] \in Alock
      BY <3>1 DEF Directory, Alock
    <3>4. disk.commits \cup C \in SUBSET Commit /\ (disk.pend \cap fs.pend) \cup P \in SUBSET Pending
      BY <3>1 DEF Directory
    <3> QED
      BY <3>1, <3>2, <3>3, <3>4 DEF Directory
  <2> QED
    BY <1>1, <1>2, <1>6, <2>1, EmptyTypes DEF PowerLoss, Fault
<1> QED
  BY <1>3, <1>4, <1>5, <1>6

-----------------------------------------------------------------------------
(* Type correctness *)

LEMMA InitTypes == Init => TypeOK
BY EmptyTypes DEF Init, TypeOK, Pc, Subject

LEMMA NextTypes ==
    ASSUME TypeOK, [Next]_vars
    PROVE  TypeOK'
<1>1. CASE UNCHANGED vars
  BY <1>1 DEF TypeOK, vars
<1>2. CASE Next
  BY <1>2, CallTypes, AppendTypes, RecoveryCallTypes, RecoveryTypes, FaultTypes DEF Next, Step
<1> QED
  BY <1>1, <1>2

\* Every state of the store is well typed: in particular the directory never
\* holds anything but commits, pending files, locks and an intent of the
\* forms the code writes.
THEOREM TypeCorrect == Spec => []TypeOK
<1>1. Init => TypeOK
  BY InitTypes
<1>2. TypeOK /\ [Next]_vars => TypeOK'
  BY NextTypes
<1> QED
  BY <1>1, <1>2, PTL DEF Spec
-----------------------------------------------------------------------------
(* A step of one process, seen from the others *)

LEMMA Frame ==
    ASSUME TypeOK, NEW p \in Procs, Step(p), NEW q \in Procs \ {p}
    PROVE  pc'[q] = pc[q] /\ want'[q] = want[q] /\ ok'[q] = ok[q] /\ lease'[q] = lease[q]
<1> USE DEF TypeOK, Moves, MovesSynced, Begins, Ends, Fails
<1>1. CASE Call(p)
  BY <1>1 DEF Call, Activate, Record, BeginOperation, EndOperation
<1>2. CASE AppendStep(p)
  <2>1. CASE MakeOperationLock(p) \/ WriteOperationLease(p) \/ AcquireAppendLock(p)
             \/ WriteAppendLease(p) \/ CheckUnderMutex(p) \/ WritePending(p) \/ LinkCommit(p)
    BY <2>1 DEF MakeOperationLock, WriteOperationLease, AcquireAppendLock, WriteAppendLease,
                CheckUnderMutex, WritePending, LinkCommit
  <2>2. CASE SyncCommits(p) \/ WriteHeadTemp(p) \/ RenameHead(p) \/ SyncHead(p)
             \/ UnlinkPending(p) \/ ReleaseAppendLock(p) \/ ReturnFromAppend(p)
             \/ ReleaseOperationLock(p)
    BY <2>2 DEF SyncCommits, WriteHeadTemp, RenameHead, SyncHead, UnlinkPending,
                ReleaseAppendLock, ReturnFromAppend, ReleaseOperationLock
  <2> QED
    BY <1>2, <2>1, <2>2 DEF AppendStep
<1>3. CASE RecoveryCall(p)
  BY <1>3 DEF RecoveryCall, DiscardUnregisteredLock, ReconcileTerminalLock, StartLockRecovery,
              RecoverNoEffectAfterCrash, RecoverInterruptedPublish
<1>4. CASE RecoveryStep(p)
  <2>1. CASE DiscardPreGenesisLock(p) \/ DiscardPreGenesisPending(p) \/ WriteIntent(p)
             \/ RemoveAppendLock(p) \/ RecoverySyncCommits(p) \/ RecoveryHeadTemp(p)
             \/ RecoveryRenameHead(p)
    BY <2>1 DEF DiscardPreGenesisLock, DiscardPreGenesisPending, WriteIntent, RemoveAppendLock,
                RecoverySyncCommits, RecoveryHeadTemp, RecoveryRenameHead
  <2>2. CASE RecoverySyncHead(p) \/ RecoveryUnlinkPending(p) \/ WriteAudit(p) \/ LinkAudit(p)
             \/ SyncAudit(p) \/ UnlinkAuditPending(p) \/ ClearIntent(p)
    BY <2>2 DEF RecoverySyncHead, RecoveryUnlinkPending, WriteAudit, LinkAudit, SyncAudit,
                UnlinkAuditPending, ClearIntent
  <2> QED
    BY <1>4, <2>1, <2>2 DEF RecoveryStep
<1>5. CASE Kill(p) \/ Exit(p) \/ IoError(p)
  BY <1>5 DEF Kill, Exit, IoError
<1> QED
  BY <1>1, <1>2, <1>3, <1>4, <1>5 DEF Step

\* Whoever takes a step finds no other process in a recovery.
LEMMA Alone ==
    ASSUME IInv, NEW p \in Procs, Step(p), NEW q \in Procs \ {p}
    PROVE  /\ ~Recovering(q)
           /\ Recovering(p) => pc[q] = "idle" /\ lease[q] = None
<1>1. Recovering(p) => pc[q] = "idle" /\ lease[q] = None
  BY DEF IInv, AloneInv
<1>2. SUFFICES ASSUME Recovering(q) PROVE FALSE
  BY <1>1
<1>3. pc[p] = "idle" /\ lease[p] = None /\ pc[q] # "idle" /\ ~NoRecovery /\ ~Quiesced
  BY <1>2 DEF IInv, AloneInv, Recovering, NoRecovery, Quiesced, PublishRecoveryPcs, PregenesisPcs
<1>4. ~Call(p)
  BY <1>3 DEF Call, Activate, Record, BeginOperation, EndOperation, Writable
<1>5. ~AppendStep(p)
  BY <1>3 DEF AppendStep, MakeOperationLock, WriteOperationLease, AcquireAppendLock,
              WriteAppendLease, CheckUnderMutex, WritePending, LinkCommit, SyncCommits,
              WriteHeadTemp, RenameHead, SyncHead, UnlinkPending, ReleaseAppendLock,
              ReturnFromAppend, ReleaseOperationLock
<1>6. ~RecoveryCall(p)
  BY <1>3 DEF RecoveryCall, DiscardUnregisteredLock, ReconcileTerminalLock,
              RecoverNoEffectAfterCrash, RecoverInterruptedPublish
<1>7. ~RecoveryStep(p)
  BY <1>3 DEF RecoveryStep, DiscardPreGenesisLock, DiscardPreGenesisPending, WriteIntent,
              RemoveAppendLock, RecoverySyncCommits, RecoveryHeadTemp, RecoveryRenameHead,
              RecoverySyncHead, RecoveryUnlinkPending, WriteAudit, LinkAudit, SyncAudit,
              UnlinkAuditPending, ClearIntent
<1>8. ~Kill(p) /\ ~Exit(p) /\ ~IoError(p)
  BY <1>3 DEF Kill, Exit, IoError
<1> QED
  BY <1>4, <1>5, <1>6, <1>7, <1>8 DEF Step

\* A recovery starts only when nothing else runs.
LEMMA RecoveryStarts ==
    ASSUME TypeOK, NEW p \in Procs, Step(p), ~Recovering(p), Recovering(p)'
    PROVE  Quiesced
<1> USE DEF TypeOK, Recovering
<1> DEFINE append == pc'[p] = "idle" \/ (pc'[p] \in CallPcs /\ pc[p] # "idle" /\ want'[p] = want[p])
<1>0. CallPcs \cap PublishRecoveryPcs = {} /\ "idle" \notin PublishRecoveryPcs
  BY DEF CallPcs, AppendPcs, PublishRecoveryPcs, PregenesisPcs
<1>1. CASE Call(p)
  <2>1. pc'[p] \in {"acquire", "opmkdir"}
    BY <1>1 DEF Call, Activate, Record, BeginOperation, EndOperation, Begins
  <2>2. \E txn \in OrdinaryTxns : \E s : want'[p] = NewCommit(txn, s, "none", 0)
    BY <1>1 DEF Call, Activate, Record, BeginOperation, EndOperation, Begins, OrdinaryTxns
  <2>3. want'[p].txn \in OrdinaryTxns
    BY <2>2 DEF NewCommit
  <2> QED
    BY <1>0, <2>1, <2>3 DEF CallPcs, AppendPcs, OrdinaryTxns, RecoveryTxns
<1>2. CASE AppendStep(p)
  <2> USE DEF Moves, MovesSynced, Ends, Fails, CallPcs, AppendPcs
  <2>1. CASE MakeOperationLock(p) \/ WriteOperationLease(p) \/ AcquireAppendLock(p)
             \/ WriteAppendLease(p) \/ CheckUnderMutex(p) \/ WritePending(p) \/ LinkCommit(p)
    <3>1. append
      BY <2>1 DEF MakeOperationLock, WriteOperationLease, AcquireAppendLock, WriteAppendLease,
                CheckUnderMutex, WritePending, LinkCommit
    <3> QED
      BY <1>0, <3>1
  <2>2. CASE SyncCommits(p) \/ WriteHeadTemp(p) \/ RenameHead(p) \/ SyncHead(p)
             \/ UnlinkPending(p) \/ ReleaseAppendLock(p) \/ ReturnFromAppend(p)
             \/ ReleaseOperationLock(p)
    <3>1. append
      BY <2>2 DEF SyncCommits, WriteHeadTemp, RenameHead, SyncHead, UnlinkPending,
                ReleaseAppendLock, ReturnFromAppend, ReleaseOperationLock
    <3> QED
      BY <1>0, <3>1
  <2> QED
    BY <1>2, <2>1, <2>2 DEF AppendStep
<1>3. CASE RecoveryCall(p)
  BY <1>3 DEF RecoveryCall, DiscardUnregisteredLock, ReconcileTerminalLock,
              RecoverNoEffectAfterCrash, RecoverInterruptedPublish
<1>4. CASE RecoveryStep(p)
  BY <1>4 DEF RecoveryStep, DiscardPreGenesisLock, DiscardPreGenesisPending, WriteIntent,
              RemoveAppendLock, RecoverySyncCommits, RecoveryHeadTemp, RecoveryRenameHead,
              RecoverySyncHead, RecoveryUnlinkPending, WriteAudit, LinkAudit, SyncAudit,
              UnlinkAuditPending, ClearIntent, PublishRecoveryPcs, PregenesisPcs
<1>5. CASE Kill(p) \/ Exit(p) \/ IoError(p)
  <2>1. append
    BY <1>5 DEF Kill, Exit, IoError, Ends, Fails, CallPcs, AppendPcs
  <2>2. CASE pc'[p] = "idle"
    BY <1>0, <2>2
  <2>3. CASE pc'[p] # "idle"
    BY <1>0, <2>1, <2>3
  <2> QED
    BY <2>2, <2>3
<1> QED
  BY <1>1, <1>2, <1>3, <1>4, <1>5 DEF Step

LEMMA AlonePreserved ==
    ASSUME IInv, NEW p \in Procs, Step(p)
    PROVE  AloneInv'
<1>0. TypeOK
  BY DEF IInv
<1> SUFFICES ASSUME NEW q \in Procs, NEW r \in Procs \ {q}, Recovering(q)'
             PROVE  pc'[r] = "idle" /\ lease'[r] = None
  BY DEF AloneInv
<1>1. q = p
  <2> SUFFICES ASSUME q # p PROVE FALSE
    OBVIOUS
  <2>1. ~Recovering(q)
    BY Alone
  <2>2. pc'[q] = pc[q] /\ want'[q] = want[q]
    BY <1>0, Frame
  <2> QED
    BY <2>1, <2>2 DEF Recovering
<1>2. pc[r] = "idle" /\ lease[r] = None
  BY <1>0, <1>1, Alone, RecoveryStarts DEF Quiesced
<1> QED
  BY <1>0, <1>1, <1>2, Frame

-----------------------------------------------------------------------------
(* The append mutex *)

\* What a step of p can do to append.lock: leave the directory standing ...
KeepsMutex(p) ==
    /\ fs'.alock.by = fs.alock.by
    /\ fs.alock.st # "none" => fs'.alock.st # "none"
    /\ pc'[p] \in CriticalPcs => pc[p] \in CriticalPcs

\* ... make it where there was none ...
TakesMutex(p) == fs.alock.st = "none" /\ fs'.alock.by = p /\ fs'.alock.st = "dir"

\* ... or remove it, from inside the mutex or in a recovery.
DropsMutex(p) == pc'[p] \notin CriticalPcs /\ (pc[p] \in CriticalPcs \/ Recovering(p))

LEMMA AppendMutex ==
    ASSUME TypeOK, NEW p \in Procs, AppendStep(p)
    PROVE  KeepsMutex(p) \/ TakesMutex(p) \/ DropsMutex(p)
<1> USE DEF TypeOK, Directory, Alock, Moves, MovesSynced, Ends, Fails, KeepsMutex, TakesMutex,
            DropsMutex, CriticalPcs, AppendPcs
<1>1. CASE MakeOperationLock(p) \/ WriteOperationLease(p) \/ CheckUnderMutex(p)
  BY <1>1 DEF MakeOperationLock, WriteOperationLease, CheckUnderMutex
<1>2. CASE AcquireAppendLock(p)
  BY <1>2 DEF AcquireAppendLock
<1>3. CASE WriteAppendLease(p)
  BY <1>3 DEF WriteAppendLease
<1>4. CASE WritePending(p) \/ LinkCommit(p) \/ SyncCommits(p) \/ WriteHeadTemp(p)
           \/ RenameHead(p) \/ SyncHead(p) \/ UnlinkPending(p)
  BY <1>4 DEF WritePending, LinkCommit, SyncCommits, WriteHeadTemp, RenameHead, SyncHead,
              UnlinkPending
<1>5. CASE ReleaseAppendLock(p)
  BY <1>5 DEF ReleaseAppendLock
<1>6. CASE ReturnFromAppend(p) \/ ReleaseOperationLock(p)
  BY <1>6 DEF ReturnFromAppend, ReleaseOperationLock
<1> QED
  BY <1>1, <1>2, <1>3, <1>4, <1>5, <1>6 DEF AppendStep

LEMMA RecoveryMutex ==
    ASSUME TypeOK, NEW p \in Procs, RecoveryStep(p)
    PROVE  DropsMutex(p)
<1> USE DEF TypeOK, Moves, MovesSynced, DropsMutex, Recovering, CriticalPcs, AppendPcs,
            PublishRecoveryPcs, PregenesisPcs
<1>1. CASE DiscardPreGenesisLock(p) \/ DiscardPreGenesisPending(p) \/ WriteIntent(p)
           \/ RemoveAppendLock(p) \/ RecoverySyncCommits(p) \/ RecoveryHeadTemp(p)
           \/ RecoveryRenameHead(p)
  BY <1>1 DEF DiscardPreGenesisLock, DiscardPreGenesisPending, WriteIntent, RemoveAppendLock,
              AfterLockCleanup, RecoverySyncCommits, RecoveryHeadTemp, RecoveryRenameHead
<1>2. CASE RecoverySyncHead(p) \/ RecoveryUnlinkPending(p) \/ WriteAudit(p) \/ LinkAudit(p)
           \/ SyncAudit(p) \/ UnlinkAuditPending(p) \/ ClearIntent(p)
  BY <1>2 DEF RecoverySyncHead, RecoveryUnlinkPending, WriteAudit, LinkAudit, SyncAudit,
              UnlinkAuditPending, ClearIntent
<1> QED
  BY <1>1, <1>2 DEF RecoveryStep

\* A step that was cut short touches neither the mutex nor the commits.
LEMMA CutShortFrame ==
    ASSUME TypeOK, NEW p \in Procs, NEW f \in CutShort(p)
    PROVE  /\ f.alock = fs.alock /\ f.commits = fs.commits /\ f.head = fs.head
           /\ \/ f.intent = fs.intent
              \/ pc[p] = "r.intent" /\ f.intent.st = "torn"
BY DEF TypeOK, Directory, Intent, CutShort

LEMMA FaultMutex ==
    ASSUME IInv, NEW p \in Procs, Kill(p) \/ Exit(p) \/ IoError(p)
    PROVE  KeepsMutex(p) \/ TakesMutex(p) \/ DropsMutex(p)
<1> USE DEF IInv
<1>1. CASE Kill(p)
  <2>1. PICK f \in CutShort(p) :
          fs' = IF f.alock.by = p THEN [f EXCEPT !.alock.live = FALSE] ELSE f
    BY <1>1 DEF Kill
  <2>2. f.alock = fs.alock /\ f \in Directory
    BY CutShortFrame, CutShortType
  <2>3. fs'.alock.by = fs.alock.by /\ fs'.alock.st = fs.alock.st
    BY <2>1, <2>2 DEF TypeOK, Directory, Alock
  <2>4. pc'[p] = "idle"
    BY <1>1 DEF TypeOK, Kill, Ends
  <2> QED
    BY <2>3, <2>4 DEF KeepsMutex, CriticalPcs, AppendPcs
<1>2. CASE Exit(p)
  BY <1>2 DEF Exit, KeepsMutex
<1>3. CASE IoError(p)
  <2>1. CASE pc[p] = "oplease"
    BY <1>3, <2>1 DEF IoError, Ends, TypeOK, Directory, Alock, KeepsMutex, CriticalPcs, AppendPcs
  <2>2. CASE pc[p] = "lease"
    BY <1>3, <2>2 DEF IoError, Fails, TypeOK, DropsMutex, CriticalPcs, AppendPcs
  <2>3. CASE pc[p] \notin {"oplease", "lease"}
    <3>1. fs' \in CutShort(p) /\ pc[p] \in CriticalPcs
      BY <1>3, <2>3 DEF IoError, CriticalPcs, AppendPcs
    <3>2. fs'.alock = fs.alock
      BY <3>1, CutShortFrame
    <3> QED
      BY <3>1, <3>2 DEF KeepsMutex
  <2> QED
    BY <2>1, <2>2, <2>3
<1> QED
  BY <1>1, <1>2, <1>3

LEMMA MutexPreserved ==
    ASSUME IInv, NEW p \in Procs, Step(p)
    PROVE  MutexInv'
<1>0. TypeOK
  BY DEF IInv
<1>1. KeepsMutex(p) \/ TakesMutex(p) \/ DropsMutex(p)
  <2>1. CASE Call(p)
    BY <1>0, <2>1 DEF Call, Activate, Record, BeginOperation, EndOperation, Begins, KeepsMutex,
                      CriticalPcs, AppendPcs, TypeOK
  <2>2. CASE RecoveryCall(p)
    BY <1>0, <2>2 DEF RecoveryCall, DiscardUnregisteredLock, ReconcileTerminalLock,
                      StartLockRecovery, RecoverNoEffectAfterCrash, RecoverInterruptedPublish,
                      Begins, KeepsMutex, CriticalPcs, AppendPcs, TypeOK
  <2> QED
    BY <1>0, <2>1, <2>2, AppendMutex, RecoveryMutex, FaultMutex DEF Step
<1> SUFFICES ASSUME NEW q \in Procs, pc'[q] \in CriticalPcs
             PROVE  fs'.alock.by = q /\ fs'.alock.st # "none"
  BY DEF MutexInv
<1>2. q # p => pc[q] \in CriticalPcs
  BY <1>0, Frame
<1>3. pc[q] \in CriticalPcs => fs.alock.by = q /\ fs.alock.st # "none" /\ pc[q] # "idle"
  BY DEF IInv, MutexInv, CriticalPcs, AppendPcs
<1>4. CASE KeepsMutex(p)
  BY <1>2, <1>3, <1>4 DEF KeepsMutex
<1>5. CASE TakesMutex(p)
  BY <1>2, <1>3, <1>5 DEF TakesMutex
<1>6. CASE DropsMutex(p)
  <2>1. q # p
    BY <1>6 DEF DropsMutex
  <2>2. ~Recovering(p)
    BY <1>2, <1>3, <2>1, Alone
  <2>3. fs.alock.by = p
    BY <1>6, <2>2 DEF DropsMutex, IInv, MutexInv
  <2> QED
    BY <1>2, <1>3, <2>1, <2>3
<1> QED
  BY <1>1, <1>4, <1>5, <1>6

-----------------------------------------------------------------------------
(* The commits, HEAD and RECOVERY.json *)

\* What most steps leave alone.
KeepsHistory ==
    /\ fs'.commits = fs.commits
    /\ fs'.intent = fs.intent
    /\ disk'.commits \subseteq fs.commits
    /\ disk'.intent = disk.intent \/ disk'.intent = fs.intent

LEMMA AppendHistory ==
    ASSUME IInv, NEW p \in Procs, AppendStep(p), ~LinkCommit(p)
    PROVE  /\ KeepsHistory
           /\ fs'.head = fs.head \/ pc[p] = "rename"
<1> USE DEF IInv, TypeOK, Directory, DurableInv, KeepsHistory, Moves, MovesSynced, Ends, Fails,
            RootSynced, CommitsSynced, PendingSynced
<1>1. CASE MakeOperationLock(p) \/ WriteOperationLease(p) \/ AcquireAppendLock(p)
  BY <1>1 DEF MakeOperationLock, WriteOperationLease, AcquireAppendLock
<1>2. CASE WriteAppendLease(p) \/ CheckUnderMutex(p) \/ WritePending(p)
  BY <1>2 DEF WriteAppendLease, CheckUnderMutex, WritePending
<1>3. CASE SyncCommits(p) \/ WriteHeadTemp(p) \/ RenameHead(p)
  BY <1>3 DEF SyncCommits, WriteHeadTemp, RenameHead
<1>4. CASE SyncHead(p) \/ UnlinkPending(p) \/ ReturnFromAppend(p)
  BY <1>4 DEF SyncHead, UnlinkPending, ReturnFromAppend
<1>5. CASE ReleaseAppendLock(p) \/ ReleaseOperationLock(p)
  BY <1>5 DEF ReleaseAppendLock, ReleaseOperationLock
<1> QED
  BY <1>1, <1>2, <1>3, <1>4, <1>5 DEF AppendStep

LEMMA RecoveryHistory ==
    ASSUME IInv, NEW p \in Procs, RecoveryStep(p), ~WriteIntent(p), ~LinkAudit(p), ~ClearIntent(p)
    PROVE  KeepsHistory
<1> USE DEF IInv, TypeOK, Directory, DurableInv, KeepsHistory, Moves, MovesSynced,
            RootSynced, CommitsSynced, PendingSynced
<1>1. CASE DiscardPreGenesisLock(p) \/ DiscardPreGenesisPending(p) \/ RemoveAppendLock(p)
  BY <1>1 DEF DiscardPreGenesisLock, DiscardPreGenesisPending, RemoveAppendLock
<1>2. CASE RecoverySyncCommits(p) \/ RecoveryHeadTemp(p) \/ RecoveryRenameHead(p)
           \/ RecoverySyncHead(p)
  BY <1>2 DEF RecoverySyncCommits, RecoveryHeadTemp, RecoveryRenameHead, RecoverySyncHead
<1>3. CASE RecoveryUnlinkPending(p)
  BY <1>3 DEF RecoveryUnlinkPending
<1>4. CASE WriteAudit(p)
  BY <1>4 DEF WriteAudit
<1>5. CASE SyncAudit(p) \/ UnlinkAuditPending(p)
  BY <1>5 DEF SyncAudit, UnlinkAuditPending
<1> QED
  BY <1>1, <1>2, <1>3, <1>4, <1>5 DEF RecoveryStep

LEMMA OtherHistory ==
    ASSUME IInv, NEW p \in Procs, Call(p) \/ RecoveryCall(p) \/ Exit(p) \/ IoError(p)
    PROVE  KeepsHistory /\ fs'.head = fs.head
<1>1. disk' = disk
  BY DEF Call, Activate, Record, BeginOperation, EndOperation, RecoveryCall,
         DiscardUnregisteredLock, ReconcileTerminalLock, StartLockRecovery,
         RecoverNoEffectAfterCrash, RecoverInterruptedPublish, Exit, IoError
<1>2. fs'.commits = fs.commits /\ fs'.intent = fs.intent /\ fs'.head = fs.head
  <2>1. CASE Call(p) \/ RecoveryCall(p) \/ Exit(p)
    BY <2>1 DEF Call, Activate, Record, BeginOperation, EndOperation, RecoveryCall,
         DiscardUnregisteredLock, ReconcileTerminalLock, StartLockRecovery,
         RecoverNoEffectAfterCrash, RecoverInterruptedPublish, Exit
  <2>2. CASE IoError(p)
    <3>1. CASE pc[p] \in {"oplease", "lease"}
      BY <2>2, <3>1 DEF IoError, IInv, TypeOK, Directory
    <3>2. CASE pc[p] \notin {"oplease", "lease"}
      BY <2>2, <3>2, CutShortFrame DEF IoError, IInv
    <3> QED
      BY <3>1, <3>2
  <2> QED
    BY <2>1, <2>2
<1> QED
  BY <1>1, <1>2 DEF KeepsHistory, IInv, DurableInv

\* The audit a fresh intent announces comes right after the last commit.
LEMMA FreshAuditIsNext ==
    ASSUME TypeOK, FreshAccepted(fs), NEW c \in fs.commits
    PROVE  c.seq < FreshIntent(fs).audit.seq
<1> DEFINE affected == IF Recovered(fs) = {} THEN NoCommit
                       ELSE CHOOSE e \in Recovered(fs) : TRUE
<1>0. fs \in Directory /\ c.seq \in Nat /\ fs.head \in Nat /\ affected \in Commit
  BY RecoveredInCommits, EmptyTypes DEF TypeOK, Directory, Commit
<1>1. FreshIntent(fs).audit.seq = (IF affected = NoCommit THEN fs.head ELSE affected.seq) + 1
  BY DEF FreshIntent
<1>2. CASE Unanchored(fs) = {}
  <2>1. c.seq <= fs.head
    BY <1>0, <1>2 DEF Unanchored
  <2>2. affected = NoCommit \/ affected.seq = fs.head
    BY <1>2 DEF Recovered
  <2> QED
    BY <1>0, <1>1, <2>1, <2>2 DEF Commit
<1>3. CASE Unanchored(fs) # {}
  <2>1. affected \in Unanchored(fs)
    BY <1>3 DEF Recovered
  <2>2. affected.seq > fs.head /\ affected # NoCommit
    BY <1>0, <2>1 DEF Unanchored, NoCommit
  <2>3. c.seq <= affected.seq
    <3>1. CASE c \in Unanchored(fs)
      BY <1>0, <2>1, <3>1 DEF FreshAccepted, Commit
    <3>2. CASE c \notin Unanchored(fs)
      BY <1>0, <2>2, <3>2 DEF Unanchored, Commit
    <3> QED
      BY <3>1, <3>2
  <2> QED
    BY <1>0, <1>1, <2>2, <2>3 DEF Commit
<1> QED
  BY <1>2, <1>3

\* Where a step can lead: only a recovery enters or leaves a recovery step,
\* and only the check under the mutex leads to the write of a commit.
LEMMA AppendNext ==
    ASSUME TypeOK, NEW p \in Procs, Call(p) \/ AppendStep(p) \/ Kill(p) \/ Exit(p) \/ IoError(p)
    PROVE  /\ pc'[p] \in CallPcs \cup {"idle"}
           /\ pc'[p] \in {"pending", "link"} =>
                \/ CheckUnderMutex(p) /\ AppendAllowed(p)
                \/ WritePending(p)
<1> USE DEF TypeOK, CallPcs, AppendPcs, Begins, Moves, MovesSynced, Ends, Fails
<1>1. CASE Call(p)
  BY <1>1 DEF Call, Activate, Record, BeginOperation, EndOperation
<1>2. CASE MakeOperationLock(p) \/ WriteOperationLease(p) \/ AcquireAppendLock(p)
           \/ WriteAppendLease(p) \/ CheckUnderMutex(p) \/ WritePending(p) \/ LinkCommit(p)
  BY <1>2 DEF MakeOperationLock, WriteOperationLease, AcquireAppendLock, WriteAppendLease,
              CheckUnderMutex, WritePending, LinkCommit
<1>3. CASE SyncCommits(p) \/ WriteHeadTemp(p) \/ RenameHead(p) \/ SyncHead(p)
           \/ UnlinkPending(p) \/ ReleaseAppendLock(p) \/ ReturnFromAppend(p)
           \/ ReleaseOperationLock(p)
  BY <1>3 DEF SyncCommits, WriteHeadTemp, RenameHead, SyncHead, UnlinkPending,
              ReleaseAppendLock, ReturnFromAppend, ReleaseOperationLock
<1>4. CASE Kill(p) \/ Exit(p) \/ IoError(p)
  BY <1>4 DEF Kill, Exit, IoError
<1> QED
  BY <1>1, <1>2, <1>3, <1>4 DEF AppendStep

LEMMA RecoveryNext ==
    ASSUME TypeOK, NEW p \in Procs, RecoveryStep(p)
    PROVE  /\ pc'[p] \in PublishRecoveryPcs \cup {"idle"} /\ pc'[p] # "r.intent"
           /\ pc'[p] \in IntentPcs => pc[p] \in IntentPcs \/ WriteIntent(p)
<1> USE DEF TypeOK, PublishRecoveryPcs, PregenesisPcs, IntentPcs, Moves, MovesSynced
<1>1. CASE DiscardPreGenesisLock(p) \/ DiscardPreGenesisPending(p) \/ WriteIntent(p)
  BY <1>1 DEF DiscardPreGenesisLock, DiscardPreGenesisPending, WriteIntent
<1>2. CASE RemoveAppendLock(p) \/ RecoverySyncCommits(p) \/ RecoveryHeadTemp(p)
           \/ RecoveryRenameHead(p)
  BY <1>2 DEF RemoveAppendLock, AfterLockCleanup, RecoverySyncCommits, RecoveryHeadTemp,
              RecoveryRenameHead
<1>3. CASE RecoverySyncHead(p) \/ RecoveryUnlinkPending(p) \/ WriteAudit(p) \/ LinkAudit(p)
           \/ SyncAudit(p) \/ UnlinkAuditPending(p) \/ ClearIntent(p)
  BY <1>3 DEF RecoverySyncHead, RecoveryUnlinkPending, WriteAudit, LinkAudit, SyncAudit,
              UnlinkAuditPending, ClearIntent
<1> QED
  BY <1>1, <1>2, <1>3 DEF RecoveryStep

LEMMA RecoveryCallNext ==
    ASSUME TypeOK, NEW p \in Procs, RecoveryCall(p)
    PROVE  /\ fs' = fs
           /\ pc'[p] \notin {"pending", "link"}
           /\ pc'[p] = "r.intent" => FreshAccepted(fs)
           /\ pc'[p] \in IntentPcs => fs.intent.st = "full"
<1> USE DEF TypeOK, PublishRecoveryPcs, PregenesisPcs, IntentPcs, Begins
<1>1. CASE DiscardUnregisteredLock(p) \/ ReconcileTerminalLock(p)
  BY <1>1 DEF DiscardUnregisteredLock, ReconcileTerminalLock, StartLockRecovery
<1>2. CASE RecoverNoEffectAfterCrash(p)
  BY <1>2 DEF RecoverNoEffectAfterCrash, Quiesced
<1>3. CASE RecoverInterruptedPublish(p)
  BY <1>3 DEF RecoverInterruptedPublish, RetryAccepted
<1> QED
  BY <1>1, <1>2, <1>3 DEF RecoveryCall

LEMMA RecoveryPreserved ==
    ASSUME IInv, NEW p \in Procs, Step(p)
    PROVE  RecoveryInv'
<1>0. TypeOK /\ fs \in Directory
  BY DEF IInv, TypeOK
<1>1. IntentPcs \subseteq PublishRecoveryPcs /\ "r.intent" \in PublishRecoveryPcs
      /\ "r.intent" \notin IntentPcs /\ (CallPcs \cup {"idle"}) \cap PublishRecoveryPcs = {}
  BY DEF IntentPcs, PublishRecoveryPcs, PregenesisPcs, CallPcs, AppendPcs
<1>2. \A q \in Procs \ {p} : pc'[q] \notin PublishRecoveryPcs
  BY <1>0, Frame, Alone DEF Recovering
<1>3. /\ pc'[p] = "r.intent" => FreshAccepted(fs')
      /\ pc'[p] \in IntentPcs => fs'.intent.st = "full"
  <2>1. CASE RecoveryCall(p)
    BY <1>0, <2>1, RecoveryCallNext
  <2>2. CASE RecoveryStep(p)
    <3>1. CASE WriteIntent(p)
      BY <1>0, <3>1, <2>2, RecoveryNext DEF WriteIntent, MovesSynced, FreshIntent, Directory
    <3>2. CASE ~WriteIntent(p) /\ ~ClearIntent(p)
      <4>1. fs'.intent = fs.intent
        <5>1. CASE LinkAudit(p)
          BY <1>0, <5>1 DEF LinkAudit, Moves, Directory
        <5> QED
          BY <2>2, <3>2, <5>1, RecoveryHistory DEF KeepsHistory
      <4> QED
        BY <1>0, <2>2, <3>2, <4>1, RecoveryNext DEF IInv, RecoveryInv
    <3>3. CASE ClearIntent(p)
      BY <1>0, <1>1, <3>3 DEF ClearIntent, MovesSynced, TypeOK, PublishRecoveryPcs, PregenesisPcs,
                              IntentPcs
    <3> QED
      BY <3>1, <3>2, <3>3
  <2>3. CASE ~RecoveryCall(p) /\ ~RecoveryStep(p)
    BY <1>0, <1>1, <2>3, AppendNext DEF Step
  <2> QED
    BY <2>1, <2>2, <2>3
<1> QED
  BY <1>1, <1>2, <1>3 DEF RecoveryInv

LEMMA BasePreserved ==
    ASSUME IInv, NEW p \in Procs, Step(p)
    PROVE  BaseInv'
<1>0. TypeOK /\ fs \in Directory
  BY DEF IInv, TypeOK
<1>1. CriticalPcs = {"lease", "check", "pending", "link", "commitsync", "headtemp", "rename",
                     "headsync", "unlink", "release"}
  BY DEF CriticalPcs, AppendPcs
<1> SUFFICES ASSUME NEW q \in Procs, pc'[q] \in {"pending", "link"}
             PROVE  want'[q].seq = fs'.head + 1 /\ Unanchored(fs') = {} /\ fs'.intent.st = "none"
  BY DEF BaseInv
<1>2. CASE q # p
  <2>1. pc[q] \in {"pending", "link"} /\ want'[q] = want[q]
    BY <1>0, <1>2, Frame
  <2>2. fs.alock.by = q /\ ~Recovering(p)
    BY <1>1, <1>2, <2>1 DEF IInv, MutexInv, AloneInv
  <2>3. pc[p] \notin CriticalPcs
    BY <1>2, <2>2 DEF IInv, MutexInv
  <2>4. fs'.commits = fs.commits /\ fs'.intent = fs.intent /\ fs'.head = fs.head
    <3>1. CASE AppendStep(p)
      BY <1>1, <2>3, <3>1, AppendHistory DEF KeepsHistory, LinkCommit
    <3>2. CASE RecoveryStep(p)
      BY <1>0, <2>2, <2>3, <3>2, RecoveryMutex DEF DropsMutex
    <3>3. CASE Kill(p)
      <4>1. PICK f \in CutShort(p) :
              fs' = IF f.alock.by = p THEN [f EXCEPT !.alock.live = FALSE] ELSE f
        BY <3>3 DEF Kill
      <4>2. f \in Directory /\ f.commits = fs.commits /\ f.intent = fs.intent /\ f.head = fs.head
        BY <1>0, <2>2, CutShortType, CutShortFrame DEF Recovering, PublishRecoveryPcs
      <4> QED
        BY <4>1, <4>2 DEF Directory
    <3> QED
      BY <3>1, <3>2, <3>3, OtherHistory DEF Step, KeepsHistory
  <2> QED
    BY <2>1, <2>4 DEF IInv, BaseInv, Unanchored
<1>3. CASE q = p
  <2>1. \/ CheckUnderMutex(p) /\ AppendAllowed(p)
        \/ WritePending(p)
    <3>1. ~RecoveryCall(p) /\ ~RecoveryStep(p)
      BY <1>0, <1>1, <1>3, RecoveryCallNext, RecoveryNext DEF PublishRecoveryPcs, PregenesisPcs
    <3> QED
      BY <1>0, <1>3, <3>1, AppendNext DEF Step
  <2>2. CASE CheckUnderMutex(p) /\ AppendAllowed(p)
    <3>1. fs' = fs /\ want' = want
      BY <2>2 DEF CheckUnderMutex
    <3>2. {"unanchored_commit", "recovery_audit_pending"} \cap AllowedReasons(want[p].txn) = {}
      BY DEF AllowedReasons
    <3>3. "unanchored_commit" \notin ReasonsOf(p) /\ "recovery_audit_pending" \notin ReasonsOf(p)
      BY <2>2, <3>2 DEF AppendAllowed
    <3>4. Unanchored(fs) = {} /\ fs.intent.st = "none"
      BY <3>3 DEF ReasonsOf, Reasons, Reason
    <3> QED
      BY <1>3, <2>2, <3>1, <3>4 DEF AppendAllowed
  <2>3. CASE WritePending(p)
    <3>1. pc[p] = "pending" /\ want' = want
      BY <2>3 DEF WritePending
    <3>2. fs'.commits = fs.commits /\ fs'.intent = fs.intent /\ fs'.head = fs.head
      BY <1>0, <2>3 DEF WritePending, Moves, Directory
    <3> QED
      BY <1>3, <3>1, <3>2 DEF IInv, BaseInv, Unanchored
  <2> QED
    BY <2>1, <2>2, <2>3
<1> QED
  BY <1>2, <1>3

LEMMA HistoryPreserved ==
    ASSUME IInv, NEW p \in Procs, Step(p)
    PROVE  AuditInv' /\ DurableInv' /\ NoFork'
<1>0. TypeOK /\ fs \in Directory /\ disk \in Directory /\ want[p] \in Commit
      /\ FreshIntent(fs) \in Intent
  BY FreshIntentType DEF IInv, TypeOK
<1>1. CASE KeepsHistory
  BY <1>1 DEF IInv, KeepsHistory, AuditInv, DurableInv, NoFork
<1>2. CASE LinkCommit(p)
  <2>1. /\ fs'.commits = fs.commits \cup {want[p]} /\ fs'.intent = fs.intent /\ disk' = disk
    BY <1>0, <1>2 DEF LinkCommit, Moves, Directory
  <2>2. want[p].seq = fs.head + 1 /\ Unanchored(fs) = {} /\ fs.intent.st = "none"
    BY <1>2 DEF LinkCommit, IInv, BaseInv
  <2>3. \A c \in fs.commits : c.seq < want[p].seq
    BY <1>0, <2>2 DEF Unanchored, Directory, Commit
  <2> QED
    BY <1>0, <2>1, <2>2, <2>3 DEF IInv, AuditInv, DurableInv, NoFork, Directory, Commit
<1>3. CASE LinkAudit(p)
  <2>1. /\ fs'.commits = fs.commits \cup {fs.intent.audit} /\ fs'.intent = fs.intent
        /\ disk' = disk
    BY <1>0, <1>3 DEF LinkAudit, Moves, Directory
  <2>2. fs.intent.st = "full"
    BY <1>3 DEF LinkAudit, IInv, RecoveryInv, IntentPcs, PublishRecoveryPcs, PregenesisPcs
  <2>3. \A c \in fs.commits : c.seq < fs.intent.audit.seq \/ c = fs.intent.audit
    BY <2>2 DEF IInv, AuditInv
  <2>4. \A c \in fs.commits \cup {fs.intent.audit} : c.seq \in Nat
    BY <1>0 DEF Directory, Intent, Commit
  <2> QED
    BY <2>1, <2>3, <2>4 DEF IInv, AuditInv, DurableInv, NoFork
<1>4. CASE WriteIntent(p)
  <2>1. /\ fs'.commits = fs.commits /\ fs'.intent = FreshIntent(fs)
        /\ disk'.commits = disk.commits /\ disk'.intent = fs'.intent
    BY <1>0, <1>4 DEF WriteIntent, MovesSynced, RootSynced, Directory
  <2>2. FreshAccepted(fs)
    BY <1>4 DEF WriteIntent, IInv, RecoveryInv
  <2> QED
    BY <1>0, <2>1, <2>2, FreshAuditIsNext DEF IInv, AuditInv, DurableInv, NoFork
<1>5. CASE ClearIntent(p)
  <2>1. /\ fs'.commits = fs.commits /\ fs'.intent = NoIntent
        /\ disk'.commits = disk.commits /\ disk'.intent = fs'.intent
    BY <1>0, <1>5 DEF ClearIntent, MovesSynced, RootSynced, Directory
  <2> QED
    BY <2>1 DEF NoIntent, IInv, AuditInv, DurableInv, NoFork
<1>6. CASE Kill(p)
  <2>1. PICK f \in CutShort(p) :
          fs' = IF f.alock.by = p THEN [f EXCEPT !.alock.live = FALSE] ELSE f
    BY <1>6 DEF Kill
  <2>2. f \in Directory /\ f.commits = fs.commits
        /\ (f.intent = fs.intent \/ (pc[p] = "r.intent" /\ f.intent.st = "torn"))
    BY <1>0, CutShortType, CutShortFrame
  <2>3. fs'.commits = fs.commits /\ fs'.intent = f.intent /\ disk' = disk
    BY <1>6, <2>1, <2>2 DEF Kill, Directory
  <2>4. CASE f.intent = fs.intent
    BY <2>3, <2>4 DEF IInv, AuditInv, DurableInv, NoFork
  <2>5. CASE pc[p] = "r.intent" /\ f.intent.st = "torn"
    <3>1. fs.intent.st = "none"
      BY <2>5 DEF IInv, RecoveryInv, FreshAccepted
    <3> QED
      BY <2>3, <2>5, <3>1 DEF IInv, AuditInv, DurableInv, NoFork
  <2> QED
    BY <2>2, <2>4, <2>5
<1> QED
  BY <1>1, <1>2, <1>3, <1>4, <1>5, <1>6, AppendHistory, RecoveryHistory, OtherHistory DEF Step

\* A power loss leaves every process idle and a subset of what was there.
LEMMA PowerPreserved ==
    ASSUME IInv, PowerLoss
    PROVE  /\ MutexInv' /\ AloneInv' /\ BaseInv' /\ RecoveryInv'
           /\ AuditInv' /\ DurableInv' /\ NoFork'
<1>1. \A p \in Procs : pc'[p] = "idle" /\ lease'[p] = None
  BY DEF PowerLoss
<1>2. MutexInv' /\ AloneInv' /\ BaseInv' /\ RecoveryInv'
  BY <1>1 DEF MutexInv, AloneInv, BaseInv, RecoveryInv, Recovering, CriticalPcs, AppendPcs,
              IntentPcs, PublishRecoveryPcs, PregenesisPcs
<1>3. PICK h \in {disk.head, fs.head}, a \in {disk.alock, fs.alock},
           l \in {disk.olock, fs.olock}, i \in {disk.intent, fs.intent},
           C \in SUBSET (fs.commits \ disk.commits),
           P \in SUBSET ((fs.pend \ disk.pend) \cup (disk.pend \ fs.pend)) :
        fs' = [head |-> h, commits |-> disk.commits \cup C,
               pend |-> (disk.pend \cap fs.pend) \cup P,
               alock |-> [a EXCEPT !.live = FALSE], olock |-> l, intent |-> i]
  BY DEF PowerLoss
<1>4. fs'.commits \subseteq fs.commits /\ fs'.intent \in {disk.intent, fs.intent}
  BY <1>3 DEF IInv, DurableInv
<1>5. fs'.intent.st = "full" => fs'.intent = fs.intent
  BY <1>4 DEF IInv, DurableInv
<1>6. disk' = fs'
  BY DEF PowerLoss
<1> QED
  BY <1>2, <1>4, <1>5, <1>6 DEF IInv, AuditInv, DurableInv, NoFork

-----------------------------------------------------------------------------
(* The invariant *)

LEMMA InitInvariant == Init => IInv
<1> SUFFICES ASSUME Init PROVE IInv
  OBVIOUS
<1>1. TypeOK
  BY InitTypes
<1>2. fs.commits = {} /\ fs.intent = NoIntent /\ disk = fs /\ \A p \in Procs : pc[p] = "idle"
  BY DEF Init, EmptyDirectory
<1>3. MutexInv /\ AloneInv /\ BaseInv /\ RecoveryInv
  BY <1>2 DEF MutexInv, AloneInv, BaseInv, RecoveryInv, Recovering, CriticalPcs, AppendPcs,
              IntentPcs, PublishRecoveryPcs, PregenesisPcs
<1>4. AuditInv /\ DurableInv /\ NoFork
  BY <1>2 DEF AuditInv, DurableInv, NoFork, NoIntent
<1> QED
  BY <1>1, <1>3, <1>4 DEF IInv

LEMMA NextInvariant ==
    ASSUME IInv, [Next]_vars
    PROVE  IInv'
<1>1. TypeOK'
  BY NextTypes DEF IInv
<1>2. CASE UNCHANGED vars
  BY <1>1, <1>2 DEF vars, IInv, MutexInv, AloneInv, BaseInv, RecoveryInv, AuditInv, DurableInv,
                    NoFork, Recovering, Unanchored
<1>3. CASE \E p \in Procs : Step(p)
  BY <1>1, <1>3, MutexPreserved, AlonePreserved, BasePreserved, RecoveryPreserved,
     HistoryPreserved DEF IInv
<1>4. CASE PowerLoss
  BY <1>1, <1>4, PowerPreserved DEF IInv
<1> QED
  BY <1>2, <1>3, <1>4 DEF Next

THEOREM Invariance == Spec => []IInv
<1>1. Init => IInv
  BY InitInvariant
<1>2. IInv /\ [Next]_vars => IInv'
  BY NextInvariant
<1> QED
  BY <1>1, <1>2, PTL DEF Spec

\* The history never forks: whatever number of store instances race, die,
\* fail, lose power and recover, no sequence has two commits.
THEOREM HistoryNeverForks == Spec => []NoFork
<1>1. IInv => NoFork
  BY DEF IInv
<1> QED
  BY <1>1, Invariance, PTL

\* append.lock excludes: a process inside an append made the directory that
\* stands there, and a recovery has the store to itself.
THEOREM MutexExcludes == Spec => []MutexExclusion
<1>1. IInv => MutexExclusion
  BY DEF IInv, MutexInv, AloneInv, MutexExclusion, CriticalPcs
<1> QED
  BY <1>1, Invariance, PTL

-----------------------------------------------------------------------------
(* Who is outside the mutex *)

\* Whoever is outside the mutex leaves the history to the process inside.
LEMMA OutsideMutex ==
    ASSUME IInv, NEW p \in Procs, Step(p), NEW q \in Procs \ {p}, pc[q] \in CriticalPcs
    PROVE  /\ pc[p] \notin CriticalPcs /\ ~Recovering(p)
           /\ ~RecoveryStep(p)
           /\ fs'.commits = fs.commits /\ fs'.intent = fs.intent /\ fs'.head = fs.head
<1>0. TypeOK /\ fs \in Directory
  BY DEF IInv, TypeOK
<1>1. CriticalPcs = {"lease", "check", "pending", "link", "commitsync", "headtemp", "rename",
                     "headsync", "unlink", "release"}
  BY DEF CriticalPcs, AppendPcs
<1>2. fs.alock.by = q /\ ~Recovering(p)
  BY <1>1 DEF IInv, MutexInv, AloneInv
<1>3. pc[p] \notin CriticalPcs
  BY <1>2 DEF IInv, MutexInv
<1>4. ~RecoveryStep(p)
  BY <1>0, <1>2, <1>3, RecoveryMutex DEF DropsMutex
<1>5. fs'.commits = fs.commits /\ fs'.intent = fs.intent /\ fs'.head = fs.head
  <2>1. CASE AppendStep(p)
    BY <1>1, <1>3, <2>1, AppendHistory DEF KeepsHistory, LinkCommit
  <2>2. CASE Kill(p)
    <3>1. PICK f \in CutShort(p) :
            fs' = IF f.alock.by = p THEN [f EXCEPT !.alock.live = FALSE] ELSE f
      BY <2>2 DEF Kill
    <3>2. f \in Directory /\ f.commits = fs.commits /\ f.intent = fs.intent /\ f.head = fs.head
      BY <1>0, <1>2, CutShortType, CutShortFrame DEF Recovering, PublishRecoveryPcs
    <3> QED
      BY <3>1, <3>2 DEF Directory
  <2> QED
    BY <1>4, <2>1, <2>2, OtherHistory DEF Step, KeepsHistory
<1> QED
  BY <1>2, <1>3, <1>4, <1>5

\* The only steps that add a commit.
LEMMA CommitsGrow ==
    ASSUME IInv, NEW p \in Procs, Step(p)
    PROVE  \/ fs'.commits = fs.commits
           \/ LinkCommit(p) /\ fs'.commits = fs.commits \cup {want[p]}
           \/ LinkAudit(p) /\ fs'.commits = fs.commits \cup {fs.intent.audit}
<1>0. TypeOK /\ fs \in Directory
  BY DEF IInv, TypeOK
<1>1. CASE LinkCommit(p)
  BY <1>0, <1>1 DEF LinkCommit, Moves, Directory
<1>2. CASE LinkAudit(p)
  BY <1>0, <1>2 DEF LinkAudit, Moves, Directory
<1>3. CASE WriteIntent(p) \/ ClearIntent(p)
  BY <1>0, <1>3 DEF WriteIntent, ClearIntent, MovesSynced, Directory
<1>4. CASE Kill(p)
  <2>1. PICK f \in CutShort(p) :
          fs' = IF f.alock.by = p THEN [f EXCEPT !.alock.live = FALSE] ELSE f
    BY <1>4 DEF Kill
  <2>2. f \in Directory /\ f.commits = fs.commits
    BY <1>0, CutShortType, CutShortFrame
  <2> QED
    BY <2>1, <2>2 DEF Directory
<1> QED
  BY <1>1, <1>2, <1>3, <1>4, AppendHistory, RecoveryHistory, OtherHistory DEF Step, KeepsHistory

\* What the call of p appends changes only when a call begins or ends.
Wants(p, c) ==
    \/ c = NoCommit
    \/ c.txn \in {"generation-pair.activation", "record", "recovery.lock", "recovery.terminal-lock"}
    \/ \E o \in Ops : BeginOperation(p, o) /\ c = NewCommit("operation.begin", o, "none", 0)
    \/ c.txn \in TerminalTxns /\ InProgress(fs, c.subj)

LEMMA WantChanges ==
    ASSUME IInv, NEW p \in Procs, Step(p)
    PROVE  want'[p] = want[p] \/ Wants(p, want'[p])
<1> USE DEF IInv, TypeOK, Moves, MovesSynced, Begins, Ends, Fails, Wants, TerminalTxns, NewCommit
<1>1. CASE Call(p)
  <2>1. CASE \E o \in Ops : BeginOperation(p, o)
    <3>1. PICK o \in Ops : BeginOperation(p, o)
      BY <2>1
    <3>2. want'[p] = NewCommit("operation.begin", o, "none", 0)
      BY <3>1 DEF BeginOperation
    <3> QED
      BY <3>1, <3>2
  <2>2. CASE Activate(p) \/ Record(p)
    BY <2>2 DEF Activate, Record
  <2>3. ASSUME NEW txn \in {"operation.no-effect", "operation.recovery-required"},
               EndOperation(p, txn)
        PROVE  Wants(p, want'[p])
    BY <2>3 DEF EndOperation
  <2> QED
    BY <1>1, <2>1, <2>2, <2>3 DEF Call
<1>2. CASE AppendStep(p)
  <2>1. CASE MakeOperationLock(p) \/ WriteOperationLease(p) \/ AcquireAppendLock(p)
             \/ WriteAppendLease(p) \/ CheckUnderMutex(p) \/ WritePending(p) \/ LinkCommit(p)
    BY <2>1 DEF MakeOperationLock, WriteOperationLease, AcquireAppendLock, WriteAppendLease,
                CheckUnderMutex, WritePending, LinkCommit
  <2>2. CASE SyncCommits(p) \/ WriteHeadTemp(p) \/ RenameHead(p) \/ SyncHead(p)
             \/ UnlinkPending(p) \/ ReleaseAppendLock(p) \/ ReturnFromAppend(p)
             \/ ReleaseOperationLock(p)
    BY <2>2 DEF SyncCommits, WriteHeadTemp, RenameHead, SyncHead, UnlinkPending,
                ReleaseAppendLock, ReturnFromAppend, ReleaseOperationLock
  <2> QED
    BY <1>2, <2>1, <2>2 DEF AppendStep
<1>3. CASE RecoveryCall(p)
  <2>1. CASE RecoverNoEffectAfterCrash(p)
    <3>1. CASE Reasons(fs, FALSE, fs.olock.op) = {}
      <4>1. want'[p] = NewCommit("recovery.operation-no-effect", fs.olock.op, "none", 0)
            /\ InProgress(fs, fs.olock.op)
        BY <2>1, <3>1 DEF RecoverNoEffectAfterCrash
      <4> QED
        BY <4>1
    <3>2. CASE Reasons(fs, FALSE, fs.olock.op) # {}
      BY <2>1, <3>2 DEF RecoverNoEffectAfterCrash
    <3> QED
      BY <3>1, <3>2
  <2>2. CASE ~RecoverNoEffectAfterCrash(p)
    BY <1>3, <2>2 DEF RecoveryCall, DiscardUnregisteredLock, ReconcileTerminalLock,
                      StartLockRecovery, RecoverInterruptedPublish
  <2> QED
    BY <2>1, <2>2
<1>4. CASE RecoveryStep(p)
  BY <1>4 DEF RecoveryStep, DiscardPreGenesisLock, DiscardPreGenesisPending, WriteIntent,
              RemoveAppendLock, RecoverySyncCommits, RecoveryHeadTemp, RecoveryRenameHead,
              RecoverySyncHead, RecoveryUnlinkPending, WriteAudit, LinkAudit, SyncAudit,
              UnlinkAuditPending, ClearIntent
<1>5. CASE Kill(p) \/ Exit(p) \/ IoError(p)
  BY <1>5 DEF Kill, Exit, IoError
<1> QED
  BY <1>1, <1>2, <1>3, <1>4, <1>5 DEF Step

-----------------------------------------------------------------------------
(* Operations start and end once *)

LEMMA SubjectPreserved ==
    ASSUME IInv, SubjectInv, NEW p \in Procs, Step(p)
    PROVE  SubjectInv'
<1>0. TypeOK /\ fs \in Directory /\ want[p] \in Commit
  BY DEF IInv, TypeOK
<1>1. fs'.intent.st = "full" => fs'.intent.audit.txn = "recovery.publish"
  <2>1. CASE fs'.intent = fs.intent
    BY <2>1 DEF SubjectInv
  <2>2. CASE WriteIntent(p)
    BY <1>0, <2>2 DEF WriteIntent, MovesSynced, Directory, FreshIntent
  <2>3. CASE ClearIntent(p)
    BY <1>0, <2>3 DEF ClearIntent, MovesSynced, Directory, NoIntent
  <2>4. CASE LinkCommit(p) \/ LinkAudit(p)
    BY <1>0, <2>1, <2>4 DEF LinkCommit, LinkAudit, Moves, Directory
  <2>5. CASE Kill(p)
    <3>1. PICK f \in CutShort(p) :
            fs' = IF f.alock.by = p THEN [f EXCEPT !.alock.live = FALSE] ELSE f
      BY <2>5 DEF Kill
    <3>2. f \in Directory /\ (f.intent = fs.intent \/ f.intent.st = "torn")
      BY <1>0, CutShortType, CutShortFrame
    <3>3. fs'.intent = f.intent
      BY <3>1, <3>2 DEF Directory
    <3> QED
      BY <2>1, <3>2, <3>3
  <2> QED
    BY <2>1, <2>2, <2>3, <2>4, <2>5, AppendHistory, RecoveryHistory, OtherHistory
    DEF Step, KeepsHistory
<1>2. /\ want'[p].txn \in {"operation.begin"} \cup TerminalTxns => want'[p].subj \in Ops
      /\ want'[p].txn # "recovery.publish"
  <2>1. CASE want'[p] = want[p]
    BY <2>1 DEF SubjectInv
  <2>2. CASE want'[p].txn \in TerminalTxns /\ InProgress(fs, want'[p].subj)
    <3>1. \E c \in fs.commits : c.txn = "operation.begin" /\ c.subj = want'[p].subj
      BY <2>2 DEF InProgress, Started, Anchored
    <3> QED
      BY <2>2, <3>1 DEF SubjectInv, TerminalTxns
  <2>3. CASE \E o \in Ops : want'[p] = NewCommit("operation.begin", o, "none", 0)
    BY <2>3 DEF NewCommit
  <2>4. CASE want'[p] = NoCommit
    BY <2>4 DEF NoCommit, TerminalTxns
  <2> QED
    BY <2>1, <2>2, <2>3, <2>4, WantChanges DEF Wants, TerminalTxns
<1>3. \A q \in Procs :
        /\ want'[q].txn \in {"operation.begin"} \cup TerminalTxns => want'[q].subj \in Ops
        /\ want'[q].txn # "recovery.publish"
  BY <1>0, <1>2, Frame DEF SubjectInv
<1>4. \A c \in fs'.commits : c.txn \in {"operation.begin"} \cup TerminalTxns => c.subj \in Ops
  <2>1. CASE LinkAudit(p)
    <3>1. fs.intent.st = "full"
      BY <2>1 DEF LinkAudit, IInv, RecoveryInv, IntentPcs, PublishRecoveryPcs, PregenesisPcs
    <3>2. fs'.commits = fs.commits \cup {fs.intent.audit}
      BY <1>0, <2>1 DEF LinkAudit, Moves, Directory
    <3> QED
      BY <3>1, <3>2 DEF SubjectInv, TerminalTxns
  <2> QED
    BY <2>1, CommitsGrow DEF SubjectInv
<1> QED
  BY <1>1, <1>3, <1>4 DEF SubjectInv

\* The check under the mutex has read every commit there is.
LEMMA CheckSeesAll ==
    ASSUME IInv, SubjectInv, NEW p \in Procs, CheckUnderMutex(p), AppendAllowed(p)
    PROVE  \A c \in fs.commits :
             /\ want[p].txn = "operation.begin" /\ c.txn = "operation.begin"
                  => c.subj # want[p].subj
             /\ want[p].txn \in TerminalTxns /\ c.txn \in TerminalTxns => c.subj # want[p].subj
             /\ c.txn = "operation.recovery-required" => want[p].txn = "recovery.terminal-lock"
<1>1. Unanchored(fs) = {}
  BY DEF AppendAllowed, AllowedReasons, ReasonsOf, Reasons, Reason
<1>2. Anchored(fs) = fs.commits
  BY <1>1 DEF Anchored, Unanchored, IInv, TypeOK, Directory, Commit
<1>3. Applies(fs, want[p])
  BY DEF AppendAllowed
<1>4. ASSUME want[p].txn = "operation.begin", NEW c \in fs.commits, c.txn = "operation.begin"
      PROVE  c.subj # want[p].subj
  <2>1. ~Started(fs, want[p].subj)
    BY <1>3, <1>4 DEF Applies, TerminalTxns
  <2> QED
    BY <1>2, <1>4, <2>1 DEF Started
<1>5. ASSUME want[p].txn \in TerminalTxns, NEW c \in fs.commits, c.txn \in TerminalTxns
      PROVE  c.subj # want[p].subj
  <2>1. ~Ended(fs, want[p].subj)
    BY <1>3, <1>5 DEF Applies, InProgress, TerminalTxns
  <2> QED
    BY <1>2, <1>5, <2>1 DEF Ended
<1>6. ASSUME want[p].txn # "recovery.terminal-lock", NEW c \in fs.commits,
             c.txn = "operation.recovery-required"
      PROVE  FALSE
  <2>1. c.subj \in Ops
    BY <1>6 DEF SubjectInv, TerminalTxns
  <2>2. Held(fs, c.subj)
    BY <1>2, <1>6 DEF Held
  <2>3. "operation_recovery_hold" \in ReasonsOf(p)
    BY <2>1, <2>2 DEF ReasonsOf, Reasons, Reason
  <2>4. "operation_recovery_hold" \notin AllowedReasons(want[p].txn)
    BY <1>6 DEF AllowedReasons
  <2> QED
    BY <2>3, <2>4 DEF AppendAllowed
<1> QED
  BY <1>4, <1>5, <1>6

LEMMA FirstPreserved ==
    ASSUME IInv, SubjectInv, FirstInv, NEW p \in Procs, Step(p)
    PROVE  FirstInv'
<1>0. TypeOK /\ fs \in Directory
  BY DEF IInv, TypeOK
<1> SUFFICES ASSUME NEW q \in Procs, pc'[q] \in {"pending", "link"}, NEW c \in fs'.commits
             PROVE  /\ want'[q].txn = "operation.begin" /\ c.txn = "operation.begin"
                         => c.subj # want'[q].subj
                    /\ want'[q].txn \in TerminalTxns /\ c.txn \in TerminalTxns
                         => c.subj # want'[q].subj
                    /\ c.txn = "operation.recovery-required"
                         => want'[q].txn = "recovery.terminal-lock"
  BY DEF FirstInv
<1>1. CASE q # p
  <2>1. pc[q] \in {"pending", "link"} /\ want'[q] = want[q]
    BY <1>0, <1>1, Frame
  <2>2. pc[q] \in CriticalPcs
    BY <2>1 DEF CriticalPcs, AppendPcs
  <2>3. fs'.commits = fs.commits
    BY <1>1, <2>2, OutsideMutex
  <2> QED
    BY <2>1, <2>3 DEF FirstInv
<1>2. CASE q = p
  <2>1. \/ CheckUnderMutex(p) /\ AppendAllowed(p)
        \/ WritePending(p)
    <3>1. ~RecoveryCall(p) /\ ~RecoveryStep(p)
      BY <1>0, <1>2, RecoveryCallNext, RecoveryNext DEF PublishRecoveryPcs, PregenesisPcs
    <3> QED
      BY <1>0, <1>2, <3>1, AppendNext DEF Step
  <2>2. CASE CheckUnderMutex(p) /\ AppendAllowed(p)
    <3>1. fs' = fs /\ want' = want
      BY <2>2 DEF CheckUnderMutex
    <3> QED
      BY <1>2, <2>2, <3>1, CheckSeesAll
  <2>3. CASE WritePending(p)
    <3>1. pc[p] = "pending" /\ want' = want /\ fs'.commits = fs.commits
      BY <1>0, <2>3 DEF WritePending, Moves, Directory
    <3> QED
      BY <1>2, <3>1 DEF FirstInv
  <2> QED
    BY <2>1, <2>2, <2>3
<1> QED
  BY <1>1, <1>2

LEMMA OncePreserved ==
    ASSUME IInv, SubjectInv, FirstInv, OneStartOneEnd, NEW p \in Procs, Step(p)
    PROVE  OneStartOneEnd'
<1>0. TypeOK /\ fs \in Directory /\ want[p] \in Commit
  BY DEF IInv, TypeOK
<1>1. CASE fs'.commits = fs.commits
  BY <1>1 DEF OneStartOneEnd
<1>2. CASE LinkCommit(p) /\ fs'.commits = fs.commits \cup {want[p]}
  <2>1. /\ pc[p] = "link" /\ want[p].seq = fs.head + 1 /\ Unanchored(fs) = {}
    BY <1>2 DEF LinkCommit, IInv, BaseInv
  <2>2. \A c \in fs.commits : ~(c.seq > want[p].seq)
    BY <1>0, <2>1 DEF Unanchored, Directory, Commit
  <2>3. \A c \in fs.commits :
          /\ c.txn = "operation.begin" /\ want[p].txn = "operation.begin" => c.subj # want[p].subj
          /\ c.txn \in TerminalTxns /\ want[p].txn \in TerminalTxns => c.subj # want[p].subj
          /\ c.txn = "operation.recovery-required" => want[p].txn = "recovery.terminal-lock"
    BY <2>1 DEF FirstInv
  <2>4. ~(want[p].seq > want[p].seq)
    BY <1>0 DEF Commit
  <2> QED
    BY <1>2, <2>2, <2>3, <2>4 DEF OneStartOneEnd
<1>3. CASE LinkAudit(p) /\ fs'.commits = fs.commits \cup {fs.intent.audit}
  <2>1. fs.intent.st = "full"
    BY <1>3 DEF LinkAudit, IInv, RecoveryInv, IntentPcs, PublishRecoveryPcs, PregenesisPcs
  <2>2. fs.intent.audit.txn = "recovery.publish"
    BY <2>1 DEF SubjectInv
  <2> QED
    BY <1>3, <2>2 DEF OneStartOneEnd, TerminalTxns
<1> QED
  BY <1>1, <1>2, <1>3, CommitsGrow

\* A power loss leaves a part of the commits and no call.
LEMMA PowerLeaves ==
    ASSUME IInv, PowerLoss
    PROVE  /\ fs'.commits \subseteq fs.commits
           /\ fs'.intent.st = "full" => fs'.intent = fs.intent
           /\ fs'.head \in {disk.head, fs.head}
           /\ \A p \in Procs : pc'[p] = "idle" /\ want'[p] = NoCommit
<1>1. PICK h \in {disk.head, fs.head}, a \in {disk.alock, fs.alock},
           l \in {disk.olock, fs.olock}, i \in {disk.intent, fs.intent},
           C \in SUBSET (fs.commits \ disk.commits),
           P \in SUBSET ((fs.pend \ disk.pend) \cup (disk.pend \ fs.pend)) :
        fs' = [head |-> h, commits |-> disk.commits \cup C,
               pend |-> (disk.pend \cap fs.pend) \cup P,
               alock |-> [a EXCEPT !.live = FALSE], olock |-> l, intent |-> i]
  BY DEF PowerLoss
<1>2. fs'.commits \subseteq fs.commits /\ fs'.intent \in {disk.intent, fs.intent}
      /\ fs'.head \in {disk.head, fs.head}
  BY <1>1 DEF IInv, DurableInv
<1>3. fs'.intent.st = "full" => fs'.intent = fs.intent
  BY <1>2 DEF IInv, DurableInv
<1> QED
  BY <1>2, <1>3 DEF PowerLoss

LEMMA PowerKeepsSubjects ==
    ASSUME IInv, SubjectInv, PowerLoss
    PROVE  SubjectInv' /\ FirstInv'
BY PowerLeaves DEF SubjectInv, FirstInv, NoCommit, TerminalTxns

LEMMA PowerKeepsOnce ==
    ASSUME IInv, OneStartOneEnd, PowerLoss
    PROVE  OneStartOneEnd'
BY PowerLeaves DEF OneStartOneEnd

OnceInv == IInv /\ SubjectInv /\ FirstInv /\ OneStartOneEnd

LEMMA OnceInvariance == Spec => []OnceInv
<1>1. Init => OnceInv
  <2> SUFFICES ASSUME Init PROVE OnceInv
    OBVIOUS
  <2>1. fs.commits = {} /\ fs.intent = NoIntent
        /\ \A p \in Procs : pc[p] = "idle" /\ want[p] = NoCommit
    BY DEF Init, EmptyDirectory
  <2> QED
    BY <2>1, InitInvariant DEF OnceInv, SubjectInv, FirstInv, OneStartOneEnd, NoIntent, NoCommit,
                               TerminalTxns
<1>2. OnceInv /\ [Next]_vars => OnceInv'
  <2> SUFFICES ASSUME OnceInv, [Next]_vars PROVE OnceInv'
    OBVIOUS
  <2>1. IInv'
    BY NextInvariant DEF OnceInv
  <2>2. CASE UNCHANGED vars
    BY <2>1, <2>2 DEF vars, OnceInv, SubjectInv, FirstInv, OneStartOneEnd
  <2>3. CASE \E p \in Procs : Step(p)
    BY <2>1, <2>3, SubjectPreserved, FirstPreserved, OncePreserved DEF OnceInv
  <2>4. CASE PowerLoss
    BY <2>1, <2>4, PowerKeepsSubjects, PowerKeepsOnce DEF OnceInv
  <2> QED
    BY <2>2, <2>3, <2>4 DEF Next
<1> QED
  BY <1>1, <1>2, PTL DEF Spec

\* A nonce starts one operation, an operation ends once, and after a
\* recovery-required end only audited recovery appends.
THEOREM OperationsStartAndEndOnce == Spec => []OneStartOneEnd
<1>1. OnceInv => OneStartOneEnd
  BY DEF OnceInv
<1> QED
  BY <1>1, OnceInvariance, PTL

-----------------------------------------------------------------------------
(* The history and its durable part *)

\* What most steps do to the history: nothing, but some of it may become
\* durable.
Quiet ==
    /\ fs'.commits = fs.commits /\ fs'.head = fs.head
    /\ disk.commits \subseteq disk'.commits
    /\ disk'.head \in {disk.head, fs.head}

LEMMA AppendQuiet ==
    ASSUME IInv, NEW p \in Procs, AppendStep(p), ~LinkCommit(p), ~RenameHead(p)
    PROVE  Quiet
<1> USE DEF IInv, TypeOK, Directory, DurableInv, Quiet, Moves, MovesSynced, Ends, Fails,
            RootSynced, CommitsSynced, PendingSynced
<1>1. CASE MakeOperationLock(p) \/ WriteOperationLease(p) \/ AcquireAppendLock(p)
  BY <1>1 DEF MakeOperationLock, WriteOperationLease, AcquireAppendLock
<1>2. CASE WriteAppendLease(p) \/ CheckUnderMutex(p) \/ WritePending(p)
  BY <1>2 DEF WriteAppendLease, CheckUnderMutex, WritePending
<1>3. CASE SyncCommits(p) \/ WriteHeadTemp(p)
  BY <1>3 DEF SyncCommits, WriteHeadTemp
<1>4. CASE SyncHead(p) \/ UnlinkPending(p) \/ ReturnFromAppend(p)
  BY <1>4 DEF SyncHead, UnlinkPending, ReturnFromAppend
<1>5. CASE ReleaseAppendLock(p)
  BY <1>5 DEF ReleaseAppendLock
<1>6. CASE ReleaseOperationLock(p)
  <2>1. /\ fs'.commits = fs.commits /\ fs'.head = fs.head
        /\ disk' = disk \/ disk' = RootSynced(disk, fs')
    BY <1>6 DEF ReleaseOperationLock
  <2> QED
    BY <2>1
<1> QED
  BY <1>1, <1>2, <1>3, <1>4, <1>5, <1>6 DEF AppendStep

LEMMA RecoveryQuiet ==
    ASSUME IInv, NEW p \in Procs, RecoveryStep(p), ~LinkAudit(p), ~RecoveryRenameHead(p)
    PROVE  Quiet
<1> USE DEF IInv, TypeOK, Directory, DurableInv, Quiet, Moves, MovesSynced,
            RootSynced, CommitsSynced, PendingSynced
<1>1. CASE DiscardPreGenesisLock(p) \/ DiscardPreGenesisPending(p) \/ RemoveAppendLock(p)
  BY <1>1 DEF DiscardPreGenesisLock, DiscardPreGenesisPending, RemoveAppendLock
<1>2. CASE RecoverySyncCommits(p) \/ RecoveryHeadTemp(p) \/ RecoverySyncHead(p)
  BY <1>2 DEF RecoverySyncCommits, RecoveryHeadTemp, RecoverySyncHead
<1>3. CASE RecoveryUnlinkPending(p)
  BY <1>3 DEF RecoveryUnlinkPending
<1>4. CASE WriteAudit(p)
  BY <1>4 DEF WriteAudit
<1>5. CASE SyncAudit(p) \/ UnlinkAuditPending(p)
  BY <1>5 DEF SyncAudit, UnlinkAuditPending
<1>6. CASE WriteIntent(p) \/ ClearIntent(p)
  BY <1>6 DEF WriteIntent, ClearIntent
<1> QED
  BY <1>1, <1>2, <1>3, <1>4, <1>5, <1>6 DEF RecoveryStep

LEMMA OtherQuiet ==
    ASSUME IInv, NEW p \in Procs, Call(p) \/ RecoveryCall(p) \/ Kill(p) \/ Exit(p) \/ IoError(p)
    PROVE  Quiet /\ disk' = disk
<1>1. disk' = disk
  BY DEF Call, Activate, Record, BeginOperation, EndOperation, RecoveryCall,
         DiscardUnregisteredLock, ReconcileTerminalLock, StartLockRecovery,
         RecoverNoEffectAfterCrash, RecoverInterruptedPublish, Kill, Exit, IoError
<1>2. CASE Kill(p)
  <2>1. PICK f \in CutShort(p) :
          fs' = IF f.alock.by = p THEN [f EXCEPT !.alock.live = FALSE] ELSE f
    BY <1>2 DEF Kill
  <2>2. f \in Directory /\ f.commits = fs.commits /\ f.head = fs.head
    BY CutShortType, CutShortFrame DEF IInv
  <2> QED
    BY <1>1, <2>1, <2>2 DEF Quiet, Directory
<1>3. CASE ~Kill(p)
  BY <1>1, <1>3, OtherHistory DEF Quiet, KeepsHistory
<1> QED
  BY <1>1, <1>2, <1>3

\* The four steps that change the history.
LEMMA LoudSteps ==
    ASSUME IInv, NEW p \in Procs, LinkCommit(p) \/ LinkAudit(p) \/ RenameHead(p) \/ RecoveryRenameHead(p)
    PROVE  /\ disk' = disk /\ acked' = acked /\ want' = want /\ ok' = ok /\ lease' = lease
           /\ fs'.intent = fs.intent /\ fs'.olock = fs.olock /\ fs'.alock = fs.alock
           /\ LinkCommit(p) => /\ pc[p] = "link" /\ pc'[p] = "commitsync" /\ fs'.head = fs.head
                               /\ fs'.commits = fs.commits \cup {want[p]}
           /\ LinkAudit(p) => /\ pc[p] = "r.link" /\ pc'[p] = "r.linksync" /\ fs'.head = fs.head
                              /\ fs'.commits = fs.commits \cup {fs.intent.audit}
           /\ RenameHead(p) => /\ pc[p] = "rename" /\ pc'[p] = "headsync" /\ fs'.head = want[p].seq
                               /\ fs'.commits = fs.commits
           /\ RecoveryRenameHead(p) =>
                /\ pc[p] = "r.rename" /\ pc'[p] = "r.headsync" /\ fs'.head = NextAnchor(fs).seq
                /\ fs'.commits = fs.commits
<1> USE DEF IInv, TypeOK, Directory, Moves
<1>1. CASE LinkCommit(p)
  BY <1>1 DEF LinkCommit, LinkAudit, RenameHead, RecoveryRenameHead
<1>2. CASE LinkAudit(p)
  BY <1>2 DEF LinkCommit, LinkAudit, RenameHead, RecoveryRenameHead
<1>3. CASE RenameHead(p)
  BY <1>3 DEF LinkCommit, LinkAudit, RenameHead, RecoveryRenameHead
<1>4. CASE RecoveryRenameHead(p)
  BY <1>4 DEF LinkCommit, LinkAudit, RenameHead, RecoveryRenameHead
<1> QED
  BY <1>1, <1>2, <1>3, <1>4

LEMMA QuietSteps ==
    ASSUME IInv, NEW p \in Procs, Step(p)
    PROVE  \/ Quiet
           \/ LinkCommit(p) \/ LinkAudit(p) \/ RenameHead(p) \/ RecoveryRenameHead(p)
BY AppendQuiet, RecoveryQuiet, OtherQuiet DEF Step

\* What the process that takes the step is at, and the intent it finds.
LEMMA IntentStep ==
    ASSUME IInv, NEW p \in Procs, pc[p] \in IntentPcs
    PROVE  fs.intent.st = "full" /\ Recovering(p)
BY DEF IInv, RecoveryInv, Recovering, IntentPcs

\* A commit numbered like the audit is the audit.
LEMMA AuditCommit ==
    ASSUME IInv, ChainInv, fs.intent.st = "full", fs.head = fs.intent.audit.seq,
           fs.intent.audit.seq > 0
    PROVE  fs.intent.audit \in disk.commits
<1>0. fs \in Directory /\ disk \in Directory /\ fs.intent.audit.seq \in Nat
  BY DEF IInv, TypeOK, Directory, Intent, Commit
<1>1. fs.intent.audit.seq \in 1 .. fs.head
  BY <1>0
<1>2. PICK c \in disk.commits : c.seq = fs.intent.audit.seq
  BY <1>1 DEF ChainInv
<1>3. c \in fs.commits
  BY DEF IInv, DurableInv
<1>4. c = fs.intent.audit
  BY <1>0, <1>2, <1>3 DEF IInv, AuditInv
<1> QED
  BY <1>2, <1>4

LEMMA ChainIsClose ==
    ASSUME TypeOK, ChainInv
    PROVE  \A c \in fs.commits : c.seq \in 1 .. (fs.head + 1)
BY DEF TypeOK, ChainInv, Directory, Commit

\* What a fresh intent announces.
LEMMA FreshIntentRight ==
    ASSUME IInv, \A c \in fs.commits : c.seq \in 1 .. (fs.head + 1), FreshAccepted(fs)
    PROVE  LET i == FreshIntent(fs)
           IN /\ i.st = "full" /\ fs.head <= i.audit.seq /\ i.audit.seq > 0
              /\ i.affected = NoCommit => i.audit.seq = fs.head + 1
              /\ i.affected # NoCommit =>
                   /\ i.audit.seq = i.affected.seq + 1
                   /\ i.affected.seq \in fs.head .. (fs.head + 1)
                   /\ i.affected \in fs.commits
              /\ i.audit \notin fs.commits
<1> DEFINE i == FreshIntent(fs)
           affected == IF Recovered(fs) = {} THEN NoCommit
                       ELSE CHOOSE e \in Recovered(fs) : TRUE
<1>0. fs \in Directory /\ disk \in Directory /\ fs.head \in Nat /\ disk.head \in Nat
      /\ affected \in Commit
  BY RecoveredInCommits, EmptyTypes DEF IInv, TypeOK, Directory, Commit
<1>1. i.st = "full" /\ i.affected = affected
      /\ i.audit.seq = (IF affected = NoCommit THEN fs.head ELSE affected.seq) + 1
  BY DEF FreshIntent
<1>2. affected # NoCommit => affected \in Recovered(fs)
  OBVIOUS
<1>3. affected # NoCommit => affected \in fs.commits /\ affected.seq \in fs.head .. (fs.head + 1)
  <2> SUFFICES ASSUME affected # NoCommit
               PROVE  affected \in fs.commits /\ affected.seq \in fs.head .. (fs.head + 1)
    OBVIOUS
  <2>1. affected \in fs.commits
    BY <1>0, <1>2, RecoveredInCommits
  <2>2. affected.seq <= fs.head + 1
    BY <1>0, <2>1
  <2>3. affected.seq >= fs.head
    BY <1>0, <1>2 DEF Recovered, Unanchored, Commit
  <2> QED
    BY <1>0, <2>1, <2>2, <2>3 DEF Commit
<1>4. i.audit \notin fs.commits
  <2> SUFFICES ASSUME i.audit \in fs.commits PROVE FALSE
    OBVIOUS
  <2>1. i.audit.seq < i.audit.seq
    BY FreshAuditIsNext DEF IInv
  <2>2. i.audit.seq \in Nat
    BY <1>0, <1>1 DEF Commit
  <2> QED
    BY <2>1, <2>2
<1> QED
  BY <1>0, <1>1, <1>3, <1>4 DEF Commit

\* Types that the arithmetic of the history needs.
LEMMA HistoryTypes ==
    ASSUME TypeOK
    PROVE  /\ fs \in Directory /\ disk \in Directory /\ fs.head \in Nat /\ disk.head \in Nat
           /\ \A c \in fs.commits \cup disk.commits : c \in Commit /\ c.seq \in Nat
           /\ \A p \in Procs : want[p] \in Commit /\ want[p].seq \in Nat
           /\ fs.intent.audit.seq \in Nat /\ fs.intent.affected.seq \in Nat
           /\ fs.intent.audit \in Commit /\ fs.intent.affected \in Commit
BY DEF TypeOK, Directory, Intent, Commit

\* An append inside the mutex is not a recovery of a publish: HEAD is durable.
LEMMA LinkedIsNext ==
    ASSUME IInv, HistoryInv, NEW p \in Procs, LinkCommit(p) \/ LinkAudit(p), Step(p)
    PROVE  \A c \in fs'.commits : c.seq \in 1 .. (disk.head + 1)
<1>0. TypeOK
  BY DEF IInv
<1>1. \A c \in fs.commits : c.seq \in 1 .. (disk.head + 1)
  BY DEF HistoryInv, ChainInv
<1>2. CASE LinkCommit(p)
  <2>1. pc[p] = "link" /\ fs'.commits = fs.commits \cup {want[p]}
    BY <1>2, LoudSteps
  <2>2. want[p].seq = fs.head + 1 /\ fs.intent.st = "none"
    BY <2>1 DEF IInv, BaseInv
  <2>3. disk.head = fs.head
    BY <2>1, <2>2 DEF HistoryInv, WriterInv, WriterAt
  <2>4. want[p].seq \in 1 .. (disk.head + 1)
    BY <1>0, <2>2, <2>3, HistoryTypes
  <2> QED
    BY <1>1, <2>1, <2>4
<1>3. CASE LinkAudit(p)
  <2>1. pc[p] = "r.link" /\ fs'.commits = fs.commits \cup {fs.intent.audit}
    BY <1>3, LoudSteps
  <2>2. fs.intent.st = "full" /\ fs.intent.affected.seq <= fs.head /\ fs.intent.audit.seq > 0
    BY <2>1, IntentStep DEF HistoryInv, ResumeInv, ResumeAt, IntentInv, IntentPcs, PublishRecoveryPcs,
                            PregenesisPcs
  <2>3. disk.head = fs.head
    <3>1. \A q \in Procs : pc[q] # "r.headsync"
      BY <2>1, Alone DEF Recovering, PublishRecoveryPcs
    <3> QED
      BY <2>2, <3>1 DEF HistoryInv, IntentInv
  <2>4. fs.intent.audit.seq <= disk.head + 1
    <3>1. CASE fs.intent.affected = NoCommit
      BY <2>2, <3>1 DEF HistoryInv, IntentInv
    <3>2. CASE fs.intent.affected # NoCommit
      <4>1. fs.intent.audit.seq = fs.intent.affected.seq + 1
        BY <2>2, <3>2 DEF HistoryInv, IntentInv
      <4> QED
        BY <1>0, <2>2, <2>3, <4>1, HistoryTypes
    <3> QED
      BY <3>1, <3>2
  <2>5. fs.intent.audit.seq \in 1 .. (disk.head + 1)
    BY <1>0, <2>2, <2>4, HistoryTypes
  <2> QED
    BY <1>1, <2>1, <2>5
<1> QED
  BY <1>2, <1>3

\* HEAD advances by one, to a durable commit.
LEMMA HeadAdvances ==
    ASSUME IInv, HistoryInv, NEW p \in Procs, RenameHead(p) \/ RecoveryRenameHead(p)
    PROVE  /\ fs'.head = fs.head + 1
           /\ \E c \in disk.commits : c.seq = fs.head + 1
<1>1. CASE RenameHead(p)
  <2>1. pc[p] = "rename" /\ fs'.head = want[p].seq
    BY <1>1, LoudSteps
  <2> QED
    BY <2>1 DEF HistoryInv, WriterInv, WriterAt
<1>2. CASE RecoveryRenameHead(p)
  <2>1. pc[p] = "r.rename" /\ fs'.head = NextAnchor(fs).seq
    BY <1>2, LoudSteps
  <2> QED
    BY <2>1 DEF HistoryInv, ResumeInv, ResumeAt
<1> QED
  BY <1>1, <1>2

\* What may have been acknowledged.
LEMMA AcknowledgedStep ==
    ASSUME IInv, HistoryInv, NEW p \in Procs, Step(p)
    PROVE  /\ acked' = acked \/ Quiet
           /\ acked' \subseteq acked \cup Anchored(disk')
<1>0. TypeOK /\ TypeOK'
  BY NextTypes DEF IInv, Next
<1>1. CASE ReturnFromAppend(p)
  <2>1. disk' = disk /\ pc[p] = "return" /\ acked' = (IF ok[p] THEN acked \cup {want[p]} ELSE acked)
    BY <1>1 DEF ReturnFromAppend
  <2>2. Quiet
    BY <1>1 DEF ReturnFromAppend, Quiet
  <2> QED
    BY <2>1, <2>2 DEF HistoryInv, WriterInv, WriterAt
<1>2. CASE ClearIntent(p)
  <2>1. pc[p] = "r.clear" /\ acked' = acked \cup {fs.intent.audit}
    BY <1>2 DEF ClearIntent
  <2>2. disk'.commits = disk.commits /\ disk'.head = fs.head
    BY <1>0, <1>2 DEF ClearIntent, MovesSynced, RootSynced, TypeOK, Directory
  <2>3. fs.intent.audit \in disk.commits /\ fs.intent.audit.seq = fs.head
    BY <2>1 DEF HistoryInv, ResumeInv, ResumeAt
  <2>4. fs.intent.audit.seq <= fs.head
    BY <1>0, <2>3, HistoryTypes
  <2>5. Quiet
    <3>1. ~LinkCommit(p) /\ ~LinkAudit(p) /\ ~RenameHead(p) /\ ~RecoveryRenameHead(p)
      BY <2>1 DEF LinkCommit, LinkAudit, RenameHead, RecoveryRenameHead
    <3> QED
      BY <3>1, QuietSteps
  <2> QED
    BY <2>1, <2>2, <2>3, <2>4, <2>5 DEF Anchored
<1>3. CASE ~ReturnFromAppend(p) /\ ~ClearIntent(p)
  <2>1. acked' = acked
    <3>1. CASE Call(p)
      BY <3>1 DEF Call, Activate, Record, BeginOperation, EndOperation
    <3>2. CASE AppendStep(p)
      BY <1>3, <3>2 DEF AppendStep, MakeOperationLock, WriteOperationLease, AcquireAppendLock,
                WriteAppendLease, CheckUnderMutex, WritePending, LinkCommit, SyncCommits,
                WriteHeadTemp, RenameHead, SyncHead, UnlinkPending, ReleaseAppendLock,
                ReleaseOperationLock
    <3>3. CASE RecoveryCall(p)
      BY <3>3 DEF RecoveryCall, DiscardUnregisteredLock, ReconcileTerminalLock, StartLockRecovery,
                  RecoverNoEffectAfterCrash, RecoverInterruptedPublish
    <3>4. CASE RecoveryStep(p)
      BY <1>3, <3>4 DEF RecoveryStep, DiscardPreGenesisLock, DiscardPreGenesisPending, WriteIntent,
              RemoveAppendLock, RecoverySyncCommits, RecoveryHeadTemp, RecoveryRenameHead,
              RecoverySyncHead, RecoveryUnlinkPending, WriteAudit, LinkAudit, SyncAudit,
              UnlinkAuditPending
    <3>5. CASE Kill(p) \/ Exit(p) \/ IoError(p)
      BY <3>5 DEF Kill, Exit, IoError
    <3> QED
      BY <3>1, <3>2, <3>3, <3>4, <3>5 DEF Step
  <2> QED
    BY <2>1
<1> QED
  BY <1>1, <1>2, <1>3

LEMMA ChainPreserved ==
    ASSUME IInv, HistoryInv, NEW p \in Procs, Step(p)
    PROVE  ChainInv'
<1>0. TypeOK /\ TypeOK'
  BY NextTypes DEF IInv, Next
<1>1. ChainInv
  BY DEF HistoryInv
<1>2. CASE Quiet
  <2>1. disk.head <= disk'.head /\ disk'.head <= fs.head
    BY <1>0, <1>1, <1>2, HistoryTypes DEF Quiet, ChainInv
  <2>2. \A c \in fs.commits : c.seq \in 1 .. (disk'.head + 1)
    BY <1>0, <1>1, <1>2, <2>1, HistoryTypes DEF Quiet, ChainInv
  <2>3. Anchored(disk) \subseteq Anchored(disk')
    BY <1>0, <1>2, <2>1, HistoryTypes DEF Anchored, Quiet
  <2>4. acked' \subseteq Anchored(disk')
    BY <1>1, <2>3, AcknowledgedStep DEF ChainInv
  <2> QED
    BY <1>1, <1>2, <2>1, <2>2, <2>4 DEF ChainInv, Quiet
<1>3. CASE LinkCommit(p) \/ LinkAudit(p)
  <2>1. disk' = disk /\ fs'.head = fs.head /\ acked' = acked
    BY <1>3, LoudSteps
  <2> QED
    BY <1>1, <1>3, <2>1, LinkedIsNext DEF ChainInv
<1>4. CASE RenameHead(p) \/ RecoveryRenameHead(p)
  <2>1. disk' = disk /\ fs'.commits = fs.commits /\ acked' = acked
    BY <1>4, LoudSteps
  <2>2. fs'.head = fs.head + 1 /\ \E c \in disk.commits : c.seq = fs.head + 1
    BY <1>4, HeadAdvances
  <2>3. \A n \in 1 .. fs'.head : \E c \in disk.commits : c.seq = n
    <3> SUFFICES ASSUME NEW n \in 1 .. fs'.head PROVE \E c \in disk.commits : c.seq = n
      OBVIOUS
    <3>1. n \in 1 .. fs.head \/ n = fs.head + 1
      BY <1>0, <2>2, HistoryTypes
    <3> QED
      BY <1>1, <2>2, <3>1 DEF ChainInv
  <2>4. disk.head <= fs'.head
    BY <1>0, <1>1, <2>2, HistoryTypes DEF ChainInv
  <2> QED
    BY <1>1, <2>1, <2>3, <2>4 DEF ChainInv
<1> QED
  BY <1>2, <1>3, <1>4, QuietSteps

\* What is durable stays durable.
LEMMA DiskGrows ==
    ASSUME IInv, HistoryInv, NEW p \in Procs, Step(p)
    PROVE  /\ disk.commits \subseteq disk'.commits /\ disk.head <= disk'.head
           /\ Anchored(disk) \subseteq Anchored(disk')
           /\ disk'.head = disk.head \/ (Quiet /\ disk'.head = fs.head)
<1>0. TypeOK /\ TypeOK'
  BY NextTypes DEF IInv, Next
<1>1. disk.commits \subseteq disk'.commits /\ disk.head <= disk'.head
      /\ (disk'.head = disk.head \/ (Quiet /\ disk'.head = fs.head))
  <2>1. CASE Quiet
    BY <1>0, <2>1, HistoryTypes DEF Quiet, HistoryInv, ChainInv
  <2>2. CASE ~Quiet
    <3>1. disk' = disk
      BY <2>2, QuietSteps, LoudSteps
    <3> QED
      BY <1>0, <3>1, HistoryTypes
  <2> QED
    BY <2>1, <2>2
<1>2. Anchored(disk) \subseteq Anchored(disk')
  BY <1>0, <1>1, HistoryTypes DEF Anchored
<1> QED
  BY <1>1, <1>2

LEMMA WriterAppends ==
    ASSUME IInv, HistoryInv, NEW p \in Procs, AppendStep(p)
    PROVE  WriterAt(p)'
<1>0. TypeOK /\ fs \in Directory /\ disk \in Directory /\ fs.head \in Nat /\ disk.head \in Nat
  BY HistoryTypes DEF IInv
<1>1. WriterAt(p)
  BY DEF HistoryInv, WriterInv
<1> USE DEF WriterAt
<1>2. CASE MakeOperationLock(p) \/ WriteOperationLease(p)
  BY <1>0, <1>2 DEF TypeOK, MakeOperationLock, WriteOperationLease, Moves, MovesSynced, Ends
<1>3. CASE AcquireAppendLock(p)
  BY <1>0, <1>3 DEF TypeOK, AcquireAppendLock, Moves, Fails
<1>4. CASE WriteAppendLease(p)
  <2>1. pc'[p] = "check" /\ disk'.head = fs'.head
    BY <1>0, <1>4 DEF TypeOK, WriteAppendLease, MovesSynced, RootSynced, Directory
  <2> QED
    BY <2>1
<1>5. CASE CheckUnderMutex(p)
  <2>1. pc[p] = "check" /\ fs' = fs /\ disk' = disk
    BY <1>5 DEF CheckUnderMutex
  <2>2. pc'[p] = "pending" \/ (pc'[p] = "release" /\ ~ok'[p])
    BY <1>0, <1>5 DEF TypeOK, CheckUnderMutex, Fails
  <2> QED
    BY <1>1, <2>1, <2>2
<1>6. CASE WritePending(p)
  <2>1. pc[p] = "pending" /\ pc'[p] = "link" /\ disk' = disk
        /\ fs'.head = fs.head /\ fs'.intent = fs.intent
    BY <1>0, <1>6 DEF TypeOK, WritePending, Moves, Directory
  <2> QED
    BY <1>1, <2>1
<1>7. CASE LinkCommit(p)
  <2>1. /\ pc[p] = "link" /\ pc'[p] = "commitsync" /\ fs'.head = fs.head /\ disk' = disk
        /\ fs'.commits = fs.commits \cup {want[p]} /\ want' = want /\ fs'.intent = fs.intent
    BY <1>7, LoudSteps
  <2>2. want[p].seq = fs.head + 1 /\ fs.intent.st = "none"
    BY <2>1 DEF IInv, BaseInv
  <2> QED
    BY <1>1, <2>1, <2>2
<1>8. CASE SyncCommits(p)
  <2>1. /\ pc[p] = "commitsync" /\ pc'[p] = "headtemp" /\ fs' = fs /\ want' = want
        /\ disk'.head = disk.head /\ disk'.commits = fs.commits
    BY <1>0, <1>8 DEF TypeOK, SyncCommits, MovesSynced, CommitsSynced, Directory
  <2> QED
    BY <1>1, <2>1
<1>9. CASE WriteHeadTemp(p)
  <2>1. /\ pc[p] = "headtemp" /\ pc'[p] = "rename" /\ want' = want
        /\ fs'.head = fs.head /\ fs'.commits = fs.commits /\ fs'.intent = fs.intent
        /\ disk'.head = disk.head /\ disk'.commits = disk.commits
    BY <1>0, <1>9 DEF TypeOK, WriteHeadTemp, MovesSynced, PendingSynced, Directory
  <2> QED
    BY <1>1, <2>1
<1>10. CASE RenameHead(p)
  <2>1. /\ pc[p] = "rename" /\ pc'[p] = "headsync" /\ fs'.head = want[p].seq /\ disk' = disk
        /\ fs'.commits = fs.commits /\ want' = want /\ fs'.intent = fs.intent
    BY <1>10, LoudSteps
  <2> QED
    BY <1>1, <2>1
<1>11. CASE SyncHead(p)
  <2>1. /\ pc[p] = "headsync" /\ pc'[p] = "unlink" /\ want' = want
        /\ disk'.head = fs.head /\ disk'.commits = disk.commits
    BY <1>0, <1>11 DEF TypeOK, SyncHead, MovesSynced, RootSynced, Directory
  <2>2. want[p] \in disk.commits /\ want[p].seq = fs.head
    BY <1>1, <2>1
  <2> QED
    BY <1>0, <2>1, <2>2 DEF Anchored
<1>12. CASE UnlinkPending(p)
  <2>1. /\ pc[p] = "unlink" /\ pc'[p] = "release" /\ want' = want /\ ok' = ok
        /\ disk'.head = disk.head /\ disk'.commits = disk.commits
    BY <1>0, <1>12 DEF TypeOK, UnlinkPending, MovesSynced, PendingSynced, Directory
  <2> QED
    BY <1>1, <2>1 DEF Anchored
<1>13. CASE ReleaseAppendLock(p)
  <2>1. /\ pc[p] = "release" /\ pc'[p] \in {"release", "return"} /\ want' = want /\ ok' = ok
    BY <1>0, <1>13 DEF TypeOK, ReleaseAppendLock, Moves, MovesSynced
  <2>2. Anchored(disk) \subseteq Anchored(disk')
    BY <1>13, DiskGrows DEF Step, AppendStep
  <2> QED
    BY <1>1, <2>1, <2>2
<1>14. CASE ReturnFromAppend(p) \/ ReleaseOperationLock(p)
  BY <1>0, <1>14 DEF TypeOK, ReturnFromAppend, ReleaseOperationLock, Moves, Ends
<1> QED
  BY <1>2, <1>3, <1>4, <1>5, <1>6, <1>7, <1>8, <1>9, <1>10, <1>11, <1>12, <1>13, <1>14
  DEF AppendStep

LEMMA WriterPreserved ==
    ASSUME IInv, HistoryInv, NEW p \in Procs, Step(p)
    PROVE  WriterInv'
<1>0. TypeOK /\ fs \in Directory /\ disk \in Directory /\ fs.head \in Nat /\ disk.head \in Nat
  BY HistoryTypes DEF IInv
<1> SUFFICES ASSUME NEW q \in Procs PROVE WriterAt(q)'
  BY DEF WriterInv
<1>1. WriterAt(q)
  BY DEF HistoryInv, WriterInv
<1>2. CASE q # p
  <2>1. pc'[q] = pc[q] /\ want'[q] = want[q] /\ ok'[q] = ok[q]
    BY <1>0, <1>2, Frame
  <2>2. CASE pc[q] \in CriticalPcs
    <3>1. fs'.commits = fs.commits /\ fs'.intent = fs.intent /\ fs'.head = fs.head
      BY <1>2, <2>2, OutsideMutex
    <3>2. disk.commits \subseteq disk'.commits /\ Anchored(disk) \subseteq Anchored(disk')
          /\ (disk'.head = disk.head \/ disk'.head = fs.head)
      BY DiskGrows
    <3> QED
      BY <1>1, <2>1, <3>1, <3>2 DEF WriterAt
  <2>3. CASE pc[q] \notin CriticalPcs
    BY <1>1, <2>1, <2>3, DiskGrows DEF WriterAt, CriticalPcs, AppendPcs
  <2> QED
    BY <2>2, <2>3
<1>3. CASE q = p
  <2>1. CASE AppendStep(p)
    BY <1>3, <2>1, WriterAppends
  <2>2. CASE Call(p)
    BY <1>0, <1>3, <2>2 DEF Call, Activate, Record, BeginOperation, EndOperation, Begins, TypeOK,
                            WriterAt
  <2>3. CASE RecoveryCall(p)
    BY <1>0, <1>3, <2>3 DEF RecoveryCall, DiscardUnregisteredLock, ReconcileTerminalLock,
         StartLockRecovery, RecoverNoEffectAfterCrash, RecoverInterruptedPublish, Quiesced, Begins,
         TypeOK, WriterAt
  <2>4. CASE RecoveryStep(p)
    <3>1. pc'[p] \in PublishRecoveryPcs \cup {"idle"}
      BY <1>0, <2>4, RecoveryNext
    <3> QED
      BY <1>3, <3>1 DEF WriterAt, PublishRecoveryPcs, PregenesisPcs
  <2>5. CASE Kill(p) \/ Exit(p)
    BY <1>0, <1>3, <2>5 DEF Kill, Exit, Ends, TypeOK, WriterAt
  <2>6. CASE IoError(p)
    <3>1. pc'[p] = "idle" \/ (pc'[p] \in {"return", "release"} /\ ~ok'[p])
      BY <1>0, <2>6 DEF IoError, Ends, Fails, TypeOK
    <3> QED
      BY <1>3, <3>1 DEF WriterAt
  <2> QED
    BY <2>1, <2>2, <2>3, <2>4, <2>5, <2>6 DEF Step
<1> QED
  BY <1>2, <1>3

\* The two steps no kill strikes are taken to their end.
LEMMA SyncIsTaken ==
    ASSUME DurableRecovery, IInv, NEW p \in Procs, Step(p)
    PROVE  /\ pc[p] = "r.linksync" => SyncAudit(p)
           /\ pc[p] = "r.headsync" => RecoverySyncHead(p)
<1> SUFFICES ASSUME pc[p] \in {"r.linksync", "r.headsync"}
             PROVE  /\ pc[p] = "r.linksync" => SyncAudit(p)
                    /\ pc[p] = "r.headsync" => RecoverySyncHead(p)
  OBVIOUS
<1>1. ~Quiesced
  BY DEF Quiesced
<1>2. ~Call(p) /\ ~RecoveryCall(p)
  BY <1>1 DEF Call, Activate, Record, BeginOperation, EndOperation, Writable, RecoveryCall,
              DiscardUnregisteredLock, ReconcileTerminalLock, RecoverNoEffectAfterCrash,
              RecoverInterruptedPublish
<1>3. ~AppendStep(p)
  BY DEF AppendStep, MakeOperationLock, WriteOperationLease, AcquireAppendLock,
              WriteAppendLease, CheckUnderMutex, WritePending, LinkCommit, SyncCommits,
              WriteHeadTemp, RenameHead, SyncHead, UnlinkPending, ReleaseAppendLock,
              ReturnFromAppend, ReleaseOperationLock
<1>4. ~Kill(p) /\ ~Exit(p) /\ ~IoError(p)
  BY DEF Kill, Exit, IoError, DurableRecovery, PublishRecoveryPcs
<1>5. RecoveryStep(p)
  BY <1>2, <1>3, <1>4 DEF Step
<1> QED
  BY <1>5 DEF RecoveryStep, DiscardPreGenesisLock, DiscardPreGenesisPending, WriteIntent,
              RemoveAppendLock, RecoverySyncCommits, RecoveryHeadTemp, RecoveryRenameHead,
              RecoverySyncHead, RecoveryUnlinkPending, WriteAudit, LinkAudit, SyncAudit,
              UnlinkAuditPending, ClearIntent

LEMMA IntentKept ==
    ASSUME IInv, NEW p \in Procs, Step(p), fs'.intent.st = "full"
    PROVE  WriteIntent(p) \/ (fs'.intent = fs.intent /\ fs.intent.st = "full")
<1>0. TypeOK /\ fs \in Directory
  BY DEF IInv, TypeOK
<1>1. CASE ClearIntent(p)
  BY <1>0, <1>1 DEF ClearIntent, MovesSynced, Directory, NoIntent
<1>2. CASE Kill(p)
  <2>1. PICK f \in CutShort(p) :
          fs' = IF f.alock.by = p THEN [f EXCEPT !.alock.live = FALSE] ELSE f
    BY <1>2 DEF Kill
  <2>2. f \in Directory /\ (f.intent = fs.intent \/ f.intent.st = "torn")
    BY <1>0, CutShortType, CutShortFrame
  <2>3. fs'.intent = f.intent
    BY <2>1, <2>2 DEF Directory
  <2> QED
    BY <2>2, <2>3
<1>3. CASE LinkCommit(p) \/ LinkAudit(p)
  BY <1>3, LoudSteps
<1> QED
  BY <1>1, <1>2, <1>3, AppendHistory, RecoveryHistory, OtherHistory DEF Step, KeepsHistory

LEMMA IntentPreserved ==
    ASSUME DurableRecovery, IInv, HistoryInv, NEW p \in Procs, Step(p)
    PROVE  IntentInv'
<1>0. TypeOK /\ TypeOK'
  BY NextTypes DEF IInv, Next
<1> SUFFICES ASSUME fs'.intent.st = "full" PROVE IntentInv'
  BY DEF IntentInv
<1>1. CASE WriteIntent(p)
  <2>1. /\ fs'.intent = FreshIntent(fs) /\ fs'.head = fs.head /\ fs'.commits = fs.commits
        /\ disk'.head = fs.head
    BY <1>0, <1>1 DEF WriteIntent, MovesSynced, RootSynced, TypeOK, Directory
  <2>2. FreshAccepted(fs)
    BY <1>1 DEF WriteIntent, IInv, RecoveryInv
  <2>3. ChainInv
    BY DEF HistoryInv
  <2>4. LET i == fs'.intent
        IN /\ i.st = "full" /\ fs.head <= i.audit.seq /\ i.audit.seq > 0
           /\ i.affected = NoCommit => i.audit.seq = fs.head + 1
           /\ i.affected # NoCommit =>
                   /\ i.audit.seq = i.affected.seq + 1
                   /\ i.affected.seq \in fs.head .. (fs.head + 1)
                   /\ i.affected \in fs.commits
           /\ i.audit \notin fs.commits
    BY <1>0, <2>1, <2>2, <2>3, ChainIsClose, FreshIntentRight
  <2>5. fs.head \in Nat
    BY <1>0, HistoryTypes
  <2> QED
    BY <2>1, <2>4, <2>5 DEF IntentInv
<1>2. CASE ~WriteIntent(p)
  <2>1. fs'.intent = fs.intent /\ fs.intent.st = "full"
    BY <1>2, IntentKept
  <2>2. IntentInv
    BY DEF HistoryInv
  <2>3. ~LinkCommit(p) /\ ~RenameHead(p)
    <3>1. ~LinkCommit(p)
      BY <2>1 DEF LinkCommit, IInv, BaseInv
    <3>2. ~RenameHead(p)
      BY <2>1 DEF RenameHead, HistoryInv, WriterInv, WriterAt
    <3> QED
      BY <3>1, <3>2
  <2>4. \A q \in Procs : Recovering(q) => q = p
    BY Alone
  <2>5. disk.head <= disk'.head /\ disk.commits \subseteq disk'.commits
        /\ (disk'.head = disk.head \/ (Quiet /\ disk'.head = fs.head))
    BY DiskGrows
  <2>6. fs'.head <= fs'.intent.audit.seq
    <3>1. CASE RecoveryRenameHead(p)
      <4>1. fs'.head = NextAnchor(fs).seq
        BY <3>1, LoudSteps
      <4>2. fs.head < fs.intent.affected.seq => fs.intent.affected # NoCommit
        BY <1>0, HistoryTypes DEF NoCommit
      <4>3. fs.head < fs.intent.affected.seq => fs.intent.affected.seq <= fs.intent.audit.seq
        BY <1>0, <2>1, <2>2, <4>2, HistoryTypes DEF IntentInv
      <4> QED
        BY <1>0, <2>1, <4>1, <4>3, HistoryTypes DEF NextAnchor
    <3>2. CASE ~RecoveryRenameHead(p)
      <4>1. fs'.head = fs.head
        BY <2>3, <3>2, QuietSteps, LoudSteps DEF Quiet
      <4> QED
        BY <2>1, <2>2, <4>1 DEF IntentInv
    <3> QED
      BY <3>1, <3>2
  <2>7. /\ fs'.intent.audit.seq > 0
        /\ fs'.intent.affected = NoCommit => fs'.intent.audit.seq <= disk'.head + 1
        /\ fs'.intent.affected # NoCommit =>
             /\ fs'.intent.audit.seq = fs'.intent.affected.seq + 1
             /\ fs'.intent.affected.seq <= disk'.head + 1
    <3>1. disk.head \in Nat /\ disk'.head \in Nat
      BY <1>0 DEF TypeOK, Directory
    <3> QED
      BY <1>0, <2>1, <2>2, <2>5, <3>1, HistoryTypes DEF IntentInv
  <2>8. ASSUME fs'.intent.audit \in fs'.commits
        PROVE  fs'.intent.audit \in disk'.commits \/ \E q \in Procs : pc'[q] = "r.linksync"
    <3>1. CASE LinkAudit(p)
      BY <3>1, LoudSteps
    <3>2. CASE ~LinkAudit(p)
      <4>1. fs'.commits = fs.commits
        BY <2>3, <3>2, CommitsGrow
      <4>2. CASE fs.intent.audit \in disk.commits
        BY <2>1, <2>5, <4>2
      <4>3. CASE fs.intent.audit \notin disk.commits
        <5>1. PICK q \in Procs : pc[q] = "r.linksync"
          BY <2>1, <2>2, <2>8, <4>1, <4>3 DEF IntentInv
        <5>2. q = p
          BY <2>4, <5>1 DEF Recovering, PublishRecoveryPcs
        <5>3. SyncAudit(p)
          BY <5>1, <5>2, SyncIsTaken
        <5>4. disk'.commits = fs.commits
          BY <1>0, <5>3 DEF SyncAudit, MovesSynced, CommitsSynced, TypeOK, Directory
        <5> QED
          BY <2>8, <4>1, <5>4
      <4> QED
        BY <4>2, <4>3
    <3> QED
      BY <3>1, <3>2
  <2>9. disk'.head = fs'.head \/ \E q \in Procs : pc'[q] = "r.headsync"
    <3>1. CASE RecoveryRenameHead(p)
      BY <3>1, LoudSteps
    <3>2. CASE ~RecoveryRenameHead(p)
      <4>1. fs'.head = fs.head
        BY <2>3, <3>2, QuietSteps, LoudSteps DEF Quiet
      <4>2. CASE disk.head = fs.head
        BY <2>5, <4>1, <4>2
      <4>3. CASE disk.head # fs.head
        <5>1. PICK q \in Procs : pc[q] = "r.headsync"
          BY <2>1, <2>2, <4>3 DEF IntentInv
        <5>2. q = p
          BY <2>4, <5>1 DEF Recovering, PublishRecoveryPcs
        <5>3. RecoverySyncHead(p)
          BY <5>1, <5>2, SyncIsTaken
        <5>4. disk'.head = fs.head
          BY <1>0, <5>3 DEF RecoverySyncHead, MovesSynced, RootSynced, TypeOK, Directory
        <5> QED
          BY <4>1, <5>4
      <4> QED
        BY <4>2, <4>3
    <3> QED
      BY <3>1, <3>2
  <2> QED
    BY <2>6, <2>7, <2>8, <2>9 DEF IntentInv
<1> QED
  BY <1>1, <1>2

-----------------------------------------------------------------------------
(* How a publish recovery comes to its end *)

LEMMA ResumeSteps ==
    ASSUME DurableRecovery, IInv, HistoryInv, NEW p \in Procs, RecoveryStep(p)
    PROVE  ResumeAt(p)'
<1>0. TypeOK /\ fs \in Directory /\ disk \in Directory /\ fs.head \in Nat
      /\ fs.intent.audit.seq \in Nat /\ fs.intent.affected.seq \in Nat /\ disk.head \in Nat
  BY HistoryTypes DEF IInv
<1>1. ResumeAt(p) /\ ChainInv
  BY DEF HistoryInv, ResumeInv
<1>2. fs.head < fs.intent.affected.seq => fs.intent.affected # NoCommit
  BY <1>0 DEF NoCommit
<1>3. Step(p) /\ \A q \in Procs : pc[q] \in {"r.linksync", "r.headsync"} => q = p
  BY Alone DEF Step, Recovering, PublishRecoveryPcs
<1>4. pc[p] \in IntentPcs => fs.intent.st = "full" /\ IntentInv
  BY IntentStep DEF HistoryInv
<1> USE DEF ResumeAt, IntentPcs, PublishRecoveryPcs, PregenesisPcs
<1>5. CASE DiscardPreGenesisLock(p) \/ DiscardPreGenesisPending(p)
  BY <1>0, <1>5 DEF TypeOK, DiscardPreGenesisLock, DiscardPreGenesisPending, Moves, MovesSynced
<1>6. CASE WriteIntent(p)
  <2>1. pc'[p] = "r.lock" /\ fs'.intent = FreshIntent(fs) /\ fs'.commits = fs.commits
    BY <1>0, <1>6 DEF TypeOK, WriteIntent, MovesSynced, Directory
  <2>2. FreshAccepted(fs)
    BY <1>6 DEF WriteIntent, IInv, RecoveryInv
  <2>3. FreshIntent(fs).affected # NoCommit => FreshIntent(fs).affected \in fs.commits
    BY <1>0, <1>1, <2>2, ChainIsClose, FreshIntentRight
  <2> QED
    BY <2>1, <2>3
<1>7. CASE RemoveAppendLock(p)
  <2>1. /\ pc[p] \in {"r.lock", "r.rmdir"} /\ pc'[p] \in {"r.rmdir", AfterLockCleanup}
        /\ fs'.intent = fs.intent /\ fs'.head = fs.head /\ fs'.commits = fs.commits
    BY <1>0, <1>7 DEF TypeOK, RemoveAppendLock, Moves, MovesSynced, Directory
  <2>2. AfterLockCleanup = (IF fs.head < fs.intent.affected.seq THEN "r.commitsync" ELSE "r.unlink")
    BY DEF AfterLockCleanup
  <2>3. ~(fs.head < fs.intent.affected.seq) => fs.intent.affected.seq <= fs.head
    BY <1>0
  <2> QED
    BY <1>1, <2>1, <2>2, <2>3
<1>8. CASE RecoverySyncCommits(p)
  <2>1. /\ pc[p] = "r.commitsync" /\ pc'[p] = "r.temp" /\ fs' = fs /\ disk'.commits = fs.commits
    BY <1>0, <1>8 DEF TypeOK, RecoverySyncCommits, MovesSynced, CommitsSynced, Directory
  <2>2. fs.head < fs.intent.affected.seq /\ fs.intent.affected \in fs.commits
    BY <1>1, <1>2, <2>1
  <2>3. fs.intent.affected.seq = fs.head + 1
    <3>1. fs.intent.affected.seq <= disk.head + 1 /\ disk.head <= fs.head
      BY <1>1, <2>2 DEF ChainInv
    <3> QED
      BY <1>0, <2>2, <3>1
  <2> QED
    BY <1>1, <2>1, <2>2, <2>3 DEF NextAnchor
<1>9. CASE RecoveryHeadTemp(p)
  <2>1. /\ pc[p] = "r.temp" /\ pc'[p] = "r.rename" /\ fs'.head = fs.head
        /\ fs'.intent = fs.intent /\ fs'.commits = fs.commits /\ disk'.commits = disk.commits
    BY <1>0, <1>9 DEF TypeOK, RecoveryHeadTemp, MovesSynced, PendingSynced, Directory
  <2> QED
    BY <1>1, <2>1 DEF NextAnchor
<1>10. CASE RecoveryRenameHead(p)
  <2>1. /\ pc[p] = "r.rename" /\ pc'[p] = "r.headsync" /\ fs'.head = NextAnchor(fs).seq
        /\ fs'.intent = fs.intent /\ fs'.commits = fs.commits /\ disk' = disk
    BY <1>10, LoudSteps
  <2>2. fs'.head = fs.head + 1
    BY <1>1, <2>1
  <2>3. fs'.intent.affected.seq <= fs'.head
    BY <1>0, <2>1, <2>2 DEF NextAnchor
  <2> QED
    BY <1>1, <2>1, <2>3
<1>11. CASE RecoverySyncHead(p)
  <2>1. /\ pc[p] = "r.headsync" /\ fs' = fs /\ disk'.commits = disk.commits
        /\ pc'[p] = (IF fs.head = fs.intent.audit.seq THEN "r.done" ELSE "r.unlink")
    BY <1>0, <1>11 DEF TypeOK, RecoverySyncHead, MovesSynced, RootSynced, Directory
  <2>2. fs.head = fs.intent.audit.seq => fs.intent.audit \in disk.commits
    BY <1>1, <1>4, <2>1, AuditCommit DEF IntentInv
  <2> QED
    BY <1>1, <2>1, <2>2
<1>12. CASE RecoveryUnlinkPending(p)
  <2>1. /\ pc[p] = "r.unlink" /\ pc'[p] \in {"r.unlink", "r.audit"} /\ fs'.head = fs.head
        /\ fs'.intent = fs.intent /\ fs'.commits = fs.commits
    BY <1>0, <1>12 DEF TypeOK, RecoveryUnlinkPending, Moves, MovesSynced, PendingSynced, Directory
  <2> QED
    BY <1>1, <2>1
<1>13. CASE WriteAudit(p)
  <2>1. /\ pc[p] = "r.audit" /\ fs'.head = fs.head /\ fs'.intent = fs.intent
        /\ fs'.commits = fs.commits /\ disk'.commits = disk.commits
        /\ pc'[p] = (IF fs.intent.audit \in fs.commits
                     THEN (IF fs.head < fs.intent.audit.seq THEN "r.temp" ELSE "r.done")
                     ELSE "r.link")
    BY <1>0, <1>13 DEF TypeOK, WriteAudit, Moves, MovesSynced, PendingSynced, Directory
  <2>2. fs.intent.affected.seq <= fs.head /\ fs.head <= fs.intent.audit.seq
        /\ fs.intent.audit.seq > 0
    BY <1>1, <1>4, <2>1 DEF IntentInv
  <2>3. fs.intent.audit \in fs.commits => fs.intent.audit \in disk.commits
    BY <1>3, <1>4, <2>1 DEF IntentInv
  <2>4. fs.intent.audit \notin fs.commits => fs.head < fs.intent.audit.seq
    <3> SUFFICES ASSUME fs.head = fs.intent.audit.seq PROVE fs.intent.audit \in fs.commits
      BY <1>0, <2>2
    <3> QED
      BY <1>1, <1>4, <2>1, <2>2, AuditCommit DEF IInv, DurableInv
  <2>5. ASSUME fs.intent.audit \in fs.commits, fs.head < fs.intent.audit.seq
        PROVE  NextAnchor(fs) = fs.intent.audit /\ fs.intent.audit.seq = fs.head + 1
    <3>1. fs.intent.audit.seq <= disk.head + 1 /\ disk.head <= fs.head
      BY <1>1, <2>5 DEF ChainInv
    <3> QED
      BY <1>0, <2>2, <2>5, <3>1 DEF NextAnchor
  <2>6. CASE fs.intent.audit \in fs.commits /\ fs.head < fs.intent.audit.seq
    <3>1. NextAnchor(fs)' = NextAnchor(fs) /\ pc'[p] = "r.temp"
      BY <2>1, <2>6 DEF NextAnchor
    <3>2. NextAnchor(fs) \in disk.commits /\ NextAnchor(fs).seq = fs.head + 1
      BY <2>3, <2>5, <2>6
    <3> QED
      BY <1>1, <2>1, <3>1, <3>2
  <2>7. CASE fs.intent.audit \in fs.commits /\ ~(fs.head < fs.intent.audit.seq)
    <3>1. fs.head = fs.intent.audit.seq /\ pc'[p] = "r.done"
      BY <1>0, <2>1, <2>2, <2>7
    <3> QED
      BY <1>1, <2>1, <2>3, <2>7, <3>1
  <2>8. CASE fs.intent.audit \notin fs.commits
    BY <1>1, <2>1, <2>2, <2>4, <2>8
  <2> QED
    BY <2>6, <2>7, <2>8
<1>14. CASE LinkAudit(p)
  <2>1. /\ pc[p] = "r.link" /\ pc'[p] = "r.linksync" /\ fs'.head = fs.head
        /\ fs'.commits = fs.commits \cup {fs.intent.audit} /\ fs'.intent = fs.intent
    BY <1>14, LoudSteps
  <2> QED
    BY <1>1, <2>1
<1>15. CASE SyncAudit(p)
  <2>1. /\ pc[p] = "r.linksync" /\ pc'[p] = "r.temp" /\ fs' = fs /\ disk'.commits = fs.commits
    BY <1>0, <1>15 DEF TypeOK, SyncAudit, MovesSynced, CommitsSynced, Directory
  <2>2. fs.intent.affected.seq <= fs.head /\ fs.head < fs.intent.audit.seq
        /\ fs.intent.audit \in fs.commits
    BY <1>1, <2>1
  <2>3. NextAnchor(fs) = fs.intent.audit /\ fs.intent.audit.seq = fs.head + 1
    <3>1. fs.intent.audit.seq <= disk.head + 1 /\ disk.head <= fs.head
      BY <1>1, <2>2 DEF ChainInv
    <3> QED
      BY <1>0, <2>2, <3>1 DEF NextAnchor
  <2> QED
    BY <1>1, <2>1, <2>2, <2>3
<1>16. CASE UnlinkAuditPending(p)
  <2>1. /\ pc[p] = "r.done" /\ pc'[p] = "r.clear" /\ fs'.head = fs.head
        /\ fs'.intent = fs.intent /\ fs'.commits = fs.commits /\ disk'.commits = disk.commits
    BY <1>0, <1>16 DEF TypeOK, UnlinkAuditPending, MovesSynced, PendingSynced, Directory
  <2> QED
    BY <1>1, <2>1
<1>17. CASE ClearIntent(p)
  BY <1>0, <1>17 DEF TypeOK, ClearIntent, MovesSynced
<1> QED
  BY <1>5, <1>6, <1>7, <1>8, <1>9, <1>10, <1>11, <1>12, <1>13, <1>14, <1>15, <1>16, <1>17
  DEF RecoveryStep

LEMMA ResumePreserved ==
    ASSUME DurableRecovery, IInv, HistoryInv, NEW p \in Procs, Step(p)
    PROVE  ResumeInv'
<1>0. TypeOK
  BY DEF IInv
<1>1. IntentPcs \subseteq PublishRecoveryPcs
      /\ {"r.commitsync", "r.temp", "r.rename", "r.headsync", "r.unlink", "r.audit", "r.link",
          "r.linksync", "r.done", "r.clear"} \subseteq IntentPcs
      /\ (CallPcs \cup {"idle"}) \cap PublishRecoveryPcs = {}
  BY DEF IntentPcs, PublishRecoveryPcs, PregenesisPcs, CallPcs, AppendPcs
<1> SUFFICES ASSUME NEW q \in Procs, pc'[q] \in IntentPcs PROVE ResumeAt(q)'
  BY <1>1 DEF ResumeInv, ResumeAt
<1>2. q = p
  BY <1>0, <1>1, Frame, Alone DEF Recovering
<1>3. CASE RecoveryStep(p)
  BY <1>2, <1>3, ResumeSteps
<1>4. CASE RecoveryCall(p)
  <2>1. pc'[p] = "r.lock" /\ fs' = fs /\ RetryAccepted(fs)
    <3>1. pc[p] = "idle" /\ pc \in [Procs -> Pc]
      BY <1>0, <1>4 DEF RecoveryCall, DiscardUnregisteredLock, ReconcileTerminalLock,
           RecoverNoEffectAfterCrash, RecoverInterruptedPublish, Quiesced, TypeOK
    <3>2. pc'[p] \notin {"idle", "unlock", "acquire", "g.lock", "r.intent"}
      BY <1>2 DEF IntentPcs, PublishRecoveryPcs, PregenesisPcs
    <3>3. ~DiscardUnregisteredLock(p) /\ ~ReconcileTerminalLock(p)
      BY <3>1, <3>2 DEF DiscardUnregisteredLock, ReconcileTerminalLock, StartLockRecovery, Begins
    <3>4. ~RecoverNoEffectAfterCrash(p)
      BY <3>1, <3>2 DEF RecoverNoEffectAfterCrash, Begins
    <3>5. RecoverInterruptedPublish(p)
      BY <1>4, <3>3, <3>4 DEF RecoveryCall
    <3> QED
      BY <3>1, <3>2, <3>5 DEF RecoverInterruptedPublish
  <2> QED
    BY <1>2, <2>1 DEF RetryAccepted, ResumeAt
<1> QED
  BY <1>0, <1>1, <1>2, <1>3, <1>4, AppendNext DEF Step

\* A power loss leaves a prefix of the history, with all that was durable.
LEMMA PowerKeepsHistory ==
    ASSUME IInv, HistoryInv, PowerLoss
    PROVE  HistoryInv'
<1>0. TypeOK
  BY DEF IInv
<1>1. PICK h \in {disk.head, fs.head}, a \in {disk.alock, fs.alock},
           l \in {disk.olock, fs.olock}, i \in {disk.intent, fs.intent},
           C \in SUBSET (fs.commits \ disk.commits),
           P \in SUBSET ((fs.pend \ disk.pend) \cup (disk.pend \ fs.pend)) :
        fs' = [head |-> h, commits |-> disk.commits \cup C,
               pend |-> (disk.pend \cap fs.pend) \cup P,
               alock |-> [a EXCEPT !.live = FALSE], olock |-> l, intent |-> i]
  BY DEF PowerLoss
<1>2. /\ fs'.commits \subseteq fs.commits /\ disk.commits \subseteq fs'.commits
      /\ fs'.head \in {disk.head, fs.head} /\ fs'.intent \in {disk.intent, fs.intent}
  BY <1>1 DEF IInv, DurableInv
<1>3. fs'.intent.st = "full" => fs'.intent = fs.intent
  BY <1>2 DEF IInv, DurableInv
<1>4. disk' = fs' /\ acked' = acked /\ \A p \in Procs : pc'[p] = "idle"
  BY DEF PowerLoss
<1>5. ChainInv /\ IntentInv
  BY DEF HistoryInv
<1>6. fs'.head \in Nat /\ disk.head \in Nat /\ disk.head <= fs'.head /\ fs'.head <= fs.head
  BY <1>0, <1>2, <1>5, HistoryTypes DEF ChainInv
<1>7. ChainInv'
  <2>1. \A n \in 1 .. fs'.head : \E c \in disk'.commits : c.seq = n
    BY <1>0, <1>2, <1>4, <1>5, <1>6, HistoryTypes DEF ChainInv
  <2>2. \A c \in fs'.commits : c.seq \in 1 .. (disk'.head + 1)
    BY <1>0, <1>2, <1>4, <1>5, <1>6, HistoryTypes DEF ChainInv
  <2>3. acked' \subseteq Anchored(disk')
    BY <1>0, <1>2, <1>4, <1>5, <1>6, HistoryTypes DEF ChainInv, Anchored
  <2> QED
    BY <1>4, <1>6, <2>1, <2>2, <2>3 DEF ChainInv
<1>8. WriterInv' /\ ResumeInv'
  BY <1>4 DEF WriterInv, WriterAt, ResumeInv, ResumeAt, IntentPcs, PublishRecoveryPcs, PregenesisPcs
<1>9. IntentInv'
  <2> SUFFICES ASSUME fs'.intent.st = "full" PROVE IntentInv'
    BY DEF IntentInv
  <2>1. fs'.intent = fs.intent /\ fs.intent.st = "full"
    BY <1>3
  <2>2. fs.head \in Nat /\ fs.intent.audit.seq \in Nat /\ fs.intent.affected.seq \in Nat
    BY <1>0, HistoryTypes
  <2> QED
    BY <1>2, <1>4, <1>5, <1>6, <2>1, <2>2 DEF IntentInv
<1> QED
  BY <1>7, <1>8, <1>9 DEF HistoryInv

\* The durable history is a prefix of the visible one and every caller was
\* told of durable commits only.
LEMMA HistoryInvIntact ==
    ASSUME IInv, HistoryInv
    PROVE  HistoryIntact
<1>0. TypeOK /\ ChainInv
  BY DEF IInv, HistoryInv
<1> DEFINE d == [fs EXCEPT !.intent = NoIntent]
<1>1. d.commits = fs.commits /\ d.head = fs.head /\ d.intent = NoIntent
  BY <1>0 DEF TypeOK, Directory
<1>2. \A c, e \in fs.commits : c.seq = e.seq => c = e
  BY DEF IInv, NoFork
<1>3. disk.commits \subseteq fs.commits
  BY DEF IInv, DurableInv
<1>4. \A c \in fs.commits : \A n \in 1 .. c.seq : \E e \in fs.commits : e.seq = n
  <2> SUFFICES ASSUME NEW c \in fs.commits, NEW n \in 1 .. c.seq
               PROVE  \E e \in fs.commits : e.seq = n
    OBVIOUS
  <2>1. n \in 1 .. fs.head \/ n = c.seq
    BY <1>0, HistoryTypes DEF ChainInv
  <2> QED
    BY <1>0, <1>3, <2>1 DEF ChainInv
<1>5. fs.head = 0 \/ \E c \in fs.commits : c.seq = fs.head
  <2>1. fs.head = 0 \/ fs.head \in 1 .. fs.head
    BY <1>0, HistoryTypes
  <2> QED
    BY <1>0, <1>3, <2>1 DEF ChainInv
<1>6. Opens(d)
  BY <1>1, <1>2, <1>4, <1>5 DEF Opens, NoIntent
<1>7. \A c, e \in Unanchored(fs) : c = e
  <2> SUFFICES ASSUME NEW c \in Unanchored(fs), NEW e \in Unanchored(fs) PROVE c = e
    OBVIOUS
  <2>1. c \in fs.commits /\ e \in fs.commits /\ c.seq > fs.head /\ e.seq > fs.head
    BY DEF Unanchored
  <2>2. c.seq = e.seq
    BY <1>0, <2>1, HistoryTypes DEF ChainInv
  <2> QED
    BY <1>2, <2>1, <2>2
<1> QED
  BY <1>0, <1>6, <1>7 DEF HistoryIntact, ChainInv

-----------------------------------------------------------------------------
(* The operation lock: what a step can change *)

LEMMA CutShortLock ==
    ASSUME TypeOK, NEW p \in Procs, NEW f \in CutShort(p)
    PROVE  f.olock = fs.olock
BY DEF TypeOK, Directory, CutShort

\* The lock directory changes at the hands of who makes, fills or removes it.
LEMMA OlockStep ==
    ASSUME IInv, NEW p \in Procs, Step(p)
    PROVE  /\ \/ fs'.olock = fs.olock
              \/ pc[p] = "opmkdir" /\ fs.olock.st = "none"
              \/ pc[p] \in {"oplease", "unlock"}
           /\ disk'.olock \in {disk.olock, fs'.olock}
<1>0. TypeOK /\ fs \in Directory /\ disk \in Directory
  BY DEF IInv, TypeOK
<1>1. CASE Call(p) \/ RecoveryCall(p) \/ Exit(p)
  BY <1>1 DEF Call, Activate, Record, BeginOperation, EndOperation, RecoveryCall,
         DiscardUnregisteredLock, ReconcileTerminalLock, StartLockRecovery,
         RecoverNoEffectAfterCrash, RecoverInterruptedPublish, Exit
<1>2. CASE AppendStep(p)
  <2> USE <1>0 DEF Directory, Moves, MovesSynced, RootSynced, CommitsSynced, PendingSynced
  <2>1. CASE MakeOperationLock(p) \/ WriteOperationLease(p) \/ AcquireAppendLock(p)
    BY <2>1 DEF MakeOperationLock, WriteOperationLease, AcquireAppendLock
  <2>2. CASE WriteAppendLease(p) \/ CheckUnderMutex(p) \/ WritePending(p) \/ LinkCommit(p)
    BY <2>2 DEF WriteAppendLease, CheckUnderMutex, WritePending, LinkCommit
  <2>3. CASE SyncCommits(p) \/ WriteHeadTemp(p) \/ RenameHead(p) \/ SyncHead(p)
    BY <2>3 DEF SyncCommits, WriteHeadTemp, RenameHead, SyncHead
  <2>4. CASE UnlinkPending(p) \/ ReleaseAppendLock(p) \/ ReturnFromAppend(p)
    BY <2>4 DEF UnlinkPending, ReleaseAppendLock, ReturnFromAppend
  <2>5. CASE ReleaseOperationLock(p)
    BY <2>5 DEF ReleaseOperationLock
  <2> QED
    BY <1>2, <2>1, <2>2, <2>3, <2>4, <2>5 DEF AppendStep
<1>3. CASE RecoveryStep(p)
  <2> USE <1>0 DEF Directory, Moves, MovesSynced, RootSynced, CommitsSynced, PendingSynced
  <2>1. CASE DiscardPreGenesisLock(p) \/ DiscardPreGenesisPending(p) \/ WriteIntent(p)
    BY <2>1 DEF DiscardPreGenesisLock, DiscardPreGenesisPending, WriteIntent
  <2>2. CASE RemoveAppendLock(p) \/ RecoverySyncCommits(p) \/ RecoveryHeadTemp(p)
             \/ RecoveryRenameHead(p)
    BY <2>2 DEF RemoveAppendLock, RecoverySyncCommits, RecoveryHeadTemp, RecoveryRenameHead
  <2>3. CASE RecoverySyncHead(p) \/ RecoveryUnlinkPending(p)
    BY <2>3 DEF RecoverySyncHead, RecoveryUnlinkPending
  <2>4. CASE WriteAudit(p) \/ LinkAudit(p)
    BY <2>4 DEF WriteAudit, LinkAudit
  <2>5. CASE SyncAudit(p) \/ UnlinkAuditPending(p) \/ ClearIntent(p)
    BY <2>5 DEF SyncAudit, UnlinkAuditPending, ClearIntent
  <2> QED
    BY <1>3, <2>1, <2>2, <2>3, <2>4, <2>5 DEF RecoveryStep
<1>4. CASE Kill(p)
  <2>1. PICK f \in CutShort(p) :
          fs' = IF f.alock.by = p THEN [f EXCEPT !.alock.live = FALSE] ELSE f
    BY <1>4 DEF Kill
  <2>2. f \in Directory /\ f.olock = fs.olock
    BY <1>0, CutShortType, CutShortLock
  <2>3. fs'.olock = fs.olock
    BY <2>1, <2>2 DEF Directory
  <2> QED
    BY <1>4, <2>3 DEF Kill
<1>5. CASE IoError(p)
  <2>1. CASE pc[p] = "oplease"
    BY <1>5, <2>1 DEF IoError
  <2>2. CASE pc[p] = "lease"
    BY <1>0, <1>5, <2>2 DEF IoError, Directory
  <2>3. CASE pc[p] \notin {"oplease", "lease"}
    BY <1>0, <1>5, <2>3, CutShortLock DEF IoError
  <2> QED
    BY <2>1, <2>2, <2>3
<1> QED
  BY <1>1, <1>2, <1>3, <1>4, <1>5 DEF Step

\* HEAD and what it anchors only grow.
LEMMA HeadGrows ==
    ASSUME IInv, HistoryInv, NEW p \in Procs, Step(p)
    PROVE  fs.head <= fs'.head /\ Anchored(fs) \subseteq Anchored(fs')
<1>0. TypeOK /\ TypeOK'
  BY NextTypes DEF IInv, Next
<1>1. fs.head <= fs'.head
  <2>1. CASE Quiet \/ LinkCommit(p) \/ LinkAudit(p)
    BY <1>0, <2>1, LoudSteps, HistoryTypes DEF Quiet
  <2>2. CASE RenameHead(p) \/ RecoveryRenameHead(p)
    BY <1>0, <2>2, HeadAdvances, HistoryTypes
  <2> QED
    BY <2>1, <2>2, QuietSteps
<1>2. fs.commits \subseteq fs'.commits
  BY CommitsGrow
<1>3. \A c \in fs.commits : c.seq \in Nat /\ fs.head \in Nat /\ fs'.head \in Nat
  BY <1>0 DEF TypeOK, Directory, Commit
<1> QED
  BY <1>1, <1>2, <1>3 DEF Anchored

\* An operation becomes guarded with its begin commit.
LEMMA GuardedBefore ==
    ASSUME IInv, HistoryInv, SubjectInv, NEW p \in Procs, Step(p), NEW o \in Ops, Guarded(o)'
    PROVE  Guarded(o) \/ (LinkCommit(p) /\ want[p].txn = "operation.begin" /\ want[p].subj = o)
<1>0. TypeOK /\ TypeOK'
  BY NextTypes DEF IInv, Next
<1>1. disk.head <= disk'.head /\ disk.head \in Nat /\ disk'.head \in Nat
      /\ \A c \in fs.commits : c.seq \in Nat
  BY <1>0, DiskGrows DEF TypeOK, Directory, Commit
<1>2. ASSUME fs.commits \subseteq fs'.commits, BeginsOf(o) # {} PROVE Guarded(o)
  <2> SUFFICES ASSUME NEW c \in EndsOf(o) PROVE c.seq > disk.head
    BY <1>2 DEF Guarded
  <2>1. c \in EndsOf(o)' /\ c \in fs.commits
    BY <1>2 DEF EndsOf
  <2>2. c.seq > disk'.head
    BY <2>1 DEF Guarded
  <2> QED
    BY <1>1, <2>1, <2>2
<1>3. fs.commits \subseteq fs'.commits
  BY CommitsGrow
<1>4. PICK b \in fs'.commits : b.txn = "operation.begin" /\ b.subj = o
  BY DEF Guarded, BeginsOf
<1>5. CASE b \in fs.commits
  BY <1>2, <1>3, <1>4, <1>5 DEF BeginsOf
<1>6. CASE b \notin fs.commits
  <2>1. CASE LinkCommit(p) /\ fs'.commits = fs.commits \cup {want[p]}
    BY <1>4, <1>6, <2>1
  <2>2. CASE LinkAudit(p) /\ fs'.commits = fs.commits \cup {fs.intent.audit}
    <3>1. fs.intent.st = "full"
      BY <2>2, LoudSteps, IntentStep DEF IntentPcs, PublishRecoveryPcs, PregenesisPcs
    <3> QED
      BY <1>4, <1>6, <2>2, <3>1 DEF SubjectInv
  <2> QED
    BY <1>6, <2>1, <2>2, CommitsGrow
<1> QED
  BY <1>5, <1>6

\* Audits of locks are appended by lock recoveries.
LEMMA AuditsBefore ==
    ASSUME IInv, SubjectInv, NEW p \in Procs, Step(p)
    PROVE  \/ LockAudits' = LockAudits
           \/ /\ LinkCommit(p) /\ want[p].txn \in LockTxns /\ Recovering(p)
              /\ LockAudits' = LockAudits \cup {want[p]}
<1>1. CASE fs'.commits = fs.commits
  BY <1>1 DEF LockAudits
<1>2. CASE LinkCommit(p) /\ fs'.commits = fs.commits \cup {want[p]}
  <2>1. CASE want[p].txn \in LockTxns
    <3>1. Recovering(p)
      BY <1>2, <2>1 DEF LinkCommit, Recovering, LockTxns, RecoveryTxns
    <3> QED
      BY <1>2, <2>1, <3>1 DEF LockAudits
  <2>2. CASE want[p].txn \notin LockTxns
    BY <1>2, <2>2 DEF LockAudits
  <2> QED
    BY <2>1, <2>2
<1>3. CASE LinkAudit(p) /\ fs'.commits = fs.commits \cup {fs.intent.audit}
  <2>1. fs.intent.st = "full"
    BY <1>3, LoudSteps, IntentStep DEF IntentPcs, PublishRecoveryPcs, PregenesisPcs
  <2> QED
    BY <1>3, <2>1 DEF LockAudits, LockTxns, SubjectInv
<1> QED
  BY <1>1, <1>2, <1>3, CommitsGrow

\* A lock in one process's hands is in nobody else's.
LEMMA OlockFrame ==
    ASSUME IInv, LockInv, NEW p \in Procs, Step(p), NEW q \in Procs \ {p},
           Holds(q)
    PROVE  /\ fs'.olock = fs.olock
           /\ disk.olock = fs.olock => disk'.olock = fs.olock
<1>1. HolderAt(q) /\ ~Holds(p)
  BY DEF LockInv, HolderInv
<1>2. fs.olock.st # "none"
  BY <1>1 DEF Holds, HolderAt
<1>3. pc[p] \notin {"oplease", "unlock"}
  BY <1>1 DEF Holds
<1> QED
  BY <1>2, <1>3, OlockStep

-----------------------------------------------------------------------------
(* append.lock and a HEAD that is not durable yet *)

\* The owner of append.lock lives only inside the mutex.
LEMMA OwnerPreserved ==
    ASSUME IInv, OwnerInv, NEW p \in Procs, Step(p), fs'.alock.live
    PROVE  \E q \in Procs : fs'.alock.by = q /\ pc'[q] \in CriticalPcs
<1>0. TypeOK /\ fs \in Directory /\ fs.alock \in Alock
  BY DEF IInv, TypeOK, Directory
<1>1. CASE fs'.alock.by = fs.alock.by /\ fs.alock.live /\ (pc[p] \in CriticalPcs => pc'[p] \in CriticalPcs)
  <2>1. PICK q \in Procs : fs.alock.by = q /\ pc[q] \in CriticalPcs
    BY <1>1 DEF OwnerInv
  <2>2. pc'[q] \in CriticalPcs
    BY <1>0, <1>1, <2>1, Frame
  <2> QED
    BY <1>1, <2>1, <2>2
<1>2. CASE Call(p) \/ RecoveryCall(p) \/ Exit(p)
  BY <1>1, <1>2 DEF Call, Activate, Record, BeginOperation, EndOperation, Writable, RecoveryCall,
         DiscardUnregisteredLock, ReconcileTerminalLock, StartLockRecovery, Quiesced,
         RecoverNoEffectAfterCrash, RecoverInterruptedPublish, Exit, CriticalPcs, AppendPcs
<1>3. CASE AppendStep(p)
  <2> USE <1>0 DEF TypeOK, Directory, Alock, Moves, MovesSynced, Ends, Fails, CriticalPcs, AppendPcs
  <2>1. CASE AcquireAppendLock(p)
    BY <1>1, <2>1 DEF AcquireAppendLock
  <2>2. CASE WriteAppendLease(p)
    <3>1. pc[p] = "lease" /\ pc'[p] = "check" /\ fs'.alock.by = fs.alock.by
      BY <2>2 DEF WriteAppendLease
    <3>2. fs.alock.by = p
      BY <3>1 DEF IInv, MutexInv
    <3> QED
      BY <3>1, <3>2
  <2>3. CASE ReleaseAppendLock(p)
    BY <1>1, <2>3 DEF ReleaseAppendLock, NoAlock
  <2>4. CASE MakeOperationLock(p) \/ WriteOperationLease(p) \/ CheckUnderMutex(p)
    BY <1>1, <2>4 DEF MakeOperationLock, WriteOperationLease, CheckUnderMutex
  <2>5. CASE WritePending(p) \/ LinkCommit(p) \/ SyncCommits(p) \/ WriteHeadTemp(p)
    BY <1>1, <2>5 DEF WritePending, LinkCommit, SyncCommits, WriteHeadTemp
  <2>6. CASE RenameHead(p)
    BY <1>1, <2>6 DEF RenameHead
  <2>8. CASE SyncHead(p) \/ UnlinkPending(p)
    BY <1>1, <2>8 DEF SyncHead, UnlinkPending
  <2>7. CASE ReturnFromAppend(p) \/ ReleaseOperationLock(p)
    BY <1>1, <2>7 DEF ReturnFromAppend, ReleaseOperationLock
  <2> QED
    BY <1>3, <2>1, <2>2, <2>3, <2>4, <2>5, <2>6, <2>7, <2>8 DEF AppendStep
<1>4. CASE RecoveryStep(p)
  <2>1. Recovering(p) /\ pc[p] \in PublishRecoveryPcs
    BY <1>4 DEF Recovering, RecoveryStep, DiscardPreGenesisLock, DiscardPreGenesisPending, WriteIntent,
              RemoveAppendLock, RecoverySyncCommits, RecoveryHeadTemp, RecoveryRenameHead,
              RecoverySyncHead, RecoveryUnlinkPending, WriteAudit, LinkAudit, SyncAudit,
              UnlinkAuditPending, ClearIntent, PublishRecoveryPcs, PregenesisPcs
  <2>2. ~fs.alock.live
    <3> SUFFICES ASSUME fs.alock.live PROVE FALSE
      OBVIOUS
    <3>1. PICK q \in Procs : pc[q] \in CriticalPcs
      BY DEF OwnerInv
    <3> QED
      BY <2>1, <3>1, Alone DEF CriticalPcs, AppendPcs, PublishRecoveryPcs, PregenesisPcs
  <2>3. fs'.alock = fs.alock \/ ~fs'.alock.live
    <3> USE <1>0, <2>2 DEF Directory, Alock, Moves, MovesSynced
    <3>1. CASE DiscardPreGenesisLock(p) \/ RemoveAppendLock(p)
      BY <3>1 DEF DiscardPreGenesisLock, RemoveAppendLock, NoAlock
    <3>2. CASE WriteIntent(p)
      BY <3>2 DEF WriteIntent
    <3>5. CASE DiscardPreGenesisPending(p) \/ RecoverySyncCommits(p)
      BY <3>5 DEF DiscardPreGenesisPending, RecoverySyncCommits
    <3>6. CASE RecoveryHeadTemp(p) \/ RecoveryRenameHead(p)
      BY <3>6 DEF RecoveryHeadTemp, RecoveryRenameHead
    <3>3. CASE RecoverySyncHead(p) \/ RecoveryUnlinkPending(p) \/ WriteAudit(p) \/ LinkAudit(p)
      BY <3>3 DEF RecoverySyncHead, RecoveryUnlinkPending, WriteAudit, LinkAudit
    <3>4. CASE SyncAudit(p) \/ UnlinkAuditPending(p) \/ ClearIntent(p)
      BY <3>4 DEF SyncAudit, UnlinkAuditPending, ClearIntent
    <3> QED
      BY <1>4, <3>1, <3>2, <3>3, <3>4, <3>5, <3>6 DEF RecoveryStep
  <2> QED
    BY <2>2, <2>3
<1>5. CASE Kill(p)
  <2>1. PICK f \in CutShort(p) :
          fs' = IF f.alock.by = p THEN [f EXCEPT !.alock.live = FALSE] ELSE f
    BY <1>5 DEF Kill
  <2>2. f \in Directory /\ f.alock = fs.alock
    BY <1>0, CutShortType, CutShortFrame
  <2>3. fs.alock.by # p /\ fs'.alock = fs.alock
    BY <1>0, <2>1, <2>2 DEF Directory, Alock
  <2>4. PICK q \in Procs : fs.alock.by = q /\ pc[q] \in CriticalPcs
    BY <2>3 DEF OwnerInv
  <2>5. pc'[q] = pc[q]
    BY <1>0, <2>3, <2>4, Frame
  <2> QED
    BY <2>3, <2>4, <2>5
<1>6. CASE IoError(p)
  <2> USE <1>0 DEF IoError, TypeOK, Directory, Ends, Fails, CriticalPcs, AppendPcs
  <2>1. CASE pc[p] = "oplease"
    BY <1>1, <1>6, <2>1
  <2>2. CASE pc[p] = "lease"
    BY <1>6, <2>2 DEF NoAlock
  <2>3. CASE pc[p] \notin {"oplease", "lease"}
    <3>1. fs'.alock = fs.alock
      BY <1>6, <2>3, CutShortFrame
    <3> QED
      BY <1>1, <1>6, <2>3, <3>1
  <2> QED
    BY <2>1, <2>2, <2>3
<1> QED
  BY <1>2, <1>3, <1>4, <1>5, <1>6 DEF Step

\* Nobody removes append.lock before HEAD is durable.
LEMMA LagPreserved ==
    ASSUME DurableRecovery, IInv, HistoryInv, LagInv, NEW p \in Procs, Step(p)
    PROVE  LagInv'
<1>0. TypeOK /\ TypeOK' /\ fs \in Directory /\ disk \in Directory /\ fs.alock \in Alock
  BY NextTypes DEF IInv, Next, TypeOK, Directory
<1>1. disk'.head < fs'.head => fs'.alock.st # "none" \/ fs'.intent.st = "full"
  <2> SUFFICES ASSUME disk'.head < fs'.head
               PROVE  fs'.alock.st # "none" \/ fs'.intent.st = "full"
    OBVIOUS
  <2>0. disk'.head \in Nat /\ fs'.head \in Nat /\ disk.head \in Nat /\ fs.head \in Nat
    BY <1>0 DEF TypeOK, Directory
  <2>1. CASE RenameHead(p)
    <3>1. pc[p] = "rename" /\ fs'.alock = fs.alock
      BY <2>1, LoudSteps
    <3> QED
      BY <3>1 DEF IInv, MutexInv, CriticalPcs, AppendPcs
  <2>2. CASE RecoveryRenameHead(p)
    <3>1. pc[p] = "r.rename" /\ fs'.intent = fs.intent
      BY <2>2, LoudSteps
    <3> QED
      BY <3>1, IntentStep DEF IntentPcs, PublishRecoveryPcs, PregenesisPcs
  <2>3. CASE ~RenameHead(p) /\ ~RecoveryRenameHead(p)
    <3>1. fs'.head = fs.head /\ disk.head <= disk'.head
      BY <2>3, QuietSteps, LoudSteps, DiskGrows DEF Quiet
    <3>2. disk.head < fs.head
      BY <2>0, <3>1
    <3>3. fs.alock.st # "none" \/ fs.intent.st = "full"
      BY <3>2 DEF LagInv
    <3>4. CASE fs'.alock.st = "none" /\ fs.alock.st # "none"
      <4>1. CASE AppendStep(p)
        <5> USE <1>0 DEF Moves, MovesSynced, Directory, Alock
        <5>1. ~MakeOperationLock(p) /\ ~WriteOperationLease(p) /\ ~CheckUnderMutex(p)
          BY <3>4 DEF MakeOperationLock, WriteOperationLease, CheckUnderMutex
        <5>2. ~AcquireAppendLock(p) /\ ~WriteAppendLease(p)
          <6>1. ~AcquireAppendLock(p)
            BY <3>4 DEF AcquireAppendLock
          <6>2. ASSUME WriteAppendLease(p) PROVE FALSE
            <7>1. fs' = [fs EXCEPT !.alock.st = "full", !.alock.live = TRUE]
              BY <6>2 DEF WriteAppendLease
            <7>2. fs'.alock.st = "full"
              BY <7>1
            <7> QED
              BY <3>4, <7>2
          <6> QED
            BY <6>1, <6>2
        <5>3. ~WritePending(p) /\ ~LinkCommit(p) /\ ~SyncCommits(p) /\ ~WriteHeadTemp(p)
          BY <3>4 DEF WritePending, LinkCommit, SyncCommits, WriteHeadTemp
        <5>4. ~RenameHead(p) /\ ~SyncHead(p) /\ ~UnlinkPending(p)
          BY <3>4 DEF RenameHead, SyncHead, UnlinkPending
        <5>5. ~ReturnFromAppend(p) /\ ~ReleaseOperationLock(p)
          BY <3>4 DEF ReturnFromAppend, ReleaseOperationLock
        <5>6. ReleaseAppendLock(p)
          BY <4>1, <5>1, <5>2, <5>3, <5>4, <5>5 DEF AppendStep
        <5>7. fs.alock.st # "full"
          BY <3>4, <5>6 DEF ReleaseAppendLock
        <5>8. fs' = [fs EXCEPT !.alock = NoAlock] /\ disk' = RootSynced(disk, fs')
          BY <5>6, <5>7 DEF ReleaseAppendLock
        <5>9. disk'.head = fs'.head
          BY <5>8 DEF RootSynced
        <5> QED
          BY <2>0, <5>9
      <4>2. CASE RecoveryStep(p)
        <5>0. ~WriteIntent(p)
          <6> SUFFICES ASSUME WriteIntent(p) PROVE fs'.alock.st = fs.alock.st
            BY <3>4
          <6> QED
            BY <1>0 DEF WriteIntent, MovesSynced, Directory, Alock
        <5>1. DiscardPreGenesisLock(p) \/ RemoveAppendLock(p)
          BY <1>0, <3>4, <4>2, <5>0 DEF RecoveryStep, DiscardPreGenesisPending,
              RecoverySyncCommits, RecoveryHeadTemp, RecoveryRenameHead,
              RecoverySyncHead, RecoveryUnlinkPending, WriteAudit, LinkAudit, SyncAudit,
              UnlinkAuditPending, ClearIntent, Moves, MovesSynced, Directory, Alock
        <5>2. CASE DiscardPreGenesisLock(p)
          <6>1. fs.head = 0
            BY <5>2 DEF DiscardPreGenesisLock, LagInv, PregenesisPcs
          <6> QED
            BY <2>0, <3>2, <6>1
        <5>3. CASE RemoveAppendLock(p)
          <6>1. pc[p] \in {"r.lock", "r.rmdir"} /\ fs'.intent = fs.intent
            BY <1>0, <5>3 DEF RemoveAppendLock, Moves, MovesSynced, Directory
          <6> QED
            BY <6>1, IntentStep DEF IntentPcs, PublishRecoveryPcs, PregenesisPcs
        <5> QED
          BY <5>1, <5>2, <5>3
      <4>3. CASE IoError(p)
        <5>1. CASE pc[p] = "lease"
          <6>1. disk.head = fs.head \/ fs.intent.st = "full"
            BY <5>1 DEF LagInv
          <6>2. fs'.intent = fs.intent
            BY <1>0, <4>3, <5>1 DEF IoError, Directory
          <6> QED
            BY <2>0, <3>2, <6>1, <6>2
        <5>2. CASE pc[p] # "lease"
          <6>1. fs'.alock = fs.alock
            BY <1>0, <4>3, <5>2, CutShortFrame DEF IoError, Directory
          <6> QED
            BY <3>4, <6>1
        <5> QED
          BY <5>1, <5>2
      <4>4. CASE Kill(p)
        <5>1. PICK f \in CutShort(p) :
                fs' = IF f.alock.by = p THEN [f EXCEPT !.alock.live = FALSE] ELSE f
          BY <4>4 DEF Kill
        <5>2. f \in Directory /\ f.alock = fs.alock
          BY <1>0, CutShortType, CutShortFrame
        <5>3. fs'.alock.st = fs.alock.st
          BY <1>0, <5>1, <5>2 DEF Directory, Alock
        <5> QED
          BY <3>4, <5>3
      <4>5. CASE Call(p) \/ RecoveryCall(p) \/ Exit(p)
        <5>1. fs' = fs
          BY <1>0, <4>5, RecoveryCallNext DEF Call, Activate, Record, BeginOperation, EndOperation, Exit
        <5> QED
          BY <3>4, <5>1
      <4> QED
        BY <4>1, <4>2, <4>3, <4>4, <4>5 DEF Step
    <3>5. CASE fs.intent.st = "full" /\ fs'.intent.st # "full"
      <4>1. ClearIntent(p)
        <5>1. ~Kill(p)
          <6> SUFFICES ASSUME Kill(p) PROVE FALSE
            OBVIOUS
          <6>1. PICK f \in CutShort(p) :
                  fs' = IF f.alock.by = p THEN [f EXCEPT !.alock.live = FALSE] ELSE f
            BY DEF Kill
          <6>2. f \in Directory /\ (f.intent = fs.intent \/ pc[p] = "r.intent")
            BY <1>0, CutShortType, CutShortFrame
          <6>3. fs'.intent = f.intent
            BY <6>1, <6>2 DEF Directory
          <6>4. pc[p] # "r.intent"
            BY <3>5 DEF IInv, RecoveryInv, FreshAccepted
          <6> QED
            BY <3>5, <6>2, <6>3, <6>4
        <5>2. ~WriteIntent(p)
          BY <3>5 DEF WriteIntent, IInv, RecoveryInv, FreshAccepted
        <5>3. CASE LinkCommit(p) \/ LinkAudit(p)
          BY <3>5, <5>3, LoudSteps
        <5> QED
          BY <3>5, <5>1, <5>2, <5>3, AppendHistory, RecoveryHistory, OtherHistory DEF Step, KeepsHistory
      <4>2. disk'.head = fs'.head
        BY <1>0, <4>1 DEF ClearIntent, MovesSynced, RootSynced, Directory
      <4> QED
        BY <2>0, <4>2
    <3> QED
      BY <3>3, <3>4, <3>5
  <2> QED
    BY <2>1, <2>2, <2>3
<1>2. ASSUME NEW q \in Procs
      PROVE  /\ pc'[q] = "lease" => disk'.head = fs'.head \/ fs'.intent.st = "full"
             /\ pc'[q] \in PregenesisPcs => fs'.head = 0
  <2>1. CASE q # p
    <3>1. pc'[q] = pc[q]
      BY <1>0, <2>1, Frame
    <3>2. pc[q] \notin PregenesisPcs
      BY <2>1, Alone DEF Recovering, PublishRecoveryPcs
    <3>3. CASE pc[q] = "lease"
      <4>1. fs'.intent = fs.intent /\ fs'.head = fs.head
        BY <2>1, <3>3, OutsideMutex DEF CriticalPcs, AppendPcs
      <4>2. disk'.head \in {disk.head, fs.head}
        BY DiskGrows
      <4> QED
        BY <3>1, <3>2, <3>3, <4>1, <4>2 DEF LagInv
    <3> QED
      BY <3>1, <3>2, <3>3
  <2>2. CASE q = p
    <3>1. CASE pc'[p] = "lease"
      <4>1. AcquireAppendLock(p) /\ fs.alock.st = "none" /\ fs'.head = fs.head
            /\ fs'.intent = fs.intent /\ disk' = disk
        <5>1. ~RecoveryStep(p)
          BY <1>0, <3>1, RecoveryNext DEF PublishRecoveryPcs, PregenesisPcs
        <5>2. ~Call(p) /\ ~RecoveryCall(p) /\ ~Kill(p) /\ ~Exit(p) /\ ~IoError(p)
          BY <1>0, <3>1 DEF TypeOK, Call, Activate, Record, BeginOperation, EndOperation, Begins,
             RecoveryCall, DiscardUnregisteredLock, ReconcileTerminalLock, StartLockRecovery,
             Quiesced, RecoverNoEffectAfterCrash, RecoverInterruptedPublish, Kill, Exit, IoError,
             Ends, Fails
        <5>3. AcquireAppendLock(p)
          BY <1>0, <3>1, <5>1, <5>2 DEF Step, AppendStep, MakeOperationLock, WriteOperationLease,
                WriteAppendLease, CheckUnderMutex, WritePending, LinkCommit,
                SyncCommits, WriteHeadTemp, RenameHead, SyncHead, UnlinkPending, ReleaseAppendLock,
                ReturnFromAppend, ReleaseOperationLock, Moves, MovesSynced, Ends, Fails, TypeOK
        <5> QED
          BY <1>0, <3>1, <5>3 DEF AcquireAppendLock, Moves, Fails, TypeOK, Directory
      <4>2. disk.head <= fs.head
        BY DEF HistoryInv, ChainInv
      <4>3. disk.head = fs.head \/ fs.intent.st = "full"
        BY <1>0, <4>1, <4>2 DEF LagInv, Directory
      <4> QED
        BY <2>2, <3>1, <4>1, <4>3 DEF PregenesisPcs
    <3>2. CASE pc'[p] \in PregenesisPcs
      <4>1. fs'.head = fs.head /\ (pc[p] \in PregenesisPcs \/ fs.head = 0)
        <5>1. CASE RecoveryCall(p)
          BY <1>0, <3>2, <5>1 DEF TypeOK, RecoveryCall, DiscardUnregisteredLock,
             ReconcileTerminalLock, StartLockRecovery, Quiesced, Begins, RecoverNoEffectAfterCrash,
             RecoverInterruptedPublish, PreGenesisAccepted, PreGenesis, PregenesisPcs
        <5>2. CASE RecoveryStep(p)
          BY <1>0, <3>2, <5>2 DEF TypeOK, RecoveryStep, DiscardPreGenesisLock,
              DiscardPreGenesisPending, WriteIntent,
              RemoveAppendLock, AfterLockCleanup, RecoverySyncCommits, RecoveryHeadTemp,
              RecoveryRenameHead, RecoverySyncHead, RecoveryUnlinkPending, WriteAudit, LinkAudit,
              SyncAudit, UnlinkAuditPending, ClearIntent, Moves, MovesSynced, PregenesisPcs, Directory
        <5> QED
          BY <1>0, <3>2, <5>1, <5>2, AppendNext DEF Step, CallPcs, AppendPcs, PregenesisPcs
      <4> QED
        BY <2>2, <3>2, <4>1 DEF LagInv, PregenesisPcs
    <3> QED
      BY <2>2, <3>1, <3>2
  <2> QED
    BY <2>1, <2>2
<1> QED
  BY <1>1, <1>2, OwnerPreserved DEF LagInv, OwnerInv

-----------------------------------------------------------------------------
(* The operation lock *)

\* A step of p inside _appendEvents, which leaves the operation lock alone.
Appends(p) ==
    /\ pc[p] \in AppendPcs /\ pc'[p] \in AppendPcs
    /\ want' = want /\ lease' = lease
    /\ fs'.olock = fs.olock

\* p's call ends by a fault.
Leaves(p) ==
    /\ pc'[p] = "idle"
    /\ want'[p] \in {want[p], NoCommit}
    /\ lease'[p] = None \/ (lease'[p] = lease[p] /\ pc[p] = "oplease")

LEMMA LockSteps ==
    ASSUME IInv, NEW p \in Procs, Step(p)
    PROVE  \/ Call(p) \/ RecoveryCall(p) \/ RecoveryStep(p)
           \/ MakeOperationLock(p) \/ WriteOperationLease(p)
           \/ ReturnFromAppend(p) \/ ReleaseOperationLock(p)
           \/ Appends(p) \/ Leaves(p)
<1> USE DEF IInv, TypeOK
<1>1. CASE AppendStep(p)
  <2> USE DEF Directory, Moves, MovesSynced, Ends, Fails, AppendPcs, Appends
  <2>1. CASE AcquireAppendLock(p) \/ WriteAppendLease(p)
    BY <2>1 DEF AcquireAppendLock, WriteAppendLease
  <2>2. CASE CheckUnderMutex(p) \/ WritePending(p) \/ LinkCommit(p) \/ SyncCommits(p)
    BY <2>2 DEF CheckUnderMutex, WritePending, LinkCommit, SyncCommits
  <2>3. CASE WriteHeadTemp(p) \/ RenameHead(p) \/ SyncHead(p)
    BY <2>3 DEF WriteHeadTemp, RenameHead, SyncHead
  <2>4. CASE UnlinkPending(p) \/ ReleaseAppendLock(p)
    BY <2>4 DEF UnlinkPending, ReleaseAppendLock
  <2> QED
    BY <1>1, <2>1, <2>2, <2>3, <2>4 DEF AppendStep
<1>2. CASE Kill(p)
  BY <1>2 DEF Kill, Ends, Leaves
<1>3. CASE Exit(p)
  BY <1>3 DEF Exit, Leaves
<1>4. CASE IoError(p)
  <2>1. CASE pc[p] = "oplease"
    BY <1>4, <2>1 DEF IoError, Ends, Leaves
  <2>2. CASE pc[p] = "lease"
    BY <1>4, <2>2 DEF IoError, Fails, Appends, AppendPcs, Directory
  <2>3. CASE pc[p] \notin {"oplease", "lease"}
    <3>1. fs'.olock = fs.olock
      BY <1>4, <2>3, CutShortLock DEF IoError
    <3> QED
      BY <1>4, <2>3, <3>1 DEF IoError, Fails, Appends, AppendPcs
  <2> QED
    BY <2>1, <2>2, <2>3
<1> QED
  BY <1>1, <1>2, <1>3, <1>4 DEF Step

\* The lock of an operation in progress stands, and no audit names it.
LEMMA GuardPreserved ==
    ASSUME IInv, SubjectInv, HistoryInv, LockInv, NEW p \in Procs, Step(p)
    PROVE  GuardInv'
<1> SUFFICES ASSUME NEW o \in Ops, Guarded(o)'
             PROVE  /\ fs'.olock.st = "full" /\ fs'.olock.op = o /\ disk'.olock = fs'.olock
                    /\ \A e \in LockAudits' : e.tag # fs'.olock.token
  BY DEF GuardInv
<1>0. TypeOK /\ want[p].txn \in Txn
  BY DEF IInv, TypeOK, Commit
<1>1. CASE Guarded(o)
  <2>1. fs.olock.st = "full" /\ fs.olock.op = o /\ disk.olock = fs.olock
        /\ \A e \in LockAudits : e.tag # fs.olock.token
    BY <1>1 DEF LockInv, GuardInv
  <2>2. pc[p] \notin {"oplease", "unlock"}
    BY <1>1, <2>1 DEF LockInv, HolderInv, HolderAt, NoneGuarded
  <2>3. fs'.olock = fs.olock /\ disk'.olock = fs.olock
    BY <2>1, <2>2, OlockStep
  <2>4. LockAudits' = LockAudits
    <3> SUFFICES ASSUME LinkCommit(p), want[p].txn \in LockTxns PROVE FALSE
      BY AuditsBefore
    <3>1. pc[p] = "link"
      BY DEF LinkCommit
    <3>2. NoneGuarded
      BY <3>1 DEF LockInv, EndingInv, AuditAt, AppendPcs
    <3> QED
      BY <1>1, <3>2 DEF NoneGuarded
  <2> QED
    BY <2>1, <2>3, <2>4
<1>2. CASE LinkCommit(p) /\ want[p].txn = "operation.begin" /\ want[p].subj = o
  <2>1. pc[p] = "link" /\ disk' = disk /\ fs'.olock = fs.olock
    BY <1>2, LoudSteps
  <2>2. lease[p] = o /\ o # None
    BY <1>2, <2>1, DiskAssumption DEF LockInv, HolderInv, HolderAt, AppendPcs
  <2>3. fs.olock.st = "full" /\ fs.olock.op = o /\ disk.olock = fs.olock
    BY <2>1, <2>2 DEF LockInv, HolderInv, HolderAt
  <2>4. \A e \in LockAudits : e.tag # fs.olock.token
    BY <1>2, <2>1 DEF LockInv, TokenInv, TokenAt
  <2>5. LockAudits' = LockAudits
    BY <1>2, AuditsBefore DEF LockTxns
  <2> QED
    BY <2>1, <2>3, <2>4, <2>5
<1> QED
  BY <1>1, <1>2, GuardedBefore

\* A kill leaves the lock directory as it is.
LEMMA KillLock ==
    ASSUME TypeOK, NEW p \in Procs, Kill(p)
    PROVE  fs'.olock = fs.olock
<1>1. PICK f \in CutShort(p) :
        fs' = IF f.alock.by = p THEN [f EXCEPT !.alock.live = FALSE] ELSE f
  BY DEF Kill
<1>2. f \in Directory /\ f.olock = fs.olock
  BY CutShortType, CutShortLock
<1> QED
  BY <1>1, <1>2 DEF Directory

\* What a process does that is about to make, fill or remove the lock.
LEMMA LockHandlers ==
    ASSUME TypeOK, NEW p \in Procs, Step(p), pc[p] \in {"opmkdir", "oplease", "unlock"}
    PROVE  \/ Kill(p)
           \/ pc[p] = "opmkdir" /\ MakeOperationLock(p)
           \/ pc[p] = "oplease" /\ (WriteOperationLease(p) \/ IoError(p))
           \/ pc[p] = "unlock" /\ ReleaseOperationLock(p)
<1>1. ~Call(p) /\ ~RecoveryCall(p) /\ ~Exit(p)
  BY DEF Call, Activate, Record, BeginOperation, EndOperation, Writable,
     RecoveryCall, DiscardUnregisteredLock, ReconcileTerminalLock, Quiesced,
     RecoverNoEffectAfterCrash, RecoverInterruptedPublish, Exit
<1>2. ~RecoveryStep(p)
  BY DEF RecoveryStep, DiscardPreGenesisLock, DiscardPreGenesisPending,
        WriteIntent, RemoveAppendLock, RecoverySyncCommits, RecoveryHeadTemp,
        RecoveryRenameHead, RecoverySyncHead, RecoveryUnlinkPending, WriteAudit, LinkAudit,
        SyncAudit, UnlinkAuditPending, ClearIntent
<1>3. CASE AppendStep(p)
  BY <1>3 DEF AppendStep, MakeOperationLock, WriteOperationLease, ReturnFromAppend,
        ReleaseOperationLock, AcquireAppendLock,
        WriteAppendLease, CheckUnderMutex, WritePending, LinkCommit, SyncCommits,
        WriteHeadTemp, RenameHead, SyncHead, UnlinkPending, ReleaseAppendLock
<1>4. CASE IoError(p)
  BY <1>4 DEF IoError
<1> QED
  BY <1>1, <1>2, <1>3, <1>4 DEF Step

\* The token of the lock directory is the durable HEAD it was made under.
LEMMA OlockToken ==
    ASSUME IInv, LockInv, NEW p \in Procs, Step(p), fs'.olock.st # "none"
    PROVE  \/ fs.olock.st # "none" /\ fs'.olock.token = fs.olock.token
           \/ MakeOperationLock(p) /\ fs'.olock.token = disk.head
<1>0. TypeOK /\ fs \in Directory /\ fs.olock \in Olock
  BY DEF IInv, TypeOK, Directory
<1>1. CASE fs'.olock = fs.olock
  BY <1>1
<1>2. CASE fs'.olock # fs.olock /\ pc[p] \in {"opmkdir", "oplease", "unlock"}
  <2> USE <1>0 DEF Directory, Olock, Moves, MovesSynced
  <2>1. CASE MakeOperationLock(p)
    BY <1>2, <2>1 DEF MakeOperationLock
  <2>2. CASE WriteOperationLease(p)
    <3>1. fs.olock.st # "none"
      BY <2>2 DEF WriteOperationLease, LockInv, HolderInv, HolderAt
    <3> QED
      BY <2>2, <3>1 DEF WriteOperationLease
  <2>3. CASE ReleaseOperationLock(p)
    BY <2>3 DEF ReleaseOperationLock, NoOlock
  <2>4. CASE pc[p] = "oplease" /\ IoError(p)
    BY <2>4 DEF IoError, NoOlock
  <2>5. ~Kill(p)
    BY <1>2, KillLock
  <2> QED
    BY <1>2, <2>1, <2>2, <2>3, <2>4, <2>5, LockHandlers
<1> QED
  BY <1>1, <1>2, OlockStep

\* Inside the mutex the owner of append.lock is the process inside, and the
\* store of an idle process that finds no reason against writing is at rest.
LEMMA WritableAtRest ==
    ASSUME IInv, HistoryInv, LagInv, NEW p \in Procs, Writable(p)
    PROVE  /\ fs.alock.st = "none" /\ fs.intent.st = "none"
           /\ Unanchored(fs) = {} /\ disk.head = fs.head
<1>0. TypeOK /\ fs.alock \in Alock /\ fs.intent \in Intent /\ fs.head \in Nat /\ disk.head \in Nat
  BY DEF IInv, TypeOK, Directory
<1>1. ~OwnsMutex(p)
  BY DEF OwnsMutex, Writable, LagInv, OwnerInv, CriticalPcs, AppendPcs
<1>2. Reasons(fs, FALSE, lease[p]) = {}
  BY <1>1 DEF Writable, ReasonsOf, OwnsMutex
<1>3. fs.alock.st # "full" /\ fs.alock.st # "dir" /\ fs.intent.st = "none" /\ Unanchored(fs) = {}
  <2>1. fs.alock.st # "full"
    BY <1>2 DEF Reasons, Reason
  <2>2. fs.alock.st # "dir"
    BY <1>2 DEF Reasons, Reason
  <2>3. fs.intent.st = "none"
    BY <1>2 DEF Reasons, Reason
  <2>4. Unanchored(fs) = {}
    BY <1>2 DEF Reasons, Reason
  <2> QED
    BY <2>1, <2>2, <2>3, <2>4
<1>4. fs.alock.st = "none"
  BY <1>0, <1>3 DEF Alock, LockState
<1>5. disk.head <= fs.head /\ ~(disk.head < fs.head)
  BY <1>3, <1>4 DEF LagInv, HistoryInv, ChainInv
<1> QED
  BY <1>0, <1>3, <1>4, <1>5

-----------------------------------------------------------------------------
(* How calls begin *)

LEMMA CallStarts ==
    ASSUME TypeOK, NEW p \in Procs, Call(p)
    PROVE  /\ Writable(p) /\ lease' = lease /\ fs' = fs /\ disk' = disk
           /\ \/ pc'[p] = "acquire" /\ want'[p].txn \in {"generation-pair.activation", "record"}
              \/ pc'[p] = "opmkdir" /\ want'[p].txn = "operation.begin"
              \/ /\ pc'[p] = "acquire" /\ want'[p].txn \in TerminalTxns
                 /\ want'[p].subj = lease[p] /\ lease[p] # None /\ InProgress(fs, lease[p])
<1> USE DEF TypeOK, Begins, NewCommit
<1>1. CASE Activate(p) \/ Record(p)
  BY <1>1 DEF Activate, Record
<1>2. CASE \E o \in Ops : BeginOperation(p, o)
  BY <1>2 DEF BeginOperation
<1>3. ASSUME NEW txn \in {"operation.no-effect", "operation.recovery-required"},
             EndOperation(p, txn)
      PROVE  /\ Writable(p) /\ lease' = lease /\ fs' = fs /\ disk' = disk
             /\ pc'[p] = "acquire" /\ want'[p].txn \in TerminalTxns
             /\ want'[p].subj = lease[p] /\ lease[p] # None /\ InProgress(fs, lease[p])
  BY <1>3 DEF EndOperation, TerminalTxns
<1> QED
  BY <1>1, <1>2, <1>3 DEF Call

\* p recovers the lock directory it found, by an audit or by an earlier one.
RecoversLock(p) ==
    /\ lease' = lease /\ want'[p].txn \in LockTxns
    /\ want'[p].tag = fs.olock.token /\ want'[p].seq = fs.head + 1
    /\ fs.olock.st # "none"
    /\ fs.olock.st = "full" => ~Started(fs, fs.olock.op) \/ Ended(fs, fs.olock.op)
    /\ \/ pc'[p] = "acquire"
       \/ pc'[p] = "unlock" /\ \E c \in LockAudits : c.tag = fs.olock.token

\* p adopts the lease of a dead owner, and may end its operation.
AdoptsLease(p) ==
    /\ Unanchored(fs) = {} /\ fs.olock.st = "full" /\ InProgress(fs, fs.olock.op)
    /\ lease'[p] = fs.olock.op
    /\ \/ /\ pc'[p] = "acquire"
          /\ want'[p].txn \in TerminalTxns /\ want'[p].subj = fs.olock.op
       \/ pc'[p] = pc[p] /\ want'[p] = want[p]

LEMMA RecoveryCallStarts ==
    ASSUME TypeOK, NEW p \in Procs, RecoveryCall(p)
    PROVE  /\ Quiesced /\ fs' = fs /\ disk' = disk
           /\ \/ RecoversLock(p)
              \/ AdoptsLease(p)
              \/ pc'[p] \in PublishRecoveryPcs /\ lease' = lease /\ want' = want
<1> USE DEF TypeOK, Begins, NewCommit
<1>1. CASE DiscardUnregisteredLock(p) \/ ReconcileTerminalLock(p)
  <2>1. ASSUME NEW txn \in LockTxns, NEW act, StartLockRecovery(p, txn, act), Quiesced,
               fs.olock.st # "none",
               fs.olock.st = "full" => ~Started(fs, fs.olock.op) \/ Ended(fs, fs.olock.op)
        PROVE  fs' = fs /\ disk' = disk /\ RecoversLock(p)
    <3>1. want'[p] = NewCommit(txn, fs.olock.op, act, fs.olock.token)
          /\ pc'[p] = (IF LockAudit(txn, act) THEN "unlock" ELSE "acquire")
          /\ lease' = lease /\ fs' = fs /\ disk' = disk
      BY <2>1 DEF StartLockRecovery
    <3>2. LockAudit(txn, act) => \E c \in LockAudits : c.tag = fs.olock.token
      BY <2>1 DEF LockAudit, LockAudits, Anchored
    <3> QED
      BY <2>1, <3>1, <3>2 DEF RecoversLock
  <2>2. CASE DiscardUnregisteredLock(p)
    BY <2>1, <2>2 DEF DiscardUnregisteredLock, LockTxns
  <2>3. CASE ReconcileTerminalLock(p)
    BY <2>1, <2>3 DEF ReconcileTerminalLock, LockTxns
  <2> QED
    BY <1>1, <2>2, <2>3 DEF DiscardUnregisteredLock, ReconcileTerminalLock
<1>2. CASE RecoverNoEffectAfterCrash(p)
  <2>1. CASE Reasons(fs, FALSE, fs.olock.op) = {}
    BY <1>2, <2>1 DEF RecoverNoEffectAfterCrash, AdoptsLease, TerminalTxns
  <2>2. CASE Reasons(fs, FALSE, fs.olock.op) # {}
    BY <1>2, <2>2 DEF RecoverNoEffectAfterCrash, AdoptsLease
  <2> QED
    BY <1>2, <2>1, <2>2 DEF RecoverNoEffectAfterCrash
<1>3. CASE RecoverInterruptedPublish(p)
  BY <1>3 DEF RecoverInterruptedPublish, PublishRecoveryPcs, PregenesisPcs
<1> QED
  BY <1>1, <1>2, <1>3 DEF RecoveryCall

LEMMA RecoveryStepFrame ==
    ASSUME TypeOK, NEW p \in Procs, RecoveryStep(p)
    PROVE  /\ pc[p] \in PublishRecoveryPcs /\ pc'[p] \in PublishRecoveryPcs \cup {"idle"}
           /\ want' = want /\ lease' = lease
<1>1. pc'[p] \in PublishRecoveryPcs \cup {"idle"}
  BY RecoveryNext
<1> QED
  BY <1>1 DEF RecoveryStep, DiscardPreGenesisLock, DiscardPreGenesisPending,
        WriteIntent, RemoveAppendLock, RecoverySyncCommits, RecoveryHeadTemp,
        RecoveryRenameHead, RecoverySyncHead, RecoveryUnlinkPending, WriteAudit, LinkAudit,
        SyncAudit, UnlinkAuditPending, ClearIntent, PublishRecoveryPcs, PregenesisPcs

-----------------------------------------------------------------------------
(* Who has the operation lock *)

LEMMA PcsApart ==
    /\ PublishRecoveryPcs \cap AppendPcs = {} /\ CallPcs \cap PublishRecoveryPcs = {}
    /\ \A s \in PublishRecoveryPcs \cup AppendPcs : s \notin {"idle", "opmkdir", "oplease", "unlock"}
    /\ "acquire" \in AppendPcs /\ "return" \in AppendPcs /\ CriticalPcs \subseteq AppendPcs
BY DEF PublishRecoveryPcs, PregenesisPcs, AppendPcs, CallPcs, CriticalPcs

LEMMA TxnsApart ==
    /\ "operation.begin" \notin TerminalTxns /\ "operation.begin" \notin LockTxns
    /\ TerminalTxns \cap LockTxns = {} /\ "none" \notin TerminalTxns \cup LockTxns
    /\ LockTxns \subseteq RecoveryTxns
BY DEF TerminalTxns, LockTxns, RecoveryTxns

\* Whoever appends about an operation has its lock.
LEMMA AppenderHolds ==
    ASSUME SubjectInv, LockInv, NEW p \in Procs, pc[p] \in AppendPcs,
           want[p].txn \in {"operation.begin"} \cup TerminalTxns
    PROVE  /\ lease[p] = want[p].subj /\ lease[p] \in Ops /\ lease[p] # None /\ Holds(p)
           /\ fs.olock.st = "full" /\ fs.olock.op = lease[p] /\ disk.olock = fs.olock
<1>1. lease[p] = want[p].subj /\ want[p].subj \in Ops
  BY DEF LockInv, HolderInv, HolderAt, SubjectInv
<1>2. lease[p] # None /\ pc[p] # "unlock"
  BY <1>1, DiskAssumption, PcsApart
<1> QED
  BY <1>1, <1>2 DEF LockInv, HolderInv, HolderAt, Holds

\* The holder that took its lock keeps everybody else out.
LEMMA HolderAlone ==
    ASSUME IInv, SubjectInv, LockInv, NEW p \in Procs, Step(p), Holds(p)', ~Holds(p)
    PROVE  \A q \in Procs \ {p} : ~Holds(q)
<1>0. TypeOK
  BY DEF IInv
<1> SUFFICES ASSUME NEW q \in Procs \ {p}, Holds(q) PROVE FALSE
  OBVIOUS
<1>1. fs.olock.st # "none" /\ ~Quiesced
  <2>1. HolderAt(q)
    BY DEF LockInv, HolderInv
  <2> QED
    BY <2>1 DEF Holds, HolderAt, Quiesced
<1>2. lease[p] = None /\ pc[p] \notin {"oplease", "unlock"} /\ (lease'[p] # None \/ pc'[p] \in {"oplease", "unlock"})
  BY DEF Holds
<1>3. CASE Call(p)
  BY <1>0, <1>2, <1>3, CallStarts
<1>4. CASE RecoveryCall(p)
  BY <1>0, <1>1, <1>4, RecoveryCallStarts
<1>5. CASE RecoveryStep(p)
  BY <1>0, <1>2, <1>5, RecoveryStepFrame, PcsApart
<1>6. CASE MakeOperationLock(p)
  BY <1>0, <1>1, <1>2, <1>6 DEF MakeOperationLock, Ends, TypeOK
<1>7. CASE WriteOperationLease(p) \/ ReleaseOperationLock(p)
  BY <1>2, <1>7 DEF WriteOperationLease, ReleaseOperationLock
<1>8. CASE ReturnFromAppend(p)
  <2>1. pc[p] = "return" /\ lease' = lease /\ AfterAppend(p) = "unlock"
    BY <1>0, <1>2, <1>8 DEF ReturnFromAppend, Ends, TypeOK
  <2>2. want[p].txn \in {"operation.begin"} \cup TerminalTxns \/ want[p].txn \in LockTxns
    BY <2>1 DEF AfterAppend, TerminalTxns, LockTxns
  <2>3. want[p].txn \in LockTxns
    BY <1>2, <2>1, <2>2, AppenderHolds, PcsApart
  <2>4. pc[q] = "idle" /\ lease[q] = None
    BY <2>1, <2>3, Alone, TxnsApart DEF Recovering
  <2> QED
    BY <2>4 DEF Holds
<1>9. CASE Appends(p)
  BY <1>2, <1>9, PcsApart DEF Appends
<1>10. CASE Leaves(p)
  BY <1>2, <1>10 DEF Leaves
<1> QED
  BY <1>3, <1>4, <1>5, <1>6, <1>7, <1>8, <1>9, <1>10, LockSteps

\* What is not guarded before a step that begins no operation is not after it.
LEMMA UnguardedStays ==
    ASSUME IInv, HistoryInv, SubjectInv, NEW p \in Procs, Step(p), NoneGuarded,
           LinkCommit(p) => want[p].txn # "operation.begin"
    PROVE  NoneGuarded'
<1> SUFFICES ASSUME NEW o \in Ops, Guarded(o)' PROVE FALSE
  BY DEF NoneGuarded
<1> QED
  BY GuardedBefore DEF NoneGuarded

\* The others' hold on the lock is untouched by a step of p.
LEMMA OthersHold ==
    ASSUME IInv, HistoryInv, SubjectInv, LockInv, NEW p \in Procs, Step(p), NEW q \in Procs \ {p}
    PROVE  HolderAt(q)'
<1>0. TypeOK
  BY DEF IInv
<1>1. pc'[q] = pc[q] /\ want'[q] = want[q] /\ lease'[q] = lease[q]
  BY <1>0, Frame
<1>2. HolderAt(q)
  BY DEF LockInv, HolderInv
<1>3. CASE ~Holds(q)
  BY <1>1, <1>2, <1>3 DEF HolderAt, Holds
<1>4. CASE Holds(q)
  <2>1. fs'.olock = fs.olock /\ (disk.olock = fs.olock => disk'.olock = fs'.olock)
    BY <1>4, OlockFrame
  <2>2. LinkCommit(p) => want[p].txn # "operation.begin"
    <3> SUFFICES ASSUME LinkCommit(p), want[p].txn = "operation.begin" PROVE FALSE
      OBVIOUS
    <3>1. Holds(p)
      BY AppenderHolds, PcsApart DEF LinkCommit, AppendPcs
    <3> QED
      BY <1>4, <3>1 DEF LockInv, HolderInv
  <2>3. NoneGuarded => NoneGuarded'
    BY <2>2, UnguardedStays
  <2> QED
    BY <1>1, <1>2, <2>1, <2>3 DEF HolderAt
<1> QED
  BY <1>3, <1>4

\* Of the operations only the one the lock is about can be guarded.
LEMMA GuardedIsLocked ==
    ASSUME LockInv, NEW o \in Ops, Guarded(o)
    PROVE  fs.olock.st = "full" /\ fs.olock.op = o
BY DEF LockInv, GuardInv

\* A call that goes on to remove the lock leaves no operation without it.
LEMMA RemovesUnguarded ==
    ASSUME IInv, SubjectInv, HistoryInv, LockInv, NEW p \in Procs,
           pc[p] = "return", AfterAppend(p) = "unlock"
    PROVE  NoneGuarded /\ fs.olock.st # "none"
<1>0. TypeOK /\ fs \in Directory /\ disk.commits \subseteq fs.commits /\ pc[p] \in AppendPcs
  BY PcsApart DEF IInv, TypeOK, DurableInv
<1>1. CASE want[p].txn \in LockTxns
  <2>1. ok[p]
    BY <1>1 DEF AfterAppend, LockTxns, TerminalTxns
  <2> QED
    BY <1>0, <1>1, <2>1 DEF LockInv, EndingInv, AuditAt
<1>2. CASE want[p].txn \in {"operation.begin"} \cup TerminalTxns
  <2>1. fs.olock.st = "full" /\ fs.olock.op = want[p].subj /\ want[p].subj \in Ops
    BY <1>0, <1>2, AppenderHolds
  <2>2. SUFFICES ASSUME Guarded(want[p].subj) PROVE FALSE
    BY <2>1, GuardedIsLocked DEF NoneGuarded
  <2>3. \A c \in EndsOf(want[p].subj) : c.seq > disk.head
    BY <2>2 DEF Guarded
  <2>4. CASE want[p].txn = "operation.begin"
    <3>1. ~Started(fs, want[p].subj) /\ Unanchored(fs) = {}
      BY <2>4 DEF AfterAppend, BeginMayBeDurable, TerminalTxns
    <3>2. BeginsOf(want[p].subj) = {}
      BY <1>0, <3>1 DEF BeginsOf, Started, Anchored, Unanchored, Directory, Commit
    <3> QED
      BY <2>2, <3>2 DEF Guarded
  <2>5. CASE want[p].txn \in TerminalTxns /\ ok[p]
    <3>1. want[p] \in Anchored(disk)
      BY <2>5 DEF HistoryInv, WriterInv, WriterAt
    <3>2. want[p] \in EndsOf(want[p].subj) /\ want[p].seq <= disk.head
      BY <1>0, <2>5, <3>1 DEF Anchored, EndsOf
    <3> QED
      BY <1>0, <2>3, <3>2, HistoryTypes
  <2>6. CASE want[p].txn \in TerminalTxns /\ ~ok[p]
    <3>1. ~InProgress(fs, want[p].subj)
      BY <2>6 DEF AfterAppend, TerminalTxns
    <3>2. TerminalAt(p)
      BY DEF LockInv, EndingInv
    <3>3. PICK c \in Anchored(fs) : c.txn \in TerminalTxns /\ c.subj = want[p].subj
      BY <1>0, <2>6, <3>1, <3>2 DEF TerminalAt, InProgress, Ended
    <3>4. c \in EndsOf(want[p].subj) /\ c.seq <= fs.head
      BY <3>3 DEF EndsOf, Anchored
    <3>5. c = want[p]
      BY <1>0, <2>6, <3>2, <3>4 DEF TerminalAt
    <3>6. want[p].seq <= disk.head
      BY <1>0, <2>6, <3>2, <3>4, <3>5, HistoryTypes DEF TerminalAt
    <3> QED
      BY <1>0, <2>3, <3>4, <3>5, <3>6, HistoryTypes
  <2> QED
    BY <1>2, <2>4, <2>5, <2>6
<1> QED
  BY <1>1, <1>2 DEF AfterAppend, TerminalTxns, LockTxns

\* An operation in progress is guarded.
LEMMA InProgressGuarded ==
    ASSUME IInv, SubjectInv, HistoryInv, NEW o, InProgress(fs, o)
    PROVE  o \in Ops /\ Guarded(o)
<1>0. TypeOK
  BY DEF IInv
<1>1. PICK b \in Anchored(fs) : b.txn = "operation.begin" /\ b.subj = o
  BY DEF InProgress, Started
<1>2. o \in Ops /\ BeginsOf(o) # {}
  BY <1>1 DEF Anchored, SubjectInv, BeginsOf
<1>3. ASSUME NEW c \in EndsOf(o) PROVE c.seq > disk.head
  <2>1. c \in fs.commits /\ c \notin Anchored(fs)
    BY <1>3 DEF InProgress, Ended, EndsOf
  <2>2. disk.head <= fs.head
    BY DEF HistoryInv, ChainInv
  <2> QED
    BY <1>0, <2>1, <2>2, HistoryTypes DEF Anchored
<1> QED
  BY <1>2, <1>3 DEF Guarded

\* p's own hold on the lock, after its step.
LEMMA OwnHold ==
    ASSUME IInv, HistoryInv, SubjectInv, LockInv, NEW p \in Procs, Step(p)
    PROVE  HolderAt(p)'
<1>0. TypeOK /\ fs \in Directory /\ disk \in Directory /\ fs.olock \in Olock
  BY DEF IInv, TypeOK, Directory
<1>1. HolderAt(p) /\ (fs'.olock = fs.olock /\ disk.olock = fs.olock => disk'.olock = fs'.olock)
  BY OlockStep DEF LockInv, HolderInv
<1>2. CASE Call(p)
  <2>1. pc[p] = "idle" /\ lease' = lease /\ fs' = fs /\ disk' = disk
    BY <1>0, <1>2, CallStarts DEF Writable
  <2>2. lease'[p] # None =>
          fs'.olock.st = "full" /\ fs'.olock.op = lease'[p] /\ disk'.olock = fs'.olock
    BY <1>1, <2>1 DEF HolderAt
  <2>3. CASE pc'[p] = "opmkdir" /\ want'[p].txn = "operation.begin"
    BY <2>2, <2>3, PcsApart DEF HolderAt
  <2>4. CASE pc'[p] = "acquire" /\ want'[p].txn \in {"generation-pair.activation", "record"}
    BY <2>2, <2>4 DEF HolderAt, TerminalTxns
  <2>5. CASE pc'[p] = "acquire" /\ want'[p].txn \in TerminalTxns /\ want'[p].subj = lease[p]
    BY <2>1, <2>2, <2>5 DEF HolderAt
  <2> QED
    BY <1>0, <1>2, <2>3, <2>4, <2>5, CallStarts
<1>3. CASE RecoveryCall(p)
  <2>1. Quiesced /\ fs' = fs /\ disk' = disk /\ pc[p] = "idle" /\ lease[p] = None
    BY <1>0, <1>3, RecoveryCallStarts DEF Quiesced
  <2>2. CASE RecoversLock(p)
    <3>1. pc'[p] \in {"acquire", "unlock"} /\ lease'[p] = None /\ want'[p].txn \in LockTxns
          /\ fs.olock.st # "none"
      BY <2>1, <2>2 DEF RecoversLock
    <3>2. pc'[p] = "unlock" => NoneGuarded
      <4> SUFFICES ASSUME pc'[p] = "unlock", NEW o \in Ops, Guarded(o) PROVE FALSE
        BY DEF NoneGuarded
      <4>1. PICK c \in LockAudits : c.tag = fs.olock.token
        BY <2>2 DEF RecoversLock
      <4> QED
        BY <4>1 DEF LockInv, GuardInv
    <3>3. NoneGuarded => NoneGuarded'
      BY <2>1 DEF NoneGuarded, Guarded, BeginsOf, EndsOf
    <3> QED
      BY <2>1, <3>1, <3>2, <3>3, TxnsApart DEF HolderAt
  <2>3. CASE AdoptsLease(p)
    <3>1. disk.olock = fs.olock /\ fs.olock.st = "full"
      BY <2>3, InProgressGuarded DEF AdoptsLease, LockInv, GuardInv
    <3> QED
      BY <2>1, <2>3, <3>1, PcsApart, TxnsApart DEF AdoptsLease, HolderAt
  <2>4. CASE pc'[p] \in PublishRecoveryPcs /\ lease' = lease /\ want' = want
    BY <2>1, <2>4, PcsApart DEF HolderAt
  <2> QED
    BY <1>0, <1>3, <2>2, <2>3, <2>4, RecoveryCallStarts
<1>4. CASE RecoveryStep(p)
  <2>1. pc[p] \in PublishRecoveryPcs /\ pc'[p] \in PublishRecoveryPcs \cup {"idle"}
        /\ want' = want /\ lease' = lease
    BY <1>0, <1>4, RecoveryStepFrame
  <2>2. fs'.olock = fs.olock
    BY <2>1, OlockStep, PcsApart
  <2> QED
    BY <1>1, <2>1, <2>2, PcsApart DEF HolderAt
<1>5. CASE MakeOperationLock(p)
  <2>1. pc[p] = "opmkdir" /\ lease' = lease
    BY <1>5 DEF MakeOperationLock
  <2>2. CASE fs.olock.st = "none"
    <3>1. pc'[p] = "oplease" /\ want' = want /\ fs'.olock.st = "dir" /\ fs'.olock.op = want[p].subj
      BY <1>0, <1>5, <2>2 DEF MakeOperationLock, Moves, TypeOK, Directory
    <3>2. lease[p] = None
      BY <1>1, <2>1, <2>2 DEF HolderAt
    <3> QED
      BY <1>1, <2>1, <3>1, <3>2, PcsApart DEF HolderAt
  <2>3. CASE fs.olock.st # "none"
    <3>1. pc'[p] = "idle" /\ fs' = fs /\ disk' = disk
      BY <1>0, <1>5, <2>3 DEF MakeOperationLock, Ends, TypeOK
    <3> QED
      BY <1>1, <2>1, <3>1, PcsApart DEF HolderAt
  <2> QED
    BY <2>2, <2>3
<1>6. CASE WriteOperationLease(p)
  <2>1. pc[p] = "oplease" /\ pc'[p] = "acquire" /\ want' = want /\ lease'[p] = want[p].subj
        /\ fs' = [fs EXCEPT !.olock.st = "full"] /\ disk' = RootSynced(disk, fs')
    BY <1>0, <1>6 DEF WriteOperationLease, MovesSynced, TypeOK
  <2>2. fs'.olock.st = "full" /\ fs'.olock.op = fs.olock.op
    BY <1>0, <2>1 DEF Directory, Olock
  <2>3. disk'.olock = fs'.olock
    BY <1>0, <2>1 DEF RootSynced, Directory
  <2> QED
    BY <1>1, <2>1, <2>2, <2>3 DEF HolderAt
<1>7. CASE ReturnFromAppend(p)
  <2>1. pc[p] = "return" /\ lease' = lease /\ fs' = fs /\ disk' = disk
    BY <1>7 DEF ReturnFromAppend
  <2>2. CASE AfterAppend(p) = "unlock"
    <3>1. pc'[p] = "unlock" /\ want' = want
      BY <1>0, <1>7, <2>2 DEF ReturnFromAppend, TypeOK
    <3>2. NoneGuarded /\ fs.olock.st # "none"
      BY <2>1, <2>2, RemovesUnguarded
    <3>3. NoneGuarded'
      BY <2>1, <3>2 DEF NoneGuarded, Guarded, BeginsOf, EndsOf
    <3> QED
      BY <2>1, <3>1, <3>2, <3>3, PcsApart DEF HolderAt
  <2>3. CASE AfterAppend(p) # "unlock"
    <3>1. pc'[p] = "idle"
      BY <1>0, <1>7, <2>3 DEF ReturnFromAppend, Ends, TypeOK
    <3> QED
      BY <1>1, <2>1, <3>1, PcsApart DEF HolderAt
  <2> QED
    BY <2>2, <2>3
<1>8. CASE ReleaseOperationLock(p)
  <2>1. pc[p] = "unlock"
    BY <1>8 DEF ReleaseOperationLock
  <2>2. CASE fs.olock.st = "full"
    <3>1. pc'[p] = "unlock" /\ fs'.olock.st = "dir"
      BY <1>0, <1>8, <2>2 DEF ReleaseOperationLock, Moves, TypeOK, Directory, Olock
    <3>2. NoneGuarded'
      BY <1>1, <2>1, UnguardedStays DEF HolderAt, LinkCommit
    <3> QED
      BY <3>1, <3>2, PcsApart DEF HolderAt
  <2>3. CASE fs.olock.st # "full"
    <3>1. pc'[p] = "idle" /\ lease'[p] = None
      BY <1>0, <1>8, <2>3 DEF ReleaseOperationLock, Ends, TypeOK
    <3> QED
      BY <3>1, PcsApart DEF HolderAt
  <2> QED
    BY <2>2, <2>3
<1>9. CASE Appends(p)
  BY <1>1, <1>9, PcsApart DEF Appends, HolderAt
<1>10. CASE Leaves(p)
  <2>1. lease'[p] = None
    BY <1>1, <1>10 DEF Leaves, HolderAt
  <2> QED
    BY <1>10, <2>1, PcsApart DEF Leaves, HolderAt
<1> QED
  BY <1>2, <1>3, <1>4, <1>5, <1>6, <1>7, <1>8, <1>9, <1>10, LockSteps

LEMMA HolderPreserved ==
    ASSUME IInv, HistoryInv, SubjectInv, LockInv, NEW p \in Procs, Step(p)
    PROVE  HolderInv'
<1>0. TypeOK
  BY DEF IInv
<1>1. \A q \in Procs : HolderAt(q)'
  BY OwnHold, OthersHold
<1>2. ASSUME NEW q \in Procs, NEW r \in Procs, Holds(q)', Holds(r)', q # r PROVE FALSE
  <2>1. \A s \in Procs \ {p} : Holds(s)' => Holds(s)
    BY <1>0, Frame DEF Holds
  <2>2. CASE q # p /\ r # p
    BY <1>2, <2>1, <2>2 DEF LockInv, HolderInv
  <2>3. ASSUME NEW s \in Procs \ {p}, Holds(s)', Holds(p)' PROVE FALSE
    <3>1. Holds(s)
      BY <2>1, <2>3
    <3> QED
      BY <2>3, <3>1, HolderAlone DEF LockInv, HolderInv
  <2> QED
    BY <1>2, <2>2, <2>3
<1> QED
  BY <1>1, <1>2 DEF HolderInv

-----------------------------------------------------------------------------
(* Which lock an audit is about *)

\* What a step makes of the commit p's call appends.
LEMMA WantFrame ==
    ASSUME IInv, NEW p \in Procs, Step(p)
    PROVE  \/ want'[p] \in {want[p], NoCommit}
           \/ Call(p)
           \/ Quiesced /\ (RecoversLock(p) \/ AdoptsLease(p))
<1>0. TypeOK
  BY DEF IInv
<1>1. CASE RecoveryCall(p)
  BY <1>0, <1>1, RecoveryCallStarts
<1>2. CASE RecoveryStep(p)
  BY <1>0, <1>2, RecoveryStepFrame
<1>3. CASE MakeOperationLock(p) \/ WriteOperationLease(p) \/ ReturnFromAppend(p)
           \/ ReleaseOperationLock(p)
  BY <1>0, <1>3 DEF MakeOperationLock, WriteOperationLease, ReturnFromAppend,
                    ReleaseOperationLock, Moves, MovesSynced, Ends, TypeOK
<1>4. CASE Appends(p) \/ Leaves(p)
  BY <1>4 DEF Appends, Leaves
<1> QED
  BY <1>1, <1>2, <1>3, <1>4, LockSteps

\* An audit is numbered after the lock directory it is about.
LEMMA TagPreserved ==
    ASSUME IInv, HistoryInv, LockInv, NEW p \in Procs, Step(p), want'[p].txn \in LockTxns
    PROVE  want'[p].tag < want'[p].seq
<1>0. TypeOK /\ fs.head \in Nat /\ disk.head \in Nat /\ fs.olock.token \in Nat
  BY DEF IInv, TypeOK, Directory, Olock
<1>1. CASE want'[p] \in {want[p], NoCommit}
  BY <1>1, TxnsApart DEF LockInv, TokenInv, TokenAt, NoCommit
<1>2. CASE Call(p)
  BY <1>0, <1>2, CallStarts, TxnsApart DEF LockTxns
<1>3. CASE RecoversLock(p)
  <2>1. fs.olock.token <= disk.head /\ disk.head <= fs.head
    BY <1>3 DEF RecoversLock, LockInv, TokenInv, HistoryInv, ChainInv
  <2> QED
    BY <1>0, <1>3, <2>1 DEF RecoversLock
<1>4. CASE AdoptsLease(p)
  BY <1>1, <1>4, TxnsApart DEF AdoptsLease
<1> QED
  BY <1>1, <1>2, <1>3, <1>4, WantFrame

\* Where a call that makes a lock comes from.
LEMMA MakesLock ==
    ASSUME IInv, NEW p \in Procs, Step(p), pc'[p] = "opmkdir"
    PROVE  Call(p)
<1>0. TypeOK
  BY DEF IInv
<1>1. CASE RecoveryCall(p)
  BY <1>0, <1>1, RecoveryCallStarts, PcsApart DEF RecoversLock, AdoptsLease, Quiesced
<1>2. CASE RecoveryStep(p)
  BY <1>0, <1>2, RecoveryStepFrame, PcsApart
<1>3. CASE MakeOperationLock(p) \/ WriteOperationLease(p) \/ ReturnFromAppend(p)
           \/ ReleaseOperationLock(p)
  BY <1>0, <1>3 DEF MakeOperationLock, WriteOperationLease, ReturnFromAppend,
                    ReleaseOperationLock, Moves, MovesSynced, Ends, TypeOK
<1>4. CASE Appends(p) \/ Leaves(p)
  BY <1>4, PcsApart DEF Appends, Leaves
<1> QED
  BY <1>1, <1>2, <1>3, <1>4, LockSteps

\* The appending steps in the order a call takes them.
Early == {"acquire", "lease", "check", "pending", "link"}

LEMMA EarlyBefore ==
    ASSUME IInv, NEW p \in Procs, Step(p), Appends(p), pc'[p] \in Early
    PROVE  /\ pc[p] \in {"acquire", "lease", "check", "pending"}
           /\ fs'.commits = fs.commits /\ fs'.head = fs.head /\ disk'.head \in {disk.head, fs.head}
           /\ pc'[p] \in {"acquire", "lease", "check"} => pc[p] \in {"acquire", "lease"}
           /\ pc'[p] \in {"pending", "link"} =>
                (CheckUnderMutex(p) /\ AppendAllowed(p)) \/ pc[p] = "pending"
<1>0. TypeOK
  BY DEF IInv
<1>1. pc[p] \in AppendPcs /\ pc[p] # "idle"
  BY PcsApart DEF Appends
<1>2. ~RecoveryStep(p) /\ ~Call(p) /\ ~RecoveryCall(p) /\ ~Exit(p)
  <2>1. ~RecoveryStep(p)
    BY <1>0, <1>1, RecoveryStepFrame, PcsApart
  <2>2. ~Call(p)
    BY <1>0, <1>1, CallStarts DEF Writable
  <2>3. ~RecoveryCall(p)
    BY <1>0, <1>1, RecoveryCallStarts DEF Quiesced
  <2> QED
    BY <1>1, <2>1, <2>2, <2>3 DEF Exit
<1>3. ~Kill(p) /\ ~IoError(p)
  BY <1>0, PcsApart DEF Kill, IoError, Ends, Fails, TypeOK, Early, Appends
<1>4. AppendStep(p)
  BY <1>2, <1>3 DEF Step
<1>5. ~LinkCommit(p) /\ ~RenameHead(p)
  BY LoudSteps DEF Early
<1>6. fs'.commits = fs.commits /\ fs'.head = fs.head /\ disk'.head \in {disk.head, fs.head}
  BY <1>4, <1>5, AppendQuiet DEF Quiet
<1>7. \/ AcquireAppendLock(p) /\ pc[p] = "acquire" /\ pc'[p] = "lease"
      \/ WriteAppendLease(p) /\ pc[p] = "lease" /\ pc'[p] = "check"
      \/ CheckUnderMutex(p) /\ AppendAllowed(p) /\ pc[p] = "check" /\ pc'[p] = "pending"
      \/ WritePending(p) /\ pc[p] = "pending" /\ pc'[p] = "link"
  <2> USE <1>0 DEF TypeOK, Moves, MovesSynced, Ends, Fails, Early
  <2>1. CASE AcquireAppendLock(p)
    BY <2>1 DEF AcquireAppendLock
  <2>2. CASE WriteAppendLease(p)
    BY <2>2 DEF WriteAppendLease
  <2>3. CASE CheckUnderMutex(p)
    BY <2>3 DEF CheckUnderMutex
  <2>4. CASE WritePending(p)
    BY <2>4 DEF WritePending
  <2>5. ~MakeOperationLock(p) /\ ~WriteOperationLease(p) /\ ~ReleaseOperationLock(p)
    BY <1>1, PcsApart DEF MakeOperationLock, WriteOperationLease, ReleaseOperationLock
  <2>6. ~SyncCommits(p) /\ ~WriteHeadTemp(p) /\ ~SyncHead(p)
    BY DEF SyncCommits, WriteHeadTemp, SyncHead
  <2>7. ~UnlinkPending(p) /\ ~ReleaseAppendLock(p) /\ ~ReturnFromAppend(p)
    BY DEF UnlinkPending, ReleaseAppendLock, ReturnFromAppend
  <2> QED
    BY <1>4, <1>5, <2>1, <2>2, <2>3, <2>4, <2>5, <2>6, <2>7 DEF AppendStep
<1> QED
  BY <1>6, <1>7

LEMMA TokenPreserved ==
    ASSUME IInv, HistoryInv, SubjectInv, LockInv, NEW p \in Procs, Step(p)
    PROVE  TokenInv'
<1>0. TypeOK /\ fs \in Directory /\ fs.head \in Nat /\ disk.head \in Nat /\ disk'.head \in Nat
      /\ disk.head <= disk'.head /\ fs.olock.token \in Nat /\ disk.olock.token \in Nat
  <2>1. TypeOK /\ TypeOK'
    BY NextTypes DEF IInv, Next
  <2> QED
    BY <2>1, DiskGrows DEF TypeOK, Directory, Olock
<1>1. fs'.olock.st # "none" => fs'.olock.token <= disk'.head /\ fs'.olock.token \in Nat
  BY <1>0, OlockToken DEF LockInv, TokenInv
<1>2. disk'.olock.st # "none" => disk'.olock.token <= disk'.head
  BY <1>0, <1>1, OlockStep DEF LockInv, TokenInv
<1>3. \A e \in LockAudits' : e.tag < e.seq
  BY AuditsBefore DEF LockInv, TokenInv, TokenAt
<1>4. \A e \in LockAudits : e.seq \in Nat /\ e.tag \in Nat
  BY <1>0 DEF LockAudits, Directory, Commit
<1>5. ~Recovering(p) => LockAudits' = LockAudits
  BY AuditsBefore
<1>6. ASSUME NEW q \in Procs \ {p} PROVE TokenAt(q)'
  <2>1. pc'[q] = pc[q] /\ want'[q] = want[q] /\ lease'[q] = lease[q] /\ TokenAt(q)
    BY <1>0, Frame DEF LockInv, TokenInv
  <2>2. pc[q] # "idle" => LockAudits' = LockAudits
    BY <1>5, Alone
  <2>3. CASE pc[q] = "opmkdir"
    <3>1. \A e \in LockAudits : e.seq <= disk'.head
      BY <1>0, <1>4, <2>1, <2>3 DEF TokenAt
    <3> QED
      BY <2>1, <2>2, <2>3, <3>1 DEF TokenAt
  <2>4. CASE pc[q] \in {"oplease"} \cup Early /\ want[q].txn = "operation.begin"
    <3>1. Holds(q)
      <4>1. CASE pc[q] = "oplease"
        BY <4>1 DEF Holds
      <4>2. CASE pc[q] \in Early
        BY <2>4, <4>2, AppenderHolds DEF Early, AppendPcs
      <4> QED
        BY <2>4, <4>1, <4>2
    <3>2. fs'.olock = fs.olock /\ LockAudits' = LockAudits
      BY <2>2, <2>4, <3>1, OlockFrame DEF Early
    <3>3. pc[q] # "opmkdir"
      BY <2>4 DEF Early
    <3> QED
      BY <2>1, <2>4, <3>2, <3>3 DEF TokenAt, Early
  <2>5. CASE /\ pc[q] # "opmkdir"
             /\ ~(pc[q] \in {"oplease"} \cup Early /\ want[q].txn = "operation.begin")
    BY <2>1, <2>5 DEF TokenAt, Early
  <2> QED
    BY <2>3, <2>4, <2>5
<1>7. TokenAt(p)'
  <2>1. pc'[p] = "opmkdir" => \A e \in LockAudits' : e.seq <= disk'.head
    <3> SUFFICES ASSUME pc'[p] = "opmkdir" PROVE \A e \in LockAudits' : e.seq <= disk'.head
      OBVIOUS
    <3>1. Call(p)
      BY MakesLock
    <3>2. Writable(p) /\ fs' = fs /\ disk' = disk
      BY <1>0, <3>1, CallStarts
    <3>3. Unanchored(fs) = {} /\ disk.head = fs.head
      BY <3>2, WritableAtRest DEF LockInv
    <3>4. \A e \in LockAudits : e.seq <= disk.head
      BY <1>0, <1>4, <3>3 DEF Unanchored, LockAudits
    <3> QED
      BY <3>2, <3>4 DEF LockAudits
  <2>2. ASSUME pc'[p] \in {"oplease"} \cup Early, want'[p].txn = "operation.begin"
        PROVE  \A e \in LockAudits' : e.tag # fs'.olock.token
    <3>1. CASE MakeOperationLock(p)
      <4>1. pc[p] = "opmkdir" /\ fs'.olock.token = disk.head /\ fs'.commits = fs.commits
        BY <1>0, <2>2, <3>1 DEF MakeOperationLock, Moves, Ends, TypeOK, Directory, Early
      <4>2. \A e \in LockAudits : e.seq <= disk.head /\ e.tag < e.seq
        BY <4>1 DEF LockInv, TokenInv, TokenAt
      <4>3. LockAudits' = LockAudits
        BY <4>1 DEF LockAudits
      <4> QED
        BY <1>0, <1>4, <4>1, <4>2, <4>3
    <3>2. CASE WriteOperationLease(p)
      <4>1. pc[p] = "oplease" /\ fs'.olock.token = fs.olock.token /\ fs'.commits = fs.commits
            /\ want' = want
        BY <1>0, <3>2 DEF WriteOperationLease, MovesSynced, Directory, Olock
      <4>2. LockAudits' = LockAudits
        BY <4>1 DEF LockAudits
      <4> QED
        BY <2>2, <4>1, <4>2 DEF LockInv, TokenInv, TokenAt
    <3>3. CASE Appends(p)
      <4>1. pc'[p] \in Early
        BY <2>2, <3>3, PcsApart DEF Appends
      <4>2. pc[p] \in Early /\ fs'.commits = fs.commits /\ fs'.olock = fs.olock /\ want' = want
        BY <3>3, <4>1, EarlyBefore DEF Appends, Early
      <4>3. LockAudits' = LockAudits
        BY <4>2 DEF LockAudits
      <4> QED
        BY <2>2, <4>2, <4>3 DEF LockInv, TokenInv, TokenAt, Early
    <3>4. ~Call(p)
      BY <1>0, <2>2, CallStarts, TxnsApart DEF Early
    <3>5. ~RecoveryCall(p)
      BY <1>0, <2>2, RecoveryCallStarts, TxnsApart, PcsApart DEF Early, RecoversLock, AdoptsLease,
         Quiesced, AppendPcs
    <3>6. ~RecoveryStep(p)
      BY <1>0, <2>2, RecoveryStepFrame, PcsApart DEF Early, AppendPcs
    <3>7. ~ReturnFromAppend(p) /\ ~ReleaseOperationLock(p) /\ ~Leaves(p)
      BY <1>0, <2>2 DEF ReturnFromAppend, ReleaseOperationLock, Moves, Ends, Leaves, TypeOK, Early
    <3> QED
      BY <3>1, <3>2, <3>3, <3>4, <3>5, <3>6, <3>7, LockSteps
  <2> QED
    BY <2>1, <2>2, TagPreserved DEF TokenAt, Early
<1> QED
  BY <1>1, <1>2, <1>3, <1>6, <1>7 DEF TokenInv

-----------------------------------------------------------------------------
(* The end of an operation *)

\* The commits about the end of o are appended by the holder of its lock.
LEMMA EndsBefore ==
    ASSUME IInv, SubjectInv, NEW p \in Procs, Step(p), NEW o
    PROVE  \/ EndsOf(o)' = EndsOf(o)
           \/ /\ LinkCommit(p) /\ want[p].txn \in TerminalTxns /\ want[p].subj = o
              /\ EndsOf(o)' = EndsOf(o) \cup {want[p]}
<1>1. CASE fs'.commits = fs.commits
  BY <1>1 DEF EndsOf
<1>2. CASE LinkCommit(p) /\ fs'.commits = fs.commits \cup {want[p]}
  BY <1>2 DEF EndsOf
<1>3. CASE LinkAudit(p) /\ fs'.commits = fs.commits \cup {fs.intent.audit}
  <2>1. fs.intent.st = "full"
    BY <1>3, LoudSteps, IntentStep DEF IntentPcs, PublishRecoveryPcs, PregenesisPcs
  <2> QED
    BY <1>3, <2>1 DEF EndsOf, TerminalTxns, SubjectInv
<1> QED
  BY <1>1, <1>2, <1>3, CommitsGrow

\* A begin that HEAD anchors stays anchored.
LEMMA StartedStays ==
    ASSUME IInv, HistoryInv, NEW p \in Procs, Step(p), NEW o, Started(fs, o)
    PROVE  Started(fs', o)
BY HeadGrows DEF Started

\* What is known of an operation whose end another process appends.
LEMMA OthersEnding ==
    ASSUME IInv, HistoryInv, SubjectInv, LockInv, NEW p \in Procs, Step(p), NEW q \in Procs \ {p}
    PROVE  TerminalAt(q)' /\ AuditAt(q)'
<1>0. TypeOK
  BY DEF IInv
<1>1. pc'[q] = pc[q] /\ want'[q] = want[q] /\ lease'[q] = lease[q] /\ ok'[q] = ok[q]
      /\ TerminalAt(q) /\ ~Recovering(q)
  BY <1>0, Frame, Alone DEF LockInv, EndingInv
<1>2. AuditAt(q)'
  <2>1. pc[q] \in AppendPcs => want[q].txn \notin LockTxns
    BY <1>1, TxnsApart, PcsApart DEF Recovering
  <2> QED
    BY <1>1, <2>1 DEF AuditAt
<1>3. TerminalAt(q)'
  <2>0. PICK w \in Commit : w = want[q]
    BY <1>0 DEF TypeOK
  <2> SUFFICES ASSUME pc[q] \in AppendPcs, w.txn \in TerminalTxns
               PROVE  /\ Started(fs', w.subj)
                      /\ EndsOf(w.subj)' = EndsOf(w.subj)
                      /\ pc[q] = "return" /\ EndsOf(w.subj) # {}
                           => w.seq <= disk'.head \/ w.seq > fs'.head
    BY <1>1, <2>0 DEF TerminalAt, EndsOf
  <2>1. Started(fs, w.subj) /\ EndsOf(w.subj) \subseteq {w}
        /\ (pc[q] = "return" /\ EndsOf(w.subj) # {} => w.seq <= disk.head \/ w.seq > fs.head)
    BY <1>1, <2>0 DEF TerminalAt
  <2>2. lease[q] = w.subj /\ Holds(q)
    BY <2>0, AppenderHolds
  <2>3. pc[p] \in AppendPcs /\ want[p].txn \in TerminalTxns => want[p].subj # w.subj
    <3> SUFFICES ASSUME pc[p] \in AppendPcs, want[p].txn \in TerminalTxns PROVE FALSE
      OBVIOUS
    <3>1. Holds(p)
      BY AppenderHolds
    <3> QED
      BY <2>2, <3>1 DEF LockInv, HolderInv
  <2>4. EndsOf(w.subj)' = EndsOf(w.subj)
    <3>1. LinkCommit(p) => pc[p] \in AppendPcs
      BY DEF LinkCommit, AppendPcs
    <3>2. PICK o : o = w.subj
      OBVIOUS
    <3>3. EndsOf(o)' = EndsOf(o)
      BY <2>3, <3>1, <3>2, EndsBefore
    <3> QED
      BY <3>2, <3>3
  <2>5. ASSUME pc[q] = "return", EndsOf(w.subj) # {}
        PROVE  w.seq <= disk'.head \/ w.seq > fs'.head
    <3>0. w.seq \in Nat /\ disk.head \in Nat /\ disk'.head \in Nat /\ fs.head \in Nat
          /\ fs'.head \in Nat /\ disk.head <= disk'.head
      <4>1. TypeOK'
        BY NextTypes DEF IInv, Next
      <4> QED
        BY <1>0, <4>1, DiskGrows DEF TypeOK, Directory, Commit
    <3>1. CASE w.seq <= disk.head \/ fs'.head = fs.head
      BY <2>1, <2>5, <3>0, <3>1
    <3>2. CASE w.seq > fs.head /\ fs'.head # fs.head
      <4>1. RenameHead(p) \/ RecoveryRenameHead(p)
        BY <3>2, QuietSteps, LoudSteps DEF Quiet
      <4>2. ~RecoveryRenameHead(p)
        <5> SUFFICES ASSUME RecoveryRenameHead(p) PROVE FALSE
          OBVIOUS
        <5>1. Recovering(p)
          BY LoudSteps, IntentStep DEF IntentPcs, PublishRecoveryPcs, PregenesisPcs
        <5> QED
          BY <5>1, Alone, PcsApart
      <4>3. pc[p] = "rename" /\ fs'.head = want[p].seq /\ fs'.head = fs.head + 1
            /\ want[p] \in fs.commits
        BY <4>1, <4>2, LoudSteps, HeadAdvances DEF HistoryInv, WriterInv, WriterAt
      <4>4. w \in fs.commits
        BY <2>1, <2>5 DEF EndsOf
      <4>5. w # want[p]
        BY <2>3, <4>3 DEF AppendPcs
      <4>6. w.seq # want[p].seq
        BY <4>3, <4>4, <4>5 DEF IInv, NoFork
      <4> QED
        BY <3>0, <3>2, <4>3, <4>6
    <3> QED
      BY <2>1, <2>5, <3>1, <3>2
  <2> QED
    BY <2>1, <2>4, <2>5, StartedStays
<1> QED
  BY <1>2, <1>3

\* How an append comes to its return.
LEMMA ReturnBefore ==
    ASSUME IInv, NEW p \in Procs, Step(p), Appends(p), pc'[p] = "return"
    PROVE  \/ pc[p] \in {"acquire", "lease"} /\ ~ok'[p] /\ fs'.commits = fs.commits
           \/ pc[p] = "release" /\ ok'[p] = ok[p] /\ disk'.head = fs'.head
<1>0. TypeOK /\ fs \in Directory
  BY DEF IInv, TypeOK
<1>1. pc[p] \in AppendPcs /\ pc[p] # "idle"
  BY PcsApart DEF Appends
<1>2. ~RecoveryStep(p) /\ ~Call(p) /\ ~RecoveryCall(p) /\ ~Exit(p)
  <2>1. ~RecoveryStep(p)
    BY <1>0, <1>1, RecoveryStepFrame, PcsApart
  <2>2. ~Call(p)
    BY <1>0, <1>1, CallStarts DEF Writable
  <2>3. ~RecoveryCall(p)
    BY <1>0, <1>1, RecoveryCallStarts DEF Quiesced
  <2> QED
    BY <1>1, <2>1, <2>2, <2>3 DEF Exit
<1>3. CASE IoError(p)
  <2>1. pc[p] = "lease" /\ ~ok'[p] /\ fs' = [fs EXCEPT !.alock = NoAlock]
    BY <1>0, <1>3 DEF IoError, Ends, Fails, TypeOK
  <2> QED
    BY <1>0, <2>1 DEF Directory
<1>4. ~Kill(p)
  BY <1>0 DEF Kill, Ends, TypeOK
<1>5. CASE AppendStep(p)
  <2> USE <1>0 DEF TypeOK, Moves, MovesSynced, Ends, Fails
  <2>1. CASE AcquireAppendLock(p)
    BY <2>1 DEF AcquireAppendLock
  <2>2. CASE ReleaseAppendLock(p)
    <3>1. pc[p] = "release" /\ ok' = ok /\ fs.alock.st # "full"
      BY <2>2 DEF ReleaseAppendLock
    <3>2. disk' = RootSynced(disk, fs')
      BY <2>2, <3>1 DEF ReleaseAppendLock
    <3>3. disk'.head = fs'.head
      BY <3>2 DEF RootSynced, Directory
    <3> QED
      BY <3>1, <3>3
  <2>3. ~MakeOperationLock(p) /\ ~WriteOperationLease(p) /\ ~ReleaseOperationLock(p)
    BY <1>1, PcsApart DEF MakeOperationLock, WriteOperationLease, ReleaseOperationLock
  <2>4. ~WriteAppendLease(p) /\ ~CheckUnderMutex(p) /\ ~WritePending(p) /\ ~LinkCommit(p)
    BY DEF WriteAppendLease, CheckUnderMutex, WritePending, LinkCommit
  <2>5. ~SyncCommits(p) /\ ~WriteHeadTemp(p) /\ ~RenameHead(p) /\ ~SyncHead(p)
    BY DEF SyncCommits, WriteHeadTemp, RenameHead, SyncHead
  <2>6. ~UnlinkPending(p) /\ ~ReturnFromAppend(p)
    BY DEF UnlinkPending, ReturnFromAppend
  <2> QED
    BY <1>5, <2>1, <2>2, <2>3, <2>4, <2>5, <2>6 DEF AppendStep
<1> QED
  BY <1>2, <1>3, <1>4, <1>5 DEF Step

\* How a call comes into _appendEvents.
LEMMA AppendBefore ==
    ASSUME IInv, NEW p \in Procs, Step(p), pc'[p] \in AppendPcs
    PROVE  \/ Appends(p)
           \/ WriteOperationLease(p) /\ pc[p] = "oplease"
           \/ pc'[p] = "acquire" /\ (Call(p) \/ RecoveryCall(p))
<1>0. TypeOK
  BY DEF IInv
<1>1. ~RecoveryStep(p)
  BY <1>0, RecoveryStepFrame, PcsApart
<1>2. CASE Call(p)
  BY <1>0, <1>2, CallStarts, PcsApart
<1>3. CASE RecoveryCall(p)
  BY <1>0, <1>3, RecoveryCallStarts, PcsApart DEF RecoversLock, AdoptsLease, Quiesced
<1>4. ~MakeOperationLock(p) /\ ~ReturnFromAppend(p) /\ ~ReleaseOperationLock(p)
  BY <1>0, PcsApart DEF MakeOperationLock, ReturnFromAppend, ReleaseOperationLock, Moves, Ends, TypeOK
<1>5. ~Leaves(p)
  BY PcsApart DEF Leaves
<1> QED
  BY <1>1, <1>2, <1>3, <1>4, <1>5, LockSteps DEF WriteOperationLease

\* What is known of an operation whose end p appends.
LEMMA OwnTerminal ==
    ASSUME IInv, HistoryInv, SubjectInv, LockInv, NEW p \in Procs, Step(p)
    PROVE  TerminalAt(p)'
<1>0. TypeOK /\ TypeOK'
  BY NextTypes DEF IInv, Next
<1>1. PICK w \in Commit : w = want'[p]
  BY <1>0 DEF TypeOK
<1>2. PICK o : o = w.subj
  OBVIOUS
<1> SUFFICES ASSUME pc'[p] \in AppendPcs, w.txn \in TerminalTxns
             PROVE  /\ Started(fs', o)
                    /\ EndsOf(o)' \subseteq {w}
                    /\ pc'[p] \in Early => EndsOf(o)' = {}
                    /\ pc'[p] = "return" /\ EndsOf(o)' # {}
                         => w.seq <= disk'.head \/ w.seq > fs'.head
  BY <1>1, <1>2 DEF TerminalAt, EndsOf, Early
<1>3. ASSUME pc'[p] = "acquire", InProgress(fs, o), Unanchored(fs) = {}, fs' = fs
      PROVE  Started(fs', o) /\ EndsOf(o)' = {}
  BY <1>0, <1>3, HistoryTypes DEF InProgress, Ended, EndsOf, Anchored, Unanchored
<1>4. CASE Call(p) /\ pc'[p] = "acquire"
  <2>1. InProgress(fs, o) /\ Writable(p) /\ fs' = fs
    BY <1>0, <1>1, <1>2, <1>4, CallStarts, TxnsApart DEF TerminalTxns
  <2>2. Unanchored(fs) = {}
    BY <2>1, WritableAtRest DEF LockInv
  <2> QED
    BY <1>3, <1>4, <2>1, <2>2
<1>5. CASE RecoveryCall(p) /\ pc'[p] = "acquire"
  <2>1. AdoptsLease(p) /\ fs' = fs /\ pc[p] = "idle"
    BY <1>0, <1>1, <1>5, RecoveryCallStarts, TxnsApart, PcsApart DEF RecoversLock, Quiesced
  <2>2. InProgress(fs, o) /\ Unanchored(fs) = {}
    BY <1>1, <1>2, <1>5, <2>1, PcsApart DEF AdoptsLease
  <2> QED
    BY <1>3, <1>5, <2>1, <2>2
<1>6. ~(WriteOperationLease(p) /\ pc[p] = "oplease")
  BY <1>1, TxnsApart DEF WriteOperationLease, LockInv, HolderInv, HolderAt
<1>7. CASE Appends(p)
  <2>1. pc[p] \in AppendPcs /\ want[p] = w
    BY <1>1, <1>7 DEF Appends
  <2>2. /\ Started(fs, o) /\ EndsOf(o) \subseteq {w}
        /\ pc[p] \in Early => EndsOf(o) = {}
    BY <1>2, <2>1 DEF LockInv, EndingInv, TerminalAt, Early
  <2>3. EndsOf(o)' \subseteq {w}
    BY <2>1, <2>2, EndsBefore
  <2>4. ASSUME fs'.commits = fs.commits PROVE EndsOf(o)' = EndsOf(o)
    BY <2>4 DEF EndsOf
  <2>5. pc'[p] \in Early => EndsOf(o)' = {}
    BY <1>7, <2>2, <2>4, EarlyBefore DEF Early
  <2>6. ASSUME pc'[p] = "return", EndsOf(o)' # {} PROVE w.seq <= disk'.head \/ w.seq > fs'.head
    <3>1. disk'.head = fs'.head
      BY <1>7, <2>2, <2>4, <2>6, ReturnBefore DEF Early
    <3>2. w.seq \in Nat /\ fs'.head \in Nat
      BY <1>0 DEF TypeOK, Directory, Commit
    <3> QED
      BY <3>1, <3>2
  <2> QED
    BY <2>2, <2>3, <2>5, <2>6, StartedStays
<1> QED
  BY <1>4, <1>5, <1>6, <1>7, AppendBefore DEF Early

\* What is known while p appends the audit of a lock.
LEMMA CheckLeavesUnguarded ==
    ASSUME IInv, HistoryInv, SubjectInv, LockInv, NEW p \in Procs, CheckUnderMutex(p),
           AppendAllowed(p), want[p].txn \in LockTxns
    PROVE  NoneGuarded
<1>0. TypeOK /\ fs \in Directory /\ disk.head \in Nat /\ fs.head \in Nat /\ pc[p] = "check"
      /\ pc[p] \in AppendPcs
  BY DEF IInv, TypeOK, Directory, CheckUnderMutex, AppendPcs
<1>1. Unanchored(fs) = {} /\ fs.intent.st = "none"
  <2>1. ReasonsOf(p) \cap {"unanchored_commit", "recovery_audit_pending"} = {}
    BY TxnsApart DEF AppendAllowed, AllowedReasons, LockTxns
  <2> QED
    BY <1>0, <2>1 DEF ReasonsOf, Reasons, Reason
<1>2. disk.head = fs.head
  BY <1>0, <1>1 DEF HistoryInv, WriterInv, WriterAt
<1> SUFFICES ASSUME NEW o \in Ops, Guarded(o) PROVE FALSE
  BY DEF NoneGuarded
<1>3. InProgress(fs, o)
  BY <1>0, <1>1, <1>2, HistoryTypes DEF Guarded, BeginsOf, EndsOf, InProgress, Started, Ended,
     Anchored, Unanchored
<1>4. fs.olock.st = "full" /\ fs.olock.op = o
  BY GuardedIsLocked
<1> QED
  BY <1>0, <1>3, <1>4 DEF LockInv, EndingInv, AuditAt, InProgress

\* Where an append is that has passed its check, failed, or is on its way out.
LEMMA LateBefore ==
    ASSUME IInv, NEW p \in Procs, Step(p), Appends(p), pc'[p] \notin Early
    PROVE  \/ pc[p] \in {"acquire", "lease", "check"} /\ pc'[p] \in {"release", "return"} /\ ~ok'[p]
           \/ pc[p] = "release" /\ pc'[p] \in {"release", "return"} /\ ok'[p] = ok[p]
           \/ pc[p] \in AppendPcs \ {"acquire", "lease", "check", "release", "return"}
<1>0. TypeOK
  BY DEF IInv
<1>1. pc[p] \in AppendPcs /\ pc'[p] \in AppendPcs /\ pc[p] # "idle"
  BY PcsApart DEF Appends
<1>2. ~RecoveryStep(p) /\ ~Call(p) /\ ~RecoveryCall(p) /\ ~Exit(p)
  <2>1. ~RecoveryStep(p)
    BY <1>0, <1>1, RecoveryStepFrame, PcsApart
  <2>2. ~Call(p)
    BY <1>0, <1>1, CallStarts DEF Writable
  <2>3. ~RecoveryCall(p)
    BY <1>0, <1>1, RecoveryCallStarts DEF Quiesced
  <2> QED
    BY <1>1, <2>1, <2>2, <2>3 DEF Exit
<1>3. ~Kill(p)
  BY <1>0, <1>1, PcsApart DEF Kill, Ends, TypeOK
<1>4. CASE IoError(p)
  BY <1>0, <1>1, <1>4, PcsApart DEF IoError, Ends, Fails, TypeOK, AppendPcs
<1>5. CASE AppendStep(p)
  <2> USE <1>0, <1>1 DEF TypeOK, Moves, MovesSynced, Ends, Fails, Early
  <2>1. CASE AcquireAppendLock(p)
    BY <2>1 DEF AcquireAppendLock
  <2>2. CASE CheckUnderMutex(p)
    BY <2>2 DEF CheckUnderMutex
  <2>3. CASE ReleaseAppendLock(p)
    BY <2>3 DEF ReleaseAppendLock
  <2>4. ~MakeOperationLock(p) /\ ~WriteOperationLease(p) /\ ~ReleaseOperationLock(p)
    BY PcsApart DEF MakeOperationLock, WriteOperationLease, ReleaseOperationLock
  <2>5. ~WriteAppendLease(p)
    BY DEF WriteAppendLease
  <2>6. ~ReturnFromAppend(p)
    BY PcsApart DEF ReturnFromAppend
  <2>7. CASE WritePending(p) \/ LinkCommit(p) \/ SyncCommits(p) \/ WriteHeadTemp(p)
    BY <2>7 DEF WritePending, LinkCommit, SyncCommits, WriteHeadTemp
  <2>8. CASE RenameHead(p) \/ SyncHead(p) \/ UnlinkPending(p)
    BY <2>8 DEF RenameHead, SyncHead, UnlinkPending
  <2> QED
    BY <1>5, <2>1, <2>2, <2>3, <2>4, <2>5, <2>6, <2>7, <2>8 DEF AppendStep
<1> QED
  BY <1>2, <1>3, <1>4, <1>5 DEF Step

LEMMA OwnAudit ==
    ASSUME IInv, HistoryInv, SubjectInv, LockInv, NEW p \in Procs, Step(p)
    PROVE  AuditAt(p)'
<1>0. TypeOK
  BY DEF IInv
<1> SUFFICES ASSUME pc'[p] \in AppendPcs, want'[p].txn \in LockTxns
             PROVE  /\ fs'.olock.st # "none"
                    /\ pc'[p] \in {"acquire", "lease", "check"} /\ fs'.olock.st = "full"
                         => ~Started(fs', fs'.olock.op) \/ Ended(fs', fs'.olock.op)
                    /\ \/ pc'[p] \in {"acquire", "lease", "check"}
                       \/ pc'[p] \in {"release", "return"} /\ ~ok'[p]
                       \/ NoneGuarded'
  BY DEF AuditAt
<1>1. ~Call(p)
  BY <1>0, CallStarts, TxnsApart DEF LockTxns
<1>2. CASE RecoveryCall(p)
  BY <1>0, <1>2, RecoveryCallStarts, PcsApart, TxnsApart DEF RecoversLock, AdoptsLease, Quiesced
<1>3. ~(WriteOperationLease(p) /\ pc[p] = "oplease")
  BY TxnsApart DEF WriteOperationLease, LockInv, HolderInv, HolderAt
<1>4. CASE Appends(p)
  <2>1. pc[p] \in AppendPcs /\ want[p].txn \in LockTxns /\ fs'.olock = fs.olock
    BY <1>4 DEF Appends
  <2>2. /\ fs.olock.st # "none"
        /\ pc[p] \in {"acquire", "lease", "check"} /\ fs.olock.st = "full"
             => ~Started(fs, fs.olock.op) \/ Ended(fs, fs.olock.op)
        /\ \/ pc[p] \in {"acquire", "lease", "check"}
           \/ pc[p] \in {"release", "return"} /\ ~ok[p]
           \/ NoneGuarded
    BY <2>1 DEF LockInv, EndingInv, AuditAt
  <2>3. NoneGuarded => NoneGuarded'
    BY <2>1, TxnsApart, UnguardedStays
  <2>4. CASE pc'[p] \in {"acquire", "lease", "check"}
    <3>1. pc[p] \in {"acquire", "lease"} /\ fs'.commits = fs.commits /\ fs'.head = fs.head
      BY <1>4, <2>4, EarlyBefore DEF Early
    <3> QED
      BY <2>1, <2>2, <2>4, <3>1 DEF Started, Ended, Anchored
  <2>5. CASE pc'[p] \in {"pending", "link"}
    <3>1. NoneGuarded
      BY <1>4, <2>1, <2>2, <2>5, EarlyBefore, CheckLeavesUnguarded DEF Early
    <3> QED
      BY <2>1, <2>2, <2>3, <2>5, <3>1
  <2>6. CASE pc'[p] \notin Early
    <3>1. CASE pc[p] \in {"acquire", "lease", "check"} /\ pc'[p] \in {"release", "return"} /\ ~ok'[p]
      BY <2>1, <2>2, <2>6, <3>1 DEF Early
    <3>2. CASE pc[p] = "release" /\ pc'[p] \in {"release", "return"} /\ ok'[p] = ok[p]
      BY <2>1, <2>2, <2>3, <2>6, <3>2 DEF Early
    <3>3. CASE pc[p] \in AppendPcs \ {"acquire", "lease", "check", "release", "return"}
      BY <2>1, <2>2, <2>3, <2>6, <3>3 DEF Early
    <3> QED
      BY <1>4, <2>6, <3>1, <3>2, <3>3, LateBefore
  <2> QED
    BY <2>4, <2>5, <2>6 DEF Early
<1> QED
  BY <1>1, <1>2, <1>3, <1>4, AppendBefore

LEMMA LockPreserved ==
    ASSUME DurableRecovery, IInv, HistoryInv, SubjectInv, LockInv, NEW p \in Procs, Step(p)
    PROVE  LockInv'
<1>1. GuardInv' /\ HolderInv' /\ TokenInv'
  BY GuardPreserved, HolderPreserved, TokenPreserved
<1>2. LagInv'
  BY LagPreserved DEF LockInv
<1>3. EndingInv'
  BY OwnTerminal, OwnAudit, OthersEnding DEF EndingInv
<1> QED
  BY <1>1, <1>2, <1>3 DEF LockInv

\* After a power loss the lock of an operation in progress is there: it was
\* durable, and so was the end of every operation that had one below HEAD.
LEMMA PowerKeepsLock ==
    ASSUME IInv, HistoryInv, LockInv, PowerLoss
    PROVE  LockInv'
<1>0. TypeOK
  BY DEF IInv
<1>1. PICK h \in {disk.head, fs.head}, a \in {disk.alock, fs.alock},
           l \in {disk.olock, fs.olock}, i \in {disk.intent, fs.intent},
           C \in SUBSET (fs.commits \ disk.commits),
           P \in SUBSET ((fs.pend \ disk.pend) \cup (disk.pend \ fs.pend)) :
        fs' = [head |-> h, commits |-> disk.commits \cup C,
               pend |-> (disk.pend \cap fs.pend) \cup P,
               alock |-> [a EXCEPT !.live = FALSE], olock |-> l, intent |-> i]
  BY DEF PowerLoss
<1>2. /\ disk' = fs' /\ fs'.head \in {disk.head, fs.head} /\ fs'.olock \in {disk.olock, fs.olock}
      /\ disk.commits \subseteq fs'.commits /\ fs'.commits \subseteq fs.commits
      /\ ~fs'.alock.live
  <2>1. disk.commits \subseteq fs.commits /\ disk.alock \in Alock /\ fs.alock \in Alock
    BY <1>0 DEF IInv, DurableInv, TypeOK, Directory
  <2> QED
    BY <1>1, <2>1 DEF PowerLoss, Alock
<1>3. \A p \in Procs : pc'[p] = "idle" /\ want'[p] = NoCommit /\ lease'[p] = None
  BY DEF PowerLoss
<1>4. fs'.head \in Nat /\ fs.head \in Nat /\ disk.head \in Nat /\ disk.head <= fs.head
      /\ disk.head <= fs'.head /\ fs.olock.token \in Nat /\ disk.olock.token \in Nat
  BY <1>0, <1>2 DEF TypeOK, Directory, Olock, HistoryInv, ChainInv
<1>5. LockAudits' \subseteq LockAudits
  BY <1>2 DEF LockAudits
<1>6. GuardInv'
  <2> SUFFICES ASSUME NEW o \in Ops, Guarded(o)'
               PROVE  /\ fs'.olock.st = "full" /\ fs'.olock.op = o /\ disk'.olock = fs'.olock
                      /\ \A e \in LockAudits' : e.tag # fs'.olock.token
    BY DEF GuardInv
  <2>1. Guarded(o)
    <3>1. BeginsOf(o) # {}
      BY <1>2 DEF Guarded, BeginsOf
    <3>2. ASSUME NEW c \in EndsOf(o), ~(c.seq > disk.head) PROVE FALSE
      <4>1. c \in fs.commits /\ c.seq \in Nat /\ c.seq \in 1 .. (disk.head + 1)
        BY <1>0, HistoryTypes DEF EndsOf, HistoryInv, ChainInv
      <4>2. c.seq \in 1 .. fs.head
        BY <1>4, <3>2, <4>1
      <4>3. PICK e \in disk.commits : e.seq = c.seq
        BY <4>2 DEF HistoryInv, ChainInv
      <4>4. e = c
        BY <1>2, <4>1, <4>3 DEF IInv, NoFork
      <4>5. c \in EndsOf(o)'
        BY <1>2, <4>3, <4>4 DEF EndsOf
      <4>6. c.seq > fs'.head
        BY <1>2, <4>5 DEF Guarded
      <4> QED
        BY <1>4, <3>2, <4>1, <4>6
    <3> QED
      BY <3>1, <3>2 DEF Guarded
  <2> QED
    BY <1>2, <1>5, <2>1 DEF LockInv, GuardInv
<1>7. HolderInv'
  BY <1>3, PcsApart DEF HolderInv, HolderAt, Holds
<1>8. LagInv'
  BY <1>2, <1>3, <1>4, PcsApart DEF LagInv, OwnerInv, PublishRecoveryPcs
<1>9. TokenInv'
  <2>1. fs'.olock.st # "none" => fs'.olock.token <= fs'.head
    BY <1>2, <1>4 DEF LockInv, TokenInv
  <2>2. \A e \in LockAudits' : e.tag < e.seq
    BY <1>5 DEF LockInv, TokenInv
  <2>3. \A p \in Procs : TokenAt(p)'
    BY <1>3, TxnsApart DEF TokenAt, NoCommit
  <2> QED
    BY <1>2, <2>1, <2>2, <2>3 DEF TokenInv
<1>10. EndingInv'
  BY <1>3, PcsApart DEF EndingInv, TerminalAt, AuditAt
<1> QED
  BY <1>6, <1>7, <1>8, <1>9, <1>10 DEF LockInv

-----------------------------------------------------------------------------
(* The inductive invariant *)

LEMMA InitHInv == Init => HInv
<1> SUFFICES ASSUME Init PROVE HInv
  OBVIOUS
<1>1. /\ fs = EmptyDirectory /\ disk = EmptyDirectory /\ acked = {}
      /\ \A p \in Procs : pc[p] = "idle" /\ want[p] = NoCommit /\ lease[p] = None
  BY DEF Init
<1>2. IInv
  BY InitInvariant
<1>3. SubjectInv /\ FirstInv
  BY <1>1, TxnsApart DEF SubjectInv, FirstInv, EmptyDirectory, NoCommit, NoIntent
<1>4. HistoryInv
  <2>1. ChainInv
    BY <1>1 DEF ChainInv, EmptyDirectory
  <2>2. WriterInv
    BY <1>1 DEF WriterInv, WriterAt
  <2>3. IntentInv
    BY <1>1 DEF IntentInv, EmptyDirectory, NoIntent
  <2>4. ResumeInv
    BY <1>1 DEF ResumeInv, ResumeAt, IntentPcs, PublishRecoveryPcs, PregenesisPcs
  <2> QED
    BY <2>1, <2>2, <2>3, <2>4 DEF HistoryInv
<1>5. LockInv
  <2>1. GuardInv
    BY <1>1 DEF GuardInv, Guarded, BeginsOf, EmptyDirectory
  <2>2. HolderInv
    BY <1>1, PcsApart DEF HolderInv, HolderAt, Holds
  <2>3. LagInv
    BY <1>1, PcsApart DEF LagInv, OwnerInv, EmptyDirectory, NoAlock, PublishRecoveryPcs
  <2>4. TokenInv
    BY <1>1, TxnsApart DEF TokenInv, TokenAt, LockAudits, EmptyDirectory, NoOlock, NoCommit
  <2>5. EndingInv
    BY <1>1, PcsApart DEF EndingInv, TerminalAt, AuditAt
  <2> QED
    BY <2>1, <2>2, <2>3, <2>4, <2>5 DEF LockInv
<1> QED
  BY <1>2, <1>3, <1>4, <1>5 DEF HInv

\* Primed, the invariant of a state that does not change.
LEMMA HInvStutters ==
    ASSUME HInv, UNCHANGED vars
    PROVE  HInv'
<1>1. IInv'
  BY NextInvariant DEF HInv
<1>2. SubjectInv' /\ FirstInv'
  BY DEF HInv, vars, SubjectInv, FirstInv
<1>3. HistoryInv'
  <2>1. ChainInv'
    BY DEF HInv, vars, HistoryInv, ChainInv, Anchored
  <2>2. WriterInv'
    BY DEF HInv, vars, HistoryInv, WriterInv, WriterAt, Anchored
  <2>3. IntentInv'
    BY DEF HInv, vars, HistoryInv, IntentInv
  <2>4. ResumeInv'
    BY DEF HInv, vars, HistoryInv, ResumeInv, ResumeAt, NextAnchor
  <2> QED
    BY <2>1, <2>2, <2>3, <2>4 DEF HistoryInv
<1>4. LockInv'
  <2>1. GuardInv'
    BY DEF HInv, vars, LockInv, GuardInv, Guarded, BeginsOf, EndsOf, LockAudits
  <2>2. HolderInv'
    BY DEF HInv, vars, LockInv, HolderInv, HolderAt, Holds, NoneGuarded, Guarded, BeginsOf, EndsOf
  <2>3. LagInv'
    BY DEF HInv, vars, LockInv, LagInv, OwnerInv
  <2>4. TokenInv'
    BY DEF HInv, vars, LockInv, TokenInv, TokenAt, LockAudits
  <2>5. EndingInv'
    BY DEF HInv, vars, LockInv, EndingInv, TerminalAt, AuditAt, NoneGuarded, Guarded, BeginsOf,
           EndsOf, Started, Ended, Anchored
  <2> QED
    BY <2>1, <2>2, <2>3, <2>4, <2>5 DEF LockInv
<1> QED
  BY <1>1, <1>2, <1>3, <1>4 DEF HInv

LEMMA NextHInv ==
    ASSUME DurableRecovery, HInv, [Next]_vars
    PROVE  HInv'
<1>1. IInv /\ SubjectInv /\ FirstInv /\ HistoryInv /\ LockInv /\ IInv'
  BY NextInvariant DEF HInv
<1>2. ASSUME NEW p \in Procs, Step(p) PROVE HInv'
  <2>1. SubjectInv' /\ FirstInv'
    BY <1>1, <1>2, SubjectPreserved, FirstPreserved
  <2>2. HistoryInv'
    BY <1>1, <1>2, ChainPreserved, WriterPreserved, IntentPreserved, ResumePreserved DEF HistoryInv
  <2>3. LockInv'
    BY <1>1, <1>2, LockPreserved
  <2> QED
    BY <1>1, <2>1, <2>2, <2>3 DEF HInv
<1>3. CASE PowerLoss
  <2>1. SubjectInv' /\ FirstInv'
    BY <1>1, <1>3, PowerKeepsSubjects
  <2> QED
    BY <1>1, <1>3, <2>1, PowerKeepsHistory, PowerKeepsLock DEF HInv
<1> QED
  BY <1>2, <1>3, HInvStutters DEF Next

\* What the three theorems below rest on: every step of every store
\* instance, of every recovery and of every fault keeps HInv, for any number
\* of processes, operations, commits and faults, provided no kill strikes a
\* publish recovery between the link of its audit, or its rename of HEAD,
\* and the fsync after it.
THEOREM StoreInvariance ==
    ASSUME DurableRecovery
    PROVE  Spec => []HInv
<1>1. Init => HInv
  BY InitHInv
<1>2. HInv /\ [Next]_vars => HInv'
  BY NextHInv
<1> QED
  BY <1>1, <1>2, PTL DEF Spec

\* _refresh never meets a gap, a fork or a dangling HEAD, at most one commit
\* is beyond HEAD, and what a caller was told of survives a power loss.
THEOREM HistoryStaysIntact ==
    ASSUME DurableRecovery
    PROVE  Spec => []HistoryIntact
<1>1. HInv => HistoryIntact
  BY HistoryInvIntact DEF HInv
<1> QED
  BY <1>1, StoreInvariance, PTL

\* An operation in progress has its lock on disk, with its lease.
THEOREM OperationsAreGuarded ==
    ASSUME DurableRecovery
    PROVE  Spec => []OperationGuarded
<1>1. HInv => OperationGuarded
  BY InProgressGuarded, GuardedIsLocked DEF HInv, OperationGuarded
<1> QED
  BY <1>1, StoreInvariance, PTL

-----------------------------------------------------------------------------
(* StateStore implements DurableLog *)

EntryAt(n) ==
    /\ CommitAt(n) \in disk.commits /\ CommitAt(n) \in fs.commits
    /\ CommitAt(n) \in Commit /\ CommitAt(n).seq = n
    /\ \A c \in fs.commits : c.seq = n => c = CommitAt(n)

LEMMA EntryRight == HInv => \A n \in 1 .. fs.head : EntryAt(n)
<1> SUFFICES ASSUME HInv, NEW n \in 1 .. fs.head PROVE EntryAt(n)
  OBVIOUS
<1>1. disk.commits \subseteq fs.commits /\ fs.commits \subseteq Commit
  BY DEF HInv, IInv, DurableInv, TypeOK, Directory
<1>2. PICK e \in disk.commits : e.seq = n
  BY DEF HInv, HistoryInv, ChainInv
<1>3. CommitAt(n) \in fs.commits /\ CommitAt(n).seq = n
  BY <1>1, <1>2 DEF CommitAt
<1>4. \A c \in fs.commits : c.seq = n => c = CommitAt(n)
  BY <1>3 DEF HInv, IInv, NoFork
<1> QED
  BY <1>1, <1>2, <1>3, <1>4 DEF EntryAt

LEMMA NextEntryRight == (HInv => \A n \in 1 .. fs.head : EntryAt(n))'
BY EntryRight, PTL

\* Of the commits callers were told of one is the last.
IsKnown(n) == (\A c \in acked : c.seq <= n) /\ (n = 0 \/ \E c \in acked : c.seq = n)
KnownInv == \E n \in Nat : IsKnown(n)

LEMMA AckedStep ==
    ASSUME TypeOK, NEW p \in Procs, Step(p)
    PROVE  acked' = acked \/ \E w : acked' = acked \cup {w}
<1>1. CASE Call(p) \/ RecoveryCall(p) \/ Kill(p) \/ Exit(p) \/ IoError(p)
  BY <1>1 DEF Call, Activate, Record, BeginOperation, EndOperation, RecoveryCall,
     DiscardUnregisteredLock, ReconcileTerminalLock, StartLockRecovery,
     RecoverNoEffectAfterCrash, RecoverInterruptedPublish, Kill, Exit, IoError
<1>2. CASE AppendStep(p)
  BY <1>2 DEF AppendStep, MakeOperationLock, WriteOperationLease, AcquireAppendLock,
     WriteAppendLease, CheckUnderMutex, WritePending, LinkCommit, SyncCommits, WriteHeadTemp,
     RenameHead, SyncHead, UnlinkPending, ReleaseAppendLock, ReturnFromAppend,
     ReleaseOperationLock
<1>3. CASE RecoveryStep(p)
  BY <1>3 DEF RecoveryStep, DiscardPreGenesisLock, DiscardPreGenesisPending, WriteIntent,
     RemoveAppendLock, RecoverySyncCommits, RecoveryHeadTemp, RecoveryRenameHead,
     RecoverySyncHead, RecoveryUnlinkPending, WriteAudit, LinkAudit, SyncAudit,
     UnlinkAuditPending, ClearIntent
<1> QED
  BY <1>1, <1>2, <1>3 DEF Step

LEMMA KnownPreserved ==
    ASSUME HInv, HInv', KnownInv, [Next]_vars
    PROVE  KnownInv'
<1>1. CASE acked' = acked
  BY <1>1 DEF KnownInv, IsKnown
<1>2. ASSUME NEW w, acked' = acked \cup {w} PROVE KnownInv'
  <2>1. PICK n \in Nat : IsKnown(n)
    BY DEF KnownInv
  <2>2. \A c \in acked' : c.seq \in Nat
    BY DEF HInv, IInv, TypeOK, Commit
  <2>3. CASE w.seq <= n
    <3>1. IsKnown(n)'
      BY <1>2, <2>1, <2>2, <2>3 DEF IsKnown
    <3> QED
      BY <3>1 DEF KnownInv
  <2>4. CASE ~(w.seq <= n)
    <3>1. w.seq \in Nat
      BY <1>2, <2>2
    <3>2. PICK m \in Nat : m = w.seq
      BY <3>1
    <3>3. \A c \in acked' : c.seq <= m
      BY <1>2, <2>1, <2>2, <2>4, <3>2 DEF IsKnown
    <3>4. IsKnown(m)'
      BY <1>2, <3>2, <3>3 DEF IsKnown
    <3> QED
      BY <3>4 DEF KnownInv
  <2> QED
    BY <2>3, <2>4
<1>3. CASE \E p \in Procs : Step(p)
  BY <1>1, <1>2, <1>3, AckedStep DEF HInv, IInv
<1> QED
  BY <1>1, <1>3 DEF Next, PowerLoss, vars

KnownAt ==
    /\ fs.head \in Nat /\ Known \in 0 .. fs.head /\ IsKnown(Known)
    /\ \A n \in Nat : IsKnown(n) => n = Known

LEMMA KnownRight == HInv /\ KnownInv => KnownAt
<1> SUFFICES ASSUME HInv, KnownInv PROVE KnownAt
  OBVIOUS
<1>0. \A c \in acked : c.seq \in 1 .. fs.head
  <2> SUFFICES ASSUME NEW c \in acked PROVE c.seq \in 1 .. fs.head
    OBVIOUS
  <2>1. c \in disk.commits /\ c.seq <= disk.head /\ disk.head <= fs.head
        /\ c \in fs.commits
    BY DEF HInv, HistoryInv, ChainInv, Anchored, IInv, DurableInv
  <2>2. c.seq \in 1 .. (disk.head + 1) /\ disk.head \in Nat /\ fs.head \in Nat
    BY <2>1 DEF HInv, HistoryInv, ChainInv, IInv, TypeOK, Directory
  <2> QED
    BY <2>1, <2>2
<1>1. PICK n \in Nat : IsKnown(n)
  BY DEF KnownInv
<1>2. fs.head \in Nat
  BY DEF HInv, IInv, TypeOK, Directory
<1>3. n \in 0 .. fs.head
  BY <1>0, <1>1, <1>2 DEF IsKnown
<1>4. Known \in 0 .. fs.head /\ IsKnown(Known)
  BY <1>1, <1>3 DEF Known, IsKnown
<1>5. ASSUME NEW m \in Nat, IsKnown(m) PROVE m = Known
  BY <1>0, <1>2, <1>4, <1>5 DEF IsKnown
<1> QED
  BY <1>2, <1>4, <1>5 DEF KnownAt

LEMMA NextKnownRight == (HInv /\ KnownInv => KnownAt)'
BY KnownRight, PTL

\* The log the store stands for.
LogNow == [n \in 1 .. fs.head |-> CommitAt(n)]

LogAt ==
    /\ fs.head \in Nat /\ LogNow \in Seq(Commit) /\ Len(LogNow) = fs.head
    /\ \A n \in 1 .. fs.head : LogNow[n] = CommitAt(n)

LEMMA LogNowRight == HInv => LogAt
<1> SUFFICES ASSUME HInv PROVE LogAt
  OBVIOUS
<1>1. fs.head \in Nat
  BY DEF HInv, IInv, TypeOK, Directory
<1>2. \A n \in 1 .. fs.head : CommitAt(n) \in Commit
  BY EntryRight DEF EntryAt
<1> QED
  BY <1>1, <1>2 DEF LogAt, LogNow

LEMMA NextLogNowRight == (HInv => LogAt)'
BY LogNowRight, PTL

\* The log of the next state, up to what it has in common with this one.
LEMMA LogKept ==
    ASSUME HInv, HInv', [Next]_vars, NEW n \in 1 .. fs.head, n \in 1 .. fs'.head
    PROVE  CommitAt(n)' = CommitAt(n)
<1>1. fs.commits \subseteq fs'.commits \/ fs'.commits \subseteq fs.commits
  BY CommitsGrow, PowerLeaves DEF Next, vars, HInv
<1>2. PICK c : c = CommitAt(n)'
  OBVIOUS
<1>3. c \in fs'.commits /\ c.seq = n /\ \A e \in fs'.commits : e.seq = n => e = c
  BY <1>2, NextEntryRight DEF EntryAt
<1>4. CommitAt(n) \in fs.commits /\ CommitAt(n).seq = n /\ \A e \in fs.commits : e.seq = n => e = CommitAt(n)
  BY EntryRight DEF EntryAt
<1> QED
  BY <1>1, <1>2, <1>3, <1>4

LEMMA LogSteps ==
    ASSUME HInv, HInv', [Next]_vars
    PROVE  \/ fs'.head = fs.head
           \/ fs'.head = fs.head + 1 /\ acked' = acked
           \/ PowerLoss /\ fs'.head \in {disk.head, fs.head}
<1>0. IInv /\ HistoryInv
  BY DEF HInv
<1>1. ASSUME NEW p \in Procs, Step(p)
      PROVE  fs'.head = fs.head \/ (fs'.head = fs.head + 1 /\ acked' = acked)
  <2>1. CASE Quiet \/ LinkCommit(p) \/ LinkAudit(p)
    BY <1>0, <2>1, LoudSteps DEF Quiet
  <2>2. CASE RenameHead(p) \/ RecoveryRenameHead(p)
    BY <1>0, <2>2, LoudSteps, HeadAdvances
  <2> QED
    BY <1>0, <1>1, <2>1, <2>2, QuietSteps
<1>2. CASE PowerLoss
  BY <1>0, <1>2, PowerLeaves
<1> QED
  BY <1>1, <1>2 DEF Next, vars

\* Every step of the store is an append, an acknowledgement or a loss.
LEMMA StepIsLogged ==
    ASSUME HInv, HInv', KnownInv, KnownInv', [Next]_vars
    PROVE  \/ /\ Len(LogNow') = Len(LogNow) + 1
              /\ LogNow'[Len(LogNow')] \in Commit
              /\ SubSeq(LogNow', 1, Len(LogNow)) = LogNow
              /\ Known' = Known
           \/ LogNow' = LogNow /\ Known' \in Known .. Len(LogNow)
           \/ /\ Lossy /\ Known' = Known
              /\ \E n \in Known .. Len(LogNow) : LogNow' = SubSeq(LogNow, 1, n)
<1>0. /\ fs.head \in Nat /\ LogNow \in Seq(Commit) /\ Len(LogNow) = fs.head
      /\ \A n \in 1 .. fs.head : LogNow[n] = CommitAt(n)
  BY LogNowRight DEF LogAt
<1>1. /\ fs'.head \in Nat /\ LogNow' \in Seq(Commit) /\ Len(LogNow') = fs'.head
      /\ \A n \in 1 .. fs'.head : LogNow'[n] = CommitAt(n)'
  BY NextLogNowRight DEF LogAt
<1>2. \A n \in 1 .. fs.head : n \in 1 .. fs'.head => LogNow'[n] = LogNow[n]
  BY <1>0, <1>1, LogKept
<1>3. Known \in 0 .. fs.head /\ IsKnown(Known) /\ \A n \in Nat : IsKnown(n) => n = Known
  BY KnownRight DEF KnownAt
<1>4. PICK k : k = Known'
  OBVIOUS
<1>5. k \in 0 .. fs'.head /\ IsKnown(k)' /\ \A n \in Nat : IsKnown(n)' => n = k
  BY <1>4, NextKnownRight DEF KnownAt
<1>6. acked' = acked => k = Known
  BY <1>0, <1>3, <1>5 DEF IsKnown
<1>7. CASE fs'.head = fs.head
  <2>1. LogNow' = LogNow
    BY <1>0, <1>1, <1>2, <1>7
  <2>2. acked \subseteq acked' => k >= Known
    BY <1>0, <1>1, <1>3, <1>5 DEF IsKnown
  <2>3. acked \subseteq acked'
    BY AckedStep DEF Next, PowerLoss, vars, HInv, IInv
  <2> QED
    BY <1>0, <1>1, <1>3, <1>4, <1>5, <1>7, <2>1, <2>2, <2>3
<1>8. CASE fs'.head = fs.head + 1 /\ acked' = acked
  <2>1. LogNow'[Len(LogNow')] \in Commit
    BY <1>0, <1>1, <1>8
  <2>2. SubSeq(LogNow', 1, Len(LogNow)) = LogNow
    BY <1>0, <1>1, <1>2, <1>8
  <2> QED
    BY <1>0, <1>1, <1>4, <1>6, <1>8, <2>1, <2>2
<1>9. CASE PowerLoss /\ fs'.head \in {disk.head, fs.head}
  <2>1. Lossy /\ acked' = acked
    BY <1>9 DEF PowerLoss, Fault, Lossy
  <2>2. fs'.head <= fs.head
    BY <1>0, <1>9 DEF HInv, HistoryInv, ChainInv
  <2>3. LogNow' = SubSeq(LogNow, 1, fs'.head)
    BY <1>0, <1>1, <1>2, <2>2
  <2>4. fs'.head \in Known .. Len(LogNow)
    BY <1>0, <1>1, <1>3, <1>5, <1>6, <2>1, <2>2
  <2> QED
    BY <1>4, <1>6, <2>1, <2>3, <2>4
<1> QED
  BY <1>7, <1>8, <1>9, LogSteps

LEMMA KnownInvariance ==
    ASSUME DurableRecovery
    PROVE  Spec => []KnownInv
<1>1. Init => KnownInv
  <2> SUFFICES ASSUME Init PROVE KnownInv
    OBVIOUS
  <2>1. IsKnown(0)
    BY DEF IsKnown, Init
  <2> QED
    BY <2>1 DEF KnownInv
<1>2. HInv /\ HInv' /\ KnownInv /\ [Next]_vars => KnownInv'
  BY KnownPreserved
<1> QED
  BY <1>1, <1>2, StoreInvariance, PTL DEF Spec

\* The store implements DurableLog: whatever races, dies, fails and is
\* recovered, the anchored history grows by one commit at a time, a commit in
\* it never changes, and no power loss takes one a caller was told of.
THEOREM StoreImplementsLog ==
    ASSUME DurableRecovery
    PROVE  Spec => ImplementsLog
<1>1. Init => Log!Init
  <2> SUFFICES ASSUME Init PROVE Log!Init
    OBVIOUS
  <2>1. fs.head = 0 /\ acked = {}
    BY DEF Init, EmptyDirectory
  <2>2. [n \in 1 .. fs.head |-> CommitAt(n)] = <<>>
    BY <2>1
  <2>3. Known = 0
    BY <2>1 DEF Known
  <2> QED
    BY <2>2, <2>3 DEF Log!Init
<1>2. HInv /\ HInv' /\ KnownInv /\ KnownInv' /\ [Next]_vars => [Log!Next]_(Log!vars)
  <2> SUFFICES ASSUME HInv, HInv', KnownInv, KnownInv', [Next]_vars
               PROVE  Log!Next
    OBVIOUS
  <2> QED
    BY StepIsLogged DEF LogNow, Log!Next, Log!AppendEntry, Log!Acknowledge, Log!Lose
<1> QED
  BY <1>1, <1>2, StoreInvariance, KnownInvariance, PTL DEF Spec, ImplementsLog

-----------------------------------------------------------------------------
(* What a kill leaves *)

LEMMA KillRegime ==
    ASSUME KillsOnly
    PROVE  ~PowerLoss /\ \A p \in Procs : ~IoError(p)
BY DEF KillsOnly, PowerLoss, IoError, Fault

\* The types of what KillInv is about.
LEMMA KillTypes ==
    ASSUME TypeOK
    PROVE  /\ fs \in Directory /\ fs.head \in Nat /\ fs.alock \in Alock /\ fs.intent \in Intent
           /\ \A c \in fs.commits : c \in Commit /\ c.seq \in Nat
           /\ \A p \in Procs : want[p] \in Commit /\ want[p].seq \in Nat /\ p \in Subject
           /\ fs.intent.audit.seq \in Nat /\ fs.intent.affected.seq \in Nat
           /\ fs.pend \subseteq Pending /\ fs.intent.names \subseteq Pending
BY DEF TypeOK, Directory, Intent, Commit, Subject

LEMMA CriticalSteps ==
    /\ CriticalPcs = {"lease", "check", "pending", "link", "commitsync", "headtemp", "rename",
                      "headsync", "unlink", "release"}
    /\ Writing = {"pending", "link", "commitsync", "headtemp", "rename", "headsync", "unlink"}
BY DEF Writing, CriticalPcs, AppendPcs

\* The parts of the invariant that are about the directory.
StoreInv == PrefixInv /\ LeftInv /\ AnnouncedInv /\ TruthfulDiscard

\* They are kept by a step that changes nothing they are about ...
SameStore ==
    /\ fs'.head = fs.head /\ fs'.commits = fs.commits /\ fs'.pend = fs.pend
    /\ fs'.alock = fs.alock /\ fs'.intent = fs.intent

LEMMA StoreKept ==
    ASSUME StoreInv, SameStore
    PROVE  StoreInv'
BY DEF StoreInv, SameStore, PrefixInv, LeftInv, AnnouncedInv, TruthfulDiscard, Unanchored

\* ... and whoever is outside the mutex changes nothing of what one inside knows.
LEMMA OutsideFrame ==
    ASSUME KillsOnly, IInv, NEW p \in Procs, Step(p), NEW q \in Procs \ {p}, pc[q] \in CriticalPcs
    PROVE  SameStore
<1>0. TypeOK /\ fs \in Directory
  BY DEF IInv, TypeOK
<1>1. /\ pc[p] \notin CriticalPcs /\ ~Recovering(p) /\ ~RecoveryStep(p)
      /\ fs'.commits = fs.commits /\ fs'.intent = fs.intent /\ fs'.head = fs.head
  BY OutsideMutex
<1>2. fs.alock.by = q /\ fs.alock.st # "none"
  BY DEF IInv, MutexInv
<1>3. fs'.pend = fs.pend /\ fs'.alock = fs.alock
  <2>1. CASE Call(p) \/ RecoveryCall(p) \/ Exit(p)
    BY <2>1 DEF Call, Activate, Record, BeginOperation, EndOperation, RecoveryCall,
                DiscardUnregisteredLock, ReconcileTerminalLock, StartLockRecovery,
                RecoverNoEffectAfterCrash, RecoverInterruptedPublish, Exit
  <2>2. CASE AppendStep(p)
    <3>1. MakeOperationLock(p) \/ WriteOperationLease(p) \/ AcquireAppendLock(p)
          \/ ReturnFromAppend(p) \/ ReleaseOperationLock(p)
      BY <1>1, <2>2, CriticalSteps DEF AppendStep, WriteAppendLease, CheckUnderMutex, WritePending,
           LinkCommit, SyncCommits, WriteHeadTemp, RenameHead, SyncHead, UnlinkPending,
           ReleaseAppendLock
    <3> QED
      BY <1>0, <1>2, <3>1 DEF MakeOperationLock, WriteOperationLease, AcquireAppendLock,
           ReturnFromAppend, ReleaseOperationLock, Moves, MovesSynced, Directory
  <2>3. CASE Kill(p)
    <3>1. PICK f \in CutShort(p) :
            fs' = IF f.alock.by = p THEN [f EXCEPT !.alock.live = FALSE] ELSE f
      BY <2>3 DEF Kill
    <3>2. pc[p] \notin {"pending", "headtemp", "unlink", "r.intent", "r.audit", "r.temp"}
      BY <1>1, CriticalSteps DEF Recovering, PublishRecoveryPcs
    <3>3. f = fs
      BY <3>2 DEF CutShort
    <3> QED
      BY <1>2, <3>1, <3>3
  <2> QED
    BY <1>1, <2>1, <2>2, <2>3, KillRegime DEF Step
<1> QED
  BY <1>1, <1>3 DEF SameStore

\* So the others keep what they know.
LEMMA OthersKept ==
    ASSUME KillsOnly, IInv, NEW p \in Procs, Step(p), NEW q \in Procs \ {p},
           AppenderAt(q), ResumerAt(q)
    PROVE  AppenderAt(q)' /\ ResumerAt(q)'
<1>0. TypeOK
  BY DEF IInv
<1>1. pc'[q] = pc[q] /\ want'[q] = want[q]
  BY <1>0, Frame
<1>2. pc[q] \notin PublishRecoveryPcs
  BY Alone DEF Recovering
<1>3. ResumerAt(q)'
  BY <1>1, <1>2 DEF ResumerAt, Unlinked, IntentPcs, PublishRecoveryPcs
<1>4. CASE pc[q] \in CriticalPcs
  <2>1. SameStore
    BY <1>4, OutsideFrame
  <2>2. OwnPending(q)' = OwnPending(q)
    BY <1>1 DEF OwnPending
  <2> QED
    BY <1>1, <1>3, <2>1, <2>2 DEF AppenderAt, SameStore, Unanchored
<1>5. CASE pc[q] \notin CriticalPcs
  BY <1>1, <1>3, <1>5, CriticalSteps DEF AppenderAt
<1> QED
  BY <1>4, <1>5

\* A step that leads to neither an append nor a publish recovery.
LEMMA AtRest ==
    ASSUME NEW p \in Procs, pc'[p] \in {"idle", "opmkdir", "oplease", "acquire", "return", "unlock",
                                        "r.intent"}
    PROVE  AppenderAt(p)' /\ ResumerAt(p)'
BY CriticalSteps DEF AppenderAt, ResumerAt, Unlinked, IntentPcs, PublishRecoveryPcs, PregenesisPcs

\* The invariant, of one process: what the steps below start from.
KillInvAt(p) ==
    /\ IInv /\ SubjectInv /\ OwnerInv /\ StoreInv /\ AppenderAt(p) /\ ResumerAt(p)

LEMMA KillCalls ==
    ASSUME NEW p \in Procs, KillInvAt(p), Call(p) \/ Exit(p) \/ RecoveryCall(p)
    PROVE  StoreInv' /\ AppenderAt(p)' /\ ResumerAt(p)'
<1>0. TypeOK
  BY DEF KillInvAt, IInv
<1>1. fs' = fs
  BY <1>0, RecoveryCallNext DEF Call, Activate, Record, BeginOperation, EndOperation, Exit
<1>2. StoreInv'
  BY <1>1, StoreKept DEF SameStore, KillInvAt
<1>3. CASE Call(p)
  <2>1. pc'[p] \in {"acquire", "opmkdir"}
    BY <1>0, <1>3 DEF TypeOK, Call, Activate, Record, BeginOperation, EndOperation, Begins
  <2> QED
    BY <1>2, <2>1, AtRest
<1>4. CASE Exit(p)
  <2>1. pc'[p] = "idle"
    BY <1>0, <1>4 DEF TypeOK, Exit
  <2> QED
    BY <1>2, <2>1, AtRest
<1>5. CASE RecoveryCall(p)
  <2>1. CASE DiscardUnregisteredLock(p) \/ ReconcileTerminalLock(p)
    <3>1. pc'[p] \in {"acquire", "unlock"}
      BY <1>0, <2>1 DEF TypeOK, DiscardUnregisteredLock, ReconcileTerminalLock,
                        StartLockRecovery, Begins
    <3> QED
      BY <1>2, <3>1, AtRest
  <2>2. CASE RecoverNoEffectAfterCrash(p)
    <3>1. pc'[p] \in {"acquire", "idle"}
      BY <1>0, <2>2 DEF TypeOK, RecoverNoEffectAfterCrash, Quiesced, Begins
    <3> QED
      BY <1>2, <3>1, AtRest
  <2>3. CASE RecoverInterruptedPublish(p)
    <3>1. CASE PreGenesisAccepted(fs) /\ pc' = [pc EXCEPT ![p] = "g.lock"]
      <4>1. pc'[p] = "g.lock" /\ PreGenesis(fs) /\ fs.intent.st = "none"
        BY <1>0, <3>1 DEF TypeOK, PreGenesisAccepted
      <4> QED
        BY <1>1, <1>2, <4>1, CriticalSteps
        DEF AppenderAt, ResumerAt, Unlinked, IntentPcs, PublishRecoveryPcs, PregenesisPcs
    <3>2. CASE FreshAccepted(fs) /\ pc' = [pc EXCEPT ![p] = "r.intent"]
      BY <1>0, <1>2, <3>2, AtRest DEF TypeOK
    <3>3. CASE RetryAccepted(fs) /\ pc' = [pc EXCEPT ![p] = "r.lock"]
      <4>1. pc'[p] = "r.lock"
        BY <1>0, <3>3 DEF TypeOK
      <4>2. fs.pend \subseteq fs.intent.names \cup AuditFiles
        BY <3>3 DEF RetryAccepted, AuditFiles
      <4>3. ResumerAt(p)'
        BY <1>1, <4>1, <4>2
        DEF ResumerAt, AuditFiles, AnchorFiles, Unlinked, IntentPcs, PublishRecoveryPcs, PregenesisPcs
      <4> QED
        BY <1>2, <4>1, <4>3, CriticalSteps DEF AppenderAt
    <3> QED
      BY <2>3, <3>1, <3>2, <3>3 DEF RecoverInterruptedPublish
  <2> QED
    BY <1>5, <2>1, <2>2, <2>3 DEF RecoveryCall
<1> QED
  BY <1>3, <1>4, <1>5

\* The steps on operation.lock, and the return of an append.
LEMMA KillOperationLock ==
    ASSUME NEW p \in Procs, KillInvAt(p),
           MakeOperationLock(p) \/ WriteOperationLease(p) \/ ReturnFromAppend(p)
             \/ ReleaseOperationLock(p)
    PROVE  StoreInv' /\ AppenderAt(p)' /\ ResumerAt(p)'
<1>0. TypeOK /\ fs \in Directory
  BY DEF KillInvAt, IInv, TypeOK
<1>1. SameStore
  BY <1>0 DEF SameStore, MakeOperationLock, WriteOperationLease, ReturnFromAppend,
              ReleaseOperationLock, Moves, MovesSynced, Directory
<1>2. pc'[p] \in {"idle", "oplease", "acquire", "unlock"}
  BY <1>0 DEF TypeOK, MakeOperationLock, WriteOperationLease, ReturnFromAppend,
              ReleaseOperationLock, Moves, MovesSynced, Ends
<1> QED
  BY <1>1, <1>2, StoreKept, AtRest DEF KillInvAt

\* An append knows nothing of a publish recovery.
LEMMA NoResumer ==
    ASSUME NEW p \in Procs, pc'[p] \in CriticalPcs
    PROVE  ResumerAt(p)'
BY CriticalSteps DEF ResumerAt, Unlinked, IntentPcs, PublishRecoveryPcs, PregenesisPcs

LEMMA KillLocks ==
    ASSUME NEW p \in Procs, KillInvAt(p),
           AcquireAppendLock(p) \/ WriteAppendLease(p) \/ CheckUnderMutex(p)
    PROVE  StoreInv' /\ AppenderAt(p)' /\ ResumerAt(p)'
<1>0. TypeOK /\ fs \in Directory /\ fs.alock \in Alock
  BY DEF KillInvAt, IInv, TypeOK, Directory
<1>1. PrefixInv /\ LeftInv /\ AnnouncedInv /\ TruthfulDiscard
  BY DEF KillInvAt, StoreInv
<1>2. CASE AcquireAppendLock(p)
  <2>1. CASE fs.alock.st # "none"
    <3>1. fs' = fs /\ pc'[p] = "return"
      BY <1>0, <1>2, <2>1 DEF TypeOK, AcquireAppendLock, Fails
    <3> QED
      BY <3>1, AtRest, StoreKept DEF KillInvAt, SameStore
  <2>2. CASE fs.alock.st = "none"
    <3>1. /\ pc[p] = "acquire" /\ pc'[p] = "lease" /\ want' = want
          /\ fs'.head = fs.head /\ fs'.commits = fs.commits /\ fs'.pend = fs.pend
          /\ fs'.intent = fs.intent
          /\ fs'.alock = [st |-> "dir", by |-> p, live |-> FALSE, sealed |-> FALSE, of |-> want[p]]
      BY <1>0, <1>2, <2>2 DEF TypeOK, AcquireAppendLock, Moves, Directory
    <3>2. StoreInv'
      BY <1>1, <2>2, <3>1
      DEF StoreInv, PrefixInv, LeftInv, AnnouncedInv, TruthfulDiscard, Unanchored
    <3>3. AppenderAt(p)'
      BY <3>1, CriticalSteps DEF AppenderAt
    <3> QED
      BY <3>1, <3>2, <3>3, NoResumer, CriticalSteps
  <2> QED
    BY <2>1, <2>2
<1>3. CASE WriteAppendLease(p)
  <2>1. /\ pc[p] = "lease" /\ pc'[p] = "check" /\ want' = want
        /\ fs'.head = fs.head /\ fs'.commits = fs.commits /\ fs'.pend = fs.pend
        /\ fs'.intent = fs.intent
        /\ fs'.alock.st = "full" /\ fs'.alock.of = fs.alock.of /\ fs'.alock.sealed = fs.alock.sealed
    BY <1>0, <1>3 DEF TypeOK, WriteAppendLease, MovesSynced, Directory, Alock
  <2>2. fs.alock.st = "dir" /\ fs.alock.of = want[p] /\ ~fs.alock.sealed
    BY <2>1, CriticalSteps DEF KillInvAt, AppenderAt
  <2>3. StoreInv'
    BY <1>1, <2>1, <2>2
    DEF StoreInv, PrefixInv, LeftInv, AnnouncedInv, TruthfulDiscard, Unanchored
  <2>4. AppenderAt(p)'
    BY <1>1, <2>1, <2>2, CriticalSteps DEF AppenderAt, LeftInv, Unanchored
  <2> QED
    BY <2>1, <2>3, <2>4, NoResumer, CriticalSteps
<1>4. CASE CheckUnderMutex(p)
  <2>1. pc[p] = "check" /\ fs' = fs /\ want' = want
    BY <1>4 DEF CheckUnderMutex
  <2>2. StoreInv'
    BY <2>1, StoreKept DEF SameStore, KillInvAt
  <2>3. AppenderAt(p)
    BY DEF KillInvAt
  <2>4. CASE AppendAllowed(p) /\ pc'[p] = "pending"
    <3>1. {"recovery_audit_pending", "pending_publish"} \cap AllowedReasons(want[p].txn) = {}
      BY DEF AllowedReasons
    <3>2. "pending_publish" \notin ReasonsOf(p) /\ "recovery_audit_pending" \notin ReasonsOf(p)
      BY <2>4, <3>1 DEF AppendAllowed
    <3>3. fs.intent.st = "none" /\ fs.pend = {}
      BY <3>2 DEF ReasonsOf, Reasons, Reason
    <3>4. AppenderAt(p)'
      BY <2>1, <2>3, <2>4, <3>3, CriticalSteps DEF AppenderAt
    <3> QED
      BY <2>2, <2>4, <3>4, NoResumer, CriticalSteps
  <2>5. CASE pc'[p] = "release"
    <3>1. AppenderAt(p)'
      BY <2>1, <2>3, <2>5, CriticalSteps DEF AppenderAt, Unanchored
    <3> QED
      BY <2>2, <2>5, <3>1, NoResumer, CriticalSteps
  <2> QED
    BY <1>0, <1>4, <2>4, <2>5 DEF TypeOK, CheckUnderMutex, Fails
<1> QED
  BY <1>2, <1>3, <1>4

LEMMA KillPublish ==
    ASSUME NEW p \in Procs, KillInvAt(p),
           WritePending(p) \/ LinkCommit(p) \/ SyncCommits(p) \/ WriteHeadTemp(p)
    PROVE  StoreInv' /\ AppenderAt(p)' /\ ResumerAt(p)'
<1>0. TypeOK /\ fs \in Directory /\ fs.alock \in Alock /\ fs.head \in Nat
      /\ \A c \in fs.commits : c.seq \in Nat
  BY DEF KillInvAt, IInv, TypeOK, Directory, Commit
<1>1. PrefixInv /\ LeftInv /\ AnnouncedInv /\ TruthfulDiscard /\ AppenderAt(p)
  BY DEF KillInvAt, StoreInv
<1>2. pc[p] \in {"pending", "link", "commitsync", "headtemp"}
  BY DEF WritePending, LinkCommit, SyncCommits, WriteHeadTemp
<1>3. /\ fs.alock.of = want[p] /\ ~fs.alock.sealed /\ fs.alock.st = "full"
      /\ fs.intent.st = "none" /\ fs.intent.audit = NoCommit
  BY <1>1, <1>2, CriticalSteps DEF AppenderAt, AnnouncedInv
<1>4. want[p].txn # "recovery.publish" /\ want[p].seq = fs.head + 1
  BY <1>1, <1>2, CriticalSteps DEF KillInvAt, SubjectInv, IInv, BaseInv, AppenderAt
<1>5. pc[p] \in {"pending", "link"} => Unanchored(fs) = {}
  BY DEF KillInvAt, IInv, BaseInv
<1>6. NoCommit.act = "none"
  BY DEF NoCommit
<1>7. CASE WritePending(p)
  <2>1. /\ pc[p] = "pending" /\ pc'[p] = "link" /\ want' = want
        /\ fs'.head = fs.head /\ fs'.commits = fs.commits /\ fs'.alock = fs.alock
        /\ fs'.intent = fs.intent /\ fs'.pend = fs.pend \cup {OwnPending(p)}
    BY <1>0, <1>7 DEF TypeOK, WritePending, Moves, Directory, OwnPending
  <2>2. fs'.pend = {OwnPending(p)} /\ OwnPending(p).of = want[p] /\ OwnPending(p).file = "commit"
    BY <1>1, <2>1, CriticalSteps DEF AppenderAt, OwnPending, CommitPending
  <2>3. StoreInv'
    BY <1>1, <1>3, <1>4, <1>6, <2>1, <2>2
    DEF StoreInv, PrefixInv, LeftInv, AnnouncedInv, TruthfulDiscard, Unanchored
  <2>4. AppenderAt(p)'
    BY <1>3, <2>1, <2>2, CriticalSteps DEF AppenderAt, OwnPending
  <2> QED
    BY <2>1, <2>3, <2>4, NoResumer, CriticalSteps
<1>8. CASE LinkCommit(p)
  <2>1. /\ pc[p] = "link" /\ pc'[p] = "commitsync" /\ want' = want
        /\ fs'.head = fs.head /\ fs'.commits = fs.commits \cup {want[p]} /\ fs'.alock = fs.alock
        /\ fs'.intent = fs.intent /\ fs'.pend = fs.pend
    BY <1>0, <1>8 DEF TypeOK, LinkCommit, Moves, Directory
  <2>2. \A e \in fs.pend : e.of = want[p] /\ e.file = "commit"
    BY <1>1, <2>1, CriticalSteps DEF AppenderAt, OwnPending, CommitPending
  <2>3. \A c \in Unanchored(fs)' : c = want[p]
    BY <1>5, <2>1 DEF Unanchored
  <2>4. PrefixInv'
    BY <1>0, <1>1, <1>4, <2>1 DEF PrefixInv
  <2>5. LeftInv'
    BY <1>3, <1>4, <2>1, <2>2, <2>3 DEF LeftInv
  <2>6. AnnouncedInv' /\ TruthfulDiscard'
    BY <1>3, <1>6, <2>1 DEF AnnouncedInv, TruthfulDiscard
  <2>7. AppenderAt(p)'
    BY <1>1, <1>3, <1>4, <2>1, CriticalSteps DEF AppenderAt, OwnPending
  <2> QED
    BY <2>1, <2>4, <2>5, <2>6, <2>7, NoResumer, CriticalSteps DEF StoreInv
<1>9. CASE SyncCommits(p)
  <2>1. pc[p] = "commitsync" /\ pc'[p] = "headtemp" /\ want' = want /\ fs' = fs
    BY <1>0, <1>9 DEF TypeOK, SyncCommits, MovesSynced
  <2>2. StoreInv'
    BY <2>1, StoreKept DEF SameStore, KillInvAt
  <2>3. AppenderAt(p)'
    BY <1>1, <2>1, CriticalSteps DEF AppenderAt, OwnPending
  <2> QED
    BY <2>1, <2>2, <2>3, NoResumer, CriticalSteps
<1>10. CASE WriteHeadTemp(p)
  <2>1. /\ pc[p] = "headtemp" /\ pc'[p] = "rename" /\ want' = want
        /\ fs'.head = fs.head /\ fs'.commits = fs.commits /\ fs'.alock = fs.alock
        /\ fs'.intent = fs.intent
        /\ fs'.pend = fs.pend \cup {HeadPending(want[p], "append")}
    BY <1>0, <1>10 DEF TypeOK, WriteHeadTemp, MovesSynced, Directory
  <2>2. want[p] \in fs.commits /\ fs.pend \subseteq {OwnPending(p)}
    BY <1>1, <2>1, CriticalSteps DEF AppenderAt
  <2>3. \A e \in fs'.pend : e.of = want[p]
    BY <2>1, <2>2 DEF OwnPending, CommitPending, HeadPending
  <2>4. LeftInv'
    BY <1>0, <1>1, <1>3, <1>4, <2>1, <2>2, <2>3 DEF LeftInv, Unanchored
  <2>5. PrefixInv' /\ AnnouncedInv' /\ TruthfulDiscard'
    BY <1>1, <2>1 DEF PrefixInv, AnnouncedInv, TruthfulDiscard
  <2>6. AppenderAt(p)'
    BY <1>3, <1>4, <2>1, <2>2, CriticalSteps DEF AppenderAt, OwnPending
  <2> QED
    BY <2>1, <2>4, <2>5, <2>6, NoResumer, CriticalSteps DEF StoreInv
<1> QED
  BY <1>7, <1>8, <1>9, <1>10

LEMMA KillHead ==
    ASSUME NEW p \in Procs, KillInvAt(p),
           RenameHead(p) \/ SyncHead(p) \/ UnlinkPending(p) \/ ReleaseAppendLock(p)
    PROVE  StoreInv' /\ AppenderAt(p)' /\ ResumerAt(p)'
<1>0. TypeOK /\ fs \in Directory /\ fs.alock \in Alock /\ fs.head \in Nat
      /\ \A c \in fs.commits : c.seq \in Nat
  BY DEF KillInvAt, IInv, TypeOK, Directory, Commit
<1>1. PrefixInv /\ LeftInv /\ AnnouncedInv /\ TruthfulDiscard /\ AppenderAt(p)
  BY DEF KillInvAt, StoreInv
<1>2. pc[p] \in {"rename", "headsync", "unlink", "release"}
  BY DEF RenameHead, SyncHead, UnlinkPending, ReleaseAppendLock
<1>3. /\ fs.alock.of = want[p] /\ ~fs.alock.sealed
      /\ pc[p] # "release" =>
            fs.alock.st = "full" /\ fs.intent.st = "none" /\ fs.intent.audit = NoCommit
  BY <1>1, <1>2, CriticalSteps DEF AppenderAt, AnnouncedInv
<1>4. want[p].txn # "recovery.publish"
  BY DEF KillInvAt, SubjectInv
<1>6. NoCommit.act = "none"
  BY DEF NoCommit
<1>7. CASE RenameHead(p)
  <2>1. /\ pc[p] = "rename" /\ pc'[p] = "headsync" /\ want' = want
        /\ fs'.head = want[p].seq /\ fs'.commits = fs.commits /\ fs'.alock = fs.alock
        /\ fs'.intent = fs.intent
        /\ fs'.pend = fs.pend \ {HeadPending(want[p], "append")}
    BY <1>0, <1>7 DEF TypeOK, RenameHead, Moves, Directory
  <2>2. /\ want[p] \in fs.commits /\ want[p].seq = fs.head + 1
        /\ fs.pend \subseteq {OwnPending(p), HeadPending(want[p], "append")}
    BY <1>1, <2>1, CriticalSteps DEF AppenderAt
  <2>3. fs'.pend \subseteq {OwnPending(p)} /\ \A e \in fs'.pend : e.of = want[p] /\ e.file = "commit"
    BY <2>1, <2>2 DEF OwnPending, CommitPending
  <2>4. fs'.head = fs.head + 1
    BY <2>1, <2>2
  <2>5. Unanchored(fs)' = {}
    BY <1>0, <1>1, <2>1, <2>4 DEF PrefixInv, Unanchored
  <2>6. PrefixInv'
    BY <1>0, <1>1, <2>1, <2>2, <2>4 DEF PrefixInv
  <2>7. LeftInv'
    BY <1>0, <1>3, <1>4, <2>1, <2>2, <2>3, <2>5 DEF LeftInv
  <2>8. AnnouncedInv' /\ TruthfulDiscard'
    BY <1>1, <1>3, <1>6, <2>1 DEF AnnouncedInv, TruthfulDiscard
  <2>9. AppenderAt(p)'
    BY <1>3, <2>1, <2>2, <2>3, <2>5, CriticalSteps DEF AppenderAt, OwnPending
  <2> QED
    BY <2>1, <2>6, <2>7, <2>8, <2>9, NoResumer, CriticalSteps DEF StoreInv
<1>8. CASE SyncHead(p)
  <2>1. pc[p] = "headsync" /\ pc'[p] = "unlink" /\ want' = want /\ fs' = fs
    BY <1>0, <1>8 DEF TypeOK, SyncHead, MovesSynced
  <2>2. StoreInv'
    BY <2>1, StoreKept DEF SameStore, KillInvAt
  <2>3. AppenderAt(p)'
    BY <1>1, <2>1, CriticalSteps DEF AppenderAt, OwnPending
  <2> QED
    BY <2>1, <2>2, <2>3, NoResumer, CriticalSteps
<1>9. CASE UnlinkPending(p)
  <2>1. /\ pc[p] = "unlink" /\ pc'[p] = "release" /\ want' = want
        /\ fs'.head = fs.head /\ fs'.commits = fs.commits /\ fs'.alock = fs.alock
        /\ fs'.intent = fs.intent
        /\ fs'.pend = fs.pend \ {OwnPending(p)}
    BY <1>0, <1>9 DEF TypeOK, UnlinkPending, MovesSynced, Directory, OwnPending
  <2>2. fs.pend \subseteq {OwnPending(p)} /\ Unanchored(fs) = {}
    BY <1>1, <2>1, CriticalSteps DEF AppenderAt
  <2>3. fs'.pend = {} /\ Unanchored(fs)' = {}
    BY <2>1, <2>2 DEF Unanchored
  <2>4. StoreInv'
    BY <1>1, <1>3, <2>1, <2>3
    DEF StoreInv, PrefixInv, LeftInv, AnnouncedInv, TruthfulDiscard
  <2>5. AppenderAt(p)'
    BY <1>3, <2>1, <2>3, CriticalSteps DEF AppenderAt
  <2> QED
    BY <2>1, <2>4, <2>5, NoResumer, CriticalSteps
<1>10. CASE ReleaseAppendLock(p)
  <2>1. /\ pc[p] = "release" /\ pc'[p] \in {"release", "return"} /\ want' = want
        /\ fs'.head = fs.head /\ fs'.commits = fs.commits
        /\ fs'.intent = fs.intent /\ fs'.pend = fs.pend
        /\ fs'.alock.st # "full" /\ ~fs'.alock.sealed
        /\ pc'[p] = "release" => fs'.alock.of = want[p]
    BY <1>0, <1>3, <1>10
    DEF TypeOK, ReleaseAppendLock, Moves, MovesSynced, Directory, Alock, NoAlock
  <2>2. fs.intent.st = "none" => Unanchored(fs) = {} /\ (fs.commits # {} => fs.pend = {})
    BY <1>1, <2>1, CriticalSteps DEF AppenderAt
  <2>3. Unanchored(fs)' = Unanchored(fs)
    BY <2>1 DEF Unanchored
  <2>4. StoreInv'
    BY <1>1, <2>1, <2>2, <2>3
    DEF StoreInv, PrefixInv, LeftInv, AnnouncedInv, TruthfulDiscard
  <2>5. CASE pc'[p] = "release"
    <3>1. AppenderAt(p)'
      BY <2>1, <2>2, <2>3, <2>5, CriticalSteps DEF AppenderAt
    <3> QED
      BY <2>4, <2>5, <3>1, NoResumer, CriticalSteps
  <2>6. CASE pc'[p] = "return"
    BY <2>4, <2>6, AtRest
  <2> QED
    BY <2>1, <2>5, <2>6
<1> QED
  BY <1>7, <1>8, <1>9, <1>10

\* A publish recovery appends nothing itself.
LEMMA NoAppender ==
    ASSUME NEW p \in Procs, pc'[p] \notin CriticalPcs
    PROVE  AppenderAt(p)'
BY CriticalSteps DEF AppenderAt

LEMMA KillPreGenesis ==
    ASSUME NEW p \in Procs, KillInvAt(p), DiscardPreGenesisLock(p) \/ DiscardPreGenesisPending(p)
    PROVE  StoreInv' /\ AppenderAt(p)' /\ ResumerAt(p)'
<1>0. TypeOK /\ fs \in Directory /\ fs.alock \in Alock /\ fs.head \in Nat
  BY DEF KillInvAt, IInv, TypeOK, Directory
<1>1. PrefixInv /\ LeftInv /\ AnnouncedInv /\ TruthfulDiscard
  BY DEF KillInvAt, StoreInv
<1>2. PreGenesis(fs) /\ fs.intent.st = "none"
  BY DEF KillInvAt, ResumerAt, PregenesisPcs, DiscardPreGenesisLock, DiscardPreGenesisPending
<1>3. fs.commits = {} /\ fs.head = 0 /\ ~fs.alock.sealed
  BY <1>1, <1>2 DEF PreGenesis, LeftInv
<1>4. /\ fs'.head = fs.head /\ fs'.commits = {} /\ fs'.intent = fs.intent
      /\ fs'.pend \subseteq fs.pend /\ ~fs'.alock.sealed
  BY <1>0, <1>3 DEF DiscardPreGenesisLock, DiscardPreGenesisPending, Moves, MovesSynced,
                    Directory, Alock, NoAlock
<1>5. StoreInv'
  BY <1>1, <1>2, <1>3, <1>4
  DEF StoreInv, PrefixInv, LeftInv, AnnouncedInv, TruthfulDiscard, Unanchored
<1>6. CASE DiscardPreGenesisLock(p)
  <2>1. pc'[p] \in {"g.rmdir", "g.unlink"}
    BY <1>0, <1>6 DEF TypeOK, DiscardPreGenesisLock, Moves
  <2>2. ResumerAt(p)'
    BY <1>2, <1>3, <1>4, <2>1
    DEF ResumerAt, PreGenesis, Unlinked, IntentPcs, PublishRecoveryPcs, PregenesisPcs
  <2> QED
    BY <1>5, <2>1, <2>2, NoAppender, CriticalSteps
<1>7. CASE DiscardPreGenesisPending(p)
  BY <1>0, <1>5, <1>7, AtRest DEF TypeOK, DiscardPreGenesisPending, MovesSynced
<1> QED
  BY <1>6, <1>7

\* What a commit file of an append that was cut short is about, if it was
\* linked, is what the recovery recovers.
LEMMA LinkedIsRecovered ==
    ASSUME TypeOK, LeftInv, FreshAccepted(fs), NEW e \in fs.pend, e.of \in fs.commits
    PROVE  Recovered(fs) # {}
<1>0. fs.head \in Nat /\ e.of.seq \in Nat
  BY DEF TypeOK, Directory, Commit
<1>1. /\ fs.alock.st = "full" /\ fs.alock.of = e.of /\ e.of.seq \in {fs.head, fs.head + 1}
  BY DEF LeftInv, FreshAccepted
<1>2. CASE e.of.seq = fs.head
  BY <1>0, <1>1, <1>2 DEF Recovered, Anchored
<1>3. CASE e.of.seq = fs.head + 1
  BY <1>0, <1>3 DEF Recovered, Unanchored
<1> QED
  BY <1>1, <1>2, <1>3

LEMMA KillIntent ==
    ASSUME NEW p \in Procs, KillInvAt(p), WriteIntent(p)
    PROVE  StoreInv' /\ AppenderAt(p)' /\ ResumerAt(p)'
<1>0. TypeOK /\ fs \in Directory /\ fs.alock \in Alock /\ fs.head \in Nat
  BY DEF KillInvAt, IInv, TypeOK, Directory
<1>1. PrefixInv /\ LeftInv /\ AnnouncedInv
  BY DEF KillInvAt, StoreInv
<1>2. FreshAccepted(fs)
  BY DEF KillInvAt, IInv, RecoveryInv, WriteIntent
<1>3. LET i == FreshIntent(fs)
      IN /\ i.st = "full" /\ fs.head <= i.audit.seq /\ i.audit.seq > 0
         /\ i.affected = NoCommit => i.audit.seq = fs.head + 1
         /\ i.affected # NoCommit =>
              /\ i.audit.seq = i.affected.seq + 1
              /\ i.affected.seq \in fs.head .. (fs.head + 1)
              /\ i.affected \in fs.commits
         /\ i.audit \notin fs.commits
  BY <1>1, <1>2, FreshIntentRight DEF KillInvAt, PrefixInv
<1>4. /\ pc'[p] = "r.lock" /\ fs'.intent = FreshIntent(fs)
      /\ fs'.head = fs.head /\ fs'.commits = fs.commits /\ fs'.pend = fs.pend
      /\ fs'.alock.st = fs.alock.st /\ fs'.alock.sealed = (fs.alock.st = "full")
  BY <1>0 DEF TypeOK, WriteIntent, MovesSynced, Directory, Alock
<1>5. FreshIntent(fs).names = fs.pend /\ FreshIntent(fs).audit.act = RecoveryAction(fs)
      /\ (fs.alock.st = "full" => FreshIntent(fs).lock = "complete_abandoned")
  BY DEF FreshIntent
<1>6. \A e \in fs.pend : e.of.txn # "recovery.publish"
  BY <1>1, <1>2 DEF LeftInv, FreshAccepted
<1>7. AnnouncedInv'
  <2>1. \/ FreshIntent(fs).audit.seq <= fs.head + 1
        \/ FreshIntent(fs).affected.seq = fs.head + 1 /\ FreshIntent(fs).audit \notin fs.commits
    BY <1>0, <1>3
  <2> QED
    BY <1>3, <1>4, <1>5, <1>6, <2>1 DEF AnnouncedInv
<1>8. TruthfulDiscard'
  <2> SUFFICES ASSUME RecoveryAction(fs) = "discarded_uncommitted_pending",
                      NEW e \in fs.pend, e.of \in fs.commits
               PROVE  FALSE
    BY <1>4, <1>5 DEF TruthfulDiscard
  <2>1. Recovered(fs) # {}
    BY <1>0, <1>1, <1>2, LinkedIsRecovered
  <2> QED
    BY <2>1 DEF RecoveryAction
<1>9. PrefixInv' /\ LeftInv'
  BY <1>1, <1>3, <1>4 DEF PrefixInv, LeftInv
<1>10. ResumerAt(p)'
  BY <1>4, <1>5 DEF ResumerAt, Unlinked, IntentPcs, PublishRecoveryPcs, PregenesisPcs
<1> QED
  BY <1>4, <1>7, <1>8, <1>9, <1>10, NoAppender, CriticalSteps DEF StoreInv

\* What is known wherever a publish recovery resumes.
LEMMA ResumerKnows ==
    ASSUME NEW p \in Procs, KillInvAt(p), pc[p] \in IntentPcs
    PROVE  /\ TypeOK /\ fs \in Directory /\ fs.alock \in Alock /\ fs.head \in Nat
           /\ fs.intent.audit.seq \in Nat /\ fs.intent.affected.seq \in Nat
           /\ \A c \in fs.commits : c.seq \in Nat
           /\ PrefixInv /\ LeftInv /\ AnnouncedInv /\ TruthfulDiscard /\ ResumerAt(p)
           /\ fs.intent.st = "full" /\ fs.intent.audit.txn = "recovery.publish"
           /\ fs.intent.affected.seq > 0 => fs.intent.affected # NoCommit
           /\ fs.pend \subseteq fs.intent.names \cup AuditFiles \cup AnchorFiles(p)
           /\ pc[p] \notin {"r.lock", "r.rmdir"} => fs.alock.st = "none" /\ ~fs.alock.sealed
<1>1. TypeOK /\ fs \in Directory /\ fs.alock \in Alock /\ fs.head \in Nat
      /\ fs.intent.audit.seq \in Nat /\ fs.intent.affected.seq \in Nat
      /\ \A c \in fs.commits : c.seq \in Nat
  BY DEF KillInvAt, IInv, TypeOK, Directory, Intent, Commit
<1>2. fs.intent.st = "full"
  BY DEF KillInvAt, IInv, RecoveryInv
<1> QED
  BY <1>1, <1>2 DEF KillInvAt, StoreInv, SubjectInv, ResumerAt, NoCommit

LEMMA KillLockCleanup ==
    ASSUME NEW p \in Procs, KillInvAt(p), RemoveAppendLock(p)
    PROVE  StoreInv' /\ AppenderAt(p)' /\ ResumerAt(p)'
<1>1. pc[p] \in {"r.lock", "r.rmdir"} /\ pc[p] \in IntentPcs
  BY DEF RemoveAppendLock, IntentPcs, PublishRecoveryPcs, PregenesisPcs
<1>2. TypeOK /\ fs \in Directory /\ fs.alock \in Alock /\ fs.head \in Nat
      /\ fs.intent.affected.seq \in Nat
      /\ PrefixInv /\ LeftInv /\ AnnouncedInv /\ TruthfulDiscard /\ fs.intent.st = "full"
      /\ fs.pend \subseteq fs.intent.names \cup AuditFiles \cup AnchorFiles(p)
  BY <1>1, ResumerKnows
<1>3. AnchorFiles(p) = {}
  BY <1>1 DEF AnchorFiles
<1>4. /\ fs'.head = fs.head /\ fs'.commits = fs.commits /\ fs'.pend = fs.pend
      /\ fs'.intent = fs.intent
      /\ \/ pc'[p] = "r.rmdir" /\ fs'.alock.st = "dir" /\ fs'.alock.sealed = fs.alock.sealed
         \/ pc'[p] = AfterLockCleanup /\ fs'.alock.st = "none" /\ ~fs'.alock.sealed
  BY <1>2 DEF TypeOK, RemoveAppendLock, Moves, MovesSynced, Directory, Alock, NoAlock, AnnouncedInv
<1>5. StoreInv'
  BY <1>2, <1>4 DEF StoreInv, PrefixInv, LeftInv, AnnouncedInv, TruthfulDiscard
<1>6. pc'[p] \in {"r.rmdir", "r.commitsync", "r.unlink"}
  BY <1>4 DEF AfterLockCleanup
<1>7. /\ pc'[p] = "r.commitsync" => fs.head < fs.intent.affected.seq
      /\ pc'[p] = "r.unlink" => fs.intent.affected.seq <= fs.head
  BY <1>2, <1>4 DEF AfterLockCleanup
<1>8. ResumerAt(p)'
  BY <1>2, <1>3, <1>4, <1>6, <1>7
  DEF ResumerAt, AuditFiles, AnchorFiles, Unlinked, IntentPcs, PublishRecoveryPcs, PregenesisPcs
<1> QED
  BY <1>5, <1>6, <1>8, NoAppender, CriticalSteps

LEMMA KillSyncs ==
    ASSUME NEW p \in Procs, KillInvAt(p),
           RecoverySyncCommits(p) \/ RecoverySyncHead(p) \/ SyncAudit(p)
    PROVE  StoreInv' /\ AppenderAt(p)' /\ ResumerAt(p)'
<1> USE DEF IntentPcs, PublishRecoveryPcs, PregenesisPcs
<1>1. pc[p] \in {"r.commitsync", "r.headsync", "r.linksync"} /\ pc[p] \in IntentPcs /\ fs' = fs
  BY DEF RecoverySyncCommits, RecoverySyncHead, SyncAudit, MovesSynced
<1>2. TypeOK /\ fs.head \in Nat
      /\ fs.intent.audit.seq \in Nat /\ fs.intent.affected.seq \in Nat
      /\ PrefixInv /\ AnnouncedInv /\ ResumerAt(p) /\ fs.intent.st = "full"
      /\ (fs.intent.affected.seq > 0 => fs.intent.affected # NoCommit)
      /\ fs.pend \subseteq fs.intent.names \cup AuditFiles \cup AnchorFiles(p)
      /\ fs.alock.st = "none" /\ ~fs.alock.sealed
  BY <1>1, ResumerKnows
<1>3. AnchorFiles(p) = {}
  BY <1>1 DEF AnchorFiles
<1>4. StoreInv'
  BY <1>1, StoreKept DEF SameStore, KillInvAt
<1>5. CASE RecoverySyncCommits(p)
  <2>1. pc[p] = "r.commitsync" /\ pc'[p] = "r.temp"
    BY <1>2, <1>5 DEF TypeOK, RecoverySyncCommits, MovesSynced
  <2>2. fs.head < fs.intent.affected.seq
    BY <1>2, <2>1 DEF ResumerAt
  <2>3. NextAnchor(fs) = fs.intent.affected /\ fs.intent.affected \in fs.commits
    BY <1>2, <2>2 DEF NextAnchor, AnnouncedInv
  <2>4. fs.intent.affected.seq = fs.head + 1
    BY <1>2, <2>2, <2>3 DEF PrefixInv
  <2>5. ResumerAt(p)'
    BY <1>1, <1>2, <1>3, <2>1, <2>2, <2>3, <2>4 DEF ResumerAt, AuditFiles, Unlinked
  <2> QED
    BY <1>4, <2>1, <2>5, NoAppender, CriticalSteps
<1>6. CASE RecoverySyncHead(p)
  <2>1. pc[p] = "r.headsync" /\ pc'[p] \in {"r.done", "r.unlink"}
        /\ (pc'[p] = "r.done" => fs.head = fs.intent.audit.seq)
    BY <1>2, <1>6 DEF TypeOK, RecoverySyncHead, MovesSynced
  <2>2. /\ fs.intent.affected.seq <= fs.head
        /\ pc'[p] = "r.done" => fs.pend \cap fs.intent.names = {}
    BY <1>2, <2>1 DEF ResumerAt, Unlinked
  <2>3. ResumerAt(p)'
    BY <1>1, <1>2, <1>3, <2>1, <2>2 DEF ResumerAt, AuditFiles, Unlinked
  <2> QED
    BY <1>4, <2>1, <2>3, NoAppender, CriticalSteps
<1>7. CASE SyncAudit(p)
  <2>1. pc[p] = "r.linksync" /\ pc'[p] = "r.temp"
    BY <1>2, <1>7 DEF TypeOK, SyncAudit, MovesSynced
  <2>2. /\ fs.head < fs.intent.audit.seq /\ fs.intent.audit \in fs.commits
        /\ fs.intent.affected.seq <= fs.head /\ fs.pend \cap fs.intent.names = {}
    BY <1>2, <2>1 DEF ResumerAt, Unlinked
  <2>3. NextAnchor(fs) = fs.intent.audit /\ fs.intent.audit.seq = fs.head + 1
    BY <1>2, <2>2 DEF NextAnchor, PrefixInv
  <2>4. ResumerAt(p)'
    BY <1>1, <1>2, <1>3, <2>1, <2>2, <2>3 DEF ResumerAt, AuditFiles, Unlinked
  <2> QED
    BY <1>4, <2>1, <2>4, NoAppender, CriticalSteps
<1> QED
  BY <1>5, <1>6, <1>7

\* The names of an intent are of what an append left, so neither the audit
\* nor its HEAD temporary is among them.
LEMMA AuditFilesApart ==
    ASSUME AnnouncedInv, fs.intent.st = "full", fs.intent.audit.txn = "recovery.publish"
    PROVE  fs.intent.names \cap (AuditFiles \cup {HeadPending(fs.intent.audit, "recovery")}) = {}
BY DEF AnnouncedInv, AuditFiles, AuditPending, CommitPending, HeadPending, Torn

LEMMA KillAnchors ==
    ASSUME NEW p \in Procs, KillInvAt(p), RecoveryHeadTemp(p) \/ RecoveryRenameHead(p)
    PROVE  StoreInv' /\ AppenderAt(p)' /\ ResumerAt(p)'
<1> USE DEF IntentPcs, PublishRecoveryPcs, PregenesisPcs
<1>1. pc[p] \in {"r.temp", "r.rename"} /\ pc[p] \in IntentPcs
  BY DEF RecoveryHeadTemp, RecoveryRenameHead
<1>2. TypeOK /\ fs \in Directory /\ fs.head \in Nat
      /\ fs.intent.audit.seq \in Nat /\ fs.intent.affected.seq \in Nat
      /\ (\A c \in fs.commits : c.seq \in Nat)
      /\ PrefixInv /\ AnnouncedInv /\ TruthfulDiscard /\ ResumerAt(p) /\ fs.intent.st = "full"
      /\ fs.intent.audit.txn = "recovery.publish"
      /\ (fs.intent.affected.seq > 0 => fs.intent.affected # NoCommit)
      /\ fs.pend \subseteq fs.intent.names \cup AuditFiles \cup AnchorFiles(p)
      /\ fs.alock.st = "none" /\ ~fs.alock.sealed
  BY <1>1, ResumerKnows
<1>3. NextAnchor(fs) \in fs.commits /\ NextAnchor(fs).seq = fs.head + 1
  BY <1>1, <1>2 DEF ResumerAt
<1>4. fs.intent.affected.seq <= fs.head =>
        fs.pend \cap fs.intent.names = {} /\ NextAnchor(fs) = fs.intent.audit
  BY <1>1, <1>2 DEF ResumerAt, Unlinked, NextAnchor
<1>5. CASE RecoveryHeadTemp(p)
  <2>1. /\ pc[p] = "r.temp" /\ pc'[p] = "r.rename" /\ fs'.head = fs.head
        /\ fs'.commits = fs.commits /\ fs'.intent = fs.intent /\ fs'.alock = fs.alock
        /\ fs'.pend = fs.pend \cup {HeadPending(NextAnchor(fs), "recovery")}
    BY <1>2, <1>5 DEF TypeOK, RecoveryHeadTemp, MovesSynced, Directory
  <2>2. StoreInv'
    BY <1>2, <2>1 DEF StoreInv, PrefixInv, LeftInv, AnnouncedInv, TruthfulDiscard
  <2>3. NextAnchor(fs)' = NextAnchor(fs)
    BY <2>1 DEF NextAnchor
  <2>4. fs'.pend \subseteq fs'.intent.names \cup AuditFiles' \cup AnchorFiles(p)'
    BY <1>2, <2>1, <2>3 DEF AuditFiles, AnchorFiles
  <2>5. fs.intent.affected.seq <= fs.head => fs'.pend \cap fs'.intent.names = {}
    BY <1>2, <1>4, <2>1, AuditFilesApart
  <2>6. ResumerAt(p)'
    BY <1>2, <1>3, <2>1, <2>3, <2>4, <2>5 DEF ResumerAt, Unlinked
  <2> QED
    BY <2>1, <2>2, <2>6, NoAppender, CriticalSteps
<1>6. CASE RecoveryRenameHead(p)
  <2>1. /\ pc[p] = "r.rename" /\ pc'[p] = "r.headsync" /\ fs'.head = fs.head + 1
        /\ fs'.commits = fs.commits /\ fs'.intent = fs.intent /\ fs'.alock = fs.alock
        /\ fs'.pend = fs.pend \ {HeadPending(NextAnchor(fs), "recovery")}
    BY <1>2, <1>3, <1>6 DEF TypeOK, RecoveryRenameHead, Moves, Directory
  <2>2. PrefixInv'
    BY <1>2, <1>3, <2>1 DEF PrefixInv
  <2>3. /\ fs.head + 1 <= fs.intent.audit.seq /\ fs.intent.audit.seq <= fs.head + 2
        /\ fs.intent.affected.seq <= fs.head + 1
        /\ fs.intent.audit.seq = fs.head + 1 => fs.intent.affected.seq <= fs.head
    <3>1. CASE fs.intent.affected.seq <= fs.head
      BY <1>2, <1>3, <1>4, <3>1
    <3>2. CASE fs.head < fs.intent.affected.seq
      <4>1. fs.intent.affected.seq = fs.head + 1
        BY <1>3, <3>2 DEF NextAnchor
      <4> QED
        BY <1>2, <4>1 DEF AnnouncedInv
    <3> QED
      BY <1>2, <3>1, <3>2
  <2>4. AnnouncedInv'
    BY <1>2, <2>1, <2>3 DEF AnnouncedInv
  <2>5. LeftInv' /\ TruthfulDiscard'
    BY <1>2, <2>1 DEF LeftInv, TruthfulDiscard
  <2>6. fs'.pend \subseteq fs'.intent.names \cup AuditFiles' \cup AnchorFiles(p)'
    BY <1>2, <2>1 DEF AuditFiles, AnchorFiles
  <2>7. fs'.head = fs.intent.audit.seq => fs'.pend \cap fs.intent.names = {}
    BY <1>4, <2>1, <2>3
  <2>8. ResumerAt(p)'
    BY <1>2, <2>1, <2>3, <2>6, <2>7 DEF ResumerAt, Unlinked
  <2> QED
    BY <2>1, <2>2, <2>4, <2>5, <2>8, NoAppender, CriticalSteps DEF StoreInv
<1> QED
  BY <1>5, <1>6

LEMMA KillUnlinks ==
    ASSUME NEW p \in Procs, KillInvAt(p), RecoveryUnlinkPending(p) \/ UnlinkAuditPending(p)
    PROVE  StoreInv' /\ AppenderAt(p)' /\ ResumerAt(p)'
<1> USE DEF IntentPcs, PublishRecoveryPcs, PregenesisPcs
<1>1. pc[p] \in {"r.unlink", "r.done"} /\ pc[p] \in IntentPcs
  BY DEF RecoveryUnlinkPending, UnlinkAuditPending
<1>2. TypeOK /\ fs \in Directory
      /\ PrefixInv /\ AnnouncedInv /\ TruthfulDiscard /\ ResumerAt(p) /\ fs.intent.st = "full"
      /\ fs.pend \subseteq fs.intent.names \cup AuditFiles \cup AnchorFiles(p)
      /\ fs.alock.st = "none" /\ ~fs.alock.sealed
  BY <1>1, ResumerKnows
<1>3. AnchorFiles(p) = {}
  BY <1>1 DEF AnchorFiles
<1>4. /\ fs'.head = fs.head /\ fs'.commits = fs.commits /\ fs'.intent = fs.intent
      /\ fs'.alock = fs.alock /\ fs'.pend \subseteq fs.pend
  BY <1>2 DEF RecoveryUnlinkPending, UnlinkAuditPending, Moves, MovesSynced, Directory
<1>5. StoreInv'
  BY <1>2, <1>4 DEF StoreInv, PrefixInv, LeftInv, AnnouncedInv, TruthfulDiscard
<1>6. CASE RecoveryUnlinkPending(p)
  <2>1. pc[p] = "r.unlink" /\ pc'[p] \in {"r.unlink", "r.audit"}
        /\ (pc'[p] = "r.audit" => fs'.pend \cap fs.intent.names = {})
    BY <1>2, <1>6 DEF TypeOK, RecoveryUnlinkPending, Moves, MovesSynced
  <2>2. fs.intent.affected.seq <= fs.head
    BY <1>2, <2>1 DEF ResumerAt
  <2>3. ResumerAt(p)'
    BY <1>2, <1>3, <1>4, <2>1, <2>2 DEF ResumerAt, AuditFiles, Unlinked
  <2> QED
    BY <1>5, <2>1, <2>3, NoAppender, CriticalSteps
<1>7. CASE UnlinkAuditPending(p)
  <2>1. pc[p] = "r.done" /\ pc'[p] = "r.clear" /\ fs'.pend = fs.pend \ AuditFiles
    BY <1>2, <1>7 DEF TypeOK, UnlinkAuditPending, MovesSynced, Directory, AuditFiles
  <2>2. fs.pend \cap fs.intent.names = {} /\ fs.head = fs.intent.audit.seq
    BY <1>2, <2>1 DEF ResumerAt, Unlinked
  <2>3. fs'.pend = {}
    BY <1>2, <1>3, <2>1, <2>2
  <2>4. ResumerAt(p)'
    BY <1>2, <1>4, <2>1, <2>2, <2>3 DEF ResumerAt, Unlinked
  <2> QED
    BY <1>5, <2>1, <2>4, NoAppender, CriticalSteps
<1> QED
  BY <1>6, <1>7

LEMMA KillAudit ==
    ASSUME NEW p \in Procs, KillInvAt(p), WriteAudit(p) \/ LinkAudit(p) \/ ClearIntent(p)
    PROVE  StoreInv' /\ AppenderAt(p)' /\ ResumerAt(p)'
<1> USE DEF IntentPcs, PublishRecoveryPcs, PregenesisPcs
<1>1. pc[p] \in {"r.audit", "r.link", "r.clear"} /\ pc[p] \in IntentPcs
  BY DEF WriteAudit, LinkAudit, ClearIntent
<1>2. TypeOK /\ fs \in Directory /\ fs.head \in Nat
      /\ fs.intent.audit.seq \in Nat /\ fs.intent.affected.seq \in Nat
      /\ (\A c \in fs.commits : c.seq \in Nat)
      /\ PrefixInv /\ AnnouncedInv /\ TruthfulDiscard /\ ResumerAt(p) /\ fs.intent.st = "full"
      /\ fs.intent.audit.txn = "recovery.publish"
      /\ fs.pend \subseteq fs.intent.names \cup AuditFiles \cup AnchorFiles(p)
      /\ fs.alock.st = "none" /\ ~fs.alock.sealed
  BY <1>1, ResumerKnows
<1>3. AnchorFiles(p) = {} /\ fs.pend \cap fs.intent.names = {}
  BY <1>1, <1>2 DEF AnchorFiles, ResumerAt, Unlinked
<1>4. \A c \in fs.commits : c.seq < fs.intent.audit.seq \/ c = fs.intent.audit
  BY <1>2 DEF KillInvAt, IInv, AuditInv
<1>5. CASE WriteAudit(p)
  <2>1. pc[p] = "r.audit" /\ pc'[p] \in {"r.temp", "r.done", "r.link"}
        /\ fs'.head = fs.head /\ fs'.commits = fs.commits /\ fs'.intent = fs.intent
        /\ fs'.alock = fs.alock
        /\ fs'.pend \subseteq fs.pend \cup {AuditPending(fs.intent)}
        /\ (pc'[p] # "r.link" => fs.intent.audit \in fs.commits)
        /\ (pc'[p] = "r.link" => fs.intent.audit \notin fs.commits)
        /\ (pc'[p] = "r.temp" => fs.head < fs.intent.audit.seq)
        /\ (pc'[p] = "r.done" => ~(fs.head < fs.intent.audit.seq))
    BY <1>2, <1>5 DEF TypeOK, WriteAudit, Moves, MovesSynced, Directory
  <2>2. StoreInv'
    BY <1>2, <2>1 DEF StoreInv, PrefixInv, LeftInv, AnnouncedInv, TruthfulDiscard
  <2>3. fs.intent.affected.seq <= fs.head
    BY <1>2, <2>1 DEF ResumerAt
  <2>4. /\ fs'.pend \subseteq fs'.intent.names \cup AuditFiles'
        /\ fs'.pend \cap fs'.intent.names = {}
    BY <1>2, <1>3, <2>1, AuditFilesApart DEF AuditFiles
  <2>5. CASE pc'[p] = "r.link"
    <3>1. fs.head < fs.intent.audit.seq
      <4>1. SUFFICES ASSUME fs.head = fs.intent.audit.seq PROVE FALSE
        BY <1>2 DEF AnnouncedInv
      <4>2. fs.head \in 1 .. fs.head
        BY <1>2, <4>1 DEF AnnouncedInv
      <4>3. PICK c \in fs.commits : c.seq = fs.head
        BY <1>2, <4>2 DEF PrefixInv
      <4> QED
        BY <1>2, <1>4, <2>1, <2>5, <4>1, <4>3
    <3>2. ResumerAt(p)'
      BY <1>2, <2>1, <2>3, <2>4, <2>5, <3>1 DEF ResumerAt, Unlinked
    <3> QED
      BY <2>2, <2>5, <3>2, NoAppender, CriticalSteps
  <2>6. CASE pc'[p] = "r.temp"
    <3>1. NextAnchor(fs)' = fs.intent.audit /\ fs.intent.audit.seq = fs.head + 1
      BY <1>2, <2>1, <2>3, <2>6 DEF NextAnchor, PrefixInv
    <3>2. ResumerAt(p)'
      BY <1>2, <2>1, <2>3, <2>4, <2>6, <3>1 DEF ResumerAt, Unlinked
    <3> QED
      BY <2>2, <2>6, <3>2, NoAppender, CriticalSteps
  <2>7. CASE pc'[p] = "r.done"
    <3>1. fs.head = fs.intent.audit.seq
      BY <1>2, <2>1, <2>7 DEF AnnouncedInv
    <3>2. ResumerAt(p)'
      BY <1>2, <2>1, <2>4, <2>7, <3>1 DEF ResumerAt, Unlinked
    <3> QED
      BY <2>2, <2>7, <3>2, NoAppender, CriticalSteps
  <2> QED
    BY <2>1, <2>5, <2>6, <2>7
<1>6. CASE LinkAudit(p)
  <2>1. pc[p] = "r.link" /\ pc'[p] = "r.linksync"
        /\ fs'.head = fs.head /\ fs'.commits = fs.commits \cup {fs.intent.audit}
        /\ fs'.intent = fs.intent /\ fs'.alock = fs.alock /\ fs'.pend = fs.pend
    BY <1>2, <1>6 DEF TypeOK, LinkAudit, Moves, Directory
  <2>2. fs.intent.affected.seq <= fs.head /\ fs.head < fs.intent.audit.seq
    BY <1>2, <2>1 DEF ResumerAt
  <2>3. fs.intent.audit.seq = fs.head + 1
    BY <1>2, <2>2 DEF AnnouncedInv
  <2>4. PrefixInv'
    BY <1>2, <2>1, <2>3 DEF PrefixInv
  <2>5. AnnouncedInv'
    BY <1>2, <2>1, <2>3 DEF AnnouncedInv
  <2>6. TruthfulDiscard' /\ LeftInv'
    <3>1. \A e \in fs.intent.names : e.of # fs.intent.audit
      BY <1>2 DEF AnnouncedInv
    <3> QED
      BY <1>2, <2>1, <3>1 DEF TruthfulDiscard, LeftInv
  <2>7. ResumerAt(p)'
    BY <1>2, <1>3, <2>1, <2>2 DEF ResumerAt, Unlinked, AuditFiles
  <2> QED
    BY <2>1, <2>4, <2>5, <2>6, <2>7, NoAppender, CriticalSteps DEF StoreInv
<1>7. CASE ClearIntent(p)
  <2>1. pc[p] = "r.clear" /\ pc'[p] = "idle"
        /\ fs'.head = fs.head /\ fs'.commits = fs.commits
        /\ fs'.intent = NoIntent /\ fs'.alock = fs.alock /\ fs'.pend = fs.pend
    BY <1>2, <1>7 DEF TypeOK, ClearIntent, MovesSynced, Directory
  <2>2. fs.pend = {} /\ fs.head = fs.intent.audit.seq
    BY <1>2, <2>1 DEF ResumerAt
  <2>3. Unanchored(fs)' = {}
    BY <1>2, <1>4, <2>1, <2>2 DEF Unanchored
  <2>4. StoreInv'
    BY <1>2, <2>1, <2>2, <2>3
    DEF StoreInv, PrefixInv, LeftInv, AnnouncedInv, TruthfulDiscard, NoIntent, NoCommit
  <2> QED
    BY <2>1, <2>4, AtRest
<1> QED
  BY <1>5, <1>6, <1>7

LEMMA KillStrikes ==
    ASSUME NEW p \in Procs, KillInvAt(p), Kill(p)
    PROVE  StoreInv' /\ AppenderAt(p)' /\ ResumerAt(p)'
<1>0. TypeOK /\ fs \in Directory /\ fs.alock \in Alock /\ fs.intent \in Intent
  BY DEF KillInvAt, IInv, TypeOK, Directory
<1>1. PICK f \in CutShort(p) :
        fs' = IF f.alock.by = p THEN [f EXCEPT !.alock.live = FALSE] ELSE f
  BY DEF Kill
<1>2. pc'[p] = "idle"
  BY <1>0 DEF TypeOK, Kill, Ends
<1>3. f \in Directory
  BY <1>0, CutShortType
<1>4. /\ fs'.head = f.head /\ fs'.commits = f.commits /\ fs'.pend = f.pend
      /\ fs'.intent = f.intent /\ fs'.alock.st = f.alock.st /\ fs'.alock.of = f.alock.of
      /\ fs'.alock.sealed = f.alock.sealed
  BY <1>1, <1>3 DEF Directory, Alock
<1>5. PrefixInv /\ LeftInv /\ AnnouncedInv /\ TruthfulDiscard /\ AppenderAt(p)
  BY DEF KillInvAt, StoreInv
<1> USE DEF StoreInv, PrefixInv, LeftInv, AnnouncedInv, TruthfulDiscard, Unanchored
<1>6. CASE f = fs
  <2>1. StoreInv'
    BY <1>4, <1>5, <1>6
  <2> QED
    BY <1>2, <2>1, AtRest
<1>7. CASE pc[p] \in {"pending", "headtemp"}
           /\ f \in {[fs EXCEPT !.pend = @ \cup {Torn(OwnPending(p))}],
                     [fs EXCEPT !.pend = @ \cup {HeadPending(want[p], "append")}]}
           /\ (pc[p] = "pending" => f = [fs EXCEPT !.pend = @ \cup {Torn(OwnPending(p))}])
  <2>1. PICK e : /\ e \in {Torn(OwnPending(p)), HeadPending(want[p], "append")}
                 /\ pc[p] = "pending" => e = Torn(OwnPending(p))
                 /\ f.pend = fs.pend \cup {e}
                 /\ f.head = fs.head /\ f.commits = fs.commits /\ f.alock = fs.alock
                 /\ f.intent = fs.intent
    BY <1>0, <1>7 DEF Directory
  <2>2. /\ e.of = want[p]
        /\ pc[p] = "pending" => e.file # "head"
    BY <2>1 DEF Torn, OwnPending, CommitPending, HeadPending
  <2>3. want[p].txn # "recovery.publish" /\ want[p].seq = fs.head + 1
    BY <1>5, <1>7, CriticalSteps DEF KillInvAt, SubjectInv, IInv, BaseInv, AppenderAt
  <2>4. /\ fs.alock.of = want[p] /\ ~fs.alock.sealed /\ fs.alock.st = "full"
        /\ fs.intent.st = "none"
        /\ pc[p] = "headtemp" => want[p] \in fs.commits
    BY <1>5, <1>7, CriticalSteps DEF AppenderAt
  <2>5. LeftInv'
    BY <1>4, <1>5, <1>7, <2>1, <2>2, <2>3, <2>4
  <2>6. PrefixInv' /\ AnnouncedInv' /\ TruthfulDiscard'
    BY <1>4, <1>5, <2>1
  <2> QED
    BY <1>2, <2>5, <2>6, AtRest
<1>8. CASE pc[p] = "unlink" /\ f = [fs EXCEPT !.pend = @ \ {CommitPending(want[p], "append")}]
  <2>1. /\ f.pend \subseteq fs.pend /\ f.head = fs.head /\ f.commits = fs.commits
        /\ f.alock = fs.alock /\ f.intent = fs.intent
    BY <1>0, <1>8 DEF Directory
  <2>2. StoreInv'
    BY <1>4, <1>5, <2>1
  <2> QED
    BY <1>2, <2>2, AtRest
<1>9. CASE pc[p] = "r.intent" /\ f = [fs EXCEPT !.intent.st = "torn"]
  <2>1. /\ f.pend = fs.pend /\ f.head = fs.head /\ f.commits = fs.commits
        /\ f.alock = fs.alock /\ f.intent.st = "torn" /\ f.intent.audit = fs.intent.audit
        /\ f.intent.names = fs.intent.names
    BY <1>0, <1>9 DEF Directory, Intent
  <2>2. fs.intent.st = "none"
    BY <1>9 DEF KillInvAt, IInv, RecoveryInv, FreshAccepted
  <2>3. StoreInv'
    BY <1>4, <1>5, <2>1, <2>2
  <2> QED
    BY <1>2, <2>3, AtRest
<1>10. CASE pc[p] \in {"r.audit", "r.temp"}
            /\ f \in {[fs EXCEPT !.pend = @ \cup {Torn(AuditPending(fs.intent))}],
                      [fs EXCEPT !.pend = @ \cup {HeadPending(NextAnchor(fs), "recovery")}]}
  <2>1. /\ f.head = fs.head /\ f.commits = fs.commits
        /\ f.alock = fs.alock /\ f.intent = fs.intent
    BY <1>0, <1>10 DEF Directory
  <2>2. fs.intent.st = "full"
    BY <1>10 DEF KillInvAt, IInv, RecoveryInv, IntentPcs, PublishRecoveryPcs, PregenesisPcs
  <2>3. StoreInv'
    BY <1>4, <1>5, <2>1, <2>2
  <2> QED
    BY <1>2, <2>3, AtRest
<1> QED
  BY <1>6, <1>7, <1>8, <1>9, <1>10 DEF CutShort, OwnPending

LEMMA KillStep ==
    ASSUME KillsOnly, KillInv, NEW p \in Procs, Step(p)
    PROVE  KillInv'
<1>0. KillInvAt(p)
  BY DEF KillInv, KillInvAt, StoreInv
<1>1. StoreInv' /\ AppenderAt(p)' /\ ResumerAt(p)'
  <2>1. CASE Call(p) \/ Exit(p) \/ RecoveryCall(p)
    BY <1>0, <2>1, KillCalls
  <2>2. CASE AppendStep(p)
    BY <1>0, <2>2, KillOperationLock, KillLocks, KillPublish, KillHead DEF AppendStep
  <2>3. CASE RecoveryStep(p)
    BY <1>0, <2>3, KillPreGenesis, KillIntent, KillLockCleanup, KillSyncs, KillAnchors,
       KillUnlinks, KillAudit DEF RecoveryStep
  <2>4. CASE Kill(p)
    BY <1>0, <2>4, KillStrikes
  <2> QED
    BY <2>1, <2>2, <2>3, <2>4, KillRegime DEF Step
<1>2. IInv'
  BY NextInvariant DEF KillInv, Next
<1>3. SubjectInv'
  BY SubjectPreserved DEF KillInv
<1>4. OwnerInv'
  BY OwnerPreserved DEF KillInv, OwnerInv
<1>5. \A q \in Procs \ {p} : AppenderAt(q)' /\ ResumerAt(q)'
  BY OthersKept DEF KillInv
<1>6. \A q \in Procs : AppenderAt(q)' /\ ResumerAt(q)'
  BY <1>1, <1>5
<1> QED
  BY <1>1, <1>2, <1>3, <1>4, <1>6 DEF KillInv, StoreInv

LEMMA KillInit == Init => KillInv
<1> SUFFICES ASSUME Init PROVE KillInv
  OBVIOUS
<1>1. fs = EmptyDirectory /\ \A p \in Procs : pc[p] = "idle"
  BY DEF Init
<1>2. IInv /\ SubjectInv /\ OwnerInv
  BY InitHInv DEF HInv, LockInv, LagInv
<1>3. PrefixInv /\ LeftInv /\ AnnouncedInv /\ TruthfulDiscard
  BY <1>1 DEF EmptyDirectory, NoAlock, NoIntent, NoCommit, PrefixInv, LeftInv, AnnouncedInv,
              TruthfulDiscard, Unanchored
<1>4. \A p \in Procs : AppenderAt(p) /\ ResumerAt(p)
  BY <1>1, CriticalSteps
    DEF AppenderAt, ResumerAt, Unlinked, IntentPcs, PublishRecoveryPcs, PregenesisPcs
<1> QED
  BY <1>2, <1>3, <1>4 DEF KillInv

LEMMA KillNext ==
    ASSUME KillsOnly, KillInv, [Next]_vars
    PROVE  KillInv'
<1>1. CASE \E p \in Procs : Step(p)
  BY <1>1, KillStep
<1>2. CASE UNCHANGED vars
  <2>1. IInv'
    BY NextInvariant DEF KillInv
  <2>2. SubjectInv' /\ OwnerInv'
    BY <1>2 DEF KillInv, vars, SubjectInv, OwnerInv
  <2>3. PrefixInv' /\ LeftInv' /\ AnnouncedInv' /\ TruthfulDiscard'
    BY <1>2 DEF KillInv, vars, PrefixInv, LeftInv, AnnouncedInv, TruthfulDiscard
  <2>4. \A p \in Procs : AppenderAt(p)' = AppenderAt(p)
    BY <1>2 DEF vars, AppenderAt, OwnPending
  <2>5. \A p \in Procs : ResumerAt(p)' = ResumerAt(p)
    BY <1>2 DEF vars, ResumerAt, AuditFiles, AnchorFiles, Unlinked
  <2> QED
    BY <2>1, <2>2, <2>3, <2>4, <2>5 DEF KillInv
<1>3. ~PowerLoss
  BY KillRegime
<1> QED
  BY <1>1, <1>2, <1>3 DEF Next

\* When processes are killed, and nothing else goes wrong, at any steps and
\* as often as MaxFaults says, what they leave is what the recovery takes it
\* for.
THEOREM KillInvariance ==
    ASSUME KillsOnly
    PROVE  Spec => []KillInv
<1>1. Init => KillInv
  BY KillInit
<1>2. KillInv /\ [Next]_vars => KillInv'
  BY KillNext
<1> QED
  BY <1>1, <1>2, PTL DEF Spec

\* The audit of a publish recovery never reports as discarded what was
\* published: recoverInterruptedPublish names in it no file of a commit that
\* is part of the history.
THEOREM DiscardsAreTruthful ==
    ASSUME KillsOnly
    PROVE  Spec => []TruthfulDiscard
<1>1. KillInv => TruthfulDiscard
  BY DEF KillInv
<1> QED
  BY <1>1, KillInvariance, PTL

-----------------------------------------------------------------------------
(* What a retry of the publish recovery finds *)

LEMMA IntentChanges ==
    ASSUME IInv, NEW p \in Procs, Step(p)
    PROVE  \/ fs'.intent = fs.intent
           \/ WriteIntent(p)
           \/ fs'.intent = NoIntent
           \/ Kill(p) /\ TornRecovery
<1>0. TypeOK /\ fs \in Directory
  BY DEF IInv, TypeOK
<1>1. CASE ClearIntent(p)
  BY <1>0, <1>1 DEF ClearIntent, MovesSynced, Directory
<1>2. CASE LinkCommit(p) \/ LinkAudit(p)
  BY <1>0, <1>2 DEF LinkCommit, LinkAudit, Moves, Directory
<1>3. CASE Kill(p)
  <2>1. PICK f \in CutShort(p) :
          fs' = IF f.alock.by = p THEN [f EXCEPT !.alock.live = FALSE] ELSE f
    BY <1>3 DEF Kill
  <2>2. f \in Directory /\ (f.intent = fs.intent \/ TornRecovery)
    BY <1>0, CutShortType DEF CutShort, Directory
  <2> QED
    BY <1>3, <2>1, <2>2 DEF Directory
<1> QED
  BY <1>1, <1>2, <1>3, AppendHistory, RecoveryHistory, OtherHistory DEF Step, KeepsHistory

\* The two steps a kill does not strike are left by themselves.
LEMMA UnstruckSteps ==
    ASSUME Resumable, NEW p \in Procs, Step(p)
    PROVE  /\ pc[p] = "r.rename" => RecoveryRenameHead(p)
           /\ pc[p] = "r.rmdir" => RemoveAppendLock(p)
<1> SUFFICES ASSUME pc[p] \in {"r.rename", "r.rmdir"}
             PROVE  \/ pc[p] = "r.rename" /\ RecoveryRenameHead(p)
                    \/ pc[p] = "r.rmdir" /\ RemoveAppendLock(p)
  OBVIOUS
<1>1. ~Call(p) /\ ~RecoveryCall(p) /\ ~Exit(p)
  BY DEF Call, Activate, Record, BeginOperation, EndOperation, Writable, RecoveryCall,
         DiscardUnregisteredLock, ReconcileTerminalLock, RecoverNoEffectAfterCrash,
         RecoverInterruptedPublish, Quiesced, Exit
<1>2. ~AppendStep(p)
  BY DEF AppendStep, MakeOperationLock, WriteOperationLease, AcquireAppendLock,
         WriteAppendLease, CheckUnderMutex, WritePending, LinkCommit, SyncCommits,
         WriteHeadTemp, RenameHead, SyncHead, UnlinkPending, ReleaseAppendLock,
         ReturnFromAppend, ReleaseOperationLock
<1>3. ~Kill(p) /\ ~IoError(p)
  BY KillRegime DEF Resumable, Kill, PublishRecoveryPcs
<1>4. RecoveryStep(p)
  BY <1>1, <1>2, <1>3 DEF Step
<1> QED
  BY <1>4 DEF RecoveryStep, DiscardPreGenesisLock, DiscardPreGenesisPending, WriteIntent,
         RemoveAppendLock, RecoverySyncCommits, RecoveryHeadTemp, RecoveryRenameHead,
         RecoverySyncHead, RecoveryUnlinkPending, WriteAudit, LinkAudit, SyncAudit,
         UnlinkAuditPending, ClearIntent

\* How the steps that are not of a publish recovery treat what it will find.
LEMMA OthersLeave ==
    ASSUME Resumable, KillInv, NEW p \in Procs, Step(p), ~RecoveryStep(p), fs.intent.st = "full"
    PROVE  /\ fs'.pend = fs.pend
           /\ fs'.alock.sealed => fs.alock.sealed /\ fs'.alock.st = fs.alock.st
<1>0. TypeOK /\ fs \in Directory /\ fs.alock \in Alock /\ AppenderAt(p)
  BY DEF KillInv, IInv, TypeOK, Directory
<1>1. pc[p] \notin Writing
  BY <1>0 DEF AppenderAt
<1>2. CASE Call(p) \/ RecoveryCall(p) \/ Exit(p)
  BY <1>0, <1>2, RecoveryCallNext DEF Call, Activate, Record, BeginOperation, EndOperation, Exit
<1>3. CASE AppendStep(p)
  <2>1. CASE MakeOperationLock(p) \/ WriteOperationLease(p) \/ ReturnFromAppend(p)
             \/ ReleaseOperationLock(p) \/ CheckUnderMutex(p)
    BY <1>0, <2>1 DEF MakeOperationLock, WriteOperationLease, ReturnFromAppend,
         ReleaseOperationLock, CheckUnderMutex, Moves, MovesSynced, Directory
  <2>2. CASE AcquireAppendLock(p)
    BY <1>0, <2>2 DEF AcquireAppendLock, Moves, Directory
  <2>3. CASE WriteAppendLease(p) \/ ReleaseAppendLock(p)
    <3>1. ~fs.alock.sealed
      BY <1>0, <2>3, CriticalSteps DEF AppenderAt, WriteAppendLease, ReleaseAppendLock
    <3>2. ~fs'.alock.sealed
      <4>1. CASE WriteAppendLease(p)
        BY <1>0, <3>1, <4>1 DEF WriteAppendLease, MovesSynced, Directory, Alock
      <4>2. CASE ReleaseAppendLock(p)
        BY <1>0, <3>1, <4>2 DEF ReleaseAppendLock, Moves, MovesSynced, Directory, Alock, NoAlock
      <4> QED
        BY <2>3, <4>1, <4>2
    <3>3. fs'.pend = fs.pend
      BY <1>0, <2>3 DEF WriteAppendLease, ReleaseAppendLock, Moves, MovesSynced, Directory
    <3> QED
      BY <3>2, <3>3
  <2> QED
    BY <1>1, <1>3, <2>1, <2>2, <2>3, CriticalSteps DEF AppendStep, WritePending, LinkCommit,
         SyncCommits, WriteHeadTemp, RenameHead, SyncHead, UnlinkPending
<1>4. CASE Kill(p)
  <2>1. PICK f \in CutShort(p) :
          fs' = IF f.alock.by = p THEN [f EXCEPT !.alock.live = FALSE] ELSE f
    BY <1>4 DEF Kill
  <2>2. f = fs
    <3>1. pc[p] \notin {"pending", "headtemp", "unlink"}
      BY <1>1, CriticalSteps
    <3> QED
      BY <3>1 DEF CutShort, Resumable
  <2> QED
    BY <1>0, <2>1, <2>2 DEF Directory, Alock
<1> QED
  BY <1>2, <1>3, <1>4, KillRegime DEF Step, Resumable

LEMMA RetryStep ==
    ASSUME Resumable, KillInv, RetryInv, NEW p \in Procs, Step(p)
    PROVE  RetryInv'
<1>0. TypeOK /\ fs \in Directory /\ fs.alock \in Alock
  BY DEF KillInv, IInv, TypeOK, Directory
<1>1. CASE WriteIntent(p)
  <2>1. /\ fs'.intent = FreshIntent(fs) /\ fs'.pend = fs.pend
        /\ fs'.alock.sealed => fs'.alock.st = "full"
    BY <1>0, <1>1 DEF WriteIntent, MovesSynced, Directory, Alock
  <2>2. /\ FreshIntent(fs).names = fs.pend
        /\ FreshIntent(fs).audit.txn = "recovery.publish" /\ FreshIntent(fs).st = "full"
    BY DEF FreshIntent
  <2>3. fs.intent.st = "none"
    BY <1>1 DEF WriteIntent, KillInv, IInv, RecoveryInv, FreshAccepted
  <2>4. Torn(AuditPending(fs'.intent)) \notin fs.pend
    BY <2>1, <2>2, <2>3 DEF KillInv, LeftInv, Torn, AuditPending, CommitPending
  <2> QED
    BY <2>1, <2>2, <2>4 DEF RetryInv
<1>2. CASE ~WriteIntent(p)
  <2>0. fs'.intent = fs.intent \/ fs'.intent = NoIntent
    BY <1>2, IntentChanges DEF KillInv, Resumable
  <2>1. fs'.intent.st # "torn"
    BY <2>0 DEF RetryInv, NoIntent
  <2> SUFFICES ASSUME fs'.intent.st = "full" PROVE RetryInv'
    BY <2>1 DEF RetryInv
  <2>2. fs'.intent = fs.intent /\ fs.intent.st = "full"
    BY <2>0 DEF NoIntent
  <2>3. \A q \in Procs \ {p} : pc'[q] = pc[q]
    BY <1>0, Frame
  <2>4. /\ Torn(AuditPending(fs.intent)) \notin fs.pend
        /\ \/ \E q \in Procs : pc[q] = "r.rename"
           \/ fs.pend \subseteq fs.intent.names \cup {AuditPending(fs.intent)}
        /\ fs.alock.sealed => fs.alock.st = "full" \/ \E q \in Procs : pc[q] = "r.rmdir"
    BY <2>2 DEF RetryInv
  <2>5. CASE ~RecoveryStep(p)
    <3>1. pc[p] \notin {"r.rename", "r.rmdir"}
      BY <2>5, UnstruckSteps DEF RecoveryStep
    <3>2. \A q \in Procs : pc[q] \in {"r.rename", "r.rmdir"} => pc'[q] = pc[q]
      BY <2>3, <3>1
    <3> QED
      BY <2>2, <2>4, <2>5, <3>2, OthersLeave DEF RetryInv
  <2>6. CASE RecoveryStep(p)
    <3>0. \A q \in Procs \ {p} : pc[q] \notin {"r.rename", "r.rmdir"}
      BY Alone DEF KillInv, Recovering, PublishRecoveryPcs
    <3>1. ResumerAt(p)
      BY DEF KillInv
    <3> USE DEF IntentPcs, PublishRecoveryPcs, PregenesisPcs
    <3>2. CASE RemoveAppendLock(p)
      <4>1. /\ pc[p] \in {"r.lock", "r.rmdir"} /\ fs'.pend = fs.pend
            /\ fs'.alock.sealed => pc'[p] = "r.rmdir" \/ (~fs'.alock.sealed)
                                     \/ (fs'.alock = fs.alock /\ fs.alock.st = "none")
        BY <1>0, <3>2 DEF TypeOK, RemoveAppendLock, Moves, MovesSynced, Directory, NoAlock
      <4>2. fs.alock.st = "none" => ~fs.alock.sealed
        BY DEF KillInv, AnnouncedInv
      <4>3. fs.pend \subseteq fs.intent.names \cup {AuditPending(fs.intent)}
        BY <2>4, <3>0, <4>1
      <4> QED
        BY <2>2, <2>4, <4>1, <4>2, <4>3 DEF RetryInv
    <3>3. CASE RecoveryHeadTemp(p)
      <4>1. /\ pc[p] = "r.temp" /\ pc'[p] = "r.rename" /\ fs'.alock = fs.alock
            /\ fs'.pend = fs.pend \cup {HeadPending(NextAnchor(fs), "recovery")}
        BY <1>0, <3>3 DEF TypeOK, RecoveryHeadTemp, MovesSynced, Directory
      <4>2. ~fs.alock.sealed
        BY <3>1, <4>1 DEF ResumerAt
      <4>3. HeadPending(NextAnchor(fs), "recovery") # Torn(AuditPending(fs.intent))
        BY DEF HeadPending, Torn, AuditPending, CommitPending
      <4> QED
        BY <2>2, <2>4, <4>1, <4>2, <4>3 DEF RetryInv
    <3>4. CASE RecoveryRenameHead(p)
      <4>1. /\ pc[p] = "r.rename" /\ fs'.alock = fs.alock
            /\ fs'.pend = fs.pend \ {HeadPending(NextAnchor(fs), "recovery")}
        BY <1>0, <3>4 DEF RecoveryRenameHead, Moves, Directory
      <4>2. ~fs.alock.sealed /\ fs.pend \subseteq fs.intent.names \cup AuditFiles \cup AnchorFiles(p)
        BY <3>1, <4>1 DEF ResumerAt
      <4>3. fs'.pend \subseteq fs.intent.names \cup {AuditPending(fs.intent)}
        BY <2>4, <4>1, <4>2 DEF AuditFiles, AnchorFiles
      <4> QED
        BY <2>2, <2>4, <4>1, <4>2, <4>3 DEF RetryInv
    <3>5. CASE WriteAudit(p)
      <4>1. /\ pc[p] = "r.audit" /\ fs'.alock = fs.alock
            /\ fs'.pend \subseteq fs.pend \cup {AuditPending(fs.intent)}
        BY <1>0, <3>5 DEF WriteAudit, Moves, MovesSynced, Directory
      <4>2. ~fs.alock.sealed
        BY <3>1, <4>1 DEF ResumerAt
      <4>3. AuditPending(fs.intent) # Torn(AuditPending(fs.intent))
        BY DEF Torn, AuditPending, CommitPending
      <4>4. fs.pend \subseteq fs.intent.names \cup {AuditPending(fs.intent)}
        BY <2>4, <3>0, <4>1
      <4> QED
        BY <2>2, <2>4, <4>1, <4>2, <4>3, <4>4 DEF RetryInv
    <3>6. CASE ~(RemoveAppendLock(p) \/ RecoveryHeadTemp(p) \/ RecoveryRenameHead(p)
                 \/ WriteAudit(p))
      <4>1. pc[p] \notin PregenesisPcs
        BY <2>2, <3>1 DEF ResumerAt
      <4>2. /\ pc[p] \in {"r.commitsync", "r.headsync", "r.unlink", "r.link", "r.linksync",
                          "r.done", "r.clear"}
            /\ fs'.alock = fs.alock /\ fs'.pend \subseteq fs.pend
        BY <1>0, <1>2, <2>6, <3>6, <4>1
        DEF RecoveryStep, DiscardPreGenesisLock, DiscardPreGenesisPending, RecoverySyncCommits,
            RecoverySyncHead, RecoveryUnlinkPending, LinkAudit, SyncAudit, UnlinkAuditPending,
            ClearIntent, Moves, MovesSynced, Directory
      <4>3. ~fs.alock.sealed
        BY <3>1, <4>2 DEF ResumerAt
      <4>4. fs.pend \subseteq fs.intent.names \cup {AuditPending(fs.intent)}
        BY <2>4, <3>0, <4>2
      <4> QED
        BY <2>2, <2>4, <4>2, <4>3, <4>4 DEF RetryInv
    <3> QED
      BY <3>2, <3>3, <3>4, <3>5, <3>6
  <2> QED
    BY <2>5, <2>6
<1> QED
  BY <1>1, <1>2

LEMMA RetryNext ==
    ASSUME Resumable, KillInv, RetryInv, [Next]_vars
    PROVE  RetryInv'
<1>1. CASE UNCHANGED vars
  BY <1>1 DEF vars, RetryInv
<1>2. ~PowerLoss
  BY KillRegime DEF Resumable
<1> QED
  BY <1>1, <1>2, RetryStep DEF Next

\* What the dead left is accepted.
LEMMA LeftIsAccepted ==
    ASSUME KillInv, Quiesced, fs.intent.st = "none", Interrupted(fs), ~FailClosedHold
    PROVE  PreGenesisAccepted(fs) \/ FreshAccepted(fs)
<1>0. fs.head \in Nat /\ \A e \in fs.pend : e \in Pending /\ e.of.seq \in Nat
  BY DEF KillInv, IInv, TypeOK, Directory, Pending, Commit
<1>1. LeftInv /\ PrefixInv
  BY DEF KillInv
<1>2. ~OwnerAlive(fs)
  BY CriticalSteps DEF KillInv, OwnerInv, OwnerAlive, Quiesced
<1>3. /\ \A e \in fs.pend : ~e.torn
      /\ Unanchored(fs) # {} => fs.alock.st # "dir"
      /\ PreGenesis(fs) /\ fs.alock.st = "dir" => fs.pend # {}
  BY DEF FailClosedHold
<1>4. CASE PreGenesis(fs)
  <2>1. \A e \in fs.pend : e.file = "commit"
    BY <1>0, <1>1, <1>4 DEF LeftInv, PreGenesis, Pending
  <2> QED
    BY <1>2, <1>3, <1>4, <2>1 DEF PreGenesisAccepted
<1>5. CASE ~PreGenesis(fs)
  <2>1. \A c \in Unanchored(fs) : fs.alock.of = c
    BY <1>1 DEF LeftInv
  <2>2. ASSUME NEW e \in fs.pend, e.of.seq > 1
        PROVE  \E c \in fs.commits : c.seq = e.of.seq - 1
    <3>1. e.of.seq \in {fs.head, fs.head + 1}
      BY <1>1 DEF LeftInv
    <3>2. e.of.seq - 1 \in 1 .. fs.head
      BY <1>0, <2>2, <3>1
    <3> QED
      BY <1>1, <3>2 DEF PrefixInv
  <2> QED
    BY <1>2, <1>3, <1>5, <2>1, <2>2 DEF FreshAccepted
<1> QED
  BY <1>4, <1>5

\* What a dead recovery left can be resumed.
LEMMA IntentIsAccepted ==
    ASSUME KillInv, RetryInv, Quiesced, fs.intent.st = "full", ~MutexAfterIntent(fs)
    PROVE  RetryAccepted(fs)
<1>0. fs.alock.st \in LockState
  BY DEF KillInv, IInv, TypeOK, Directory, Alock
<1>1. ~OwnerAlive(fs)
  BY CriticalSteps DEF KillInv, OwnerInv, OwnerAlive, Quiesced
<1>2. /\ Torn(AuditPending(fs.intent)) \notin fs.pend
      /\ fs.pend \subseteq fs.intent.names \cup {AuditPending(fs.intent)}
      /\ fs.alock.sealed => fs.alock.st = "full"
  BY DEF RetryInv, Quiesced
<1>3. fs.intent.affected # NoCommit => fs.intent.affected \in fs.commits
  BY DEF KillInv, AnnouncedInv
<1>4. CASE fs.intent.lock = "complete_abandoned"
  <2>1. fs.alock.st = "none" \/ fs.alock.sealed
    BY <1>4 DEF MutexAfterIntent
  <2> QED
    BY <1>1, <1>2, <1>3, <1>4, <2>1 DEF RetryAccepted
<1>5. CASE fs.intent.lock = "incomplete"
  <2>1. fs.alock.st # "full"
    BY <1>5 DEF MutexAfterIntent
  <2> QED
    BY <1>2, <1>3, <1>5, <2>1 DEF RetryAccepted
<1>6. CASE fs.intent.lock \notin {"complete_abandoned", "incomplete"}
  <2>1. fs.alock.st = "none"
    BY <1>6 DEF MutexAfterIntent
  <2> QED
    BY <1>2, <1>3, <1>6, <2>1 DEF RetryAccepted
<1> QED
  BY <1>4, <1>5, <1>6

\* Once every process is gone an operator can go on: recoverInterruptedPublish
\* accepts what was left, or resumes from the intent of a recovery that died
\* itself, but in the holds FailClosedHold lists.
THEOREM PublishesAreRecoverable ==
    ASSUME Resumable
    PROVE  Spec => []PublishRecoverable
<1>0. KillsOnly
  BY DEF Resumable
<1>1. Init => RetryInv
  BY DEF Init, EmptyDirectory, NoIntent, RetryInv
<1>2. KillInv /\ RetryInv /\ [Next]_vars => RetryInv'
  BY RetryNext
<1>3. KillInv /\ RetryInv => PublishRecoverable
  <2> SUFFICES ASSUME KillInv, RetryInv, Quiesced PROVE PublishRecoverable
    BY DEF PublishRecoverable
  <2>1. fs.intent.st \in {"none", "full"}
    BY DEF KillInv, IInv, TypeOK, Directory, Intent, RetryInv
  <2>2. fs.intent.st = "full" => RetryAccepted(fs) \/ MutexAfterIntent(fs)
    BY IntentIsAccepted
  <2>3. fs.intent.st = "none" /\ Interrupted(fs) =>
          PreGenesisAccepted(fs) \/ FreshAccepted(fs) \/ FailClosedHold
    BY LeftIsAccepted
  <2> QED
    BY <2>1, <2>2, <2>3 DEF PublishRecoverable, FailClosedHold
<1> QED
  BY <1>0, <1>1, <1>2, <1>3, KillInvariance, PTL DEF Spec
=============================================================================

----------------------------- MODULE StateStore -----------------------------
(***************************************************************************)
(* ProtectedStateStore (d9/control-plane/state-store.mjs): several store   *)
(* instances over one directory, each call split at every change of the    *)
(* file system, with kills, I/O errors and power losses between them.      *)
(*                                                                         *)
(* fs is the directory the processes see, disk what an fsync has made      *)
(* durable.  A change and the fsync of the same directory that follows it  *)
(* at once are one step; where something else can happen in between        *)
(* (the commit link, the HEAD rename, the lock directories) they are two.  *)
(*                                                                         *)
(* Recovery entry points run alone, with every former owner dead: the      *)
(* condition docs/d9-1-launcher-bootstrap-control.md:132 puts on any tool  *)
(* that calls them (Quiesced, NoRecovery).                                 *)
(***************************************************************************)
EXTENDS StateStoreDisk

CONSTANTS
    MaxSeq,            \* bound: ordinary appends stop at this sequence
    MaxFaults,         \* bound: faults of a behaviour
    FaultKinds,        \* which of "kill", "ioerror", "power" may strike
    RecoveryFaultPcs,  \* steps of the publish recovery a kill may precede
    TornRecovery       \* a kill may cut a write of the publish recovery

AppendPcs == {"acquire", "lease", "check", "pending", "link", "commitsync", "headtemp",
              "rename", "headsync", "unlink", "release", "return"}
CallPcs == {"opmkdir", "oplease", "unlock"} \cup AppendPcs
PregenesisPcs == {"g.lock", "g.rmdir", "g.unlink"}
PublishRecoveryPcs ==
    {"r.intent", "r.lock", "r.rmdir", "r.commitsync", "r.temp", "r.rename", "r.headsync",
     "r.unlink", "r.audit", "r.link", "r.linksync", "r.done", "r.clear"} \cup PregenesisPcs
Pc == {"idle"} \cup CallPcs \cup PublishRecoveryPcs

ASSUME StoreAssumption ==
    /\ MaxSeq \in Nat
    /\ MaxFaults \in Nat
    /\ FaultKinds \subseteq {"kill", "ioerror", "power"}
    /\ RecoveryFaultPcs \subseteq PublishRecoveryPcs
    /\ TornRecovery \in BOOLEAN

VARIABLES
    fs,      \* the directory
    disk,    \* its durable part
    pc,      \* pc[p]: the step p's call is at
    want,    \* want[p]: the commit p's call appends (the mutex intent)
    ok,      \* ok[p]: no step of p's append has failed
    lease,   \* lease[p]: the operation whose lease p holds (ownedLease)
    acked,   \* history: the commits whose calls have returned
    faults   \* history: number of faults so far

vars == <<fs, disk, pc, want, ok, lease, acked, faults>>

TypeOK ==
    /\ fs \in Directory
    /\ disk \in Directory
    /\ pc \in [Procs -> Pc]
    /\ want \in [Procs -> Commit]
    /\ ok \in [Procs -> BOOLEAN]
    /\ lease \in [Procs -> Subject]
    /\ acked \subseteq Commit
    /\ faults \in Nat

\* createProtectedStateStore: empty, synchronized, genesis not activated.
Init ==
    /\ fs = EmptyDirectory
    /\ disk = EmptyDirectory
    /\ pc = [p \in Procs |-> "idle"]
    /\ want = [p \in Procs |-> NoCommit]
    /\ ok = [p \in Procs |-> TRUE]
    /\ lease = [p \in Procs |-> None]
    /\ acked = {}
    /\ faults = 0

-----------------------------------------------------------------------------
(* Vocabulary of the steps *)

OwnsMutex(p) == fs.alock.by = p /\ fs.alock.live
ReasonsOf(p) == Reasons(fs, OwnsMutex(p), lease[p])

Recovering(p) ==
    pc[p] \in PublishRecoveryPcs \/ (pc[p] # "idle" /\ want[p].txn \in RecoveryTxns)
NoRecovery == \A p \in Procs : ~Recovering(p)
Quiesced == \A p \in Procs : pc[p] = "idle" /\ lease[p] = None

RootSynced(d, f) == [d EXCEPT !.head = f.head, !.alock = f.alock,
                              !.olock = f.olock, !.intent = f.intent]
CommitsSynced(d, f) == [d EXCEPT !.commits = f.commits]
PendingSynced(d, f) == [d EXCEPT !.pend = f.pend]

\* p moves to step next; fs changes to f and nothing is synchronized.
Moves(p, next, f) ==
    /\ pc' = [pc EXCEPT ![p] = next]
    /\ fs' = f
    /\ disk' = disk

\* p moves to step next; fs changes to f and its directory is synchronized.
MovesSynced(p, next, f, d) ==
    /\ pc' = [pc EXCEPT ![p] = next]
    /\ fs' = f
    /\ disk' = d

Fails(p, next) ==
    /\ ok' = [ok EXCEPT ![p] = FALSE]
    /\ pc' = [pc EXCEPT ![p] = next]

NewCommit(txn, subj, act, tag) ==
    [seq |-> fs.head + 1, txn |-> txn, subj |-> subj, act |-> act, tag |-> tag]

\* A call begins: its commit is computed from the snapshot just refreshed.
Begins(p, next, c) ==
    /\ pc' = [pc EXCEPT ![p] = next]
    /\ want' = [want EXCEPT ![p] = c]
    /\ ok' = [ok EXCEPT ![p] = TRUE]

\* A call returns or throws.
Ends(p) ==
    /\ pc' = [pc EXCEPT ![p] = "idle"]
    /\ want' = [want EXCEPT ![p] = NoCommit]
    /\ ok' = [ok EXCEPT ![p] = TRUE]

\* _assertWritable, in a process free to call.
Writable(p) ==
    /\ pc[p] = "idle"
    /\ NoRecovery
    /\ Opens(fs)
    /\ ReasonsOf(p) = {}
    /\ fs.head < MaxSeq

-----------------------------------------------------------------------------
(* Ordinary calls *)

\* activateGenerationPair on an empty ledger.
Activate(p) ==
    /\ Writable(p)
    /\ fs.head = 0
    /\ Begins(p, "acquire", NewCommit("generation-pair.activation", p, "none", 0))
    /\ UNCHANGED <<fs, disk, lease, acked, faults>>

\* registerFixedRecord, issuePermit, appendPermitTransition and the like.
Record(p) ==
    /\ Writable(p)
    /\ fs.head > 0
    /\ Begins(p, "acquire", NewCommit("record", p, "none", 0))
    /\ UNCHANGED <<fs, disk, lease, acked, faults>>

\* beginOperation up to its preflight replay.
BeginOperation(p, o) ==
    /\ Writable(p)
    /\ Applies(fs, NewCommit("operation.begin", o, "none", 0))
    /\ Begins(p, "opmkdir", NewCommit("operation.begin", o, "none", 0))
    /\ UNCHANGED <<fs, disk, lease, acked, faults>>

\* finishNoEffect and markRecoveryRequired up to _appendEvents.
EndOperation(p, txn) ==
    /\ Writable(p)
    /\ lease[p] # None
    /\ InProgress(fs, lease[p])
    /\ Begins(p, "acquire", NewCommit(txn, lease[p], "none", 0))
    /\ UNCHANGED <<fs, disk, lease, acked, faults>>

\* _acquireLock: mkdir operation.lock, which fails when it exists.
MakeOperationLock(p) ==
    /\ pc[p] = "opmkdir"
    /\ \/ /\ fs.olock.st = "none"
          /\ Moves(p, "oplease", [fs EXCEPT !.olock = [st |-> "dir", op |-> want[p].subj,
                                                       token |-> disk.head]])
          /\ UNCHANGED <<want, ok>>
       \/ /\ fs.olock.st # "none"
          /\ Ends(p)
          /\ UNCHANGED <<fs, disk>>
    /\ UNCHANGED <<lease, acked, faults>>

\* The lease is written, the lock directory and the root are synchronized.
WriteOperationLease(p) ==
    /\ pc[p] = "oplease"
    /\ LET f == [fs EXCEPT !.olock.st = "full"]
       IN MovesSynced(p, "acquire", f, RootSynced(disk, f))
    /\ lease' = [lease EXCEPT ![p] = want[p].subj]
    /\ UNCHANGED <<want, ok, acked, faults>>

-----------------------------------------------------------------------------
(* _appendEvents *)

\* Mutants: mkdir accepts an existing directory; a writer waits for it.
AcquireAppendLock_recursive(p) ==
    /\ pc[p] = "acquire"
    /\ Moves(p, "lease", [fs EXCEPT !.alock = [st |-> "dir", by |-> p, live |-> FALSE,
                                               sealed |-> FALSE, of |-> want[p]]])
    /\ UNCHANGED <<want, ok, lease, acked, faults>>
AcquireAppendLock_waits(p) ==
    /\ fs.alock.st = "none"
    /\ AcquireAppendLock_recursive(p)

\* mkdir append.lock; a writer that finds it there fails at once.
AcquireAppendLock(p) ==
    /\ pc[p] = "acquire"
    /\ \/ /\ fs.alock.st = "none"
          /\ Moves(p, "lease", [fs EXCEPT !.alock = [st |-> "dir", by |-> p, live |-> FALSE,
                                                     sealed |-> FALSE, of |-> want[p]]])
          /\ ok' = ok
       \/ /\ fs.alock.st # "none"
          /\ Fails(p, "return")
          /\ UNCHANGED <<fs, disk>>
    /\ UNCHANGED <<want, lease, acked, faults>>

WriteAppendLease(p) ==
    /\ pc[p] = "lease"
    /\ LET f == [fs EXCEPT !.alock.st = "full", !.alock.live = TRUE]
       IN MovesSynced(p, "check", f, RootSynced(disk, f))
    /\ UNCHANGED <<want, ok, lease, acked, faults>>

\* Mutants: the append trusts the snapshot it began from; it trusts the
\* writability check it began with.
AppendAllowed_staleBase(p) ==
    ReasonsOf(p) \subseteq AllowedReasons(want[p].txn) /\ Applies(fs, want[p])
AppendAllowed_noReasons(p) == want[p].seq = fs.head + 1 /\ Applies(fs, want[p])

\* What _appendEvents validates once it holds the mutex.
AppendAllowed(p) ==
    /\ ReasonsOf(p) \subseteq AllowedReasons(want[p].txn)
    /\ want[p].seq = fs.head + 1
    /\ Applies(fs, want[p])

CheckUnderMutex(p) ==
    /\ pc[p] = "check"
    /\ \/ AppendAllowed(p) /\ pc' = [pc EXCEPT ![p] = "pending"] /\ ok' = ok
       \/ ~AppendAllowed(p) /\ Fails(p, "release")
    /\ UNCHANGED <<fs, disk, want, lease, acked, faults>>

\* writeExclusiveDurable: the content is synchronized, the entry is not.
WritePending(p) ==
    /\ pc[p] = "pending"
    /\ Moves(p, "link", [fs EXCEPT !.pend = @ \cup {CommitPending(want[p], "append")}])
    /\ UNCHANGED <<want, ok, lease, acked, faults>>

LinkCommit(p) ==
    /\ pc[p] = "link"
    /\ want[p] \notin fs.commits
    /\ Moves(p, "commitsync", [fs EXCEPT !.commits = @ \cup {want[p]}])
    /\ UNCHANGED <<want, ok, lease, acked, faults>>

\* Mutant: no fsync of commits/ between the link and HEAD.
SyncCommits_skipped(p) ==
    /\ pc[p] = "commitsync"
    /\ Moves(p, "headtemp", fs)
    /\ UNCHANGED <<want, ok, lease, acked, faults>>

SyncCommits(p) ==
    /\ pc[p] = "commitsync"
    /\ MovesSynced(p, "headtemp", fs, CommitsSynced(disk, fs))
    /\ UNCHANGED <<want, ok, lease, acked, faults>>

\* replaceHeadDurably: temporary, fsync of pending/, rename, fsync of root.
WriteHeadTemp(p) ==
    /\ pc[p] = "headtemp"
    /\ LET f == [fs EXCEPT !.pend = @ \cup {HeadPending(want[p], "append")}]
       IN MovesSynced(p, "rename", f, PendingSynced(disk, f))
    /\ UNCHANGED <<want, ok, lease, acked, faults>>

RenameHead(p) ==
    /\ pc[p] = "rename"
    /\ Moves(p, "headsync", [fs EXCEPT !.pend = @ \ {HeadPending(want[p], "append")},
                                       !.head = want[p].seq])
    /\ UNCHANGED <<want, ok, lease, acked, faults>>

SyncHead(p) ==
    /\ pc[p] = "headsync"
    /\ MovesSynced(p, "unlink", fs, RootSynced(disk, fs))
    /\ UNCHANGED <<want, ok, lease, acked, faults>>

UnlinkPending(p) ==
    /\ pc[p] = "unlink"
    /\ LET f == [fs EXCEPT !.pend = @ \ {CommitPending(want[p], "append")}]
       IN MovesSynced(p, "release", f, PendingSynced(disk, f))
    /\ UNCHANGED <<want, ok, lease, acked, faults>>

\* _releaseAppendLock: rmSync removes the lease, then the directory.
ReleaseAppendLock(p) ==
    /\ pc[p] = "release"
    /\ \/ /\ fs.alock.st = "full"
          /\ Moves(p, "release", [fs EXCEPT !.alock.st = "dir"])
       \/ /\ fs.alock.st # "full"
          /\ LET f == [fs EXCEPT !.alock = NoAlock]
             IN MovesSynced(p, "return", f, RootSynced(disk, f))
    /\ UNCHANGED <<want, ok, lease, acked, faults>>

\* beginOperation keeps its lock after a failure that may have published.
BeginMayBeDurable(p) ==
    Started(fs, want[p].subj) \/ fs.pend # {} \/ Unanchored(fs) # {}

AfterAppend_beginReleases(p) ==
    IF \/ want[p].txn = "operation.begin" /\ ~ok[p]
       \/ want[p].txn \in TerminalTxns /\ ok[p]
    THEN "unlock" ELSE "idle"

\* What each caller of _appendEvents does with its outcome.
AfterAppend(p) ==
    IF \/ want[p].txn = "operation.begin" /\ ~ok[p] /\ ~BeginMayBeDurable(p)
       \/ want[p].txn \in {"operation.no-effect", "recovery.operation-no-effect"}
            /\ (ok[p] \/ ~InProgress(fs, want[p].subj))
       \/ want[p].txn \in {"operation.recovery-required", "recovery.lock",
                            "recovery.terminal-lock"} /\ ok[p]
    THEN "unlock" ELSE "idle"

ReturnFromAppend(p) ==
    /\ pc[p] = "return"
    /\ \/ /\ AfterAppend(p) = "unlock"
          /\ pc' = [pc EXCEPT ![p] = "unlock"]
          /\ UNCHANGED <<want, ok>>
       \/ /\ AfterAppend(p) = "idle"
          /\ Ends(p)
    /\ acked' = IF ok[p] THEN acked \cup {want[p]} ELSE acked
    /\ UNCHANGED <<fs, disk, lease, faults>>

\* rmSync of operation.lock by _releaseOwnedLock or by a lock recovery.
ReleaseOperationLock(p) ==
    /\ pc[p] = "unlock"
    /\ \/ /\ fs.olock.st = "full"
          /\ Moves(p, "unlock", [fs EXCEPT !.olock.st = "dir"])
          /\ UNCHANGED <<want, ok, lease>>
       \/ /\ fs.olock.st # "full"
          /\ fs' = [fs EXCEPT !.olock = NoOlock]
          /\ disk' = RootSynced(disk, fs')
          /\ lease' = [lease EXCEPT ![p] = None]
          /\ Ends(p)
    /\ UNCHANGED <<acked, faults>>

-----------------------------------------------------------------------------
(* Recovery of operation locks *)

\* The audit a lock recovery looks for before it appends one.
LockAudit(txn, act) ==
    \E c \in Anchored(fs) : c.txn = txn /\ c.act = act /\ c.tag = fs.olock.token

StartLockRecovery(p, txn, act) ==
    /\ Begins(p, IF LockAudit(txn, act) THEN "unlock" ELSE "acquire",
              NewCommit(txn, fs.olock.op, act, fs.olock.token))
    /\ UNCHANGED <<fs, disk, lease, acked, faults>>

DiscardUnregisteredLock(p) ==
    /\ Quiesced /\ Opens(fs) /\ fs.head > 0
    /\ \/ /\ fs.olock.st = "full"
          /\ ~Started(fs, fs.olock.op)
          /\ StartLockRecovery(p, "recovery.lock", "discarded_uncommitted_pending")
       \/ /\ fs.olock.st = "dir"
          /\ \A o \in Ops : ~InProgress(fs, o)
          /\ StartLockRecovery(p, "recovery.lock", "discarded_incomplete_lock")

ReconcileTerminalLock(p) ==
    /\ Quiesced /\ Opens(fs)
    /\ fs.olock.st = "full"
    /\ Ended(fs, fs.olock.op)
    /\ StartLockRecovery(p, "recovery.terminal-lock", "removed_terminal_operation_lock")

\* recoverNoEffectAfterCrash adopts the dead owner's lease, then runs
\* _finishNoEffect; the lease stays adopted when _assertWritable refuses.
RecoverNoEffectAfterCrash(p) ==
    /\ Quiesced /\ Opens(fs)
    /\ fs.pend = {} /\ Unanchored(fs) = {}
    /\ fs.olock.st = "full"
    /\ InProgress(fs, fs.olock.op)
    /\ lease' = [lease EXCEPT ![p] = fs.olock.op]
    /\ IF Reasons(fs, FALSE, fs.olock.op) = {}
       THEN Begins(p, "acquire",
                   NewCommit("recovery.operation-no-effect", fs.olock.op, "none", 0))
       ELSE UNCHANGED <<pc, want, ok>>
    /\ UNCHANGED <<fs, disk, acked, faults>>

-----------------------------------------------------------------------------
(* recoverInterruptedPublish *)

RecoverInterruptedPublish(p) ==
    /\ Quiesced /\ Opens(fs)
    /\ \/ PreGenesisAccepted(fs) /\ pc' = [pc EXCEPT ![p] = "g.lock"]
       \/ FreshAccepted(fs) /\ pc' = [pc EXCEPT ![p] = "r.intent"]
       \/ RetryAccepted(fs) /\ pc' = [pc EXCEPT ![p] = "r.lock"]
    /\ UNCHANGED <<fs, disk, want, ok, lease, acked, faults>>

\* Pre-genesis: the mutex, then the pending activation, are discarded.
DiscardPreGenesisLock(p) ==
    /\ \/ /\ pc[p] = "g.lock" /\ fs.alock.st = "full"
          /\ Moves(p, "g.rmdir", [fs EXCEPT !.alock.st = "dir"])
       \/ /\ (pc[p] = "g.lock" /\ fs.alock.st # "full") \/ pc[p] = "g.rmdir"
          /\ Moves(p, "g.unlink", [fs EXCEPT !.alock = NoAlock])
    /\ UNCHANGED <<want, ok, lease, acked, faults>>

DiscardPreGenesisPending(p) ==
    /\ pc[p] = "g.unlink"
    /\ LET f == [fs EXCEPT !.pend = {}]
       IN MovesSynced(p, "idle", f, RootSynced(PendingSynced(disk, f), f))
    /\ UNCHANGED <<want, ok, lease, acked, faults>>

WriteIntent(p) ==
    /\ pc[p] = "r.intent"
    /\ LET f == [fs EXCEPT !.intent = FreshIntent(fs), !.alock.sealed = fs.alock.st = "full"]
       IN MovesSynced(p, "r.lock", f, RootSynced(disk, f))
    /\ UNCHANGED <<want, ok, lease, acked, faults>>

\* HEAD moves to the affected commit first, when it has not yet.
AfterLockCleanup == IF fs.head < fs.intent.affected.seq THEN "r.commitsync" ELSE "r.unlink"

RemoveAppendLock(p) ==
    /\ \/ /\ pc[p] = "r.lock" /\ fs.alock.st = "full"
          /\ Moves(p, "r.rmdir", [fs EXCEPT !.alock.st = "dir"])
       \/ /\ pc[p] = "r.lock" /\ fs.alock.st = "none"
          /\ Moves(p, AfterLockCleanup, fs)
       \/ /\ (pc[p] = "r.lock" /\ fs.alock.st = "dir") \/ pc[p] = "r.rmdir"
          /\ LET f == [fs EXCEPT !.alock = NoAlock]
             IN MovesSynced(p, AfterLockCleanup, f, RootSynced(disk, f))
    /\ UNCHANGED <<want, ok, lease, acked, faults>>

RecoverySyncCommits(p) ==
    /\ pc[p] = "r.commitsync"
    /\ MovesSynced(p, "r.temp", fs, CommitsSynced(disk, fs))
    /\ UNCHANGED <<want, ok, lease, acked, faults>>

RecoveryHeadTemp(p) ==
    /\ pc[p] = "r.temp"
    /\ LET f == [fs EXCEPT !.pend = @ \cup {HeadPending(NextAnchor(fs), "recovery")}]
       IN MovesSynced(p, "r.rename", f, PendingSynced(disk, f))
    /\ UNCHANGED <<want, ok, lease, acked, faults>>

RecoveryRenameHead(p) ==
    /\ pc[p] = "r.rename"
    /\ Moves(p, "r.headsync", [fs EXCEPT !.pend = @ \ {HeadPending(NextAnchor(fs), "recovery")},
                                         !.head = NextAnchor(fs).seq])
    /\ UNCHANGED <<want, ok, lease, acked, faults>>

RecoverySyncHead(p) ==
    /\ pc[p] = "r.headsync"
    /\ MovesSynced(p, IF fs.head = fs.intent.audit.seq THEN "r.done" ELSE "r.unlink",
                   fs, RootSynced(disk, fs))
    /\ UNCHANGED <<want, ok, lease, acked, faults>>

RecoveryUnlinkPending(p) ==
    /\ pc[p] = "r.unlink"
    /\ \/ \E e \in fs.pend \cap fs.intent.names :
            Moves(p, "r.unlink", [fs EXCEPT !.pend = @ \ {e}])
       \/ /\ fs.pend \cap fs.intent.names = {}
          /\ MovesSynced(p, "r.audit", fs, PendingSynced(disk, fs))
    /\ UNCHANGED <<want, ok, lease, acked, faults>>

\* A published audit is only compared; a missing one is written and linked.
WriteAudit(p) ==
    /\ pc[p] = "r.audit"
    /\ IF fs.intent.audit \in fs.commits
       THEN Moves(p, IF fs.head < fs.intent.audit.seq THEN "r.temp" ELSE "r.done", fs)
       ELSE IF AuditPending(fs.intent) \in fs.pend
       THEN Moves(p, "r.link", fs)
       ELSE LET f == [fs EXCEPT !.pend = @ \cup {AuditPending(fs.intent)}]
            IN MovesSynced(p, "r.link", f, PendingSynced(disk, f))
    /\ UNCHANGED <<want, ok, lease, acked, faults>>

LinkAudit(p) ==
    /\ pc[p] = "r.link"
    /\ Moves(p, "r.linksync", [fs EXCEPT !.commits = @ \cup {fs.intent.audit}])
    /\ UNCHANGED <<want, ok, lease, acked, faults>>

SyncAudit(p) ==
    /\ pc[p] = "r.linksync"
    /\ MovesSynced(p, "r.temp", fs, CommitsSynced(disk, fs))
    /\ UNCHANGED <<want, ok, lease, acked, faults>>

UnlinkAuditPending(p) ==
    /\ pc[p] = "r.done"
    /\ LET f == [fs EXCEPT !.pend = @ \ {AuditPending(fs.intent), Torn(AuditPending(fs.intent))}]
       IN MovesSynced(p, "r.clear", f, PendingSynced(disk, f))
    /\ UNCHANGED <<want, ok, lease, acked, faults>>

\* RECOVERY.json goes last: the call returns, its audit is acknowledged.
ClearIntent(p) ==
    /\ pc[p] = "r.clear"
    /\ LET f == [fs EXCEPT !.intent = NoIntent]
       IN MovesSynced(p, "idle", f, RootSynced(disk, f))
    /\ acked' = acked \cup {fs.intent.audit}
    /\ UNCHANGED <<want, ok, lease, faults>>

-----------------------------------------------------------------------------
(* Faults *)

Fault(kind) ==
    /\ kind \in FaultKinds
    /\ faults < MaxFaults
    /\ faults' = faults + 1

\* The directory after a step of p that was cut short: writes are not
\* atomic, an fsync may not have happened.
CutShort(p) ==
    {fs}
    \cup (IF pc[p] = "pending"
          THEN {[fs EXCEPT !.pend = @ \cup {Torn(CommitPending(want[p], "append"))}]} ELSE {})
    \cup (IF pc[p] = "headtemp"
          THEN {[fs EXCEPT !.pend = @ \cup {HeadPending(want[p], "append")}]} ELSE {})
    \cup (IF pc[p] = "unlink"
          THEN {[fs EXCEPT !.pend = @ \ {CommitPending(want[p], "append")}]} ELSE {})
    \cup (IF pc[p] = "r.intent" /\ TornRecovery
          THEN {[fs EXCEPT !.intent.st = "torn"]} ELSE {})
    \cup (IF pc[p] = "r.audit" /\ TornRecovery /\ fs.intent.audit \notin fs.commits
               /\ AuditPending(fs.intent) \notin fs.pend
          THEN {[fs EXCEPT !.pend = @ \cup {Torn(AuditPending(fs.intent))}]} ELSE {})
    \cup (IF pc[p] = "r.temp" /\ TornRecovery
          THEN {[fs EXCEPT !.pend = @ \cup {HeadPending(NextAnchor(fs), "recovery")}]} ELSE {})

\* The process dies; the lease of its append mutex outlives it.
Kill(p) ==
    /\ Fault("kill")
    /\ pc[p] # "idle"
    /\ pc[p] \in PublishRecoveryPcs => pc[p] \in RecoveryFaultPcs
    /\ \E f \in CutShort(p) :
         fs' = IF f.alock.by = p THEN [f EXCEPT !.alock.live = FALSE] ELSE f
    /\ Ends(p)
    /\ lease' = [lease EXCEPT ![p] = None]
    /\ UNCHANGED <<disk, acked>>

\* A process leaves between two calls with an operation still open.
Exit(p) ==
    /\ pc[p] = "idle"
    /\ lease[p] # None
    /\ lease' = [lease EXCEPT ![p] = None]
    /\ UNCHANGED <<fs, disk, pc, want, ok, acked, faults>>

\* An I/O error throws: lock acquisition undoes itself, and a later step
\* leaves the append through its finally.
IoError(p) ==
    /\ Fault("ioerror")
    /\ \/ /\ pc[p] = "oplease"
          /\ fs' = [fs EXCEPT !.olock = NoOlock]
          /\ Ends(p)
       \/ /\ pc[p] = "lease"
          /\ fs' = [fs EXCEPT !.alock = NoAlock]
          /\ Fails(p, "return")
          /\ want' = want
       \/ /\ pc[p] \in {"pending", "link", "commitsync", "headtemp", "rename", "headsync",
                        "unlink"}
          /\ fs' \in CutShort(p)
          /\ Fails(p, "release")
          /\ want' = want
    /\ UNCHANGED <<disk, lease, acked>>

\* Each entry that was not synchronized is kept or lost on its own.
PowerLoss ==
    /\ Fault("power")
    /\ \E h \in {disk.head, fs.head}, a \in {disk.alock, fs.alock},
          l \in {disk.olock, fs.olock}, i \in {disk.intent, fs.intent},
          C \in SUBSET (fs.commits \ disk.commits),
          P \in SUBSET ((fs.pend \ disk.pend) \cup (disk.pend \ fs.pend)) :
         fs' = [head |-> h, commits |-> disk.commits \cup C,
                pend |-> (disk.pend \cap fs.pend) \cup P,
                alock |-> [a EXCEPT !.live = FALSE], olock |-> l, intent |-> i]
    /\ disk' = fs'
    /\ pc' = [p \in Procs |-> "idle"]
    /\ want' = [p \in Procs |-> NoCommit]
    /\ ok' = [p \in Procs |-> TRUE]
    /\ lease' = [p \in Procs |-> None]
    /\ UNCHANGED acked

-----------------------------------------------------------------------------

Call(p) ==
    \/ Activate(p)
    \/ Record(p)
    \/ \E o \in Ops : BeginOperation(p, o)
    \/ \E txn \in {"operation.no-effect", "operation.recovery-required"} : EndOperation(p, txn)

AppendStep(p) ==
    \/ MakeOperationLock(p) \/ WriteOperationLease(p)
    \/ AcquireAppendLock(p) \/ WriteAppendLease(p) \/ CheckUnderMutex(p)
    \/ WritePending(p) \/ LinkCommit(p) \/ SyncCommits(p)
    \/ WriteHeadTemp(p) \/ RenameHead(p) \/ SyncHead(p)
    \/ UnlinkPending(p) \/ ReleaseAppendLock(p) \/ ReturnFromAppend(p)
    \/ ReleaseOperationLock(p)

RecoveryCall(p) ==
    \/ DiscardUnregisteredLock(p) \/ ReconcileTerminalLock(p)
    \/ RecoverNoEffectAfterCrash(p) \/ RecoverInterruptedPublish(p)

RecoveryStep(p) ==
    \/ DiscardPreGenesisLock(p) \/ DiscardPreGenesisPending(p)
    \/ WriteIntent(p) \/ RemoveAppendLock(p) \/ RecoverySyncCommits(p)
    \/ RecoveryHeadTemp(p) \/ RecoveryRenameHead(p) \/ RecoverySyncHead(p)
    \/ RecoveryUnlinkPending(p) \/ WriteAudit(p) \/ LinkAudit(p) \/ SyncAudit(p)
    \/ UnlinkAuditPending(p) \/ ClearIntent(p)

Step(p) ==
    \/ Call(p) \/ AppendStep(p) \/ RecoveryCall(p) \/ RecoveryStep(p)
    \/ Kill(p) \/ Exit(p) \/ IoError(p)

Next == (\E p \in Procs : Step(p)) \/ PowerLoss

Spec == Init /\ [][Next]_vars

\* A running call takes its next step; nothing obliges anyone to call, and
\* no fault is obliged to strike.
Fairness == \A p \in Procs : WF_vars(AppendStep(p) \/ RecoveryStep(p))

FairSpec == Spec /\ Fairness

\* An operator who, after an incident, ends the processes that are left and
\* tries every recovery entry point in turn.
Operator ==
    /\ SF_vars(\E p \in Procs : RecoverInterruptedPublish(p))
    /\ SF_vars(\E p \in Procs : DiscardUnregisteredLock(p))
    /\ SF_vars(\E p \in Procs : RecoverNoEffectAfterCrash(p))
    /\ SF_vars(\E p \in Procs : ReconcileTerminalLock(p))
    /\ WF_vars(\E p \in Procs : Exit(p))

OperatorSpec == FairSpec /\ Operator
=============================================================================

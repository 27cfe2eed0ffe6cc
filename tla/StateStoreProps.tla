-------------------------- MODULE StateStoreProps --------------------------
(***************************************************************************)
(* Properties of StateStore.                                               *)
(***************************************************************************)
EXTENDS StateStore, Sequences

\* No two commits are ever published for one sequence, whoever raced, died
\* or recovered: the history never forks.
NoFork == \A c, e \in fs.commits : c.seq = e.seq => c = e

\* Whatever was interrupted, the commit files form one ordered prefix and
\* HEAD names one of them: _refresh never meets STATE_COMMIT_GAP_OR_FORK or
\* STATE_HEAD_DANGLING.  And at most one commit is linked beyond HEAD, so an interrupted publish
\* never needs the "external incident procedure" of recovery.  And an append
\* that has returned is durable: a power loss at this very moment would keep
\* its commit and a HEAD at or beyond it.
HistoryIntact ==
    /\ Opens([fs EXCEPT !.intent = NoIntent])
    /\ \A c, e \in Unanchored(fs) : c = e
    /\ acked \subseteq Anchored(disk)

\* An operation in progress has its lock on disk with its lease, from its
\* begin commit to its terminal commit, over every crash and recovery; so
\* no two operations are ever in progress together.
OperationGuarded ==
    \A o \in Ops : InProgress(fs, o) => fs.olock.st = "full" /\ fs.olock.op = o

\* A nonce starts one operation and an operation has one terminal record,
\* even when a call is retried after its process was killed or lost its
\* answer; after a recovery-required one nothing but audited recovery is
\* ever appended, so that the hold is permanent.
OneStartOneEnd ==
    \A c, e \in fs.commits :
       /\ c.subj = e.subj =>
            /\ c.txn = "operation.begin" /\ e.txn = "operation.begin" => c = e
            /\ c.txn \in TerminalTxns /\ e.txn \in TerminalTxns => c = e
       /\ c.txn = "operation.recovery-required" /\ e.seq > c.seq
            => e.txn \in {"recovery.terminal-lock", "recovery.publish"}

\* The step of an append that writes to the store is taken by one process
\* at a time, the one that made the append.lock directory standing there.
MutexExclusion ==
    \A p, q \in Procs :
       /\ pc[p] \in AppendPcs \ {"acquire", "return"} => fs.alock.by = p
       /\ Recovering(p) /\ p # q => pc[q] = "idle"

\* A recovery audit that says it discarded uncommitted material names no
\* file of a commit that is part of the history.
TruthfulDiscard ==
    fs.intent.audit.act = "discarded_uncommitted_pending"
      => \A e \in fs.intent.names : e.of \notin fs.commits

-----------------------------------------------------------------------------
(* Recoverability *)

\* An append.lock that is not the one the durable intent names, left by a
\* lock recovery that was killed before the publish recovery was resumed.
MutexAfterIntent(d) ==
    /\ d.intent.st = "full"
    /\ CASE d.intent.lock = "complete_abandoned" -> d.alock.st # "none" /\ ~d.alock.sealed
         [] d.intent.lock = "incomplete" -> d.alock.st = "full"
         [] OTHER -> d.alock.st # "none"

\* The states in which the code documents that no recovery call applies.
FailClosedHold ==
    \/ \E e \in fs.pend : e.torn
    \/ Unanchored(fs) # {} /\ fs.alock.st = "dir"
    \/ PreGenesis(fs) /\ fs.alock.st = "dir" /\ fs.pend = {}
    \/ MutexAfterIntent(fs)

\* Once every process is gone, an interrupted publish is accepted by the
\* publish recovery unless it is one of the fail-closed holds; and a
\* recovery that was itself interrupted can be resumed from its durable
\* intent, unless an append mutex appeared after the intent was sealed.
PublishRecoverable ==
    /\ Quiesced /\ (Interrupted(fs) \/ fs.intent.st # "none")
         => \/ PreGenesisAccepted(fs) \/ FreshAccepted(fs) \/ RetryAccepted(fs)
            \/ FailClosedHold
    /\ Quiesced /\ fs.intent.st = "full" => RetryAccepted(fs) \/ MutexAfterIntent(fs)

\* Every call that starts returns, throws or dies: no writer waits for
\* another one.
CallsReturn == \A p \in Procs : pc[p] # "idle" ~> pc[p] = "idle"

\* Recovery converges: repeated by an operator, the recovery calls leave a
\* store that accepts ordinary work, unless a recovery-required terminal or
\* a fail-closed hold forbids it for good.
RecoveryConverges ==
    []<>(\/ Reasons(fs, FALSE, None) = {}
         \/ \E o \in Ops : Held(fs, o)
         \/ FailClosedHold)

-----------------------------------------------------------------------------
(* Refinement of DurableLog: the log is the anchored history. *)

CommitAt(n) == CHOOSE c \in fs.commits : c.seq = n
Lossy == "power" \in FaultKinds
Known == CHOOSE n \in 0 .. fs.head :
           /\ \A c \in acked : c.seq <= n
           /\ n = 0 \/ \E c \in acked : c.seq = n

Log == INSTANCE DurableLog WITH
         Entry <- Commit, Lossy <- Lossy,
         log <- [n \in 1 .. fs.head |-> CommitAt(n)], known <- Known

\* The store implements DurableLog: HEAD advances by one commit, anchored
\* commits never change, and what a caller was told of is never lost.
ImplementsLog == Log!Init /\ [][Log!Next]_(Log!vars)
-----------------------------------------------------------------------------
(* The inductive invariant behind NoFork and MutexExclusion *)

CriticalPcs == AppendPcs \ {"acquire", "return"}
IntentPcs == PublishRecoveryPcs \ ({"r.intent"} \cup PregenesisPcs)

\* Who is inside the mutex made the directory, and it still stands.
MutexInv == \A p \in Procs : pc[p] \in CriticalPcs => fs.alock.by = p /\ fs.alock.st # "none"

\* Who recovers is alone.
AloneInv == \A p, q \in Procs : Recovering(p) /\ p # q => pc[q] = "idle" /\ lease[q] = None

\* What the check under the mutex established still holds when the commit is
\* linked: the commit extends the last one and no recovery is pending.
BaseInv ==
    \A p \in Procs : pc[p] \in {"pending", "link"} =>
       /\ want[p].seq = fs.head + 1
       /\ Unanchored(fs) = {}
       /\ fs.intent.st = "none"

\* The steps of a publish recovery are those of the incident it found.
RecoveryInv ==
    \A p \in Procs :
       /\ pc[p] = "r.intent" => FreshAccepted(fs)
       /\ pc[p] \in IntentPcs => fs.intent.st = "full"

\* The audit commit of a durable intent comes after every other commit.
AuditInv ==
    fs.intent.st = "full" =>
       \A c \in fs.commits : c.seq < fs.intent.audit.seq \/ c = fs.intent.audit

\* What is durable of commits/ and of RECOVERY.json, against what is there.
DurableInv ==
    /\ disk.commits \subseteq fs.commits
    /\ fs.intent = disk.intent \/ (fs.intent.st = "torn" /\ disk.intent.st = "none")

IInv == TypeOK /\ MutexInv /\ AloneInv /\ BaseInv /\ RecoveryInv /\ AuditInv /\ DurableInv /\ NoFork

-----------------------------------------------------------------------------
(* What the commits say *)

BeginsOf(o) == {c \in fs.commits : c.txn = "operation.begin" /\ c.subj = o}
EndsOf(o) == {c \in fs.commits : c.txn \in TerminalTxns /\ c.subj = o}

\* Begins and ends are about operations; the audit of a publish recovery is
\* neither.
SubjectInv ==
    /\ \A c \in fs.commits : c.txn \in {"operation.begin"} \cup TerminalTxns => c.subj \in Ops
    /\ \A p \in Procs : /\ want[p].txn \in {"operation.begin"} \cup TerminalTxns => want[p].subj \in Ops
                        /\ want[p].txn # "recovery.publish"
    /\ fs.intent.st = "full" => fs.intent.audit.txn = "recovery.publish"

\* The check under the mutex saw every commit there is: a commit on its way
\* neither starts nor ends an operation again, nor follows a hold.
FirstInv ==
    \A p \in Procs : pc[p] \in {"pending", "link"} => \A c \in fs.commits :
        /\ want[p].txn = "operation.begin" /\ c.txn = "operation.begin" => c.subj # want[p].subj
        /\ want[p].txn \in TerminalTxns /\ c.txn \in TerminalTxns => c.subj # want[p].subj
        /\ c.txn = "operation.recovery-required" => want[p].txn = "recovery.terminal-lock"

-----------------------------------------------------------------------------
(* The chain: how far the disk is behind *)

\* The commits up to HEAD are durable, none is two beyond the durable HEAD,
\* and what a caller was told of is below it.
ChainInv ==
    /\ \A n \in 1 .. fs.head : \E c \in disk.commits : c.seq = n
    /\ \A c \in fs.commits : c.seq \in 1 .. (disk.head + 1)
    /\ disk.head <= fs.head
    /\ acked \subseteq Anchored(disk)

\* A writer advances HEAD by one, to a commit that is durable.
WriterAt(p) ==
    /\ pc[p] \in {"check", "pending", "link", "commitsync", "headtemp", "rename"} =>
         disk.head = fs.head \/ fs.intent.st = "full"
    /\ pc[p] \in {"commitsync", "headtemp", "rename", "headsync"} =>
         want[p] \in fs.commits /\ fs.intent.st = "none"
    /\ pc[p] \in {"commitsync", "headtemp", "rename"} => want[p].seq = fs.head + 1
    /\ pc[p] \in {"headtemp", "rename", "headsync"} => want[p] \in disk.commits
    /\ pc[p] = "headsync" => want[p].seq = fs.head
    /\ pc[p] \in {"unlink", "release", "return"} /\ ok[p] => want[p] \in Anchored(disk)

WriterInv == \A p \in Procs : WriterAt(p)

\* What a durable recovery intent announces: the audit comes after the
\* commit it is about, and that one at most is beyond HEAD.
IntentInv ==
    fs.intent.st = "full" =>
        /\ fs.head <= fs.intent.audit.seq /\ fs.intent.audit.seq > 0
        /\ fs.intent.affected = NoCommit => fs.intent.audit.seq <= disk.head + 1
        /\ fs.intent.affected # NoCommit =>
             /\ fs.intent.audit.seq = fs.intent.affected.seq + 1
             /\ fs.intent.affected.seq <= disk.head + 1
        /\ fs.intent.audit \in fs.commits =>
             fs.intent.audit \in disk.commits \/ \E p \in Procs : pc[p] = "r.linksync"
        /\ disk.head = fs.head \/ \E p \in Procs : pc[p] = "r.headsync"

\* How far a publish recovery has come.
ResumeAt(p) ==
    /\ pc[p] \in IntentPcs /\ fs.intent.affected # NoCommit => fs.intent.affected \in fs.commits
    /\ pc[p] = "r.commitsync" => fs.head < fs.intent.affected.seq
    /\ pc[p] \in {"r.temp", "r.rename"} =>
         NextAnchor(fs) \in disk.commits /\ NextAnchor(fs).seq = fs.head + 1
    /\ pc[p] \in {"r.headsync", "r.unlink", "r.audit", "r.link", "r.linksync"} =>
         fs.intent.affected.seq <= fs.head
    /\ pc[p] \in {"r.link", "r.linksync"} => fs.head < fs.intent.audit.seq
    /\ pc[p] = "r.linksync" => fs.intent.audit \in fs.commits
    /\ pc[p] \in {"r.done", "r.clear"} =>
         fs.head = fs.intent.audit.seq /\ fs.intent.audit \in disk.commits

ResumeInv == \A p \in Procs : ResumeAt(p)

HistoryInv == ChainInv /\ WriterInv /\ IntentInv /\ ResumeInv

-----------------------------------------------------------------------------
(* The operation lock *)

LockTxns == {"recovery.lock", "recovery.terminal-lock"}
LockAudits == {c \in fs.commits : c.txn \in LockTxns}

\* Operations in progress, and those a power loss at this moment could leave
\* in progress.
Guarded(o) == BeginsOf(o) # {} /\ \A c \in EndsOf(o) : c.seq > disk.head
NoneGuarded == \A o \in Ops : ~Guarded(o)

\* Their lock is there, durable, and no audit is about it.
GuardInv ==
    \A o \in Ops : Guarded(o) =>
        /\ fs.olock.st = "full" /\ fs.olock.op = o /\ disk.olock = fs.olock
        /\ \A e \in LockAudits : e.tag # fs.olock.token

\* One process at a time has the lock, and it keeps it to the end of what it
\* appends about the operation.
Holds(p) == pc[p] \in {"oplease", "unlock"} \/ lease[p] # None

HolderAt(p) ==
    /\ pc[p] \in {"opmkdir", "oplease"} => want[p].txn = "operation.begin"
    /\ pc[p] = "oplease" =>
         lease[p] = None /\ fs.olock.st = "dir" /\ fs.olock.op = want[p].subj
    /\ pc[p] = "unlock" => fs.olock.st # "none" /\ NoneGuarded
    /\ lease[p] # None /\ pc[p] # "unlock" =>
         fs.olock.st = "full" /\ fs.olock.op = lease[p] /\ disk.olock = fs.olock
    /\ pc[p] \in AppendPcs /\ want[p].txn \in {"operation.begin"} \cup TerminalTxns =>
         lease[p] = want[p].subj

HolderInv ==
    /\ \A p, q \in Procs : Holds(p) /\ Holds(q) => p = q
    /\ \A p \in Procs : HolderAt(p)

\* The owner of append.lock lives only inside the mutex.
OwnerInv == fs.alock.live => \E p \in Procs : fs.alock.by = p /\ pc[p] \in CriticalPcs

\* A HEAD that is not durable yet has somebody to make it so.
LagInv ==
    /\ disk.head < fs.head => fs.alock.st # "none" \/ fs.intent.st = "full"
    /\ OwnerInv
    /\ \A p \in Procs :
        /\ pc[p] = "lease" => disk.head = fs.head \/ fs.intent.st = "full"
        /\ pc[p] \in PregenesisPcs => fs.head = 0

\* An audit is about a lock made before it, and the next lock is another one.
TokenAt(p) ==
    /\ want[p].txn \in LockTxns => want[p].tag < want[p].seq
    /\ pc[p] = "opmkdir" => \A e \in LockAudits : e.seq <= disk.head
    /\ pc[p] \in {"oplease", "acquire", "lease", "check", "pending", "link"}
         /\ want[p].txn = "operation.begin" => \A e \in LockAudits : e.tag # fs.olock.token

TokenInv ==
    /\ fs.olock.st # "none" => fs.olock.token <= disk.head
    /\ disk.olock.st # "none" => disk.olock.token <= disk.head
    /\ \A e \in LockAudits : e.tag < e.seq
    /\ \A p \in Procs : TokenAt(p)

\* What is known of an operation while its end is appended ...
TerminalAt(p) ==
    pc[p] \in AppendPcs /\ want[p].txn \in TerminalTxns =>
        /\ Started(fs, want[p].subj)
        /\ EndsOf(want[p].subj) \subseteq {want[p]}
        /\ pc[p] \in {"acquire", "lease", "check", "pending", "link"} => EndsOf(want[p].subj) = {}
        /\ pc[p] = "return" /\ EndsOf(want[p].subj) # {}
             => want[p].seq <= disk.head \/ want[p].seq > fs.head

\* ... and while the audit of its lock is.
AuditAt(p) ==
    pc[p] \in AppendPcs /\ want[p].txn \in LockTxns =>
        /\ fs.olock.st # "none"
        /\ pc[p] \in {"acquire", "lease", "check"} /\ fs.olock.st = "full"
             => ~Started(fs, fs.olock.op) \/ Ended(fs, fs.olock.op)
        /\ \/ pc[p] \in {"acquire", "lease", "check"}
           \/ pc[p] \in {"release", "return"} /\ ~ok[p]
           \/ NoneGuarded

EndingInv == \A p \in Procs : TerminalAt(p) /\ AuditAt(p)

LockInv == GuardInv /\ HolderInv /\ LagInv /\ TokenInv /\ EndingInv

\* A kill strikes none of the two steps of the publish recovery whose fsync a
\* resumed recovery does not repeat: HistoryInv and LockInv need that.
DurableRecovery == RecoveryFaultPcs \cap {"r.linksync", "r.headsync"} = {}

HInv == IInv /\ SubjectInv /\ FirstInv /\ HistoryInv /\ LockInv

-----------------------------------------------------------------------------
(* What a kill leaves: the regime of the run kill *)

KillsOnly == FaultKinds \subseteq {"kill"}

\* No recovery is killed where a retry does not recognize what it left, nor
\* inside one of its writes.
Resumable == KillsOnly /\ ~TornRecovery /\ RecoveryFaultPcs \cap {"r.rmdir", "r.rename"} = {}

\* The commits are a prefix, of which one at most is beyond HEAD.
PrefixInv ==
    /\ \A n \in 1 .. fs.head : \E c \in fs.commits : c.seq = n
    /\ \A c \in fs.commits : c.seq \in 1 .. (fs.head + 1)

\* What lies about when no recovery has begun is of one append: the one that
\* append.lock names, dead or alive.
LeftInv ==
    fs.intent.st = "none" =>
        /\ ~fs.alock.sealed
        /\ \A c \in Unanchored(fs) : fs.alock.st = "full" /\ fs.alock.of = c
        /\ \A e \in fs.pend :
             /\ e.of.txn # "recovery.publish"
             /\ e.of.seq \in {fs.head, fs.head + 1}
             /\ e.file = "head" => e.of \in fs.commits
             /\ fs.commits # {} => fs.alock.st = "full" /\ fs.alock.of = e.of

\* What a durable intent announces, without regard to the disk.
AnnouncedInv ==
    /\ fs.alock.st = "none" => ~fs.alock.sealed
    /\ fs.intent.st # "full" => fs.intent.audit = NoCommit
    /\ fs.intent.st = "full" =>
         /\ fs.head <= fs.intent.audit.seq /\ fs.intent.audit.seq > 0
         /\ fs.intent.affected # NoCommit =>
              /\ fs.intent.affected \in fs.commits
              /\ fs.intent.audit.seq = fs.intent.affected.seq + 1
         /\ \/ fs.intent.audit.seq <= fs.head + 1
            \/ fs.intent.affected.seq = fs.head + 1 /\ fs.intent.audit \notin fs.commits
         /\ \A e \in fs.intent.names : e.of.txn # "recovery.publish"
         /\ fs.alock.sealed => fs.intent.lock = "complete_abandoned"

\* An append has its lease, and leaves only files that are its own.
OwnPending(p) == CommitPending(want[p], "append")
Writing == CriticalPcs \ {"lease", "check", "release"}

AppenderAt(p) ==
    /\ pc[p] \in CriticalPcs => fs.alock.of = want[p] /\ ~fs.alock.sealed
    /\ pc[p] = "lease" => fs.alock.st = "dir"
    /\ pc[p] \in Writing \cup {"check"} => fs.alock.st = "full"
    /\ pc[p] \in Writing => fs.intent.st = "none"
    /\ pc[p] \in {"commitsync", "headtemp", "rename"} =>
         want[p] \in fs.commits /\ want[p].seq = fs.head + 1
    /\ pc[p] \in {"headsync", "unlink"} =>
         want[p] \in fs.commits /\ want[p].seq = fs.head /\ Unanchored(fs) = {}
    /\ pc[p] \in {"check", "release"} /\ fs.intent.st = "none" =>
         Unanchored(fs) = {} /\ (fs.commits # {} => fs.pend = {})
    /\ pc[p] = "pending" => fs.pend = {}
    /\ pc[p] \in {"link", "commitsync", "headtemp", "headsync", "unlink"} =>
         fs.pend \subseteq {OwnPending(p)}
    /\ pc[p] = "rename" => fs.pend \subseteq {OwnPending(p), HeadPending(want[p], "append")}

\* The files a publish recovery adds to those of its intent.
AuditFiles == {AuditPending(fs.intent), Torn(AuditPending(fs.intent))}
AnchorFiles(p) == IF pc[p] = "r.rename" THEN {HeadPending(NextAnchor(fs), "recovery")} ELSE {}

\* A publish recovery has removed the files of its intent.
Unlinked(p) ==
    \/ pc[p] \in {"r.audit", "r.link", "r.linksync", "r.done", "r.clear"}
    \/ pc[p] \in {"r.temp", "r.rename"} /\ fs.intent.affected.seq <= fs.head
    \/ pc[p] = "r.headsync" /\ fs.head = fs.intent.audit.seq

ResumerAt(p) ==
    /\ pc[p] \in PregenesisPcs => PreGenesis(fs) /\ fs.intent.st = "none"
    /\ pc[p] \in IntentPcs => fs.pend \subseteq fs.intent.names \cup AuditFiles \cup AnchorFiles(p)
    /\ pc[p] \in IntentPcs \ {"r.lock", "r.rmdir"} => fs.alock.st = "none" /\ ~fs.alock.sealed
    /\ pc[p] = "r.commitsync" => fs.head < fs.intent.affected.seq
    /\ pc[p] \in {"r.temp", "r.rename"} =>
         NextAnchor(fs) \in fs.commits /\ NextAnchor(fs).seq = fs.head + 1
    /\ pc[p] \in {"r.headsync", "r.unlink", "r.audit", "r.link", "r.linksync"} =>
         fs.intent.affected.seq <= fs.head
    /\ pc[p] \in {"r.link", "r.linksync"} => fs.head < fs.intent.audit.seq
    /\ pc[p] = "r.linksync" => fs.intent.audit \in fs.commits
    /\ pc[p] \in {"r.done", "r.clear"} => fs.head = fs.intent.audit.seq
    /\ Unlinked(p) => fs.pend \cap fs.intent.names = {}
    /\ pc[p] = "r.clear" => fs.pend = {}

KillInv ==
    /\ IInv /\ SubjectInv /\ OwnerInv /\ PrefixInv /\ LeftInv /\ AnnouncedInv
    /\ \A p \in Procs : AppenderAt(p) /\ ResumerAt(p)
    /\ TruthfulDiscard

\* What a killed recovery leaves is what the retry expects.
RetryInv ==
    /\ fs.intent.st # "torn"
    /\ fs.intent.st = "full" =>
         /\ Torn(AuditPending(fs.intent)) \notin fs.pend
         /\ \/ \E p \in Procs : pc[p] = "r.rename"
            \/ fs.pend \subseteq fs.intent.names \cup {AuditPending(fs.intent)}
         /\ fs.alock.sealed => fs.alock.st = "full" \/ \E p \in Procs : pc[p] = "r.rmdir"
=============================================================================

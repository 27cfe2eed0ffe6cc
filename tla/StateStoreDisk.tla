--------------------------- MODULE StateStoreDisk ---------------------------
(***************************************************************************)
(* The directory of the protected control store                            *)
(* (d9/control-plane/state-store.mjs) as a value, and what _refresh reads  *)
(* off it: the committed history, the operations it projects, and the      *)
(* reasons for which the store refuses ordinary work.                      *)
(*                                                                         *)
(* A directory d is a record                                               *)
(*   head     the sequence HEAD.json names (0 before genesis);             *)
(*   commits  the files of commits/, each an immutable commit record;      *)
(*   pend     the files of pending/, torn when a write was cut short;      *)
(*   alock    append.lock/: absent, a directory without a readable         *)
(*            lease, or a directory with its lease;                        *)
(*   olock    operation.lock/: likewise;                                   *)
(*   intent   RECOVERY.json.                                               *)
(* Digests are abstracted: a commit record stands for its own digest, and  *)
(* a sequence for the chain of predecessors it names.  Timestamps, role    *)
(* bindings and the payload of registry and permit events are left out.    *)
(***************************************************************************)
EXTENDS Naturals

CONSTANTS
    Procs,     \* open store instances (one per process)
    Ops,       \* operation nonces
    None       \* no process, no operation

ASSUME DiskAssumption ==
    /\ None \notin Procs \cup Ops
    /\ Procs \cap Ops = {}

-----------------------------------------------------------------------------
(* Records *)

Action == {"discarded_uncommitted_pending", "discarded_abandoned_append_lock",
           "finalized_durable_unanchored_commit", "completed_durable_head_commit_cleanup",
           "discarded_incomplete_lock", "removed_terminal_operation_lock", "none"}

TerminalTxns == {"operation.no-effect", "recovery.operation-no-effect",
                 "operation.recovery-required"}

\* "record" stands for every transaction that neither starts nor ends an
\* operation: registry, permit and later generation-pair commits.
OrdinaryTxns == {"generation-pair.activation", "record", "operation.begin",
                 "operation.no-effect", "operation.recovery-required"}

\* Appends made by the recovery entry points.
RecoveryTxns == {"recovery.operation-no-effect", "recovery.lock", "recovery.terminal-lock"}

Txn == OrdinaryTxns \cup RecoveryTxns \cup {"recovery.publish", "none"}

\* The operation a commit is about, or the store whose record it adds.
Subject == Procs \cup Ops \cup {None}

\* tag identifies the lock directory an audit is about (see Olock).
Commit == [seq: Nat, txn: Txn, subj: Subject, act: Action, tag: Nat]

NoCommit == [seq |-> 0, txn |-> "none", subj |-> None, act |-> "none", tag |-> 0]

\* A head temporary carries a random suffix: "by" tells the one an append
\* left from the one a recovery left.
Pending == [file: {"commit", "head"}, of: Commit, by: {"append", "recovery"}, torn: BOOLEAN]

LockState == {"none", "dir", "full"}

\* live: the process that wrote the lease still runs (pid and start ticks);
\* sealed: it is the lease whose digest RECOVERY.json names.
Alock == [st: LockState, by: Procs \cup {None}, live: BOOLEAN, sealed: BOOLEAN, of: Commit]
NoAlock == [st |-> "none", by |-> None, live |-> FALSE, sealed |-> FALSE, of |-> NoCommit]

\* token stands for the random lease token: two lock directories of which
\* one was audited never share it, because an audit moves the durable HEAD.
Olock == [st: LockState, op: Subject, token: Nat]
NoOlock == [st |-> "none", op |-> None, token |-> 0]

Intent == [st: {"none", "torn", "full"}, lock: {"none", "incomplete", "complete_abandoned"},
           affected: Commit, names: SUBSET Pending, audit: Commit]
NoIntent == [st |-> "none", lock |-> "none", affected |-> NoCommit, names |-> {}, audit |-> NoCommit]

Directory == [head: Nat, commits: SUBSET Commit, pend: SUBSET Pending,
              alock: Alock, olock: Olock, intent: Intent]

EmptyDirectory == [head |-> 0, commits |-> {}, pend |-> {},
                   alock |-> NoAlock, olock |-> NoOlock, intent |-> NoIntent]

CommitPending(c, who) == [file |-> "commit", of |-> c, by |-> who, torn |-> FALSE]
HeadPending(c, who) == [file |-> "head", of |-> c, by |-> who, torn |-> FALSE]
Torn(e) == [e EXCEPT !.torn = TRUE]

-----------------------------------------------------------------------------
(* The history _refresh reads *)

Anchored(d) == {c \in d.commits : c.seq <= d.head}
Unanchored(d) == {c \in d.commits : c.seq > d.head}

\* _refresh opens the directory only when the commit files form one ordered
\* prefix, HEAD names one of them and RECOVERY.json parses.
Opens(d) ==
    /\ \A c, e \in d.commits : c.seq = e.seq => c = e
    /\ \A c \in d.commits : \A n \in 1 .. c.seq : \E e \in d.commits : e.seq = n
    /\ d.head = 0 \/ \E c \in d.commits : c.seq = d.head
    /\ d.intent.st # "torn"

Started(d, o) == \E c \in Anchored(d) : c.txn = "operation.begin" /\ c.subj = o

\* Mutant: a terminal record written by a recovery does not count.
Ended_ordinaryOnly(d, o) ==
    \E c \in Anchored(d) : c.txn \in TerminalTxns \cap OrdinaryTxns /\ c.subj = o

Ended(d, o) == \E c \in Anchored(d) : c.txn \in TerminalTxns /\ c.subj = o
InProgress(d, o) == Started(d, o) /\ ~Ended(d, o)

Held(d, o) == \E c \in Anchored(d) : c.txn = "operation.recovery-required" /\ c.subj = o

\* What replaying the events of c on the projection accepts.
Applies(d, c) ==
    CASE c.txn = "generation-pair.activation" -> d.head = 0
      [] c.txn = "operation.begin" -> d.head > 0 /\ ~Started(d, c.subj)
      [] c.txn \in TerminalTxns -> InProgress(d, c.subj)
      [] OTHER -> d.head > 0

Reason == {"pending_publish", "recovery_audit_pending", "append_lock_present",
           "incomplete_append_lock", "unanchored_commit", "incomplete_operation_lock",
           "lock_without_operation", "unfinished_operation", "terminal_operation_lock",
           "operation_without_lock", "operation_recovery_hold"}

\* recoveryReasons of a store instance that owns the append mutex iff mutex
\* and the lease of operation own (None when it owns none).
Reasons(d, mutex, own) == {r \in Reason :
    \/ r = "pending_publish" /\ d.pend # {}
    \/ r = "recovery_audit_pending" /\ d.intent.st # "none"
    \/ r = "append_lock_present" /\ d.alock.st = "full" /\ ~mutex
    \/ r = "incomplete_append_lock" /\ d.alock.st = "dir"
    \/ r = "unanchored_commit" /\ Unanchored(d) # {}
    \/ r = "incomplete_operation_lock" /\ d.olock.st = "dir"
    \/ r = "lock_without_operation" /\ d.olock.st = "full" /\ ~Started(d, d.olock.op)
    \/ r = "unfinished_operation" /\ d.olock.st = "full" /\ InProgress(d, d.olock.op)
                                  /\ own # d.olock.op
    \/ r = "terminal_operation_lock" /\ d.olock.st = "full" /\ Ended(d, d.olock.op)
    \/ r = "operation_without_lock"
         /\ \E o \in Ops : InProgress(d, o) /\ (d.olock.st # "full" \/ d.olock.op # o)
    \/ r = "operation_recovery_hold" /\ \E o \in Ops : Held(d, o)}

\* The reasons under which _appendEvents still serializes a transaction.
AllowedReasons(txn) == {r \in Reason :
    \/ txn = "operation.begin" /\ r = "lock_without_operation"
    \/ txn \in TerminalTxns /\ r = "unfinished_operation"
    \/ txn = "recovery.lock" /\ r \in {"incomplete_operation_lock", "lock_without_operation"}
    \/ txn = "recovery.terminal-lock"
         /\ r \in {"operation_recovery_hold", "terminal_operation_lock"}}

-----------------------------------------------------------------------------
(* What recoverInterruptedPublish decides from the directory *)

PreGenesis(d) == d.head = 0 /\ d.commits = {}

Interrupted(d) == d.pend # {} \/ Unanchored(d) # {} \/ d.alock.st # "none"

\* Mutant: a lease is taken for a live owner.
OwnerAlive_anyLease(d) == d.alock.st = "full"

OwnerAlive(d) == d.alock.st = "full" /\ d.alock.live

\* The pre-genesis branch: an incomplete mutex alone has no sealed time.
PreGenesisAccepted(d) ==
    /\ PreGenesis(d)
    /\ d.intent.st = "none"
    /\ Interrupted(d)
    /\ d.alock.st = "dir" => d.pend # {}
    /\ ~OwnerAlive(d)
    /\ \A e \in d.pend : e.file = "commit" /\ ~e.torn

\* The checks that precede a new recovery intent.
FreshAccepted(d) ==
    /\ ~PreGenesis(d)
    /\ d.intent.st = "none"
    /\ Interrupted(d)
    /\ ~OwnerAlive(d)
    /\ \A c, e \in Unanchored(d) : c = e
    /\ Unanchored(d) # {} => d.alock.st # "dir"
    /\ d.alock.st = "full" => \A c \in Unanchored(d) : d.alock.of = c
    /\ \A e \in d.pend : e.file = "commit" =>
         /\ ~e.torn
         /\ e.of.seq > 1 => \E c \in d.commits : c.seq = e.of.seq - 1

\* The commit the recovery finalizes or finishes cleaning up after.
Recovered(d) ==
    IF Unanchored(d) # {} THEN Unanchored(d)
    ELSE {c \in Anchored(d) : d.alock.st = "full" /\ c = d.alock.of /\ c.seq = d.head}

\* Mutants: pending material decides before a linked commit does; an action
\* outside the recovery vocabulary.
RecoveryAction_pendingFirst(d) ==
    IF d.pend # {} THEN "discarded_uncommitted_pending"
    ELSE IF Unanchored(d) # {} THEN "finalized_durable_unanchored_commit"
    ELSE "discarded_abandoned_append_lock"

RecoveryAction(d) ==
    CASE Unanchored(d) # {} -> "finalized_durable_unanchored_commit"
      [] Unanchored(d) = {} /\ Recovered(d) # {} -> "completed_durable_head_commit_cleanup"
      [] Recovered(d) = {} /\ d.pend # {} -> "discarded_uncommitted_pending"
      [] OTHER -> "discarded_abandoned_append_lock"

FreshIntent(d) ==
    LET affected == IF Recovered(d) = {} THEN NoCommit ELSE CHOOSE c \in Recovered(d) : TRUE
    IN [st |-> "full",
        lock |-> CASE d.alock.st = "full" -> "complete_abandoned"
                   [] d.alock.st = "dir" -> "incomplete"
                   [] OTHER -> "none",
        affected |-> affected,
        names |-> d.pend,
        audit |-> [seq |-> (IF affected = NoCommit THEN d.head ELSE affected.seq) + 1,
                   txn |-> "recovery.publish", subj |-> None,
                   act |-> RecoveryAction(d), tag |-> 0]]

AuditPending(i) == CommitPending(i.audit, "recovery")

\* The checks a retry passes before it resumes from a durable intent.
RetryAccepted(d) ==
    LET i == d.intent IN
    /\ i.st = "full"
    /\ \A e \in d.pend : e \in i.names \/ e = AuditPending(i) \/ e = Torn(AuditPending(i))
    /\ CASE i.lock = "complete_abandoned" ->
              d.alock.st = "none" \/ (d.alock.st = "full" /\ d.alock.sealed /\ ~OwnerAlive(d))
         [] i.lock = "incomplete" -> d.alock.st # "full"
         [] OTHER -> d.alock.st = "none"
    /\ i.affected # NoCommit => i.affected \in d.commits
    /\ Torn(AuditPending(i)) \in d.pend => i.audit \in d.commits

\* The commit the recovery's next HEAD replacement anchors.
NextAnchor(d) ==
    IF d.head < d.intent.affected.seq THEN d.intent.affected ELSE d.intent.audit
=============================================================================

---- MODULE BackupRestore ----
(***************************************************************************)
(* The D9.5 runtime (backup-restore/runtime.mjs, storage.mjs): backup      *)
(* sets are created, their retention decided and attested, a deletion-     *)
(* aware assessment made, a restore authorized, and the set restored into  *)
(* a generation of the target through a private staging directory.         *)
(*                                                                         *)
(* The calls are synchronous, so within one process they do not interleave *)
(* but processes share the history, the backup store and both roots.  Any  *)
(* call may fail at any step, and any process may be killed.  A call that  *)
(* its first checks refuse changes nothing and is not a step.  Reads of    *)
(* one call that follow one another are one step only where they compare   *)
(* things that never move back (controls, checkpoint, the last decision, a *)
(* name that is taken), or where nothing that is said below rests on their *)
(* being of one instant.                                                   *)
(***************************************************************************)
EXTENDS BackupHistory

CONSTANTS
  May,          \* per process, the calls it makes
  Content,      \* per backup set, the object that holds its copy
  Target,       \* per restore operation, the target environment
  Privileged,   \* may the process write directories whose mode forbids it
  MaxAssess, MaxUpsets

ASSUME BoundsAssumption == {MaxAssess, MaxUpsets} \subseteq Nat

ASSUME PlacesAssumption ==   \* a set has one object, a restore one target
  /\ Content = [b \in Backups |-> Content[b]]
  /\ Target = [r \in Restores |-> Target[r]]

Whole == {"copies", "controls"}
Directories == [op : Restores, by : Procs, files : SUBSET Whole, open : BOOLEAN]
Names == [object : Range(Content), linked : BOOLEAN]

ASSUME NoneIsNothing == None \notin Directories \cup Names

VARIABLES
  objects,      \* the objects published in the backup store
  temporary,    \* per process: its name in the store's pending directory, or None
  controls,     \* the D9.4 directives for the subject: "clear" or "blocked"
  checkpoint,   \* the source checkpoint the resolver answers
  staging,      \* per restore operation: its staging directory, or None
  generation,   \* per target: the promoted generation, or None
  lock,         \* per target: is the promotion root's lock file there
  job,          \* per process: the call under way
  said,         \* the calls that answered success
  upsets        \* failures and upsets so far, bounded

stores == <<objects, temporary>>
sources == <<controls, checkpoint>>
roots == <<staging, generation, lock>>
vars == <<historyVars, stores, sources, roots, job, said, upsets>>

Stages == <<"authorized", "staging_started", "bytes_reconstructed_inaccessible",
            "controls_revalidated", "controls_applied", "staged_state_verified",
            "promotion_started", "promoted", "post_promotion_verified", "completed">>
Stage(name) == CHOOSE k \in DOMAIN Stages : Stages[k] = name
Revalidated ==   \* restore_stage_rules: control_revalidation_required
  {"controls_revalidated", "staged_state_verified", "promotion_started", "promoted",
   "post_promotion_verified", "completed"}

\* Mutant: the start of the promotion goes on record after it.
Steps_startedLate == [backup |-> <<"stage", "publish", "retire", "manifest", "source", "prior", "final", "verify">>,
          retention |-> <<"retention">>, attest |-> <<"head">>, assess |-> <<"assess">>,
          authorize |-> <<"auth">>, backupAgain |-> <<"projection">>, restoreAgain |-> <<"intact">>,
          restore |-> <<"plan", "names", "lock", "mkdir", "authorized", "staging_started", "copy",
                        "bytes_reconstructed_inaccessible", "controls_revalidated", "controls",
                        "controls_applied", "seal", "staged_state_verified",
                        "observe", "rename", "compare", "expose", "promotion_started", "promoted",
                        "post_promotion_verified", "completed", "unlock">>]

\* What each call does, in order.
Steps == [backup |-> <<"stage", "publish", "retire", "manifest", "source", "prior", "final", "verify">>,
          retention |-> <<"retention">>, attest |-> <<"head">>, assess |-> <<"assess">>,
          authorize |-> <<"auth">>, backupAgain |-> <<"projection">>, restoreAgain |-> <<"intact">>,
          restore |-> <<"plan", "names", "lock", "mkdir", "authorized", "staging_started", "copy",
                        "bytes_reconstructed_inaccessible", "controls_revalidated", "controls",
                        "controls_applied", "seal", "staged_state_verified", "promotion_started",
                        "observe", "rename", "compare", "expose", "promoted",
                        "post_promotion_verified", "completed", "unlock">>]

Idle == [call |-> "idle", op |-> None, pc |-> 1, phase |-> "check", rec |-> None, head |-> 0, ref |-> 0]
Step(p) == Steps[job[p].call][job[p].pc]
Running(p) == job[p].call \notin {"idle", "down"}
At(p, call, step) == job[p].call = call /\ Step(p) = step
Op(p) == job[p].op

Begins(p, call, op, ref) ==
  /\ call \in May[p]
  /\ job' = [job EXCEPT ![p].call = call, ![p].op = op, ![p].ref = ref]
Ends(p) == job' = [job EXCEPT ![p] = Idle]

\* On to the next step, or back with an answer.
Advance(p) ==
  IF job[p].pc = Len(Steps[job[p].call])
  THEN Ends(p) /\ said' = said \cup {<<job[p].call, Op(p)>>}
  ELSE /\ job' = [job EXCEPT ![p].pc = @ + 1, ![p].phase = "check", ![p].rec = None,
                             ![p].ref = IF Step(p) = "manifest" THEN job[p].rec.n ELSE @]
       /\ UNCHANGED said

Upset == upsets < MaxUpsets /\ upsets' = upsets + 1

BackupInit ==
  /\ targets = {} /\ journal = <<>>
  /\ objects = {} /\ temporary = [p \in Procs |-> None]
  /\ controls = "clear" /\ checkpoint = 1
  /\ staging = [r \in Restores |-> None]
  /\ generation = [t \in Range(Target) |-> None] /\ lock = [t \in Range(Target) |-> FALSE]
  /\ job = [p \in Procs |-> Idle] /\ said = {} /\ upsets = 0

----------------------------------------------------------------------------
(* What the calls read.                                                    *)

Manifest(n) == CHOOSE m \in All("manifest") : m.n = n
ManifestOf(r) == Manifest((CHOOSE a \in Of("auth", r) : TRUE).ref)
SetOf(r) == ManifestOf(r).op

\* An object still linked to a temporary name has two links and is refused.
Readable(o) == o \in objects /\ ~\E p \in Procs : temporary[p] = [object |-> o, linked |-> TRUE]

\* verifyBackupProjection: the history is complete, and after that the set's copy is read
\* and its three kinds of receipts are found.
Projected(m) ==
  /\ Readable(Content[m.op])
  /\ \A kind \in {"source", "prior", "final"} :
       Cardinality({r \in All(kind) : r.ref = m.n}) = 1
Verified(m) == Complete /\ Projected(m)

\* currentRetention: the leaf retains the set and is the one attested.
Retains(b) == Of("retention", b) # {} /\ Leaf(Of("retention", b)).ref = 0
Attested(b, n) == Of("head", b) # {} /\ Leaf(Of("head", b)).n = n
Retained(b) == Retains(b) /\ Attested(b, Leaf(Of("retention", b)).n)

\* The last assessment does not withhold the set.
Eligible(b) == Of("assess", b) # {} /\ Leaf(Of("assess", b)).ref = 0

\* Mutant: any decision that retains the set and is attested will do.
Unmoved_anyDecision(p) ==
  /\ controls = "clear" /\ ManifestOf(Op(p)).ref = checkpoint /\ Retained(SetOf(Op(p)))

\* observeCurrent: nothing that the restore began under has moved.  Its reads follow one
\* another, but what they compare never moves back: they are as true at the first.
Unmoved(p) ==
  /\ controls = "clear" /\ ManifestOf(Op(p)).ref = checkpoint
  /\ Retained(SetOf(Op(p))) /\ Leaf(Of("retention", SetOf(Op(p)))).n = job[p].ref

Lifecycle(r) == {s.n : s \in Of("life", r)}

----------------------------------------------------------------------------
(* The calls begin.                                                        *)

CallBackup(p) ==
  \E b \in Backups :
    /\ Begins(p, "backup", b, checkpoint) /\ Complete /\ Of("manifest", b) = {}
    /\ UNCHANGED <<historyVars, stores, sources, roots, said, upsets>>

\* An operation with a manifest on record, the first in the chain, is only verified again.
\* Others may append between the completeness of the history and the projection.
Recorded(b) == CHOOSE m \in Of("manifest", b) : \A other \in Of("manifest", b) : m.n <= other.n
CallBackupAgain(p) ==
  \E m \in All("manifest") :
    /\ Begins(p, "backupAgain", m.op, m.n) /\ Complete
    /\ m = Recorded(m.op) /\ m.ref = checkpoint
    /\ UNCHANGED <<historyVars, stores, sources, roots, said, upsets>>

CallRetention(p) ==
  \E b \in Backups, decision \in {0, 1} :   \* retain, hold
    /\ Begins(p, "retention", b, decision) /\ Of("manifest", b) # {}
    /\ IF Of("retention", b) = {} THEN UNCHANGED upsets ELSE Upset
    /\ UNCHANGED <<historyVars, stores, sources, roots, said>>

CallAttest(p) ==
  \E b \in Backups, leaf \in All("retention") :
    /\ Begins(p, "attest", b, leaf.n) /\ leaf \in Of("retention", b)
    /\ leaf = Leaf(Of("retention", b)) /\ ~\E h \in Of("head", b) : h.n = leaf.n
    /\ UNCHANGED <<historyVars, stores, sources, roots, said, upsets>>

CallAssess(p) ==
  \E b \in Backups :
    /\ Begins(p, "assess", b, IF controls = "clear" THEN 0 ELSE 1)
    /\ Of("manifest", b) # {} /\ Cardinality(Of("assess", b)) < MaxAssess
    /\ UNCHANGED <<historyVars, stores, sources, roots, said, upsets>>

CallAuthorize(p) ==
  \E r \in Restores, m \in All("manifest") :
    /\ Begins(p, "authorize", r, m.n) /\ Of("auth", r) = {}
    /\ UNCHANGED <<historyVars, stores, sources, roots, said, upsets>>

\* The checks a new restore and the replay of a completed one pass alike, up to the
\* controls; the retention leaf, its head, the assessment and the plan are read later.
Restorable(r) ==
  /\ Of("auth", r) # {} /\ Verified(ManifestOf(r))
  /\ ManifestOf(r).ref = checkpoint /\ controls = "clear"

CallRestore(p) ==
  \E r \in Restores :
    /\ Begins(p, "restore", r, 0) /\ Of("plan", r) = {} /\ Restorable(r)
    /\ UNCHANGED <<historyVars, stores, sources, roots, said, upsets>>

CallRestoreAgain(p) ==
  \E r \in Restores :
    /\ Begins(p, "restoreAgain", r, 0) /\ Restorable(r)
    /\ UNCHANGED <<historyVars, stores, sources, roots, said, upsets>>

\* The generation of a completed restore, found where and as it was left.
Intact(r) ==
  /\ Of("plan", r) # {} /\ Lifecycle(r) = DOMAIN Stages
  /\ ~lock[Target[r]] /\ staging[r] = None /\ generation[Target[r]] # None
  /\ generation[Target[r]].open /\ generation[Target[r]].files = Whole

----------------------------------------------------------------------------
(* The steps' own checks.                                                  *)

Sealed(p) ==
  LET b == Op(p)   step == Step(p)   ref == job[p].ref
  IN CASE step = "manifest" -> Rec("manifest", b, NextIn(All("manifest")), ref)
       [] step = "source" -> Rec("source", b, 1, ref)
       [] step \in {"prior", "final"} -> Rec(step, b, ref, ref)
       [] step = "retention" -> Rec("retention", b, NextIn(Of("retention", b)), ref)
       [] step = "head" -> Rec("head", b, ref, 0)
       [] step = "assess" -> Rec("assess", b, NextIn(Of("assess", b)), ref)
       [] step \in {"auth", "plan"} -> Rec(step, b, 0, ref)
       [] OTHER -> Rec("life", b, Stage(step), 0)

Appending == Range(Stages) \cup
  {"manifest", "source", "prior", "final", "retention", "head", "assess", "auth", "plan"}
Appends(p) == Running(p) /\ Step(p) \in Appending

\* What a call reads before it seals the record of its step: createBackup the whole
\* history, restore the retention leaf and then its head and the assessment, and a stage
\* that must revalidate what the restore began under.
Ready(p) ==
  LET r == Op(p)   step == Step(p)   ref == job[p].ref
  IN CASE step = "manifest" -> Complete
       [] step = "plan" -> IF ref = 0 THEN Retains(SetOf(r)) ELSE Attested(SetOf(r), ref) /\ Eligible(SetOf(r))
       [] step \in Revalidated -> Unmoved(p)
       [] OTHER -> TRUE

\* What a step checks before it goes on; otherwise the call throws there.  A generation
\* that is there is a directory with files, which rename does not replace; and moving a
\* directory to another parent writes it, so its mode must be no obstacle.
Allowed(p) ==
  LET r == Op(p)   step == Step(p)
  IN CASE Appends(p) /\ job[p].phase = "check" -> Ready(p)
       [] Appends(p) /\ job[p].phase = "whole" -> Appendable(job[p].rec)
       [] Appends(p) /\ job[p].phase = "target" -> ~Taken(job[p].rec)
       [] Appends(p) /\ job[p].phase = "receipt" -> Len(journal) = job[p].head
       [] step = "retire" ->
            \A other \in Procs \ {p} : temporary[other] # [object |-> Content[r], linked |-> TRUE]
       [] step = "verify" -> Verified(Manifest(job[p].ref))
       [] step = "projection" -> Projected(Manifest(job[p].ref))
       [] step = "intact" -> Retained(SetOf(r)) /\ Eligible(SetOf(r)) /\ Intact(r)
       [] step = "names" -> staging[r] = None /\ generation[Target[r]] = None
       [] step = "lock" -> ~lock[Target[r]]
       [] step = "mkdir" -> staging[r] = None
       [] step = "copy" -> Readable(Content[SetOf(r)])
       [] step = "seal" -> staging[r].files = Whole
       [] step \in {"observe", "compare"} -> Unmoved(p)
       [] step = "rename" -> generation[Target[r]] = None /\ Privileged
       [] OTHER -> TRUE

----------------------------------------------------------------------------
(* history.append, one step of a call.  No lock covers its reads: others    *)
(* may append between what a record was sealed on, the verification of the *)
(* history, the read of its head, and the two writes.                      *)

\* restore binds the last decision on the set there is.
ReadRetention(p) ==
  /\ At(p, "restore", "plan") /\ job[p].phase = "check" /\ job[p].ref = 0 /\ Allowed(p)
  /\ job' = [job EXCEPT ![p].ref = Leaf(Of("retention", SetOf(Op(p)))).n]
  /\ UNCHANGED <<historyVars, stores, sources, roots, said, upsets>>

AppendSeal(p) ==
  /\ Appends(p) /\ job[p].phase = "check" /\ (Step(p) = "plan" => job[p].ref # 0) /\ Allowed(p)
  /\ job' = [job EXCEPT ![p].phase = "whole", ![p].rec = Sealed(p)]
  /\ UNCHANGED <<historyVars, stores, sources, roots, said, upsets>>

\* verifyCompleteState, as of its first read, the journal.
AppendCheck(p) ==
  /\ Appends(p) /\ job[p].phase = "whole" /\ Allowed(p)
  /\ job' = [job EXCEPT ![p].phase = "head"]
  /\ UNCHANGED <<historyVars, stores, sources, roots, said, upsets>>

AppendHead(p) ==
  /\ Appends(p) /\ job[p].phase = "head"
  /\ job' = [job EXCEPT ![p].phase = "target", ![p].head = Len(journal)]
  /\ UNCHANGED <<historyVars, stores, sources, roots, said, upsets>>

AppendTarget(p) ==
  /\ Appends(p) /\ job[p].phase = "target" /\ PutTarget(job[p].rec)
  /\ job' = [job EXCEPT ![p].phase = "receipt"]
  /\ UNCHANGED <<journal, stores, sources, roots, said, upsets>>

AppendReceipt(p) ==
  /\ Appends(p) /\ job[p].phase = "receipt" /\ PutReceipt(job[p].rec, job[p].head)
  /\ Advance(p)
  /\ UNCHANGED <<targets, stores, sources, roots, upsets>>

----------------------------------------------------------------------------
(* createBackup around its records: the object is staged, published and    *)
(* its temporary name removed; at the end the whole projection is read.    *)

StageObject(p) ==
  /\ At(p, "backup", "stage")
  /\ temporary' = [temporary EXCEPT ![p] = [object |-> Content[Op(p)], linked |-> FALSE]]
  /\ Advance(p) /\ UNCHANGED <<historyVars, objects, sources, roots, upsets>>

\* A name that is there is not replaced.
PublishObject(p) ==
  /\ At(p, "backup", "publish")
  /\ objects' = objects \cup {Content[Op(p)]}
  /\ temporary' = [temporary EXCEPT ![p].linked = Content[Op(p)] \notin objects]
  /\ Advance(p) /\ UNCHANGED <<historyVars, sources, roots, upsets>>

RetireTemporary(p) ==
  /\ At(p, "backup", "retire") /\ temporary' = [temporary EXCEPT ![p] = None]
  /\ Allowed(p)
  /\ Advance(p) /\ UNCHANGED <<historyVars, objects, sources, roots, upsets>>

VerifyBackup(p) ==
  /\ At(p, "backup", "verify") /\ Allowed(p)
  /\ Advance(p) /\ UNCHANGED <<historyVars, stores, sources, roots, upsets>>

\* A replay answers when it finds what its first run left.
VerifyAgain(p) ==
  /\ At(p, "backupAgain", "projection") \/ At(p, "restoreAgain", "intact")
  /\ Allowed(p) /\ Advance(p)
  /\ UNCHANGED <<historyVars, stores, sources, roots, upsets>>

----------------------------------------------------------------------------
(* restore around its records.                                             *)

\* A step that touches nothing but the roots.
OnRoots(p, step) ==
  /\ At(p, "restore", step) /\ Advance(p)
  /\ UNCHANGED <<historyVars, stores, sources, upsets>>

CheckNames(p) ==
  /\ OnRoots(p, "names")
  /\ Allowed(p) /\ UNCHANGED roots

TakeLock(p) ==
  /\ OnRoots(p, "lock")
  /\ Allowed(p) /\ lock' = [lock EXCEPT ![Target[Op(p)]] = TRUE]
  /\ UNCHANGED <<staging, generation>>

MakeStaging(p) ==
  /\ OnRoots(p, "mkdir")
  /\ Allowed(p)
  /\ staging' = [staging EXCEPT ![Op(p)] = [op |-> Op(p), by |-> p, files |-> {}, open |-> TRUE]]
  /\ UNCHANGED <<generation, lock>>

Writes(p, file) == staging' = [staging EXCEPT ![Op(p)].files = @ \cup {file}]

CopyBytes(p) ==
  /\ OnRoots(p, "copy")
  /\ Allowed(p) /\ Writes(p, "copies")
  /\ UNCHANGED <<generation, lock>>

WriteControls(p) ==
  OnRoots(p, "controls") /\ Writes(p, "controls") /\ UNCHANGED <<generation, lock>>

\* The staged inventory is complete, and is then made unreadable.
SealStaging(p) ==
  /\ OnRoots(p, "seal")
  /\ Allowed(p) /\ staging' = [staging EXCEPT ![Op(p)].open = FALSE]
  /\ UNCHANGED <<generation, lock>>

Observe(p) == OnRoots(p, "observe") /\ Allowed(p) /\ UNCHANGED roots

Promote(p) ==
  /\ OnRoots(p, "rename")
  /\ Allowed(p)
  /\ generation' = [generation EXCEPT ![Target[Op(p)]] = staging[Op(p)]]
  /\ staging' = [staging EXCEPT ![Op(p)] = None]
  /\ UNCHANGED lock

Compare(p) == OnRoots(p, "compare") /\ Allowed(p) /\ UNCHANGED roots

Expose(p) ==
  /\ OnRoots(p, "expose")
  /\ generation' = [generation EXCEPT ![Target[Op(p)]].open = TRUE]
  /\ UNCHANGED <<staging, lock>>

ReleaseLock(p) ==
  /\ OnRoots(p, "unlock")
  /\ lock' = [lock EXCEPT ![Target[Op(p)]] = FALSE]
  /\ UNCHANGED <<staging, generation>>

----------------------------------------------------------------------------
(* A call that throws, a killed process, and the world.                    *)

\* Mutant: the directory is shut by its name.
Shut_byName(p, dir) == IF dir # None THEN [dir EXCEPT !.open = FALSE] ELSE dir

\* The directory a running restore holds open, wherever its name is by now.
Shut(p, dir) == IF dir # None /\ dir.by = p /\ dir.op = Op(p) THEN [dir EXCEPT !.open = FALSE] ELSE dir

\* restore's finally, around the steps from the first stage to the last.
Finally(p) ==
  IF job[p].call = "restore" /\ Step(p) # "unlock"
  THEN /\ staging' = [r \in Restores |-> Shut(p, staging[r])]
       /\ generation' = [t \in DOMAIN generation |-> Shut(p, generation[t])]
  ELSE UNCHANGED <<staging, generation>>

\* Mutant: the lock file is removed whatever the outcome.
Throws_releasing(p) ==
  /\ temporary' = [temporary EXCEPT ![p] = None]
  /\ Finally(p) /\ Ends(p)
  /\ lock' = IF job[p].call = "restore" THEN [lock EXCEPT ![Target[Op(p)]] = FALSE] ELSE lock
  /\ UNCHANGED <<objects, sources, said>>

\* A call throws: put removes its temporary name, restore shuts its directory, and the
\* lock file stays.
Throws(p) ==
  /\ temporary' = [temporary EXCEPT ![p] = None]
  /\ Finally(p) /\ Ends(p)
  /\ UNCHANGED <<objects, sources, lock, said>>

Refused(p) == Running(p) /\ ~Allowed(p) /\ Throws(p) /\ UNCHANGED <<historyVars, upsets>>

\* A file operation fails, with the append it was part of left undone or done.
Fail(p) ==
  /\ Running(p) /\ Upset
  /\ \/ UNCHANGED historyVars
     \/ job[p].phase = "target" /\ PutTarget(job[p].rec) /\ UNCHANGED journal
     \/ job[p].phase = "receipt" /\ PutReceipt(job[p].rec, job[p].head) /\ UNCHANGED targets
  /\ Throws(p)

Kill(p) ==
  /\ Running(p) /\ Upset
  /\ job' = [job EXCEPT ![p] = [Idle EXCEPT !.call = "down"]]
  /\ UNCHANGED <<historyVars, stores, sources, roots, said>>

\* createD951BackupStore refuses a pending directory that is not empty.
Restart(p) ==
  /\ job[p].call = "down" /\ \A q \in Procs : temporary[q] = None
  /\ Ends(p)
  /\ UNCHANGED <<historyVars, stores, sources, roots, said, upsets>>

\* A hold, a restriction or a tombstone lands in the D9.4 ledger.
Block ==
  /\ controls = "clear" /\ controls' = "blocked" /\ Upset
  /\ UNCHANGED <<historyVars, stores, checkpoint, roots, job, said>>

\* The source moves on to its next checkpoint.
MoveSource ==
  /\ checkpoint' = checkpoint + 1 /\ Upset
  /\ UNCHANGED <<historyVars, stores, controls, roots, job, said>>

Calls(p) ==
  /\ job[p] = Idle
  /\ \/ CallBackup(p) \/ CallBackupAgain(p) \/ CallRetention(p) \/ CallAttest(p) \/ CallAssess(p)
     \/ CallAuthorize(p) \/ CallRestore(p) \/ CallRestoreAgain(p)
Works(p) ==
  \/ ReadRetention(p) \/ AppendSeal(p) \/ AppendCheck(p) \/ AppendHead(p) \/ AppendTarget(p) \/ AppendReceipt(p)
  \/ StageObject(p) \/ PublishObject(p) \/ RetireTemporary(p) \/ VerifyBackup(p) \/ VerifyAgain(p)
  \/ CheckNames(p) \/ TakeLock(p) \/ MakeStaging(p) \/ CopyBytes(p) \/ WriteControls(p)
  \/ SealStaging(p) \/ Observe(p) \/ Promote(p) \/ Compare(p) \/ Expose(p) \/ ReleaseLock(p)

BackupNext ==
  \/ \E p \in Procs : Calls(p) \/ Works(p) \/ Refused(p) \/ Fail(p) \/ Kill(p) \/ Restart(p)
  \/ Block \/ MoveSource

BackupSpec == BackupInit /\ [][BackupNext]_vars
====

---------------------------- MODULE BackupProofs ----------------------------
(***************************************************************************)
(* Backups and restores, for any processes, sets, restores, targets and    *)
(* bounds: what is exposed was verified, a retention decision that moved   *)
(* cancels the promotion, an answer lasts, and the classification of a     *)
(* restore that was cut short is true.                                     *)
(*                                                                         *)
(* The history takes no lock, and its calls read it piece by piece.  The   *)
(* argument rests on what never changes: a record's code, which one        *)
(* process only can put, and the journal's first receipts.  One process    *)
(* runs a restore, so when it observes the retention leaf all the stages   *)
(* it has behind it are on the journal, after the decision it is bound to. *)
(***************************************************************************)
EXTENDS BackupProps, FiniteSetTheorems, TLAPS

-----------------------------------------------------------------------------
(* The places of a restore's steps, and of its ten stages among them.      *)

AtPlan == 1
AtLock == 3
AtMkdir == 4
AtSeal == 12
AtObserve == 15
AtRename == 16
AtExpose == 18
AtUnlock == 22
StageAt == <<5, 6, 8, 9, 11, 13, 14, 19, 20, 21>>

-----------------------------------------------------------------------------
(* The inductive invariant.                                                *)

Again == {"backupAgain", "restoreAgain"}
CallNames == {"backup", "retention", "attest", "assess", "authorize", "restore"} \cup Again
SetCalls == {"backup", "retention", "attest", "assess", "backupAgain"}
Namespaces ==
  {"manifest", "source", "prior", "final", "retention", "head", "assess", "auth", "plan", "life"}
Records == [ns : Namespaces, op : Backups \cup Restores, n : Nat, ref : Nat]
Jobs == [call : CallNames \cup {"idle", "down"}, op : Backups \cup Restores \cup {None}, pc : Nat,
         phase : {"check", "whole", "head", "target", "receipt"}, rec : Records \cup {None}, head : Nat, ref : Nat]

TypeOK ==
  /\ targets \in SUBSET Records /\ journal \in Seq(Records)
  /\ objects \in SUBSET Range(Content) /\ temporary \in [Procs -> Names \cup {None}]
  /\ controls \in {"clear", "blocked"} /\ checkpoint \in Nat
  /\ staging \in [Restores -> Directories \cup {None}]
  /\ generation \in [Range(Target) -> Directories \cup {None}]
  /\ lock \in [Range(Target) -> BOOLEAN]
  /\ job \in [Procs -> Jobs]
  /\ upsets \in Nat

NamespaceOf(step) == IF step \in Range(Stages) THEN "life" ELSE step

\* A call is at one of its steps, and on the right kind of operation; one that appends
\* has sealed the record of its step.
JobInv ==
  \A p \in Procs :
    /\ Running(p) =>
         /\ job[p].pc \in DOMAIN Steps[job[p].call]
         /\ Op(p) \in IF job[p].call \in SetCalls THEN Backups ELSE Restores
    /\ ~Running(p) => job[p] = [Idle EXCEPT !.call = job[p].call]
    /\ job[p].phase # "check" =>
         /\ Appends(p)
         /\ job[p].rec \in Records
         /\ job[p].rec.ns = NamespaceOf(Step(p)) /\ job[p].rec.op = Op(p)
         /\ Step(p) \in Range(Stages) => job[p].rec.n = Stage(Step(p))
         /\ Step(p) \notin Range(Stages) \cup {"head"} => job[p].rec.ref = job[p].ref
         /\ Step(p) \in {"auth", "plan"} => job[p].rec.n = 0

\* One record has a code, and one receipt.
CodesInv == \A r, s \in targets : Code(r) = Code(s) => r = s
JournalInv ==
  /\ Range(journal) \subseteq targets
  /\ \A i, j \in DOMAIN journal : journal[i] = journal[j] => i = j

\* A record that was put and awaits its receipt is one call's.
PendingInv ==
  /\ \A p \in Procs : job[p].phase = "receipt" => job[p].rec \in targets \ Range(journal)
  /\ \A p, q \in Procs :
       job[p].phase = "receipt" /\ job[q].phase = "receipt" /\ job[p].rec = job[q].rec => p = q

\* A set's or an operation's records are of it, and what they refer to is there.
KindsInv ==
  /\ \A x \in targets : x.ns \in {"manifest", "source", "prior", "final", "retention", "head", "assess"}
                          => x.op \in Backups
  /\ \A x \in targets : x.ns \in {"auth", "plan", "life"} => x.op \in Restores
  /\ \A x \in targets : x.ns \in {"auth", "plan"} => x.n = 0
  /\ \A x \in All("auth") : \E m \in All("manifest") : m.n = x.ref
  /\ \A p \in Procs : job[p].call = "authorize" => \E m \in All("manifest") : m.n = job[p].ref
  /\ \A x \in All("plan") : Of("auth", x.op) # {}
  /\ \A p \in Procs : job[p].call = "restore" => Of("auth", Op(p)) # {}
  /\ \A p \in Procs : job[p].call = "backupAgain" => \E m \in Of("manifest", Op(p)) : m.n = job[p].ref

\* A chain has a last record, and a set a first manifest.
HasLast(S) == S # {} => \E x \in S : \A y \in S : y.n <= x.n
HasFirst(S) == S # {} => \E x \in S : \A y \in S : x.n <= y.n
LeavesInv ==
  /\ HasLast(All("manifest"))
  /\ \A b \in Backups : HasFirst(Of("manifest", b))
  /\ \A b \in Backups : HasLast(Of("retention", b)) /\ HasLast(Of("assess", b)) /\ HasLast(Of("head", b))

Planned(p) == job[p].call = "restore" /\ (job[p].pc > AtPlan \/ job[p].phase = "receipt")

\* One process runs a restore whose plan is on record.
RunnerInv ==
  \A p, q \in Procs : Planned(p) /\ Planned(q) /\ Op(p) = Op(q) => p = q

\* It binds what its plan binds, and its stages so far are on the journal.
PlannedInv == \A p \in Procs : Planned(p) => \E x \in Of("plan", Op(p)) : x.ref = job[p].ref
StagedInv ==
  \A p \in Procs : job[p].call = "restore" =>
    \A n \in DOMAIN Stages : job[p].pc > StageAt[n] => n \in Journaled(Op(p))

\* Its directories are as its steps so far left them.
ProgressInv ==
  \A p \in Procs : job[p].call = "restore" =>
    LET r == Op(p)   pc == job[p].pc   s == staging[r]   g == generation[Target[r]]
    IN /\ pc > AtLock => lock[Target[r]]
       /\ pc > AtMkdir /\ pc <= AtRename => s # None /\ s.op = r /\ s.by = p
       /\ pc > AtSeal /\ pc <= AtRename => s.files = Whole /\ ~s.open
       /\ pc > AtRename => g # None /\ g.op = r /\ g.by = p
       /\ pc > AtExpose => g.open

\* The promotion root of a target is one restore's at a time.
LocksInv ==
  \A p, q \in Procs :
    /\ job[p].call = "restore" /\ job[p].pc > AtLock /\ job[q].call = "restore" /\ job[q].pc > AtLock
    /\ Target[Op(p)] = Target[Op(q)]
    => p = q

\* A stage on record follows the stages before it, and the promotion its generation.
LifeInv ==
  \A x \in All("life") :
    /\ x.n \in DOMAIN Stages
    /\ Of("plan", x.op) # {}
    /\ 1..(x.n - 1) \subseteq Journaled(x.op)
    /\ x.n >= 8 => generation[Target[x.op]] # None /\ generation[Target[x.op]].op = x.op

\* A staging directory is its restore's, planned and not yet promoted.
StagingInv ==
  \A r \in Restores : staging[r] # None => staging[r].op = r /\ Of("plan", r) # {}

\* A generation is a planned restore's, whole and verified; one that cannot be
\* reached is still under its target's lock.
GenerationInv ==
  \A t \in Range(Target) : generation[t] # None =>
    LET g == generation[t]
    IN /\ Target[g.op] = t /\ g.files = Whole /\ Of("plan", g.op) # {}
       /\ 1..7 \subseteq Journaled(g.op)
       /\ ~g.open => lock[t]
       /\ \A p \in Procs : job[p].call = "restore" /\ Op(p) = g.op /\ p = g.by => job[p].pc > AtRename

\* The set's decision of that number retains it, and is attested.
Retaining(S, b, n) == \E d \in S : d.ns = "retention" /\ d.op = b /\ d.n = n /\ d.ref = 0
Decided(S, b, n) == Retaining(S, b, n) /\ \E h \in S : h.ns = "head" /\ h.op = b /\ h.n = n

\* A restore is bound to such a decision, on the journal before its plan is put.
ReadInv ==
  \A p \in Procs : job[p].call = "restore" =>
    LET b == SetOf(Op(p))   n == job[p].ref
    IN /\ n # 0 => Retaining(targets, b, n)
       /\ job[p].pc > AtPlan \/ job[p].phase # "check" => Decided(targets, b, n)
       /\ job[p].pc > AtPlan \/ job[p].phase \in {"head", "target", "receipt"} => Decided(Range(journal), b, n)

\* So is each of its stages, after it.
FoundedInv ==
  \A j \in DOMAIN journal : journal[j].ns = "life" =>
    Decided(Prefix(j), SetOf(journal[j].op), PlanOf(journal[j].op).ref)

\* A restore that has observed the last decision, for a stage or for the promotion, was
\* not moved at any of its stages so far.
Observant(p) ==
  /\ job[p].call = "restore"
  /\ \/ job[p].phase # "check" /\ Step(p) \in Revalidated
     \/ job[p].pc > AtObserve /\ job[p].pc <= AtExpose
StageOf(j, r) == journal[j].ns = "life" /\ journal[j].op = r
ObservedInv ==
  \A p \in Procs : Observant(p) => \A j \in DOMAIN journal : StageOf(j, Op(p)) => Standing(Op(p), j)

\* The receipts of a backup follow its manifest, in order.
OrderInv ==
  \A i \in DOMAIN journal, pair \in {<<"manifest", "source">>, <<"source", "prior">>, <<"prior", "final">>} :
    journal[i].ns = pair[2] =>
      \E j \in 1..(i - 1) :
        /\ journal[j].ns = pair[1] /\ journal[j].op = journal[i].op
        /\ (IF pair[1] = "manifest" THEN journal[j].n ELSE journal[j].ref) = journal[i].ref

\* A backup has the receipts of its steps so far.
Done(ns, b) == {x \in Of(ns, b) : Receipted(x)}
BackedInv ==
  \A p \in Procs, b \in Backups : job[p].call = "backup" /\ Op(p) = b =>
    /\ job[p].pc > 4 => \E x \in Done("manifest", b) : x.n = job[p].ref
    /\ job[p].pc > 5 => \E x \in Done("source", b) : x.ref = job[p].ref
    /\ job[p].pc > 6 => \E x \in Done("prior", b) : x.ref = job[p].ref
    /\ job[p].pc > 7 => \E x \in Done("final", b) : x.ref = job[p].ref

\* A backup that has staged its object holds its temporary name, not linked yet.
TemporaryInv ==
  \A p \in Procs : job[p].call = "backup" /\ job[p].pc = 2 =>
    temporary[p] = [object |-> Content[Op(p)], linked |-> FALSE]

\* The last record of a backup follows the one before it; and that of a restore may await
\* its receipt only while the restore's lock is there.
LastInv ==
  /\ \A x \in All("final") : \E o \in Done("prior", x.op) : o.ref = x.ref
  /\ \A x \in All("life") : x.n = 10 /\ ~Receipted(x) => lock[Target[x.op]]

\* What was answered is so, and nobody runs the restore any more.
SaidInv ==
  /\ AnswersLast
  /\ \A r \in Restores, call \in {"restore", "restoreAgain"} : <<call, r>> \in said =>
       \A p \in Procs : job[p].call = "restore" /\ Op(p) = r => job[p].pc <= AtRename

IInv ==
  /\ TypeOK /\ JobInv /\ CodesInv /\ JournalInv /\ PendingInv /\ KindsInv /\ LeavesInv
  /\ RunnerInv /\ PlannedInv /\ StagedInv /\ ProgressInv /\ LocksInv /\ LifeInv /\ StagingInv /\ GenerationInv
  /\ ReadInv /\ FoundedInv /\ ObservedInv /\ MovementCancels /\ OrderInv /\ BackedInv /\ LastInv /\ TemporaryInv /\ SaidInv

-----------------------------------------------------------------------------
(* The tables of steps and stages.                                         *)

LEMMA RestoreTable ==
    LET s == Steps["restore"]
    IN /\ Len(s) = 22 /\ DOMAIN s = 1..22
       /\ s[1] = "plan" /\ s[2] = "names" /\ s[3] = "lock" /\ s[4] = "mkdir"
       /\ s[5] = "authorized" /\ s[6] = "staging_started" /\ s[7] = "copy"
       /\ s[8] = "bytes_reconstructed_inaccessible" /\ s[9] = "controls_revalidated"
       /\ s[10] = "controls" /\ s[11] = "controls_applied" /\ s[12] = "seal"
       /\ s[13] = "staged_state_verified" /\ s[14] = "promotion_started" /\ s[15] = "observe"
       /\ s[16] = "rename" /\ s[17] = "compare" /\ s[18] = "expose" /\ s[19] = "promoted"
       /\ s[20] = "post_promotion_verified" /\ s[21] = "completed" /\ s[22] = "unlock"
  BY DEF Steps

LEMMA SetTable ==
    LET s == Steps["backup"]
    IN /\ Len(s) = 8 /\ DOMAIN s = 1..8
       /\ s[1] = "stage" /\ s[2] = "publish" /\ s[3] = "retire" /\ s[4] = "manifest"
       /\ s[5] = "source" /\ s[6] = "prior" /\ s[7] = "final" /\ s[8] = "verify"
  BY DEF Steps

LEMMA OneStepTable ==
    /\ Len(Steps["retention"]) = 1 /\ DOMAIN Steps["retention"] = 1..1 /\ Steps["retention"][1] = "retention"
    /\ Len(Steps["attest"]) = 1 /\ DOMAIN Steps["attest"] = 1..1 /\ Steps["attest"][1] = "head"
    /\ Len(Steps["assess"]) = 1 /\ DOMAIN Steps["assess"] = 1..1 /\ Steps["assess"][1] = "assess"
    /\ Len(Steps["authorize"]) = 1 /\ DOMAIN Steps["authorize"] = 1..1 /\ Steps["authorize"][1] = "auth"
  BY DEF Steps

LEMMA AgainTable ==
    /\ Len(Steps["backupAgain"]) = 1 /\ DOMAIN Steps["backupAgain"] = 1..1 /\ Steps["backupAgain"][1] = "projection"
    /\ Len(Steps["restoreAgain"]) = 1 /\ DOMAIN Steps["restoreAgain"] = 1..1 /\ Steps["restoreAgain"][1] = "intact"
  BY DEF Steps

LEMMA StageTable ==
    /\ DOMAIN Stages = 1..10
    /\ Stages[1] = "authorized" /\ Stages[2] = "staging_started"
    /\ Stages[3] = "bytes_reconstructed_inaccessible" /\ Stages[4] = "controls_revalidated"
    /\ Stages[5] = "controls_applied" /\ Stages[6] = "staged_state_verified"
    /\ Stages[7] = "promotion_started" /\ Stages[8] = "promoted"
    /\ Stages[9] = "post_promotion_verified" /\ Stages[10] = "completed"
  BY DEF Stages

LEMMA StageAtTable ==
    /\ StageAt[1] = 5 /\ StageAt[2] = 6 /\ StageAt[3] = 8 /\ StageAt[4] = 9 /\ StageAt[5] = 11
    /\ StageAt[6] = 13 /\ StageAt[7] = 14 /\ StageAt[8] = 19 /\ StageAt[9] = 20 /\ StageAt[10] = 21
  BY DEF StageAt

LEMMA StageNumbers ==
    \A k \in 1..10 : Stage(Stages[k]) = k
<1>1. \A k \in 1..10 : Stages[k] \in Range(Stages)
  BY StageTable DEF Range
<1>2. \A j, k \in 1..10 : Stages[j] = Stages[k] => j = k
  BY StageTable
<1> QED
  BY <1>2, StageTable DEF Stage

LEMMA PromotionStage == Stage("promotion_started") = 7
  BY StageNumbers, StageTable

LEMMA StageRange ==
    /\ Range(Stages) = {"authorized", "staging_started", "bytes_reconstructed_inaccessible",
            "controls_revalidated", "controls_applied", "staged_state_verified",
            "promotion_started", "promoted", "post_promotion_verified", "completed"}
  BY StageTable DEF Range

-----------------------------------------------------------------------------
(* Where a call is.                                                        *)

\* A running restore is at the place of its step.
LEMMA RestorePlaces ==
    ASSUME JobInv, NEW p \in Procs, job[p].call = "restore"
    PROVE  /\ Running(p) /\ job[p].pc \in 1..22 /\ Op(p) \in Restores
           /\ Step(p) = Steps["restore"][job[p].pc]
           /\ Step(p) = "plan" <=> job[p].pc = 1
           /\ Step(p) = "names" <=> job[p].pc = 2
           /\ Step(p) = "lock" <=> job[p].pc = 3
           /\ Step(p) = "mkdir" <=> job[p].pc = 4
           /\ Step(p) = "copy" <=> job[p].pc = 7
           /\ Step(p) = "controls" <=> job[p].pc = 10
           /\ Step(p) = "seal" <=> job[p].pc = 12
           /\ Step(p) = "observe" <=> job[p].pc = 15
           /\ Step(p) = "rename" <=> job[p].pc = 16
           /\ Step(p) = "compare" <=> job[p].pc = 17
           /\ Step(p) = "expose" <=> job[p].pc = 18
           /\ Step(p) = "unlock" <=> job[p].pc = 22
           /\ Step(p) \in Range(Stages) <=> job[p].pc \in {5, 6, 8, 9, 11, 13, 14, 19, 20, 21}
           /\ Appends(p) <=> job[p].pc \in {1, 5, 6, 8, 9, 11, 13, 14, 19, 20, 21}
           /\ Step(p) \in Appending <=> job[p].pc \in {1, 5, 6, 8, 9, 11, 13, 14, 19, 20, 21}
<1>1. /\ Running(p) /\ job[p].pc \in 1..22 /\ Op(p) \in Restores
      /\ Step(p) = Steps["restore"][job[p].pc]
  BY RestoreTable DEF JobInv, Running, Step, SetCalls
<1> QED
  BY <1>1, RestoreTable, StageRange DEF Appends, Appending

\* A restore's stages are at their places.
LEMMA StagePlaces ==
    ASSUME JobInv, NEW p \in Procs, job[p].call = "restore"
    PROVE  /\ Step(p) \in Range(Stages) =>
                /\ Stage(Step(p)) \in DOMAIN Stages /\ job[p].pc = StageAt[Stage(Step(p))]
                /\ Stages[Stage(Step(p))] = Step(p)
           /\ \A n \in DOMAIN Stages : job[p].pc = StageAt[n] => Step(p) = Stages[n] /\ Stage(Step(p)) = n
<1>1. job[p].pc \in 1..22 /\ Step(p) = Steps["restore"][job[p].pc]
  BY RestorePlaces
<1>2. \A n \in DOMAIN Stages : job[p].pc = StageAt[n] => Step(p) = Stages[n]
  BY <1>1, RestoreTable, StageTable, StageAtTable
<1>3. Step(p) \in Range(Stages) => \E n \in DOMAIN Stages : job[p].pc = StageAt[n]
  <2> HAVE Step(p) \in Range(Stages)
  <2>1. job[p].pc \in {5, 6, 8, 9, 11, 13, 14, 19, 20, 21}
    BY RestorePlaces
  <2> QED
    BY <2>1, StageTable, StageAtTable
<1>4. \A n \in DOMAIN Stages : Stage(Stages[n]) = n
  BY StageNumbers, StageTable
<1> QED
  BY <1>2, <1>3, <1>4

LEMMA BackupPlaces ==
    ASSUME JobInv, NEW p \in Procs, job[p].call = "backup"
    PROVE  /\ Running(p) /\ job[p].pc \in 1..8 /\ Op(p) \in Backups
           /\ Step(p) = Steps["backup"][job[p].pc]
           /\ Step(p) = "stage" <=> job[p].pc = 1
           /\ Step(p) = "publish" <=> job[p].pc = 2
           /\ Step(p) = "retire" <=> job[p].pc = 3
           /\ Step(p) = "manifest" <=> job[p].pc = 4
           /\ Step(p) = "source" <=> job[p].pc = 5
           /\ Step(p) = "prior" <=> job[p].pc = 6
           /\ Step(p) = "final" <=> job[p].pc = 7
           /\ Step(p) = "verify" <=> job[p].pc = 8
           /\ Step(p) \notin Range(Stages)
           /\ Appends(p) <=> job[p].pc \in {4, 5, 6, 7}
<1>1. /\ Running(p) /\ job[p].pc \in 1..8 /\ Op(p) \in Backups
      /\ Step(p) = Steps["backup"][job[p].pc]
  BY SetTable DEF JobInv, Running, Step, SetCalls
<1> QED
  BY <1>1, SetTable, StageRange DEF Appends, Appending

LEMMA OneStepPlaces ==
    ASSUME JobInv, NEW p \in Procs, job[p].call \in {"retention", "attest", "assess", "authorize"}
    PROVE  /\ Running(p) /\ job[p].pc = 1 /\ Appends(p)
           /\ Step(p) = [retention |-> "retention", attest |-> "head", assess |-> "assess",
                         authorize |-> "auth"][job[p].call]
           /\ Len(Steps[job[p].call]) = 1
           /\ Op(p) \in IF job[p].call = "authorize" THEN Restores ELSE Backups
<1>1. job[p].pc \in DOMAIN Steps[job[p].call] /\ Step(p) = Steps[job[p].call][job[p].pc] /\ Running(p)
  BY DEF JobInv, Running, Step
<1>2. job[p].pc = 1
  BY <1>1, OneStepTable
<1>3. Step(p) = [retention |-> "retention", attest |-> "head", assess |-> "assess",
                 authorize |-> "auth"][job[p].call]
  BY <1>1, <1>2, OneStepTable
<1>4. Step(p) \in Appending
  BY <1>3 DEF Appending
<1> QED
  BY <1>1, <1>2, <1>3, <1>4, OneStepTable DEF Appends, JobInv, SetCalls

LEMMA AgainPlaces ==
    ASSUME JobInv, NEW p \in Procs, job[p].call \in Again
    PROVE  /\ Running(p) /\ job[p].pc = 1 /\ ~Appends(p) /\ Step(p) \notin Range(Stages)
           /\ Step(p) = IF job[p].call = "backupAgain" THEN "projection" ELSE "intact"
           /\ Len(Steps[job[p].call]) = 1
           /\ Op(p) \in IF job[p].call = "backupAgain" THEN Backups ELSE Restores
<1>1. job[p].pc \in DOMAIN Steps[job[p].call] /\ Step(p) = Steps[job[p].call][job[p].pc] /\ Running(p)
  BY DEF JobInv, Running, Step, Again
<1>2. job[p].pc = 1
  BY <1>1, AgainTable DEF Again
<1>3. Step(p) = IF job[p].call = "backupAgain" THEN "projection" ELSE "intact"
  BY <1>1, <1>2, AgainTable DEF Again
<1>4. Step(p) \notin Appending \cup Range(Stages)
  BY <1>3, StageRange DEF Appending
<1> QED
  BY <1>1, <1>2, <1>3, <1>4, AgainTable DEF Appends, JobInv, SetCalls, Again

\* A step belongs to one call.
LEMMA StepCalls ==
    ASSUME TypeOK, JobInv, NEW p \in Procs, Running(p)
    PROVE  /\ Step(p) \in {"manifest", "source", "prior", "final"} => job[p].call = "backup"
           /\ Step(p) = "retention" <=> job[p].call = "retention"
           /\ Step(p) = "head" <=> job[p].call = "attest"
           /\ Step(p) = "assess" <=> job[p].call = "assess"
           /\ Step(p) = "auth" <=> job[p].call = "authorize"
           /\ Step(p) \in Range(Stages) \cup {"plan"} => job[p].call = "restore"
           /\ job[p].call \in CallNames /\ Op(p) \in Backups \cup Restores
<1>1. job[p].call \in CallNames
  BY DEF TypeOK, Jobs, Running
<1>2. Op(p) \in Backups \cup Restores
  BY <1>1 DEF JobInv
<1>3. CASE job[p].call = "backup"
  <2>1. job[p].pc \in 1..8 /\ Step(p) = Steps["backup"][job[p].pc]
    BY <1>3, BackupPlaces
  <2> QED
    BY <1>1, <1>2, <1>3, <2>1, SetTable, StageRange
<1>4. CASE job[p].call = "restore"
  <2>1. job[p].pc \in 1..22 /\ Step(p) = Steps["restore"][job[p].pc]
    BY <1>4, RestorePlaces
  <2> QED
    BY <1>1, <1>2, <1>4, <2>1, RestoreTable
<1>5. CASE job[p].call \in {"retention", "attest", "assess", "authorize"}
  BY <1>1, <1>2, <1>5, OneStepPlaces, StageRange
<1>6. CASE job[p].call \in Again
  BY <1>1, <1>2, <1>6, AgainPlaces, StageRange DEF Again
<1> QED
  BY <1>1, <1>3, <1>4, <1>5, <1>6 DEF CallNames

-----------------------------------------------------------------------------
(* Records that are sealed.                                                *)

LEMMA LeafMember ==
    ASSUME NEW S, S \subseteq Records, HasLast(S), S # {}
    PROVE  Leaf(S) \in S /\ Leaf(S).n \in Nat
<1>1. Leaf(S) \in S
  BY DEF Leaf, HasLast
<1> QED
  BY <1>1 DEF Records

LEMMA NextNumber ==
    ASSUME NEW S, S \subseteq Records, HasLast(S)
    PROVE  NextIn(S) \in Nat
  BY LeafMember DEF NextIn

\* The record that a step seals is its own.
LEMMA SealedRecord ==
    ASSUME TypeOK, JobInv, LeavesInv, NEW p \in Procs, Appends(p)
    PROVE  /\ Sealed(p) \in Records
           /\ Sealed(p).ns = NamespaceOf(Step(p)) /\ Sealed(p).op = Op(p)
           /\ Step(p) \in Range(Stages) => Sealed(p).n = Stage(Step(p))
           /\ Step(p) \notin Range(Stages) \cup {"head"} => Sealed(p).ref = job[p].ref
           /\ Step(p) \in {"auth", "plan"} => Sealed(p).n = 0
<1>1. Running(p) /\ Step(p) \in Appending
  BY DEF Appends
<1>2. Op(p) \in Backups \cup Restores /\ job[p].ref \in Nat
  BY <1>1, StepCalls DEF TypeOK, Jobs
<1>3. CASE Step(p) \in Range(Stages)
  <2>1. Stage(Step(p)) \in DOMAIN Stages
    BY <1>1, <1>3, StepCalls, StagePlaces
  <2>2. Sealed(p) = Rec("life", Op(p), Stage(Step(p)), 0)
    BY <1>3, StageRange DEF Sealed
  <2> QED
    BY <1>2, <1>3, <2>1, <2>2, StageTable, StageRange DEF Rec, Records, Namespaces, NamespaceOf
<1>4. CASE Step(p) \in {"source", "prior", "final", "auth", "plan", "head"}
  <2>1. Step(p) \notin Range(Stages)
    BY <1>4, StageRange
  <2>2. \E n, ref \in Nat :
          /\ Sealed(p) = Rec(Step(p), Op(p), n, ref)
          /\ Step(p) # "head" => ref = job[p].ref
          /\ Step(p) \in {"auth", "plan"} => n = 0
    <3>1. CASE Step(p) = "source"
      BY <1>2, <3>1 DEF Sealed
    <3>2. CASE Step(p) \in {"prior", "final"}
      BY <1>2, <3>2 DEF Sealed
    <3>3. CASE Step(p) \in {"auth", "plan"}
      BY <1>2, <3>3 DEF Sealed
    <3>4. CASE Step(p) = "head"
      BY <1>2, <3>4 DEF Sealed
    <3> QED
      BY <1>4, <3>1, <3>2, <3>3, <3>4
  <2>3. PICK n \in Nat, ref \in Nat :
          /\ Sealed(p) = Rec(Step(p), Op(p), n, ref)
          /\ Step(p) # "head" => ref = job[p].ref
          /\ Step(p) \in {"auth", "plan"} => n = 0
    BY <2>2
  <2>4. Step(p) \in Namespaces /\ NamespaceOf(Step(p)) = Step(p)
    BY <1>4, <2>1 DEF Namespaces, NamespaceOf
  <2> QED
    BY <1>2, <1>4, <2>1, <2>3, <2>4 DEF Rec, Records
<1>5. CASE Step(p) = "manifest"
  <2>1. NextIn(All("manifest")) \in Nat
    BY NextNumber DEF LeavesInv, TypeOK, All
  <2>2. Sealed(p) = Rec("manifest", Op(p), NextIn(All("manifest")), job[p].ref)
    BY <1>5 DEF Sealed
  <2> QED
    BY <1>2, <1>5, <2>1, <2>2, StageRange DEF Rec, Records, Namespaces, NamespaceOf
<1>6. CASE Step(p) \in {"retention", "assess"}
  <2>1. Op(p) \in Backups
    BY <1>1, <1>6, StepCalls DEF JobInv, SetCalls
  <2>2. NextIn(Of(Step(p), Op(p))) \in Nat
    <3>1. Of(Step(p), Op(p)) \subseteq Records /\ HasLast(Of(Step(p), Op(p)))
      BY <1>6, <2>1 DEF LeavesInv, TypeOK, Of
    <3> QED
      BY <3>1, NextNumber
  <2>3. Sealed(p) = Rec(Step(p), Op(p), NextIn(Of(Step(p), Op(p))), job[p].ref)
    BY <1>6 DEF Sealed
  <2> QED
    BY <1>2, <1>6, <2>2, <2>3, StageRange DEF Rec, Records, Namespaces, NamespaceOf
<1> QED
  BY <1>1, <1>3, <1>4, <1>5, <1>6 DEF Appending

-----------------------------------------------------------------------------
(* The kinds of steps.                                                     *)

Started(p) ==
  /\ job[p] = Idle
  /\ \E call \in CallNames, op \in Backups \cup Restores, ref \in Nat :
       /\ job' = [job EXCEPT ![p].call = call, ![p].op = op, ![p].ref = ref]
       /\ op \in IF call \in SetCalls THEN Backups ELSE Restores
       /\ call = "authorize" => \E m \in All("manifest") : m.n = ref
       /\ call = "restore" => ref = 0 /\ Of("plan", op) = {} /\ Of("auth", op) # {}
       /\ call = "backupAgain" => \E m \in Of("manifest", op) : m.n = ref
  /\ UNCHANGED <<historyVars, stores, roots, said>>

\* restore reads the retention leaf.
Decides(p) ==
  /\ At(p, "restore", "plan") /\ job[p].phase = "check"
  /\ \E n \in Nat : Retaining(targets, SetOf(Op(p)), n) /\ job' = [job EXCEPT ![p].ref = n]
  /\ UNCHANGED <<historyVars, stores, roots, said>>

\* A call gets ready to put its record.
Prepares(p) == Decides(p) \/ AppendSeal(p) \/ AppendCheck(p) \/ AppendHead(p)

Passed(p) == Works(p) /\ Running(p) /\ ~Appends(p) /\ Advance(p) /\ UNCHANGED historyVars

Stopped(p) ==
  /\ job[p] # Idle
  /\ \E call \in {"idle", "down"} : job' = [job EXCEPT ![p] = [Idle EXCEPT !.call = call]]
  /\ \/ UNCHANGED historyVars
     \/ job[p].phase = "target" /\ PutTarget(job[p].rec) /\ UNCHANGED journal
     \/ job[p].phase = "receipt" /\ PutReceipt(job[p].rec, job[p].head) /\ UNCHANGED targets
  /\ UNCHANGED <<objects, lock, said>>
  /\ UNCHANGED <<staging, generation>> \/ (Running(p) /\ Finally(p))
  /\ temporary' \in {temporary, [temporary EXCEPT ![p] = None]}

Idles == UNCHANGED <<historyVars, stores, roots, job, said>>

Kinds(p) ==
  \/ Started(p) \/ Prepares(p) \/ AppendTarget(p) \/ AppendReceipt(p)
  \/ Passed(p) \/ Stopped(p)

\* The job of a call at its next step.
LEMMA JobMoves ==
    ASSUME NEW j \in Jobs, NEW ref \in Nat
    PROVE  LET k == [j EXCEPT !.pc = @ + 1, !.phase = "check", !.rec = None, !.ref = ref]
           IN /\ k \in Jobs
              /\ k.call = j.call /\ k.op = j.op /\ k.pc = j.pc + 1 /\ k.phase = "check" /\ k.ref = ref
<1>1. j.pc + 1 \in Nat
  BY DEF Jobs
<1>2. [j EXCEPT !.pc = @ + 1] \in Jobs
  BY <1>1 DEF Jobs
<1> DEFINE k1 == [j EXCEPT !.pc = @ + 1]
<1>3. k1 \in Jobs /\ k1.pc = j.pc + 1 /\ k1.call = j.call /\ k1.op = j.op
  BY <1>2 DEF Jobs
<1> DEFINE k2 == [k1 EXCEPT !.phase = "check"]
<1> HIDE DEF k1
<1>4. k2 \in Jobs /\ k2.phase = "check" /\ k2.pc = k1.pc /\ k2.call = k1.call /\ k2.op = k1.op
  BY <1>3 DEF Jobs
<1> DEFINE k3 == [k2 EXCEPT !.rec = None]
<1> HIDE DEF k2
<1>5. k3 \in Jobs /\ k3.phase = "check" /\ k3.pc = k2.pc /\ k3.call = k2.call /\ k3.op = k2.op
  BY <1>4 DEF Jobs
<1> DEFINE k4 == [k3 EXCEPT !.ref = ref]
<1> HIDE DEF k3
<1>6. k4 \in Jobs /\ k4.phase = "check" /\ k4.pc = k3.pc /\ k4.call = k3.call /\ k4.op = k3.op /\ k4.ref = ref
  BY <1>5 DEF Jobs
<1>7. k4 = [j EXCEPT !.pc = @ + 1, !.phase = "check", !.rec = None, !.ref = ref]
  BY DEF k1, k2, k3, k4
<1> QED
  BY <1>3, <1>4, <1>5, <1>6, <1>7

\* A step that is done leaves its call at the next one, or idle with its answer given.
LEMMA Advances ==
    ASSUME TypeOK, JobInv, NEW p \in Procs, Running(p), Advance(p),
           Step(p) = "manifest" => job[p].rec \in Records
    PROVE  /\ job' \in [Procs -> Jobs]
           /\ \A q \in Procs \ {p} : job'[q] = job[q]
           /\ \/ /\ job[p].pc = Len(Steps[job[p].call]) /\ job'[p] = Idle
                 /\ said' = said \cup {<<job[p].call, Op(p)>>}
              \/ /\ job[p].pc # Len(Steps[job[p].call]) /\ said' = said
                 /\ job'[p].call = job[p].call /\ job'[p].op = job[p].op /\ job'[p].pc = job[p].pc + 1
                 /\ job'[p].phase = "check"
                 /\ job'[p].ref = IF Step(p) = "manifest" THEN job[p].rec.n ELSE job[p].ref
<1>1. job[p] \in Jobs /\ job \in [Procs -> Jobs] /\ job[p].pc \in Nat
  BY DEF TypeOK, Jobs
<1>2. CASE job[p].pc = Len(Steps[job[p].call])
  <2>1. job' = [job EXCEPT ![p] = Idle] /\ said' = said \cup {<<job[p].call, Op(p)>>}
    BY <1>2 DEF Advance, Ends
  <2>2. Idle \in Jobs
    BY DEF Idle, Jobs
  <2> QED
    BY <1>1, <1>2, <2>1, <2>2
<1>3. CASE job[p].pc # Len(Steps[job[p].call])
  <2> DEFINE ref == IF Step(p) = "manifest" THEN job[p].rec.n ELSE job[p].ref
             k == [job[p] EXCEPT !.pc = @ + 1, !.phase = "check", !.rec = None, !.ref = ref]
  <2>1. ref \in Nat
    BY <1>1 DEF Jobs, Records
  <2>2. said' = said /\ job' = [job EXCEPT ![p] = k]
    BY <1>1, <1>3 DEF Advance, Jobs
  <2> HIDE DEF ref
  <2>3. /\ k \in Jobs /\ k.call = job[p].call /\ k.op = job[p].op /\ k.pc = job[p].pc + 1
        /\ k.phase = "check" /\ k.ref = ref
    BY <1>1, <2>1, JobMoves
  <2> HIDE DEF k
  <2> QED
    BY <1>1, <1>3, <2>2, <2>3 DEF ref
<1> QED
  BY <1>2, <1>3

LEMMA IdleForms == [Idle EXCEPT !.call = "idle"] = Idle /\ Idle.call = "idle" /\ Idle.pc = 1 /\ Idle.phase = "check"
  BY DEF Idle

LEMMA RunningJob ==
    ASSUME NEW p, Running(p)
    PROVE  job[p] # Idle
  BY IdleForms DEF Running

LEMMA CallKinds ==
    ASSUME TypeOK, KindsInv, LeavesInv, NEW p \in Procs, Calls(p)
    PROVE  Started(p)
<1>0. job[p] = Idle
  BY DEF Calls
<1>1. ASSUME NEW b \in Backups, NEW call \in SetCalls \ {"backupAgain"}, NEW ref \in Nat, Begins(p, call, b, ref),
             UNCHANGED <<historyVars, stores, roots, said>>
      PROVE  Started(p)
  BY <1>0, <1>1 DEF Started, Begins, SetCalls, CallNames
<1>r. ASSUME NEW r \in Restores, NEW call \in CallNames \ SetCalls, NEW ref \in Nat, Begins(p, call, r, ref),
             call = "authorize" => \E m \in All("manifest") : m.n = ref,
             call = "restore" => ref = 0 /\ Of("plan", r) = {} /\ Of("auth", r) # {},
             UNCHANGED <<historyVars, stores, roots, said>>
      PROVE  Started(p)
  <2>1. /\ r \in (IF call \in SetCalls THEN Backups ELSE Restores)
        /\ call # "backupAgain"
    BY <1>r DEF SetCalls
  <2>2. job' = [job EXCEPT ![p].call = call, ![p].op = r, ![p].ref = ref]
    BY <1>r DEF Begins
  <2> QED
    BY <1>0, <1>r, <2>1, <2>2 DEF Started
<1>2. CASE CallBackup(p)
  BY <1>1, <1>2 DEF CallBackup, TypeOK, SetCalls
<1>3. CASE CallRetention(p)
  BY <1>1, <1>3 DEF CallRetention, SetCalls
<1>4. CASE CallAttest(p)
  BY <1>1, <1>4 DEF CallAttest, SetCalls, TypeOK, Records, All
<1>5. CASE CallAssess(p)
  BY <1>1, <1>5 DEF CallAssess, SetCalls
<1>6. CASE CallAuthorize(p)
  <2>1. PICK r \in Restores, m \in All("manifest") : Begins(p, "authorize", r, m.n)
    BY <1>6 DEF CallAuthorize
  <2>2. m.n \in Nat
    BY DEF All, TypeOK, Records
  <2>3. UNCHANGED <<historyVars, stores, roots, said>>
    BY <1>6 DEF CallAuthorize
  <2> QED
    BY <1>r, <2>1, <2>2, <2>3 DEF SetCalls, CallNames
<1>7. CASE CallRestore(p)
  <2>1. PICK r \in Restores : Of("plan", r) = {} /\ Of("auth", r) # {} /\ Begins(p, "restore", r, 0)
    BY <1>7 DEF CallRestore, Restorable
  <2>2. UNCHANGED <<historyVars, stores, roots, said>>
    BY <1>7 DEF CallRestore
  <2> QED
    BY <1>r, <2>1, <2>2 DEF SetCalls, CallNames
<1>8. CASE CallBackupAgain(p)
  <2>1. PICK m \in All("manifest") : Begins(p, "backupAgain", m.op, m.n)
    BY <1>8 DEF CallBackupAgain
  <2>2. m.n \in Nat /\ m.op \in Backups /\ m \in Of("manifest", m.op)
    BY DEF All, Of, TypeOK, Records, KindsInv
  <2>3. UNCHANGED <<historyVars, stores, roots, said>>
    BY <1>8 DEF CallBackupAgain
  <2> QED
    BY <1>0, <2>1, <2>2, <2>3 DEF Started, Begins, SetCalls, CallNames, Again
<1>9. CASE CallRestoreAgain(p)
  <2>1. PICK r \in Restores : Begins(p, "restoreAgain", r, 0)
    BY <1>9 DEF CallRestoreAgain
  <2>2. UNCHANGED <<historyVars, stores, roots, said>>
    BY <1>9 DEF CallRestoreAgain
  <2> QED
    BY <1>r, <2>1, <2>2 DEF SetCalls, CallNames, Again
<1> QED
  BY <1>2, <1>3, <1>4, <1>5, <1>6, <1>7, <1>8, <1>9 DEF Calls

\* What an append that goes on has checked.
LEMMA AppendAllowed ==
    ASSUME NEW p \in Procs, Appends(p), Allowed(p)
    PROVE  /\ job[p].phase = "check" => Ready(p)
           /\ job[p].phase = "whole" => Appendable(job[p].rec)
<1>1. Step(p) \notin {"retire", "verify", "projection", "intact", "names", "lock", "mkdir", "copy", "seal", "observe", "compare", "rename"}
  BY StageRange DEF Appends, Appending
<1> QED
  BY <1>1 DEF Allowed

\* What a step has to be ready.
LEMMA ReadyParts ==
    ASSUME NEW p \in Procs, Ready(p)
    PROVE  /\ Step(p) = "plan" =>
                /\ job[p].ref = 0 => Retains(SetOf(Op(p)))
                /\ job[p].ref # 0 => Attested(SetOf(Op(p)), job[p].ref) /\ Eligible(SetOf(Op(p)))
           /\ Step(p) \in Revalidated => Unmoved(p)
<1>1. Step(p) \in Revalidated => Step(p) \notin {"manifest", "plan"}
  BY DEF Revalidated
<1> QED
  BY <1>1 DEF Ready

\* A leaf that retains its set is a decision there is.
LEMMA DecisionRead ==
    ASSUME TypeOK, KindsInv, LeavesInv, NEW p \in Procs, ReadRetention(p)
    PROVE  Decides(p)
<1> DEFINE S == Of("retention", SetOf(Op(p)))   n == Leaf(S).n
<1>1. /\ At(p, "restore", "plan") /\ job[p].phase = "check" /\ job[p].ref = 0 /\ Allowed(p)
      /\ job' = [job EXCEPT ![p].ref = n] /\ UNCHANGED <<historyVars, stores, roots, said>>
  BY DEF ReadRetention
<1>2. Step(p) = "plan" /\ Appends(p)
  BY <1>1 DEF At, Appends, Running, Appending
<1>3. S # {} /\ Leaf(S).ref = 0
  BY <1>1, <1>2, AppendAllowed, ReadyParts DEF Retains
<1>4. SetOf(Op(p)) \in Backups
  BY <1>3 DEF Of, KindsInv
<1>5. Leaf(S) \in S /\ n \in Nat
  <2>1. S \subseteq Records /\ HasLast(S)
    BY <1>4 DEF LeavesInv, TypeOK, Of
  <2> QED
    BY <1>3, <2>1, LeafMember
<1>6. Retaining(targets, SetOf(Op(p)), n)
  BY <1>3, <1>5 DEF Retaining, Of
<1> QED
  BY <1>1, <1>5, <1>6 DEF Decides

LEMMA WorkKinds ==
    ASSUME TypeOK, KindsInv, LeavesInv, NEW p \in Procs, Works(p)
    PROVE  Prepares(p) \/ AppendTarget(p) \/ AppendReceipt(p) \/ Passed(p)
<1>1. \A call, step : At(p, call, step) /\ call \in {"backup", "restore"} \cup Again /\ step \notin Appending
                        => Running(p) /\ ~Appends(p)
  BY DEF At, Running, Appends, Again
<1>2. \A step \in {"stage", "publish", "retire", "verify", "projection", "intact", "names", "lock", "mkdir", "copy", "controls",
                   "seal", "observe", "rename", "compare", "expose", "unlock"} : step \notin Appending
  BY StageRange DEF Appending
<1>3. ASSUME NEW step \in {"names", "lock", "mkdir", "copy", "controls",
                   "seal", "observe", "rename", "compare", "expose", "unlock"}, OnRoots(p, step)
      PROVE  Passed(p)
  BY <1>1, <1>2, <1>3 DEF OnRoots, Passed, historyVars
<1>4. CASE StageObject(p)
  BY <1>1, <1>2, <1>4 DEF StageObject, Passed, historyVars
<1>5. CASE PublishObject(p)
  BY <1>1, <1>2, <1>5 DEF PublishObject, Passed, historyVars
<1>6. CASE RetireTemporary(p)
  BY <1>1, <1>2, <1>6 DEF RetireTemporary, Passed, historyVars
<1>7. CASE VerifyBackup(p)
  BY <1>1, <1>2, <1>7 DEF VerifyBackup, Passed, historyVars
<1>9. CASE VerifyAgain(p)
  BY <1>1, <1>2, <1>9 DEF VerifyAgain, Passed, historyVars, Again
<1>8. CASE \/ CheckNames(p) \/ TakeLock(p) \/ MakeStaging(p) \/ CopyBytes(p) \/ WriteControls(p)
           \/ SealStaging(p) \/ Observe(p) \/ Promote(p) \/ Compare(p) \/ Expose(p) \/ ReleaseLock(p)
  BY <1>3, <1>8 DEF CheckNames, TakeLock, MakeStaging, CopyBytes, WriteControls, SealStaging, Observe,
                    Promote, Compare, Expose, ReleaseLock
<1> QED
  BY <1>4, <1>5, <1>6, <1>7, <1>8, <1>9, DecisionRead DEF Works, Prepares

LEMMA EndKinds ==
    ASSUME NEW p \in Procs, Refused(p) \/ Fail(p) \/ Kill(p) \/ Restart(p)
    PROVE  Stopped(p)
<1>1. CASE Refused(p) \/ Fail(p)
  <2>1. Running(p) /\ Throws(p)
    BY <1>1 DEF Refused, Fail
  <2>2. /\ job' = [job EXCEPT ![p] = [Idle EXCEPT !.call = "idle"]]
        /\ UNCHANGED <<objects, lock, said>> /\ Finally(p)
        /\ temporary' = [temporary EXCEPT ![p] = None]
    BY <2>1, IdleForms DEF Throws, Ends
  <2>3. \/ UNCHANGED historyVars
        \/ job[p].phase = "target" /\ PutTarget(job[p].rec) /\ UNCHANGED journal
        \/ job[p].phase = "receipt" /\ PutReceipt(job[p].rec, job[p].head) /\ UNCHANGED targets
    BY <1>1 DEF Refused, Fail
  <2> QED
    BY <2>1, <2>2, <2>3, RunningJob DEF Stopped
<1>2. CASE Kill(p)
  <2>1. job[p] # Idle /\ job' = [job EXCEPT ![p] = [Idle EXCEPT !.call = "down"]]
    BY <1>2, RunningJob DEF Kill
  <2>2. UNCHANGED historyVars /\ UNCHANGED <<objects, lock, said>> /\ UNCHANGED <<staging, generation>>
        /\ temporary' \in {temporary, [temporary EXCEPT ![p] = None]}
    BY <1>2 DEF Kill, stores, roots
  <2> QED
    BY <2>1, <2>2 DEF Stopped
<1>3. CASE Restart(p)
  <2>1. job[p] # Idle /\ job' = [job EXCEPT ![p] = [Idle EXCEPT !.call = "idle"]]
    BY <1>3, IdleForms DEF Restart, Ends
  <2>2. UNCHANGED historyVars /\ UNCHANGED <<objects, lock, said>> /\ UNCHANGED <<staging, generation>>
        /\ temporary' \in {temporary, [temporary EXCEPT ![p] = None]}
    BY <1>3 DEF Restart, stores, roots
  <2> QED
    BY <2>1, <2>2 DEF Stopped
<1> QED
  BY <1>1, <1>2, <1>3

\* A step is of one of these kinds.
LEMMA NextKinds ==
    ASSUME TypeOK, KindsInv, LeavesInv, BackupNext
    PROVE  Idles \/ \E p \in Procs : Kinds(p)
<1>1. CASE Block \/ MoveSource
  BY <1>1 DEF Block, MoveSource, Idles
<1>2. CASE \E p \in Procs : Calls(p) \/ Works(p) \/ Refused(p) \/ Fail(p) \/ Kill(p) \/ Restart(p)
  BY <1>2, CallKinds, WorkKinds, EndKinds DEF Kinds
<1> QED
  BY <1>1, <1>2 DEF BackupNext

-----------------------------------------------------------------------------
(* What a step does to the roots.                                          *)

RootSteps(p) ==
  \/ TakeLock(p) \/ MakeStaging(p) \/ CopyBytes(p) \/ WriteControls(p) \/ SealStaging(p)
  \/ Promote(p) \/ Expose(p) \/ ReleaseLock(p)

Shuts(p) ==
  /\ job[p].call = "restore" /\ Step(p) # "unlock" /\ lock' = lock
  /\ staging' = [r \in Restores |-> Shut(p, staging[r])]
  /\ generation' = [t \in DOMAIN generation |-> Shut(p, generation[t])]

\* A root step is a restore's at its place.
LEMMA RootPlaces ==
    ASSUME JobInv, NEW p \in Procs, RootSteps(p)
    PROVE  /\ job[p].call = "restore" /\ Op(p) \in Restores /\ Passed(p) /\ Running(p)
           /\ UNCHANGED <<historyVars, stores>>
           /\ TakeLock(p) => job[p].pc = 3
           /\ MakeStaging(p) => job[p].pc = 4
           /\ CopyBytes(p) => job[p].pc = 7
           /\ WriteControls(p) => job[p].pc = 10
           /\ SealStaging(p) => job[p].pc = 12
           /\ Promote(p) => job[p].pc = 16
           /\ Expose(p) => job[p].pc = 18
           /\ ReleaseLock(p) => job[p].pc = 22
<1>1. PICK step \in {"lock", "mkdir", "copy", "controls", "seal", "rename", "expose", "unlock"} :
        /\ OnRoots(p, step)
        /\ TakeLock(p) => At(p, "restore", "lock")
        /\ MakeStaging(p) => At(p, "restore", "mkdir")
        /\ CopyBytes(p) => At(p, "restore", "copy")
        /\ WriteControls(p) => At(p, "restore", "controls")
        /\ SealStaging(p) => At(p, "restore", "seal")
        /\ Promote(p) => At(p, "restore", "rename")
        /\ Expose(p) => At(p, "restore", "expose")
        /\ ReleaseLock(p) => At(p, "restore", "unlock")
  BY DEF RootSteps, TakeLock, MakeStaging, CopyBytes, WriteControls, SealStaging, Promote, Expose,
         ReleaseLock, OnRoots
<1>2. job[p].call = "restore" /\ Step(p) = step /\ Advance(p) /\ UNCHANGED <<historyVars, stores>>
  BY <1>1 DEF OnRoots, At
<1>3. Step(p) \notin Appending
  BY <1>2, StageRange DEF Appending
<1>4. Running(p) /\ ~Appends(p) /\ Op(p) \in Restores
  BY <1>2, <1>3, RestorePlaces DEF Appends
<1>5. Passed(p)
  BY <1>2, <1>4 DEF Passed, historyVars, RootSteps, Works
<1> QED
  BY <1>1, <1>2, <1>4, <1>5, RestorePlaces DEF At

\* A step that passes appends nothing.
LEMMA PassedParts ==
    ASSUME NEW p \in Procs, Passed(p)
    PROVE  /\ ~ReadRetention(p) /\ ~AppendSeal(p) /\ ~AppendCheck(p) /\ ~AppendHead(p)
           /\ ~AppendTarget(p) /\ ~AppendReceipt(p) /\ ~Prepares(p)
<1>1. ~Appends(p) /\ Running(p)
  BY DEF Passed
<1>2. ~At(p, "restore", "plan")
  BY <1>1 DEF At, Appends, Appending
<1> QED
  BY <1>1, <1>2 DEF ReadRetention, AppendSeal, AppendCheck, AppendHead, AppendTarget, AppendReceipt, Prepares, Decides

\* A step changes the roots at its place, or shuts what its call holds open.
LEMMA RootKinds ==
    ASSUME JobInv, NEW p \in Procs, Kinds(p)
    PROVE  \/ /\ UNCHANGED <<staging, generation, lock>>
              /\ Passed(p) /\ job[p].call = "restore" => job[p].pc \notin {3, 4, 7, 10, 12, 16, 18, 22}
           \/ RootSteps(p)
           \/ Shuts(p) /\ Stopped(p)
<1>1. CASE ~Passed(p) /\ (Started(p) \/ Prepares(p) \/ AppendTarget(p) \/ AppendReceipt(p))
  <2>1. UNCHANGED roots
    BY <1>1 DEF Started, Prepares, Decides, AppendSeal, AppendCheck, AppendHead, AppendTarget, AppendReceipt
  <2> QED
    BY <1>1, <2>1 DEF roots
<1>2. CASE ~Passed(p) /\ Stopped(p)
  <2>1. lock' = lock /\ (UNCHANGED <<staging, generation>> \/ Finally(p))
    BY <1>2 DEF Stopped
  <2> QED
    BY <1>2, <2>1 DEF Finally, Shuts
<1>3. CASE Passed(p)
  <2>1. CASE RootSteps(p)
    BY <2>1
  <2>2. CASE CheckNames(p) \/ Observe(p) \/ Compare(p)
    <3>1. Step(p) \in {"names", "observe", "compare"} /\ UNCHANGED roots /\ job[p].call = "restore"
      BY <2>2 DEF CheckNames, Observe, Compare, OnRoots, At
    <3> QED
      BY <3>1, RestorePlaces DEF roots
  <2>3. CASE StageObject(p) \/ PublishObject(p) \/ RetireTemporary(p) \/ VerifyBackup(p) \/ VerifyAgain(p)
    BY <2>3 DEF StageObject, PublishObject, RetireTemporary, VerifyBackup, VerifyAgain, At, roots
  <2>4. CASE \/ ReadRetention(p) \/ AppendSeal(p) \/ AppendCheck(p) \/ AppendHead(p)
             \/ AppendTarget(p) \/ AppendReceipt(p)
    BY <1>3, <2>4, PassedParts
  <2> QED
    BY <1>3, <2>1, <2>2, <2>3, <2>4 DEF Passed, Works, RootSteps
<1> QED
  BY <1>1, <1>2, <1>3 DEF Kinds

LEMMA TargetRange == \A r \in Restores : Target[r] \in Range(Target)
<1>1. Restores = DOMAIN Target
  BY PlacesAssumption
<1> QED
  BY <1>1 DEF Range

LEMMA ContentRange == \A b \in Backups : Content[b] \in Range(Content)
<1>1. Backups = DOMAIN Content
  BY PlacesAssumption
<1> QED
  BY <1>1 DEF Range

LEMMA ShutDirectory ==
    ASSUME NEW p, NEW dir \in Directories \cup {None}
    PROVE  /\ Shut(p, dir) \in Directories \cup {None}
           /\ Shut(p, dir) = None <=> dir = None
           /\ dir # None => /\ Shut(p, dir).op = dir.op /\ Shut(p, dir).by = dir.by
                            /\ Shut(p, dir).files = dir.files
                            /\ Shut(p, dir).open => dir.open
                            /\ dir.by # p \/ dir.op # Op(p) => Shut(p, dir) = dir
<1>1. CASE dir = None
  BY <1>1 DEF Shut
<1>2. CASE dir # None
  <2>1. dir \in Directories /\ [dir EXCEPT !.open = FALSE] \in Directories
    BY <1>2 DEF Directories
  <2>2. None \notin Directories
    BY NoneIsNothing
  <2> QED
    BY <1>2, <2>1, <2>2 DEF Shut, Directories
<1> QED
  BY <1>1, <1>2

LEMMA RootTypes ==
    ASSUME TypeOK, JobInv, ProgressInv, NEW p \in Procs, Kinds(p)
    PROVE  /\ staging' \in [Restores -> Directories \cup {None}]
           /\ generation' \in [Range(Target) -> Directories \cup {None}]
           /\ lock' \in [Range(Target) -> BOOLEAN]
<1>0. /\ staging \in [Restores -> Directories \cup {None}]
      /\ generation \in [Range(Target) -> Directories \cup {None}]
      /\ lock \in [Range(Target) -> BOOLEAN]
  BY DEF TypeOK
<1>1. CASE UNCHANGED <<staging, generation, lock>>
  BY <1>0, <1>1
<1>2. CASE Shuts(p)
  BY <1>0, <1>2, ShutDirectory DEF Shuts
<1>3. CASE RootSteps(p)
  <2>1. job[p].call = "restore" /\ Op(p) \in Restores /\ Target[Op(p)] \in Range(Target)
    BY <1>3, RootPlaces, TargetRange
  <2>2. CASE TakeLock(p) \/ ReleaseLock(p)
    BY <1>0, <2>1, <2>2 DEF TakeLock, ReleaseLock
  <2>3. CASE MakeStaging(p)
    <3>1. [op |-> Op(p), by |-> p, files |-> {}, open |-> TRUE] \in Directories
      BY <2>1 DEF Directories
    <3> QED
      BY <1>0, <2>1, <2>3, <3>1 DEF MakeStaging
  <2>4. CASE CopyBytes(p) \/ WriteControls(p) \/ SealStaging(p)
    <3>1. staging[Op(p)] \in Directories
      <4>1. job[p].pc > AtMkdir /\ job[p].pc <= AtRename
        BY <1>3, <2>4, RootPlaces DEF AtMkdir, AtRename
      <4> QED
        BY <1>0, <2>1, <4>1 DEF ProgressInv
    <3>2. /\ \A file \in Whole : [staging[Op(p)] EXCEPT !.files = @ \cup {file}] \in Directories
          /\ [staging[Op(p)] EXCEPT !.open = FALSE] \in Directories
      BY <3>1 DEF Directories
    <3>3. \/ \E file \in Whole : staging' = [staging EXCEPT ![Op(p)] = [staging[Op(p)] EXCEPT !.files = @ \cup {file}]]
          \/ staging' = [staging EXCEPT ![Op(p)] = [staging[Op(p)] EXCEPT !.open = FALSE]]
      BY <2>4, <1>0, <2>1, <3>1 DEF CopyBytes, WriteControls, SealStaging, Writes, Whole, Directories
    <3>4. UNCHANGED <<generation, lock>>
      BY <2>4 DEF CopyBytes, WriteControls, SealStaging
    <3> QED
      BY <1>0, <2>1, <3>2, <3>3, <3>4
  <2>5. CASE Promote(p)
    BY <1>0, <2>1, <2>5 DEF Promote
  <2>6. CASE Expose(p)
    <3>1. generation[Target[Op(p)]] \in Directories
      <4>1. job[p].pc > AtRename
        BY <1>3, <2>6, RootPlaces DEF AtRename
      <4> QED
        BY <1>0, <2>1, <4>1 DEF ProgressInv
    <3>2. [generation[Target[Op(p)]] EXCEPT !.open = TRUE] \in Directories
      BY <3>1 DEF Directories
    <3>3. generation' = [generation EXCEPT ![Target[Op(p)]] = [generation[Target[Op(p)]] EXCEPT !.open = TRUE]]
      BY <1>0, <2>1, <2>6 DEF Expose
    <3>4. UNCHANGED <<staging, lock>>
      BY <2>6 DEF Expose
    <3> QED
      BY <1>0, <2>1, <3>2, <3>3, <3>4
  <2> QED
    BY <1>3, <2>2, <2>3, <2>4, <2>5, <2>6 DEF RootSteps
<1> QED
  BY <1>1, <1>2, <1>3, RootKinds

-----------------------------------------------------------------------------
(* What a step does to its call.                                           *)

LEMMA SameJob ==
    ASSUME NEW q \in Procs, job'[q] = job[q]
    PROVE  /\ Step(q)' = Step(q) /\ Running(q)' = Running(q) /\ Appends(q)' = Appends(q)
           /\ Op(q)' = Op(q) /\ Planned(q)' = Planned(q)
  BY DEF Step, Running, Appends, Op, Planned

LEMMA StartedJob ==
    ASSUME TypeOK, NEW p \in Procs, Started(p)
    PROVE  /\ job' \in [Procs -> Jobs] /\ \A q \in Procs \ {p} : job'[q] = job[q]
           /\ job'[p].call \in CallNames /\ job'[p].pc = 1 /\ job'[p].phase = "check"
           /\ job'[p].op \in IF job'[p].call \in SetCalls THEN Backups ELSE Restores
           /\ job'[p].call = "authorize" => \E m \in All("manifest") : m.n = job'[p].ref
           /\ job'[p].call = "restore" => /\ job'[p].ref = 0
                                          /\ Of("plan", job'[p].op) = {} /\ Of("auth", job'[p].op) # {}
           /\ job'[p].call = "backupAgain" => \E m \in Of("manifest", job'[p].op) : m.n = job'[p].ref
<1>1. PICK call \in CallNames, op \in Backups \cup Restores, ref \in Nat :
       /\ job' = [job EXCEPT ![p].call = call, ![p].op = op, ![p].ref = ref]
       /\ op \in IF call \in SetCalls THEN Backups ELSE Restores
       /\ call = "authorize" => \E m \in All("manifest") : m.n = ref
       /\ call = "restore" => ref = 0 /\ Of("plan", op) = {} /\ Of("auth", op) # {}
       /\ call = "backupAgain" => \E m \in Of("manifest", op) : m.n = ref
  BY DEF Started
<1>2. job[p] = Idle /\ job \in [Procs -> Jobs]
  BY DEF Started, TypeOK
<1> DEFINE j == [Idle EXCEPT !.call = call, !.op = op, !.ref = ref]
<1>3. job' = [job EXCEPT ![p] = j]
  BY <1>1, <1>2
<1>4. Idle \in Jobs /\ Idle.pc = 1 /\ Idle.phase = "check"
  BY DEF Idle, Jobs
<1>5. j \in Jobs /\ j.pc = 1 /\ j.phase = "check" /\ j.call = call /\ j.op = op /\ j.ref = ref
  BY <1>4 DEF Jobs
<1> HIDE DEF j
<1>6. job' \in [Procs -> Jobs] /\ job'[p] = j /\ \A q \in Procs \ {p} : job'[q] = job[q]
  BY <1>2, <1>3, <1>5
<1>7. /\ job'[p].call = call /\ job'[p].op = op /\ job'[p].ref = ref
      /\ job'[p].pc = 1 /\ job'[p].phase = "check"
  BY <1>5, <1>6
<1> QED
  BY <1>1, <1>6, <1>7

LEMMA PreparedJob ==
    ASSUME TypeOK, JobInv, LeavesInv, NEW p \in Procs, Prepares(p)
    PROVE  /\ job' \in [Procs -> Jobs] /\ \A q \in Procs \ {p} : job'[q] = job[q]
           /\ job'[p].call = job[p].call /\ job'[p].op = job[p].op /\ job'[p].pc = job[p].pc
           /\ Running(p) /\ Appends(p)
           /\ \/ Decides(p) /\ job[p].phase = "check" /\ job'[p].phase = "check"
              \/ /\ ~Decides(p) /\ job'[p].ref = job[p].ref
                 /\ \/ AppendSeal(p) /\ job[p].phase = "check" /\ job'[p].phase = "whole" /\ job'[p].rec = Sealed(p)
                    \/ AppendCheck(p) /\ job[p].phase = "whole" /\ job'[p].phase = "head" /\ job'[p].rec = job[p].rec
                    \/ AppendHead(p) /\ job[p].phase = "head" /\ job'[p].phase = "target" /\ job'[p].rec = job[p].rec
<1>0. job \in [Procs -> Jobs] /\ Len(journal) \in Nat
  BY DEF TypeOK
<1>1. CASE Decides(p)
  <2>1. PICK n \in Nat : job' = [job EXCEPT ![p].ref = n]
    BY <1>1 DEF Decides
  <2>2. Running(p) /\ Appends(p) /\ job[p].phase = "check"
    BY <1>1 DEF Decides, At, Running, Appends, Appending
  <2> QED
    BY <1>0, <1>1, <2>1, <2>2 DEF Jobs
<1>2. CASE ~Decides(p) /\ AppendSeal(p)
  <2>1. /\ job' = [job EXCEPT ![p].phase = "whole", ![p].rec = Sealed(p)]
        /\ Appends(p) /\ Running(p) /\ job[p].phase = "check" /\ Sealed(p) \in Records
    BY <1>2, SealedRecord DEF AppendSeal, Appends
  <2> DEFINE k == [job[p] EXCEPT !.phase = "whole", !.rec = Sealed(p)]
  <2>2. job' = [job EXCEPT ![p] = k]
    BY <1>0, <2>1
  <2>3. /\ k \in Jobs /\ k.call = job[p].call /\ k.op = job[p].op /\ k.pc = job[p].pc /\ k.ref = job[p].ref
        /\ k.phase = "whole" /\ k.rec = Sealed(p)
    BY <1>0, <2>1 DEF Jobs
  <2> HIDE DEF k
  <2> QED
    BY <1>0, <1>2, <2>1, <2>2, <2>3
<1>3. CASE ~Decides(p) /\ AppendCheck(p)
  <2>1. job' = [job EXCEPT ![p].phase = "head"] /\ Appends(p) /\ Running(p) /\ job[p].phase = "whole"
    BY <1>3 DEF AppendCheck, Appends
  <2> QED
    BY <1>0, <1>3, <2>1 DEF Jobs
<1>4. CASE ~Decides(p) /\ AppendHead(p)
  <2>1. /\ job' = [job EXCEPT ![p].phase = "target", ![p].head = Len(journal)]
        /\ Appends(p) /\ Running(p) /\ job[p].phase = "head"
    BY <1>4 DEF AppendHead, Appends
  <2> DEFINE k == [job[p] EXCEPT !.phase = "target", !.head = Len(journal)]
  <2>2. job' = [job EXCEPT ![p] = k]
    BY <1>0, <2>1
  <2>3. /\ k \in Jobs /\ k.call = job[p].call /\ k.op = job[p].op /\ k.pc = job[p].pc /\ k.ref = job[p].ref
        /\ k.phase = "target" /\ k.rec = job[p].rec
    BY <1>0 DEF Jobs
  <2> HIDE DEF k
  <2> QED
    BY <1>0, <1>4, <2>1, <2>2, <2>3
<1> QED
  BY <1>1, <1>2, <1>3, <1>4 DEF Prepares

LEMMA TargetJob ==
    ASSUME TypeOK, NEW p \in Procs, AppendTarget(p)
    PROVE  /\ job' \in [Procs -> Jobs] /\ \A q \in Procs \ {p} : job'[q] = job[q]
           /\ job'[p].call = job[p].call /\ job'[p].op = job[p].op /\ job'[p].pc = job[p].pc
           /\ job'[p].ref = job[p].ref /\ job'[p].phase = "receipt" /\ job'[p].rec = job[p].rec
           /\ job'[p].head = job[p].head
<1>1. job \in [Procs -> Jobs]
  BY DEF TypeOK
<1> DEFINE j == [job[p] EXCEPT !.phase = "receipt"]
<1>2. job' = [job EXCEPT ![p] = j]
  BY <1>1 DEF AppendTarget
<1>3. j \in Jobs
  BY <1>1 DEF Jobs
<1>4. /\ j.call = job[p].call /\ j.op = job[p].op /\ j.pc = job[p].pc
      /\ j.ref = job[p].ref /\ j.phase = "receipt" /\ j.rec = job[p].rec /\ j.head = job[p].head
  BY <1>1 DEF Jobs
<1> HIDE DEF j
<1> QED
  BY <1>1, <1>2, <1>3, <1>4

LEMMA StoppedJob ==
    ASSUME TypeOK, NEW p \in Procs, Stopped(p)
    PROVE  /\ job' \in [Procs -> Jobs] /\ \A q \in Procs \ {p} : job'[q] = job[q]
           /\ job'[p].call \in {"idle", "down"} /\ job'[p].phase = "check"
           /\ job'[p] = [Idle EXCEPT !.call = job'[p].call]
<1>1. PICK call \in {"idle", "down"} : job' = [job EXCEPT ![p] = [Idle EXCEPT !.call = call]]
  BY DEF Stopped
<1>2. job \in [Procs -> Jobs]
  BY DEF TypeOK
<1>3. /\ [Idle EXCEPT !.call = call] \in Jobs
      /\ [Idle EXCEPT !.call = call].call = call /\ [Idle EXCEPT !.call = call].phase = "check"
  BY DEF Idle, Jobs
<1> QED
  BY <1>1, <1>2, <1>3

\* AppendReceipt and the steps that append nothing go on.
Goes(p) == AppendReceipt(p) \/ Passed(p)

LEMMA GoneJob ==
    ASSUME TypeOK, JobInv, NEW p \in Procs, Goes(p)
    PROVE  /\ Running(p)
           /\ job' \in [Procs -> Jobs] /\ \A q \in Procs \ {p} : job'[q] = job[q]
           /\ \/ /\ job[p].pc = Len(Steps[job[p].call]) /\ job'[p] = Idle
                 /\ said' = said \cup {<<job[p].call, Op(p)>>}
              \/ /\ job[p].pc # Len(Steps[job[p].call]) /\ said' = said
                 /\ job'[p].call = job[p].call /\ job'[p].op = job[p].op /\ job'[p].pc = job[p].pc + 1
                 /\ job'[p].phase = "check"
                 /\ job'[p].ref = IF Step(p) = "manifest" THEN job[p].rec.n ELSE job[p].ref
<1>1. Running(p) /\ Advance(p)
  BY DEF Goes, AppendReceipt, Passed, Appends
<1>2. Step(p) = "manifest" => job[p].rec \in Records
  <2>1. CASE AppendReceipt(p)
    BY <2>1 DEF AppendReceipt, JobInv
  <2>2. CASE Passed(p)
    <3>1. Step(p) \notin Appending
      BY <2>2 DEF Passed, Appends
    <3> QED
      BY <3>1 DEF Appending
  <2> QED
    BY <2>1, <2>2 DEF Goes
<1> QED
  BY <1>1, <1>2, Advances

LEMMA KindJobs ==
    ASSUME TypeOK, JobInv, LeavesInv, NEW p \in Procs, Kinds(p)
    PROVE  job' \in [Procs -> Jobs] /\ \A q \in Procs \ {p} : job'[q] = job[q]
  BY StartedJob, PreparedJob, TargetJob, StoppedJob, GoneJob DEF Kinds, Goes

\* The places of a call's steps.
LEMMA CallPlaces ==
    ASSUME JobInv, NEW p \in Procs, Running(p), job[p].call \in CallNames
    PROVE  /\ job[p].pc \in 1..Len(Steps[job[p].call]) /\ DOMAIN Steps[job[p].call] = 1..Len(Steps[job[p].call])
           /\ Len(Steps[job[p].call]) \in Nat
<1>1. job[p].pc \in DOMAIN Steps[job[p].call]
  BY DEF JobInv
<1>2. CASE job[p].call = "restore"
  BY <1>1, <1>2, RestoreTable
<1>3. CASE job[p].call = "backup"
  BY <1>1, <1>3, SetTable
<1>4. CASE job[p].call \in {"retention", "attest", "assess", "authorize"}
  BY <1>1, <1>4, OneStepTable
<1>5. CASE job[p].call \in Again
  BY <1>1, <1>5, AgainTable DEF Again
<1> QED
  BY <1>2, <1>3, <1>4, <1>5 DEF CallNames

\* What JobInv says of a process, of its job.
JobOf(p) ==
    /\ Running(p) =>
         /\ job[p].pc \in DOMAIN Steps[job[p].call]
         /\ Op(p) \in IF job[p].call \in SetCalls THEN Backups ELSE Restores
    /\ ~Running(p) => job[p] = [Idle EXCEPT !.call = job[p].call]
    /\ job[p].phase # "check" =>
         /\ Appends(p)
         /\ job[p].rec \in Records
         /\ job[p].rec.ns = NamespaceOf(Step(p)) /\ job[p].rec.op = Op(p)
         /\ Step(p) \in Range(Stages) => job[p].rec.n = Stage(Step(p))
         /\ Step(p) \notin Range(Stages) \cup {"head"} => job[p].rec.ref = job[p].ref
         /\ Step(p) \in {"auth", "plan"} => job[p].rec.n = 0

LEMMA JobPreserved ==
    ASSUME TypeOK, JobInv, LeavesInv, NEW p \in Procs, Kinds(p)
    PROVE  JobInv'
<1>1. \A q \in Procs \ {p} : JobOf(q)'
  <2> TAKE q \in Procs \ {p}
  <2>1. job'[q] = job[q]
    BY KindJobs
  <2>2. JobOf(q)
    BY DEF JobInv, JobOf
  <2> QED
    BY <2>1, <2>2, SameJob DEF JobOf
<1>2. JobOf(p)'
  <2>0. JobOf(p)
    BY DEF JobInv, JobOf
  <2>1. CASE Started(p)
    <3>1. /\ job'[p].call \in CallNames /\ job'[p].pc = 1 /\ job'[p].phase = "check"
          /\ job'[p].op \in IF job'[p].call \in SetCalls THEN Backups ELSE Restores
      BY <2>1, StartedJob
    <3>2. 1 \in DOMAIN Steps[job'[p].call]
      BY <3>1, RestoreTable, SetTable, OneStepTable, AgainTable DEF CallNames, Again
    <3>3. Running(p)'
      BY <3>1 DEF Running, CallNames, Again
    <3> QED
      BY <3>1, <3>2, <3>3 DEF JobOf, Op
  <2>3. CASE Prepares(p)
    <3>1. /\ job'[p].call = job[p].call /\ job'[p].op = job[p].op /\ job'[p].pc = job[p].pc
          /\ Appends(p) /\ Running(p)
      BY <2>3, PreparedJob
    <3>2. Step(p)' = Step(p) /\ Running(p)' /\ Op(p)' = Op(p) /\ Appends(p)'
      BY <3>1 DEF Step, Running, Op, Appends
    <3>3. CASE job'[p].phase = "check"
      BY <2>0, <3>1, <3>2, <3>3 DEF JobOf
    <3>4. CASE job'[p].phase # "check"
      <4>1. job'[p].ref = job[p].ref /\ job'[p].rec = IF job[p].phase = "check" THEN Sealed(p) ELSE job[p].rec
        BY <2>3, <3>4, PreparedJob
      <4>2. /\ Sealed(p) \in Records
            /\ Sealed(p).ns = NamespaceOf(Step(p)) /\ Sealed(p).op = Op(p)
            /\ Step(p) \in Range(Stages) => Sealed(p).n = Stage(Step(p))
            /\ Step(p) \notin Range(Stages) \cup {"head"} => Sealed(p).ref = job[p].ref
            /\ Step(p) \in {"auth", "plan"} => Sealed(p).n = 0
        BY <3>1, SealedRecord
      <4> QED
        BY <2>0, <3>1, <3>2, <3>4, <4>1, <4>2 DEF JobOf
    <3> QED
      BY <3>3, <3>4
  <2>4. CASE AppendTarget(p)
    <3>1. /\ job'[p].call = job[p].call /\ job'[p].op = job[p].op /\ job'[p].pc = job[p].pc
          /\ job'[p].ref = job[p].ref /\ job'[p].rec = job[p].rec
      BY <2>4, TargetJob
    <3>2. Appends(p) /\ Running(p) /\ job[p].phase = "target"
      BY <2>4 DEF AppendTarget, Appends
    <3>3. Step(p)' = Step(p) /\ Running(p)' /\ Op(p)' = Op(p) /\ Appends(p)'
      BY <3>1, <3>2 DEF Step, Running, Op, Appends
    <3> QED
      BY <2>0, <3>1, <3>2, <3>3 DEF JobOf
  <2>5. CASE Goes(p)
    <3>1. Running(p) /\ job[p].call \in CallNames
      BY <2>5, GoneJob, StepCalls
    <3>2. CASE job'[p] = Idle
      BY <3>2, IdleForms DEF JobOf, Running
    <3>3. CASE /\ job[p].pc # Len(Steps[job[p].call])
               /\ job'[p].call = job[p].call /\ job'[p].op = job[p].op /\ job'[p].pc = job[p].pc + 1
               /\ job'[p].phase = "check"
      <4>1. job[p].pc + 1 \in DOMAIN Steps[job[p].call]
        BY <3>1, <3>3, CallPlaces
      <4> QED
        BY <2>0, <3>1, <3>3, <4>1 DEF JobOf, Op, Running
    <3> QED
      BY <2>5, <3>2, <3>3, GoneJob
  <2>6. CASE Stopped(p)
    <3>1. job'[p].call \in {"idle", "down"} /\ job'[p].phase = "check"
          /\ job'[p] = [Idle EXCEPT !.call = job'[p].call]
      BY <2>6, StoppedJob
    <3> QED
      BY <3>1 DEF JobOf, Running
  <2> QED
    BY <2>1, <2>3, <2>4, <2>5, <2>6 DEF Kinds, Goes
<1> QED
  BY <1>1, <1>2 DEF JobInv, JobOf

-----------------------------------------------------------------------------
(* What a step does to the history.                                        *)

Puts(p) ==
  /\ job[p].phase = "target" /\ PutTarget(job[p].rec) /\ UNCHANGED journal
  /\ AppendTarget(p) \/ Stopped(p)

Receipts(p) ==
  /\ job[p].phase = "receipt" /\ PutReceipt(job[p].rec, job[p].head) /\ UNCHANGED targets
  /\ AppendReceipt(p) \/ Stopped(p)

LEMMA HistoryKinds ==
    ASSUME NEW p \in Procs, Kinds(p)
    PROVE  UNCHANGED <<targets, journal>> \/ Puts(p) \/ Receipts(p)
<1>1. CASE Started(p) \/ Prepares(p) \/ Passed(p)
  BY <1>1 DEF Started, Prepares, Decides, AppendSeal, AppendCheck, AppendHead, Passed, historyVars
<1>2. CASE AppendTarget(p)
  BY <1>2 DEF AppendTarget, Puts
<1>3. CASE AppendReceipt(p)
  BY <1>3 DEF AppendReceipt, Receipts
<1>4. CASE Stopped(p)
  BY <1>4 DEF Stopped, Puts, Receipts, historyVars
<1> QED
  BY <1>1, <1>2, <1>3, <1>4 DEF Kinds

LEMMA AppendRange ==
    ASSUME NEW J \in Seq(Records), NEW x \in Records
    PROVE  /\ Range(Append(J, x)) = Range(J) \cup {x}
           /\ Len(Append(J, x)) = Len(J) + 1 /\ Len(J) \in Nat
           /\ DOMAIN J = 1..Len(J) /\ DOMAIN Append(J, x) = 1..(Len(J) + 1)
           /\ \A i \in DOMAIN J : Append(J, x)[i] = J[i]
           /\ Append(J, x)[Len(J) + 1] = x
<1>1. /\ Len(Append(J, x)) = Len(J) + 1 /\ Len(J) \in Nat
      /\ DOMAIN J = 1..Len(J) /\ DOMAIN Append(J, x) = 1..(Len(J) + 1)
      /\ \A i \in DOMAIN J : Append(J, x)[i] = J[i]
      /\ Append(J, x)[Len(J) + 1] = x
  OBVIOUS
<1>2. DOMAIN Append(J, x) = DOMAIN J \cup {Len(J) + 1}
  BY <1>1
<1>3. \A y : y \in Range(Append(J, x)) <=> y \in Range(J) \/ y = x
  BY <1>1, <1>2 DEF Range
<1> QED
  BY <1>1, <1>3

\* A step that puts a record puts a new one, and one that receipts a record
\* receipts one that was put.
LEMMA PutsNew ==
    ASSUME TypeOK, JobInv, JournalInv, PendingInv, NEW p \in Procs, Puts(p)
    PROVE  /\ job[p].rec \in Records /\ job[p].rec \notin targets /\ job[p].rec \notin Range(journal)
           /\ targets' = targets \cup {job[p].rec} /\ journal' = journal
           /\ \A s \in targets : Code(s) # Code(job[p].rec)
           /\ Appends(p) /\ Running(p)
<1>1. Appends(p) /\ job[p].rec \in Records
  BY DEF Puts, JobInv
<1>2. /\ \A s \in targets : Code(s) # Code(job[p].rec)
      /\ targets' = targets \cup {job[p].rec} /\ journal' = journal
  BY DEF Puts, PutTarget, Taken
<1> QED
  BY <1>1, <1>2 DEF Appends, JournalInv

LEMMA ReceiptsPut ==
    ASSUME TypeOK, JobInv, PendingInv, NEW p \in Procs, Receipts(p)
    PROVE  /\ job[p].rec \in Records /\ job[p].rec \in targets /\ job[p].rec \notin Range(journal)
           /\ targets' = targets /\ journal' = Append(journal, job[p].rec)
           /\ Range(journal') = Range(journal) \cup {job[p].rec}
           /\ Len(journal) = job[p].head
           /\ Appends(p) /\ Running(p)
<1>1. /\ job[p].rec \in targets /\ job[p].rec \notin Range(journal) /\ Appends(p) /\ job[p].rec \in Records
  BY DEF Receipts, PendingInv, JobInv
<1>2. targets' = targets /\ journal' = Append(journal, job[p].rec) /\ Len(journal) = job[p].head
  BY DEF Receipts, PutReceipt
<1> QED
  BY <1>1, <1>2, AppendRange DEF TypeOK, Appends

\* The history only grows.
LEMMA HistoryGrows ==
    ASSUME TypeOK, JobInv, JournalInv, PendingInv, NEW p \in Procs, Kinds(p)
    PROVE  /\ targets' \in SUBSET Records /\ journal' \in Seq(Records)
           /\ targets \subseteq targets' /\ Range(journal) \subseteq Range(journal')
           /\ Len(journal) <= Len(journal') /\ Len(journal) \in Nat /\ Len(journal') \in Nat
           /\ Len(journal') = Len(journal) => journal' = journal
           /\ DOMAIN journal \subseteq DOMAIN journal'
           /\ \A i \in DOMAIN journal : journal'[i] = journal[i]
<1>1. CASE UNCHANGED <<targets, journal>>
  BY <1>1 DEF TypeOK
<1>2. CASE Puts(p)
  BY <1>2, PutsNew DEF TypeOK
<1>3. CASE Receipts(p)
  <2>1. /\ targets' = targets /\ journal' = Append(journal, job[p].rec) /\ job[p].rec \in Records
        /\ Range(journal') = Range(journal) \cup {job[p].rec}
    BY <1>3, ReceiptsPut
  <2>2. targets \in SUBSET Records /\ journal \in Seq(Records)
    BY DEF TypeOK
  <2>3. Append(journal, job[p].rec) \in Seq(Records)
    BY <2>1, <2>2
  <2> QED
    BY <2>1, <2>2, <2>3, AppendRange
<1> QED
  BY <1>1, <1>2, <1>3, HistoryKinds

LEMMA CodesPreserved ==
    ASSUME TypeOK, JobInv, CodesInv, JournalInv, PendingInv, NEW p \in Procs, Kinds(p)
    PROVE  CodesInv'
<1>0. \A r : Code(r)' = Code(r)
  BY DEF Code
<1>1. CASE targets' = targets
  BY <1>0, <1>1 DEF CodesInv
<1>2. CASE Puts(p)
  BY <1>0, <1>2, PutsNew DEF CodesInv
<1> QED
  BY <1>1, <1>2, HistoryKinds, ReceiptsPut

LEMMA JournalPreserved ==
    ASSUME TypeOK, JobInv, JournalInv, PendingInv, NEW p \in Procs, Kinds(p)
    PROVE  JournalInv'
<1>1. CASE UNCHANGED <<targets, journal>>
  BY <1>1 DEF JournalInv, Range
<1>2. CASE Puts(p)
  BY <1>2, PutsNew DEF JournalInv, Range
<1>3. CASE Receipts(p)
  <2>1. /\ targets' = targets /\ journal' = Append(journal, job[p].rec) /\ job[p].rec \in targets
        /\ Range(journal') = Range(journal) \cup {job[p].rec} /\ job[p].rec \notin Range(journal)
        /\ job[p].rec \in Records /\ journal \in Seq(Records)
    BY <1>3, ReceiptsPut DEF TypeOK
  <2>2. Range(journal') \subseteq targets'
    BY <2>1 DEF JournalInv
  <2>3. ASSUME NEW i \in DOMAIN journal', NEW j \in DOMAIN journal', journal'[i] = journal'[j] PROVE i = j
    <3>1. \A k \in DOMAIN journal : journal[k] \in Range(journal)
      BY DEF Range
    <3>2. DOMAIN journal' = DOMAIN journal \cup {Len(journal) + 1}
      BY <2>1, AppendRange
    <3> QED
      BY <2>1, <2>3, <3>1, <3>2, AppendRange DEF JournalInv
  <2> QED
    BY <2>2, <2>3 DEF JournalInv
<1> QED
  BY <1>1, <1>2, <1>3, HistoryKinds

LEMMA PendingPreserved ==
    ASSUME TypeOK, JobInv, JournalInv, PendingInv, LeavesInv, NEW p \in Procs, Kinds(p)
    PROVE  PendingInv'
<1>1. \A q \in Procs \ {p} : job'[q] = job[q]
  BY KindJobs
<1>2. targets \subseteq targets'
  BY HistoryGrows
<1>5. CASE AppendTarget(p)
  <2>1. job'[p].rec = job[p].rec /\ Puts(p)
    BY <1>5, TargetJob DEF AppendTarget, Puts
  <2>2. /\ job[p].rec \notin targets /\ job[p].rec \notin Range(journal)
        /\ targets' = targets \cup {job[p].rec} /\ journal' = journal
    BY <2>1, PutsNew
  <2>3. \A q \in Procs \ {p} : job'[q].phase = "receipt" =>
          job'[q].rec \in targets \ Range(journal) /\ job'[q].rec # job'[p].rec
    BY <1>1, <2>1, <2>2 DEF PendingInv
  <2> QED
    BY <1>1, <2>1, <2>2, <2>3 DEF PendingInv, Range
<1>6. CASE ~AppendTarget(p)
  <2>1. job'[p].phase = "receipt" => job'[p] = job[p] /\ UNCHANGED <<targets, journal>>
    <3>1. Started(p) \/ Goes(p) \/ Stopped(p) \/ Prepares(p)
      BY <1>6 DEF Kinds, Goes
    <3> QED
      BY <3>1, StartedJob, GoneJob, StoppedJob, IdleForms, PreparedJob
  <2>2. ASSUME NEW q \in Procs, job'[q].phase = "receipt"
        PROVE  job'[q] = job[q] /\ job'[q].rec \in targets' \ Range(journal')
    <3>1. job'[q] = job[q] /\ job[q].rec \in targets \ Range(journal)
      BY <1>1, <2>1, <2>2 DEF PendingInv
    <3>2. CASE Receipts(p)
      <4>1. q # p
        BY <2>1, <2>2, <3>2 DEF Receipts, PutReceipt, TypeOK
      <4>2. job[q].rec # job[p].rec
        BY <2>2, <3>1, <3>2, <4>1 DEF Receipts, PendingInv
      <4> QED
        BY <3>1, <3>2, <4>2, ReceiptsPut
    <3>3. CASE ~Receipts(p)
      <4>1. journal' = journal
        BY <3>3, HistoryKinds, PutsNew
      <4> QED
        BY <1>2, <3>1, <4>1 DEF Range
    <3> QED
      BY <3>2, <3>3
  <2> QED
    BY <2>2 DEF PendingInv
<1> QED
  BY <1>5, <1>6

-----------------------------------------------------------------------------
(* The records that are there stay, and say the same.                      *)

LEMMA RecordsStay ==
    ASSUME TypeOK, JobInv, JournalInv, PendingInv, NEW p \in Procs, Kinds(p)
    PROVE  /\ \A ns, op : Of(ns, op) \subseteq Of(ns, op)'
           /\ \A ns : All(ns) \subseteq All(ns)'
           /\ \A r : Journaled(r) \subseteq Journaled(r)'
           /\ \A r : Receipted(r) => Receipted(r)'
<1>1. targets \subseteq targets' /\ Range(journal) \subseteq Range(journal')
  BY HistoryGrows
<1>2. \A r : Receipted(r) => Receipted(r)'
  BY <1>1 DEF Receipted, Range
<1>3. \A ns, op : Of(ns, op) \subseteq Of(ns, op)'
  BY <1>1 DEF Of
<1>4. \A ns : All(ns) \subseteq All(ns)'
  BY <1>1 DEF All
<1>5. \A r : Journaled(r) \subseteq Journaled(r)'
  BY <1>2, <1>3 DEF Journaled
<1> QED
  BY <1>2, <1>3, <1>4, <1>5

\* What a step leaves of its call: another place of it, a new call, or none.
LEMMA CallChanges ==
    ASSUME TypeOK, JobInv, LeavesInv, NEW p \in Procs, Kinds(p)
    PROVE  \/ Started(p)
           \/ job'[p].call \in {"idle", "down"} /\ (Goes(p) \/ Stopped(p))
           \/ /\ job'[p].call = job[p].call /\ job'[p].op = job[p].op
              /\ job'[p].ref = job[p].ref \/ job[p].call = "backup" \/ (Decides(p) /\ ~Goes(p) /\ job'[p].phase = "check")
              /\ \/ Goes(p) /\ job'[p].pc = job[p].pc + 1
                 \/ ~Goes(p) /\ job'[p].pc = job[p].pc
<1>0. ~Goes(p) \/ ~(Prepares(p) \/ AppendTarget(p))
  <2>1. AppendReceipt(p) => job[p].phase = "receipt" /\ ~AppendTarget(p)
    BY DEF AppendReceipt, AppendTarget
  <2> QED
    BY <2>1, PassedParts, PreparedJob DEF Goes
<1>1. CASE Prepares(p) \/ AppendTarget(p)
  BY <1>0, <1>1, PreparedJob, TargetJob
<1>2. CASE Goes(p)
  <2>1. Step(p) = "manifest" => job[p].call = "backup"
    BY <1>2, GoneJob, StepCalls
  <2> QED
    BY <1>2, <2>1, GoneJob, IdleForms
<1>3. CASE Stopped(p)
  BY <1>3, StoppedJob
<1> QED
  BY <1>1, <1>2, <1>3 DEF Kinds, Goes

\* The record that a step puts is of its call.
LEMMA PutRecord ==
    ASSUME TypeOK, JobInv, NEW p \in Procs, job[p].phase # "check"
    PROVE  LET x == job[p].rec
           IN /\ x \in Records /\ x.op = Op(p) /\ Running(p) /\ Appends(p)
              /\ x.ns = "manifest" => job[p].call = "backup" /\ job[p].pc = 4 /\ x.ref = job[p].ref
              /\ x.ns = "source" => job[p].call = "backup" /\ job[p].pc = 5 /\ x.ref = job[p].ref
              /\ x.ns = "prior" => job[p].call = "backup" /\ job[p].pc = 6 /\ x.ref = job[p].ref
              /\ x.ns = "final" => job[p].call = "backup" /\ job[p].pc = 7 /\ x.ref = job[p].ref
              /\ x.ns = "retention" => job[p].call = "retention"
              /\ x.ns = "head" => job[p].call = "attest"
              /\ x.ns = "assess" => job[p].call = "assess"
              /\ x.ns = "auth" => job[p].call = "authorize" /\ x.ref = job[p].ref /\ x.n = 0
              /\ x.ns = "plan" <=> job[p].call = "restore" /\ job[p].pc = AtPlan
              /\ x.ns = "plan" => x.ref = job[p].ref /\ x.n = 0
              /\ x.ns = "life" <=> job[p].call = "restore" /\ job[p].pc # AtPlan
              /\ x.ns = "life" => /\ x.n \in DOMAIN Stages /\ job[p].pc = StageAt[x.n]
                                  /\ Step(p) = Stages[x.n]
<1>1. /\ job[p].rec \in Records /\ job[p].rec.op = Op(p) /\ Running(p) /\ Appends(p)
      /\ job[p].rec.ns = NamespaceOf(Step(p))
      /\ Step(p) \in Range(Stages) => job[p].rec.n = Stage(Step(p))
      /\ Step(p) \notin Range(Stages) \cup {"head"} => job[p].rec.ref = job[p].ref
      /\ Step(p) \in {"auth", "plan"} => job[p].rec.n = 0
  BY DEF JobInv, Appends
<1>2. job[p].call \in CallNames
  BY <1>1, StepCalls
<1>3. CASE job[p].call = "backup"
  <2>1. /\ job[p].rec.ns = Step(p) /\ job[p].rec.ref = job[p].ref /\ Step(p) # "head"
        /\ Step(p) \in {"manifest", "source", "prior", "final"}
    BY <1>1, <1>3, BackupPlaces, StageRange DEF NamespaceOf
  <2> QED
    BY <1>1, <1>3, <2>1, BackupPlaces
<1>4. CASE job[p].call \in {"retention", "attest", "assess", "authorize"}
  BY <1>1, <1>4, OneStepPlaces, StageRange DEF NamespaceOf
<1>5. CASE job[p].call = "restore"
  <2>1. CASE Step(p) \in Range(Stages)
    <3>1. job[p].rec.ns = "life" /\ job[p].rec.n = Stage(Step(p)) /\ job[p].pc # AtPlan
      BY <1>1, <1>5, <2>1, RestorePlaces DEF NamespaceOf, AtPlan
    <3> QED
      BY <1>1, <1>5, <2>1, <3>1, StagePlaces
  <2>2. CASE Step(p) = "plan"
    <3>1. job[p].rec.ns = "plan" /\ job[p].rec.ref = job[p].ref /\ job[p].rec.n = 0 /\ job[p].pc = AtPlan
      BY <1>1, <1>5, <2>2, RestorePlaces, StageRange DEF NamespaceOf, AtPlan
    <3> QED
      BY <1>1, <1>5, <3>1
  <2>3. Step(p) \in Range(Stages) \/ Step(p) = "plan"
    BY <1>1, <1>5, RestorePlaces
  <2> QED
    BY <2>1, <2>2, <2>3
<1>6. job[p].call \notin Again
  BY <1>1, AgainPlaces
<1> QED
  BY <1>2, <1>3, <1>4, <1>5, <1>6 DEF CallNames

LEMMA KindsPreserved ==
    ASSUME TypeOK, JobInv, JournalInv, PendingInv, KindsInv, LeavesInv, NEW p \in Procs, Kinds(p)
    PROVE  KindsInv'
<1>1. targets' = targets \/ (Puts(p) /\ targets' = targets \cup {job[p].rec})
  BY HistoryKinds, ReceiptsPut, PutsNew
<1>2. ASSUME NEW x \in targets', x \notin targets
      PROVE  /\ x = job[p].rec /\ job[p].phase # "check"
             /\ Running(p) /\ Op(p) \in IF job[p].call \in SetCalls THEN Backups ELSE Restores
  <2>1. x = job[p].rec /\ job[p].phase # "check"
    BY <1>1, <1>2 DEF Puts
  <2>2. Running(p)
    BY <2>1, PutRecord
  <2> QED
    BY <2>1, <2>2 DEF JobInv
<1>3. \A x \in targets' : x.ns \in {"manifest", "source", "prior", "final", "retention", "head", "assess"}
                          => x.op \in Backups
  <2> TAKE x \in targets'
  <2>1. CASE x \in targets
    BY <2>1 DEF KindsInv
  <2>2. CASE x \notin targets
    BY <1>2, <2>2, PutRecord DEF SetCalls
  <2> QED
    BY <2>1, <2>2
<1>4. \A x \in targets' : x.ns \in {"auth", "plan", "life"} => x.op \in Restores
  <2> TAKE x \in targets'
  <2>1. CASE x \in targets
    BY <2>1 DEF KindsInv
  <2>2. CASE x \notin targets
    BY <1>2, <2>2, PutRecord DEF SetCalls
  <2> QED
    BY <2>1, <2>2
<1>5. \A x \in targets' : x.ns \in {"auth", "plan"} => x.n = 0
  <2> TAKE x \in targets'
  <2>1. CASE x \in targets
    BY <2>1 DEF KindsInv
  <2>2. CASE x \notin targets
    BY <1>2, <2>2, PutRecord
  <2> QED
    BY <2>1, <2>2
<1>6. \A x \in All("auth")' : \E m \in All("manifest")' : m.n = x.ref
  <2> TAKE x \in All("auth")'
  <2>0. x \in targets' /\ x.ns = "auth" /\ All("manifest") \subseteq All("manifest")'
    BY RecordsStay DEF All
  <2>1. CASE x \in targets
    BY <2>0, <2>1 DEF KindsInv, All
  <2>2. CASE x \notin targets
    <3>1. job[p].call = "authorize" /\ x.ref = job[p].ref
      BY <1>2, <2>0, <2>2, PutRecord
    <3> QED
      BY <2>0, <3>1 DEF KindsInv
  <2> QED
    BY <2>1, <2>2
<1>7. \A q \in Procs : job'[q].call = "authorize" => \E m \in All("manifest")' : m.n = job'[q].ref
  <2> TAKE q \in Procs
  <2> HAVE job'[q].call = "authorize"
  <2>1. \E m \in All("manifest") : m.n = job'[q].ref
    <3>1. CASE q # p
      BY <3>1, KindJobs DEF KindsInv
    <3>2. CASE q = p
      BY <3>2, CallChanges, StartedJob DEF KindsInv, Decides, At
    <3> QED
      BY <3>1, <3>2
  <2> QED
    BY <2>1, RecordsStay
<1>8. \A x \in All("plan")' : (Of("auth", x.op) # {})'
  <2> TAKE x \in All("plan")'
  <2>0. x \in targets' /\ x.ns = "plan" /\ Of("auth", x.op) \subseteq Of("auth", x.op)'
    BY RecordsStay DEF All
  <2>1. CASE x \in targets
    BY <2>0, <2>1 DEF KindsInv, All
  <2>2. CASE x \notin targets
    <3>1. job[p].call = "restore" /\ x.op = Op(p)
      BY <1>2, <2>0, <2>2, PutRecord
    <3> QED
      BY <2>0, <3>1 DEF KindsInv
  <2> QED
    BY <2>1, <2>2
<1>9. \A q \in Procs : job'[q].call = "restore" => (Of("auth", Op(q)) # {})'
  <2> TAKE q \in Procs
  <2> HAVE job'[q].call = "restore"
  <2> DEFINE r == job'[q].op
  <2> HIDE DEF r
  <2>0. Of("auth", r) \subseteq {x \in targets' : x.ns = "auth" /\ x.op = r}
    BY HistoryGrows DEF Of
  <2>1. Of("auth", r) # {}
    <3>1. CASE q # p
      BY <3>1, KindJobs DEF KindsInv, Op, r
    <3>2. CASE q = p
      BY <3>2, CallChanges, StartedJob DEF KindsInv, Op, r
    <3> QED
      BY <3>1, <3>2
  <2> QED
    BY <2>0, <2>1 DEF Op, Of, r
<1>10. \A q \in Procs : job'[q].call = "backupAgain" => (\E m \in Of("manifest", Op(q)) : m.n = job[q].ref)'
  <2> TAKE q \in Procs
  <2> HAVE job'[q].call = "backupAgain"
  <2> DEFINE b == job'[q].op
  <2> HIDE DEF b
  <2>0. Of("manifest", b) \subseteq {x \in targets' : x.ns = "manifest" /\ x.op = b}
    BY HistoryGrows DEF Of
  <2>1. \E m \in Of("manifest", b) : m.n = job'[q].ref
    <3>1. CASE q # p
      BY <3>1, KindJobs DEF KindsInv, Op, b
    <3>2. CASE q = p
      BY <3>2, CallChanges, StartedJob DEF KindsInv, Op, b, Decides, At
    <3> QED
      BY <3>1, <3>2
  <2> QED
    BY <2>0, <2>1 DEF Op, Of, b
<1> QED
  BY <1>3, <1>4, <1>5, <1>6, <1>7, <1>8, <1>9, <1>10 DEF KindsInv

LEMMA LastOfMore ==
    ASSUME NEW S \in SUBSET Records, HasLast(S), NEW x \in Records
    PROVE  HasLast(S \cup {x})
<1>1. CASE S = {}
  BY <1>1 DEF HasLast, Records
<1>2. CASE S # {}
  <2>1. PICK y \in S : \A z \in S : z.n <= y.n
    BY <1>2 DEF HasLast
  <2>2. \A z \in S \cup {x} : z.n \in Nat
    BY DEF Records
  <2>3. CASE x.n <= y.n
    BY <2>1, <2>2, <2>3 DEF HasLast
  <2>4. CASE ~(x.n <= y.n)
    <3>1. \A z \in S \cup {x} : z.n <= x.n
      BY <2>1, <2>2, <2>4
    <3> QED
      BY <3>1 DEF HasLast
  <2> QED
    BY <2>3, <2>4
<1> QED
  BY <1>1, <1>2

LEMMA FirstOfMore ==
    ASSUME NEW S \in SUBSET Records, HasFirst(S), NEW x \in Records
    PROVE  HasFirst(S \cup {x})
<1>1. CASE S = {}
  BY <1>1 DEF HasFirst, Records
<1>2. CASE S # {}
  <2>1. PICK y \in S : \A z \in S : y.n <= z.n
    BY <1>2 DEF HasFirst
  <2>2. \A z \in S \cup {x} : z.n \in Nat
    BY DEF Records
  <2>3. CASE y.n <= x.n
    BY <2>1, <2>2, <2>3 DEF HasFirst
  <2>4. CASE ~(y.n <= x.n)
    <3>1. \A z \in S \cup {x} : x.n <= z.n
      BY <2>1, <2>2, <2>4
    <3> QED
      BY <3>1 DEF HasFirst
  <2> QED
    BY <2>3, <2>4
<1> QED
  BY <1>1, <1>2

LEMMA LeavesPreserved ==
    ASSUME TypeOK, JobInv, JournalInv, PendingInv, LeavesInv, NEW p \in Procs, Kinds(p)
    PROVE  LeavesInv'
<1>1. CASE targets' = targets
  BY <1>1 DEF LeavesInv, HasLast, HasFirst, All, Of
<1>2. CASE Puts(p)
  <2> DEFINE x == job[p].rec
  <2>1. targets' = targets \cup {x} /\ x \in Records /\ targets \subseteq Records
    BY <1>2, PutsNew DEF TypeOK
  <2> HIDE DEF x
  <2>2. \A ns : All(ns)' = All(ns) \/ All(ns)' = All(ns) \cup {x}
    BY <2>1 DEF All
  <2>3. \A ns, b : Of(ns, b)' = Of(ns, b) \/ Of(ns, b)' = Of(ns, b) \cup {x}
    BY <2>1 DEF Of
  <2>4. HasLast(All("manifest")')
    <3>1. All("manifest") \in SUBSET Records /\ HasLast(All("manifest"))
      BY <2>1 DEF LeavesInv, All
    <3> QED
      BY <2>1, <2>2, <3>1, LastOfMore
  <2>5. \A b \in Backups, ns \in {"retention", "assess", "head"} : HasLast(Of(ns, b)')
    <3> TAKE b \in Backups, ns \in {"retention", "assess", "head"}
    <3>1. Of(ns, b) \in SUBSET Records /\ HasLast(Of(ns, b))
      BY <2>1 DEF LeavesInv, Of
    <3> QED
      BY <2>1, <2>3, <3>1, LastOfMore
  <2>6. \A b \in Backups : HasFirst(Of("manifest", b)')
    <3> TAKE b \in Backups
    <3>1. Of("manifest", b) \in SUBSET Records /\ HasFirst(Of("manifest", b))
      BY <2>1 DEF LeavesInv, Of
    <3> QED
      BY <2>1, <2>3, <3>1, FirstOfMore
  <2> QED
    BY <2>4, <2>5, <2>6 DEF LeavesInv, HasLast, HasFirst
<1> QED
  BY <1>1, <1>2, HistoryKinds, ReceiptsPut

-----------------------------------------------------------------------------
(* A restore has one authorization and one plan, and one process runs it.  *)

LEMMA OnlyOne ==
    ASSUME CodesInv, KindsInv
    PROVE  /\ \A ns \in {"auth", "plan"} : \A r : \A x, y \in Of(ns, r) : x = y
           /\ \A x, y \in All("manifest") : x.n = y.n => x = y
<1>1. \A ns \in {"auth", "plan"} : \A r : \A x, y \in Of(ns, r) : x = y
  <2> TAKE ns \in {"auth", "plan"}
  <2> TAKE r
  <2> TAKE x, y \in Of(ns, r)
  <2>1. x \in targets /\ y \in targets /\ x.ns = ns /\ y.ns = ns /\ x.op = r /\ y.op = r
    BY DEF Of
  <2>2. x.n = 0 /\ y.n = 0
    BY <2>1 DEF KindsInv
  <2> QED
    BY <2>1, <2>2 DEF CodesInv, Code
<1>2. \A x, y \in All("manifest") : x.n = y.n => x = y
  BY DEF All, CodesInv, Code
<1> QED
  BY <1>1, <1>2

\* What a restore restores, and what its plan binds, do not change.
LEMMA LookupsStay ==
    ASSUME TypeOK, JobInv, CodesInv, JournalInv, PendingInv, KindsInv, LeavesInv, NEW p \in Procs, Kinds(p)
    PROVE  /\ \A r : Of("auth", r) # {} => SetOf(r)' = SetOf(r)
           /\ \A r : Of("plan", r) # {} => PlanOf(r)' = PlanOf(r) /\ PlanOf(r) \in Of("plan", r)
<1>1. CodesInv' /\ KindsInv'
  BY CodesPreserved, KindsPreserved
<1>2. \A ns, r : Of(ns, r) \subseteq Of(ns, r)'
  BY RecordsStay
<1>3. All("manifest") \subseteq All("manifest")'
  BY RecordsStay
<1>4. \A ns \in {"auth", "plan"} : \A r : Of(ns, r) # {} => Of(ns, r)' = Of(ns, r) /\ \A x, y \in Of(ns, r) : x = y
  <2>1. \A ns \in {"auth", "plan"} : \A r : \A x, y \in Of(ns, r) : x = y
    BY OnlyOne
  <2>2. \A ns \in {"auth", "plan"} : \A r : \A x, y \in Of(ns, r)' : x = y
    BY <1>1, OnlyOne DEF CodesInv, KindsInv, Of, Code, All, Op
  <2> QED
    BY <1>2, <2>1, <2>2
<1>5. \A x, y \in All("manifest")' : x.n = y.n => x = y
  BY <1>1 DEF All, CodesInv, Code
<1>6. ASSUME NEW r, Of("auth", r) # {} PROVE SetOf(r)' = SetOf(r)
  <2> DEFINE a == CHOOSE a \in Of("auth", r) : TRUE
  <2>1. Of("auth", r)' = Of("auth", r) /\ a \in Of("auth", r)
    BY <1>4, <1>6
  <2>2. a \in All("auth")
    BY <2>1 DEF Of, All
  <2> HIDE DEF a
  <2>3. PICK m \in All("manifest") : m.n = a.ref
    BY <2>2 DEF KindsInv
  <2>4. m \in All("manifest")'
    BY <1>3
  <2>5. Manifest(a.ref) = m
    BY <2>3, OnlyOne DEF Manifest
  <2>6. (CHOOSE k \in All("manifest")' : k.n = a.ref) = m
    BY <2>3, <2>4, <1>5
  <2> QED
    BY <2>1, <2>5, <2>6 DEF SetOf, ManifestOf, Manifest, a
<1>7. ASSUME NEW r, Of("plan", r) # {} PROVE PlanOf(r)' = PlanOf(r) /\ PlanOf(r) \in Of("plan", r)
  BY <1>4, <1>7 DEF PlanOf
<1> QED
  BY <1>6, <1>7

\* A restore reads its decision before its plan is sealed.
LEMMA DecidesAt ==
    ASSUME JobInv, NEW p \in Procs, Decides(p)
    PROVE  job[p].call = "restore" /\ job[p].pc = AtPlan /\ job[p].phase = "check"
  BY RestorePlaces DEF Decides, At, AtPlan

\* A call that has its plan on record had it, or puts it now.
LEMMA PlannedGrows ==
    ASSUME TypeOK, JobInv, LeavesInv, NEW p \in Procs, Kinds(p), Planned(p)'
    PROVE  /\ job[p].call = "restore" /\ job'[p].op = Op(p) /\ job'[p].ref = job[p].ref
           /\ Planned(p) \/ (Puts(p) /\ AppendTarget(p) /\ job[p].rec.ns = "plan")
<1>1. job'[p].call = "restore" /\ (job'[p].pc > AtPlan \/ job'[p].phase = "receipt")
  BY DEF Planned
<1>2. ~Started(p)
  BY <1>1, StartedJob DEF AtPlan
<1>3. /\ job[p].call = "restore" /\ job'[p].op = Op(p) /\ job'[p].ref = job[p].ref
      /\ \/ Goes(p) /\ job'[p].pc = job[p].pc + 1
         \/ ~Goes(p) /\ job'[p].pc = job[p].pc
  BY <1>1, <1>2, CallChanges, DecidesAt DEF Op, AtPlan
<1>4. job[p].pc \in 1..22
  BY <1>3, RestorePlaces
<1>5. CASE job[p].pc > AtPlan
  BY <1>3, <1>5 DEF Planned
<1>6. CASE job[p].pc = AtPlan
  <2>1. Appends(p)
    BY <1>3, <1>6, RestorePlaces DEF AtPlan
  <2>2. CASE Goes(p)
    BY <1>3, <2>1, <2>2 DEF Goes, Passed, AppendReceipt, Planned
  <2>3. CASE ~Goes(p)
    <3>1. job'[p].phase = "receipt"
      BY <1>1, <1>3, <1>6, <2>3 DEF AtPlan
    <3>2. CASE AppendTarget(p)
      <4>1. Puts(p) /\ job[p].phase # "check"
        BY <3>2 DEF AppendTarget, Puts
      <4> QED
        BY <1>3, <1>6, <3>2, <4>1, PutRecord
    <3> QED
      BY <1>2, <2>3, <3>1, <3>2, PreparedJob, StoppedJob DEF Kinds, Goes
  <2> QED
    BY <2>2, <2>3
<1> QED
  BY <1>3, <1>4, <1>5, <1>6 DEF AtPlan

\* A call that puts a plan is the first to.
LEMMA PlansOnce ==
    ASSUME TypeOK, JobInv, JournalInv, PendingInv, KindsInv, NEW p \in Procs, Puts(p), job[p].rec.ns = "plan"
    PROVE  Of("plan", Op(p)) = {}
<1>1. job[p].phase # "check"
  BY DEF Puts
<1>2. job[p].rec.op = Op(p) /\ job[p].rec.n = 0
  BY <1>1, PutRecord
<1>3. \A s \in targets : Code(s) # Code(job[p].rec)
  BY PutsNew
<1>4. ASSUME NEW x \in Of("plan", Op(p)) PROVE FALSE
  <2>1. x \in targets /\ x.ns = "plan" /\ x.op = Op(p)
    BY DEF Of
  <2>2. x.n = 0
    BY <2>1 DEF KindsInv
  <2> QED
    BY <1>2, <1>3, <2>1, <2>2 DEF Code
<1> QED
  BY <1>4

LEMMA RunnerPreserved ==
    ASSUME TypeOK, JobInv, JournalInv, PendingInv, KindsInv, LeavesInv, RunnerInv, PlannedInv,
           NEW p \in Procs, Kinds(p)
    PROVE  RunnerInv'
<1>1. \A q \in Procs \ {p} : job'[q] = job[q] /\ Planned(q)' = Planned(q) /\ Op(q)' = Op(q)
  BY KindJobs, SameJob
<1>2. ASSUME NEW q \in Procs \ {p}, Planned(p)', Planned(q), job'[p].op = Op(q) PROVE FALSE
  <2>1. job'[p].op = Op(p) /\ (Planned(p) \/ (Puts(p) /\ job[p].rec.ns = "plan"))
    BY <1>2, PlannedGrows
  <2>2. ~Planned(p)
    BY <1>2, <2>1 DEF RunnerInv
  <2>3. Of("plan", Op(p)) = {}
    BY <2>1, <2>2, PlansOnce
  <2>4. Of("plan", Op(q)) # {}
    BY <1>2 DEF PlannedInv
  <2> QED
    BY <1>2, <2>1, <2>3, <2>4
<1> QED
  BY <1>1, <1>2 DEF RunnerInv, Op

LEMMA PlannedPreserved ==
    ASSUME TypeOK, JobInv, JournalInv, PendingInv, KindsInv, LeavesInv, PlannedInv, NEW p \in Procs, Kinds(p)
    PROVE  PlannedInv'
<1>0. \A r : Of("plan", r) \subseteq Of("plan", r)'
  BY RecordsStay
<1>1. ASSUME NEW q \in Procs \ {p}, Planned(q)' PROVE (\E x \in Of("plan", Op(q)) : x.ref = job[q].ref)'
  <2>1. job'[q] = job[q] /\ Planned(q) /\ Op(q)' = Op(q)
    BY <1>1, KindJobs, SameJob
  <2>2. PICK x \in Of("plan", Op(q)) : x.ref = job[q].ref
    BY <2>1 DEF PlannedInv
  <2> QED
    BY <1>0, <2>1, <2>2 DEF Op
<1>2. ASSUME Planned(p)' PROVE (\E x \in Of("plan", Op(p)) : x.ref = job[p].ref)'
  <2>1. job'[p].op = Op(p) /\ job'[p].ref = job[p].ref /\ Op(p)' = Op(p)
        /\ (Planned(p) \/ (Puts(p) /\ job[p].rec.ns = "plan"))
    BY <1>2, PlannedGrows DEF Op
  <2>2. CASE Planned(p)
    <3>1. PICK x \in Of("plan", Op(p)) : x.ref = job[p].ref
      BY <2>2 DEF PlannedInv
    <3> QED
      BY <1>0, <2>1, <3>1 DEF Op
  <2>3. CASE Puts(p) /\ job[p].rec.ns = "plan"
    <3>1. job[p].rec.op = Op(p) /\ job[p].rec.ref = job[p].ref /\ job[p].rec \in targets'
      BY <2>3, PutRecord, PutsNew DEF Puts
    <3>2. job[p].rec \in Of("plan", Op(p))'
      BY <2>1, <2>3, <3>1 DEF Of
    <3> QED
      BY <2>1, <3>1, <3>2
  <2> QED
    BY <2>1, <2>2, <2>3
<1> QED
  BY <1>1, <1>2 DEF PlannedInv

-----------------------------------------------------------------------------
(* A restore's stages and directories.                                     *)

LEMMA Thresholds == AtPlan = 1 /\ AtLock = 3 /\ AtMkdir = 4 /\ AtSeal = 12 /\ AtObserve = 15 /\ AtRename = 16
                    /\ AtExpose = 18 /\ AtUnlock = 22
  BY DEF AtPlan, AtLock, AtMkdir, AtSeal, AtObserve, AtRename, AtExpose, AtUnlock

\* The place of a restore after a step.
LEMMA RestoreMoves ==
    ASSUME TypeOK, JobInv, LeavesInv, NEW p \in Procs, Kinds(p), job'[p].call = "restore"
    PROVE  \/ job'[p].pc = 1 /\ job'[p].phase = "check" /\ Started(p)
           \/ /\ job[p].call = "restore" /\ job'[p].op = Op(p) /\ Op(p) \in Restores /\ job[p].pc \in 1..22
              /\ job'[p].ref = job[p].ref \/ Decides(p)
              /\ \/ Goes(p) /\ job'[p].pc = job[p].pc + 1 /\ job[p].pc # 22 /\ job'[p].phase = "check"
                 \/ ~Goes(p) /\ job'[p].pc = job[p].pc
<1>1. CASE Started(p)
  BY <1>1, StartedJob
<1>2. CASE ~Started(p)
  <2>1. /\ job[p].call = "restore" /\ job'[p].op = Op(p) /\ (job'[p].ref = job[p].ref \/ Decides(p))
        /\ \/ Goes(p) /\ job'[p].pc = job[p].pc + 1
           \/ ~Goes(p) /\ job'[p].pc = job[p].pc
    BY <1>2, CallChanges DEF Op
  <2>2. job[p].pc \in 1..22 /\ Op(p) \in Restores
    BY <2>1, RestorePlaces
  <2>3. CASE Goes(p) /\ job'[p].pc = job[p].pc + 1
    <3>1. job[p].pc # Len(Steps["restore"]) /\ job'[p].phase = "check"
      BY <2>1, <2>3, GoneJob, IdleForms
    <3> QED
      BY <2>1, <2>2, <2>3, <3>1, RestoreTable
  <2> QED
    BY <2>1, <2>2, <2>3
<1> QED
  BY <1>1, <1>2

LEMMA StagedPreserved ==
    ASSUME TypeOK, JobInv, JournalInv, PendingInv, LeavesInv, StagedInv, NEW p \in Procs, Kinds(p)
    PROVE  StagedInv'
<1>0. \A r : Journaled(r) \subseteq Journaled(r)'
  BY RecordsStay
<1>1. ASSUME NEW q \in Procs \ {p}, job'[q].call = "restore", NEW n \in DOMAIN Stages, job'[q].pc > StageAt[n]
      PROVE  n \in Journaled(Op(q))'
  <2>1. job'[q] = job[q] /\ Op(q)' = Op(q)
    BY KindJobs, SameJob
  <2>2. n \in Journaled(Op(q))
    BY <1>1, <2>1 DEF StagedInv
  <2> QED
    BY <1>0, <2>1, <2>2 DEF Op
<1>2. ASSUME job'[p].call = "restore", NEW n \in DOMAIN Stages, job'[p].pc > StageAt[n]
      PROVE  n \in Journaled(Op(p))' /\ Op(p)' = Op(p)
  <2>0. StageAt[n] \in 1..22
    BY StageTable, StageAtTable
  <2>1. /\ job[p].call = "restore" /\ job'[p].op = Op(p) /\ job[p].pc \in 1..22
        /\ \/ Goes(p) /\ job'[p].pc = job[p].pc + 1
           \/ ~Goes(p) /\ job'[p].pc = job[p].pc
    BY <1>2, <2>0, RestoreMoves
  <2>2. Op(p)' = Op(p)
    BY <2>1 DEF Op
  <2>3. CASE job[p].pc > StageAt[n]
    BY <1>0, <2>1, <2>2, <2>3 DEF StagedInv, Op
  <2>4. CASE ~(job[p].pc > StageAt[n])
    <3>1. Goes(p) /\ job[p].pc = StageAt[n]
      BY <1>2, <2>0, <2>1, <2>4
    <3>2. Step(p) = Stages[n] /\ Stage(Step(p)) = n /\ Step(p) \in Range(Stages)
      BY <2>1, <3>1, StagePlaces DEF Range
    <3>3. AppendReceipt(p)
      <4>1. Appends(p)
        BY <2>1, <3>2, RestorePlaces
      <4> QED
        BY <3>1, <4>1 DEF Goes, Passed
    <3>4. Receipts(p) /\ job[p].phase = "receipt"
      BY <3>3 DEF AppendReceipt, Receipts
    <3>5. job[p].rec.ns = "life" /\ job[p].rec.op = Op(p) /\ job[p].rec.n = n
      BY <3>2, <3>4 DEF JobInv, NamespaceOf
    <3>6. job[p].rec \in targets' /\ job[p].rec \in Range(journal')
      BY <3>4, ReceiptsPut
    <3> QED
      BY <2>2, <3>5, <3>6 DEF Journaled, Of, Receipted, Range, Op
  <2> QED
    BY <2>3, <2>4, <2>2
<1> QED
  BY <1>1, <1>2 DEF StagedInv, Op

\* What ProgressInv says of a process.
Progress(p) ==
    LET r == Op(p)   pc == job[p].pc   s == staging[r]   g == generation[Target[r]]
    IN /\ pc > AtLock => lock[Target[r]]
       /\ pc > AtMkdir /\ pc <= AtRename => s # None /\ s.op = r /\ s.by = p
       /\ pc > AtSeal /\ pc <= AtRename => s.files = Whole /\ ~s.open
       /\ pc > AtRename => g # None /\ g.op = r /\ g.by = p
       /\ pc > AtExpose => g.open

\* A step leaves the directories of another process's restore alone.
LEMMA OthersProgress ==
    ASSUME TypeOK, JobInv, LeavesInv, RunnerInv, ProgressInv, LocksInv, NEW p \in Procs, Kinds(p),
           NEW q \in Procs \ {p}, job[q].call = "restore"
    PROVE  Progress(q)'
<1>0. job'[q] = job[q] /\ Op(q)' = Op(q) /\ Progress(q) /\ Op(q) \in Restores /\ job[q].pc \in 1..22
  BY KindJobs, SameJob, RestorePlaces DEF ProgressInv, Progress
<1> DEFINE r == Op(q)   pc == job[q].pc
<1>1. /\ staging \in [Restores -> Directories \cup {None}]
      /\ generation \in [Range(Target) -> Directories \cup {None}]
      /\ lock \in [Range(Target) -> BOOLEAN] /\ Target[r] \in Range(Target) /\ None \notin Directories
  BY <1>0, TargetRange, NoneIsNothing DEF TypeOK
<1>2. CASE UNCHANGED <<staging, generation, lock>>
  BY <1>0, <1>2 DEF Progress
<1>3. CASE Shuts(p)
  <2>1. lock' = lock /\ staging'[r] = Shut(p, staging[r]) /\ generation'[Target[r]] = Shut(p, generation[Target[r]])
    BY <1>0, <1>1, <1>3 DEF Shuts
  <2>2. pc > AtMkdir /\ pc <= AtRename => staging'[r] = staging[r]
    BY <1>0, <1>1, <2>1, ShutDirectory DEF Progress
  <2>3. pc > AtRename => generation'[Target[r]] = generation[Target[r]]
    BY <1>0, <1>1, <2>1, ShutDirectory DEF Progress
  <2> QED
    BY <1>0, <2>1, <2>2, <2>3, Thresholds DEF Progress
<1>4. CASE RootSteps(p)
  <2>1. job[p].call = "restore" /\ Op(p) \in Restores /\ job[p].pc \in 1..22 /\ Target[Op(p)] \in Range(Target)
    BY <1>4, RootPlaces, RestorePlaces, TargetRange
  <2>2. Op(p) = r => ~(job[p].pc > 1 /\ pc > 1)
    BY <1>0, <2>1, Thresholds DEF RunnerInv, Planned
  <2>3. Target[Op(p)] = Target[r] => ~(job[p].pc > 3 /\ pc > 3)
    BY <1>0, <2>1, Thresholds DEF LocksInv
  <2>4. CASE TakeLock(p) \/ ReleaseLock(p)
    <3>1. /\ staging' = staging /\ generation' = generation
          /\ \/ lock' = [lock EXCEPT ![Target[Op(p)]] = TRUE]
             \/ lock' = [lock EXCEPT ![Target[Op(p)]] = FALSE] /\ job[p].pc = 22
      BY <1>4, <2>4, RootPlaces DEF TakeLock, ReleaseLock
    <3>2. pc > AtLock => lock'[Target[r]]
      BY <1>0, <1>1, <2>1, <2>3, <3>1, Thresholds DEF Progress
    <3> QED
      BY <1>0, <3>1, <3>2 DEF Progress
  <2>5. CASE MakeStaging(p) \/ CopyBytes(p) \/ WriteControls(p) \/ SealStaging(p)
    <3>1. /\ lock' = lock /\ generation' = generation /\ job[p].pc > 1
          /\ \A k \in Restores : k # Op(p) => staging'[k] = staging[k]
      BY <1>1, <1>4, <2>1, <2>5, RootPlaces DEF MakeStaging, CopyBytes, WriteControls, SealStaging, Writes
    <3>2. pc > AtMkdir => staging'[r] = staging[r]
      BY <1>0, <2>2, <3>1, Thresholds
    <3> QED
      BY <1>0, <3>1, <3>2, Thresholds DEF Progress
  <2>6. CASE Promote(p)
    <3>1. /\ lock' = lock /\ job[p].pc = 16 /\ Allowed(p)
          /\ generation' = [generation EXCEPT ![Target[Op(p)]] = staging[Op(p)]]
          /\ staging' = [staging EXCEPT ![Op(p)] = None]
      BY <1>4, <2>6, RootPlaces DEF Promote
    <3>2. pc > AtMkdir => staging'[r] = staging[r] /\ generation'[Target[r]] = generation[Target[r]]
      BY <1>0, <1>1, <2>1, <2>2, <2>3, <3>1, Thresholds
    <3> QED
      BY <1>0, <3>1, <3>2, Thresholds DEF Progress
  <2>7. CASE Expose(p)
    <3>1. /\ lock' = lock /\ staging' = staging /\ job[p].pc = 18
          /\ \A t \in Range(Target) : t # Target[Op(p)] => generation'[t] = generation[t]
      BY <1>1, <1>4, <2>7, RootPlaces DEF Expose
    <3>2. pc > AtLock => generation'[Target[r]] = generation[Target[r]]
      BY <1>0, <1>1, <2>1, <2>3, <3>1, Thresholds
    <3> QED
      BY <1>0, <3>1, <3>2, Thresholds DEF Progress
  <2> QED
    BY <1>4, <2>4, <2>5, <2>6, <2>7 DEF RootSteps
<1> QED
  BY <1>2, <1>3, <1>4, RootKinds

LEMMA OwnProgress ==
    ASSUME TypeOK, JobInv, LeavesInv, ProgressInv, NEW p \in Procs, Kinds(p), job'[p].call = "restore"
    PROVE  Progress(p)'
<1>1. CASE job'[p].pc = 1
  BY <1>1, Thresholds DEF Progress
<1>2. CASE job'[p].pc # 1
  <2>0. /\ job[p].call = "restore" /\ job'[p].op = Op(p) /\ Op(p) \in Restores /\ job[p].pc \in 1..22
        /\ \/ Goes(p) /\ job'[p].pc = job[p].pc + 1 /\ job[p].pc # 22
           \/ ~Goes(p) /\ job'[p].pc = job[p].pc
    BY <1>2, RestoreMoves
  <2> DEFINE r == Op(p)   pc == job[p].pc
  <2>1. Progress(p) /\ Op(p)' = r
    BY <2>0 DEF ProgressInv, Progress, Op
  <2>2. /\ staging \in [Restores -> Directories \cup {None}]
        /\ generation \in [Range(Target) -> Directories \cup {None}]
        /\ lock \in [Range(Target) -> BOOLEAN] /\ Target[r] \in Range(Target) /\ None \notin Directories
    BY <2>0, TargetRange, NoneIsNothing DEF TypeOK
  <2>3. CASE /\ UNCHANGED <<staging, generation, lock>>
             /\ Passed(p) => job[p].pc \notin {3, 4, 7, 10, 12, 16, 18, 22}
    <3>1. Goes(p) => job[p].pc \notin {3, 4, 12, 16, 18}
      <4>1. AppendReceipt(p) => job[p].pc \notin {3, 4, 12, 16, 18}
        BY <2>0, RestorePlaces DEF AppendReceipt
      <4> QED
        BY <2>3, <4>1 DEF Goes
    <3> QED
      BY <2>0, <2>1, <2>3, <3>1, Thresholds DEF Progress
  <2>4. CASE Stopped(p)
    BY <2>4, StoppedJob
  <2>5. CASE RootSteps(p)
    <3>0. Goes(p) /\ job'[p].pc = pc + 1
      BY <2>0, <2>5, RootPlaces DEF Goes
    <3>1. CASE TakeLock(p)
      <4>1. pc = 3 /\ lock'[Target[r]]
        BY <2>0, <2>2, <2>5, <3>1, RootPlaces DEF TakeLock
      <4> QED
        BY <2>1, <3>0, <4>1, Thresholds DEF Progress
    <3>2. CASE MakeStaging(p)
      <4>1. /\ pc = 4 /\ lock' = lock /\ staging'[r] = [op |-> r, by |-> p, files |-> {}, open |-> TRUE]
        BY <2>0, <2>2, <2>5, <3>2, RootPlaces DEF MakeStaging
      <4>2. [op |-> r, by |-> p, files |-> {}, open |-> TRUE] \in Directories
        BY <2>0 DEF Directories
      <4>3. staging'[r] # None /\ staging'[r].op = r /\ staging'[r].by = p
        <5>1. staging'[r].op = r /\ staging'[r].by = p
          BY <4>1
        <5>2. staging'[r] \in Directories
          BY <4>1, <4>2
        <5> QED
          BY <2>2, <5>1, <5>2
      <4> QED
        BY <2>1, <3>0, <4>1, <4>3, Thresholds DEF Progress
    <3>3. CASE CopyBytes(p) \/ WriteControls(p)
      <4>0. pc \in {7, 10} /\ lock' = lock /\ staging[r] \in Directories
        BY <2>0, <2>1, <2>2, <2>5, <3>3, RootPlaces, Thresholds DEF CopyBytes, WriteControls, Progress
      <4>1. PICK file \in Whole : staging' = [staging EXCEPT ![r] = [staging[r] EXCEPT !.files = @ \cup {file}]]
        BY <3>3, <2>0, <2>2, <4>0 DEF CopyBytes, WriteControls, Writes, Whole, Directories
      <4>2. /\ staging'[r] = [staging[r] EXCEPT !.files = @ \cup {file}]
            /\ staging'[r] \in Directories
        BY <2>0, <2>2, <4>0, <4>1 DEF Directories
      <4>3. staging'[r].op = staging[r].op /\ staging'[r].by = staging[r].by /\ staging'[r] # None
        BY <2>2, <4>0, <4>2 DEF Directories
      <4> QED
        BY <2>1, <3>0, <4>0, <4>3, Thresholds DEF Progress
    <3>4. CASE SealStaging(p)
      <4>0. pc = 12 /\ lock' = lock /\ staging[r] \in Directories /\ Step(p) = "seal" /\ Allowed(p)
        <5>1. pc = 12 /\ lock' = lock /\ Allowed(p)
          BY <2>5, <3>4, RootPlaces DEF SealStaging
        <5>2. Step(p) = "seal" /\ staging[r] \in Directories
          BY <2>0, <2>1, <2>2, <5>1, RestorePlaces, Thresholds DEF Progress
        <5> QED
          BY <5>1, <5>2
      <4>1. staging[r].files = Whole
        <5>1. ~Appends(p)
          BY <2>5, RootPlaces DEF Passed
        <5> QED
          BY <4>0, <5>1 DEF Allowed
      <4>2. staging' = [staging EXCEPT ![r] = [staging[r] EXCEPT !.open = FALSE]]
        BY <3>4, <2>0, <2>2, <4>0 DEF SealStaging, Directories
      <4>3. /\ staging'[r] # None /\ staging'[r].op = staging[r].op /\ staging'[r].by = staging[r].by
            /\ staging'[r].files = Whole /\ ~staging'[r].open
        BY <2>0, <2>2, <4>0, <4>1, <4>2 DEF Directories
      <4> QED
        BY <2>1, <3>0, <4>0, <4>3, Thresholds DEF Progress
    <3>5. CASE Promote(p)
      <4>1. pc = 16 /\ lock' = lock /\ generation'[Target[r]] = staging[r]
        BY <2>0, <2>2, <2>5, <3>5, RootPlaces DEF Promote
      <4> QED
        BY <2>1, <3>0, <4>1, Thresholds DEF Progress
    <3>6. CASE Expose(p)
      <4>0. pc = 18 /\ lock' = lock /\ generation[Target[r]] \in Directories
        <5>1. pc = 18 /\ lock' = lock
          BY <2>5, <3>6, RootPlaces DEF Expose
        <5> QED
          BY <2>0, <2>1, <2>2, <5>1, Thresholds DEF Progress
      <4>1. generation' = [generation EXCEPT ![Target[r]] = [generation[Target[r]] EXCEPT !.open = TRUE]]
        BY <2>0, <2>2, <3>6, <4>0 DEF Expose
      <4>2. LET g == generation[Target[r]]   h == generation'[Target[r]]
            IN h # None /\ h.op = g.op /\ h.by = g.by /\ h.open
        BY <2>0, <2>2, <4>0, <4>1 DEF Directories
      <4> QED
        BY <2>1, <3>0, <4>0, <4>2, Thresholds DEF Progress
    <3>7. CASE ReleaseLock(p)
      BY <2>0, <2>5, <3>0, <3>7, RootPlaces
    <3> QED
      BY <2>5, <3>1, <3>2, <3>3, <3>4, <3>5, <3>6, <3>7 DEF RootSteps
  <2> QED
    BY <2>0, <2>3, <2>4, <2>5, RootKinds
<1> QED
  BY <1>1, <1>2

LEMMA ProgressPreserved ==
    ASSUME TypeOK, JobInv, LeavesInv, RunnerInv, ProgressInv, LocksInv, NEW p \in Procs, Kinds(p)
    PROVE  ProgressInv'
<1>1. \A q \in Procs : job'[q].call = "restore" => Progress(q)'
  <2> TAKE q \in Procs
  <2> HAVE job'[q].call = "restore"
  <2>1. CASE q = p
    BY <2>1, OwnProgress
  <2>2. CASE q # p
    BY <2>2, OthersProgress, KindJobs
  <2> QED
    BY <2>1, <2>2
<1> QED
  BY <1>1 DEF ProgressInv, Progress

LEMMA LocksPreserved ==
    ASSUME TypeOK, JobInv, LeavesInv, ProgressInv, LocksInv, NEW p \in Procs, Kinds(p)
    PROVE  LocksInv'
<1>1. \A q \in Procs \ {p} : job'[q] = job[q] /\ Op(q)' = Op(q)
  BY KindJobs, SameJob
<1>2. ASSUME NEW q \in Procs \ {p}, job[q].call = "restore", job[q].pc > AtLock,
             job'[p].call = "restore", job'[p].pc > AtLock, Target[job'[p].op] = Target[Op(q)]
      PROVE  FALSE
  <2>1. /\ job[p].call = "restore" /\ job'[p].op = Op(p) /\ Op(p) \in Restores /\ job[p].pc \in 1..22
        /\ \/ Goes(p) /\ job'[p].pc = job[p].pc + 1
           \/ ~Goes(p) /\ job'[p].pc = job[p].pc
    BY <1>2, RestoreMoves, Thresholds
  <2>2. ~(job[p].pc > AtLock)
    BY <1>2, <2>1 DEF LocksInv
  <2>3. Goes(p) /\ job[p].pc = 3
    BY <1>2, <2>1, <2>2, Thresholds
  <2>4. TakeLock(p)
    <3>1. ~AppendReceipt(p) /\ ~Appends(p)
      BY <2>1, <2>3, RestorePlaces DEF AppendReceipt
    <3>2. Passed(p)
      BY <2>3, <3>1 DEF Goes
    <3>3. ~Stopped(p)
      BY <1>2, StoppedJob
    <3>4. RootSteps(p)
      BY <2>1, <2>3, <3>2, <3>3, RootKinds
    <3> QED
      BY <2>3, <3>4, RootPlaces DEF RootSteps
  <2>5. ~lock[Target[Op(p)]]
    <3>1. Step(p) = "lock" /\ ~Appends(p) /\ Allowed(p)
      BY <2>1, <2>3, <2>4, RestorePlaces DEF TakeLock
    <3> QED
      BY <3>1 DEF Allowed
  <2> QED
    BY <1>2, <2>1, <2>5 DEF ProgressInv
<1> QED
  BY <1>1, <1>2 DEF LocksInv, Op

-----------------------------------------------------------------------------
(* A generation stays where it was promoted.                               *)

LEMMA GenerationStays ==
    ASSUME TypeOK, JobInv, ProgressInv, NEW p \in Procs, Kinds(p),
           NEW t \in Range(Target), generation[t] # None
    PROVE  LET g == generation[t]   h == generation'[t]
           IN /\ h # None /\ h.op = g.op /\ h.by = g.by /\ h.files = g.files
              /\ g.open /\ ~h.open => /\ Shuts(p) /\ job[p].call = "restore" /\ g.by = p /\ g.op = Op(p)
<1>0. /\ staging \in [Restores -> Directories \cup {None}]
      /\ generation \in [Range(Target) -> Directories \cup {None}]
      /\ lock \in [Range(Target) -> BOOLEAN] /\ None \notin Directories /\ generation[t] \in Directories
  BY NoneIsNothing DEF TypeOK
<1>1. CASE generation' = generation
  BY <1>1
<1>2. CASE Shuts(p)
  <2>1. generation'[t] = Shut(p, generation[t])
    BY <1>0, <1>2 DEF Shuts
  <2> QED
    BY <1>0, <1>2, <2>1, ShutDirectory DEF Shuts
<1>3. CASE RootSteps(p)
  <2>0. job[p].call = "restore" /\ Op(p) \in Restores
    BY <1>3, RootPlaces
  <2>1. CASE Promote(p)
    <3>1. generation[Target[Op(p)]] = None
      <4>1. Step(p) = "rename" /\ ~Appends(p) /\ Allowed(p)
        <5>1. job[p].pc = 16 /\ Allowed(p) /\ ~Appends(p)
          BY <1>3, <2>1, RootPlaces DEF Promote, Passed
        <5> QED
          BY <2>0, <5>1, RestorePlaces
      <4> QED
        BY <4>1 DEF Allowed
    <3> QED
      BY <1>0, <2>1, <3>1 DEF Promote
  <2>2. CASE Expose(p)
    <3>1. CASE t # Target[Op(p)]
      BY <1>0, <2>2, <3>1 DEF Expose
    <3>2. CASE t = Target[Op(p)]
      <4>1. generation'[t] = [generation[t] EXCEPT !.open = TRUE]
        BY <1>0, <2>2, <3>2 DEF Expose, Directories
      <4>2. [generation[t] EXCEPT !.open = TRUE] \in Directories
        BY <1>0 DEF Directories
      <4> QED
        BY <1>0, <4>1, <4>2 DEF Directories
    <3> QED
      BY <3>1, <3>2
  <2> QED
    BY <1>1, <1>3, <2>1, <2>2 DEF RootSteps, TakeLock, MakeStaging, CopyBytes, WriteControls, SealStaging,
                                   ReleaseLock
<1> QED
  BY <1>1, <1>2, <1>3, RootKinds

LEMMA LifePreserved ==
    ASSUME TypeOK, JobInv, JournalInv, PendingInv, KindsInv, PlannedInv, StagedInv, ProgressInv, LifeInv,
           NEW p \in Procs, Kinds(p)
    PROVE  LifeInv'
<1>0. /\ \A ns, op : Of(ns, op) \subseteq Of(ns, op)'
      /\ \A r : Journaled(r) \subseteq Journaled(r)'
  BY RecordsStay
<1>1. ASSUME NEW x \in targets', x.ns = "life"
      PROVE  /\ x.n \in DOMAIN Stages /\ x.op \in Restores
             /\ Of("plan", x.op) # {}
             /\ 1..(x.n - 1) \subseteq Journaled(x.op)
             /\ x.n >= 8 => generation[Target[x.op]] # None /\ generation[Target[x.op]].op = x.op
  <2>1. CASE x \in targets
    BY <1>1, <2>1 DEF LifeInv, KindsInv, All
  <2>2. CASE x \notin targets
    <3>1. Puts(p) /\ x = job[p].rec /\ job[p].phase # "check"
      BY <2>2, HistoryKinds, ReceiptsPut, PutsNew DEF Puts
    <3>2. /\ job[p].call = "restore" /\ job[p].pc # AtPlan /\ x.op = Op(p)
          /\ x.n \in DOMAIN Stages /\ job[p].pc = StageAt[x.n]
      BY <1>1, <3>1, PutRecord
    <3>3. Op(p) \in Restores /\ job[p].pc \in 1..22
      BY <3>2, RestorePlaces
    <3>4. Of("plan", x.op) # {}
      BY <3>2, <3>3, Thresholds DEF PlannedInv, Planned
    <3>5. 1..(x.n - 1) \subseteq Journaled(x.op)
      <4>1. \A m \in 1..(x.n - 1) : m \in DOMAIN Stages /\ job[p].pc > StageAt[m]
        BY <3>2, StageTable, StageAtTable
      <4> QED
        BY <3>2, <4>1 DEF StagedInv
    <3>6. x.n >= 8 => job[p].pc > AtRename
      BY <3>2, StageTable, StageAtTable, Thresholds
    <3> QED
      BY <3>2, <3>3, <3>4, <3>5, <3>6 DEF ProgressInv
  <2> QED
    BY <2>1, <2>2
<1>2. ASSUME NEW x \in All("life")'
      PROVE  /\ x.n \in DOMAIN Stages
             /\ (Of("plan", x.op) # {})'
             /\ 1..(x.n - 1) \subseteq Journaled(x.op)'
             /\ x.n >= 8 => generation'[Target[x.op]] # None /\ generation'[Target[x.op]].op = x.op
  <2>1. x \in targets' /\ x.ns = "life"
    BY <1>2 DEF All
  <2>2. x.op \in Restores /\ Target[x.op] \in Range(Target)
    BY <1>1, <2>1, TargetRange
  <2>3. x.n >= 8 => generation'[Target[x.op]] # None /\ generation'[Target[x.op]].op = x.op
    BY <1>1, <2>1, <2>2, GenerationStays
  <2> QED
    BY <1>0, <1>1, <2>1, <2>3
<1> QED
  BY <1>2 DEF LifeInv

LEMMA StagingPreserved ==
    ASSUME TypeOK, JobInv, JournalInv, PendingInv, PlannedInv, ProgressInv, StagingInv, NEW p \in Procs, Kinds(p)
    PROVE  StagingInv'
<1>0. /\ staging \in [Restores -> Directories \cup {None}] /\ None \notin Directories
      /\ \A r : Of("plan", r) \subseteq Of("plan", r)'
  BY RecordsStay, NoneIsNothing DEF TypeOK
<1>1. ASSUME NEW r \in Restores, staging'[r] # None
      PROVE  staging'[r].op = r /\ Of("plan", r) # {}
  <2>1. CASE staging' = staging
    BY <1>1, <2>1 DEF StagingInv
  <2>2. CASE Shuts(p)
    <3>1. staging'[r] = Shut(p, staging[r])
      BY <2>2 DEF Shuts
    <3> QED
      BY <1>0, <1>1, <3>1, ShutDirectory DEF StagingInv
  <2>3. CASE RootSteps(p)
    <3>0. job[p].call = "restore" /\ Op(p) \in Restores
      BY <2>3, RootPlaces
    <3>1. CASE r # Op(p)
      <4>1. staging'[r] = staging[r]
        BY <1>0, <2>3, <3>1 DEF RootSteps, TakeLock, MakeStaging, CopyBytes, WriteControls, SealStaging,
                                 Writes, Promote, Expose, ReleaseLock
      <4> QED
        BY <1>1, <4>1 DEF StagingInv
    <3>2. CASE r = Op(p) /\ MakeStaging(p)
      <4>1. staging'[r].op = r /\ job[p].pc > AtPlan
        <5>1. job[p].pc = 4 /\ staging' = [staging EXCEPT ![r] = [op |-> r, by |-> p, files |-> {}, open |-> TRUE]]
          BY <2>3, <3>2, RootPlaces DEF MakeStaging
        <5>2. staging'[r] = [op |-> r, by |-> p, files |-> {}, open |-> TRUE]
          BY <1>0, <5>1
        <5> QED
          BY <5>1, <5>2, Thresholds
      <4> QED
        BY <3>0, <3>2, <4>1 DEF PlannedInv, Planned
    <3>3. CASE r = Op(p) /\ (CopyBytes(p) \/ WriteControls(p) \/ SealStaging(p))
      <4>1. job[p].pc > AtMkdir /\ job[p].pc <= AtRename
        BY <2>3, <3>3, RootPlaces, Thresholds
      <4>2. staging[r] # None /\ staging[r] \in Directories
        BY <1>0, <3>0, <3>3, <4>1 DEF ProgressInv
      <4>3. staging'[r].op = staging[r].op
        BY <1>0, <3>3, <4>2 DEF CopyBytes, WriteControls, SealStaging, Writes, Directories
      <4> QED
        BY <4>2, <4>3 DEF StagingInv
    <3>4. CASE r = Op(p) /\ Promote(p)
      BY <1>0, <1>1, <3>4 DEF Promote
    <3> QED
      BY <2>1, <2>3, <3>1, <3>2, <3>3, <3>4 DEF RootSteps, TakeLock, Expose, ReleaseLock
  <2> QED
    BY <2>1, <2>2, <2>3, RootKinds
<1> QED
  BY <1>0, <1>1 DEF StagingInv

LEMMA GenerationPreserved ==
    ASSUME TypeOK, JobInv, JournalInv, PendingInv, LeavesInv, PlannedInv, StagedInv, ProgressInv,
           GenerationInv, NEW p \in Procs, Kinds(p)
    PROVE  GenerationInv'
<1>0. /\ staging \in [Restores -> Directories \cup {None}]
      /\ generation \in [Range(Target) -> Directories \cup {None}]
      /\ lock \in [Range(Target) -> BOOLEAN] /\ None \notin Directories
      /\ \A r : Of("plan", r) \subseteq Of("plan", r)'
      /\ \A r : Journaled(r) \subseteq Journaled(r)'
  BY RecordsStay, NoneIsNothing DEF TypeOK
<1>1. \A q \in Procs \ {p} : job'[q] = job[q] /\ Op(q)' = Op(q)
  BY KindJobs, SameJob
<1> DEFINE Fine(t) ==
      LET h == generation'[t]
      IN /\ Target[h.op] = t /\ h.files = Whole /\ Of("plan", h.op) # {}
         /\ 1..7 \subseteq Journaled(h.op)
         /\ ~h.open => lock'[t]
         /\ \A q \in Procs : job'[q].call = "restore" /\ job'[q].op = h.op /\ q = h.by => job'[q].pc > AtRename
<1>2. ASSUME NEW t \in Range(Target), generation[t] # None PROVE Fine(t)
  <2> DEFINE g == generation[t]   h == generation'[t]
  <2>1. /\ h # None /\ h.op = g.op /\ h.by = g.by /\ h.files = g.files
        /\ g.open /\ ~h.open => /\ Shuts(p) /\ job[p].call = "restore" /\ g.by = p /\ g.op = Op(p)
    BY <1>2, GenerationStays
  <2>2. /\ Target[g.op] = t /\ g.files = Whole /\ Of("plan", g.op) # {}
        /\ 1..7 \subseteq Journaled(g.op)
        /\ ~g.open => lock[t]
        /\ \A q \in Procs : job[q].call = "restore" /\ Op(q) = g.op /\ q = g.by => job[q].pc > AtRename
    BY <1>2 DEF GenerationInv
  <2>3. ASSUME ~h.open PROVE lock'[t]
    <3>1. CASE g.open
      <4>1. Shuts(p) /\ job[p].call = "restore" /\ g.by = p /\ g.op = Op(p)
        BY <2>1, <2>3, <3>1
      <4>2. job[p].pc > AtRename /\ job[p].pc \in 1..22
        BY <2>2, <4>1, RestorePlaces
      <4>3. lock[t]
        BY <2>2, <4>1, <4>2, Thresholds DEF ProgressInv
      <4> QED
        BY <4>1, <4>3 DEF Shuts
    <3>2. CASE ~g.open
      <4>1. lock[t]
        BY <2>2, <3>2
      <4>2. CASE lock' = lock
        BY <4>1, <4>2
      <4>3. CASE TakeLock(p)
        BY <1>0, <4>1, <4>3 DEF TakeLock
      <4>4. CASE ReleaseLock(p)
        <5>1. job[p].call = "restore" /\ job[p].pc = 22
          BY <4>4, RootPlaces DEF RootSteps
        <5>2. generation[Target[Op(p)]].open
          BY <5>1, Thresholds DEF ProgressInv
        <5> QED
          BY <1>0, <3>2, <4>1, <4>4, <5>2 DEF ReleaseLock
      <4> QED
        BY <4>2, <4>3, <4>4, RootKinds DEF RootSteps, MakeStaging, CopyBytes, WriteControls, SealStaging,
                                           Promote, Expose, Shuts
    <3> QED
      BY <3>1, <3>2
  <2>4. ASSUME NEW q \in Procs, job'[q].call = "restore", job'[q].op = g.op, q = g.by
        PROVE  job'[q].pc > AtRename
    <3>1. CASE q # p
      BY <1>1, <2>2, <2>4, <3>1 DEF Op
    <3>2. CASE q = p
      <4>1. ~Started(p)
        BY <2>2, <2>4, <3>2, StartedJob
      <4>2. /\ job[p].call = "restore" /\ job'[p].op = Op(p) /\ job[p].pc \in 1..22
            /\ job'[p].pc \in {job[p].pc, job[p].pc + 1}
        BY <2>4, <3>2, <4>1, RestoreMoves
      <4> QED
        BY <2>2, <2>4, <3>2, <4>2, Thresholds
    <3> QED
      BY <3>1, <3>2
  <2> QED
    BY <2>1, <2>2, <2>3, <2>4
<1>3. ASSUME NEW t \in Range(Target), generation[t] = None, generation'[t] # None PROVE Fine(t)
  <2>1. Promote(p) /\ t = Target[Op(p)]
    <3>1. ~(generation' = generation) /\ ~Shuts(p)
      BY <1>0, <1>3, ShutDirectory DEF Shuts
    <3>2. RootSteps(p)
      BY <3>1, RootKinds
    <3>3. job[p].call = "restore" /\ Op(p) \in Restores /\ Target[Op(p)] \in Range(Target)
      BY <3>2, RootPlaces, TargetRange
    <3>4. Promote(p) \/ Expose(p)
      BY <3>1, <3>2 DEF RootSteps, TakeLock, MakeStaging, CopyBytes, WriteControls, SealStaging, ReleaseLock
    <3>5. CASE Expose(p)
      <4>1. job[p].pc = 18
        BY <3>2, <3>5, RootPlaces
      <4>2. generation[Target[Op(p)]] # None
        BY <3>3, <4>1, Thresholds DEF ProgressInv
      <4> QED
        BY <1>0, <1>3, <3>5, <4>2 DEF Expose
    <3>6. CASE Promote(p)
      BY <1>0, <1>3, <3>6 DEF Promote
    <3> QED
      BY <3>4, <3>5, <3>6
  <2>2. /\ job[p].call = "restore" /\ Op(p) \in Restores /\ job[p].pc = 16 /\ Passed(p)
    BY <2>1, RootPlaces DEF RootSteps
  <2>3. generation'[t] = staging[Op(p)] /\ lock' = lock
    BY <1>0, <2>1, <2>2, TargetRange DEF Promote
  <2>4. /\ staging[Op(p)].op = Op(p) /\ staging[Op(p)].by = p /\ staging[Op(p)].files = Whole
        /\ lock[Target[Op(p)]]
    BY <2>2, Thresholds DEF ProgressInv
  <2>5. Of("plan", Op(p)) # {}
    BY <2>2, Thresholds DEF PlannedInv, Planned
  <2>6. 1..7 \subseteq Journaled(Op(p))
    <3>1. \A n \in 1..7 : n \in DOMAIN Stages /\ job[p].pc > StageAt[n]
      BY <2>2, StageTable, StageAtTable
    <3> QED
      BY <2>2, <3>1 DEF StagedInv
  <2>7. job'[p].call = "restore" => job'[p].pc = 17
    <3>1. Goes(p) /\ ~Started(p)
      BY <2>2, IdleForms DEF Goes, Started
    <3> QED
      BY <2>2, <3>1, GoneJob, IdleForms
  <2> QED
    BY <2>1, <2>3, <2>4, <2>5, <2>6, <2>7, Thresholds
<1>4. \A t \in Range(Target) : generation'[t] # None => Fine(t)
  BY <1>2, <1>3
<1> QED
  BY <1>0, <1>4 DEF GenerationInv, Op

-----------------------------------------------------------------------------
(* A revalidated stage is not moved at the stages before it.               *)

\* The journal's first receipts do not change.
LEMMA PrefixStays ==
    ASSUME TypeOK, JobInv, JournalInv, PendingInv, NEW p \in Procs, Kinds(p), NEW j \in DOMAIN journal
    PROVE  /\ j \in DOMAIN journal' /\ journal'[j] = journal[j]
           /\ Prefix(j)' = Prefix(j) /\ Prefix(j) \subseteq Range(journal)
<1>1. j \in DOMAIN journal' /\ \A i \in DOMAIN journal : journal'[i] = journal[i]
  BY HistoryGrows
<1>2. \A k \in 1..j : k \in DOMAIN journal
  BY DEF TypeOK
<1> QED
  BY <1>1, <1>2 DEF Prefix, Range

\* Among these records the last decision on the set is that one.
Stands(S, b, n) == Decided(S, b, n) /\ \A e \in S : e.ns = "retention" /\ e.op = b => e.n <= n

LEMMA StandingStays ==
    ASSUME TypeOK, JobInv, CodesInv, JournalInv, PendingInv, KindsInv, LeavesInv, NEW p \in Procs, Kinds(p),
           NEW r, Of("plan", r) # {}, NEW j \in DOMAIN journal, Standing(r, j)
    PROVE  Standing(r, j)'
<1>1. Of("auth", r) # {}
  BY DEF KindsInv, Of, All
<1>2. SetOf(r)' = SetOf(r) /\ PlanOf(r)' = PlanOf(r)
  BY <1>1, LookupsStay
<1>3. Prefix(j)' = Prefix(j)
  BY PrefixStays
<1>4. Stands(Prefix(j), SetOf(r), PlanOf(r).ref)
  BY DEF Standing, Stands, Decided, Retaining
<1>5. Stands(Prefix(j)', SetOf(r)', PlanOf(r)'.ref)
  BY <1>2, <1>3, <1>4
<1> QED
  BY <1>5 DEF Standing, Stands, Decided, Retaining

\* What is decided stays decided.
LEMMA DecidedGrows ==
    ASSUME NEW S, NEW T, S \subseteq T, NEW b, NEW n
    PROVE  (Retaining(S, b, n) => Retaining(T, b, n)) /\ (Decided(S, b, n) => Decided(T, b, n))
  BY DEF Retaining, Decided

\* A planned restore is bound to what its plan binds.
LEMMA PlanRef ==
    ASSUME CodesInv, KindsInv, PlannedInv, NEW p \in Procs, Planned(p)
    PROVE  Of("plan", Op(p)) # {} /\ PlanOf(Op(p)).ref = job[p].ref
<1>1. PICK x \in Of("plan", Op(p)) : x.ref = job[p].ref
  BY DEF PlannedInv
<1>2. PlanOf(Op(p)) = x
  BY OnlyOne DEF PlanOf
<1> QED
  BY <1>1, <1>2

\* What a restore has read stays so, for the call as it is before the step.
LEMMA ReadGrows ==
    ASSUME TypeOK, JobInv, CodesInv, JournalInv, PendingInv, KindsInv, LeavesInv, ReadInv,
           NEW p \in Procs, Kinds(p), NEW q \in Procs, job[q].call = "restore", NEW r, r = Op(q)
    PROVE  /\ SetOf(r)' = SetOf(r)
           /\ job[q].ref # 0 => Retaining(targets', SetOf(r), job[q].ref)
           /\ job[q].pc > AtPlan \/ job[q].phase # "check" => Decided(targets', SetOf(r), job[q].ref)
           /\ job[q].pc > AtPlan \/ job[q].phase \in {"head", "target", "receipt"} =>
                Decided(Range(journal'), SetOf(r), job[q].ref)
<1>1. Of("auth", r) # {}
  BY DEF KindsInv
<1>2. SetOf(r)' = SetOf(r)
  BY <1>1, LookupsStay
<1>3. targets \subseteq targets' /\ Range(journal) \subseteq Range(journal')
  BY HistoryGrows
<1>4. /\ job[q].ref # 0 => Retaining(targets, SetOf(r), job[q].ref)
      /\ job[q].pc > AtPlan \/ job[q].phase # "check" => Decided(targets, SetOf(r), job[q].ref)
      /\ job[q].pc > AtPlan \/ job[q].phase \in {"head", "target", "receipt"} =>
           Decided(Range(journal), SetOf(r), job[q].ref)
  BY DEF ReadInv
<1> QED
  BY <1>2, <1>3, <1>4, DecidedGrows

\* The plan is sealed on a decision that is attested, and goes on a history that is whole.
LEMMA PlanSealed ==
    ASSUME TypeOK, JobInv, KindsInv, LeavesInv, ReadInv, NEW p \in Procs, job[p].call = "restore", job[p].pc = AtPlan
    PROVE  /\ AppendSeal(p) => Decided(targets, SetOf(Op(p)), job[p].ref)
           /\ AppendCheck(p) => Decided(Range(journal), SetOf(Op(p)), job[p].ref)
<1> DEFINE b == SetOf(Op(p))   S == Of("head", b)
<1>0. Step(p) = "plan"
  BY RestorePlaces DEF AtPlan
<1>1. ASSUME AppendSeal(p) PROVE Decided(targets, b, job[p].ref)
  <2>1. job[p].ref # 0 /\ Appends(p) /\ job[p].phase = "check" /\ Allowed(p)
    BY <1>0, <1>1 DEF AppendSeal
  <2>2. S # {} /\ Leaf(S).n = job[p].ref
    BY <1>0, <2>1, AppendAllowed, ReadyParts DEF Attested
  <2>3. b \in Backups
    BY <2>2 DEF Of, KindsInv
  <2>4. Leaf(S) \in S
    <3>1. S \subseteq Records /\ HasLast(S)
      BY <2>3 DEF LeavesInv, TypeOK, Of
    <3> QED
      BY <2>2, <3>1, LeafMember
  <2>5. Retaining(targets, b, job[p].ref)
    BY <2>1 DEF ReadInv
  <2> QED
    BY <2>2, <2>4, <2>5 DEF Decided, Of
<1>2. ASSUME AppendCheck(p) PROVE Decided(Range(journal), b, job[p].ref)
  <2>1. Appends(p) /\ job[p].phase = "whole" /\ Allowed(p)
    BY <1>2 DEF AppendCheck
  <2>2. Range(journal) = targets
    BY <2>1, AppendAllowed DEF Appendable, Complete
  <2> QED
    BY <2>1, <2>2 DEF ReadInv
<1> QED
  BY <1>1, <1>2

LEMMA ReadPreserved ==
    ASSUME TypeOK, JobInv, CodesInv, JournalInv, PendingInv, KindsInv, LeavesInv, ReadInv,
           NEW p \in Procs, Kinds(p)
    PROVE  ReadInv'
<1>0. targets \subseteq targets' /\ Range(journal) \subseteq Range(journal')
  BY HistoryGrows
<1>1. ASSUME NEW q \in Procs, NEW r, job'[q].call = "restore", job'[q].op = r
      PROVE  /\ job'[q].ref # 0 => Retaining(targets', SetOf(r)', job'[q].ref)
             /\ job'[q].pc > AtPlan \/ job'[q].phase # "check" => Decided(targets', SetOf(r)', job'[q].ref)
             /\ job'[q].pc > AtPlan \/ job'[q].phase \in {"head", "target", "receipt"} =>
                  Decided(Range(journal'), SetOf(r)', job'[q].ref)
  <2>1. CASE q # p
    <3>1. job'[q] = job[q] /\ job[q].call = "restore" /\ Op(q) = r
      BY <1>1, <2>1, KindJobs DEF Op
    <3> QED
      BY <3>1, ReadGrows
  <2>2. CASE q = p /\ Started(p)
    BY <1>1, <2>2, StartedJob, Thresholds
  <2>3. CASE q = p /\ ~Started(p)
    <3>1. /\ job[p].call = "restore" /\ Op(p) = r /\ job[p].pc \in 1..22
          /\ job'[p].ref = job[p].ref \/ Decides(p)
          /\ \/ Goes(p) /\ job'[p].pc = job[p].pc + 1 /\ job'[p].phase = "check"
             \/ ~Goes(p) /\ job'[p].pc = job[p].pc
      BY <1>1, <2>3, RestoreMoves
    <3>2. CASE Decides(p)
      <4>1. PICK n \in Nat : Retaining(targets, SetOf(r), n) /\ job' = [job EXCEPT ![p].ref = n]
        BY <3>1, <3>2 DEF Decides
      <4>2. job'[p].ref = n /\ job'[p].phase = "check" /\ job'[p].pc = AtPlan
        BY <3>2, <4>1, DecidesAt DEF TypeOK, Jobs
      <4>3. SetOf(r)' = SetOf(r)
        BY <3>1, ReadGrows
      <4> QED
        BY <1>0, <2>3, <4>1, <4>2, <4>3, DecidedGrows, Thresholds
    <3>3. CASE ~Decides(p) /\ job[p].pc > AtPlan
      BY <2>3, <3>1, <3>3, ReadGrows
    <3>4. CASE ~Decides(p) /\ job[p].pc = AtPlan
      <4>1. Appends(p) /\ ~Passed(p)
        BY <3>1, <3>4, RestorePlaces DEF Passed, AtPlan
      <4>2. CASE AppendSeal(p)
        <5>1. job'[p].phase = "whole" /\ job'[p].pc = AtPlan /\ job'[p].ref = job[p].ref
          BY <3>4, <4>2, PreparedJob DEF Prepares, AppendSeal
        <5>2. Decided(targets, SetOf(r), job[p].ref)
          BY <3>1, <3>4, <4>2, PlanSealed
        <5>3. SetOf(r)' = SetOf(r) /\ Decided(targets', SetOf(r), job[p].ref)
          BY <1>0, <3>1, <5>2, ReadGrows, DecidedGrows
        <5> QED
          BY <2>3, <5>1, <5>3, Thresholds DEF Decided
      <4>3. CASE AppendCheck(p)
        <5>1. job[p].phase = "whole" /\ job'[p].pc = AtPlan /\ job'[p].ref = job[p].ref
          BY <3>4, <4>3, PreparedJob DEF Prepares, AppendCheck
        <5>2. Decided(Range(journal), SetOf(r), job[p].ref)
          BY <3>1, <3>4, <4>3, PlanSealed
        <5>3. Decided(Range(journal'), SetOf(r), job[p].ref)
          BY <1>0, <5>2, DecidedGrows
        <5> QED
          BY <2>3, <3>1, <5>1, <5>3, ReadGrows
      <4>4. CASE AppendHead(p) \/ AppendTarget(p) \/ AppendReceipt(p)
        <5>1. job[p].phase \in {"head", "target", "receipt"} /\ job'[p].ref = job[p].ref
          BY <3>1, <3>4, <4>4 DEF AppendHead, AppendTarget, AppendReceipt
        <5> QED
          BY <2>3, <3>1, <5>1, ReadGrows
      <4>6. ~Stopped(p)
        BY <1>1, <2>3, StoppedJob
      <4> QED
        BY <2>3, <3>4, <4>1, <4>2, <4>3, <4>4, <4>6 DEF Kinds, Prepares
    <3> QED
      BY <3>1, <3>2, <3>3, <3>4, Thresholds
  <2> QED
    BY <2>1, <2>2, <2>3
<1> QED
  BY <1>1 DEF ReadInv, Op

\* A stage is put by its restore, after its plan.
LEMMA LifePut ==
    ASSUME TypeOK, JobInv, NEW p \in Procs, job[p].phase # "check", job[p].rec.ns = "life"
    PROVE  /\ job[p].call = "restore" /\ Op(p) = job[p].rec.op /\ job[p].pc > AtPlan
           /\ job[p].rec.n \in DOMAIN Stages
<1>1. /\ job[p].call = "restore" /\ Op(p) = job[p].rec.op /\ job[p].pc # AtPlan
      /\ job[p].rec.n \in DOMAIN Stages
  BY PutRecord
<1>2. job[p].pc \in 1..22
  BY <1>1, RestorePlaces
<1> QED
  BY <1>1, <1>2, Thresholds

LEMMA FoundedPreserved ==
    ASSUME TypeOK, JobInv, CodesInv, JournalInv, PendingInv, KindsInv, LeavesInv, PlannedInv, LifeInv, ReadInv,
           FoundedInv, NEW p \in Procs, Kinds(p)
    PROVE  FoundedInv'
<1>1. ASSUME NEW j \in DOMAIN journal', NEW r, journal'[j].ns = "life", journal'[j].op = r
      PROVE  Decided(Prefix(j)', SetOf(r)', PlanOf(r)'.ref)
  <2>1. CASE j \in DOMAIN journal
    <3>1. journal'[j] = journal[j] /\ Prefix(j)' = Prefix(j)
      BY <2>1, PrefixStays
    <3>2. Decided(Prefix(j), SetOf(r), PlanOf(r).ref)
      BY <1>1, <2>1, <3>1 DEF FoundedInv
    <3>3. Of("plan", r) # {} /\ Of("auth", r) # {}
      <4>1. journal[j] \in All("life")
        BY <1>1, <2>1, <3>1 DEF JournalInv, All, Range
      <4> QED
        BY <1>1, <3>1, <4>1 DEF LifeInv, KindsInv, Of, All
    <3> QED
      BY <3>1, <3>2, <3>3, LookupsStay
  <2>2. CASE j \notin DOMAIN journal
    <3>1. Receipts(p)
      BY <2>2, HistoryKinds, PutsNew
    <3>2. /\ journal' = Append(journal, job[p].rec) /\ job[p].rec \in Records /\ job[p].phase = "receipt"
          /\ journal \in Seq(Records)
      BY <3>1, ReceiptsPut DEF Receipts, TypeOK
    <3>3. j = Len(journal) + 1 /\ journal'[j] = job[p].rec
      BY <2>2, <3>2, AppendRange
    <3>4. job[p].call = "restore" /\ Op(p) = r /\ job[p].pc > AtPlan
      BY <1>1, <3>2, <3>3, LifePut
    <3>5. PlanOf(r).ref = job[p].ref /\ Of("plan", r) # {} /\ Of("auth", r) # {}
      BY <3>4, PlanRef DEF Planned, KindsInv
    <3>6. Decided(Range(journal), SetOf(r), PlanOf(r).ref)
      BY <3>4, <3>5 DEF ReadInv
    <3>7. Range(journal) \subseteq Prefix(j)'
      <4>1. \A i \in DOMAIN journal : i \in 1..j /\ journal'[i] = journal[i]
        BY <3>2, <3>3, AppendRange
      <4> QED
        BY <4>1 DEF Prefix, Range
    <3> QED
      BY <3>5, <3>6, <3>7, LookupsStay, DecidedGrows
  <2> QED
    BY <2>1, <2>2
<1> QED
  BY <1>1 DEF FoundedInv

\* A stage that revalidates is a planned restore's.
LEMMA RevalidatedPlaces ==
    ASSUME TypeOK, JobInv, KindsInv, PlannedInv, NEW p \in Procs, Running(p), Step(p) \in Revalidated
    PROVE  /\ job[p].call = "restore" /\ Planned(p) /\ Op(p) \in Restores /\ Step(p) \in Range(Stages)
           /\ Of("auth", Op(p)) # {} /\ Of("plan", Op(p)) # {}
<1>1. Step(p) \in Range(Stages)
  BY StageRange DEF Revalidated
<1>2. job[p].call = "restore"
  BY <1>1, StepCalls
<1>3. job[p].pc > AtPlan
  BY <1>1, <1>2, RestorePlaces, Thresholds
<1> QED
  BY <1>1, <1>2, <1>3, RestorePlaces DEF Planned, PlannedInv, KindsInv

\* An observation that finds nothing moved: the last decision is the one that the restore
\* is bound to, and each of its stages so far was receipted after it.
LEMMA ObservedNow ==
    ASSUME TypeOK, CodesInv, JournalInv, PendingInv, JobInv, KindsInv, LeavesInv, PlannedInv, FoundedInv,
           NEW p \in Procs, Planned(p), Unmoved(p), NEW j \in DOMAIN journal, StageOf(j, Op(p))
    PROVE  Standing(Op(p), j)
<1> DEFINE r == Op(p)   b == SetOf(r)   S == Of("retention", b)
<1>1. PlanOf(r).ref = job[p].ref
  BY PlanRef
<1>2. S # {} /\ Leaf(S).n = job[p].ref
  BY DEF Unmoved, Retained, Retains
<1>3. \A e \in S : e.n <= Leaf(S).n
  <2>1. b \in Backups
    BY <1>2 DEF Of, KindsInv
  <2>2. HasLast(S)
    BY <2>1 DEF LeavesInv
  <2> QED
    BY <1>2, <2>2 DEF Leaf, HasLast
<1>4. Decided(Prefix(j), b, PlanOf(r).ref)
  BY DEF FoundedInv, StageOf
<1>5. Prefix(j) \subseteq targets
  <2>1. \A k \in 1..j : k \in DOMAIN journal
    BY DEF TypeOK
  <2> QED
    BY <2>1 DEF Prefix, JournalInv, Range
<1>6. \A e \in Prefix(j) : e.ns = "retention" /\ e.op = b => e.n <= PlanOf(r).ref
  BY <1>1, <1>2, <1>3, <1>5 DEF Of
<1> HIDE DEF r, b, S
<1>7. Stands(Prefix(j), SetOf(Op(p)), PlanOf(Op(p)).ref)
  BY <1>4, <1>6 DEF Stands, r, b
<1> QED
  BY <1>7 DEF Standing, Stands, Decided, Retaining

\* The promotion's own observation.
LEMMA PromotionObserved ==
    ASSUME TypeOK, JobInv, NEW p \in Procs, Passed(p), job[p].call = "restore", job[p].pc = AtObserve
    PROVE  Unmoved(p)
<1>1. Step(p) = "observe" /\ ~Appends(p) /\ job[p].pc = 15
  BY RestorePlaces DEF AtObserve
<1>2. ~RootSteps(p)
  BY <1>1, RootPlaces DEF RootSteps
<1>3. Observe(p)
  BY <1>1, <1>2, PassedParts DEF Passed, Works, RootSteps, StageObject, PublishObject, RetireTemporary, VerifyBackup,
                                 VerifyAgain, CheckNames, Compare, OnRoots, At
<1>4. Allowed(p)
  BY <1>3 DEF Observe
<1> QED
  BY <1>1, <1>4 DEF Allowed

\* A restore that has observed did so before the step, or does so now.
LEMMA ObservantBefore ==
    ASSUME TypeOK, JobInv, KindsInv, LeavesInv, PlannedInv, NEW p \in Procs, Kinds(p), NEW q \in Procs, Observant(q)'
    PROVE  /\ job[q].call = "restore" /\ Planned(q) /\ Op(q)' = Op(q)
           /\ Observant(q) \/ (Unmoved(q) /\ UNCHANGED <<targets, journal>>)
           /\ q = p => ~Receipts(p)
<1>0. /\ job'[q].call = "restore"
      /\ \/ job'[q].phase # "check" /\ Step(q)' \in Revalidated
         \/ job'[q].pc > AtObserve /\ job'[q].pc <= AtExpose
  BY DEF Observant
<1>1. ASSUME job[q].call = "restore", Observant(q) \/ job[q].pc > AtPlan PROVE Planned(q)
  BY <1>1, RevalidatedPlaces, RestorePlaces, Thresholds DEF Observant, Planned
<1>2. CASE q # p
  <2>1. job'[q] = job[q]
    BY <1>2, KindJobs
  <2>2. Observant(q) /\ Op(q)' = Op(q) /\ job[q].call = "restore"
    BY <1>0, <2>1, SameJob DEF Observant
  <2> QED
    BY <1>1, <1>2, <2>2
<1>3. CASE q = p
  <2>1. ~Started(p)
    BY <1>0, <1>3, StartedJob, Thresholds
  <2>2. /\ job[p].call = "restore" /\ job'[p].op = Op(p) /\ job[p].pc \in 1..22
        /\ \/ Goes(p) /\ job'[p].pc = job[p].pc + 1 /\ job'[p].phase = "check"
           \/ ~Goes(p) /\ job'[p].pc = job[p].pc
    BY <1>0, <1>3, <2>1, RestoreMoves
  <2>3. Op(q)' = Op(q) /\ ~Stopped(p)
    BY <1>0, <1>3, <2>2, StoppedJob DEF Op
  <2>4. CASE Goes(p)
    <3>1. job[p].pc \in {15, 16, 17}
      BY <1>0, <1>3, <2>2, <2>4, Thresholds
    <3>2. ~Appends(p)
      BY <2>2, <3>1, RestorePlaces
    <3>3. Passed(p) /\ ~Receipts(p)
      BY <2>3, <2>4, <3>2 DEF Goes, AppendReceipt, Receipts
    <3>4. CASE job[p].pc = 15
      <4>1. Unmoved(p)
        BY <2>2, <3>3, <3>4, PromotionObserved DEF AtObserve
      <4>2. UNCHANGED <<targets, journal>>
        BY <3>3 DEF Passed, historyVars
      <4> QED
        BY <1>1, <1>3, <2>2, <2>3, <3>3, <3>4, <4>1, <4>2, Thresholds
    <3>5. CASE job[p].pc \in {16, 17}
      <4>1. Observant(p)
        BY <2>2, <3>5, Thresholds DEF Observant
      <4> QED
        BY <1>1, <1>3, <2>2, <2>3, <3>3, <4>1
    <3> QED
      BY <3>1, <3>4, <3>5
  <2>5. CASE ~Goes(p)
    <3>1. job'[p].pc = job[p].pc /\ Step(p)' = Step(p) /\ ~Receipts(p)
      BY <1>0, <1>3, <2>2, <2>3, <2>5 DEF Step, Goes, Receipts
    <3>2. CASE Observant(p)
      BY <1>1, <1>3, <2>2, <2>3, <3>1, <3>2
    <3>3. CASE ~Observant(p)
      <4>1. job[p].phase = "check" /\ job'[p].phase # "check" /\ Step(p) \in Revalidated
        BY <1>0, <1>3, <2>2, <3>1, <3>3 DEF Observant
      <4>2. AppendSeal(p)
        <5>1. ~AppendTarget(p)
          BY <4>1 DEF AppendTarget
        <5>2. Prepares(p)
          BY <2>1, <2>3, <2>5, <5>1 DEF Kinds, Goes
        <5> QED
          BY <4>1, <5>2, PreparedJob
      <4>3. Step(p) \in Range(Stages)
        BY <4>1, StageRange DEF Revalidated
      <4>4. Unmoved(p)
        <5>1. Appends(p) /\ Allowed(p)
          BY <4>2 DEF AppendSeal
        <5> QED
          BY <4>1, <5>1, AppendAllowed, ReadyParts
      <4>5. job[p].pc > AtPlan
        BY <2>2, <4>3, RestorePlaces, Thresholds
      <4>6. UNCHANGED <<targets, journal>>
        BY <4>2 DEF AppendSeal, historyVars
      <4> QED
        BY <1>1, <1>3, <2>2, <2>3, <3>1, <4>4, <4>5, <4>6
    <3> QED
      BY <3>2, <3>3
  <2> QED
    BY <2>4, <2>5
<1> QED
  BY <1>2, <1>3

LEMMA ObservedPreserved ==
    ASSUME TypeOK, JobInv, CodesInv, JournalInv, PendingInv, KindsInv, LeavesInv, RunnerInv, PlannedInv,
           FoundedInv, ObservedInv, NEW p \in Procs, Kinds(p)
    PROVE  ObservedInv'
<1>1. ASSUME NEW q \in Procs, Observant(q)', NEW j \in DOMAIN journal', NEW r, Op(q)' = r,
             journal'[j].ns = "life", journal'[j].op = r
      PROVE  Standing(r, j)'
  <2>1. /\ job[q].call = "restore" /\ Planned(q) /\ Op(q) = r
        /\ Observant(q) \/ (Unmoved(q) /\ UNCHANGED <<targets, journal>>)
        /\ q = p => ~Receipts(p)
    BY <1>1, ObservantBefore
  <2>2. j \in DOMAIN journal
    <3>1. CASE Receipts(p)
      <4>1. q # p
        BY <2>1, <3>1
      <4>2. /\ journal' = Append(journal, job[p].rec) /\ job[p].rec \in Records /\ job[p].phase # "check"
            /\ journal \in Seq(Records)
        BY <3>1, ReceiptsPut DEF Receipts, TypeOK
      <4>3. ASSUME j \notin DOMAIN journal PROVE FALSE
        <5>1. journal'[j] = job[p].rec
          BY <1>1, <4>2, <4>3, AppendRange
        <5>2. job[p].call = "restore" /\ Op(p) = r /\ job[p].pc > AtPlan
          BY <1>1, <4>2, <5>1, LifePut
        <5> QED
          BY <2>1, <4>1, <5>2 DEF RunnerInv, Planned
      <4> QED
        BY <4>3
    <3>2. CASE ~Receipts(p)
      BY <1>1, <3>2, HistoryKinds, PutsNew
    <3> QED
      BY <3>1, <3>2
  <2>3. StageOf(j, Op(q))
    BY <1>1, <2>1, <2>2, HistoryGrows DEF StageOf
  <2>4. Standing(r, j)
    <3>1. CASE Observant(q)
      BY <2>1, <2>2, <2>3, <3>1 DEF ObservedInv
    <3>2. CASE Unmoved(q)
      BY <2>1, <2>2, <2>3, <3>2, ObservedNow
    <3> QED
      BY <2>1, <3>1, <3>2
  <2>5. Of("plan", r) # {}
    BY <2>1, PlanRef
  <2> QED
    BY <2>2, <2>4, <2>5, StandingStays
<1> QED
  BY <1>1 DEF ObservedInv, StageOf, Op

\* A generation that can be reached could be before, or is exposed by its observant restore.
LEMMA OpenBefore ==
    ASSUME TypeOK, JobInv, ProgressInv, NEW p \in Procs, Kinds(p),
           NEW t \in Range(Target), generation'[t] # None, generation'[t].open
    PROVE  \/ generation[t] # None /\ generation[t].open /\ generation'[t].op = generation[t].op
           \/ /\ Observant(p) /\ Planned(p) /\ generation'[t].op = Op(p) /\ UNCHANGED <<targets, journal>>
<1>0. /\ generation \in [Range(Target) -> Directories \cup {None}]
      /\ staging \in [Restores -> Directories \cup {None}]
      /\ None \notin Directories
  BY NoneIsNothing DEF TypeOK
<1>1. CASE generation' = generation
  BY <1>1
<1>2. CASE Shuts(p)
  <2>1. generation'[t] = Shut(p, generation[t])
    BY <1>0, <1>2 DEF Shuts
  <2> QED
    BY <1>0, <2>1, ShutDirectory
<1>3. CASE RootSteps(p)
  <2>0. job[p].call = "restore" /\ Op(p) \in Restores /\ Target[Op(p)] \in Range(Target)
    BY <1>3, RootPlaces, TargetRange
  <2>1. CASE Promote(p)
    <3>1. ~staging[Op(p)].open /\ job[p].pc = 16
      BY <1>3, <2>0, <2>1, RootPlaces, Thresholds DEF ProgressInv
    <3>2. t # Target[Op(p)]
      BY <1>0, <2>0, <2>1, <3>1 DEF Promote
    <3>3. generation'[t] = generation[t]
      BY <1>0, <2>1, <3>2 DEF Promote
    <3> QED
      BY <3>3
  <2>2. CASE Expose(p)
    <3>1. CASE t # Target[Op(p)]
      BY <1>0, <2>2, <3>1 DEF Expose
    <3>2. CASE t = Target[Op(p)]
      <4>1. job[p].pc = 18 /\ UNCHANGED <<targets, journal>>
        BY <1>3, <2>2, RootPlaces DEF historyVars
      <4>2. generation[t] # None /\ generation[t].op = Op(p)
        BY <2>0, <3>2, <4>1, Thresholds DEF ProgressInv
      <4>3. generation'[t] = [generation[t] EXCEPT !.open = TRUE]
        BY <1>0, <2>2, <3>2 DEF Expose
      <4>4. generation'[t].op = Op(p)
        BY <1>0, <4>2, <4>3 DEF Directories
      <4> QED
        BY <2>0, <4>1, <4>4, Thresholds DEF Observant, Planned
    <3> QED
      BY <3>1, <3>2
  <2> QED
    BY <1>1, <1>3, <2>1, <2>2 DEF RootSteps, TakeLock, MakeStaging, CopyBytes, WriteControls, SealStaging,
                                   ReleaseLock
<1> QED
  BY <1>1, <1>2, <1>3, RootKinds

LEMMA CancelsPreserved ==
    ASSUME TypeOK, JobInv, CodesInv, JournalInv, PendingInv, KindsInv, LeavesInv, PlannedInv, ProgressInv, LifeInv,
           GenerationInv, ObservedInv, MovementCancels, NEW p \in Procs, Kinds(p)
    PROVE  MovementCancels'
<1>0. /\ journal \in Seq(Records) /\ journal' \in Seq(Records) /\ DOMAIN generation = Range(Target)
      /\ DOMAIN generation' = Range(Target) /\ Len(journal) \in Nat
  BY HistoryGrows, RootTypes DEF TypeOK
<1>1. ASSUME NEW j \in 1..(Len(journal') - 1), NEW x, x = Last(journal)', x.ns = "life", Stages[x.n] \in Revalidated,
             journal'[j].ns = "life", journal'[j].op = x.op
      PROVE  Standing(x.op, j)'
  <2>1. CASE Receipts(p)
    <3>1. /\ journal' = Append(journal, job[p].rec) /\ job[p].rec \in Records
          /\ job[p].phase # "check" /\ Running(p)
      BY <2>1, ReceiptsPut DEF Receipts
    <3>2. x = job[p].rec /\ j \in DOMAIN journal /\ journal'[j] = journal[j]
      BY <1>0, <1>1, <3>1, AppendRange DEF Last
    <3>3. x.op = Op(p) /\ Step(p) = Stages[x.n]
      BY <1>1, <3>1, <3>2, PutRecord
    <3>4. job[p].call = "restore" /\ Of("plan", Op(p)) # {}
      BY <1>1, <3>1, <3>3, RevalidatedPlaces
    <3>5. Standing(x.op, j)
      BY <1>1, <3>1, <3>2, <3>3, <3>4 DEF ObservedInv, Observant, StageOf
    <3> QED
      BY <3>2, <3>3, <3>4, <3>5, StandingStays
  <2>2. CASE ~Receipts(p)
    <3>1. journal' = journal /\ x = Last(journal)
      BY <1>1, <2>2, HistoryKinds, PutsNew DEF Last
    <3>2. Standing(x.op, j) /\ j \in DOMAIN journal
      BY <1>0, <1>1, <3>1 DEF MovementCancels
    <3>3. journal[j] \in All("life") /\ journal[j].op = x.op
      BY <1>1, <3>1, <3>2 DEF JournalInv, All, Range
    <3>4. Of("plan", x.op) # {}
      BY <3>3 DEF LifeInv
    <3> QED
      BY <3>2, <3>4, StandingStays
  <2> QED
    BY <2>1, <2>2
<1>2. ASSUME NEW t \in Range(Target), NEW j \in DOMAIN journal', NEW r, generation'[t] # None, generation'[t].open,
             generation'[t].op = r, journal'[j].ns = "life", journal'[j].op = r, journal'[j].n <= 7
      PROVE  Standing(r, j)'
  <2>1. CASE generation[t] # None /\ generation[t].open /\ generation[t].op = r
    <3>1. 1..7 \subseteq Journaled(r) /\ Of("plan", r) # {}
      BY <2>1 DEF GenerationInv
    <3>2. CASE j \in DOMAIN journal
      <4>1. journal'[j] = journal[j]
        BY <3>2, HistoryGrows
      <4>2. Standing(r, j)
        BY <1>0, <1>2, <2>1, <3>2, <4>1, PromotionStage DEF MovementCancels
      <4> QED
        BY <3>1, <3>2, <4>2, StandingStays
    <3>3. CASE j \notin DOMAIN journal
      <4>1. Receipts(p)
        BY <3>3, HistoryKinds, PutsNew
      <4>2. /\ journal' = Append(journal, job[p].rec) /\ job[p].rec \in Records /\ job[p].rec \in targets
            /\ job[p].rec \notin Range(journal) /\ job[p].phase # "check"
        BY <4>1, ReceiptsPut DEF Receipts
      <4> DEFINE x == job[p].rec
      <4>3. x = journal'[j] /\ x.ns = "life" /\ x.op = r /\ x.n <= 7
        BY <1>0, <1>2, <3>3, <4>2, AppendRange
      <4>4. x.n \in 1..7
        <5>1. x.n \in DOMAIN Stages
          BY <4>2, <4>3, LifePut
        <5> QED
          BY <4>3, <5>1, StageTable
      <4>5. PICK s \in Of("life", r) : s.n = x.n /\ Receipted(s)
        BY <3>1, <4>4 DEF Journaled
      <4>6. s = x
        BY <4>2, <4>3, <4>5 DEF CodesInv, Code, Of
      <4> QED
        BY <4>2, <4>5, <4>6 DEF Receipted
    <3> QED
      BY <3>2, <3>3
  <2>2. CASE Observant(p) /\ Planned(p) /\ r = Op(p) /\ UNCHANGED <<targets, journal>>
    <3>1. Standing(r, j) /\ j \in DOMAIN journal
      BY <1>2, <2>2 DEF ObservedInv, StageOf
    <3> QED
      BY <2>2, <3>1, PlanRef, StandingStays
  <2> QED
    BY <1>2, <2>1, <2>2, OpenBefore
<1>3. ASSUME NEW j \in 1..(Len(journal') - 1), Last(journal)'.ns = "life", Stages[Last(journal)'.n] \in Revalidated,
             journal'[j].ns = "life", journal'[j].op = Last(journal)'.op
      PROVE  Standing(Last(journal).op, j)'
  BY <1>1, <1>3
<1> QED
  BY <1>0, <1>2, <1>3, PromotionStage DEF MovementCancels

-----------------------------------------------------------------------------
(* The receipts of a backup, in order.                                     *)

LEMMA BackupMoves ==
    ASSUME TypeOK, JobInv, LeavesInv, NEW p \in Procs, Kinds(p), job'[p].call = "backup"
    PROVE  \/ job'[p].pc = 1 /\ Started(p)
           \/ /\ job[p].call = "backup" /\ job'[p].op = Op(p) /\ Op(p) \in Backups /\ job[p].pc \in 1..8
              /\ \/ /\ Goes(p) /\ job'[p].pc = job[p].pc + 1 /\ job[p].pc # 8
                    /\ job'[p].ref = IF job[p].pc = 4 THEN job[p].rec.n ELSE job[p].ref
                 \/ ~Goes(p) /\ job'[p].pc = job[p].pc /\ job'[p].ref = job[p].ref
<1>1. CASE Started(p)
  BY <1>1, StartedJob
<1>2. CASE Goes(p)
  <2>1. /\ job[p].call = "backup" /\ job'[p].op = Op(p) /\ job[p].pc # Len(Steps["backup"])
        /\ job'[p].pc = job[p].pc + 1
        /\ job'[p].ref = IF Step(p) = "manifest" THEN job[p].rec.n ELSE job[p].ref
    BY <1>2, GoneJob, IdleForms DEF Op
  <2> QED
    BY <1>2, <2>1, BackupPlaces, SetTable
<1>3. CASE ~Started(p) /\ ~Goes(p)
  <2>1. job'[p].call = job[p].call /\ job'[p].op = Op(p) /\ job'[p].pc = job[p].pc /\ job'[p].ref = job[p].ref
    <3>1. CASE Prepares(p) \/ AppendTarget(p)
      BY <3>1, PreparedJob, DecidesAt, TargetJob DEF Op
    <3>3. ~Stopped(p)
      BY StoppedJob
    <3> QED
      BY <1>3, <3>1, <3>3 DEF Kinds, Goes
  <2> QED
    BY <1>3, <2>1, BackupPlaces
<1> QED
  BY <1>1, <1>2, <1>3

LEMMA BackedPreserved ==
    ASSUME TypeOK, JobInv, JournalInv, PendingInv, LeavesInv, BackedInv, NEW p \in Procs, Kinds(p)
    PROVE  BackedInv'
<1>0. \A ns, b : Done(ns, b) \subseteq Done(ns, b)'
  BY RecordsStay DEF Done
<1>1. ASSUME NEW q \in Procs \ {p}, NEW b \in Backups, job'[q].call = "backup", Op(q)' = b
      PROVE  /\ job'[q].pc > 4 => \E x \in Done("manifest", b)' : x.n = job'[q].ref
             /\ job'[q].pc > 5 => \E x \in Done("source", b)' : x.ref = job'[q].ref
             /\ job'[q].pc > 6 => \E x \in Done("prior", b)' : x.ref = job'[q].ref
             /\ job'[q].pc > 7 => \E x \in Done("final", b)' : x.ref = job'[q].ref
  <2>1. job'[q] = job[q] /\ Op(q) = b
    BY <1>1, KindJobs, SameJob
  <2> QED
    BY <1>0, <1>1, <2>1 DEF BackedInv
<1>2. ASSUME NEW b \in Backups, job'[p].call = "backup", Op(p)' = b
      PROVE  /\ job'[p].pc > 4 => \E x \in Done("manifest", b)' : x.n = job'[p].ref
             /\ job'[p].pc > 5 => \E x \in Done("source", b)' : x.ref = job'[p].ref
             /\ job'[p].pc > 6 => \E x \in Done("prior", b)' : x.ref = job'[p].ref
             /\ job'[p].pc > 7 => \E x \in Done("final", b)' : x.ref = job'[p].ref
  <2>1. CASE job'[p].pc = 1
    BY <2>1
  <2>2. CASE job'[p].pc # 1
    <3>1. /\ job[p].call = "backup" /\ job'[p].op = Op(p) /\ Op(p) = b /\ job[p].pc \in 1..8
          /\ \/ /\ Goes(p) /\ job'[p].pc = job[p].pc + 1 /\ job[p].pc # 8
                /\ job'[p].ref = IF job[p].pc = 4 THEN job[p].rec.n ELSE job[p].ref
             \/ ~Goes(p) /\ job'[p].pc = job[p].pc /\ job'[p].ref = job[p].ref
      BY <1>2, <2>2, BackupMoves DEF Op
    <3>2. CASE ~Goes(p)
      BY <1>0, <3>1, <3>2 DEF BackedInv
    <3>3. CASE Goes(p) /\ job[p].pc \in 4..7
      <4>1. AppendReceipt(p)
        <5>1. Appends(p)
          BY <3>1, <3>3, BackupPlaces
        <5> QED
          BY <3>3, <5>1 DEF Goes, Passed
      <4>2. Receipts(p) /\ job[p].phase # "check"
        BY <4>1 DEF AppendReceipt, Receipts
      <4>3. /\ job[p].rec \in targets' /\ job[p].rec \in Range(journal') /\ job[p].rec.op = b
            /\ job[p].rec.ref = job[p].ref
            /\ job[p].rec.ns = Step(p)
        <5>1. /\ job[p].rec.ns = NamespaceOf(Step(p)) /\ job[p].rec.op = Op(p)
              /\ Step(p) \notin Range(Stages) \cup {"head"} => job[p].rec.ref = job[p].ref
          BY <4>2 DEF JobInv
        <5>2. Step(p) \notin Range(Stages) \cup {"head"}
          BY <3>1, <3>3, BackupPlaces
        <5> QED
          BY <3>1, <4>2, <5>1, <5>2, ReceiptsPut DEF NamespaceOf
      <4>5. /\ job[p].pc = 4 => job[p].rec \in Done("manifest", b)'
            /\ job[p].pc = 5 => job[p].rec \in Done("source", b)'
            /\ job[p].pc = 6 => job[p].rec \in Done("prior", b)'
            /\ job[p].pc = 7 => job[p].rec \in Done("final", b)'
        <5>1. /\ job[p].pc = 4 <=> Step(p) = "manifest"
              /\ job[p].pc = 5 <=> Step(p) = "source"
              /\ job[p].pc = 6 <=> Step(p) = "prior"
              /\ job[p].pc = 7 <=> Step(p) = "final"
          BY <3>1, BackupPlaces
        <5> QED
          BY <4>3, <5>1 DEF Done, Of, Receipted, Range
      <4> QED
        BY <1>0, <3>1, <3>3, <4>3, <4>5 DEF BackedInv
    <3>4. CASE Goes(p) /\ job[p].pc \notin 4..7
      BY <3>1, <3>4
    <3> QED
      BY <3>2, <3>3, <3>4
  <2> QED
    BY <2>1, <2>2
<1> QED
  BY <1>1, <1>2 DEF BackedInv

LEMMA OrderPreserved ==
    ASSUME TypeOK, JobInv, JournalInv, PendingInv, KindsInv, OrderInv, BackedInv, NEW p \in Procs, Kinds(p)
    PROVE  OrderInv'
<1>1. CASE ~Receipts(p)
  <2>1. journal' = journal
    BY <1>1, HistoryKinds, PutsNew
  <2> QED
    BY <2>1 DEF OrderInv
<1>2. CASE Receipts(p)
  <2> DEFINE x == job[p].rec
  <2>1. /\ journal' = Append(journal, x) /\ x \in Records /\ journal \in Seq(Records)
        /\ job[p].phase # "check" /\ Running(p)
    BY <1>2, ReceiptsPut DEF Receipts, TypeOK
  <2>2. /\ DOMAIN journal = 1..Len(journal) /\ DOMAIN journal' = 1..(Len(journal) + 1) /\ Len(journal) \in Nat
        /\ \A i \in DOMAIN journal : journal'[i] = journal[i]
        /\ journal'[Len(journal) + 1] = x
    BY <2>1, AppendRange
  <2>3. /\ x.op = Op(p) /\ x.ns = "source" => job[p].call = "backup" /\ job[p].pc = 5 /\ x.ref = job[p].ref
        /\ x.ns = "prior" => job[p].call = "backup" /\ job[p].pc = 6 /\ x.ref = job[p].ref
        /\ x.ns = "final" => job[p].call = "backup" /\ job[p].pc = 7 /\ x.ref = job[p].ref
        /\ x.op = Op(p)
    BY <2>1, PutRecord
  <2> HIDE DEF x
  <2>4. /\ x.ns = "source" => \E y \in Done("manifest", x.op) : y.n = x.ref
        /\ x.ns = "prior" => \E y \in Done("source", x.op) : y.ref = x.ref
        /\ x.ns = "final" => \E y \in Done("prior", x.op) : y.ref = x.ref
    BY <2>3, BackupPlaces DEF BackedInv
  <2>5. \A ns, b : \A y \in Done(ns, b) : \E j \in 1..Len(journal) : journal[j] = y /\ y.ns = ns /\ y.op = b
    BY <2>2 DEF Done, Of, Receipted, Range
  <2>6. ASSUME NEW i \in DOMAIN journal',
               NEW pair \in {<<"manifest", "source">>, <<"source", "prior">>, <<"prior", "final">>},
               journal'[i].ns = pair[2]
        PROVE  \E j \in 1..(i - 1) :
                 /\ journal'[j].ns = pair[1] /\ journal'[j].op = journal'[i].op
                 /\ (IF pair[1] = "manifest" THEN journal'[j].n ELSE journal'[j].ref) = journal'[i].ref
    <3>1. CASE i \in DOMAIN journal
      <4>1. PICK j \in 1..(i - 1) :
                 /\ journal[j].ns = pair[1] /\ journal[j].op = journal[i].op
                 /\ (IF pair[1] = "manifest" THEN journal[j].n ELSE journal[j].ref) = journal[i].ref
        BY <2>2, <2>6, <3>1 DEF OrderInv
      <4>2. j \in DOMAIN journal
        BY <2>2, <3>1
      <4> QED
        BY <2>2, <3>1, <4>1, <4>2
    <3>2. CASE i \notin DOMAIN journal
      <4>1. i = Len(journal) + 1 /\ journal'[i] = x /\ 1..(i - 1) = 1..Len(journal)
        BY <2>2, <3>2
      <4>2. PICK y \in Done(pair[1], x.op) : (IF pair[1] = "manifest" THEN y.n ELSE y.ref) = x.ref
        BY <2>4, <2>6, <4>1
      <4>3. PICK j \in 1..Len(journal) : journal[j] = y /\ y.ns = pair[1] /\ y.op = x.op
        BY <2>5
      <4> QED
        BY <2>2, <4>1, <4>2, <4>3
    <3> QED
      BY <3>1, <3>2
  <2> QED
    BY <2>6 DEF OrderInv
<1> QED
  BY <1>1, <1>2

\* What is put last.
LEMMA LastPreserved ==
    ASSUME TypeOK, JobInv, CodesInv, JournalInv, PendingInv, KindsInv, LeavesInv, StagedInv, ProgressInv, LifeInv,
           BackedInv, LastInv, NEW p \in Procs, Kinds(p)
    PROVE  LastInv'
<1>0. /\ \A ns, b : Done(ns, b) \subseteq Done(ns, b)'
      /\ \A x : Receipted(x) => Receipted(x)'
  BY RecordsStay DEF Done
<1>1. ASSUME NEW x \in targets', x \notin targets
      PROVE  x = job[p].rec /\ job[p].phase # "check" /\ Puts(p)
  <2>1. targets' = targets \/ (Puts(p) /\ targets' = targets \cup {job[p].rec})
    BY HistoryKinds, ReceiptsPut, PutsNew
  <2> QED
    BY <1>1, <2>1 DEF Puts
<1>2. ASSUME NEW x \in All("final")' PROVE \E o \in Done("prior", x.op)' : o.ref = x.ref
  <2>1. \E o \in Done("prior", x.op) : o.ref = x.ref
    <3>1. CASE x \in targets
      BY <1>2, <3>1 DEF All, LastInv
    <3>2. CASE x \notin targets
      <4>1. x = job[p].rec /\ job[p].phase # "check" /\ x.ns = "final"
        BY <1>1, <1>2, <3>2 DEF All
      <4>2. x.op = Op(p) /\ job[p].call = "backup" /\ job[p].pc = 7 /\ x.ref = job[p].ref
        BY <4>1, PutRecord
      <4> QED
        BY <4>2, BackupPlaces DEF BackedInv
    <3> QED
      BY <3>1, <3>2
  <2> QED
    BY <1>0, <2>1
<1>3. ASSUME NEW x \in All("life")', x.n = 10, ~Receipted(x)' PROVE lock'[Target[x.op]]
  <2>0. x \in targets' /\ x.ns = "life" /\ ~Receipted(x)
    BY <1>0, <1>3 DEF All
  <2>1. CASE x \notin targets
    <3>1. x = job[p].rec /\ job[p].phase # "check" /\ Puts(p)
      BY <1>1, <2>0, <2>1
    <3>2. x.op = Op(p) /\ job[p].call = "restore" /\ job[p].pc = 21
      BY <1>3, <2>0, <3>1, PutRecord, StageAtTable
    <3>3. lock[Target[Op(p)]]
      BY <3>2, Thresholds DEF ProgressInv
    <3>4. lock' = lock
      BY <3>1 DEF Puts, AppendTarget, Stopped, roots
    <3> QED
      BY <3>2, <3>3, <3>4
  <2>2. CASE x \in targets
    <3>1. x \in All("life") /\ lock[Target[x.op]]
      BY <1>3, <2>0, <2>2 DEF All, LastInv
    <3>2. x.op \in Restores /\ Target[x.op] \in Range(Target)
      BY <2>0, <2>2, TargetRange DEF KindsInv
    <3>3. CASE ~ReleaseLock(p)
      <4>1. lock' = lock \/ TakeLock(p)
        BY <3>3, RootKinds DEF RootSteps, MakeStaging, CopyBytes, WriteControls, SealStaging, Promote, Expose, Shuts
      <4> QED
        BY <3>1, <3>2, <4>1 DEF TakeLock, TypeOK
    <3>4. CASE ReleaseLock(p)
      <4>1. job[p].call = "restore" /\ job[p].pc = 22 /\ Op(p) \in Restores
        BY <3>4, RootPlaces DEF RootSteps
      <4>2. Target[Op(p)] # Target[x.op]
        <5> SUFFICES ASSUME Target[Op(p)] = Target[x.op] PROVE FALSE
          OBVIOUS
        <5>1. generation[Target[Op(p)]].op = Op(p)
          BY <4>1, Thresholds DEF ProgressInv
        <5>2. generation[Target[x.op]].op = x.op
          BY <1>3, <3>1 DEF LifeInv
        <5>3. 10 \in Journaled(x.op)
          BY <4>1, <5>1, <5>2, StageTable, StageAtTable DEF StagedInv
        <5>4. PICK y \in Of("life", x.op) : y.n = 10 /\ Receipted(y)
          BY <5>3 DEF Journaled
        <5>5. y \in targets /\ Code(y) = Code(x)
          BY <1>3, <2>0, <5>4 DEF Of, Code
        <5> QED
          BY <2>0, <2>2, <5>4, <5>5 DEF CodesInv
      <4> QED
        BY <3>1, <3>2, <3>4, <4>2 DEF ReleaseLock, TypeOK
    <3> QED
      BY <3>3, <3>4
  <2> QED
    BY <2>1, <2>2
<1> QED
  BY <1>2, <1>3 DEF LastInv

-----------------------------------------------------------------------------
(* The object store.                                                       *)

LEMMA StoreKinds ==
    ASSUME JobInv, NEW p \in Procs, Kinds(p)
    PROVE  \/ /\ UNCHANGED <<objects, temporary>>
              /\ Passed(p) /\ job[p].call = "backup" => job[p].pc \notin {1, 2, 3} /\ VerifyBackup(p)
           \/ StageObject(p) /\ job[p].call = "backup" /\ job[p].pc = 1
           \/ PublishObject(p) /\ job[p].call = "backup" /\ job[p].pc = 2
           \/ RetireTemporary(p) /\ job[p].call = "backup" /\ job[p].pc = 3
           \/ /\ Stopped(p) /\ ~Passed(p) /\ objects' = objects
              /\ temporary' \in {temporary, [temporary EXCEPT ![p] = None]}
<1>1. CASE ~Passed(p) /\ (Started(p) \/ Prepares(p) \/ AppendTarget(p) \/ AppendReceipt(p))
  <2>1. UNCHANGED stores
    BY <1>1 DEF Started, Prepares, Decides, AppendSeal, AppendCheck, AppendHead, AppendTarget, AppendReceipt
  <2> QED
    BY <1>1, <2>1 DEF stores
<1>2. CASE ~Passed(p) /\ Stopped(p)
  BY <1>2 DEF Stopped
<1>3. CASE Passed(p)
  <2>1. /\ ~ReadRetention(p) /\ ~AppendSeal(p) /\ ~AppendCheck(p) /\ ~AppendHead(p)
        /\ ~AppendTarget(p) /\ ~AppendReceipt(p) /\ Works(p)
    BY <1>3, PassedParts DEF Passed
  <2>2. CASE StageObject(p) \/ PublishObject(p) \/ RetireTemporary(p)
    BY <2>2, BackupPlaces DEF StageObject, PublishObject, RetireTemporary, At
  <2>3. CASE VerifyBackup(p) \/ VerifyAgain(p)
    BY <2>3, BackupPlaces DEF VerifyBackup, VerifyAgain, At, stores
  <2>4. CASE \/ CheckNames(p) \/ TakeLock(p) \/ MakeStaging(p) \/ CopyBytes(p) \/ WriteControls(p)
             \/ SealStaging(p) \/ Observe(p) \/ Promote(p) \/ Compare(p) \/ Expose(p) \/ ReleaseLock(p)
    <3>1. UNCHANGED stores /\ job[p].call = "restore"
      BY <2>4 DEF CheckNames, TakeLock, MakeStaging, CopyBytes, WriteControls, SealStaging, Observe,
                  Promote, Compare, Expose, ReleaseLock, OnRoots, At
    <3> QED
      BY <3>1 DEF stores
  <2> QED
    BY <2>1, <2>2, <2>3, <2>4 DEF Works
<1> QED
  BY <1>1, <1>2, <1>3 DEF Kinds

\* The name that is linked is its object's.
LEMMA Published ==
    ASSUME TypeOK, TemporaryInv, NEW p \in Procs, PublishObject(p), job[p].call = "backup", job[p].pc = 2,
           Op(p) \in Backups
    PROVE  LET c == Content[Op(p)]
           IN /\ objects' = objects \cup {c} /\ c \in Range(Content)
              /\ temporary'[p] = [object |-> c, linked |-> c \notin objects]
              /\ \A q \in Procs \ {p} : temporary'[q] = temporary[q]
              /\ temporary' = [temporary EXCEPT ![p] = [object |-> c, linked |-> c \notin objects]]
<1>1. temporary[p] = [object |-> Content[Op(p)], linked |-> FALSE] /\ p \in DOMAIN temporary
  BY DEF TemporaryInv, TypeOK
<1>2. temporary' = [temporary EXCEPT ![p] = [temporary[p] EXCEPT !.linked = Content[Op(p)] \notin objects]]
  BY <1>1 DEF PublishObject
<1>3. [temporary[p] EXCEPT !.linked = Content[Op(p)] \notin objects]
        = [object |-> Content[Op(p)], linked |-> Content[Op(p)] \notin objects]
  BY <1>1
<1>4. temporary \in [Procs -> Names \cup {None}]
  BY DEF TypeOK
<1> QED
  BY <1>2, <1>3, <1>4, ContentRange DEF PublishObject

LEMMA StoreTypes ==
    ASSUME TypeOK, JobInv, TemporaryInv, NEW p \in Procs, Kinds(p)
    PROVE  objects' \in SUBSET Range(Content) /\ temporary' \in [Procs -> Names \cup {None}]
<1>0. objects \in SUBSET Range(Content) /\ temporary \in [Procs -> Names \cup {None}]
  BY DEF TypeOK
<1>1. CASE StageObject(p) /\ job[p].call = "backup"
  <2>1. [object |-> Content[Op(p)], linked |-> FALSE] \in Names
    BY <1>1, BackupPlaces, ContentRange DEF Names
  <2> QED
    BY <1>0, <1>1, <2>1 DEF StageObject
<1>2. CASE PublishObject(p) /\ job[p].call = "backup" /\ job[p].pc = 2
  <2>1. /\ objects' = objects \cup {Content[Op(p)]} /\ Content[Op(p)] \in Range(Content)
        /\ temporary' = [temporary EXCEPT ![p] = [object |-> Content[Op(p)], linked |-> Content[Op(p)] \notin objects]]
    BY <1>2, BackupPlaces, Published
  <2>2. [object |-> Content[Op(p)], linked |-> Content[Op(p)] \notin objects] \in Names
    BY <2>1 DEF Names
  <2> QED
    BY <1>0, <2>1, <2>2
<1>3. CASE RetireTemporary(p)
  BY <1>0, <1>3 DEF RetireTemporary
<1>4. CASE objects' = objects /\ temporary' \in {temporary, [temporary EXCEPT ![p] = None]}
  BY <1>0, <1>4
<1> QED
  BY <1>1, <1>2, <1>3, <1>4, StoreKinds

\* What is readable stays so: a name is linked only to an object it publishes first.
LEMMA ReadableStays ==
    ASSUME TypeOK, JobInv, TemporaryInv, NEW p \in Procs, Kinds(p), NEW o, Readable(o)
    PROVE  Readable(o)'
<1>0. /\ o \in objects /\ \A q \in Procs : temporary[q] # [object |-> o, linked |-> TRUE]
      /\ temporary \in [Procs -> Names \cup {None}] /\ None \notin Names
  BY NoneIsNothing DEF Readable, TypeOK
<1>1. None # [object |-> o, linked |-> TRUE]
  <2>1. o \in Range(Content)
    BY <1>0 DEF TypeOK
  <2>2. [object |-> o, linked |-> TRUE] \in Names
    BY <2>1 DEF Names
  <2> QED
    BY <1>0, <2>2
<1>2. o \in objects' /\ \A q \in Procs : temporary'[q] # [object |-> o, linked |-> TRUE]
  <2>1. CASE StageObject(p) /\ job[p].call = "backup"
    <3>1. /\ objects' = objects
          /\ temporary' = [temporary EXCEPT ![p] = [object |-> Content[Op(p)], linked |-> FALSE]]
      BY <2>1 DEF StageObject
    <3>2. [object |-> Content[Op(p)], linked |-> FALSE] # [object |-> o, linked |-> TRUE]
      <4>1. [object |-> Content[Op(p)], linked |-> FALSE].linked # [object |-> o, linked |-> TRUE].linked
        OBVIOUS
      <4> QED
        BY <4>1
    <3> QED
      BY <1>0, <3>1, <3>2
  <2>2. CASE PublishObject(p) /\ job[p].call = "backup" /\ job[p].pc = 2
    <3> DEFINE c == Content[Op(p)]
    <3>1. /\ objects' = objects \cup {c} /\ temporary'[p] = [object |-> c, linked |-> c \notin objects]
          /\ \A q \in Procs \ {p} : temporary'[q] = temporary[q]
      BY <2>2, BackupPlaces, Published
    <3>2. [object |-> c, linked |-> c \notin objects] # [object |-> o, linked |-> TRUE]
      <4>1. SUFFICES ASSUME [object |-> c, linked |-> c \notin objects] = [object |-> o, linked |-> TRUE]
                     PROVE  FALSE
        OBVIOUS
      <4>2. c = o /\ (c \notin objects) = TRUE
        BY <4>1
      <4> QED
        BY <1>0, <4>2
    <3> QED
      BY <1>0, <3>1, <3>2
  <2>3. CASE RetireTemporary(p)
    <3>1. objects' = objects /\ temporary' = [temporary EXCEPT ![p] = None]
      BY <2>3 DEF RetireTemporary
    <3> QED
      BY <1>0, <1>1, <3>1
  <2>4. CASE objects' = objects /\ temporary' \in {temporary, [temporary EXCEPT ![p] = None]}
    BY <1>0, <1>1, <2>4
  <2> QED
    BY <2>1, <2>2, <2>3, <2>4, StoreKinds
<1> QED
  BY <1>2 DEF Readable

LEMMA TemporaryPreserved ==
    ASSUME TypeOK, JobInv, LeavesInv, TemporaryInv, NEW p \in Procs, Kinds(p)
    PROVE  TemporaryInv'
<1>0. temporary \in [Procs -> Names \cup {None}]
  BY DEF TypeOK
<1>1. ASSUME NEW q \in Procs \ {p}, job'[q].call = "backup", job'[q].pc = 2
      PROVE  temporary'[q] = [object |-> Content[Op(q)'], linked |-> FALSE]
  <2>1. job'[q] = job[q] /\ Op(q)' = Op(q)
    BY KindJobs, SameJob
  <2>2. temporary'[q] = temporary[q]
    BY <1>0, StoreKinds, BackupPlaces, Published DEF StageObject, RetireTemporary
  <2> QED
    BY <1>1, <2>1, <2>2 DEF TemporaryInv
<1>2. ASSUME job'[p].call = "backup", job'[p].pc = 2
      PROVE  temporary'[p] = [object |-> Content[Op(p)'], linked |-> FALSE]
  <2>1. /\ job[p].call = "backup" /\ Op(p)' = Op(p) /\ job[p].pc \in 1..8
        /\ \/ Goes(p) /\ job[p].pc = 1
           \/ ~Goes(p) /\ job[p].pc = 2
    BY <1>2, BackupMoves DEF Op
  <2>2. ~Stopped(p)
    BY <1>2, StoppedJob
  <2>3. CASE Goes(p) /\ job[p].pc = 1
    <3>1. Passed(p)
      BY <2>1, <2>3, BackupPlaces DEF Goes, AppendReceipt
    <3>2. StageObject(p)
      BY <2>1, <2>2, <2>3, <3>1, StoreKinds
    <3> QED
      BY <1>0, <2>1, <3>2 DEF StageObject
  <2>4. CASE ~Goes(p) /\ job[p].pc = 2
    <3>1. ~Passed(p)
      BY <2>4 DEF Goes
    <3>2. ~PublishObject(p)
      <4>1. PublishObject(p) => Works(p) /\ Running(p) /\ ~Appends(p) /\ Advance(p) /\ UNCHANGED historyVars
        BY <2>1, <2>4, BackupPlaces DEF PublishObject, Works, historyVars
      <4> QED
        BY <3>1, <4>1 DEF Passed
    <3>3. temporary' = temporary
      BY <2>2, <2>4, <3>2, StoreKinds
    <3> QED
      BY <2>1, <2>4, <3>3 DEF TemporaryInv
  <2> QED
    BY <2>1, <2>3, <2>4
<1> QED
  BY <1>1, <1>2 DEF TemporaryInv, Op

-----------------------------------------------------------------------------
(* What was answered.                                                      *)

\* A step answers at the end of a call.
LEMMA SaidKinds ==
    ASSUME TypeOK, JobInv, NEW p \in Procs, Kinds(p)
    PROVE  \/ said' = said
           \/ Goes(p) /\ job[p].pc = Len(Steps[job[p].call]) /\ job'[p] = Idle
              /\ said' = said \cup {<<job[p].call, Op(p)>>}
<1>1. CASE Goes(p)
  BY <1>1, GoneJob
<1>2. CASE Started(p) \/ Prepares(p) \/ AppendTarget(p) \/ Stopped(p)
  BY <1>2 DEF Started, Prepares, Decides, AppendSeal, AppendCheck, AppendHead, AppendTarget, Stopped
<1> QED
  BY <1>1, <1>2 DEF Kinds, Goes

\* A restore's promotion finds no generation.
LEMMA PromotesFree ==
    ASSUME TypeOK, JobInv, NEW p \in Procs, Kinds(p), Goes(p), job[p].call = "restore", job[p].pc = 16
    PROVE  generation[Target[Op(p)]] = None
<1>1. ~Appends(p) /\ Step(p) = "rename"
  BY RestorePlaces
<1>2. Passed(p)
  BY <1>1 DEF Goes, AppendReceipt
<1>3. job'[p].call = "restore"
  <2>1. job[p].pc # Len(Steps[job[p].call])
    BY RestoreTable
  <2> QED
    BY <2>1, GoneJob
<1>4. RootSteps(p)
  BY <1>2, <1>3, RootKinds, StoppedJob
<1>5. Promote(p)
  BY <1>4, RootPlaces DEF RootSteps
<1>6. Allowed(p)
  BY <1>5 DEF Promote
<1> QED
  BY <1>1, <1>6 DEF Allowed

\* What SaidInv says of a restore, and of a backup.
Restored(r) ==
  LET g == generation[Target[r]]
  IN /\ Journaled(r) = DOMAIN Stages /\ g # None /\ g.op = r /\ g.open /\ g.files = Whole
     /\ \A p \in Procs : job[p].call = "restore" /\ Op(p) = r => job[p].pc <= AtRename
Ordered(b, call) ==
  \E m \in Of("manifest", b), s \in Of("source", b), o \in Of("prior", b), f \in Of("final", b) :
    /\ {m, s, o} \subseteq Range(journal)
    /\ Position(m) < Position(s) /\ Position(s) < Position(o)
    /\ Receipted(f) => Position(o) < Position(f)
    /\ call = "backup" => Receipted(f)

LEMMA SaidParts ==
    SaidInv <=>
      /\ \A r \in Restores, call \in {"restore", "restoreAgain"} : <<call, r>> \in said => Restored(r)
      /\ \A b \in Backups, call \in {"backup", "backupAgain"} :
            <<call, b>> \in said => Readable(Content[b]) /\ Ordered(b, call)
  BY Zenon DEF SaidInv, AnswersLast, Restored, Ordered

\* A replay's step.
LEMMA AgainStep ==
    ASSUME JobInv, NEW p \in Procs, job[p].call \in Again, Goes(p)
    PROVE  /\ VerifyAgain(p)
           /\ job[p].call = "backupAgain" => Projected(Manifest(job[p].ref))
           /\ job[p].call = "restoreAgain" => Intact(Op(p))
<1>1. ~Appends(p) /\ Step(p) = IF job[p].call = "backupAgain" THEN "projection" ELSE "intact"
  BY AgainPlaces
<1>2. Passed(p) /\ job[p].call \notin {"backup", "restore"}
  BY <1>1 DEF Goes, AppendReceipt, Again
<1>3. ~RootSteps(p)
  BY <1>2, RootPlaces
<1>4. VerifyAgain(p)
  BY <1>2, <1>3, PassedParts DEF Passed, Works, RootSteps, StageObject, PublishObject, RetireTemporary,
                                 VerifyBackup, CheckNames, Observe, Compare, OnRoots, At
<1>5. Allowed(p)
  BY <1>4 DEF VerifyAgain
<1> QED
  BY <1>1, <1>4, <1>5 DEF Allowed, Again

LEMMA RestoredStays ==
    ASSUME TypeOK, JobInv, JournalInv, PendingInv, LeavesInv, ProgressInv, GenerationInv,
           NEW p \in Procs, Kinds(p), NEW r \in Restores, Restored(r)
    PROVE  Restored(r)'
<1> DEFINE t == Target[r]   g == generation[t]   h == generation'[t]
<1>0. /\ Journaled(r) = DOMAIN Stages /\ g # None /\ g.op = r /\ g.open /\ g.files = Whole
      /\ \A q \in Procs : job[q].call = "restore" /\ Op(q) = r => job[q].pc <= AtRename
      /\ t \in Range(Target)
  BY TargetRange DEF Restored
<1>1. Journaled(r)' = DOMAIN Stages
  <2>1. Journaled(r) \subseteq Journaled(r)'
    BY RecordsStay
  <2>2. Journaled(r)' \subseteq DOMAIN Stages
    BY DEF Journaled
  <2> QED
    BY <1>0, <2>1, <2>2
<1>2. h # None /\ h.op = r /\ h.files = Whole /\ h.open
  <2>1. /\ h # None /\ h.op = g.op /\ h.by = g.by /\ h.files = g.files
        /\ g.open /\ ~h.open => job[p].call = "restore" /\ g.by = p /\ g.op = Op(p)
    BY <1>0, GenerationStays
  <2>2. ASSUME ~h.open PROVE FALSE
    <3>1. job[p].call = "restore" /\ g.by = p /\ g.op = Op(p) /\ job[p].pc \in 1..22
      BY <1>0, <2>1, <2>2, RestorePlaces
    <3>2. job[p].pc > AtRename
      BY <1>0, <3>1 DEF GenerationInv
    <3> QED
      BY <1>0, <3>1, <3>2, Thresholds
  <2> QED
    BY <1>0, <2>1, <2>2
<1>3. ASSUME NEW q \in Procs, job'[q].call = "restore", job'[q].op = r PROVE job'[q].pc <= AtRename
  <2>1. CASE q # p
    BY <1>0, <1>3, <2>1, KindJobs DEF Op
  <2>2. CASE q = p
    <3>1. CASE job'[p].pc = 1
      BY <2>2, <3>1, Thresholds
    <3>2. CASE job'[p].pc # 1
      <4>1. /\ job[p].call = "restore" /\ Op(p) = r /\ job[p].pc \in 1..22
            /\ \/ Goes(p) /\ job'[p].pc = job[p].pc + 1
               \/ ~Goes(p) /\ job'[p].pc = job[p].pc
        BY <1>3, <2>2, <3>2, RestoreMoves
      <4>2. ~(Goes(p) /\ job[p].pc = 16)
        BY <1>0, <4>1, PromotesFree
      <4> QED
        BY <1>0, <2>2, <4>1, <4>2, Thresholds
    <3> QED
      BY <3>1, <3>2
  <2> QED
    BY <2>1, <2>2
<1> QED
  BY <1>1, <1>2, <1>3 DEF Restored, Op

\* The last step of a restore leaves it so.
LEMMA RestoredNow ==
    ASSUME TypeOK, JobInv, JournalInv, PendingInv, RunnerInv, StagedInv, ProgressInv, GenerationInv, LeavesInv,
           NEW p \in Procs, Kinds(p), Goes(p), job[p].call = "restore", job[p].pc = 22, job'[p] = Idle
    PROVE  \A r \in Restores : r = Op(p) => Restored(r)'
<1> DEFINE r == Op(p)   t == Target[r]   g == generation[t]   h == generation'[t]
<1>0. r \in Restores /\ t \in Range(Target) /\ Step(p) = "unlock"
  BY RestorePlaces, TargetRange
<1>1. \A n \in DOMAIN Stages : n \in Journaled(r)
  <2>1. \A n \in DOMAIN Stages : job[p].pc > StageAt[n]
    BY StageTable, StageAtTable
  <2> QED
    BY <2>1 DEF StagedInv
<1>2. \A k : Journaled(k) \subseteq Journaled(k)'
  BY RecordsStay
<1>3. g # None /\ g.op = r /\ g.by = p /\ g.open
  BY Thresholds DEF ProgressInv
<1>4. g.files = Whole
  BY <1>0, <1>3 DEF GenerationInv
<1>5. h # None /\ h.op = r /\ h.files = Whole /\ h.open
  BY <1>0, <1>3, <1>4, GenerationStays DEF Shuts
<1>6. ASSUME NEW q \in Procs, job'[q].call = "restore", job'[q].op = r PROVE job'[q].pc <= AtRename
  <2>1. q # p
    BY <1>6, IdleForms
  <2>2. job'[q] = job[q] /\ job[q].pc \in 1..22
    BY <1>6, <2>1, KindJobs, RestorePlaces
  <2>3. ~Planned(q)
    BY <1>6, <2>1, <2>2, Thresholds DEF RunnerInv, Planned, Op
  <2> QED
    BY <1>6, <2>2, <2>3, Thresholds DEF Planned
<1>7. \A k \in Restores : k = r /\ Journaled(k)' = DOMAIN Stages => Restored(k)'
  BY <1>5, <1>6 DEF Restored, Op
<1>8. \A k \in Restores : k = r => Journaled(k)' = DOMAIN Stages
  BY <1>1, <1>2 DEF Journaled
<1> QED
  BY <1>7, <1>8

\* A restore that is found intact is so, whether or not the history is complete.
LEMMA RestoredBefore ==
    ASSUME TypeOK, JobInv, JournalInv, LifeInv, ProgressInv, LastInv, NEW r \in Restores, Intact(r)
    PROVE  Restored(r)
<1> DEFINE t == Target[r]   g == generation[t]
<1>0. /\ Lifecycle(r) = DOMAIN Stages /\ ~lock[t] /\ g # None /\ g.open /\ g.files = Whole
  BY DEF Intact
<1>1. PICK x \in Of("life", r) : x.n = 10
  BY <1>0, StageTable DEF Lifecycle
<1>2. x \in All("life") /\ x.op = r /\ x.n >= 8
  BY <1>1 DEF Of, All
<1>3. g.op = r /\ 1..(x.n - 1) \subseteq Journaled(r)
  BY <1>2 DEF LifeInv
<1>4. Receipted(x)
  BY <1>0, <1>1, <1>2 DEF LastInv
<1>5. Journaled(r) = DOMAIN Stages
  <2>1. 10 \in Journaled(r)
    BY <1>1, <1>4, StageTable DEF Journaled
  <2>2. 1..9 \subseteq Journaled(r)
    BY <1>1, <1>3
  <2>3. Journaled(r) \subseteq DOMAIN Stages
    BY DEF Journaled
  <2> QED
    BY <2>1, <2>2, <2>3, StageTable
<1>6. ASSUME NEW q \in Procs, job[q].call = "restore", Op(q) = r PROVE job[q].pc <= AtRename
  <2>1. job[q].pc \in 1..22 /\ ~(job[q].pc > AtLock)
    BY <1>0, <1>6, RestorePlaces DEF ProgressInv
  <2> QED
    BY <2>1, Thresholds
<1> QED
  BY <1>0, <1>3, <1>5, <1>6 DEF Restored

\* A receipt's place.
LEMMA Positions ==
    ASSUME JournalInv
    PROVE  \A i \in DOMAIN journal : Position(journal[i]) = i
  BY DEF JournalInv, Position

LEMMA OrderedStays ==
    ASSUME TypeOK, JobInv, JournalInv, PendingInv, NEW p \in Procs, Kinds(p), NEW b \in Backups,
           NEW call \in {"backup", "backupAgain"}, Ordered(b, call)
    PROVE  Ordered(b, call)'
<1>1. JournalInv'
  BY JournalPreserved
<1>2. /\ DOMAIN journal \subseteq DOMAIN journal' /\ \A i \in DOMAIN journal : journal'[i] = journal[i]
      /\ Range(journal) \subseteq Range(journal')
      /\ \A ns, op : Of(ns, op) \subseteq Of(ns, op)'
  BY HistoryGrows, RecordsStay
<1>3. \A x \in Range(journal) : \E i \in DOMAIN journal : x = journal[i] /\ Position(x) = i
  BY Positions DEF Range
<1>4. \A i \in DOMAIN journal' : (CHOOSE j \in DOMAIN journal' : journal'[j] = journal'[i]) = i
  BY <1>1 DEF JournalInv
<1>5. \A x \in Range(journal) : (CHOOSE j \in DOMAIN journal' : journal'[j] = x) = Position(x)
  BY <1>2, <1>3, <1>4
<1>6. PICK m \in Of("manifest", b), s \in Of("source", b), o \in Of("prior", b), f \in Of("final", b) :
        /\ {m, s, o} \subseteq Range(journal)
        /\ Position(m) < Position(s) /\ Position(s) < Position(o)
        /\ Receipted(f) => Position(o) < Position(f)
        /\ call = "backup" => Receipted(f)
  BY DEF Ordered
<1>7. /\ Position(m)' = Position(m) /\ Position(s)' = Position(s) /\ Position(o)' = Position(o)
      /\ Receipted(f) => Position(f)' = Position(f)
  BY <1>5, <1>6 DEF Position, Receipted
<1>8. {m, s, o} \subseteq Range(journal') /\ m \in Of("manifest", b)' /\ s \in Of("source", b)'
      /\ o \in Of("prior", b)' /\ f \in Of("final", b)' /\ (Receipted(f) => Receipted(f)')
  BY <1>2, <1>6, RecordsStay
<1>9. ASSUME Receipted(f)', ~Receipted(f) PROVE Position(o)' < Position(f)'
  <2>1. PICK i \in DOMAIN journal' : journal'[i] = f
    BY <1>9 DEF Receipted, Range
  <2>2. i \notin DOMAIN journal
    BY <1>2, <1>9, <2>1 DEF Receipted, Range
  <2>3. Position(f)' = i
    BY <1>4, <2>1 DEF Position
  <2>4. Position(o) \in DOMAIN journal
    BY <1>3, <1>6
  <2>5. /\ DOMAIN journal = 1..Len(journal) /\ Len(journal) \in Nat
        /\ DOMAIN journal' = 1..Len(journal') /\ Len(journal') \in Nat
    BY HistoryGrows DEF TypeOK
  <2> QED
    BY <1>7, <2>1, <2>2, <2>3, <2>4, <2>5
<1> QED
  BY <1>6, <1>7, <1>8, <1>9 DEF Ordered

\* The last record of a backup has the others on the journal, and before it.
LEMMA OrderedBy ==
    ASSUME TypeOK, JournalInv, KindsInv, OrderInv, LastInv, NEW f \in targets, f.ns = "final",
           NEW call \in {"backup", "backupAgain"}, call = "backup" => Receipted(f)
    PROVE  f.op \in Backups /\ Ordered(f.op, call) /\ \E m \in Of("manifest", f.op) : m.n = f.ref
<1>2. /\ DOMAIN journal = 1..Len(journal) /\ Len(journal) \in Nat
      /\ \A i \in DOMAIN journal : journal[i] \in targets /\ journal[i] \in Range(journal)
  BY DEF TypeOK, JournalInv, Range
<1>3. PICK k \in DOMAIN journal : /\ journal[k].ns = "prior" /\ journal[k].op = f.op /\ journal[k].ref = f.ref
                                  /\ Receipted(f) => k < Position(f)
  <2>1. CASE Receipted(f)
    <3>1. PICK l \in DOMAIN journal : journal[l] = f
      BY <2>1 DEF Receipted, Range
    <3> DEFINE pair == <<"prior", "final">>
    <3>2. pair \in {<<"manifest", "source">>, <<"source", "prior">>, <<"prior", "final">>}
          /\ pair[1] = "prior" /\ pair[2] = "final"
      OBVIOUS
    <3> HIDE DEF pair
    <3>3. PICK k \in 1..(l - 1) : journal[k].ns = "prior" /\ journal[k].op = f.op /\ journal[k].ref = f.ref
      BY <3>1, <3>2 DEF OrderInv
    <3>4. Position(f) = l
      BY <3>1, Positions
    <3> QED
      BY <1>2, <3>1, <3>3, <3>4
  <2>2. CASE ~Receipted(f)
    <3>1. f \in All("final")
      BY DEF All
    <3>2. PICK o \in Done("prior", f.op) : o.ref = f.ref
      BY <3>1 DEF LastInv
    <3>3. PICK k \in DOMAIN journal : journal[k] = o
      BY <3>2 DEF Done, Receipted, Range
    <3> QED
      BY <2>2, <3>2, <3>3 DEF Done, Of
  <2> QED
    BY <2>1, <2>2
<1>4. k \in DOMAIN journal
  OBVIOUS
<1>5. PICK j \in 1..(k - 1) : journal[j].ns = "source" /\ journal[j].op = f.op /\ journal[j].ref = f.ref
  <2> DEFINE pair == <<"source", "prior">>
  <2>1. pair \in {<<"manifest", "source">>, <<"source", "prior">>, <<"prior", "final">>}
        /\ pair[1] = "source" /\ pair[2] = "prior"
    OBVIOUS
  <2> HIDE DEF pair
  <2> QED
    BY <1>3, <1>4, <2>1 DEF OrderInv
<1>6. j \in DOMAIN journal
  BY <1>2, <1>4, <1>5
<1>7. PICK i \in 1..(j - 1) : journal[i].ns = "manifest" /\ journal[i].op = f.op /\ journal[i].n = f.ref
  <2> DEFINE pair == <<"manifest", "source">>
  <2>1. pair \in {<<"manifest", "source">>, <<"source", "prior">>, <<"prior", "final">>}
        /\ pair[1] = "manifest" /\ pair[2] = "source"
    OBVIOUS
  <2> HIDE DEF pair
  <2> QED
    BY <1>5, <1>6, <2>1 DEF OrderInv
<1>8. i \in DOMAIN journal
  BY <1>2, <1>6, <1>7
<1>9. /\ Position(journal[i]) = i /\ Position(journal[j]) = j /\ Position(journal[k]) = k /\ i < j /\ j < k
  BY <1>2, <1>3, <1>4, <1>5, <1>6, <1>7, <1>8, Positions
<1>10. /\ journal[i] \in Of("manifest", f.op) /\ journal[j] \in Of("source", f.op)
       /\ journal[k] \in Of("prior", f.op) /\ f \in Of("final", f.op)
       /\ {journal[i], journal[j], journal[k]} \subseteq Range(journal)
  BY <1>2, <1>3, <1>4, <1>5, <1>6, <1>7, <1>8 DEF Of
<1>11. f.op \in Backups
  BY DEF KindsInv
<1> QED
  BY <1>3, <1>7, <1>9, <1>10, <1>11 DEF Ordered

\* A backup that is verified at its end has its receipts, and its bytes.
LEMMA BackedNow ==
    ASSUME TypeOK, JobInv, CodesInv, JournalInv, KindsInv, OrderInv, BackedInv, LastInv, NEW p \in Procs, Kinds(p),
           Goes(p), job[p].call = "backup", job[p].pc = 8
    PROVE  Op(p) \in Backups /\ Readable(Content[Op(p)]) /\ Ordered(Op(p), "backup")
<1>0. Op(p) \in Backups /\ ~Appends(p) /\ Step(p) = "verify"
  BY BackupPlaces
<1>1. Projected(Manifest(job[p].ref))
  <2>1. Passed(p)
    BY <1>0 DEF Goes, AppendReceipt
  <2>2. VerifyBackup(p)
    BY <2>1, StoreKinds
  <2> QED
    BY <1>0, <2>2 DEF VerifyBackup, Allowed, Verified
<1>2. PICK m \in Done("manifest", Op(p)) : m.n = job[p].ref
  BY <1>0 DEF BackedInv
<1>3. m \in All("manifest") /\ m.op = Op(p)
  BY <1>2 DEF Done, Of, All
<1>4. Manifest(job[p].ref) = m
  BY <1>2, <1>3, OnlyOne DEF Manifest
<1>5. PICK f \in Done("final", Op(p)) : f.ref = job[p].ref
  BY <1>0 DEF BackedInv
<1>6. Ordered(Op(p), "backup")
  BY <1>5, OrderedBy DEF Done, Of
<1> QED
  BY <1>0, <1>1, <1>3, <1>4, <1>6 DEF Projected

\* One that is verified again has its bytes, and all its records but perhaps the last receipt.
LEMMA BackedAgain ==
    ASSUME TypeOK, JobInv, CodesInv, JournalInv, KindsInv, OrderInv, LastInv, NEW p \in Procs, Goes(p),
           job[p].call = "backupAgain"
    PROVE  Op(p) \in Backups /\ Readable(Content[Op(p)]) /\ Ordered(Op(p), "backupAgain")
<1>0. Op(p) \in Backups /\ Projected(Manifest(job[p].ref))
  BY AgainPlaces, AgainStep DEF Again
<1>1. PICK m \in Of("manifest", Op(p)) : m.n = job[p].ref
  BY DEF KindsInv
<1>2. m \in All("manifest") /\ m.op = Op(p)
  BY <1>1 DEF Of, All
<1>3. Manifest(job[p].ref) = m
  BY <1>1, <1>2, OnlyOne DEF Manifest
<1>4. PICK f \in All("final") : f.ref = m.n
  <2>1. Cardinality({x \in All("final") : x.ref = m.n}) = 1
    BY <1>0, <1>3 DEF Projected
  <2> DEFINE finals == {x \in All("final") : x.ref = m.n}
  <2>2. finals # {}
    <3> HIDE DEF finals
    <3>1. Cardinality(finals) = 1
      BY <2>1 DEF finals
    <3> QED
      BY <3>1, FS_EmptySet
  <2> QED
    BY <2>2
<1>5. f \in targets /\ f.ns = "final"
  BY DEF All
<1>6. Ordered(f.op, "backupAgain") /\ \E x \in Of("manifest", f.op) : x.n = f.ref
  BY <1>5, OrderedBy
<1>7. f.op = Op(p)
  <2>1. PICK x \in Of("manifest", f.op) : x.n = f.ref
    BY <1>6
  <2>2. x \in All("manifest") /\ x.op = f.op
    BY DEF Of, All
  <2> QED
    BY <1>2, <1>4, <2>1, <2>2, OnlyOne
<1>8. Readable(Content[m.op])
  BY <1>0, <1>3 DEF Projected
<1> QED
  BY <1>0, <1>2, <1>6, <1>7, <1>8

LEMMA SaidPreserved ==
    ASSUME TypeOK, JobInv, CodesInv, JournalInv, PendingInv, KindsInv, LeavesInv, RunnerInv, StagedInv,
           ProgressInv, LifeInv, GenerationInv, OrderInv, BackedInv, LastInv, TemporaryInv, SaidInv,
           NEW p \in Procs, Kinds(p)
    PROVE  SaidInv'
<1>0. /\ \A r \in Restores, call \in {"restore", "restoreAgain"} : <<call, r>> \in said => Restored(r)
      /\ \A b \in Backups, call \in {"backup", "backupAgain"} :
            <<call, b>> \in said => Readable(Content[b]) /\ Ordered(b, call)
  BY SaidParts
<1>1. ASSUME NEW call, NEW op, <<call, op>> \in said', <<call, op>> \notin said
      PROVE  /\ Goes(p) /\ job[p].pc = Len(Steps[job[p].call]) /\ job'[p] = Idle
             /\ job[p].call = call /\ Op(p) = op
  <2>1. /\ Goes(p) /\ job[p].pc = Len(Steps[job[p].call]) /\ job'[p] = Idle
        /\ said' = said \cup {<<job[p].call, Op(p)>>}
    BY <1>1, SaidKinds
  <2>2. <<call, op>> = <<job[p].call, Op(p)>>
    BY <1>1, <2>1
  <2> QED
    BY <2>1, <2>2
<1>2. ASSUME NEW r \in Restores, NEW call \in {"restore", "restoreAgain"}, <<call, r>> \in said' PROVE Restored(r)'
  <2>1. CASE <<call, r>> \in said
    BY <1>0, <2>1, RestoredStays
  <2>2. CASE <<call, r>> \notin said /\ call = "restore"
    <3>1. <<"restore", r>> \in said' /\ <<"restore", r>> \notin said
      BY <1>2, <2>2
    <3>2. /\ Goes(p) /\ job[p].pc = Len(Steps[job[p].call]) /\ job'[p] = Idle
          /\ job[p].call = "restore" /\ Op(p) = r
      BY <1>1, <3>1
    <3>3. job[p].pc = 22
      BY <3>2, RestoreTable
    <3> QED
      BY <3>2, <3>3, RestoredNow
  <2>3. CASE <<call, r>> \notin said /\ call = "restoreAgain"
    <3>1. Goes(p) /\ job[p].call = "restoreAgain" /\ Op(p) = r
      <4>1. <<"restoreAgain", r>> \in said' /\ <<"restoreAgain", r>> \notin said
        BY <1>2, <2>3
      <4> QED
        BY <1>1, <4>1
    <3>2. Intact(r)
      BY <3>1, AgainStep DEF Again
    <3> QED
      BY <3>2, RestoredBefore, RestoredStays
  <2> QED
    BY <2>1, <2>2, <2>3
<1>3. ASSUME NEW b \in Backups, NEW call \in {"backup", "backupAgain"}, <<call, b>> \in said'
      PROVE  Readable(Content[b])' /\ Ordered(b, call)'
  <2>1. Readable(Content[b]) /\ Ordered(b, call)
    <3>1. CASE <<call, b>> \in said
      BY <1>0, <3>1
    <3>2. CASE <<call, b>> \notin said
      <4>1. Goes(p) /\ job[p].pc = Len(Steps[job[p].call]) /\ job[p].call = call /\ Op(p) = b
        BY <1>1, <1>3, <3>2
      <4>2. CASE call = "backup"
        BY <4>1, <4>2, SetTable, BackedNow
      <4>3. CASE call = "backupAgain"
        BY <4>1, <4>3, BackedAgain
      <4> QED
        BY <4>2, <4>3
    <3> QED
      BY <3>1, <3>2
  <2>2. \A o : o = Content[b] => Readable(o)'
    BY <2>1, ReadableStays
  <2>3. Readable(Content[b])'
    BY <2>2 DEF Readable
  <2> QED
    BY <2>1, <2>3, OrderedStays
<1>4. (/\ \A r \in Restores, call \in {"restore", "restoreAgain"} : <<call, r>> \in said => Restored(r)
       /\ \A b \in Backups, call \in {"backup", "backupAgain"} :
             <<call, b>> \in said => Readable(Content[b]) /\ Ordered(b, call))'
  BY <1>2, <1>3
<1> QED
  BY Zenon, <1>4 DEF SaidInv, AnswersLast, Restored, Ordered

-----------------------------------------------------------------------------
(* The invariant is inductive.                                             *)

LEMMA WorldTypes ==
    ASSUME TypeOK, BackupNext
    PROVE  controls' \in {"clear", "blocked"} /\ checkpoint' \in Nat /\ upsets' \in Nat
<1>0. controls \in {"clear", "blocked"} /\ checkpoint \in Nat /\ upsets \in Nat
  BY DEF TypeOK
<1>1. CASE Block \/ MoveSource
  BY <1>0, <1>1 DEF Block, MoveSource, Upset
<1>2. CASE \E p \in Procs : Calls(p) \/ Works(p) \/ Refused(p) \/ Fail(p) \/ Kill(p) \/ Restart(p)
  <2>1. PICK p \in Procs : Calls(p) \/ Works(p) \/ Refused(p) \/ Fail(p) \/ Kill(p) \/ Restart(p)
    BY <1>2
  <2>2. CASE Calls(p)
    <3>1. UNCHANGED sources /\ (upsets' = upsets \/ upsets' = upsets + 1)
      BY <2>2 DEF Calls, CallBackup, CallBackupAgain, CallRetention, CallAttest, CallAssess, CallAuthorize,
                  CallRestore, CallRestoreAgain, Upset
    <3> QED
      BY <1>0, <3>1 DEF sources
  <2>3. CASE Works(p)
    <3>1. UNCHANGED sources /\ upsets' = upsets
      BY <2>3 DEF Works, ReadRetention, AppendSeal, AppendCheck, AppendHead, AppendTarget, AppendReceipt, StageObject, PublishObject, RetireTemporary,
                  VerifyBackup, VerifyAgain, CheckNames, TakeLock, MakeStaging, CopyBytes, WriteControls, SealStaging,
                  Observe, Promote, Compare, Expose, ReleaseLock, OnRoots
    <3> QED
      BY <1>0, <3>1 DEF sources
  <2>4. CASE Refused(p) \/ Fail(p) \/ Kill(p) \/ Restart(p)
    <3>1. UNCHANGED sources /\ (upsets' = upsets \/ upsets' = upsets + 1)
      BY <2>4 DEF Refused, Fail, Kill, Restart, Throws, Upset
    <3> QED
      BY <1>0, <3>1 DEF sources
  <2> QED
    BY <2>1, <2>2, <2>3, <2>4
<1> QED
  BY <1>1, <1>2 DEF BackupNext

LEMMA TypesPreserved ==
    ASSUME TypeOK, JobInv, JournalInv, PendingInv, LeavesInv, ProgressInv, TemporaryInv, BackupNext,
           NEW p \in Procs, Kinds(p)
    PROVE  TypeOK'
<1>1. targets' \in SUBSET Records /\ journal' \in Seq(Records)
  BY HistoryGrows
<1>2. objects' \in SUBSET Range(Content) /\ temporary' \in [Procs -> Names \cup {None}]
  BY StoreTypes
<1>3. /\ staging' \in [Restores -> Directories \cup {None}]
      /\ generation' \in [Range(Target) -> Directories \cup {None}]
      /\ lock' \in [Range(Target) -> BOOLEAN]
  BY RootTypes
<1>4. job' \in [Procs -> Jobs]
  BY KindJobs
<1>5. controls' \in {"clear", "blocked"} /\ checkpoint' \in Nat /\ upsets' \in Nat
  BY WorldTypes
<1> QED
  BY <1>1, <1>2, <1>3, <1>4, <1>5 DEF TypeOK

\* What the invariant reads is the history, the stores, the roots, the calls and the answers.
LEMMA Unmoving ==
    ASSUME IInv, Idles, controls' \in {"clear", "blocked"}, checkpoint' \in Nat, upsets' \in Nat
    PROVE  IInv'
<1>0. /\ targets' = targets /\ journal' = journal /\ objects' = objects /\ temporary' = temporary
      /\ staging' = staging /\ generation' = generation /\ lock' = lock /\ job' = job /\ said' = said
  BY DEF Idles, historyVars, stores, roots
<1>1. /\ \A ns, op : Of(ns, op)' = Of(ns, op)
      /\ \A ns : All(ns)' = All(ns)
      /\ \A x : Receipted(x)' = Receipted(x)
      /\ \A p \in Procs : Running(p)' = Running(p) /\ Step(p)' = Step(p) /\ Op(p)' = Op(p) /\ Appends(p)' = Appends(p)
      /\ \A p \in Procs : Planned(p)' = Planned(p)
  BY <1>0, Zenon DEF Of, All, Receipted, Running, Step, Op, Appends, Planned
<1>2. \A r : Journaled(r)' = Journaled(r) /\ SetOf(r)' = SetOf(r) /\ PlanOf(r)' = PlanOf(r)
  BY <1>0, <1>1, Zenon DEF Journaled, SetOf, ManifestOf, Manifest, PlanOf, Of, All, Receipted
<1>3. TypeOK' /\ JobInv'
  BY <1>0 DEF IInv, TypeOK, JobInv, Running, Step, Op, Appends
<1>4. CodesInv' /\ JournalInv' /\ PendingInv' /\ KindsInv' /\ LeavesInv'
  <2>1. CodesInv'
    BY <1>0 DEF IInv, CodesInv
  <2>2. JournalInv'
    BY <1>0 DEF IInv, JournalInv
  <2>3. PendingInv'
    BY <1>0 DEF IInv, PendingInv
  <2>4. KindsInv'
    BY <1>0 DEF IInv, KindsInv, All, Of, Op
  <2>5. LeavesInv'
    BY <1>0 DEF IInv, LeavesInv, All, Of
  <2> QED
    BY <2>1, <2>2, <2>3, <2>4, <2>5
<1>5. RunnerInv' /\ PlannedInv' /\ StagedInv' /\ ProgressInv' /\ LocksInv'
  <2>1. RunnerInv'
    BY <1>0 DEF IInv, RunnerInv, Planned, Op, Of
  <2>2. PlannedInv'
    BY <1>0 DEF IInv, PlannedInv, Planned, Op, Of
  <2>3. StagedInv'
    BY <1>0 DEF IInv, StagedInv, Op, Of, Journaled, Receipted
  <2>4. ProgressInv'
    BY <1>0 DEF IInv, ProgressInv, Op
  <2>5. LocksInv'
    BY <1>0 DEF IInv, LocksInv, Op
  <2> QED
    BY <2>1, <2>2, <2>3, <2>4, <2>5
<1>6. LifeInv' /\ StagingInv' /\ GenerationInv'
  BY <1>0 DEF IInv, LifeInv, StagingInv, GenerationInv, All, Of, Op, Journaled, Receipted
<1>7. OrderInv' /\ BackedInv' /\ LastInv' /\ TemporaryInv'
  <2>1. OrderInv' /\ BackedInv' /\ TemporaryInv'
    BY <1>0 DEF IInv, OrderInv, BackedInv, TemporaryInv, Done, Of, Op, Receipted
  <2>2. LastInv'
    BY <1>0 DEF IInv, LastInv, Done, Of, All, Receipted
  <2> QED
    BY <2>1, <2>2
<1>8. ReadInv' /\ FoundedInv' /\ ObservedInv' /\ MovementCancels'
  <2>1. \A j : Prefix(j)' = Prefix(j)
    BY <1>0 DEF Prefix
  <2>2. ReadInv'
    BY <1>0, <1>2 DEF IInv, ReadInv, Op, Retaining, Decided, Range
  <2>3. FoundedInv'
    BY <1>0, <1>2, <2>1 DEF IInv, FoundedInv, Retaining, Decided
  <2>4. \A r, j : Standing(r, j)' = Standing(r, j)
    BY <1>2, <2>1, ZenonT(40) DEF Standing
  <2>5. ObservedInv'
    BY <1>0, <2>4 DEF IInv, ObservedInv, Observant, StageOf, Op, Step
  <2>6. MovementCancels'
    BY <1>0, <2>4 DEF IInv, MovementCancels, Last
  <2> QED
    BY <2>2, <2>3, <2>5, <2>6
<1>9. SaidInv'
  <2>1. \A x : Position(x)' = Position(x) /\ Readable(x)' = Readable(x)
    BY <1>0, Zenon DEF Position, Readable
  <2>2. AnswersLast'
    BY <1>0, <1>1, <1>2, <2>1 DEF IInv, SaidInv, AnswersLast
  <2> QED
    BY <1>0, <2>2 DEF IInv, SaidInv, Op
<1> QED
  BY <1>3, <1>4, <1>5, <1>6, <1>7, <1>8, <1>9 DEF IInv

LEMMA Initial ==
    ASSUME BackupInit
    PROVE  IInv
<1>0. /\ targets = {} /\ journal = <<>> /\ objects = {} /\ temporary = [p \in Procs |-> None]
      /\ controls = "clear" /\ checkpoint = 1 /\ upsets = 0 /\ said = {}
      /\ staging = [r \in Restores |-> None] /\ generation = [t \in Range(Target) |-> None]
      /\ lock = [t \in Range(Target) |-> FALSE] /\ job = [p \in Procs |-> Idle]
  BY DEF BackupInit
<1>1. /\ \A p \in Procs : job[p] = Idle /\ ~Running(p) /\ ~Planned(p)
      /\ Idle \in Jobs /\ Idle.call = "idle" /\ Idle.phase = "check" /\ Idle.pc = 1
      /\ [Idle EXCEPT !.call = Idle.call] = Idle
  BY <1>0, Thresholds DEF Idle, Jobs, Running, Planned
<1>2. \A ns, op : Of(ns, op) = {} /\ All(ns) = {}
  BY <1>0 DEF Of, All
<1>3. DOMAIN journal = {} /\ Range(journal) = {}
  BY <1>0 DEF Range
<1>4. TypeOK
  BY <1>0, <1>1 DEF TypeOK
<1>5. JobInv
  BY <1>1 DEF JobInv
<1>6. CodesInv /\ JournalInv /\ PendingInv /\ KindsInv /\ LeavesInv
  BY <1>0, <1>1, <1>2, <1>3 DEF CodesInv, JournalInv, PendingInv, KindsInv, LeavesInv, HasLast, HasFirst
<1>7. RunnerInv /\ PlannedInv /\ StagedInv /\ ProgressInv /\ LocksInv
  BY <1>1 DEF RunnerInv, PlannedInv, StagedInv, ProgressInv, LocksInv
<1>8. LifeInv /\ StagingInv /\ GenerationInv
  BY <1>0, <1>2 DEF LifeInv, StagingInv, GenerationInv
<1>9. ReadInv /\ FoundedInv /\ ObservedInv /\ MovementCancels
  BY <1>0, <1>1, <1>3 DEF ReadInv, FoundedInv, ObservedInv, Observant, MovementCancels
<1>10. OrderInv /\ BackedInv /\ LastInv /\ TemporaryInv
  BY <1>1, <1>2, <1>3 DEF OrderInv, BackedInv, LastInv, TemporaryInv
<1>11. SaidInv
  BY <1>0 DEF SaidInv, AnswersLast
<1> QED
  BY <1>4, <1>5, <1>6, <1>7, <1>8, <1>9, <1>10, <1>11 DEF IInv

LEMMA Inductive ==
    ASSUME IInv, [BackupNext]_vars
    PROVE  IInv'
<1>0. /\ TypeOK /\ JobInv /\ CodesInv /\ JournalInv /\ PendingInv /\ KindsInv /\ LeavesInv
      /\ RunnerInv /\ PlannedInv /\ StagedInv /\ ProgressInv /\ LocksInv /\ LifeInv /\ StagingInv /\ GenerationInv
      /\ ReadInv /\ FoundedInv /\ ObservedInv /\ MovementCancels /\ OrderInv /\ BackedInv /\ LastInv /\ TemporaryInv /\ SaidInv
  BY DEF IInv
<1>1. CASE UNCHANGED vars
  BY <1>0, <1>1, Unmoving DEF vars, Idles, sources, TypeOK
<1>2. CASE BackupNext /\ Idles
  BY <1>2, <1>0, WorldTypes, Unmoving
<1>3. ASSUME BackupNext, NEW p \in Procs, Kinds(p) PROVE IInv'
  <2>1. TypeOK' /\ JobInv' /\ CodesInv' /\ JournalInv' /\ PendingInv' /\ KindsInv' /\ LeavesInv'
    BY <1>0, <1>3, TypesPreserved, JobPreserved, CodesPreserved, JournalPreserved, PendingPreserved,
       KindsPreserved, LeavesPreserved
  <2>2. RunnerInv' /\ PlannedInv' /\ StagedInv' /\ ProgressInv' /\ LocksInv'
    BY <1>0, <1>3, RunnerPreserved, PlannedPreserved, StagedPreserved, ProgressPreserved, LocksPreserved
  <2>3. LifeInv' /\ StagingInv' /\ GenerationInv'
    BY <1>0, <1>3, LifePreserved, StagingPreserved, GenerationPreserved
  <2>4. ReadInv' /\ FoundedInv' /\ ObservedInv' /\ MovementCancels'
    BY <1>0, <1>3, ReadPreserved, FoundedPreserved, ObservedPreserved, CancelsPreserved
  <2>5. OrderInv' /\ BackedInv' /\ LastInv' /\ TemporaryInv' /\ SaidInv'
    BY <1>0, <1>3, OrderPreserved, BackedPreserved, LastPreserved, TemporaryPreserved, SaidPreserved
  <2> QED
    BY <2>1, <2>2, <2>3, <2>4, <2>5 DEF IInv
<1> QED
  BY <1>0, <1>1, <1>2, <1>3, NextKinds

(* Every reachable state satisfies the invariant.                          *)
THEOREM Always == BackupSpec => []IInv
<1>1. BackupInit => IInv
  BY Initial
<1>2. IInv /\ [BackupNext]_vars => IInv'
  BY Inductive
<1> QED
  BY <1>1, <1>2, PTL DEF BackupSpec

-----------------------------------------------------------------------------
(* What it says.                                                           *)

(* The types of the runtime's stores, journal, roots and calls             *)
(* (backup-restore/runtime.mjs, history.mjs, storage.mjs).                 *)
THEOREM BackupTypes == BackupSpec => []TypeOK
<1>1. IInv => TypeOK
  BY DEF IInv
<1> QED
  BY <1>1, Always, PTL

(* A generation whose bytes can be reached is whole, and the stages of its *)
(* restore up to the start of promotion are on the journal (restore's      *)
(* seal, rename and expose).                                               *)
THEOREM OnlyVerifiedIsExposed == BackupSpec => []ExposedOnlyVerified
<1>1. ASSUME IInv PROVE ExposedOnlyVerified
  <2>1. DOMAIN generation = Range(Target)
    BY <1>1 DEF IInv, TypeOK
  <2> QED
    BY <1>1, <2>1 DEF IInv, GenerationInv, ExposedOnlyVerified
<1> QED
  BY <1>1, Always, PTL

(* A retention decision that is receipted before any stage of a restore    *)
(* cancels each later stage that revalidates; one receipted before the     *)
(* promotion starts keeps its bytes from being reached (restore's          *)
(* observations, before every such stage and before the rename).           *)
THEOREM DecisionsCancel == BackupSpec => []MovementCancels
<1>1. IInv => MovementCancels
  BY DEF IInv
<1> QED
  BY <1>1, Always, PTL

(* A backup or a restore that answered success stays as it was answered:   *)
(* its records and their order, its readable bytes, its generation         *)
(* (createBackup's and restore's first runs and replays; the final record  *)
(* of a replayed backup need not have its receipt).                        *)
THEOREM AnswersStand == BackupSpec => []AnswersLast
<1>1. IInv => AnswersLast
  BY DEF IInv, SaidInv
<1> QED
  BY <1>1, Always, PTL

(* inspectRestoreRecovery tells the truth of a restore nobody runs.        *)
THEOREM ClassificationsHold == BackupSpec => []ClassificationTrue
<1>1. ASSUME IInv, NEW r \in Restores, Complete, ~Busy(r)
      PROVE  /\ Classification(r) = "safe_no_effect" =>
                  staging[r] = None /\ \A t \in DOMAIN generation : generation[t] # None => generation[t].op # r
             /\ Classification(r) = "exact_replay_no_op_after_full_revalidation" =>
                  Intact(r) /\ generation[Target[r]].op = r
  <2> DEFINE g == generation[Target[r]]
  <2>0. /\ TypeOK /\ LifeInv /\ StagingInv /\ GenerationInv
        /\ Target[r] \in Range(Target) /\ DOMAIN generation = Range(Target)
    BY <1>1, TargetRange DEF IInv, TypeOK
  <2>1. ASSUME NEW t \in DOMAIN generation, generation[t] # None, generation[t].op = r
        PROVE  t = Target[r] /\ g # None /\ Of("plan", r) # {}
    BY <2>0, <2>1 DEF GenerationInv
  <2>2. staging[r] # None => Of("plan", r) # {}
    BY <2>0 DEF StagingInv
  <2>3. CASE Of("plan", r) = {}
    <3>1. Classification(r) = "safe_no_effect"
      BY <2>3 DEF Classification
    <3> QED
      BY <2>1, <2>2, <2>3, <3>1
  <2>4. CASE /\ Of("plan", r) # {} /\ 10 \in Lifecycle(r) /\ g # None
             /\ ~lock[Target[r]] /\ staging[r] = None
    <3>1. Classification(r) = "exact_replay_no_op_after_full_revalidation"
      BY <2>4 DEF Classification
    <3>2. PICK x \in Of("life", r) : x.n = 10
      BY <2>4 DEF Lifecycle
    <3>3. x \in All("life") /\ x.op = r /\ 1..(x.n - 1) = 1..9
      BY <3>2 DEF Of, All
    <3>4. g.op = r /\ 1..9 \subseteq Journaled(r)
      <4>1. 1..(x.n - 1) \subseteq Journaled(x.op) /\ (x.n >= 8 => generation[Target[x.op]].op = x.op)
        BY <2>0, <3>3 DEF LifeInv
      <4> QED
        BY <3>2, <3>3, <4>1
    <3>5. Lifecycle(r) = DOMAIN Stages
      <4>1. Journaled(r) \subseteq Lifecycle(r)
        BY DEF Journaled, Lifecycle
      <4>2. Lifecycle(r) \subseteq DOMAIN Stages
        BY <2>0 DEF Lifecycle, LifeInv, Of, All
      <4>3. 1..10 \subseteq Lifecycle(r)
        BY <2>4, <3>4, <4>1
      <4> QED
        BY <4>2, <4>3, StageTable
    <3>6. g.open /\ g.files = Whole
      BY <2>0, <2>4 DEF GenerationInv
    <3> QED
      BY <2>4, <3>1, <3>4, <3>5, <3>6 DEF Intact
  <2>5. CASE /\ Of("plan", r) # {} /\ g # None
             /\ (10 \notin Lifecycle(r) \/ lock[Target[r]] \/ staging[r] # None)
    <3>1. Classification(r) = "recovery_required_no_automatic_rollback"
      BY <2>5 DEF Classification
    <3> QED
      BY <3>1
  <2>6. CASE Of("plan", r) # {} /\ g = None /\ staging[r] = None /\ ~lock[Target[r]]
    <3>1. Classification(r) = "safe_no_effect"
      BY <2>6 DEF Classification
    <3> QED
      BY <2>1, <2>6, <3>1
  <2>7. CASE Of("plan", r) # {} /\ g = None /\ ~(staging[r] = None /\ ~lock[Target[r]])
    <3>1. Classification(r) = "retain_inaccessible_and_reconcile"
      BY <2>7 DEF Classification
    <3> QED
      BY <3>1
  <2> QED
    BY <2>3, <2>4, <2>5, <2>6, <2>7
<1>2. IInv => ClassificationTrue
  BY <1>1 DEF ClassificationTrue
<1> QED
  BY <1>2, Always, PTL
=============================================================================

---- MODULE MC_Backup ----
(* Instances of BackupRestore for TLC. *)
EXTENDS BackupProps, TLC

CONSTANTS a, p, q, b1, b2, r1, r2, o1, t1

MayMC == [x \in Procs |-> IF x = a THEN {"retention", "attest", "assess", "authorize"}
                                    ELSE {"restore", "restoreAgain", "backup", "backupAgain"}]
ContentMC == [b \in Backups |-> o1]
TargetMC == [r \in Restores |-> t1]

\* The order in which the operators prepare a restore; calls still overlap.
Calling(call) == \E x \in Procs : job[x].call = call
Decisions == Cardinality(All("retention")) + Cardinality({x \in Procs : job[x].call = "retention"
                                                                     /\ job[x].phase # "receipt"})
Prepared ==
  /\ All("retention") # {} \/ Calling("retention") =>
       ~Calling("backup") /\ ~Calling("backupAgain") /\ Cardinality(All("manifest")) = 1
  /\ All("assess") # {} \/ Calling("assess") => All("head") # {}
  /\ All("auth") # {} \/ Calling("authorize") => All("assess") # {}
  /\ All("plan") # {} \/ Calling("restore") =>
       (\A r \in Restores : Of("auth", r) # {}) /\ ~Calling("authorize")
  /\ Calling("restoreAgain") => \E x \in All("life") : Stages[x.n] = "completed"
  /\ controls # "clear" \/ checkpoint > 1 \/ Decisions > 1 => All("auth") # {}

\* Replays of a backup come before the second set and are followed up to the first decision.
Replays ==
  /\ Calling("backupAgain") => Cardinality(All("manifest")) = 1
  /\ (\E b \in Backups : <<"backupAgain", b>> \in said) => All("retention") = {} /\ ~Calling("retention")

\* A further retention decision meets one restore only, and no replay.
OneRestoreMoved ==
  Decisions > 1 =>
    /\ Cardinality(All("plan")) <= 1 /\ Cardinality({x \in Procs : job[x].call = "restore"}) <= 1
    /\ ~Calling("restoreAgain")

Symmetry == Permutations({p, q}) \cup Permutations({b1, b2}) \cup Permutations({r1, r2})
====

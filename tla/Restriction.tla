---- MODULE Restriction ----
(***************************************************************************)
(* The D9.4 runtime at work: callers submit control records, shut the      *)
(* subject's access down, delete its primary name and revoke authority.    *)
(* They share one kernel operation lock, taken without waiting; each runs  *)
(* in a process of its own and may fail at any await or native call.       *)
(*                                                                         *)
(* A step runs from one await, or one durable effect, to the next.         *)
(***************************************************************************)
EXTENDS RestrictionLedger

CONSTANTS
  Callers, Operators,   \* the callers, and those among them that shut access down and delete
  Shutdowns,       \* the kinds of the access records a shutdown is given, in order
  ControlKinds,    \* the control records that are submitted
  Corrected,       \* the kinds that are corrected or withdrawn
  MaxCorrections, MaxTime, MaxFaults

ASSUME BoundsAssumption ==
  /\ Operators \subseteq Callers /\ None \notin Callers /\ Shutdowns \subseteq Seq(AccessKinds)
  /\ {MaxCorrections, MaxTime, MaxFaults} \subseteq Nat

VARIABLES
  lock,        \* None, or the caller whose helper process holds the operation lock
  job,         \* per caller: the call under way
  name,        \* the primary name: "present", "unlinked" (not yet synced) or "absent"
  capability, receiver,   \* is the capability usable, does the receiver run
  faults       \* failures so far, bounded

vars == <<ledgerVars, lock, job, name, capability, receiver, faults>>
world == <<name, capability, receiver>>

Idle == [step |-> "idle", rec |-> None, after |-> "idle", deletion |-> None,
         asOf |-> 0, at |-> 0, target |-> None, heads |-> 0, records |-> <<>>]

Moves(c, step) == job' = [job EXCEPT ![c].step = step]
Ends(c) == job' = [job EXCEPT ![c] = Idle]

RestrictionInit ==
  /\ ledger = <<>> /\ bare = None /\ events = <<>> /\ clock = 1
  /\ lock = None /\ job = [c \in Callers |-> Idle]
  /\ name = "present" /\ capability = TRUE /\ receiver = TRUE /\ faults = 0

----------------------------------------------------------------------------
(* The broker: append, appendLocked, persistPrepared.                      *)

\* The lock is taken, the record prepared and its target persisted.
Puts(c, rec, then) ==
  /\ lock = None /\ lock' = c
  /\ Prepared(rec) /\ bare' = rec
  /\ job' = [then EXCEPT ![c].step = "receipt"]
  /\ UNCHANGED <<ledger, events, clock, world, faults>>

\* The receipt follows its target; outside a shutdown the lock is then let go.  The
\* clock has moved past the record by then, so the next is not refused as backdated.
PersistReceipt(c) ==
  /\ job[c].step = "receipt"
  /\ ledger' = Append(ledger, bare) /\ bare' = None
  /\ IF job[c].after = "idle" THEN Ends(c) ELSE Moves(c, job[c].after)
  /\ lock' = IF job[c].after = "shutting" THEN c ELSE None
  /\ clock' = Max({clock, bare.at + 1})
  /\ UNCHANGED <<events, world, faults>>

Submit(c, rec) == job[c].step = "idle" /\ Puts(c, rec, [job EXCEPT ![c] = Idle])

SubmitControl(c) ==
  \E kind \in ControlKinds :
    \E stream \in IF kind \in Correctable \ Withdrawable THEN Holds ELSE Deletions :
      \E life \in IF kind = "deletion_authorized" THEN Lifetimes ELSE {0} :
        Submit(c, [Control(kind, stream) EXCEPT !.expires = IF life = 0 THEN 0 ELSE clock + life])

\* A correction stands for its target, a withdrawal voids it.
SubmitCorrection(c) ==
  \E stream \in Holds \cup Deletions :
    /\ Cardinality(Superseded) < MaxCorrections
    /\ Indices("control", stream) # {} /\ Leaf("control", stream) \in Corrected
    /\ LET i == Max(Indices("control", stream))
           rec(kind) == [Control(kind, stream) EXCEPT !.corrects = i, !.effective = ledger[i].effective]
       IN \/ Submit(c, [rec("control_corrected") EXCEPT !.means = Leaf("control", stream)])
          \/ Submit(c, rec("control_withdrawn"))

----------------------------------------------------------------------------
(* shutdownSyntheticAccess, under the destructive lock.                    *)

CallShutdown(c) ==
  \E records \in Shutdowns :
    /\ job[c].step = "idle" /\ lock = None /\ ChainReads
    /\ lock' = c
    /\ job' = [job EXCEPT ![c] = [Idle EXCEPT !.step = "shutting", !.heads = Len(events),
                                              !.records = records]]
    /\ UNCHANGED <<ledgerVars, world, faults>>

\* The record at hand, of its kind and not yet on the ledger.
AtHand(c, kind) ==
  /\ job[c].step = "shutting" /\ job[c].records # <<>> /\ Head(job[c].records) = kind
  /\ ~\E i \in DOMAIN ledger : ledger[i].kind = kind
Seen(c, step) == [job[c] EXCEPT !.step = step, !.after = "shutting", !.records = Tail(job[c].records)]

\* A record that an earlier shutdown got on the ledger is answered with its receipt.
ReplayAccess(c) ==
  /\ job[c].step = "shutting" /\ job[c].records # <<>> /\ SessionsLive(clock)
  /\ \E i \in DOMAIN ledger : ledger[i].kind = Head(job[c].records)
  /\ job' = [job EXCEPT ![c] = Seen(c, "shutting")]
  /\ UNCHANGED <<ledgerVars, lock, world, faults>>

\* effectThenAppend: prepared, the effect done, and only then to be persisted.
Effect(c, rec) ==
  /\ Prepared(rec)
  /\ job' = [job EXCEPT ![c] = [Seen(c, "target") EXCEPT !.rec = rec]]
  /\ UNCHANGED <<ledgerVars, lock, faults>>

\* revokeCapability and terminateAndReap do their work once and fail after that.
RevokeCapability(c) ==
  /\ AtHand(c, "capability_revoked") /\ capability
  /\ capability' = FALSE /\ UNCHANGED <<name, receiver>>
  /\ Effect(c, Record("access", "capability_revoked", "capability"))

RequestTermination(c) ==
  LET rec == Record("access", "descriptor_termination_requested", "descriptor")
  IN /\ AtHand(c, "descriptor_termination_requested") /\ Prepared(rec)
     /\ bare' = rec /\ job' = [job EXCEPT ![c] = Seen(c, "receipt")]
     /\ UNCHANGED <<ledger, events, clock, lock, world, faults>>

TerminateReceiver(c) ==
  /\ AtHand(c, "descriptor_termination_confirmed") /\ receiver
  /\ receiver' = FALSE /\ UNCHANGED <<name, capability>>
  /\ Effect(c, Record("access", "descriptor_termination_confirmed", "descriptor"))

\* After an effect: the authority head is the same, the record is prepared anew
\* with the persistence time it had, and its target persisted; or the call ends.
PersistTarget(c) ==
  /\ job[c].step = "target"
  /\ IF ChainReads /\ Len(events) = job[c].heads /\ Prepared(job[c].rec)
     THEN /\ bare' = job[c].rec /\ job' = [job EXCEPT ![c].step = "receipt", ![c].rec = None]
          /\ UNCHANGED lock
     ELSE lock' = None /\ Ends(c) /\ UNCHANGED bare
  /\ UNCHANGED <<ledger, events, clock, world, faults>>

----------------------------------------------------------------------------
(* executeSyntheticPrimaryDeletion.                                        *)

Execution(kind, d) == Record("execution", kind, d)
\* The preflight as of the caller's effective time (that of the call), before the
\* lock is asked for.
CallDelete(c) ==
  \E d \in Deletions :
    /\ job[c].step = "idle" /\ bare = None /\ Eligible(clock, AnyDeletion)
    /\ job' = [job EXCEPT ![c] = [Idle EXCEPT !.step = "start", !.deletion = d, !.asOf = clock]]
    /\ UNCHANGED <<ledgerVars, lock, world, faults>>

\* A record an earlier call of the operation got on the ledger is answered with
\* its receipt; otherwise it is appended.
AppendOrReplay(c, kind, before, next) ==
  LET d == job[c].deletion IN
  IF Leaf("execution", d) = before
  THEN Puts(c, Execution(kind, d), [job EXCEPT ![c].after = next])
  ELSE /\ lock = None /\ SessionsLive(clock)
       /\ Moves(c, next) /\ UNCHANGED <<ledgerVars, lock, world, faults>>

StartExecution(c) ==
  job[c].step = "start" /\ AppendOrReplay(c, "execution_started", "none", "inspect")

Inspect(c) ==
  /\ job[c].step = "inspect" /\ name = "present" /\ bare = None
  /\ Moves(c, "inventory")
  /\ UNCHANGED <<ledgerVars, lock, world, faults>>

AppendInventory(c) ==
  job[c].step = "inventory" /\ AppendOrReplay(c, "inventory_observed", "execution_started", "destroy")

TakeDestructiveLock(c) ==
  /\ job[c].step = "destroy" /\ lock = None /\ ChainReads
  /\ lock' = c
  /\ job' = [job EXCEPT ![c].step = "unlink", ![c].heads = Len(events)]
  /\ UNCHANGED <<ledgerVars, world, faults>>

\* The effective point of the unlink record lies in the window after the head.
RemoveName(c, effective) ==
  LET d == job[c].deletion IN
  /\ job[c].step = "unlink" /\ name = "present"
  /\ LET rec == [Execution("unlink_attempted", d) EXCEPT !.effective = effective]
     IN /\ Prepared(rec)
        /\ job' = [job EXCEPT ![c].step = "sync", ![c].rec = rec, ![c].after = "verify", ![c].asOf = 0]
  /\ name' = "unlinked"
  /\ UNCHANGED <<ledgerVars, lock, capability, receiver, faults>>

Unlink_preflightOnly(c) ==
  \E effective \in HeadAt..(HeadAt + Window) : RemoveName(c, effective)

\* One turn under the lock: the projection at the current head, as of the caller's
\* time, then for this operation, then for it as of the unlink's own effective
\* point; the authority head and the session again; and the name is removed.
Unlink(c) ==
  LET d == job[c].deletion IN
  \E effective \in HeadAt..(HeadAt + Window) :
    /\ Eligible(job[c].asOf, AnyDeletion) /\ Eligible(job[c].asOf, {d}) /\ Eligible(effective, {d})
    /\ ChainReads /\ Len(events) = job[c].heads /\ SessionsLive(effective)
    /\ RemoveName(c, effective)

Sync_skipped(c) ==
  /\ job[c].step = "sync" /\ Moves(c, "target")
  /\ UNCHANGED <<ledgerVars, lock, world, faults>>

\* syncParent: the parent directory is synced and the name seen to be gone.
Sync(c) ==
  /\ job[c].step = "sync" /\ name' = "absent" /\ Moves(c, "target")
  /\ UNCHANGED <<ledgerVars, lock, capability, receiver, faults>>

\* verifyAbsent, and its record.  (Nothing gives the name back while the call runs,
\* so the wait for the lock between the two is not a step.)
Verify(c) ==
  /\ job[c].step = "verify" /\ name # "present"
  /\ Puts(c, Execution("primary_absence_verified", job[c].deletion),
          [job EXCEPT ![c].after = "certify"])

\* The receipt is bound to the projection as of the verification's effective point.
CheckReceipt(c) ==
  LET d == job[c].deletion
      verified == ledger[Max(Indices("execution", d))]
  IN /\ job[c].step = "certify" /\ bare = None
     /\ AuthorizationActive(verified.effective, {d})
     /\ Moves(c, "certified")
     /\ UNCHANGED <<ledgerVars, lock, world, faults>>

AppendReceipt(c) ==
  /\ job[c].step = "certified"
  /\ Puts(c, Record("receipt", "deletion_receipt", job[c].deletion), [job EXCEPT ![c].after = "idle"])

----------------------------------------------------------------------------
(* The authority, and how calls end.                                       *)

\* revoke: the clock is read for the event before the lock is asked for.
CallRevoke(c) ==
  \E target \in Targets :
    /\ job[c].step = "idle"
    /\ job' = [job EXCEPT ![c] = [Idle EXCEPT !.step = "revoke", !.at = clock, !.target = target]]
    /\ UNCHANGED <<ledgerVars, lock, world, faults>>

Revoke(c) ==
  /\ job[c].step = "revoke" /\ lock = None
  /\ SessionsLive(job[c].at)
  /\ \A i \in DOMAIN events : events[i].target # job[c].target
  /\ events' = Append(events, [target |-> job[c].target, at |-> job[c].at])
  /\ Ends(c)
  /\ UNCHANGED <<ledger, bare, clock, lock, world, faults>>

Unlocked == {"start", "inspect", "inventory", "destroy", "verify", "certify", "certified", "revoke"}

\* The lock is taken, a check refuses (those left out here included), or the
\* shutdown's records have all been seen to: the call ends.
GiveUp(c) ==
  /\ \/ job[c].step \in Unlocked /\ UNCHANGED lock
     \/ job[c].step \in {"shutting", "unlink"} /\ lock' = None
  /\ Ends(c)
  /\ UNCHANGED <<ledgerVars, world, faults>>

\* A native call or a write fails, or the process is killed: the kernel frees its
\* lock.  (Where a call may give up, that is what a failure looks like.)
Fail(c) ==
  /\ job[c].step \in {"receipt", "sync", "target"} /\ faults < MaxFaults
  /\ faults' = faults + 1 /\ Ends(c)
  /\ lock' = IF lock = c THEN None ELSE lock
  /\ UNCHANGED <<ledgerVars, world>>

\* A removal whose directory was not synced may be undone.  (Otherwise power lost is
\* every call failing.)
PowerLoss ==
  /\ name = "unlinked" /\ faults < MaxFaults /\ faults' = faults + 1
  /\ job' = [c \in Callers |-> Idle] /\ lock' = None
  /\ name' \in {"present", "absent"}
  /\ UNCHANGED <<ledgerVars, capability, receiver>>

\* Time moves with the ledger, and while the unlink's effect is awaited.
Tick ==
  /\ \E c \in Callers : /\ job[c].step = "target" /\ job[c].rec.kind = "unlink_attempted"
                        /\ job[c].rec.at = clock
  /\ clock < MaxTime /\ clock' = clock + 1
  /\ UNCHANGED <<ledger, bare, events, lock, job, world, faults>>

Calls(c) ==
  \/ SubmitControl(c) \/ SubmitCorrection(c) \/ CallRevoke(c)
  \/ c \in Operators /\ (CallShutdown(c) \/ CallDelete(c))

Works(c) ==
  \/ PersistReceipt(c) \/ ReplayAccess(c) \/ RevokeCapability(c) \/ RequestTermination(c) \/ TerminateReceiver(c)
  \/ PersistTarget(c) \/ StartExecution(c) \/ Inspect(c) \/ AppendInventory(c)
  \/ TakeDestructiveLock(c) \/ Unlink(c) \/ Sync(c) \/ Verify(c) \/ CheckReceipt(c)
  \/ AppendReceipt(c) \/ Revoke(c) \/ GiveUp(c)

RestrictionNext ==
  \/ \E c \in Callers : Calls(c) \/ Works(c) \/ Fail(c)
  \/ PowerLoss \/ Tick

RestrictionSpec == RestrictionInit /\ [][RestrictionNext]_vars
====

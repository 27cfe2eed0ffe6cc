---- MODULE Launcher ----
(***************************************************************************)
(* The trusted launcher (src/d9/control-plane/launcher.mjs) over the       *)
(* append broker and the control store: the synthetic dry run, the         *)
(* synthetic permit-scoped audit, and the registry, permit and revocation  *)
(* calls that may overlap with them at every await.                        *)
(*                                                                         *)
(* A step runs from one await to the next.  The test doubles and the       *)
(* native helper answer or fail, as they like; so does a revalidation,     *)
(* which rereads files.                                                    *)
(***************************************************************************)
EXTENDS AppendBroker

CONSTANTS
  DryRuns, Audits,   \* calls of runSyntheticBootstrapDryRun and of runSyntheticPermitScopedBootstrapAudit
  Sides,             \* calls of the other methods
  Recipients,        \* how many recipients a scope has (six in the code)
  FreshIds,          \* what operationIdSource and nonceSource draw, as [op, nonce]
  RecordIds          \* what the seals and permits presented to the launcher name

ASSUME LauncherAssumption ==
  /\ Recipients \in Nat \ {0}
  /\ FreshIds \cup RecordIds \subseteq [op : Ops, nonce : Nonces]

Runs == DryRuns \cup Audits

VARIABLES
  started, hold,   \* #started, #recoveryHold
  native,          \* None, or the run that holds the kernel operation lock
  issued,          \* #syntheticBootstrapPermits
  run,             \* per run: where it waits, and what it has
  side             \* per side call: where it waits, and what for

launcherVars == <<started, hold, native, issued, run, side>>
allVars == <<vars, brokerVars, launcherVars>>

AssertStarted == started /\ ~hold

\* #assertActive: the launcher reads the store with an object of its own.
AssertActive == Seen = {} /\ Selects(Now, clock, broker.gen)

\* #assertPermitAuthority: the operation runs, under its claim, with the seal alive.
AssertPermitAuthority(r) ==
  /\ Seen = {"unfinished_operation"} /\ Selects(Now, clock, broker.gen)
  /\ \E o \in InProgress(Now) :
       /\ o.op = run[r].op /\ lock.op = o.op /\ o.permit = run[r].permit
       /\ PermitState(Now, o.permit) = "in_progress"
       /\ \E i \in Issuances(Now) : i.permit = o.permit /\ clock < i.expires /\ SealLive(Now, i.seal, clock)

Ends == {"refused", "failed", "noEffect", "recoveryRequired", "ambiguous"}

Idle == [at |-> "idle", op |-> None, nonce |-> None, permit |-> None, given |-> 0]

Goes(r, pc) == run' = [run EXCEPT ![r].at = pc]

BeginCall(r) == <<r, "begin">>
EndCall(r)   == <<r, "end">>
MarkCall(r)  == <<r, "mark">>

\* An append of the run's own, at the current time; or none.
Sends(call, txn, events) == Dispatches(call, txn, events) /\ UNCHANGED <<flight, answers, broker>>
Quiet == UNCHANGED brokerVars

\* The mark that a failure after the begin leaves in the store.
MarkEvents(r) ==
  IF run[r].permit = None THEN <<Ambiguous(run[r].op)>>
  ELSE <<Transition(run[r].permit, "ambiguous", run[r].op), Ambiguous(run[r].op)>>

SendsMark(call, r) == Sends(call, "operation.recovery-required", MarkEvents(r))

----------------------------------------------------------------------------
(* runSyntheticBootstrapDryRun.                                            *)

CallDryRun(r) ==
  /\ run[r].at = "idle" /\ AssertStarted
  /\ Goes(r, IF AssertActive THEN "authenticating" ELSE "refused")
  /\ Quiet /\ UNCHANGED <<vars, started, hold, native, issued, side>>

Authenticated(r) ==
  /\ run[r].at = "authenticating"
  /\ \/ Goes(r, "refused")
     \/ \E id \in FreshIds : run' = [run EXCEPT ![r].at = "locking", ![r].op = id.op, ![r].nonce = id.nonce]
  /\ Quiet /\ UNCHANGED <<vars, started, hold, native, issued, side>>

Begin(r) ==
  Sends(BeginCall(r), "operation.begin", BeginEvents(run[r].op, run[r].nonce, broker.gen, run[r].permit))

\* The kernel lock is taken, and in the same turn the begin is sent.
Locked(r) ==
  /\ run[r].at = "locking"
  /\ \/ /\ Goes(r, "refused") /\ Quiet /\ UNCHANGED native
     \/ /\ native = None
        /\ IF AssertActive
           THEN Begin(r) /\ Goes(r, "beginning") /\ native' = r
           ELSE Quiet /\ Goes(r, "refused") /\ UNCHANGED native
  /\ UNCHANGED <<vars, started, hold, issued, side>>

\* The first recipient's authority is checked in the turn of the begin's answer.
Begun(r) ==
  /\ run[r].at = "beginning" /\ Told(BeginCall(r), "persisted")
  /\ IF r \in DryRuns
     THEN Goes(r, "probing") /\ UNCHANGED hold
     ELSE IF AssertPermitAuthority(r) THEN Goes(r, "delivering") /\ UNCHANGED hold
     ELSE Goes(r, "unlocking") /\ hold' = TRUE
  /\ Quiet /\ UNCHANGED <<vars, started, native, issued, side>>

\* The begin failed: the kernel lock is released, no hold is set.
BeginFailed(r) ==
  /\ run[r].at = "beginning" /\ Failed(BeginCall(r))
  /\ Goes(r, "failed") /\ native' = None
  /\ Quiet /\ UNCHANGED <<vars, started, hold, issued, side>>

\* A dry run fails: it holds and marks first, and lets the kernel lock go last.
FailsDry(r) ==
  Goes(r, "marking") /\ hold' = TRUE /\ SendsMark(MarkCall(r), r)

\* The probe, the verifier's revalidations and the comparison of the database.
Probed(r) ==
  /\ run[r].at = "probing"
  /\ \/ Goes(r, "releasing") /\ Quiet /\ UNCHANGED hold
     \/ FailsDry(r)
  /\ UNCHANGED <<vars, started, native, issued, side>>

\* The kernel lock is released before the end is recorded.
Released(r) ==
  /\ run[r].at = "releasing" /\ native' = None
  /\ IF r \in DryRuns
     THEN (Goes(r, "verifying") /\ Quiet /\ UNCHANGED hold) \/ FailsDry(r)
     ELSE \/ Goes(r, "closing") /\ SendsMark(EndCall(r), r) /\ UNCHANGED hold
          \/ Goes(r, "marking") /\ hold' = TRUE /\ SendsMark(MarkCall(r), r)
  /\ UNCHANGED <<vars, started, issued, side>>

Verified(r) ==
  /\ run[r].at = "verifying"
  /\ \/ Goes(r, "finishing") /\ Sends(EndCall(r), "operation.no-effect", <<NoEffect(run[r].op)>>) /\ UNCHANGED hold
     \/ FailsDry(r)
  /\ UNCHANGED <<vars, started, native, issued, side>>

\* Variant: a rejected end is taken for an end.
Finished_anyAnswer(r) ==
  /\ run[r].at = "finishing" /\ Answered(EndCall(r))
  /\ Goes(r, "noEffect") /\ Quiet
  /\ UNCHANGED <<vars, started, hold, native, issued, side>>

Finished(r) ==
  /\ run[r].at = "finishing" /\ Answered(EndCall(r))
  /\ IF Told(EndCall(r), "persisted") THEN Goes(r, "noEffect") /\ Quiet /\ UNCHANGED hold ELSE FailsDry(r)
  /\ UNCHANGED <<vars, started, native, issued, side>>

Marked(r) ==
  /\ run[r].at = "marking" /\ Answered(MarkCall(r))
  /\ Goes(r, IF Told(MarkCall(r), "persisted") THEN "recoveryRequired" ELSE "ambiguous")
  /\ native' = IF native = r THEN None ELSE native
  /\ Quiet /\ UNCHANGED <<vars, started, hold, issued, side>>

----------------------------------------------------------------------------
(* runSyntheticPermitScopedBootstrapAudit.                                 *)

\* The one permit issued by this launcher, ready, with its seal alive.
Resolves(p) ==
  /\ AssertActive /\ PermitState(Now, p) = "ready"
  /\ \E i \in Issuances(Now) : i.permit = p /\ clock < i.expires /\ SealLive(Now, i.seal, clock)

CallAudit(r) ==
  /\ run[r].at = "idle" /\ AssertStarted
  /\ IF Cardinality(issued) = 1 /\ \A p \in issued : Resolves(p)
     THEN \E p \in issued, i \in Issuances(Now), f \in Said(Now, "sealed") :
            /\ i.permit = p /\ f.says.seal = i.seal
            /\ run' = [run EXCEPT ![r] = [at |-> "rostering", op |-> f.says.op, nonce |-> i.nonce, permit |-> p, given |-> 0]]
     ELSE Goes(r, "refused")
  /\ Quiet /\ UNCHANGED <<vars, started, hold, native, issued, side>>

Rostered(r) ==
  /\ run[r].at = "rostering"
  /\ Goes(r, "locking") \/ Goes(r, "refused")
  /\ Quiet /\ UNCHANGED <<vars, started, hold, native, issued, side>>

\* An audit fails: it holds, releases the kernel lock, and marks.
FailsAudit(r) == Goes(r, "unlocking") /\ hold' = TRUE

\* One recipient has its handles; the next one's authority is checked in the same turn.
Delivered(r) ==
  /\ run[r].at = "delivering"
  /\ LET next == IF run[r].given + 1 = Recipients THEN "releasing"
                 ELSE IF AssertPermitAuthority(r) THEN "delivering"
                 ELSE "unlocking" IN
     \/ run' = [run EXCEPT ![r].given = @ + 1, ![r].at = next] /\ hold' = (hold \/ next = "unlocking")
     \/ FailsAudit(r)
  /\ Quiet /\ UNCHANGED <<vars, started, native, issued, side>>

Unlocked(r) ==
  /\ run[r].at = "unlocking" /\ native' = None
  /\ Goes(r, "marking") /\ SendsMark(MarkCall(r), r)
  /\ UNCHANGED <<vars, started, hold, issued, side>>

\* The audit's own end is the same recovery-required terminal; when it is not
\* confirmed it is sent again.
Closed(r) ==
  /\ run[r].at = "closing" /\ Answered(EndCall(r)) /\ hold' = TRUE
  /\ IF Told(EndCall(r), "persisted") THEN Goes(r, "recoveryRequired") /\ Quiet
     ELSE Goes(r, "marking") /\ SendsMark(MarkCall(r), r)
  /\ UNCHANGED <<vars, started, native, issued, side>>

----------------------------------------------------------------------------
(* The other calls.                                                        *)

Waits(c, pc, does, t) == side' = [side EXCEPT ![c] = [at |-> pc, does |-> does, time |-> t]]

\* A withdrawal keeps the time it was authenticated for; the others take a new one.
TimeOf(c, does) == IF does[1].kind = "transition" THEN side[c].time ELSE clock

Nothing == <<>>

\* registerBundleSeal, issueBootstrapPermit and appendBootstrapPermitWithdrawal
\* authenticate their peers before they append.
CallAwaiting(c, does) ==
  /\ side[c].at = "idle" /\ AssertStarted
  /\ IF AssertActive
     THEN Waits(c, "authenticating", does, IF does[1].kind = "transition" THEN clock ELSE 0)
     ELSE Waits(c, "done", Nothing, 0)
  /\ Quiet /\ UNCHANGED <<vars, started, hold, native, issued, run>>

TxnOf(events) ==
  CASE events[1].kind = "sealed"      -> "registry.bundle_seal"
    [] events[1].kind = "sealRevoked" -> "registry.revocation"
    [] events[1].kind = "issued"      -> "permit.issuance"
    [] events[1].kind = "transition"  -> "permit.transition"
    [] events[1].kind = "pairRevoked" -> "generation-pair.revocation"

SendsSide(c, does) ==
  /\ queue' = Append(queue, Request(<<c, "side">>, TxnOf(does), does, TimeOf(c, does)))
  /\ UNCHANGED <<flight, answers, broker>>

AuthenticatedSide(c) ==
  /\ side[c].at = "authenticating"
  /\ \/ /\ AssertActive
        /\ Waits(c, "appending", side[c].does, 0) /\ SendsSide(c, side[c].does)
     \/ side' = [side EXCEPT ![c].at = "done"] /\ Quiet
  /\ UNCHANGED <<vars, started, hold, native, issued, run>>

\* revokeRegisteredControlRecord and revokeActiveGeneration wait for nobody.
CallDirect(c, does) ==
  /\ side[c].at = "idle" /\ AssertStarted
  /\ IF AssertActive THEN Waits(c, "appending", does, 0) /\ SendsSide(c, does)
     ELSE Waits(c, "done", Nothing, 0) /\ Quiet
  /\ UNCHANGED <<vars, started, hold, native, issued, run>>

SideDone(c) ==
  /\ side[c].at = "appending" /\ Answered(<<c, "side">>)
  /\ side' = [side EXCEPT ![c].at = "done"]
  /\ LET persisted == Told(<<c, "side">>, "persisted")
         kind == side[c].does[1].kind IN
     /\ issued' = IF persisted /\ kind = "issued" THEN issued \cup {side[c].does[1].permit} ELSE issued
     /\ started' = (started /\ ~(persisted /\ kind = "pairRevoked"))
  /\ Quiet /\ UNCHANGED <<vars, hold, native, run>>

SideCall(c) ==
  \/ \E s \in Seals, id \in RecordIds, d \in Lifetimes :
       CallAwaiting(c, <<Sealed(s, broker.gen, id.nonce, id.op, clock + d)>>)
  \/ \E p \in Permits, id \in RecordIds, s \in Seals, w \in Windows :
       CallAwaiting(c, <<Issued(p, broker.gen, id.nonce, s, clock, clock + w.wait, clock + w.lasts)>>)
  \/ \E p \in Permits : CallAwaiting(c, <<Transition(p, "withdraw", None)>>)
  \/ \E s \in Seals : CallDirect(c, <<SealRevoked(s)>>)
  \/ CallDirect(c, <<PairRevoked(broker.gen)>>)

----------------------------------------------------------------------------

\* start(): nothing to recover, no active operation, the pair in force.
Start ==
  /\ ~started /\ Seen = {} /\ lock = None /\ AssertActive /\ broker.open
  /\ \A r \in Runs : run[r].at = "idle"
  /\ started' = TRUE
  /\ Quiet /\ UNCHANGED <<vars, hold, native, issued, run, side>>

LauncherInit ==
  /\ started = (issued # {}) /\ hold = FALSE /\ native = None
  /\ run = [r \in Runs |-> Idle]
  /\ side = [c \in Sides |-> [at |-> "idle", does |-> Nothing, time |-> 0]]

RunStep(r) ==
  \/ Authenticated(r) \/ Locked(r) \/ Begun(r) \/ BeginFailed(r) \/ Probed(r) \/ Released(r) \/ Verified(r)
  \/ Finished(r) \/ Marked(r) \/ Rostered(r) \/ Delivered(r) \/ Unlocked(r) \/ Closed(r)

SideStep(c) == AuthenticatedSide(c) \/ SideDone(c)

LauncherStep ==
  \/ Start
  \/ \E r \in DryRuns : CallDryRun(r)
  \/ \E r \in Audits : CallAudit(r)
  \/ \E c \in Sides : SideCall(c) \/ SideStep(c)
  \/ \E r \in Runs : RunStep(r)

\* The store as a ceremony left it, the pair in force; or with a bundle seal too;
\* or with a permit under it that this session has issued.
CeremonyInit ==
  /\ \E d \in Lifetimes, s \in Seals, id \in RecordIds, p \in Permits, w \in Windows :
       LET activation == Commit(1, "generation-pair.activation", 1, <<Activated(1, 1 + d)>>)
           sealing == Commit(2, "registry.bundle_seal", 1, <<Sealed(s, 1, id.nonce, id.op, 1 + d)>>)
           issuing == Commit(3, "permit.issuance", 1, <<Issued(p, 1, id.nonce, s, 3, 3 + w.wait, 3 + w.lasts)>>) IN
       \/ log = <<activation>> /\ issued = {}
       \/ log = <<activation, sealing>> /\ issued = {}
       \/ log = <<activation, sealing, issuing>> /\ issued = {p}
  /\ Replays(log) /\ head = Len(log) /\ clock = Len(log) + 1
  /\ pending = 0 /\ mutex = None /\ lock = None

SessionInit == CeremonyInit /\ BrokerInit /\ LauncherInit

SomeoneWaits ==
  (\E r \in Runs : run[r].at \notin {"idle"} \cup Ends) \/ (\E c \in Sides : side[c].at \notin {"idle", "done"})

\* Time passes while no request is in flight, each being served at the time it
\* carries: by one when the present moment has been used, or until all expires
\* when that could surprise someone.
SessionTick ==
  /\ flight = None /\ clock < MaxTime
  /\ \/ clock' = clock + 1 /\ LastAt(log) = clock
     \/ clock' = MaxTime /\ SomeoneWaits
  /\ UNCHANGED <<storeVars, brokerVars, launcherVars>>

SessionNext ==
  \/ SessionTick
  \/ BrokerStep /\ UNCHANGED launcherVars
  \/ LauncherStep

\* The worker, the double, the helper and the timers act; nobody need call.
SessionSpec ==
  /\ SessionInit /\ [][SessionNext]_allVars
  /\ WF_allVars((Send \/ Serve \/ Receive \/ LoseResponse) /\ UNCHANGED launcherVars)
  /\ \A r \in Runs : WF_allVars(RunStep(r))
====

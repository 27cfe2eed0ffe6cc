---- MODULE ControlLedger ----
(***************************************************************************)
(* What the protected control store records: generation pairs, bundle      *)
(* seals, bootstrap permits and operations, and whose authority each       *)
(* commit is written under (src/d9/control-plane/state-store.mjs).         *)
(*                                                                         *)
(* StateStore models how one commit reaches the disk and leaves out what   *)
(* it says; this module models what it says and keeps of the disk only     *)
(* where a publish may be cut short.  A generation pair is its number, a   *)
(* record is its code, times are numbers, and the role bindings of a pair  *)
(* end with the pair.  A registry record is a bundle seal; handoffs take   *)
(* the same path.                                                          *)
(***************************************************************************)
EXTENDS Integers, Sequences, FiniteSets

CONSTANTS
  Ops, Nonces, Seals, Permits,  \* operation ids, nonces, record codes
  None,
  Lifetimes,    \* for how long a generation pair or a seal may be valid
  Windows,      \* [wait, lasts]: not_before - issued_at, expires_at - issued_at
  MinClaim,     \* time a permit must have left when it is claimed (60 s)
  MaxLasts,     \* longest lifetime of a bootstrap permit (one hour)
  MaxTime, MaxCommits   \* bounds of the instance

ASSUME LedgerAssumption ==
  /\ Lifetimes \subseteq Nat \ {0}
  /\ Windows \subseteq [wait : Nat, lasts : Nat \ {0}]
  /\ MinClaim \in Nat /\ MaxLasts \in Nat
  /\ MaxTime \in Nat /\ MaxCommits \in Nat
  /\ None \notin Ops \cup Nonces \cup Seals \cup Permits

VARIABLES
  clock,     \* protected broker time
  log,       \* commits/, linked or anchored
  head,      \* HEAD.json: how many of them are anchored
  pending,   \* 0, or the time of the commit whose bytes pending/ holds
  mutex,     \* append.lock: None or its lease
  lock       \* operation.lock: None or its lease; alive: its owner holds it

vars == <<clock, log, head, pending, mutex, lock>>

----------------------------------------------------------------------------
(* The projection: what the commits of a log say, as a set of facts.       *)

Facts(L) ==
  UNION { { [at |-> L[i].at, says |-> L[i].events[j]] : j \in DOMAIN L[i].events } : i \in DOMAIN L }

Said(F, kind) == { f \in F : f.says.kind = kind }

Pairs(F) == { [gen |-> f.says.gen, activated |-> f.at, expires |-> f.says.expires] : f \in Said(F, "activated") }

LastGen(F) == Cardinality(Said(F, "activated"))

PairRevokedBy(F, g, at) == \E f \in Said(F, "pairRevoked") : f.says.gen = g /\ f.at <= at

\* Variant: an older pair serves again once the later one is gone.
Selects_resurrects(F, at, g) ==
  \E p \in Pairs(F) : p.gen = g /\ p.activated <= at /\ at < p.expires /\ ~PairRevokedBy(F, g, at)

\* The latest pair activated by then, if it is neither revoked nor expired;
\* older pairs do not resurrect.
Selects(F, at, g) ==
  \E p \in Pairs(F) :
    /\ p.gen = g /\ p.activated <= at /\ at < p.expires
    /\ \A q \in Pairs(F) : q.activated <= at => q.gen <= g
    /\ ~PairRevokedBy(F, g, at)

\* A pair that was valid at a past moment, whatever came after it.
WasValid(F, at, g) ==
  \E p \in Pairs(F) :
    /\ p.gen = g /\ p.activated <= at /\ at < p.expires
    /\ ~PairRevokedBy(F, g, at - 1)

SealLive(F, s, at) ==
  /\ \E f \in Said(F, "sealed") : f.says.seal = s /\ f.at <= at /\ at < f.says.expires
  /\ ~\E f \in Said(F, "sealRevoked") : f.says.seal = s /\ f.at <= at

\* The active seals that match a permit record, sealed before it was issued.
MatchingSeals(F, r, at) ==
  { f.says.seal : f \in { f \in Said(F, "sealed") :
      /\ f.says.gen = r.gen /\ f.says.nonce = r.nonce
      /\ f.at <= r.issued
      /\ SealLive(F, f.says.seal, at) } }

Issuances(F) == { f.says : f \in Said(F, "issued") }

Transitions(F, p) == { f.says.step : f \in { f \in Said(F, "transition") : f.says.permit = p } }

\* Variant: the claim is looked for before the end.
PermitState_claimFirst(F, p) ==
  LET steps == Transitions(F, p) IN
  IF "withdraw" \in steps THEN "revoked"
  ELSE IF "claim" \in steps THEN "in_progress"
  ELSE IF "ambiguous" \in steps THEN "recovery_required"
  ELSE "ready"

PermitState(F, p) ==
  LET steps == Transitions(F, p) IN
  IF "withdraw" \in steps THEN "revoked"
  ELSE IF "ambiguous" \in steps THEN "recovery_required"
  ELSE IF "claim" \in steps THEN "in_progress"
  ELSE "ready"

Operations(F) ==
  { [op |-> f.says.op, nonce |-> f.says.nonce, gen |-> f.says.gen, permit |-> f.says.permit,
     started |-> f.at] : f \in Said(F, "started") }

Ended(F, o) == \E f \in F : f.says.kind \in {"noEffect", "ambiguous"} /\ f.says.op = o.op

InProgress(F) == { o \in Operations(F) : ~Ended(F, o) }

Hold(F) == Said(F, "ambiguous") # {}

----------------------------------------------------------------------------
(* applyEvent: may this event extend that projection at time t?            *)

Activated(g, e)       == [kind |-> "activated", gen |-> g, expires |-> e]
PairRevoked(g)        == [kind |-> "pairRevoked", gen |-> g]
Sealed(s, g, n, o, e) == [kind |-> "sealed", seal |-> s, gen |-> g, nonce |-> n, op |-> o, expires |-> e]
SealRevoked(s)        == [kind |-> "sealRevoked", seal |-> s]
Issued(p, g, n, s, i, b, e) ==
  [kind |-> "issued", permit |-> p, gen |-> g, nonce |-> n, seal |-> s, issued |-> i, notBefore |-> b, expires |-> e]
Transition(p, step, o) == [kind |-> "transition", permit |-> p, step |-> step, op |-> o]
Started(o, n, g, p)   == [kind |-> "started", op |-> o, nonce |-> n, gen |-> g, permit |-> p]
NoEffect(o)           == [kind |-> "noEffect", op |-> o]
Ambiguous(o)          == [kind |-> "ambiguous", op |-> o]
Recovered(action, affected, o) == [kind |-> "recovered", action |-> action, affected |-> affected, op |-> o]

ActivationApplies(F, e, t) ==
  /\ e.gen = LastGen(F) + 1
  /\ t < e.expires
  /\ \A p \in Pairs(F) : p.activated < t

PairRevocationApplies(F, e, t) ==
  /\ \E p \in Pairs(F) : p.gen = e.gen /\ p.activated <= t
  /\ \A f \in Said(F, "pairRevoked") : f.says.gen # e.gen

SealApplies(F, e, t) ==
  /\ t < e.expires
  /\ Selects(F, t, e.gen)
  /\ \A f \in Said(F, "sealed") : f.says.seal # e.seal

SealRevocationApplies(F, e) ==
  /\ \E f \in Said(F, "sealed") : f.says.seal = e.seal
  /\ \A f \in Said(F, "sealRevoked") : f.says.seal # e.seal

IssuanceApplies(F, e, t) ==
  /\ e.issued <= e.notBefore /\ e.notBefore < e.expires
  /\ e.expires - e.issued <= MaxLasts
  /\ e.issued <= t /\ t < e.expires
  /\ Selects(F, t, e.gen)
  /\ \A p \in Pairs(F) : p.gen = e.gen => e.expires <= p.expires /\ p.activated <= e.issued
  /\ MatchingSeals(F, e, t) = {e.seal}
  /\ \A r \in Issuances(F) : r.permit # e.permit /\ r.nonce # e.nonce
  /\ \A o \in Operations(F) : o.nonce # e.nonce

\* The closed transition matrix for bootstrap permits.
Rule(from, step) ==
  \/ from = "ready" /\ step \in {"claim", "withdraw"}
  \/ from = "in_progress" /\ step \in {"effect", "ambiguous"}

TransitionApplies(F, e, t) ==
  \E r \in Issuances(F) :
    /\ r.permit = e.permit
    /\ Rule(PermitState(F, e.permit), e.step)
    /\ t < r.expires
    /\ e.step # "withdraw" => r.notBefore <= t
    /\ Selects(F, t, r.gen)
    /\ e.step = "claim" =>
         /\ r.expires - t >= MinClaim
         /\ SealLive(F, r.seal, t)
         /\ \E f \in Said(F, "sealed") : f.says.seal = r.seal /\ f.says.op = e.op
    /\ \A f \in Said(F, "transition") : f.says.permit = e.permit => f.at < t /\ f.says.op = e.op

StartApplies(F, e, t) ==
  /\ Selects(F, t, e.gen)
  /\ \A o \in Operations(F) : o.op # e.op /\ o.nonce # e.nonce
  /\ IF e.permit = None
     THEN \A r \in Issuances(F) : r.nonce # e.nonce
     ELSE /\ \E r \in Issuances(F) : r.permit = e.permit /\ r.nonce = e.nonce /\ r.gen = e.gen
          /\ PermitState(F, e.permit) = "in_progress"
          /\ \E f \in Said(F, "transition") : f.says = Transition(e.permit, "claim", e.op) /\ f.at = t

EndApplies(F, e, t) == \E o \in InProgress(F) : o.op = e.op /\ o.started <= t

ApplyEvent(F, e, t) ==
  \/ e.kind = "activated" /\ ActivationApplies(F, e, t)
  \/ e.kind = "pairRevoked" /\ PairRevocationApplies(F, e, t)
  \/ e.kind = "sealed" /\ SealApplies(F, e, t)
  \/ e.kind = "sealRevoked" /\ SealRevocationApplies(F, e)
  \/ e.kind = "issued" /\ IssuanceApplies(F, e, t)
  \/ e.kind = "transition" /\ TransitionApplies(F, e, t)
  \/ e.kind = "started" /\ StartApplies(F, e, t)
  \/ e.kind \in {"noEffect", "ambiguous"} /\ EndApplies(F, e, t)
  \/ e.kind = "recovered"

----------------------------------------------------------------------------
(* Under whose authority a commit is written, and under whose it is read.  *)

HistoricalTxns == {"recovery.lock", "recovery.operation-no-effect", "recovery.terminal-lock"}

\* historicalRecoveryAuthority: the pair of the operation the events name, at
\* its start, or else the last pair, at its activation.
HistoricalAuthority(F, events, g) ==
  LET named == { o \in Operations(F) : \E j \in DOMAIN events : events[j].op = o.op } IN
  IF named # {}
  THEN \E o \in named : o.gen = g /\ WasValid(F, o.started, g)
  ELSE \E p \in Pairs(F) : p.gen = g /\ g = LastGen(F) /\ WasValid(F, p.activated, g)

Genesis(F, events, g) == Pairs(F) = {} /\ g = 1 /\ Len(events) = 1 /\ events[1].kind = "activated"

AuthorityForAppend(F, txn, events, t, g) ==
  \/ Genesis(F, events, g)
  \/ Pairs(F) # {} /\ txn \in HistoricalTxns /\ HistoricalAuthority(F, events, g)
  \/ Pairs(F) # {} /\ txn \notin HistoricalTxns /\ Selects(F, t, g)

\* authorityForCommit, with the commits before it.
AuthorityForCommit(L, c) ==
  LET F == Facts(L)
      e == c.events[1] IN
  \/ Genesis(F, c.events, c.gen)
  \/ /\ Pairs(F) # {} /\ c.txn = "recovery.publish"
     /\ IF e.affected # 0
        THEN e.affected = Len(L) /\ L[e.affected].gen = c.gen /\ WasValid(F, L[e.affected].at, c.gen)
        ELSE \E p \in Pairs(F) : p.gen = c.gen /\ WasValid(F, p.activated, c.gen)
  \/ Pairs(F) # {} /\ c.txn \in HistoricalTxns /\ HistoricalAuthority(F, c.events, c.gen)
  \/ Pairs(F) # {} /\ c.txn \notin HistoricalTxns \cup {"recovery.publish"} /\ Selects(F, c.at, c.gen)

NoEffectTxns == {"operation.no-effect", "recovery.operation-no-effect"}

\* validateOperationTerminalTransaction: a permitted operation ends together
\* with its permit, an unpermitted one alone.
TerminalTransaction(F, txn, events) ==
  LET last == events[Len(events)]
      step == IF txn \in NoEffectTxns THEN "noEffect" ELSE "ambiguous" IN
  txn \in NoEffectTxns \cup {"operation.recovery-required"} =>
    /\ last.kind = IF txn \in NoEffectTxns THEN "noEffect" ELSE "ambiguous"
    /\ \E o \in InProgress(F) :
         /\ o.op = last.op
         /\ IF o.permit = None THEN Len(events) = 1
            ELSE Len(events) = 2 /\ events[1] = Transition(o.permit, step, o.op)

EventsApply(F, events, t) ==
  \A j \in DOMAIN events :
    ApplyEvent(F \cup { [at |-> t, says |-> events[i]] : i \in 1..(j - 1) }, events[j], t)

LastAt(L) == IF L = <<>> THEN 0 ELSE L[Len(L)].at

\* What _appendEvents accepts on top of a log.
Appendable(L, txn, events, t, g) ==
  LET F == Facts(L) IN
  /\ LastAt(L) < t
  /\ AuthorityForAppend(F, txn, events, t, g)
  /\ TerminalTransaction(F, txn, events)
  /\ EventsApply(F, events, t)

\* What _refresh and replayCommits accept when the store is read again.
Replays(L) ==
  \A n \in DOMAIN L :
    LET before == SubSeq(L, 1, n - 1) IN
    /\ LastAt(before) < L[n].at
    /\ AuthorityForCommit(before, L[n])
    /\ TerminalTransaction(Facts(before), L[n].txn, L[n].events)
    /\ EventsApply(Facts(before), L[n].events, L[n].at)

----------------------------------------------------------------------------
(* The directory as _refresh sees it.                                      *)

Anchored == SubSeq(log, 1, head)
Now == Facts(Anchored)

Holder(l) == { o \in InProgress(Now) : l # None /\ l.whole /\ l.op = o.op }

\* Who dies no longer holds the operation lock.
Orphaned(l) == IF l = None THEN None ELSE [l EXCEPT !.alive = FALSE]

\* Variant: an operation that ended ambiguously leaves no hold.
ReasonsSeen_noHold(l) ==
  (IF pending # 0 THEN {"pending_publish"} ELSE {})
  \cup (IF mutex # None THEN {"append_lock_present"} ELSE {})
  \cup (IF Len(log) > head THEN {"unanchored_commit"} ELSE {})
  \cup (IF l # None /\ ~l.alive THEN {"unfinished_operation"} ELSE {})
  \cup (IF InProgress(Now) \ Holder(l) # {} THEN {"operation_without_lock"} ELSE {})

\* recoveryReasons: why nothing ordinary may be written.
ReasonsSeen(l) ==
  (IF pending # 0 THEN {"pending_publish"} ELSE {})
  \cup (IF mutex # None THEN {IF mutex.whole THEN "append_lock_present" ELSE "incomplete_append_lock"} ELSE {})
  \cup (IF Len(log) > head THEN {"unanchored_commit"} ELSE {})
  \cup (IF l = None THEN {}
        ELSE IF ~l.whole THEN {"incomplete_operation_lock"}
        ELSE IF \A o \in Operations(Now) : o.op # l.op THEN {"lock_without_operation"}
        ELSE IF Holder(l) = {} THEN {"terminal_operation_lock"}
        ELSE IF ~l.alive THEN {"unfinished_operation"} ELSE {})
  \cup (IF InProgress(Now) \ Holder(l) # {} THEN {"operation_without_lock"} ELSE {})
  \cup (IF Hold(Now) THEN {"operation_recovery_hold"} ELSE {})

\* To the process that holds the operation lock, and to any other.
Reasons == ReasonsSeen(lock)
Seen == ReasonsSeen(Orphaned(lock))

TolerableReasons(txn) ==
  CASE txn = "operation.begin"         -> {"lock_without_operation"}
    [] txn = "recovery.lock"           -> {"incomplete_operation_lock", "lock_without_operation"}
    [] txn = "recovery.terminal-lock"  -> {"operation_recovery_hold", "terminal_operation_lock"}
    [] OTHER                           -> {}

----------------------------------------------------------------------------
(* One publish: it completes, or it is cut short by the death of the       *)
(* process (the append mutex stays) or by an error (it does not).          *)

Commit(t, txn, g, events) == [txn |-> txn, at |-> t, gen |-> g, events |-> events]

Accepts(t, txn, g, events) == Len(log) = head /\ Appendable(log, txn, events, t, g)

Publishable(t, txn, events) ==
  /\ Reasons \subseteq TolerableReasons(txn)
  /\ \E g \in 1..(LastGen(Now) + 1) : Accepts(t, txn, g, events)

Completes(c) ==
  /\ log' = Append(log, c) /\ head' = head + 1
  /\ UNCHANGED <<pending, mutex>>

\* Where a death may strike; an error is caught, so it strikes only in between.
CutStages == {"lock", "pending", "linked", "anchored", "cleaned", "done"}
ErrorStages == {"pending", "linked", "anchored"}

Cut(c, stage, killed) ==
  /\ killed \/ stage \in ErrorStages
  /\ log' = IF stage \in {"lock", "pending"} THEN log ELSE Append(log, c)
  /\ head' = IF stage \in {"lock", "pending", "linked"} THEN head ELSE head + 1
  /\ pending' = IF stage \in ErrorStages THEN c.at ELSE 0
  /\ IF killed /\ stage # "done"
     THEN \E whole \in (IF stage = "lock" THEN BOOLEAN ELSE {TRUE}) :
            mutex' = [whole |-> whole, seq |-> head + 1, at |-> c.at, txn |-> c.txn]
     ELSE mutex' = None

\* An append with the operation lock as it stands meanwhile (held), when all is
\* done (after), and when an error comes after the commit is anchored (caught).
Published(t, txn, events, after) ==
  \E g \in 1..(LastGen(Now) + 1) :
    Accepts(t, txn, g, events) /\ Completes(Commit(t, txn, g, events)) /\ lock' = after

CutShort(t, txn, events, held, caught, killed) ==
  \E g \in 1..(LastGen(Now) + 1), stage \in CutStages :
    /\ Accepts(t, txn, g, events)
    /\ Cut(Commit(t, txn, g, events), stage, killed)
    /\ lock' = IF killed THEN Orphaned(held) ELSE IF stage = "anchored" THEN caught ELSE held

Publish(t, txn, events, held, after, caught) ==
  /\ Len(log) < MaxCommits
  /\ Reasons \subseteq TolerableReasons(txn)
  /\ \/ Published(t, txn, events, after)
     \/ \E killed \in BOOLEAN : CutShort(t, txn, events, held, caught, killed)
  /\ UNCHANGED clock

Ordinary(txn, events) == Publish(clock, txn, events, lock, lock, lock)

----------------------------------------------------------------------------
(* The store's interface.                                                  *)

ActivateGenerationPair(d) ==
  Ordinary("generation-pair.activation", <<Activated(LastGen(Now) + 1, clock + d)>>)

RevokeGenerationPair(g) == Ordinary("generation-pair.revocation", <<PairRevoked(g)>>)

RegisterFixedRecord(s, g, n, o, d) == Ordinary("registry.bundle_seal", <<Sealed(s, g, n, o, clock + d)>>)

RevokeFixedRecord(s) == Ordinary("registry.revocation", <<SealRevoked(s)>>)

IssuePermit(p, g, n, i, w) ==
  \E s \in Seals :
    Ordinary("permit.issuance", <<Issued(p, g, n, s, i, i + w.wait, i + w.lasts)>>)

\* Only an authority withdrawal may be appended by itself.
AppendPermitTransition(p) == Ordinary("permit.transition", <<Transition(p, "withdraw", None)>>)

Lease(o, n, t) == [op |-> o, nonce |-> n, at |-> t, alive |-> TRUE, whole |-> TRUE]

BeginEvents(o, n, g, p) ==
  IF p = None THEN <<Started(o, n, g, None)>>
  ELSE <<Transition(p, "claim", o), Started(o, n, g, p)>>

\* operation.lock first, then the claim and the start in one commit.
BeginOperation(o, n, g, p) ==
  /\ lock = None
  /\ Publish(clock, "operation.begin", BeginEvents(o, n, g, p), Lease(o, n, clock), Lease(o, n, clock), Lease(o, n, clock))

\* The process dies after it made operation.lock and before it appends.
DieInBegin(o, n) ==
  /\ lock = None /\ Reasons = {}
  /\ \E whole \in BOOLEAN :
       lock' = [op |-> IF whole THEN o ELSE None, nonce |-> IF whole THEN n ELSE None,
                at |-> clock, alive |-> FALSE, whole |-> whole]
  /\ UNCHANGED <<clock, log, head, pending, mutex>>

Owns(o) == lock # None /\ lock.alive /\ lock.op = o.op

EndEvents(o, step, last) ==
  IF o.permit = None THEN <<last>> ELSE <<Transition(o.permit, step, o.op), last>>

FinishNoEffect(o) ==
  /\ Owns(o)
  /\ Publish(clock, "operation.no-effect", EndEvents(o, "noEffect", NoEffect(o.op)), lock, None, None)

MarkRecoveryRequired(o) ==
  /\ Owns(o)
  /\ Publish(clock, "operation.recovery-required", EndEvents(o, "ambiguous", Ambiguous(o.op)), lock, None, lock)

Die ==
  /\ lock # None /\ lock.alive
  /\ lock' = Orphaned(lock)
  /\ UNCHANGED <<clock, log, head, pending, mutex>>

----------------------------------------------------------------------------
(* Recovery.  The caller has proved the former owner dead.                 *)

\* The commit an interrupted publish left behind, linked or already anchored,
\* as its sequence; 0 if there is none.
RecoveredSeq ==
  IF Len(log) > head THEN head + 1
  ELSE IF mutex # None /\ mutex.whole /\ mutex.seq = head THEN head
  ELSE 0

\* Variants: the recovery answers to the pair in force when it is run, or to the
\* last one.
PublishAuthority_now(g) == Selects(Facts(log), clock, g)

PublishAuthority_last(g) == g = LastGen(Facts(log))

\* The pair under which the publish recovery is audited.
PublishAuthority(g) ==
  LET n == RecoveredSeq IN
  IF n = 1 THEN g = 1
  ELSE IF n # 0
  THEN g = log[n].gen /\ Selects(Facts(SubSeq(log, 1, n - 1)), log[n].at, g)
  ELSE IF mutex # None /\ mutex.whole
  THEN Selects(Now, mutex.at, g)
  ELSE \E p \in Pairs(Now) : p.gen = g /\ g = LastGen(Now) /\ WasValid(Now, p.activated, g)

PublishAction ==
  IF Len(log) > head THEN "finalized_durable_unanchored_commit"
  ELSE IF RecoveredSeq # 0 THEN "completed_durable_head_commit_cleanup"
  ELSE IF pending # 0 THEN "discarded_uncommitted_pending"
  ELSE "discarded_abandoned_append_lock"

Interrupted == pending # 0 \/ Len(log) > head \/ mutex # None

\* Why the recovery may be refused whoever asks and whenever.
Correlated == ~(Len(log) > head /\ mutex # None /\ ~mutex.whole)

\* It must follow the pending commit and the acquisition of the mutex.
Follows == pending < clock /\ ((mutex # None /\ mutex.whole) => mutex.at < clock)

RecoverInterruptedPublish ==
  /\ Interrupted /\ log # <<>> /\ Correlated
  /\ LastAt(log) < clock /\ Follows
  /\ \E g \in 1..LastGen(Facts(log)) :
       /\ PublishAuthority(g)
       /\ log' = Append(log, Commit(clock, "recovery.publish", g, <<Recovered(PublishAction, RecoveredSeq, None)>>))
  /\ head' = Len(log')
  /\ pending' = 0 /\ mutex' = None
  /\ UNCHANGED <<clock, lock>>

\* Before genesis nothing can be audited: the remnants are discarded.
DiscardPreGenesis ==
  /\ log = <<>> /\ Interrupted
  /\ pending = 0 => mutex.whole
  /\ Follows
  /\ pending' = 0 /\ mutex' = None
  /\ UNCHANGED <<clock, log, head, lock>>

\* The audit of this lock incident, if it was recorded before the lock went.
Audited(action) ==
  \E f \in Said(Now, "recovered") : f.says.action = action /\ f.says.op = lock.op /\ lock.at < f.at

LockAudit(txn, action) ==
  IF Audited(action)
  THEN lock' = None /\ UNCHANGED <<clock, log, head, pending, mutex>>
  ELSE lock.at < clock /\ Publish(clock, txn, <<Recovered(action, 0, lock.op)>>, lock, None, lock)

DiscardUnregisteredLock ==
  /\ lock # None /\ ~lock.alive
  /\ IF lock.whole THEN \A o \in Operations(Now) : o.nonce # lock.nonce ELSE InProgress(Now) = {}
  /\ LockAudit("recovery.lock", IF lock.whole THEN "discarded_uncommitted_pending" ELSE "discarded_incomplete_lock")

ReconcileTerminalLock ==
  /\ lock # None /\ lock.whole /\ ~lock.alive
  /\ \E o \in Operations(Now) : o.nonce = lock.nonce /\ Ended(Now, o) /\ WasValid(Now, o.started, o.gen)
  /\ LockAudit("recovery.terminal-lock", "removed_terminal_operation_lock")

Orphan(o) == lock # None /\ lock.whole /\ ~lock.alive /\ o \in InProgress(Now) /\ o.nonce = lock.nonce

\* The caller takes the lease over before anything else can be refused.
TakeOver == [lock EXCEPT !.alive = TRUE]

\* Reasons that remain for whoever has taken the lease over.
OtherReasons == Reasons \ {"unfinished_operation"}

RecoverNoEffectAfterCrash(o) ==
  /\ Len(log) < MaxCommits
  /\ Orphan(o) /\ pending = 0 /\ Len(log) = head
  /\ WasValid(Now, o.started, o.gen)
  /\ LET events == EndEvents(o, "noEffect", NoEffect(o.op))
         g == o.gen
         c == Commit(clock, "recovery.operation-no-effect", g, events) IN
     IF OtherReasons = {} /\ Accepts(clock, "recovery.operation-no-effect", g, events)
     THEN \/ Completes(c) /\ lock' = None
          \/ \E stage \in CutStages, killed \in BOOLEAN :
               /\ Cut(c, stage, killed)
               /\ lock' = IF killed THEN lock ELSE IF stage = "anchored" THEN None ELSE TakeOver
     ELSE lock' = TakeOver /\ UNCHANGED <<log, head, pending, mutex>>
  /\ UNCHANGED clock

----------------------------------------------------------------------------

Init ==
  /\ clock = 1 /\ log = <<>> /\ head = 0
  /\ pending = 0 /\ mutex = None /\ lock = None

Tick == clock < MaxTime /\ clock' = clock + 1 /\ UNCHANGED <<log, head, pending, mutex, lock>>

Gens == 1..LastGen(Now)

Registry ==
  \/ \E s \in Seals, g \in Gens, n \in Nonces, o \in Ops, d \in Lifetimes : RegisterFixedRecord(s, g, n, o, d)
  \/ \E s \in Seals : RevokeFixedRecord(s)

PermitSteps ==
  \/ \E p \in Permits, g \in Gens, n \in Nonces, i \in 1..clock, w \in Windows : IssuePermit(p, g, n, i, w)
  \/ \E p \in Permits : AppendPermitTransition(p)

OperationSteps ==
  \/ \E o \in Ops, n \in Nonces, g \in Gens, p \in Permits \cup {None} : BeginOperation(o, n, g, p)
  \/ \E o \in Ops, n \in Nonces : DieInBegin(o, n)
  \/ \E o \in Operations(Now) : FinishNoEffect(o) \/ MarkRecoveryRequired(o)
  \/ Die

RecoverySteps ==
  \/ RecoverInterruptedPublish \/ DiscardPreGenesis
  \/ DiscardUnregisteredLock \/ ReconcileTerminalLock
  \/ \E o \in Operations(Now) : RecoverNoEffectAfterCrash(o)

Next ==
  \/ Tick
  \/ \E d \in Lifetimes : ActivateGenerationPair(d)
  \/ \E g \in Gens : RevokeGenerationPair(g)
  \/ Registry \/ PermitSteps \/ OperationSteps \/ RecoverySteps

Spec == Init /\ [][Next]_vars
====

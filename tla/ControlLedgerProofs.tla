------------------------ MODULE ControlLedgerProofs ------------------------
(***************************************************************************)
(* The contents of the protected control store, for any operations,        *)
(* nonces, seals, permits, lifetimes and bounds: whatever was linked is    *)
(* accepted when the store is read again, a permit serves one operation,   *)
(* a revoked or replaced generation is silent, and what a crash left can   *)
(* be cleaned up under the authority of its own time.                      *)
(*                                                                         *)
(* The invariants are about the log alone, but for DiskInv, which says     *)
(* how far an interrupted publish has come.  A step either leaves the log  *)
(* alone or extends it by one commit (lemma Growth), so each invariant is  *)
(* proved for one such extension.                                          *)
(*                                                                         *)
(* Then the launcher and the append broker, over that store: SessionInv    *)
(* says who has called and where each caller waits, what every request in  *)
(* the queue asks for, that whatever was committed since the session began *)
(* has its answer or is the request in flight, and that an operation once  *)
(* begun keeps all others out until it has ended without effect.           *)
(***************************************************************************)
EXTENDS LauncherProps, FiniteSetTheorems, TLAPS

-----------------------------------------------------------------------------
(* The inductive invariant.                                                *)

TypeOK ==
  /\ clock \in Nat /\ head \in Nat /\ pending \in Nat
  /\ log \in Seq(Commits)
  /\ mutex \in Mutexes \cup {None} /\ lock \in Leases \cup {None}
  /\ lock # None /\ lock.whole => lock.op \in Ops

\* Commits are in the order of their times, and none is of the future.
TimesInv ==
  /\ \A m, n \in DOMAIN log : m < n => log[m].at < log[n].at
  /\ \A n \in DOMAIN log : log[n].at \in 1..clock

\* The first commit activates the first pair.
GenesisInv ==
  log # <<>> =>
    /\ log[1].gen = 1 /\ Len(log[1].events) = 1
    /\ log[1].events[1].kind = "activated" /\ log[1].events[1].gen = 1

\* Pairs are numbered in the order of their activation, and valid when activated.
PairsInv ==
  /\ IsFiniteSet(All)
  /\ \A p \in Pairs(All) : p.gen \in 1..LastGen(All) /\ p.activated < p.expires
  /\ log # <<>> => \E p \in Pairs(All) : p.gen = LastGen(All)
  /\ \A f, h \in Said(All, "activated") : f.at < h.at => f.says.gen < h.says.gen

\* A pair is revoked after it was activated.
RevokedInv ==
  \A f \in Said(All, "pairRevoked") :
    /\ f.says.gen \in 1..LastGen(All)
    /\ \A p \in Pairs(All) : p.gen = f.says.gen => p.activated <= f.at

\* What the mutex or an unanchored commit says of the publish that was cut short.
Attempted ==
  \/ log = <<>> \/ mutex.txn \in HistoricalTxns
  \/ \E g \in 1..LastGen(All) : Selects(All, mutex.at, g)

DiskInv ==
  /\ head <= Len(log) /\ Len(log) <= head + 1
  /\ Len(log) > head => log[Len(log)].txn # "recovery.publish"
  /\ mutex # None /\ mutex.whole =>
       \/ mutex.seq = head + 1 /\ Len(log) = head /\ Attempted
       \/ /\ mutex.seq \in {head, head + 1} /\ mutex.seq = Len(log) /\ Len(log) > 0
          /\ log[Len(log)].txn = mutex.txn /\ mutex.txn # "recovery.publish"

\* The pair of an operation was valid when it began.
StartsInv == \A o \in Operations(All) : o.gen \in Nat /\ WasValid(All, o.started, o.gen)

Steps(p) == Transitions(All, p)

\* A permit's transitions tell exactly what became of the operation that claimed it.
PermitInv ==
  /\ \A o \in Operations(All) : o.permit # None =>
       /\ \E r \in Issuances(All) : r.permit = o.permit /\ r.nonce = o.nonce
       /\ ~EndedAs(o, "noEffect")
       /\ "claim" \in Steps(o.permit)
       /\ EndedAs(o, "ambiguous") <=> "ambiguous" \in Steps(o.permit)
  /\ \A p \in Permits :
       /\ "claim" \in Steps(p) => \E o \in Operations(All) : o.permit = p
       /\ "withdraw" \in Steps(p) => "claim" \notin Steps(p)
       /\ "ambiguous" \in Steps(p) => "claim" \in Steps(p)

\* Only what was begun ends.
EndsInv ==
  \A f \in Said(All, "noEffect") \cup Said(All, "ambiguous") :
    \E o \in Operations(All) : o.op = f.says.op

IInv ==
  /\ TypeOK /\ TimesInv /\ GenesisInv /\ PairsInv /\ RevokedInv /\ DiskInv
  /\ Reopens /\ RevokedIsSilent /\ StartsInv /\ NonceOnce /\ PermitInv /\ EndsInv

-----------------------------------------------------------------------------
(* Facts of a log that grows.                                              *)

Says(c) == { [at |-> c.at, says |-> c.events[j]] : j \in DOMAIN c.events }

LEMMA FactsMember ==
    ASSUME NEW L, NEW f
    PROVE  f \in Facts(L) <=> \E i \in DOMAIN L : f \in Says(L[i])
  BY DEF Facts, Says

LEMMA FactsAppend ==
    ASSUME NEW L \in Seq(Commits), NEW c \in Commits
    PROVE  Facts(Append(L, c)) = Facts(L) \cup Says(c)
<1>1. DOMAIN Append(L, c) = DOMAIN L \cup {Len(L) + 1} /\ DOMAIN L = 1..Len(L) /\ Len(L) \in Nat
  OBVIOUS
<1>2. Append(L, c)[Len(L) + 1] = c /\ \A i \in DOMAIN L : Append(L, c)[i] = L[i]
  OBVIOUS
<1>3. ASSUME NEW f PROVE f \in Facts(Append(L, c)) <=> f \in Facts(L) \/ f \in Says(c)
  <2>1. f \in Facts(Append(L, c)) <=> \E i \in DOMAIN Append(L, c) : f \in Says(Append(L, c)[i])
    BY FactsMember
  <2>2. f \in Facts(L) <=> \E i \in DOMAIN L : f \in Says(L[i])
    BY FactsMember
  <2> QED
    BY <2>1, <2>2, <1>1, <1>2
<1> QED
  BY <1>3

LEMMA FactsPrefix ==
    ASSUME NEW L \in Seq(Commits), NEW k \in 0..Len(L), NEW f
    PROVE  f \in Facts(SubSeq(L, 1, k)) <=> \E i \in 1..k : f \in Says(L[i])
<1>1. DOMAIN SubSeq(L, 1, k) = 1..k /\ \A i \in 1..k : SubSeq(L, 1, k)[i] = L[i]
  OBVIOUS
<1> QED
  BY <1>1, FactsMember

LEMMA PrefixFacts ==
    ASSUME NEW L \in Seq(Commits)
    PROVE  /\ SubSeq(L, 1, Len(L)) = L
           /\ \A k \in 0..Len(L) : Facts(SubSeq(L, 1, k)) \subseteq Facts(L)
           /\ Facts(<<>>) = {}
<1>1. SubSeq(L, 1, Len(L)) = L
  OBVIOUS
<1>2. \A k \in 0..Len(L) : Facts(SubSeq(L, 1, k)) \subseteq Facts(L)
  BY FactsPrefix, FactsMember
<1>3. Facts(<<>>) = {}
  BY FactsMember
<1> QED
  BY <1>1, <1>2, <1>3

LEMMA FactType ==
    ASSUME NEW L \in Seq(Commits), NEW f \in Facts(L)
    PROVE  f.at \in Nat /\ f.says \in Event /\ f = [at |-> f.at, says |-> f.says]
<1>1. PICK i \in DOMAIN L : f \in Says(L[i])
  BY FactsMember
<1>2. L[i] \in Commits
  OBVIOUS
<1> QED
  BY <1>1, <1>2 DEF Says, Commits

LEMMA SaysFinite ==
    ASSUME NEW c \in Commits
    PROVE  IsFiniteSet(Says(c))
<1>1. IsFiniteSet(1..Len(c.events)) /\ DOMAIN c.events = 1..Len(c.events)
  BY FS_Interval DEF Commits
<1> DEFINE image == [j \in DOMAIN c.events |-> [at |-> c.at, says |-> c.events[j]]]
<1>2. image \in Surjection(DOMAIN c.events, Says(c))
  BY DEF Surjection, Says
<1> QED
  BY <1>1, <1>2, FS_Surjection

LEMMA EventKinds ==
    ASSUME NEW e \in Event
    PROVE  /\ e.kind = "activated" => e.gen \in Nat
           /\ e.kind = "pairRevoked" => e.gen \in Nat
           /\ e.kind = "sealed" => e.gen \in Nat /\ e.seal \in Seals /\ e.op \in Ops
           /\ e.kind = "issued" => e.permit \in Permits /\ e.nonce \in Nonces /\ e.gen \in Nat
           /\ e.kind = "transition" =>
                /\ e.permit \in Permits /\ e.step \in StepNames
                /\ e = Transition(e.permit, e.step, e.op)
           /\ e.kind = "started" =>
                /\ e.op \in Ops /\ e.nonce \in Nonces /\ e.gen \in Nat /\ e.permit \in Permits \cup {None}
                /\ e = Started(e.op, e.nonce, e.gen, e.permit)
           /\ e.kind \in {"noEffect", "ambiguous"} => e.op \in Ops
  BY DEF Event, Transition, Started

LEMMA EventTypes ==
    /\ \A g, x \in Nat : Activated(g, x) \in Event
    /\ \A g \in Nat : PairRevoked(g) \in Event
    /\ \A s \in Seals, g \in Nat, n \in Nonces, o \in Ops, x \in Nat : Sealed(s, g, n, o, x) \in Event
    /\ \A s \in Seals : SealRevoked(s) \in Event
    /\ \A p \in Permits, g \in Nat, n \in Nonces, s \in Seals, i, b, x \in Nat :
         Issued(p, g, n, s, i, b, x) \in Event
    /\ \A p \in Permits, s \in StepNames, o \in Ops \cup {None} : Transition(p, s, o) \in Event
    /\ \A o \in Ops, n \in Nonces, g \in Nat, p \in Permits \cup {None} : Started(o, n, g, p) \in Event
    /\ \A o \in Ops : NoEffect(o) \in Event /\ Ambiguous(o) \in Event
    /\ \A a \in RecoveryActions, n \in Nat, o \in Ops \cup {None} : Recovered(a, n, o) \in Event
  BY DEF Event, Activated, PairRevoked, Sealed, SealRevoked, Issued, Transition, Started, NoEffect,
         Ambiguous, Recovered

-----------------------------------------------------------------------------
(* What a step does to the log.                                            *)

Plain == {"pairRevoked", "sealed", "sealRevoked"}

\* The transactions the store writes, and with which events.
Shape(F, txn, events) ==
  \/ /\ txn = "generation-pair.activation"
     /\ \E x \in Nat : events = <<Activated(LastGen(F) + 1, x)>>
  \/ /\ txn \in {"generation-pair.revocation", "registry.bundle_seal", "registry.revocation"}
     /\ \E e \in Event : e.kind \in Plain /\ events = <<e>>
  \/ /\ txn = "permit.issuance"
     /\ \E e \in Event : e.kind = "issued" /\ events = <<e>>
  \/ /\ txn = "permit.transition"
     /\ \E p \in Permits : events = <<Transition(p, "withdraw", None)>>
  \/ /\ txn = "operation.begin"
     /\ \E o \in Ops, n \in Nonces, g \in Nat, p \in Permits \cup {None} : events = BeginEvents(o, n, g, p)
  \/ /\ txn \in NoEffectTxns
     /\ \E o \in Operations(F) : events = EndEvents(o, "noEffect", NoEffect(o.op))
  \/ /\ txn = "operation.recovery-required"
     /\ \E o \in Operations(F) : events = EndEvents(o, "ambiguous", Ambiguous(o.op))
  \/ /\ txn \in {"recovery.lock", "recovery.terminal-lock"}
     /\ \E a \in RecoveryActions, o \in Ops \cup {None} : events = <<Recovered(a, 0, o)>>

Clean == pending = 0 /\ mutex = None /\ Len(log) = head

\* A commit is appended, or its publish is cut short.
Tries(c) ==
  /\ c \in Commits /\ c.at <= clock /\ clock' = clock /\ Clean
  /\ Appendable(log, c.txn, c.events, c.at, c.gen)
  /\ Shape(All, c.txn, c.events)
  /\ \/ Completes(c)
     \/ \E stage \in CutStages, killed \in BOOLEAN : Cut(c, stage, killed)

Rests == UNCHANGED <<log, head, pending, mutex>> /\ clock' \in Nat /\ clock <= clock'

\* The recoveries of an operation tolerate none of these.
LEMMA NoOtherReasons ==
    ASSUME OtherReasons = {}
    PROVE  pending = 0 /\ mutex = None /\ ~(Len(log) > head)
<1>1. \A x \in {"pending_publish", "append_lock_present", "incomplete_append_lock", "unanchored_commit"} :
        x \notin Reasons
  BY DEF OtherReasons
<1>2. pending # 0 => "pending_publish" \in Reasons
  BY DEF Reasons, ReasonsSeen
<1>3. mutex # None => "append_lock_present" \in Reasons \/ "incomplete_append_lock" \in Reasons
  BY DEF Reasons, ReasonsSeen
<1>4. Len(log) > head => "unanchored_commit" \in Reasons
  BY DEF Reasons, ReasonsSeen
<1> QED
  BY <1>1, <1>2, <1>3, <1>4

LEMMA CleanPublish ==
    ASSUME TypeOK, DiskInv, NEW txn, Reasons \subseteq TolerableReasons(txn)
    PROVE  pending = 0 /\ mutex = None /\ Len(log) = head
<1>1. "pending_publish" \notin TolerableReasons(txn) /\ "append_lock_present" \notin TolerableReasons(txn)
      /\ "incomplete_append_lock" \notin TolerableReasons(txn) /\ "unanchored_commit" \notin TolerableReasons(txn)
  BY DEF TolerableReasons
<1>2. pending # 0 => "pending_publish" \in Reasons
  BY DEF Reasons, ReasonsSeen
<1>3. mutex # None => "append_lock_present" \in Reasons \/ "incomplete_append_lock" \in Reasons
  BY DEF Reasons, ReasonsSeen
<1>4. Len(log) > head => "unanchored_commit" \in Reasons
  BY DEF Reasons, ReasonsSeen
<1>5. Len(log) \in Nat /\ head \in Nat /\ head <= Len(log)
  BY DEF TypeOK, DiskInv
<1> QED
  BY <1>1, <1>2, <1>3, <1>4, <1>5

LEMMA NowIsAll ==
    ASSUME TypeOK, Len(log) = head
    PROVE  Now = All
  BY PrefixFacts DEF TypeOK, Now, Anchored, All

LEMMA GenIsNat ==
    ASSUME PairsInv
    PROVE  LastGen(All) \in Nat
<1>1. IsFiniteSet(Said(All, "activated"))
  BY FS_Subset DEF PairsInv, Said
<1> QED
  BY <1>1, FS_CardinalityType DEF LastGen

LEMMA TriedAt ==
    ASSUME IInv, NEW t \in Nat, t <= clock, clock' = clock,
           NEW txn \in Txns, NEW events \in Seq(Event), Shape(All, txn, events),
           Reasons \subseteq TolerableReasons(txn),
           NEW g \in 1..(LastGen(Now) + 1), Accepts(t, txn, g, events),
           LET c == Commit(t, txn, g, events) IN
             Completes(c) \/ \E stage \in CutStages, killed \in BOOLEAN : Cut(c, stage, killed)
    PROVE  Tries(Commit(t, txn, g, events))
<1> USE DEF IInv
<1>1. Clean
  BY CleanPublish DEF Clean
<1>2. LastGen(Now) \in Nat
  BY <1>1, NowIsAll, GenIsNat DEF Clean
<1> DEFINE c == Commit(t, txn, g, events)
<1>3. c \in Commits /\ c.txn = txn /\ c.events = events /\ c.at = t /\ c.gen = g
  BY <1>2 DEF Commit, Commits
<1>4. Appendable(log, c.txn, c.events, c.at, c.gen)
  BY <1>3 DEF Accepts
<1>5. Completes(c) \/ \E stage \in CutStages, killed \in BOOLEAN : Cut(c, stage, killed)
  OBVIOUS
<1> QED
  BY <1>1, <1>3, <1>4, <1>5 DEF Tries

LEMMA Tried ==
    ASSUME IInv, NEW txn \in Txns, NEW events \in Seq(Event), Shape(All, txn, events),
           NEW held, NEW after, NEW caught,
           Publish(clock, txn, events, held, after, caught)
    PROVE  \E c : Tries(c)
<1>1. PICK g \in 1..(LastGen(Now) + 1) :
        /\ Accepts(clock, txn, g, events)
        /\ LET c == Commit(clock, txn, g, events) IN
           Completes(c) \/ \E stage \in CutStages, killed \in BOOLEAN : Cut(c, stage, killed)
  BY DEF Publish, Published, CutShort
<1>2. clock \in Nat /\ clock <= clock /\ clock' = clock /\ Reasons \subseteq TolerableReasons(txn)
  BY DEF Publish, IInv, TypeOK
<1> QED
  BY <1>1, <1>2, TriedAt

LEMMA OperationType ==
    ASSUME TypeOK, NEW o \in Operations(All)
    PROVE  /\ o.op \in Ops /\ o.nonce \in Nonces /\ o.gen \in Nat /\ o.permit \in Permits \cup {None}
           /\ o.started \in Nat
           /\ [at |-> o.started, says |-> Started(o.op, o.nonce, o.gen, o.permit)] \in All
           /\ o = [op |-> o.op, nonce |-> o.nonce, gen |-> o.gen, permit |-> o.permit, started |-> o.started]
<1>1. PICK f \in Said(All, "started") :
        o = [op |-> f.says.op, nonce |-> f.says.nonce, gen |-> f.says.gen, permit |-> f.says.permit, started |-> f.at]
  BY DEF Operations
<1>2. f \in All /\ f.says.kind = "started"
  BY DEF Said
<1>3. f.at \in Nat /\ f.says \in Event /\ f = [at |-> f.at, says |-> f.says]
  BY <1>2, FactType DEF TypeOK, All
<1>4. f.says = Started(o.op, o.nonce, o.gen, o.permit) /\ f.at = o.started
  BY <1>1, <1>2, <1>3, EventKinds
<1> QED
  BY <1>1, <1>2, <1>3, <1>4, EventKinds

LEMMA EndEventsType ==
    ASSUME TypeOK, NEW o \in Operations(All), NEW step \in StepNames
    PROVE  /\ EndEvents(o, step, NoEffect(o.op)) \in Seq(Event)
           /\ EndEvents(o, step, Ambiguous(o.op)) \in Seq(Event)
<1>1. NoEffect(o.op) \in Event /\ Ambiguous(o.op) \in Event
  BY OperationType, EventTypes
<1>2. o.permit # None => Transition(o.permit, step, o.op) \in Event
  BY OperationType, EventTypes
<1> QED
  BY <1>1, <1>2 DEF EndEvents

LEMMA BeginEventsType ==
    ASSUME NEW o \in Ops, NEW n \in Nonces, NEW g \in Nat, NEW p \in Permits \cup {None}
    PROVE  BeginEvents(o, n, g, p) \in Seq(Event)
<1>1. Started(o, n, g, p) \in Event /\ Started(o, n, g, None) \in Event
  BY EventTypes
<1>2. p # None => Transition(p, "claim", o) \in Event
  BY EventTypes DEF StepNames
<1> QED
  BY <1>1, <1>2 DEF BeginEvents

LEMMA StepKinds ==
    ASSUME IInv, [Next]_vars
    PROVE  (\E c : Tries(c)) \/ RecoverInterruptedPublish \/ DiscardPreGenesis \/ Rests
<1>0. TypeOK /\ PairsInv /\ DiskInv
  BY DEF IInv
<1>a. clock \in Nat /\ \A e \in Event : <<e>> \in Seq(Event)
  BY <1>0 DEF TypeOK
<1>b. ASSUME Clean PROVE Now = All /\ LastGen(Now) \in Nat /\ LastGen(All) \in Nat
  BY <1>0, <1>b, NowIsAll, GenIsNat DEF Clean
<1>c. ASSUME NEW txn, Reasons \subseteq TolerableReasons(txn) PROVE Clean
  BY <1>0, <1>c, CleanPublish DEF Clean
<1>1. CASE Tick
  BY <1>1, <1>a DEF Tick, Rests
<1>2. ASSUME NEW d \in Lifetimes, ActivateGenerationPair(d)
      PROVE  \E c : Tries(c)
  <2> DEFINE es == <<Activated(LastGen(Now) + 1, clock + d)>>
  <2>1. Clean /\ Publish(clock, "generation-pair.activation", es, lock, lock, lock)
    BY <1>2, <1>c DEF ActivateGenerationPair, Ordinary, Publish
  <2>2. Now = All /\ LastGen(Now) \in Nat /\ clock + d \in Nat
    BY <2>1, <1>a, <1>b, LedgerAssumption
  <2>3. es \in Seq(Event) /\ Shape(All, "generation-pair.activation", es)
    BY <2>2, <1>a, EventTypes DEF Shape
  <2> QED
    BY <2>1, <2>3, Tried DEF Txns
<1>3. ASSUME NEW g \in Gens, RevokeGenerationPair(g)
      PROVE  \E c : Tries(c)
  <2> DEFINE es == <<PairRevoked(g)>>
  <2>1. Clean /\ Publish(clock, "generation-pair.revocation", es, lock, lock, lock)
    BY <1>3, <1>c DEF RevokeGenerationPair, Ordinary, Publish
  <2>2. PairRevoked(g) \in Event /\ PairRevoked(g).kind \in Plain
    BY <2>1, <1>b, EventTypes DEF Gens, PairRevoked, Plain
  <2>3. es \in Seq(Event) /\ Shape(All, "generation-pair.revocation", es)
    BY <2>2 DEF Shape
  <2> QED
    BY <2>1, <2>3, Tried DEF Txns
<1>4. ASSUME NEW s \in Seals, NEW g \in Gens, NEW n \in Nonces, NEW o \in Ops, NEW d \in Lifetimes,
             RegisterFixedRecord(s, g, n, o, d)
      PROVE  \E c : Tries(c)
  <2> DEFINE e == Sealed(s, g, n, o, clock + d)
  <2>1. Clean /\ Publish(clock, "registry.bundle_seal", <<e>>, lock, lock, lock)
    BY <1>4, <1>c DEF RegisterFixedRecord, Ordinary, Publish
  <2>2. g \in Nat /\ clock + d \in Nat
    BY <2>1, <1>a, <1>b, LedgerAssumption DEF Gens
  <2>3. e \in Event /\ e.kind \in Plain
    BY <2>2, EventTypes DEF Sealed, Plain
  <2>4. <<e>> \in Seq(Event) /\ Shape(All, "registry.bundle_seal", <<e>>)
    BY <2>3 DEF Shape
  <2> QED
    BY <2>1, <2>4, Tried DEF Txns
<1>5. ASSUME NEW s \in Seals, RevokeFixedRecord(s)
      PROVE  \E c : Tries(c)
  <2> DEFINE e == SealRevoked(s)
  <2>1. Publish(clock, "registry.revocation", <<e>>, lock, lock, lock)
    BY <1>5 DEF RevokeFixedRecord, Ordinary
  <2>3. e \in Event /\ e.kind \in Plain
    BY EventTypes DEF SealRevoked, Plain
  <2>4. <<e>> \in Seq(Event) /\ Shape(All, "registry.revocation", <<e>>)
    BY <2>3 DEF Shape
  <2> QED
    BY <2>1, <2>4, Tried DEF Txns
<1>6. ASSUME NEW p \in Permits, NEW g \in Gens, NEW n \in Nonces, NEW i \in 1..clock, NEW w \in Windows,
             IssuePermit(p, g, n, i, w)
      PROVE  \E c : Tries(c)
  <2>1. PICK s \in Seals :
          Publish(clock, "permit.issuance", <<Issued(p, g, n, s, i, i + w.wait, i + w.lasts)>>, lock, lock, lock)
    BY <1>6 DEF IssuePermit, Ordinary
  <2> DEFINE e == Issued(p, g, n, s, i, i + w.wait, i + w.lasts)
  <2>2. Clean
    BY <2>1, <1>c DEF Publish
  <2>3. g \in Nat /\ i \in Nat /\ i + w.wait \in Nat /\ i + w.lasts \in Nat
    BY <2>2, <1>a, <1>b, LedgerAssumption DEF Gens
  <2>4. e \in Event /\ e.kind = "issued"
    BY <2>3, EventTypes DEF Issued
  <2>5. <<e>> \in Seq(Event) /\ Shape(All, "permit.issuance", <<e>>)
    BY <2>4 DEF Shape
  <2> QED
    BY <2>1, <2>5, Tried DEF Txns
<1>7. ASSUME NEW p \in Permits, AppendPermitTransition(p)
      PROVE  \E c : Tries(c)
  <2> DEFINE e == Transition(p, "withdraw", None)
  <2>1. Publish(clock, "permit.transition", <<e>>, lock, lock, lock)
    BY <1>7 DEF AppendPermitTransition, Ordinary
  <2>2. e \in Event
    BY EventTypes DEF StepNames
  <2>3. <<e>> \in Seq(Event) /\ Shape(All, "permit.transition", <<e>>)
    BY <2>2 DEF Shape
  <2> QED
    BY <2>1, <2>3, Tried DEF Txns
<1>8. ASSUME NEW o \in Ops, NEW n \in Nonces, NEW g \in Gens, NEW p \in Permits \cup {None},
             BeginOperation(o, n, g, p)
      PROVE  \E c : Tries(c)
  <2> DEFINE es == BeginEvents(o, n, g, p)   l == Lease(o, n, clock)
  <2>1. Clean /\ Publish(clock, "operation.begin", es, l, l, l)
    BY <1>8, <1>c DEF BeginOperation, Publish
  <2>2. g \in Nat
    BY <2>1, <1>b DEF Gens
  <2>3. es \in Seq(Event) /\ Shape(All, "operation.begin", es)
    BY <2>2, BeginEventsType DEF Shape
  <2> QED
    BY <2>1, <2>3, Tried DEF Txns
<1>9. ASSUME NEW o \in Operations(Now), FinishNoEffect(o)
      PROVE  \E c : Tries(c)
  <2> DEFINE es == EndEvents(o, "noEffect", NoEffect(o.op))
  <2>1. Clean /\ Publish(clock, "operation.no-effect", es, lock, None, None)
    BY <1>9, <1>c DEF FinishNoEffect, Publish
  <2>2. es \in Seq(Event) /\ Shape(All, "operation.no-effect", es)
    BY <1>0, <2>1, <1>b, EndEventsType DEF Shape, StepNames, NoEffectTxns
  <2> QED
    BY <2>1, <2>2, Tried DEF Txns
<1>10. ASSUME NEW o \in Operations(Now), MarkRecoveryRequired(o)
       PROVE  \E c : Tries(c)
  <2> DEFINE es == EndEvents(o, "ambiguous", Ambiguous(o.op))
  <2>1. Clean /\ Publish(clock, "operation.recovery-required", es, lock, None, lock)
    BY <1>10, <1>c DEF MarkRecoveryRequired, Publish
  <2>2. es \in Seq(Event) /\ Shape(All, "operation.recovery-required", es)
    BY <1>0, <2>1, <1>b, EndEventsType DEF Shape, StepNames
  <2> QED
    BY <2>1, <2>2, Tried DEF Txns
<1>11. ASSUME NEW txn \in {"recovery.lock", "recovery.terminal-lock"}, NEW action \in RecoveryActions,
              lock # None, LockAudit(txn, action)
       PROVE  (\E c : Tries(c)) \/ Rests
  <2> DEFINE e == Recovered(action, 0, lock.op)
  <2>1. CASE Audited(action)
    BY <1>a, <1>11, <2>1 DEF LockAudit, Rests
  <2>2. CASE ~Audited(action)
    <3>1. Publish(clock, txn, <<e>>, lock, None, lock)
      BY <1>11, <2>2 DEF LockAudit
    <3>2. lock.op \in Ops \cup {None}
      BY <1>0, <1>11 DEF TypeOK, Leases
    <3>3. e \in Event
      BY <3>2, EventTypes
    <3>4. <<e>> \in Seq(Event) /\ Shape(All, txn, <<e>>)
      BY <3>2, <3>3 DEF Shape
    <3> QED
      BY <3>1, <3>4, Tried DEF Txns
  <2> QED
    BY <2>1, <2>2
<1>12. ASSUME DiscardUnregisteredLock \/ ReconcileTerminalLock
       PROVE  (\E c : Tries(c)) \/ Rests
  BY <1>11, <1>12 DEF DiscardUnregisteredLock, ReconcileTerminalLock, RecoveryActions
<1>13. ASSUME NEW o \in Operations(Now), RecoverNoEffectAfterCrash(o)
       PROVE  (\E c : Tries(c)) \/ Rests
  <2> DEFINE es == EndEvents(o, "noEffect", NoEffect(o.op))   txn == "recovery.operation-no-effect"
             c == Commit(clock, txn, o.gen, es)
  <2>1. Len(log) = head /\ pending = 0 /\ clock' = clock
    BY <1>13 DEF RecoverNoEffectAfterCrash
  <2>2. o \in Operations(All)
    BY <1>0, <2>1, NowIsAll
  <2>3. CASE OtherReasons = {} /\ Accepts(clock, txn, o.gen, es)
    <3>1. mutex = None
      BY <2>3, NoOtherReasons
    <3>2. Completes(c) \/ \E stage \in CutStages, killed \in BOOLEAN : Cut(c, stage, killed)
      BY <1>13, <2>3 DEF RecoverNoEffectAfterCrash
    <3>3. es \in Seq(Event) /\ Shape(All, txn, es)
      BY <1>0, <2>2, EndEventsType DEF Shape, StepNames, NoEffectTxns
    <3>4. c \in Commits /\ c.txn = txn /\ c.events = es /\ c.at = clock /\ c.gen = o.gen
      BY <1>0, <2>2, <3>3, OperationType DEF Commit, Commits, TypeOK, Txns
    <3>5. Appendable(log, c.txn, c.events, c.at, c.gen)
      BY <2>3, <3>4 DEF Accepts
    <3>6. Tries(c)
      BY <1>a, <2>1, <3>1, <3>2, <3>3, <3>4, <3>5 DEF Tries, Clean
    <3> QED
      BY <3>6
  <2>4. CASE ~(OtherReasons = {} /\ Accepts(clock, txn, o.gen, es))
    BY <1>a, <1>13, <2>4 DEF RecoverNoEffectAfterCrash, Rests
  <2> QED
    BY <2>3, <2>4
<1>14. CASE UNCHANGED vars
  BY <1>a, <1>14 DEF vars, Rests
<1>15. ASSUME Die \/ \E o \in Ops, n \in Nonces : DieInBegin(o, n)
       PROVE  Rests
  BY <1>a, <1>15 DEF Die, DieInBegin, Rests
<1> QED
  BY <1>1, <1>2, <1>3, <1>4, <1>5, <1>6, <1>7, <1>8, <1>9, <1>10, <1>12, <1>13, <1>14, <1>15
     DEF Next, Registry, PermitSteps, OperationSteps, RecoverySteps

-----------------------------------------------------------------------------
(* Authority that was there stays on record.                               *)

LEMMA PairsMember ==
    ASSUME NEW F, NEW p
    PROVE  p \in Pairs(F) <=> \E f \in F : /\ f.says.kind = "activated"
                                           /\ p = [gen |-> f.says.gen, activated |-> f.at, expires |-> f.says.expires]
  BY DEF Pairs, Said

LEMMA PairsGrow ==
    ASSUME NEW F, NEW G, F \subseteq G
    PROVE  Pairs(F) \subseteq Pairs(G)
  BY PairsMember

LEMMA WasValidGrows ==
    ASSUME NEW F, NEW G, NEW at \in Nat, NEW g,
           F \subseteq G, \A f \in G : f.at \in Nat /\ (f \in F \/ at <= f.at),
           WasValid(F, at, g)
    PROVE  WasValid(G, at, g)
<1>1. PICK p \in Pairs(F) : p.gen = g /\ p.activated <= at /\ at < p.expires /\ ~PairRevokedBy(F, g, at - 1)
  BY DEF WasValid
<1>2. ~PairRevokedBy(G, g, at - 1)
  BY <1>1 DEF PairRevokedBy, Said
<1> QED
  BY <1>1, <1>2, PairsGrow DEF WasValid

LEMMA SelectedIsValid ==
    ASSUME NEW F, NEW at \in Nat, NEW g, \A f \in F : f.at \in Nat, Selects(F, at, g)
    PROVE  WasValid(F, at, g) /\ \E p \in Pairs(F) : p.gen = g
<1>1. PICK p \in Pairs(F) : p.gen = g /\ p.activated <= at /\ at < p.expires /\ ~PairRevokedBy(F, g, at)
  BY DEF Selects
<1>2. ~PairRevokedBy(F, g, at - 1)
  BY <1>1 DEF PairRevokedBy, Said
<1> QED
  BY <1>1, <1>2 DEF WasValid

LEMMA FactTimes ==
    ASSUME TypeOK, TimesInv
    PROVE  /\ \A f \in All : f.at \in Nat /\ f.at <= LastAt(log) /\ f.at <= clock
           /\ \A k \in DOMAIN log : \A f \in Facts(SubSeq(log, 1, k)) : f.at <= log[k].at
           /\ \A k \in DOMAIN log, f \in All : f \in Facts(SubSeq(log, 1, k - 1)) \/ log[k].at <= f.at
           /\ log # <<>> => LastAt(log) = log[Len(log)].at
           /\ LastAt(log) \in Nat /\ LastAt(log) <= clock
<1>1. \A i \in DOMAIN log : log[i] \in Commits /\ log[i].at \in Nat /\ log[i].at <= clock
  <2>1. clock \in Nat /\ \A i \in DOMAIN log : log[i] \in Commits
    BY DEF TypeOK
  <2>2. \A i \in DOMAIN log : log[i].at \in 1..clock
    BY DEF TimesInv
  <2> QED
    BY <2>1, <2>2
<1>2. \A i \in DOMAIN log : \A f \in Says(log[i]) : f.at = log[i].at
  BY DEF Says
<1>3. DOMAIN log = 1..Len(log) /\ Len(log) \in Nat /\ (log = <<>> <=> Len(log) = 0)
  BY DEF TypeOK
<1>4. \A m, n \in DOMAIN log : m <= n => log[m].at <= log[n].at
  BY <1>1, <1>3 DEF TimesInv
<1>5. /\ log # <<>> => LastAt(log) = log[Len(log)].at /\ Len(log) \in DOMAIN log
      /\ LastAt(log) \in Nat /\ LastAt(log) <= clock
  BY <1>1, <1>3 DEF LastAt, TypeOK
<1>6. ASSUME NEW f \in All
      PROVE  f.at \in Nat /\ f.at <= LastAt(log) /\ f.at <= clock
  <2>1. PICK i \in DOMAIN log : f \in Says(log[i])
    BY FactsMember DEF All
  <2> QED
    BY <2>1, <1>1, <1>2, <1>3, <1>4, <1>5
<1>7. ASSUME NEW k \in DOMAIN log, NEW f \in Facts(SubSeq(log, 1, k))
      PROVE  f.at <= log[k].at
  <2>1. PICK i \in 1..k : f \in Says(log[i])
    BY <1>3, FactsPrefix DEF TypeOK
  <2> QED
    BY <2>1, <1>2, <1>3, <1>4
<1>8. ASSUME NEW k \in DOMAIN log, NEW f \in All, f \notin Facts(SubSeq(log, 1, k - 1))
      PROVE  log[k].at <= f.at
  <2>1. PICK i \in DOMAIN log : f \in Says(log[i])
    BY FactsMember DEF All
  <2>2. k - 1 \in 0..Len(log) /\ ~(i \in 1..(k - 1))
    BY <2>1, <1>3, <1>8, FactsPrefix DEF TypeOK
  <2> QED
    BY <2>1, <2>2, <1>2, <1>3, <1>4
<1> QED
  BY <1>5, <1>6, <1>7, <1>8

\* The pair selected when a commit was written is on record as valid at that time.
LEMMA SelectedOnRecord ==
    ASSUME TypeOK, TimesInv, NEW k \in DOMAIN log, NEW g,
           Selects(Facts(SubSeq(log, 1, k - 1)), log[k].at, g)
    PROVE  WasValid(All, log[k].at, g) /\ \E p \in Pairs(All) : p.gen = g
<1> DEFINE F == Facts(SubSeq(log, 1, k - 1))
<1>1. F \subseteq All /\ log[k].at \in Nat
  <2>1. k - 1 \in 0..Len(log) /\ log[k] \in Commits
    BY DEF TypeOK
  <2> QED
    BY <2>1, PrefixFacts DEF TypeOK, All, Commits
<1>2. WasValid(F, log[k].at, g) /\ \E p \in Pairs(F) : p.gen = g
  BY <1>1, FactTimes, SelectedIsValid
<1> QED
  BY <1>1, <1>2, FactTimes, WasValidGrows, PairsGrow

LEMMA GenesisFact ==
    ASSUME TypeOK, TimesInv, GenesisInv, PairsInv, log # <<>>
    PROVE  /\ [gen |-> 1, activated |-> log[1].at, expires |-> log[1].events[1].expires] \in Pairs(All)
           /\ WasValid(All, log[1].at, 1) /\ log[1].at \in Nat
<1>1. 1 \in DOMAIN log /\ log[1] \in Commits
  BY DEF TypeOK
<1> DEFINE f == [at |-> log[1].at, says |-> log[1].events[1]]
           p == [gen |-> 1, activated |-> log[1].at, expires |-> log[1].events[1].expires]
<1>2. f \in Says(log[1])
  BY <1>1 DEF Says, GenesisInv, Commits
<1>3. f \in All
  BY <1>1, <1>2, FactsMember DEF All
<1>4. p \in Pairs(All)
  <2>1. f.says.kind = "activated" /\ f.says.gen = 1
    BY DEF GenesisInv
  <2> HIDE DEF f
  <2>2. [gen |-> f.says.gen, activated |-> f.at, expires |-> f.says.expires] \in Pairs(All)
    BY <1>3, <2>1, PairsMember
  <2> QED
    BY <2>1, <2>2 DEF f
<1>5. p.activated < p.expires
  BY <1>4 DEF PairsInv
<1>6. \A h \in All : h.at \in Nat /\ log[1].at <= h.at
  <2>1. SubSeq(log, 1, 1 - 1) = <<>>
    BY DEF TypeOK
  <2>2. Facts(SubSeq(log, 1, 1 - 1)) = {}
    BY <2>1, PrefixFacts DEF TypeOK
  <2> QED
    BY <1>1, <2>2, FactTimes
<1>7. ~PairRevokedBy(All, 1, log[1].at - 1)
  BY <1>1, <1>6 DEF PairRevokedBy, Said, Commits
<1> QED
  BY <1>1, <1>4, <1>5, <1>7 DEF WasValid, Commits

-----------------------------------------------------------------------------
(* A step leaves the log alone, or extends it by a commit that a replay    *)
(* accepts.                                                                *)

\* What a replay asks of a commit after the log L.
Replayable(L, c) ==
  /\ LastAt(L) < c.at
  /\ AuthorityForCommit(L, c)
  /\ TerminalTransaction(Facts(L), c.txn, c.events)
  /\ EventsApply(Facts(L), c.events, c.at)

\* A commit of the publish recovery.
AuditShape(c) ==
  /\ c.txn = "recovery.publish" /\ log # <<>>
  /\ \E a \in RecoveryActions, n \in Nat : c.events = <<Recovered(a, n, None)>>

Extends(c) ==
  /\ c \in Commits /\ c.at <= clock /\ clock' = clock /\ log' = Append(log, c)
  /\ Replayable(log, c)
  /\ \/ Shape(All, c.txn, c.events) /\ Appendable(log, c.txn, c.events, c.at, c.gen)
     \/ AuditShape(c)

LEMMA ShapeTxn ==
    ASSUME NEW F, NEW txn, NEW events, Shape(F, txn, events)
    PROVE  txn # "recovery.publish"
  BY DEF Shape, NoEffectTxns

LEMMA AppendableReplays ==
    ASSUME NEW L, NEW c, c.txn # "recovery.publish", Appendable(L, c.txn, c.events, c.at, c.gen)
    PROVE  Replayable(L, c)
  BY DEF Appendable, Replayable, AuthorityForAppend, AuthorityForCommit

LEMMA RecoveryPair ==
    ASSUME IInv, RecoverInterruptedPublish, NEW g \in 1..LastGen(All), PublishAuthority(g)
    PROVE  /\ RecoveredSeq \in Nat
           /\ RecoveredSeq # 0 =>
                /\ RecoveredSeq = Len(log) /\ log[RecoveredSeq].gen = g
                /\ WasValid(All, log[RecoveredSeq].at, g)
           /\ RecoveredSeq = 0 => \E p \in Pairs(All) : p.gen = g /\ WasValid(All, p.activated, g)
<1> USE DEF IInv
<1>1. log # <<>> /\ Len(log) \in Nat \ {0} /\ head \in Nat /\ head <= Len(log) /\ Len(log) <= head + 1
  BY DEF TypeOK, DiskInv, RecoverInterruptedPublish
<1>2. RecoveredSeq \in Nat /\ (RecoveredSeq # 0 => RecoveredSeq = Len(log))
  BY <1>1 DEF RecoveredSeq
<1>3. RecoveredSeq = 0 => Len(log) = head
  BY <1>1 DEF RecoveredSeq
<1>4. CASE RecoveredSeq = 1
  BY <1>1, <1>2, <1>4, GenesisFact DEF PublishAuthority, GenesisInv
<1>5. CASE RecoveredSeq # 0 /\ RecoveredSeq # 1
  <2>1. RecoveredSeq \in DOMAIN log
    BY <1>1, <1>2, <1>5 DEF TypeOK
  <2>2. g = log[RecoveredSeq].gen /\ Selects(Facts(SubSeq(log, 1, RecoveredSeq - 1)), log[RecoveredSeq].at, g)
    BY <1>5 DEF PublishAuthority
  <2> QED
    BY <1>2, <1>5, <2>1, <2>2, SelectedOnRecord
<1>6. CASE RecoveredSeq = 0 /\ mutex # None /\ mutex.whole
  <2>1. Selects(All, mutex.at, g)
    BY <1>3, <1>6, NowIsAll DEF PublishAuthority
  <2>2. mutex.at \in Nat
    BY <1>6 DEF TypeOK, Mutexes
  <2>3. PICK p \in Pairs(All) : p.gen = g /\ p.activated <= mutex.at /\ ~PairRevokedBy(All, g, mutex.at)
    BY <2>1 DEF Selects
  <2>4. p.activated \in Nat /\ p.activated < p.expires
    BY FactTimes, PairsMember DEF PairsInv
  <2>5. ~PairRevokedBy(All, g, p.activated - 1)
    BY <2>2, <2>3, <2>4, FactTimes DEF PairRevokedBy, Said
  <2> QED
    BY <1>2, <1>6, <2>3, <2>4, <2>5 DEF WasValid
<1>7. CASE RecoveredSeq = 0 /\ ~(mutex # None /\ mutex.whole)
  BY <1>3, <1>7, NowIsAll DEF PublishAuthority
<1> QED
  BY <1>2, <1>4, <1>5, <1>6, <1>7

LEMMA RecoveryExtends ==
    ASSUME IInv, RecoverInterruptedPublish
    PROVE  \E c : Extends(c) /\ c.txn = "recovery.publish"
<1> USE DEF IInv
<1>1. PICK g \in 1..LastGen(All) :
        /\ PublishAuthority(g)
        /\ log' = Append(log, Commit(clock, "recovery.publish", g, <<Recovered(PublishAction, RecoveredSeq, None)>>))
  BY DEF RecoverInterruptedPublish, All
<1> DEFINE e == Recovered(PublishAction, RecoveredSeq, None)
           c == Commit(clock, "recovery.publish", g, <<e>>)
<1>2. RecoveredSeq \in Nat /\ PublishAction \in RecoveryActions
  BY <1>1, RecoveryPair DEF PublishAction, RecoveryActions
<1>3. e \in Event /\ e.kind = "recovered" /\ e.affected = RecoveredSeq
  BY <1>2, EventTypes DEF Recovered
<1>4. g \in Nat /\ clock \in Nat /\ log # <<>> /\ LastAt(log) < clock /\ clock' = clock
  BY <1>1, GenIsNat DEF TypeOK, RecoverInterruptedPublish
<1>5. /\ c \in Commits /\ c.at = clock /\ c.txn = "recovery.publish" /\ c.gen = g
      /\ c.events = <<e>> /\ c.events[1] = e /\ DOMAIN c.events = {1} /\ Len(c.events) = 1
  <2> HIDE DEF e
  <2> QED
    BY <1>3, <1>4 DEF Commits, Commit, Txns
<1>6. Pairs(All) # {}
  BY <1>4, GenesisFact
<1>7. AuthorityForCommit(log, c)
  <2> HIDE DEF c, e
  <2> QED
    BY <1>1, <1>3, <1>5, <1>6, RecoveryPair DEF AuthorityForCommit, All
<1>8. EventsApply(Facts(log), c.events, c.at)
  <2> HIDE DEF c, e
  <2> QED
    BY <1>3, <1>5 DEF EventsApply, ApplyEvent
<1>9. TerminalTransaction(Facts(log), c.txn, c.events)
  <2> HIDE DEF c, e
  <2> QED
    BY <1>5 DEF TerminalTransaction, NoEffectTxns
<1>10. AuditShape(c)
  <2>1. \E a \in RecoveryActions, n \in Nat : c.events = <<Recovered(a, n, None)>>
    BY <1>2, <1>5
  <2> QED
    BY <1>4, <1>5, <2>1 DEF AuditShape
<1>11. log' = Append(log, c)
  BY <1>1
<1> HIDE DEF c
<1> QED
  BY <1>4, <1>5, <1>7, <1>8, <1>9, <1>10, <1>11 DEF Extends, Replayable

LEMMA TriedExtends ==
    ASSUME TypeOK, NEW c, Tries(c), log' # log
    PROVE  Extends(c)
<1>1. log' = Append(log, c)
  BY DEF Tries, Completes, Cut
<1>2. Replayable(log, c)
  BY ShapeTxn, AppendableReplays DEF Tries
<1> QED
  BY <1>1, <1>2 DEF Tries, Extends

LEMMA Growth ==
    ASSUME IInv, [Next]_vars
    PROVE  clock' \in Nat /\ clock <= clock' /\ (log' = log \/ \E c : Extends(c))
<1>1. TypeOK /\ clock \in Nat
  BY DEF IInv, TypeOK
<1>2. CASE \E c : Tries(c)
  BY <1>1, <1>2, TriedExtends DEF Tries
<1>3. CASE RecoverInterruptedPublish
  BY <1>1, <1>3, RecoveryExtends DEF Extends
<1>4. CASE DiscardPreGenesis
  BY <1>1, <1>4 DEF DiscardPreGenesis
<1>5. CASE Rests
  BY <1>5 DEF Rests
<1> QED
  BY <1>2, <1>3, <1>4, <1>5, StepKinds

-----------------------------------------------------------------------------
(* What a commit adds to the facts on record.                              *)

Fact(t, e) == [at |-> t, says |-> e]

AddsOne(c, e) ==
  /\ e \in Event /\ c.events = <<e>> /\ All' = All \cup {Fact(c.at, e)}
  /\ ApplyEvent(All, e, c.at)

AddsTwo(c, d, e) ==
  /\ d \in Event /\ e \in Event /\ c.events = <<d, e>>
  /\ All' = All \cup {Fact(c.at, d), Fact(c.at, e)}
  /\ ApplyEvent(All, d, c.at) /\ ApplyEvent(All \cup {Fact(c.at, d)}, e, c.at)

LEMMA OneEvent ==
    ASSUME TypeOK, NEW c, Extends(c), NEW e \in Event, c.events = <<e>>
    PROVE  AddsOne(c, e)
<1>1. Facts(log') = All \cup Says(c)
  BY FactsAppend DEF Extends, TypeOK, All
<1>2. Says(c) = {Fact(c.at, e)}
  BY DEF Says, Fact, Extends
<1> DEFINE sofar(j) == { [at |-> c.at, says |-> c.events[i]] : i \in 1..(j - 1) }
<1>3. \A j \in DOMAIN c.events : ApplyEvent(All \cup sofar(j), c.events[j], c.at)
  BY DEF Extends, Replayable, EventsApply, All
<1>4. sofar(1) = {} /\ 1 \in DOMAIN c.events /\ c.events[1] = e
  OBVIOUS
<1> HIDE DEF sofar
<1>5. ApplyEvent(All, e, c.at)
  <2>1. All \cup sofar(1) = All
    BY <1>4
  <2> QED
    BY <1>3, <1>4, <2>1
<1> QED
  BY <1>1, <1>2, <1>5 DEF AddsOne, All

LEMMA TwoEvents ==
    ASSUME TypeOK, NEW c, Extends(c), NEW d \in Event, NEW e \in Event, c.events = <<d, e>>
    PROVE  AddsTwo(c, d, e)
<1>1. Facts(log') = All \cup Says(c)
  BY FactsAppend DEF Extends, TypeOK, All
<1>2. Says(c) = {Fact(c.at, d), Fact(c.at, e)}
  <2>1. DOMAIN c.events = {1, 2} /\ c.events[1] = d /\ c.events[2] = e
    OBVIOUS
  <2> QED
    BY <2>1 DEF Says, Fact, Extends
<1> DEFINE sofar(j) == { [at |-> c.at, says |-> c.events[i]] : i \in 1..(j - 1) }
<1>3. \A j \in DOMAIN c.events : ApplyEvent(All \cup sofar(j), c.events[j], c.at)
  BY DEF Extends, Replayable, EventsApply, All
<1>4. sofar(1) = {} /\ 1 \in DOMAIN c.events /\ c.events[1] = d
  OBVIOUS
<1>5. sofar(2) = {Fact(c.at, d)} /\ 2 \in DOMAIN c.events /\ c.events[2] = e
  <2>1. 1..(2 - 1) = {1}
    OBVIOUS
  <2> QED
    BY <1>4, <2>1 DEF Fact
<1> HIDE DEF sofar
<1>6. ApplyEvent(All, d, c.at)
  <2>1. All \cup sofar(1) = All
    BY <1>4
  <2> QED
    BY <1>3, <1>4, <2>1
<1>7. ApplyEvent(All \cup {Fact(c.at, d)}, e, c.at)
  BY <1>3, <1>5
<1> QED
  BY <1>1, <1>2, <1>6, <1>7 DEF AddsTwo, All

\* The forms a commit has.
Unrelated == {"pairRevoked", "sealed", "sealRevoked", "recovered"}

Activation(c) == \E x \in Nat : AddsOne(c, Activated(LastGen(All) + 1, x))
Issuing(c)    == \E e \in Event : e.kind = "issued" /\ AddsOne(c, e)
Neutral(c)    == \E e \in Event : e.kind \in Unrelated /\ AddsOne(c, e)
Withdrawal(c) == \E p \in Permits : AddsOne(c, Transition(p, "withdraw", None))
PlainStart(c)      == \E o \in Ops, n \in Nonces, g \in Nat : AddsOne(c, Started(o, n, g, None))
Claim(c) ==
  \E o \in Ops, n \in Nonces, g \in Nat, p \in Permits :
    AddsTwo(c, Transition(p, "claim", o), Started(o, n, g, p))
PlainEnd(c) ==
  \E o \in Operations(All) :
    o.permit = None /\ \E e \in {NoEffect(o.op), Ambiguous(o.op)} : AddsOne(c, e)
PermitEnd(c) ==
  \E o \in Operations(All) :
    o.permit \in Permits /\ AddsTwo(c, Transition(o.permit, "ambiguous", o.op), Ambiguous(o.op))

LEMMA NoEffectBarred ==
    ASSUME NEW F, NEW p, NEW o, NEW t
    PROVE  ~ApplyEvent(F, Transition(p, "noEffect", o), t)
<1>1. ~TransitionApplies(F, Transition(p, "noEffect", o), t)
  BY DEF TransitionApplies, Rule, Transition
<1> QED
  BY <1>1 DEF ApplyEvent, Transition

LEMMA Forms ==
    ASSUME TypeOK, NEW c, Extends(c)
    PROVE  \/ Activation(c) /\ c.txn = "generation-pair.activation"
           \/ Issuing(c) /\ c.txn = "permit.issuance"
           \/ Neutral(c)
           \/ Withdrawal(c) /\ c.txn = "permit.transition"
           \/ (PlainStart(c) \/ Claim(c)) /\ c.txn = "operation.begin"
           \/ PlainEnd(c) \/ PermitEnd(c)
<1>1. CASE AuditShape(c)
  <2>1. PICK a \in RecoveryActions, n \in Nat : c.events = <<Recovered(a, n, None)>>
    BY <1>1 DEF AuditShape
  <2>2. Recovered(a, n, None) \in Event /\ Recovered(a, n, None).kind \in Unrelated
    BY EventTypes DEF Recovered, Unrelated
  <2> QED
    BY <2>1, <2>2, OneEvent DEF Neutral
<1> DEFINE txn == c.txn   events == c.events
<1>2. CASE /\ txn = "generation-pair.activation"
           /\ \E x \in Nat : events = <<Activated(LastGen(All) + 1, x)>>
  <2>1. PICK x \in Nat : events = <<Activated(LastGen(All) + 1, x)>>
    BY <1>2
  <2>2. Activated(LastGen(All) + 1, x) \in Event
    <3>1. c.events \in Seq(Event)
      BY DEF Extends, Commits
    <3>2. 1 \in DOMAIN c.events /\ c.events[1] = Activated(LastGen(All) + 1, x)
      BY <2>1
    <3> QED
      BY <3>1, <3>2
  <2> QED
    BY <1>2, <2>1, <2>2, OneEvent DEF Activation
<1>3. CASE \E e \in Event : e.kind \in Plain /\ events = <<e>>
  BY <1>3, OneEvent DEF Neutral, Plain, Unrelated
<1>4. CASE /\ txn = "permit.issuance"
           /\ \E e \in Event : e.kind = "issued" /\ events = <<e>>
  BY <1>4, OneEvent DEF Issuing
<1>5. CASE /\ txn = "permit.transition"
           /\ \E p \in Permits : events = <<Transition(p, "withdraw", None)>>
  <2>1. \A p \in Permits : Transition(p, "withdraw", None) \in Event
    BY EventTypes DEF StepNames
  <2> QED
    BY <1>5, <2>1, OneEvent DEF Withdrawal
<1>6. CASE /\ txn = "operation.begin"
           /\ \E o \in Ops, n \in Nonces, g \in Nat, p \in Permits \cup {None} : events = BeginEvents(o, n, g, p)
  <2>1. PICK o \in Ops, n \in Nonces, g \in Nat, p \in Permits \cup {None} : events = BeginEvents(o, n, g, p)
    BY <1>6
  <2>2. Started(o, n, g, p) \in Event
    BY EventTypes
  <2>3. CASE p = None
    <3>1. events = <<Started(o, n, g, None)>>
      BY <2>1, <2>3 DEF BeginEvents
    <3> QED
      BY <1>6, <2>2, <2>3, <3>1, OneEvent DEF PlainStart
  <2>4. CASE p # None
    <3>1. events = <<Transition(p, "claim", o), Started(o, n, g, p)>> /\ p \in Permits
      BY <2>1, <2>4 DEF BeginEvents
    <3>2. Transition(p, "claim", o) \in Event
      BY <3>1, EventTypes DEF StepNames
    <3>3. AddsTwo(c, Transition(p, "claim", o), Started(o, n, g, p))
      BY <2>2, <3>1, <3>2, TwoEvents
    <3> QED
      BY <1>6, <3>1, <3>3 DEF Claim
  <2> QED
    BY <2>3, <2>4
<1>7. ASSUME NEW o \in Operations(All), NEW e \in {NoEffect(o.op), Ambiguous(o.op)}, NEW step \in {"noEffect", "ambiguous"},
             events = EndEvents(o, step, e), step = "ambiguous" => e = Ambiguous(o.op)
      PROVE  PlainEnd(c) \/ PermitEnd(c)
  <2>1. e \in Event /\ o.permit \in Permits \cup {None} /\ o.op \in Ops
    BY OperationType, EventTypes
  <2>2. CASE o.permit = None
    <3>1. events = <<e>>
      BY <1>7, <2>2 DEF EndEvents
    <3> QED
      BY <2>1, <2>2, <3>1, OneEvent DEF PlainEnd
  <2>3. CASE o.permit # None
    <3>1. events = <<Transition(o.permit, step, o.op), e>> /\ o.permit \in Permits
      BY <1>7, <2>1, <2>3 DEF EndEvents
    <3>2. Transition(o.permit, step, o.op) \in Event
      BY <2>1, <3>1, EventTypes DEF StepNames
    <3>3. AddsTwo(c, Transition(o.permit, step, o.op), e)
      BY <2>1, <3>1, <3>2, TwoEvents
    <3>4. step = "ambiguous"
      BY <3>3, NoEffectBarred DEF AddsTwo
    <3> QED
      BY <1>7, <3>1, <3>3, <3>4 DEF PermitEnd
  <2> QED
    BY <2>2, <2>3
<1>8. CASE \E o \in Operations(All) : events = EndEvents(o, "noEffect", NoEffect(o.op))
  BY <1>7, <1>8
<1>9. CASE \E o \in Operations(All) : events = EndEvents(o, "ambiguous", Ambiguous(o.op))
  BY <1>7, <1>9
<1>10. CASE \E a \in RecoveryActions, o \in Ops \cup {None} : events = <<Recovered(a, 0, o)>>
  <2>1. PICK a \in RecoveryActions, o \in Ops \cup {None} : events = <<Recovered(a, 0, o)>>
    BY <1>10
  <2>2. Recovered(a, 0, o) \in Event /\ Recovered(a, 0, o).kind \in Unrelated
    BY EventTypes DEF Recovered, Unrelated
  <2> QED
    BY <2>1, <2>2, OneEvent DEF Neutral
<1> QED
  BY <1>1, <1>2, <1>3, <1>4, <1>5, <1>6, <1>8, <1>9, <1>10 DEF Extends, Shape

-----------------------------------------------------------------------------
(* One extension preserves each invariant of the log.                      *)

LEMMA Extended ==
    ASSUME TypeOK, NEW c, Extends(c)
    PROVE  /\ log' \in Seq(Commits) /\ Len(log) \in Nat /\ Len(log') = Len(log) + 1 /\ log' # <<>>
           /\ DOMAIN log = 1..Len(log) /\ DOMAIN log' = 1..(Len(log) + 1)
           /\ log'[Len(log) + 1] = c
           /\ \A n \in DOMAIN log : log'[n] = log[n] /\ log[n] \in Commits
           /\ \A n \in 0..Len(log) : SubSeq(log', 1, n) = SubSeq(log, 1, n)
           /\ SubSeq(log', 1, Len(log)) = log
  BY DEF TypeOK, Extends

LEMMA NewIsLater ==
    ASSUME TypeOK, TimesInv, NEW c, Extends(c)
    PROVE  /\ c.at \in Nat /\ \A f \in All : f.at \in Nat /\ f.at < c.at
           /\ \A n \in DOMAIN log : log[n].at \in Nat /\ log[n].at < c.at
<1>1. LastAt(log) < c.at
  BY DEF Extends, Replayable
<1>2. c.at \in Nat /\ \A f \in All : f.at \in Nat /\ f.at < c.at
  BY <1>1, FactTimes DEF TypeOK, Extends, Commits
<1>3. ASSUME NEW n \in DOMAIN log PROVE log[n].at \in Nat /\ log[n].at < c.at
  <2>1. log[n] \in Commits /\ Len(log) \in DOMAIN log /\ log[Len(log)] \in Commits
    BY DEF TypeOK
  <2>2. n <= Len(log) /\ log[n].at \in Nat /\ log[Len(log)].at \in Nat
    BY <2>1 DEF TypeOK, Commits
  <2>3. log[n].at <= log[Len(log)].at
    BY <2>1, <2>2 DEF TimesInv
  <2>4. LastAt(log) = log[Len(log)].at
    BY <1>3, FactTimes
  <2> QED
    BY <1>1, <1>2, <2>2, <2>3, <2>4
<1> QED
  BY <1>2, <1>3

LEMMA ReopensStep ==
    ASSUME TypeOK, Reopens, NEW c, Extends(c)
    PROVE  Reopens'
<1>1. \A n \in DOMAIN log : Replayable(SubSeq(log, 1, n - 1), log[n])
  BY DEF Reopens, Replays, Replayable
<1>2. \A n \in DOMAIN log' : Replayable(SubSeq(log', 1, n - 1), log'[n])
  <2>1. ASSUME NEW n \in DOMAIN log PROVE Replayable(SubSeq(log', 1, n - 1), log'[n])
    <3>1. n - 1 \in 0..Len(log)
      BY <2>1, Extended
    <3> QED
      BY <1>1, <3>1, Extended
  <2>2. Replayable(SubSeq(log', 1, Len(log) + 1 - 1), log'[Len(log) + 1])
    <3>1. Len(log) + 1 - 1 = Len(log)
      BY Extended
    <3> QED
      BY <3>1, Extended DEF Extends
  <2> QED
    BY <2>1, <2>2, Extended
<1> QED
  BY <1>2 DEF Reopens, Replays, Replayable

LEMMA TimesStep ==
    ASSUME TypeOK, TimesInv, NEW c, Extends(c)
    PROVE  TimesInv'
<1>1. c.at <= clock /\ clock' = clock /\ c.at \in Nat /\ 0 < c.at /\ clock \in Nat
  BY FactTimes, NewIsLater DEF Extends, Replayable, TypeOK
<1>2. ASSUME NEW m \in DOMAIN log', NEW n \in DOMAIN log', m < n PROVE log'[m].at < log'[n].at
  <2>1. m \in DOMAIN log
    BY <1>2, Extended
  <2>2. CASE n \in DOMAIN log
    BY <1>2, <2>1, <2>2, Extended DEF TimesInv
  <2>3. CASE n \notin DOMAIN log
    BY <1>1, <1>2, <2>1, <2>3, Extended, NewIsLater
  <2> QED
    BY <2>2, <2>3
<1>3. ASSUME NEW n \in DOMAIN log' PROVE log'[n].at \in 1..clock'
  BY <1>1, Extended DEF TimesInv
<1> QED
  BY <1>2, <1>3 DEF TimesInv

LEMMA NothingSaid ==
    /\ Pairs({}) = {} /\ LastGen({}) = 0
  BY FS_EmptySet DEF Pairs, LastGen, Said

LEMMA GenesisStep ==
    ASSUME TypeOK, GenesisInv, NEW c, Extends(c)
    PROVE  GenesisInv'
<1>1. CASE log = <<>>
  <2>1. All = {} /\ log'[1] = c
    BY <1>1, PrefixFacts, Extended DEF All
  <2>2. Genesis(All, c.events, c.gen)
    BY <2>1, NothingSaid DEF Extends, Replayable, AuthorityForCommit, All
  <2>3. c.gen = 1 /\ Len(c.events) = 1 /\ c.events[1].kind = "activated"
    BY <2>2 DEF Genesis
  <2>4. c.events[1].gen = 1
    <3>1. c.events[1] \in Event /\ c.events = <<c.events[1]>>
      BY <2>3 DEF Extends, Commits
    <3>2. ApplyEvent(All, c.events[1], c.at)
      BY <3>1, OneEvent DEF AddsOne
    <3> QED
      BY <2>1, <2>3, <3>2, NothingSaid DEF ApplyEvent, ActivationApplies
  <2> QED
    BY <2>1, <2>3, <2>4 DEF GenesisInv
<1>2. CASE log # <<>>
  <2>1. log'[1] = log[1]
    BY <1>2, Extended
  <2> QED
    BY <1>2, <2>1 DEF GenesisInv
<1> QED
  BY <1>1, <1>2

LEMMA SaidOne ==
    ASSUME NEW c, NEW e, AddsOne(c, e), NEW k
    PROVE  /\ e.kind = k => Said(All, k)' = Said(All, k) \cup {Fact(c.at, e)}
           /\ e.kind # k => Said(All, k)' = Said(All, k)
  BY DEF AddsOne, Said, Fact

LEMMA SaidTwo ==
    ASSUME NEW c, NEW d, NEW e, AddsTwo(c, d, e), NEW k, d.kind # e.kind
    PROVE  /\ d.kind = k => Said(All, k)' = Said(All, k) \cup {Fact(c.at, d)}
           /\ e.kind = k => Said(All, k)' = Said(All, k) \cup {Fact(c.at, e)}
           /\ d.kind # k /\ e.kind # k => Said(All, k)' = Said(All, k)
  BY DEF AddsTwo, Said, Fact

LEMMA EventParts ==
    /\ \A g, x : Activated(g, x).kind = "activated" /\ Activated(g, x).gen = g /\ Activated(g, x).expires = x
    /\ \A p, s, o : /\ Transition(p, s, o).kind = "transition" /\ Transition(p, s, o).permit = p
                    /\ Transition(p, s, o).step = s /\ Transition(p, s, o).op = o
    /\ \A o, n, g, p : /\ Started(o, n, g, p).kind = "started" /\ Started(o, n, g, p).op = o
                       /\ Started(o, n, g, p).nonce = n /\ Started(o, n, g, p).gen = g
                       /\ Started(o, n, g, p).permit = p
    /\ \A o : NoEffect(o).kind = "noEffect" /\ NoEffect(o).op = o
    /\ \A o : Ambiguous(o).kind = "ambiguous" /\ Ambiguous(o).op = o
    /\ \A t, e : Fact(t, e).at = t /\ Fact(t, e).says = e
  BY DEF Activated, Transition, Started, NoEffect, Ambiguous, Fact

LEMMA OnlyActivations ==
    ASSUME TypeOK, NEW c, Extends(c), ~Activation(c)
    PROVE  Said(All, "activated")' = Said(All, "activated") /\ c.events[1].kind # "activated"
<1>1. CASE Issuing(c) \/ Neutral(c)
  <2>1. PICK e \in Event : e.kind # "activated" /\ AddsOne(c, e)
    BY <1>1 DEF Issuing, Neutral, Unrelated
  <2>2. Said(All, "activated")' = Said(All, "activated")
    BY <2>1, SaidOne
  <2>3. c.events[1] = e
    BY <2>1 DEF AddsOne
  <2> QED
    BY <2>1, <2>2, <2>3
<1>2. CASE Withdrawal(c) \/ PlainStart(c) \/ PlainEnd(c)
  <2>1. PICK e : e.kind # "activated" /\ AddsOne(c, e)
    BY <1>2, EventParts DEF Withdrawal, PlainStart, PlainEnd
  <2>2. Said(All, "activated")' = Said(All, "activated")
    BY <2>1, SaidOne
  <2>3. c.events[1] = e
    BY <2>1 DEF AddsOne
  <2> QED
    BY <2>1, <2>2, <2>3
<1>3. CASE Claim(c) \/ PermitEnd(c)
  <2>1. PICK d, e : d.kind # "activated" /\ e.kind # "activated" /\ d.kind # e.kind /\ AddsTwo(c, d, e)
    BY <1>3, EventParts DEF Claim, PermitEnd
  <2>2. Said(All, "activated")' = Said(All, "activated")
    BY <2>1, SaidTwo
  <2>3. c.events[1] = d
    BY <2>1 DEF AddsTwo
  <2> QED
    BY <2>1, <2>2, <2>3
<1> QED
  BY <1>1, <1>2, <1>3, Forms

LEMMA PairsStep ==
    ASSUME IInv, NEW c, Extends(c)
    PROVE  PairsInv'
<1> USE DEF IInv
<1>1. GenesisInv'
  BY GenesisStep
<1>2. IsFiniteSet(All)'
  <2>1. All' = All \cup Says(c)
    BY FactsAppend DEF Extends, TypeOK, All
  <2>2. IsFiniteSet(All) /\ IsFiniteSet(Says(c))
    BY SaysFinite DEF PairsInv, Extends
  <2> QED
    BY <2>1, <2>2, FS_Union
<1>3. CASE ~Activation(c)
  <2>1. Said(All, "activated")' = Said(All, "activated") /\ c.events[1].kind # "activated"
    BY <1>3, OnlyActivations
  <2>2. Pairs(All)' = Pairs(All) /\ LastGen(All)' = LastGen(All)
    BY <2>1 DEF Pairs, LastGen
  <2>3. log # <<>>
    BY <1>1, <2>1, Extended DEF GenesisInv
  <2> QED
    BY <1>2, <2>1, <2>2, <2>3 DEF PairsInv
<1>4. CASE Activation(c)
  <2>1. PICK x \in Nat : AddsOne(c, Activated(LastGen(All) + 1, x))
    BY <1>4 DEF Activation
  <2> DEFINE e == Activated(LastGen(All) + 1, x)   f == Fact(c.at, e)   S == Said(All, "activated")
             p == [gen |-> LastGen(All) + 1, activated |-> c.at, expires |-> x]
  <2>2. Said(All, "activated")' = S \cup {f}
    BY <2>1, SaidOne, EventParts
  <2>3. c.at < x
    BY <2>1, EventParts DEF AddsOne, ApplyEvent, ActivationApplies
  <2>4. IsFiniteSet(S) /\ f \notin S
    <3>1. f.at = c.at /\ S \subseteq All
      BY EventParts DEF Said
    <3> QED
      BY <3>1, FS_Subset, NewIsLater DEF PairsInv
  <2>5. LastGen(All)' = LastGen(All) + 1 /\ LastGen(All) \in Nat
    BY <2>2, <2>4, FS_AddElement, FS_CardinalityType DEF LastGen
  <2>6. Pairs(All)' = Pairs(All) \cup {p}
    BY <2>2, EventParts DEF Pairs
  <2>7. \A f1 \in S : f1.at < c.at /\ f1.says.gen \in 1..LastGen(All)
    <3> SUFFICES ASSUME NEW f1 \in S PROVE f1.at < c.at /\ f1.says.gen \in 1..LastGen(All)
      OBVIOUS
    <3>1. [gen |-> f1.says.gen, activated |-> f1.at, expires |-> f1.says.expires] \in Pairs(All)
      BY DEF Pairs
    <3> QED
      BY <3>1, NewIsLater DEF PairsInv, Said
  <2>8. (\A q \in Pairs(All) : q.gen \in 1..LastGen(All) /\ q.activated < q.expires)'
    BY <2>3, <2>5, <2>6 DEF PairsInv
  <2>9. (log # <<>> => \E q \in Pairs(All) : q.gen = LastGen(All))'
    <3>1. p \in Pairs(All)' /\ p.gen = LastGen(All)'
      BY <2>5, <2>6
    <3> QED
      BY <3>1
  <2>10. (\A f1, f2 \in Said(All, "activated") : f1.at < f2.at => f1.says.gen < f2.says.gen)'
    <3>1. f.at = c.at /\ f.says.gen = LastGen(All) + 1 /\ c.at \in Nat
      BY EventParts, NewIsLater
    <3>2. \A f1 \in S : f1.at \in Nat
      BY NewIsLater DEF Said
    <3> HIDE DEF f, S
    <3>3. \A f1, f2 \in S \cup {f} : f1.at < f2.at => f1.says.gen < f2.says.gen
      <4>1. \A f1, f2 \in S : f1.at < f2.at => f1.says.gen < f2.says.gen
        BY DEF S, PairsInv
      <4> QED
        BY <2>5, <2>7, <3>1, <3>2, <4>1
    <3> QED
      BY <2>2, <3>3
  <2> QED
    BY <1>2, <2>8, <2>9, <2>10 DEF PairsInv
<1> QED
  BY <1>3, <1>4

LEMMA RevokedStep ==
    ASSUME IInv, NEW c, Extends(c)
    PROVE  RevokedInv'
<1> USE DEF IInv
<1> DEFINE R == Said(All, "pairRevoked")
<1>1. CASE Activation(c)
  <2>1. PICK x \in Nat : AddsOne(c, Activated(LastGen(All) + 1, x))
    BY <1>1 DEF Activation
  <2> DEFINE e == Activated(LastGen(All) + 1, x)   f == Fact(c.at, e)   S == Said(All, "activated")
  <2>2. S' = S \cup {f} /\ R' = R /\ f.says.gen = LastGen(All) + 1
    BY <2>1, SaidOne, EventParts
  <2>3. IsFiniteSet(S) /\ f \notin S
    <3>1. f.at = c.at /\ S \subseteq All
      BY EventParts DEF Said
    <3> QED
      BY <3>1, FS_Subset, NewIsLater DEF PairsInv
  <2>4. LastGen(All)' = LastGen(All) + 1 /\ LastGen(All) \in Nat
    BY <2>2, <2>3, FS_AddElement, FS_CardinalityType DEF LastGen
  <2>5. \A p \in Pairs(All)' : p \in Pairs(All) \/ p.gen = LastGen(All) + 1
    BY <2>2 DEF Pairs
  <2> HIDE DEF f, e, S
  <2> QED
    BY <2>2, <2>4, <2>5 DEF RevokedInv
<1>2. CASE ~Activation(c)
  <2>1. Pairs(All)' = Pairs(All) /\ LastGen(All)' = LastGen(All)
    BY <1>2, OnlyActivations DEF Pairs, LastGen
  <2>2. CASE R' = R
    BY <2>1, <2>2 DEF RevokedInv
  <2>3. ASSUME NEW e, e.kind = "pairRevoked", AddsOne(c, e)
        PROVE  RevokedInv'
    <3>1. R' = R \cup {Fact(c.at, e)} /\ Fact(c.at, e).at = c.at /\ Fact(c.at, e).says = e
      BY <2>3, SaidOne, EventParts
    <3>2. \E p \in Pairs(All) : p.gen = e.gen
      BY <2>3 DEF AddsOne, ApplyEvent, PairRevocationApplies
    <3>3. e.gen \in 1..LastGen(All)
      BY <3>2 DEF PairsInv
    <3>4. \A p \in Pairs(All) : p.activated <= c.at
      <4>1. c.at \in Nat /\ \A f \in All : f.at \in Nat /\ f.at < c.at
        BY NewIsLater
      <4> QED
        BY <4>1, PairsMember
    <3> QED
      BY <2>1, <3>1, <3>3, <3>4 DEF RevokedInv
  <2>4. CASE Issuing(c) \/ Withdrawal(c) \/ PlainStart(c) \/ PlainEnd(c)
    <3>1. PICK e : e.kind # "pairRevoked" /\ AddsOne(c, e)
      BY <2>4, EventParts DEF Issuing, Withdrawal, PlainStart, PlainEnd
    <3> QED
      BY <2>2, <3>1, SaidOne
  <2>5. CASE Claim(c) \/ PermitEnd(c)
    <3>1. PICK d, e : AddsTwo(c, d, e) /\ d.kind = "transition" /\ e.kind \in {"started", "ambiguous"}
      BY <2>5, EventParts DEF Claim, PermitEnd
    <3>2. R' = R
      BY <3>1, SaidTwo
    <3> QED
      BY <2>2, <3>2
  <2>6. CASE Neutral(c)
    <3>1. PICK e \in Event : AddsOne(c, e)
      BY <2>6 DEF Neutral
    <3>2. e.kind # "pairRevoked" => R' = R
      BY <3>1, SaidOne
    <3> QED
      BY <2>2, <2>3, <3>1, <3>2
  <2> QED
    BY <1>2, <2>4, <2>5, <2>6, Forms
<1> QED
  BY <1>1, <1>2

LEMMA HistoricalKinds ==
    ASSUME TypeOK, NEW c, Extends(c), c.txn \in HistoricalTxns
    PROVE  \A j \in DOMAIN c.events : c.events[j].kind \in {"noEffect", "recovered"}
<1>1. Shape(All, c.txn, c.events)
  BY DEF Extends, AuditShape, HistoricalTxns
<1>2. CASE \E o \in Operations(All) : c.events = EndEvents(o, "noEffect", NoEffect(o.op))
  <2>1. PICK o \in Operations(All) : c.events = EndEvents(o, "noEffect", NoEffect(o.op))
    BY <1>2
  <2>2. CASE o.permit = None
    <3>1. c.events = <<NoEffect(o.op)>>
      BY <2>1, <2>2 DEF EndEvents
    <3> QED
      BY <3>1, EventParts
  <2>3. CASE o.permit # None
    <3> DEFINE d == Transition(o.permit, "noEffect", o.op)
    <3>1. c.events = <<d, NoEffect(o.op)>>
      BY <2>1, <2>3 DEF EndEvents
    <3>2. d \in Event /\ NoEffect(o.op) \in Event
      BY <2>3, OperationType, EventTypes DEF StepNames
    <3>3. AddsTwo(c, d, NoEffect(o.op))
      BY <3>1, <3>2, TwoEvents
    <3> QED
      BY <3>3, NoEffectBarred DEF AddsTwo
  <2> QED
    BY <2>2, <2>3
<1>3. CASE \E a \in RecoveryActions, o \in Ops \cup {None} : c.events = <<Recovered(a, 0, o)>>
  BY <1>3 DEF Recovered
<1> QED
  BY <1>1, <1>2, <1>3 DEF Shape, HistoricalTxns

\* The generation a log has superseded is not the one it selects.
LEMMA SupersededNotSelected ==
    ASSUME TypeOK, TimesInv, PairsInv, NEW m \in DOMAIN log, NEW g \in Nat, Superseded(m, g),
           NEW t \in Nat, log[m].at <= t
    PROVE  ~Selects(All, t, g)
<1>1. PICK j \in DOMAIN log[m].events :
        LET e == log[m].events[j] IN
        (e.kind = "pairRevoked" /\ e.gen = g) \/ (e.kind = "activated" /\ e.gen > g)
  BY DEF Superseded
<1> DEFINE e == log[m].events[j]   f == Fact(log[m].at, e)
<1>2. e \in Event
  <2>1. log[m] \in Commits
    BY DEF TypeOK
  <2> QED
    BY <1>1, <2>1 DEF Commits
<1>3. f \in All
  <2>1. f \in Says(log[m])
    BY <1>1 DEF Says, Fact
  <2> QED
    BY <2>1, FactsMember DEF All
<1>4. f.at = log[m].at /\ f.says = e
  BY EventParts
<1>5. CASE e.kind = "pairRevoked" /\ e.gen = g
  <2>1. PairRevokedBy(All, g, t)
    BY <1>3, <1>4, <1>5 DEF PairRevokedBy, Said
  <2> QED
    BY <2>1 DEF Selects
<1>6. CASE e.kind = "activated" /\ e.gen > g
  <2> DEFINE q == [gen |-> f.says.gen, activated |-> f.at, expires |-> f.says.expires]
  <2>1. q \in Pairs(All)
    BY <1>3, <1>4, <1>6, PairsMember
  <2>2. q.activated <= t /\ q.gen > g
    BY <1>4, <1>6
  <2>3. q.gen \in Nat
    BY <1>2, <1>4, <1>6, EventKinds
  <2> HIDE DEF q
  <2> QED
    BY <2>1, <2>2, <2>3 DEF Selects
<1> QED
  BY <1>1, <1>5, <1>6

LEMMA SilenceStep ==
    ASSUME IInv, NEW c, Extends(c)
    PROVE  RevokedIsSilent'
<1> USE DEF IInv
<1> SUFFICES ASSUME NEW m \in DOMAIN log', NEW n \in DOMAIN log', m < n, Superseded(m, log[n].gen)'
             PROVE  /\ log'[n].txn \in CleanupTxns
                    /\ \A j \in DOMAIN log'[n].events : log'[n].events[j].kind \in {"noEffect", "recovered"}
  BY DEF RevokedIsSilent
<1>1. m \in DOMAIN log /\ log'[m] = log[m]
  BY Extended
<1>2. Superseded(m, log'[n].gen)
  BY <1>1 DEF Superseded
<1>3. CASE n \in DOMAIN log
  BY <1>1, <1>2, <1>3, Extended DEF RevokedIsSilent
<1>4. CASE n \notin DOMAIN log
  <2>1. log'[n] = c /\ c \in Commits
    BY <1>4, Extended DEF Extends
  <2>2. CASE AuditShape(c)
    <3>1. PICK a \in RecoveryActions, k \in Nat : c.events = <<Recovered(a, k, None)>>
      BY <2>2 DEF AuditShape
    <3>2. \A j \in DOMAIN c.events : c.events[j].kind \in {"noEffect", "recovered"}
      BY <3>1 DEF Recovered
    <3> QED
      BY <2>1, <2>2, <3>2 DEF AuditShape, CleanupTxns
  <2>3. CASE c.txn \in HistoricalTxns
    BY <2>1, <2>3, HistoricalKinds DEF CleanupTxns
  <2>4. CASE ~AuditShape(c) /\ c.txn \notin HistoricalTxns
    <3>1. Appendable(log, c.txn, c.events, c.at, c.gen)
      BY <2>4 DEF Extends
    <3>2. Pairs(All) # {}
      <4>1. log # <<>>
        BY <1>1 DEF TypeOK
      <4> QED
        BY <4>1, GenesisFact
    <3>3. Selects(All, c.at, c.gen)
      BY <2>4, <3>1, <3>2 DEF Appendable, AuthorityForAppend, Genesis, All
    <3>4. c.gen \in Nat /\ c.at \in Nat /\ log[m].at \in Nat /\ log[m].at <= c.at
      BY <1>1, <2>1, NewIsLater DEF Commits
    <3> QED
      BY <1>1, <1>2, <2>1, <3>3, <3>4, SupersededNotSelected
  <2> QED
    BY <2>2, <2>3, <2>4
<1> QED
  BY <1>3, <1>4

LEMMA IssuanceOf ==
    ASSUME NEW F, NEW r
    PROVE  r \in Issuances(F) <=> \E f \in Said(F, "issued") : r = f.says
  BY DEF Issuances

LEMMA StepOf ==
    ASSUME NEW F, NEW p, NEW step
    PROVE  step \in Transitions(F, p) <=>
             \E f \in Said(F, "transition") : f.says.permit = p /\ f.says.step = step
  BY DEF Transitions

\* The operation a commit begins, and the facts it is judged by.
NewOp(t, o, n, g, p) == [op |-> o, nonce |-> n, gen |-> g, permit |-> p, started |-> t]

Begins(F, t, o, n, g, p) ==
  /\ o \in Ops /\ n \in Nonces /\ g \in Nat /\ p \in Permits \cup {None}
  /\ All \subseteq F /\ F \subseteq All' /\ \A f \in F : f \in All \/ f.at = t
  /\ Operations(F) = Operations(All) /\ Issuances(F) = Issuances(All)
  /\ StartApplies(F, Started(o, n, g, p), t)
  /\ Operations(All)' = Operations(All) \cup {NewOp(t, o, n, g, p)}
  /\ \A k \in {"issued", "noEffect", "ambiguous"} : Said(All, k)' = Said(All, k)

LEMMA StartBegins ==
    ASSUME TypeOK, NEW o \in Ops, NEW n \in Nonces, NEW g \in Nat, NEW c, AddsOne(c, Started(o, n, g, None))
    PROVE  Begins(All, c.at, o, n, g, None) /\ Said(All, "transition")' = Said(All, "transition")
<1> DEFINE e == Started(o, n, g, None)
<1>1. Said(All, "started")' = Said(All, "started") \cup {Fact(c.at, e)}
  BY SaidOne, EventParts
<1>2. Operations(All)' = Operations(All) \cup {NewOp(c.at, o, n, g, None)}
  BY <1>1, EventParts DEF Operations, NewOp
<1>3. \A k \in {"issued", "noEffect", "ambiguous", "transition"} : Said(All, k)' = Said(All, k)
  BY SaidOne, EventParts
<1>4. StartApplies(All, e, c.at)
  BY EventParts DEF AddsOne, ApplyEvent
<1>5. All \subseteq All'
  BY DEF AddsOne
<1> QED
  BY <1>2, <1>3, <1>4, <1>5 DEF Begins

LEMMA ClaimBegins ==
    ASSUME TypeOK, NEW o \in Ops, NEW n \in Nonces, NEW g \in Nat, NEW p \in Permits, NEW c,
           AddsTwo(c, Transition(p, "claim", o), Started(o, n, g, p))
    PROVE  /\ Begins(All \cup {Fact(c.at, Transition(p, "claim", o))}, c.at, o, n, g, p)
           /\ Said(All, "transition")' = Said(All, "transition") \cup {Fact(c.at, Transition(p, "claim", o))}
<1> DEFINE d == Transition(p, "claim", o)   e == Started(o, n, g, p)   F == All \cup {Fact(c.at, d)}
<1>0. d.kind = "transition" /\ e.kind = "started"
  BY EventParts
<1>1. Said(All, "started")' = Said(All, "started") \cup {Fact(c.at, e)}
      /\ Said(All, "transition")' = Said(All, "transition") \cup {Fact(c.at, d)}
  BY <1>0, SaidTwo
<1>2. Operations(All)' = Operations(All) \cup {NewOp(c.at, o, n, g, p)}
  BY <1>1, EventParts DEF Operations, NewOp
<1>3. \A k \in {"issued", "noEffect", "ambiguous"} : Said(All, k)' = Said(All, k)
  BY <1>0, SaidTwo
<1>4. StartApplies(F, e, c.at)
  BY <1>0 DEF AddsTwo, ApplyEvent
<1>5. All \subseteq F /\ F \subseteq All' /\ \A f \in F : f \in All \/ f.at = c.at
  BY EventParts DEF AddsTwo
<1>6. Said(F, "started") = Said(All, "started") /\ Said(F, "issued") = Said(All, "issued")
  BY EventParts DEF Said
<1>7. Operations(F) = Operations(All) /\ Issuances(F) = Issuances(All)
  BY <1>6 DEF Operations, Issuances
<1> QED
  BY <1>1, <1>2, <1>3, <1>4, <1>5, <1>7 DEF Begins

\* A commit that begins nothing leaves the operations as they were.
LEMMA OperationsStay ==
    ASSUME TypeOK, NEW c, Extends(c), ~PlainStart(c), ~Claim(c)
    PROVE  Operations(All)' = Operations(All)
<1>1. CASE Activation(c) \/ Withdrawal(c) \/ PlainEnd(c) \/ Issuing(c) \/ Neutral(c)
  <2>1. PICK e : AddsOne(c, e) /\ e.kind # "started"
    BY <1>1, EventParts DEF Activation, Withdrawal, PlainEnd, Issuing, Neutral, Unrelated
  <2> QED
    BY <2>1, SaidOne DEF Operations
<1>2. CASE PermitEnd(c)
  <2>1. PICK d, e : AddsTwo(c, d, e) /\ d.kind = "transition" /\ e.kind = "ambiguous"
    BY <1>2, EventParts DEF PermitEnd
  <2>2. Said(All, "started")' = Said(All, "started")
    BY <2>1, SaidTwo
  <2> QED
    BY <2>2 DEF Operations
<1> QED
  BY <1>1, <1>2, Forms

LEMMA BeginsSomething ==
    ASSUME TypeOK, NEW c, Extends(c), PlainStart(c) \/ Claim(c)
    PROVE  \E F, o, n, g, p : Begins(F, c.at, o, n, g, p)
<1>1. CASE PlainStart(c)
  <2>1. PICK o \in Ops, n \in Nonces, g \in Nat : AddsOne(c, Started(o, n, g, None))
    BY <1>1 DEF PlainStart
  <2>2. Begins(All, c.at, o, n, g, None)
    BY <2>1, StartBegins
  <2> QED
    BY <2>2
<1>2. CASE Claim(c)
  <2>1. PICK o \in Ops, n \in Nonces, g \in Nat, p \in Permits :
          AddsTwo(c, Transition(p, "claim", o), Started(o, n, g, p))
    BY <1>2 DEF Claim
  <2> DEFINE F == All \cup {Fact(c.at, Transition(p, "claim", o))}
  <2>2. Begins(F, c.at, o, n, g, p)
    BY <2>1, ClaimBegins
  <2> HIDE DEF F
  <2> QED
    BY <2>2
<1> QED
  BY <1>1, <1>2

LEMMA AllGrows ==
    ASSUME TypeOK, TimesInv, NEW c, Extends(c)
    PROVE  All \subseteq All' /\ \A f \in All' : f.at \in Nat /\ (f \in All \/ f.at = c.at)
<1>1. All' = All \cup Says(c)
  BY FactsAppend DEF Extends, TypeOK, All
<1>2. \A f \in Says(c) : f.at = c.at
  BY DEF Says, Extends
<1> QED
  BY <1>1, <1>2, NewIsLater

LEMMA StartsStep ==
    ASSUME TypeOK, TimesInv, StartsInv, NEW c, Extends(c)
    PROVE  StartsInv'
<1>1. ASSUME NEW q \in Operations(All) PROVE q.gen \in Nat /\ WasValid(All, q.started, q.gen)'
  <2>1. q.started \in Nat /\ q.started < c.at /\ c.at \in Nat
    <3> DEFINE f == [at |-> q.started, says |-> Started(q.op, q.nonce, q.gen, q.permit)]
    <3>1. f \in All /\ f.at = q.started
      BY OperationType
    <3> HIDE DEF f
    <3> QED
      BY <3>1, NewIsLater
  <2>2. WasValid(All, q.started, q.gen)
    BY DEF StartsInv
  <2>3. \A f \in All' : f.at \in Nat /\ (f \in All \/ q.started <= f.at)
    BY <2>1, AllGrows
  <2>4. WasValid(All', q.started, q.gen)
    BY <2>1, <2>2, <2>3, AllGrows, WasValidGrows
  <2> QED
    BY <2>4 DEF StartsInv
<1>2. CASE ~PlainStart(c) /\ ~Claim(c)
  BY <1>1, <1>2, OperationsStay DEF StartsInv
<1>3. CASE PlainStart(c) \/ Claim(c)
  <2>1. PICK F, o, n, g, p : Begins(F, c.at, o, n, g, p)
    BY <1>3, BeginsSomething
  <2> DEFINE q == NewOp(c.at, o, n, g, p)
  <2>2. q.gen = g /\ q.started = c.at /\ g \in Nat /\ c.at \in Nat
    BY <2>1, NewIsLater DEF NewOp, Begins
  <2>3. Selects(F, c.at, g)
    BY <2>1, EventParts DEF Begins, StartApplies
  <2>4. F \subseteq All' /\ \A f \in F : f.at \in Nat
    BY <2>1, AllGrows DEF Begins
  <2>5. WasValid(F, c.at, g)
    BY <2>2, <2>3, <2>4, SelectedIsValid
  <2>6. \A f \in All' : f.at \in Nat /\ (f \in F \/ c.at <= f.at)
    BY <2>1, <2>2, AllGrows DEF Begins
  <2>7. WasValid(All', c.at, g)
    BY <2>2, <2>4, <2>5, <2>6, WasValidGrows
  <2>8. Operations(All)' = Operations(All) \cup {q}
    BY <2>1 DEF Begins
  <2> QED
    BY <1>1, <2>2, <2>7, <2>8 DEF StartsInv
<1> QED
  BY <1>2, <1>3

-----------------------------------------------------------------------------
(* Nonces, permits and operations.                                         *)

NonceOf(os, rs) ==
  /\ \A o, q \in os : o.nonce = q.nonce \/ o.op = q.op => o = q
  /\ \A r, q \in rs : r.nonce = q.nonce \/ r.permit = q.permit => r = q
  /\ \A o \in os, r \in rs : o.nonce = r.nonce => o.permit = r.permit

LEMMA IssuancesStay ==
    ASSUME TypeOK, NEW c, Extends(c), ~Issuing(c)
    PROVE  Issuances(All)' = Issuances(All)
<1>1. CASE Activation(c) \/ Withdrawal(c) \/ PlainEnd(c) \/ PlainStart(c) \/ Neutral(c)
  <2>1. PICK e : AddsOne(c, e) /\ e.kind # "issued"
    BY <1>1, EventParts DEF Activation, Withdrawal, PlainEnd, PlainStart, Neutral, Unrelated
  <2> QED
    BY <2>1, SaidOne DEF Issuances
<1>2. CASE PermitEnd(c) \/ Claim(c)
  <2>1. PICK d, e : AddsTwo(c, d, e) /\ d.kind = "transition" /\ e.kind \in {"ambiguous", "started"}
    BY <1>2, EventParts DEF PermitEnd, Claim
  <2>2. Said(All, "issued")' = Said(All, "issued")
    BY <2>1, SaidTwo
  <2> QED
    BY <2>2 DEF Issuances
<1> QED
  BY <1>1, <1>2, Forms

LEMMA NonceStep ==
    ASSUME TypeOK, NonceOnce, NEW c, Extends(c)
    PROVE  NonceOnce'
<1>0. NonceOf(Operations(All), Issuances(All))
  BY DEF NonceOnce, NonceOf
<1> SUFFICES NonceOf(Operations(All)', Issuances(All)')
  BY DEF NonceOnce, NonceOf
<1>1. CASE PlainStart(c) \/ Claim(c)
  <2>1. PICK F, o, n, g, p : Begins(F, c.at, o, n, g, p)
    BY <1>1, BeginsSomething
  <2> DEFINE q == NewOp(c.at, o, n, g, p)
  <2>2. q.op = o /\ q.nonce = n /\ q.permit = p /\ Operations(All)' = Operations(All) \cup {q}
    BY <2>1 DEF NewOp, Begins
  <2>3. Issuances(All)' = Issuances(All)
    BY <2>1 DEF Begins, Issuances
  <2>4. \A u \in Operations(All) : u.op # o /\ u.nonce # n
    BY <2>1, EventParts DEF Begins, StartApplies
  <2>5. \A r \in Issuances(All) : r.nonce = n => r.permit = p
    <3>1. CASE p = None
      BY <2>1, <3>1, EventParts DEF Begins, StartApplies
    <3>2. CASE p # None
      <4>1. \E r \in Issuances(All) : r.permit = p /\ r.nonce = n
        BY <2>1, <3>2, EventParts DEF Begins, StartApplies
      <4> QED
        BY <1>0, <4>1 DEF NonceOf
    <3> QED
      BY <3>1, <3>2
  <2> HIDE DEF q
  <2> QED
    BY <1>0, <2>2, <2>3, <2>4, <2>5 DEF NonceOf
<1>2. CASE Issuing(c)
  <2>1. PICK e \in Event : e.kind = "issued" /\ AddsOne(c, e)
    BY <1>2 DEF Issuing
  <2>2. Issuances(All)' = Issuances(All) \cup {e} /\ Operations(All)' = Operations(All)
    <3>1. Said(All, "issued")' = Said(All, "issued") \cup {Fact(c.at, e)}
          /\ Said(All, "started")' = Said(All, "started")
      BY <2>1, SaidOne
    <3> QED
      BY <3>1, EventParts DEF Issuances, Operations
  <2>3. /\ \A r \in Issuances(All) : r.permit # e.permit /\ r.nonce # e.nonce
        /\ \A o \in Operations(All) : o.nonce # e.nonce
    BY <2>1 DEF AddsOne, ApplyEvent, IssuanceApplies
  <2> QED
    BY <1>0, <2>2, <2>3 DEF NonceOf
<1>3. CASE ~PlainStart(c) /\ ~Claim(c) /\ ~Issuing(c)
  BY <1>0, <1>3, OperationsStay, IssuancesStay
<1> QED
  BY <1>1, <1>2, <1>3

\* What one fact more does to the steps of a permit and to the ends.
LEMMA StepSaid ==
    ASSUME NEW t, NEW p, NEW step, NEW o,
           Said(All, "transition")' = Said(All, "transition") \cup {Fact(t, Transition(p, step, o))}
    PROVE  /\ Steps(p)' = Steps(p) \cup {step}
           /\ \A q : q # p => Steps(q)' = Steps(q)
  BY EventParts DEF Steps, Transitions

LEMMA StepUnsaid ==
    ASSUME Said(All, "transition")' = Said(All, "transition")
    PROVE  \A q : Steps(q)' = Steps(q)
  BY DEF Steps, Transitions

LEMMA EndSaid ==
    ASSUME NEW t, NEW k, NEW e, Said(All, k)' = Said(All, k) \cup {Fact(t, e)}
    PROVE  \A q : EndedAs(q, k)' <=> EndedAs(q, k) \/ e.op = q.op
  BY EventParts DEF EndedAs

LEMMA EndUnsaid ==
    ASSUME NEW k, Said(All, k)' = Said(All, k)
    PROVE  \A q : EndedAs(q, k)' <=> EndedAs(q, k)
  BY DEF EndedAs

LEMMA StateSteps ==
    ASSUME NEW p
    PROVE  /\ PermitState(All, p) = "ready" <=> Steps(p) \cap {"claim", "withdraw", "ambiguous"} = {}
           /\ PermitState(All, p) = "in_progress" <=> "claim" \in Steps(p) /\ Steps(p) \cap {"withdraw", "ambiguous"} = {}
           /\ PermitState(All, p) = "revoked" <=> "withdraw" \in Steps(p)
           /\ PermitState(All, p) = "recovery_required" <=> "ambiguous" \in Steps(p) /\ "withdraw" \notin Steps(p)
  BY DEF PermitState, Steps

LEMMA Allowed ==
    ASSUME NEW t, NEW p, NEW step, NEW o, ApplyEvent(All, Transition(p, step, o), t)
    PROVE  /\ step \in {"claim", "withdraw"} => PermitState(All, p) = "ready"
           /\ step = "ambiguous" => PermitState(All, p) = "in_progress"
<1>1. TransitionApplies(All, Transition(p, step, o), t)
  BY EventParts DEF ApplyEvent
<1>2. Rule(PermitState(All, p), step)
  BY <1>1, EventParts DEF TransitionApplies
<1> QED
  BY <1>2 DEF Rule

\* Two operations with one permit are one.
LEMMA OnePermitOneOperation ==
    ASSUME NonceOnce, PermitInv, NEW o \in Operations(All), NEW q \in Operations(All),
           o.permit = q.permit, o.permit # None
    PROVE  o = q
<1>1. PICK r \in Issuances(All) : r.permit = o.permit /\ r.nonce = o.nonce
  BY DEF PermitInv
<1>2. PICK s \in Issuances(All) : s.permit = q.permit /\ s.nonce = q.nonce
  BY DEF PermitInv
<1>3. r = s
  BY <1>1, <1>2 DEF NonceOnce
<1> QED
  BY <1>1, <1>2, <1>3 DEF NonceOnce

LEMMA IssuancesGrow ==
    ASSUME TypeOK, TimesInv, NEW c, Extends(c)
    PROVE  Issuances(All) \subseteq Issuances(All)'
  BY AllGrows DEF Issuances, Said

LEMMA QuietForms ==
    ASSUME NEW c, Activation(c) \/ Issuing(c) \/ Neutral(c)
    PROVE  /\ Operations(All)' = Operations(All)
           /\ \A k \in {"transition", "noEffect", "ambiguous"} : Said(All, k)' = Said(All, k)
<1>1. PICK e : AddsOne(c, e) /\ e.kind \notin {"started", "transition", "noEffect", "ambiguous"}
  BY EventParts DEF Activation, Issuing, Neutral, Unrelated
<1>2. \A k \in {"started", "transition", "noEffect", "ambiguous"} : Said(All, k)' = Said(All, k)
  BY <1>1, SaidOne
<1> QED
  BY <1>2 DEF Operations

LEMMA PermitQuietStep ==
    ASSUME TypeOK, TimesInv, PermitInv, NEW c, Extends(c), Activation(c) \/ Issuing(c) \/ Neutral(c)
    PROVE  PermitInv'
<1>1. Operations(All)' = Operations(All) /\ Issuances(All) \subseteq Issuances(All)'
  BY QuietForms, IssuancesGrow
<1>2. \A q : Steps(q)' = Steps(q)
  BY QuietForms, StepUnsaid
<1>3. \A q : (EndedAs(q, "noEffect")' <=> EndedAs(q, "noEffect")) /\ (EndedAs(q, "ambiguous")' <=> EndedAs(q, "ambiguous"))
  BY QuietForms, EndUnsaid
<1> QED
  BY <1>1, <1>2, <1>3 DEF PermitInv

LEMMA PermitWithdrawalStep ==
    ASSUME TypeOK, TimesInv, PermitInv, NEW c, Extends(c), Withdrawal(c)
    PROVE  PermitInv'
<1>1. PICK p \in Permits : AddsOne(c, Transition(p, "withdraw", None))
  BY DEF Withdrawal
<1>2. /\ Said(All, "transition")' = Said(All, "transition") \cup {Fact(c.at, Transition(p, "withdraw", None))}
      /\ \A k \in {"started", "noEffect", "ambiguous"} : Said(All, k)' = Said(All, k)
  BY <1>1, SaidOne, EventParts
<1>3. Operations(All)' = Operations(All) /\ Issuances(All) \subseteq Issuances(All)'
  BY <1>2, IssuancesGrow DEF Operations
<1>4. Steps(p)' = Steps(p) \cup {"withdraw"} /\ \A q : q # p => Steps(q)' = Steps(q)
  BY <1>2, StepSaid
<1>5. \A q : (EndedAs(q, "noEffect")' <=> EndedAs(q, "noEffect")) /\ (EndedAs(q, "ambiguous")' <=> EndedAs(q, "ambiguous"))
  BY <1>2, EndUnsaid
<1>6. Steps(p) \cap {"claim", "withdraw", "ambiguous"} = {}
  BY <1>1, Allowed, StateSteps DEF AddsOne
<1>7. \A q : /\ "claim" \in Steps(q)' <=> "claim" \in Steps(q)
             /\ "ambiguous" \in Steps(q)' <=> "ambiguous" \in Steps(q)
             /\ "withdraw" \in Steps(q)' => "withdraw" \in Steps(q) \/ q = p
  BY <1>4
<1> QED
  BY <1>3, <1>5, <1>6, <1>7 DEF PermitInv

LEMMA PermitStartStep ==
    ASSUME TypeOK, TimesInv, PermitInv, NEW c, Extends(c), PlainStart(c)
    PROVE  PermitInv'
<1>1. PICK o \in Ops, n \in Nonces, g \in Nat : AddsOne(c, Started(o, n, g, None))
  BY DEF PlainStart
<1>2. Begins(All, c.at, o, n, g, None) /\ Said(All, "transition")' = Said(All, "transition")
  BY <1>1, StartBegins
<1>3. \A q : Steps(q)' = Steps(q)
  BY <1>2, StepUnsaid
<1>4. \A q : (EndedAs(q, "noEffect")' <=> EndedAs(q, "noEffect")) /\ (EndedAs(q, "ambiguous")' <=> EndedAs(q, "ambiguous"))
  BY <1>2, EndUnsaid DEF Begins
<1>5. PICK u : u.permit = None /\ Operations(All)' = Operations(All) \cup {u}
  BY <1>2 DEF Begins, NewOp
<1> QED
  BY <1>3, <1>4, <1>5, IssuancesGrow DEF PermitInv

LEMMA PermitClaimStep ==
    ASSUME TypeOK, TimesInv, PermitInv, EndsInv, NEW c, Extends(c), Claim(c)
    PROVE  PermitInv'
<1>1. PICK o \in Ops, n \in Nonces, g \in Nat, p \in Permits :
        AddsTwo(c, Transition(p, "claim", o), Started(o, n, g, p))
  BY DEF Claim
<1> DEFINE F == All \cup {Fact(c.at, Transition(p, "claim", o))}   u == NewOp(c.at, o, n, g, p)
<1>2. /\ Begins(F, c.at, o, n, g, p)
      /\ Said(All, "transition")' = Said(All, "transition") \cup {Fact(c.at, Transition(p, "claim", o))}
  BY <1>1, ClaimBegins
<1>3. Steps(p)' = Steps(p) \cup {"claim"} /\ \A q : q # p => Steps(q)' = Steps(q)
  BY <1>2, StepSaid
<1>4. \A q : (EndedAs(q, "noEffect")' <=> EndedAs(q, "noEffect")) /\ (EndedAs(q, "ambiguous")' <=> EndedAs(q, "ambiguous"))
  BY <1>2, EndUnsaid DEF Begins
<1>5. Steps(p) \cap {"claim", "withdraw", "ambiguous"} = {}
  BY <1>1, Allowed, StateSteps DEF AddsTwo
<1>6. Operations(All)' = Operations(All) \cup {u} /\ u.op = o /\ u.nonce = n /\ u.permit = p /\ p # None
  BY <1>2, LedgerAssumption DEF Begins, NewOp
<1>7. StartApplies(F, Started(o, n, g, p), c.at) /\ Operations(F) = Operations(All) /\ Issuances(F) = Issuances(All)
  BY <1>2 DEF Begins
<1>8. /\ \A q \in Operations(All) : q.op # o
      /\ \E r \in Issuances(All) : r.permit = p /\ r.nonce = n
  <2> DEFINE s == Started(o, n, g, p)
  <2>1. s.op = o /\ s.nonce = n /\ s.permit = p
    BY EventParts
  <2> HIDE DEF s, F
  <2>2. \A q \in Operations(All) : q.op # s.op
    BY <1>7 DEF StartApplies, s
  <2>3. \E r \in Issuances(All) : r.permit = s.permit /\ r.nonce = s.nonce
    BY <1>6, <1>7, <2>1 DEF StartApplies, s
  <2> QED
    BY <2>1, <2>2, <2>3
<1>9. ~EndedAs(u, "noEffect") /\ ~EndedAs(u, "ambiguous")
  BY <1>6, <1>8 DEF EndsInv, EndedAs
<1>10. \A q : /\ "claim" \in Steps(q)' <=> "claim" \in Steps(q) \/ q = p
              /\ "ambiguous" \in Steps(q)' <=> "ambiguous" \in Steps(q)
              /\ "withdraw" \in Steps(q)' <=> "withdraw" \in Steps(q)
  BY <1>3
<1> HIDE DEF u, F
<1>11. ASSUME NEW q \in Operations(All)', q.permit # None
       PROVE  /\ (\E r \in Issuances(All) : r.permit = q.permit /\ r.nonce = q.nonce)'
              /\ ~EndedAs(q, "noEffect")'
              /\ "claim" \in Steps(q.permit)'
              /\ EndedAs(q, "ambiguous")' <=> "ambiguous" \in Steps(q.permit)'
  <2>1. CASE q \in Operations(All)
    BY <1>4, <1>10, <1>11, <2>1, IssuancesGrow DEF PermitInv
  <2>2. CASE q = u
    BY <1>4, <1>5, <1>6, <1>8, <1>9, <1>10, <2>2, IssuancesGrow
  <2> QED
    BY <1>6, <2>1, <2>2
<1>12. ASSUME NEW q \in Permits
       PROVE  /\ "claim" \in Steps(q)' => \E v \in Operations(All)' : v.permit = q
              /\ "withdraw" \in Steps(q)' => "claim" \notin Steps(q)'
              /\ "ambiguous" \in Steps(q)' => "claim" \in Steps(q)'
  BY <1>5, <1>6, <1>10 DEF PermitInv
<1> QED
  BY <1>11, <1>12 DEF PermitInv

LEMMA PermitPlainEndStep ==
    ASSUME TypeOK, TimesInv, NonceOnce, PermitInv, NEW c, Extends(c), PlainEnd(c)
    PROVE  PermitInv'
<1>1. PICK o \in Operations(All) : o.permit = None /\ \E e \in {NoEffect(o.op), Ambiguous(o.op)} : AddsOne(c, e)
  BY DEF PlainEnd
<1>a. PICK e \in {NoEffect(o.op), Ambiguous(o.op)} : AddsOne(c, e)
  BY <1>1
<1>2. e.op = o.op /\ e.kind \in {"noEffect", "ambiguous"}
  BY EventParts
<1>3. Said(All, "transition")' = Said(All, "transition") /\ Said(All, "started")' = Said(All, "started")
  BY <1>a, <1>2, SaidOne
<1>4. Operations(All)' = Operations(All) /\ \A q : Steps(q)' = Steps(q)
  BY <1>3, StepUnsaid DEF Operations
<1>5. ASSUME NEW q \in Operations(All), q.permit # None, NEW k \in {"noEffect", "ambiguous"}
      PROVE  EndedAs(q, k)' <=> EndedAs(q, k)
  <2>1. q.op # e.op
    BY <1>1, <1>2, <1>5 DEF NonceOnce
  <2>2. CASE e.kind = k
    <3>1. Said(All, k)' = Said(All, k) \cup {Fact(c.at, e)}
      BY <1>a, <2>2, SaidOne
    <3>2. EndedAs(q, k)' <=> EndedAs(q, k) \/ e.op = q.op
      BY <3>1, EndSaid
    <3> QED
      BY <2>1, <3>2
  <2>3. CASE e.kind # k
    <3>1. Said(All, k)' = Said(All, k)
      BY <1>a, <2>3, SaidOne
    <3> QED
      BY <3>1, EndUnsaid
  <2> QED
    BY <2>2, <2>3
<1> QED
  BY <1>4, <1>5, IssuancesGrow DEF PermitInv

LEMMA PermitEndStep ==
    ASSUME TypeOK, TimesInv, NonceOnce, PermitInv, NEW c, Extends(c), PermitEnd(c)
    PROVE  PermitInv'
<1>1. PICK o \in Operations(All) :
        o.permit \in Permits /\ AddsTwo(c, Transition(o.permit, "ambiguous", o.op), Ambiguous(o.op))
  BY DEF PermitEnd
<1> DEFINE d == Transition(o.permit, "ambiguous", o.op)   e == Ambiguous(o.op)   p == o.permit
<1>2. d.kind = "transition" /\ e.kind = "ambiguous" /\ e.op = o.op
  BY EventParts
<1>3. /\ Said(All, "transition")' = Said(All, "transition") \cup {Fact(c.at, d)}
      /\ Said(All, "ambiguous")' = Said(All, "ambiguous") \cup {Fact(c.at, e)}
      /\ Said(All, "noEffect")' = Said(All, "noEffect")
      /\ Said(All, "started")' = Said(All, "started")
  BY <1>1, <1>2, SaidTwo
<1>4. Operations(All)' = Operations(All)
  BY <1>3 DEF Operations
<1>5. Steps(p)' = Steps(p) \cup {"ambiguous"} /\ \A q : q # p => Steps(q)' = Steps(q)
  BY <1>3, StepSaid
<1>6. \A q : /\ EndedAs(q, "noEffect")' <=> EndedAs(q, "noEffect")
             /\ EndedAs(q, "ambiguous")' <=> EndedAs(q, "ambiguous") \/ o.op = q.op
  BY <1>2, <1>3, EndSaid, EndUnsaid
<1>7. "claim" \in Steps(p)
  BY <1>1, Allowed, StateSteps DEF AddsTwo
<1>8. p # None
  BY <1>1, LedgerAssumption
<1>9. \A q : /\ "claim" \in Steps(q)' <=> "claim" \in Steps(q)
             /\ "ambiguous" \in Steps(q)' <=> "ambiguous" \in Steps(q) \/ q = p
             /\ "withdraw" \in Steps(q)' <=> "withdraw" \in Steps(q)
  BY <1>5
<1>10. \A q \in Operations(All) : (o.op = q.op <=> q = o) /\ (q.permit = p <=> q = o)
  BY <1>8, OnePermitOneOperation DEF NonceOnce
<1> QED
  BY <1>4, <1>6, <1>7, <1>9, <1>10, IssuancesGrow DEF PermitInv

LEMMA PermitStep ==
    ASSUME TypeOK, TimesInv, NonceOnce, PermitInv, EndsInv, NEW c, Extends(c)
    PROVE  PermitInv'
  BY Forms, PermitQuietStep, PermitWithdrawalStep, PermitStartStep, PermitClaimStep, PermitPlainEndStep, PermitEndStep

LEMMA EndsStep ==
    ASSUME TypeOK, TimesInv, EndsInv, NEW c, Extends(c)
    PROVE  EndsInv'
<1> DEFINE ends == Said(All, "noEffect") \cup Said(All, "ambiguous")
<1>1. Operations(All) \subseteq Operations(All)'
  BY AllGrows DEF Operations, Said
<1>2. CASE PlainEnd(c) \/ PermitEnd(c)
  <2>a. PICK o \in Operations(All) : \E e \in {NoEffect(o.op), Ambiguous(o.op)} :
          AddsOne(c, e) \/ \E d : d.kind = "transition" /\ AddsTwo(c, d, e)
    BY <1>2, EventParts DEF PlainEnd, PermitEnd
  <2>1. PICK e \in {NoEffect(o.op), Ambiguous(o.op)} :
          AddsOne(c, e) \/ \E d : d.kind = "transition" /\ AddsTwo(c, d, e)
    BY <2>a
  <2>2. e.op = o.op
    BY EventParts
  <2>3. \A f \in All' : f \in All \/ f = Fact(c.at, e) \/ f.says.kind = "transition"
    <3>1. CASE AddsOne(c, e)
      BY <3>1 DEF AddsOne
    <3>2. CASE \E d : d.kind = "transition" /\ AddsTwo(c, d, e)
      BY <3>2, EventParts DEF AddsTwo
    <3> QED
      BY <2>1, <3>1, <3>2
  <2>4. \A f \in ends' : f \in ends \/ f.says.op = o.op
    BY <2>2, <2>3, EventParts DEF Said
  <2> QED
    BY <1>1, <2>4 DEF EndsInv
<1>3. CASE ends' = ends
  BY <1>1, <1>3 DEF EndsInv
<1>4. CASE Activation(c) \/ Issuing(c) \/ Neutral(c)
  BY <1>3, <1>4, QuietForms
<1>5. CASE Withdrawal(c)
  BY <1>3, <1>5, SaidOne, EventParts DEF Withdrawal
<1>6. CASE PlainStart(c) \/ Claim(c)
  <2>1. PICK F, o, n, g, p : Begins(F, c.at, o, n, g, p)
    BY <1>6, BeginsSomething
  <2> QED
    BY <1>3, <2>1 DEF Begins
<1> QED
  BY <1>2, <1>4, <1>5, <1>6, Forms

-----------------------------------------------------------------------------
(* A step preserves what is said of the directory.                         *)

\* The commit that is tried has the authority a recovery will look for.
LEMMA TriedWithAuthority ==
    ASSUME IInv, NEW c, Tries(c)
    PROVE  \/ log = <<>> \/ c.txn \in HistoricalTxns
           \/ \E g \in 1..LastGen(All) : Selects(All, c.at, g)
<1> USE DEF IInv
<1>1. AuthorityForAppend(All, c.txn, c.events, c.at, c.gen) /\ c.at \in Nat
  BY DEF Tries, Appendable, All, Commits
<1>2. CASE Pairs(All) = {}
  BY <1>2, GenesisFact
<1>3. CASE Selects(All, c.at, c.gen)
  <2>1. \E p \in Pairs(All) : p.gen = c.gen
    BY <1>1, <1>3, FactTimes, SelectedIsValid
  <2>2. c.gen \in 1..LastGen(All)
    BY <2>1 DEF PairsInv
  <2> QED
    BY <1>3, <2>2
<1> QED
  BY <1>1, <1>2, <1>3 DEF AuthorityForAppend, Genesis

LEMMA DiskTryStep ==
    ASSUME IInv, NEW c, Tries(c)
    PROVE  DiskInv'
<1> USE DEF IInv
<1>1. /\ mutex = None /\ Len(log) = head /\ head \in Nat /\ log \in Seq(Commits) /\ c \in Commits
      /\ c.txn # "recovery.publish"
  BY ShapeTxn DEF Tries, Clean, TypeOK
<1> DEFINE L == Append(log, c)
<1>2. L \in Seq(Commits) /\ Len(L) = head + 1 /\ L[Len(L)] = c
  BY <1>1
<1> HIDE DEF L
<1>3. CASE Completes(c)
  <2>1. log' = L /\ head' = head + 1 /\ mutex' = None
    BY <1>1, <1>3 DEF Completes, L
  <2> QED
    BY <1>1, <1>2, <2>1 DEF DiskInv
<1>4. ASSUME NEW stage \in CutStages, NEW killed \in BOOLEAN, Cut(c, stage, killed)
      PROVE  DiskInv'
  <2>1. mutex' = None \/ (mutex'.seq = head + 1 /\ mutex'.at = c.at /\ mutex'.txn = c.txn)
    <3>1. mutex' = None \/ \E whole \in BOOLEAN : mutex' = [whole |-> whole, seq |-> head + 1, at |-> c.at, txn |-> c.txn]
      BY <1>4 DEF Cut
    <3> QED
      BY <3>1
  <2>2. CASE stage \in {"lock", "pending"}
    <3>1. log' = log /\ head' = head
      BY <1>4, <2>2 DEF Cut
    <3>2. mutex' # None => Attempted'
      BY <2>1, <3>1, TriedWithAuthority DEF Attempted, All
    <3> QED
      BY <1>1, <2>1, <3>1, <3>2 DEF DiskInv
  <2>3. CASE stage \notin {"lock", "pending"}
    <3>1. log' = L /\ head' \in {head, head + 1}
      BY <1>4, <2>3 DEF Cut, L
    <3> QED
      BY <1>1, <1>2, <2>1, <3>1 DEF DiskInv
  <2> QED
    BY <2>2, <2>3
<1> QED
  BY <1>3, <1>4 DEF Tries

LEMMA DiskStep ==
    ASSUME IInv, [Next]_vars
    PROVE  DiskInv'
<1> USE DEF IInv
<1>0. head \in Nat /\ Len(log) \in Nat /\ log \in Seq(Commits)
  BY DEF TypeOK
<1>1. CASE \E c : Tries(c)
  BY <1>1, DiskTryStep
<1>2. CASE RecoverInterruptedPublish
  <2>1. PICK c : log' = Append(log, c)
    BY <1>2 DEF RecoverInterruptedPublish
  <2>2. head' = Len(log') /\ mutex' = None
    BY <1>2 DEF RecoverInterruptedPublish
  <2>3. Len(log') \in Nat
    BY <1>0, <2>1
  <2> QED
    BY <2>2, <2>3 DEF DiskInv
<1>3. CASE DiscardPreGenesis
  BY <1>3 DEF DiscardPreGenesis, DiskInv
<1>4. CASE Rests
  BY <1>4 DEF Rests, DiskInv, Attempted, All
<1> QED
  BY <1>1, <1>2, <1>3, <1>4, StepKinds

LockOK(l) == l \in Leases \cup {None} /\ (l # None /\ l.whole => l.op \in Ops)

LEMMA LockKinds ==
    /\ LockOK(None)
    /\ \A l : LockOK(l) => LockOK(Orphaned(l))
    /\ \A l : LockOK(l) /\ l # None => LockOK([l EXCEPT !.alive = TRUE])
    /\ \A o \in Ops, n \in Nonces, t \in Nat : LockOK(Lease(o, n, t))
  BY DEF LockOK, Leases, Orphaned, Lease

LEMMA PublishLock ==
    ASSUME NEW t, NEW txn, NEW events, NEW held, NEW after, NEW caught,
           Publish(t, txn, events, held, after, caught),
           LockOK(held), LockOK(after), LockOK(caught)
    PROVE  LockOK(lock')
<1>1. lock' \in {held, after, caught, Orphaned(held)}
  BY DEF Publish, Published, CutShort
<1> QED
  BY <1>1, LockKinds

LEMMA LockStep ==
    ASSUME IInv, [Next]_vars
    PROVE  LockOK(lock')
<1> USE DEF IInv
<1>0. LockOK(lock) /\ LockOK(None) /\ clock \in Nat
  BY LockKinds DEF TypeOK, LockOK
<1>1. ASSUME NEW txn, NEW events, Ordinary(txn, events)
      PROVE  LockOK(lock')
  BY <1>0, <1>1, PublishLock DEF Ordinary
<1>2. ASSUME NEW o \in Ops, NEW n \in Nonces, NEW g, NEW p, BeginOperation(o, n, g, p)
      PROVE  LockOK(lock')
  <2>1. LockOK(Lease(o, n, clock))
    BY <1>0, LockKinds
  <2> QED
    BY <1>0, <1>2, <2>1, PublishLock DEF BeginOperation
<1>3. ASSUME NEW o \in Ops, NEW n \in Nonces, DieInBegin(o, n)
      PROVE  LockOK(lock')
  BY <1>0, <1>3 DEF DieInBegin, LockOK, Leases
<1>4. ASSUME NEW o, FinishNoEffect(o) \/ MarkRecoveryRequired(o)
      PROVE  LockOK(lock')
  BY <1>0, <1>4, PublishLock DEF FinishNoEffect, MarkRecoveryRequired
<1>5. CASE Die
  BY <1>0, <1>5, LockKinds DEF Die
<1>6. CASE DiscardUnregisteredLock \/ ReconcileTerminalLock
  <2>1. PICK txn, action : LockAudit(txn, action)
    BY <1>6 DEF DiscardUnregisteredLock, ReconcileTerminalLock
  <2>2. CASE lock' = None
    BY <1>0, <2>2
  <2>3. CASE Publish(clock, txn, <<Recovered(action, 0, lock.op)>>, lock, None, lock)
    BY <1>0, <2>3, PublishLock
  <2> QED
    BY <2>1, <2>2, <2>3 DEF LockAudit
<1>7. ASSUME NEW o, RecoverNoEffectAfterCrash(o)
      PROVE  LockOK(lock')
  <2>1. lock # None
    BY <1>7 DEF RecoverNoEffectAfterCrash, Orphan
  <2>2. LockOK(TakeOver)
    BY <1>0, <2>1, LockKinds DEF TakeOver
  <2>3. lock' \in {lock, None, TakeOver}
    BY <1>7 DEF RecoverNoEffectAfterCrash
  <2> QED
    BY <1>0, <2>2, <2>3
<1>8. CASE UNCHANGED lock
  BY <1>0, <1>8
<1> QED
  BY <1>1, <1>2, <1>3, <1>4, <1>5, <1>6, <1>7, <1>8
     DEF Next, Registry, PermitSteps, OperationSteps, RecoverySteps, ActivateGenerationPair,
         RevokeGenerationPair, RegisterFixedRecord, RevokeFixedRecord, IssuePermit,
         AppendPermitTransition, Tick, RecoverInterruptedPublish, DiscardPreGenesis, vars

LEMMA TypeTryStep ==
    ASSUME TypeOK, NEW c, Tries(c)
    PROVE  head' \in Nat /\ pending' \in Nat /\ mutex' \in Mutexes \cup {None}
<1>1. c \in Commits /\ head \in Nat /\ pending \in Nat /\ mutex \in Mutexes \cup {None}
  BY DEF TypeOK, Tries
<1>2. c.at \in Nat /\ c.txn \in Txns
  BY <1>1 DEF Commits
<1>3. CASE Completes(c)
  BY <1>1, <1>3 DEF Completes
<1>4. ASSUME NEW stage \in CutStages, NEW killed \in BOOLEAN, Cut(c, stage, killed)
      PROVE  head' \in Nat /\ pending' \in Nat /\ mutex' \in Mutexes \cup {None}
  <2>1. head' \in {head, head + 1} /\ pending' \in {0, c.at}
    BY <1>4 DEF Cut
  <2>2. mutex' = None \/ \E whole \in BOOLEAN : mutex' = [whole |-> whole, seq |-> head + 1, at |-> c.at, txn |-> c.txn]
    BY <1>4 DEF Cut
  <2> QED
    BY <1>1, <1>2, <2>1, <2>2 DEF Mutexes
<1> QED
  BY <1>3, <1>4 DEF Tries

LEMMA TypeStep ==
    ASSUME IInv, [Next]_vars
    PROVE  TypeOK'
<1> USE DEF IInv
<1>1. clock' \in Nat /\ log' \in Seq(Commits)
  <2>1. clock \in Nat /\ log \in Seq(Commits)
    BY DEF TypeOK
  <2>2. ASSUME NEW c, Extends(c) PROVE log' \in Seq(Commits)
    BY <2>1, <2>2 DEF Extends
  <2> QED
    BY <2>1, <2>2, Growth
<1>2. head' \in Nat /\ pending' \in Nat /\ mutex' \in Mutexes \cup {None}
  <2>1. CASE \E c : Tries(c)
    BY <2>1, TypeTryStep
  <2>2. CASE RecoverInterruptedPublish
    BY <1>1, <2>2 DEF RecoverInterruptedPublish
  <2>3. CASE DiscardPreGenesis
    BY <2>3 DEF DiscardPreGenesis, TypeOK
  <2>4. CASE Rests
    BY <2>4 DEF Rests, TypeOK
  <2> QED
    BY <2>1, <2>2, <2>3, <2>4, StepKinds
<1>3. LockOK(lock')
  BY LockStep
<1> QED
  BY <1>1, <1>2, <1>3 DEF TypeOK, LockOK

-----------------------------------------------------------------------------
(* The invariant holds.                                                    *)

LEMMA Initially ==
    ASSUME Init
    PROVE  IInv
<1>1. clock = 1 /\ log = <<>> /\ head = 0 /\ pending = 0 /\ mutex = None /\ lock = None
  BY DEF Init
<1>2. All = {}
  <2>1. log \in Seq(Commits)
    BY <1>1
  <2> QED
    BY <1>1, <2>1, PrefixFacts DEF All
<1>3. \A k : Said(All, k) = {}
  BY <1>2 DEF Said
<1>4. Operations(All) = {} /\ Issuances(All) = {} /\ \A p : Steps(p) = {}
  BY <1>3 DEF Operations, Issuances, Steps, Transitions
<1>5. TypeOK
  BY <1>1 DEF TypeOK
<1>6. TimesInv /\ GenesisInv /\ Reopens /\ RevokedIsSilent
  BY <1>1 DEF TimesInv, GenesisInv, Reopens, Replays, RevokedIsSilent
<1>7. PairsInv
  BY <1>1, <1>2, <1>3, FS_EmptySet, NothingSaid DEF PairsInv
<1>a. RevokedInv
  BY <1>3 DEF RevokedInv
<1>8. DiskInv
  BY <1>1 DEF DiskInv
<1>9. StartsInv /\ NonceOnce /\ PermitInv /\ EndsInv
  BY <1>3, <1>4 DEF StartsInv, NonceOnce, PermitInv, EndsInv
<1> QED
  BY <1>5, <1>6, <1>7, <1>8, <1>9, <1>a DEF IInv

LEMMA LogStep ==
    ASSUME IInv, TypeOK', DiskInv', clock <= clock', log' = log \/ \E c : Extends(c)
    PROVE  IInv'
<1>1. TypeOK' /\ DiskInv'
  OBVIOUS
<1>2. CASE log' = log
  <2>1. TypeOK /\ clock' \in Nat /\ clock <= clock'
    BY DEF IInv, TypeOK
  <2>2. TimesInv'
    <3>1. clock \in Nat /\ \A n \in DOMAIN log : log[n].at \in 1..clock
      BY <2>1 DEF IInv, TimesInv, TypeOK
    <3>2. \A n \in DOMAIN log : log[n].at \in 1..clock'
      BY <2>1, <3>1
    <3>3. \A m, n \in DOMAIN log : m < n => log[m].at < log[n].at
      BY DEF IInv, TimesInv
    <3> QED
      BY <1>2, <3>2, <3>3 DEF TimesInv
  <2>3. All' = All
    BY <1>2 DEF All
  <2>4. GenesisInv' /\ Reopens' /\ RevokedIsSilent' /\ PairsInv' /\ RevokedInv'
    BY <1>2, <2>3 DEF IInv, GenesisInv, Reopens, RevokedIsSilent, Superseded, PairsInv, RevokedInv
  <2>5. StartsInv' /\ NonceOnce' /\ PermitInv' /\ EndsInv'
    BY <2>3 DEF IInv, StartsInv, NonceOnce, PermitInv, EndsInv, EndedAs, Steps
  <2> QED
    BY <1>1, <2>2, <2>4, <2>5 DEF IInv
<1>3. ASSUME NEW c, Extends(c)
      PROVE  IInv'
  <2>1. TimesInv' /\ GenesisInv' /\ PairsInv' /\ RevokedInv' /\ Reopens' /\ RevokedIsSilent'
    BY <1>3, TimesStep, GenesisStep, PairsStep, RevokedStep, ReopensStep, SilenceStep DEF IInv
  <2>2. StartsInv' /\ NonceOnce' /\ PermitInv' /\ EndsInv'
    BY <1>3, StartsStep, NonceStep, PermitStep, EndsStep DEF IInv
  <2> QED
    BY <1>1, <2>1, <2>2 DEF IInv
<1> QED
  BY <1>2, <1>3

LEMMA Inductive ==
    ASSUME IInv, [Next]_vars
    PROVE  IInv'
  BY TypeStep, DiskStep, Growth, LogStep

LEMMA AlwaysIInv == Spec => []IInv
  BY Initially, Inductive, PTL DEF Spec

\* Whatever was linked is accepted when the store is read again (_refresh,
\* replayCommits): the append, with the rules of its own, and the publish
\* recovery write nothing that a replay would refuse.
THEOREM LogReopens == Spec => []Reopens
  BY AlwaysIInv, PTL DEF IInv

\* Once a generation is revoked or replaced, only the cleanup of what was begun
\* under it is still written in its name.
THEOREM SilentGenerations == Spec => []RevokedIsSilent
  BY AlwaysIInv, PTL DEF IInv

\* The clock, the log, HEAD.json, pending/ and both locks hold what the code
\* writes there.
THEOREM LedgerTypes == Spec => []TypeOK
  BY AlwaysIInv, PTL DEF IInv

-----------------------------------------------------------------------------
(* Permits.                                                                *)

LEMMA PermitsFollow ==
    ASSUME IInv
    PROVE  PermitsServeOnce
<1> USE DEF IInv
<1> SUFFICES ASSUME NEW r \in Issuances(All)
             PROVE  LET claims == { o \in Operations(All) : o.permit = r.permit }
                        state == PermitState(All, r.permit) IN
                    /\ state \in {"ready", "revoked"} <=> claims = {}
                    /\ state = "in_progress" <=> \E o \in claims : o \in InProgress(All)
                    /\ state = "recovery_required" <=> \E o \in claims : EndedAs(o, "ambiguous")
                    /\ \A o \in claims : ~EndedAs(o, "noEffect")
  BY DEF PermitsServeOnce, PermitFollowsOperation
<1> DEFINE p == r.permit   claims == { o \in Operations(All) : o.permit = p }   state == PermitState(All, p)
<1>1. p \in Permits /\ p # None
  <2>1. PICK f \in Said(All, "issued") : r = f.says
    BY IssuanceOf
  <2>2. f.says \in Event /\ f.says.kind = "issued"
    BY <2>1, FactType DEF Said, TypeOK, All
  <2> QED
    BY <2>1, <2>2, EventKinds, LedgerAssumption
<1>2. \A o \in claims : /\ ~EndedAs(o, "noEffect") /\ "claim" \in Steps(p)
                        /\ EndedAs(o, "ambiguous") <=> "ambiguous" \in Steps(p)
  BY <1>1 DEF PermitInv
<1>3. /\ "claim" \in Steps(p) => claims # {}
      /\ "withdraw" \in Steps(p) => "claim" \notin Steps(p)
      /\ "ambiguous" \in Steps(p) => "claim" \in Steps(p)
  BY <1>1 DEF PermitInv
<1>4. \A o \in claims : o \in InProgress(All) <=> ~EndedAs(o, "noEffect") /\ ~EndedAs(o, "ambiguous")
  BY DEF InProgress, Ended, EndedAs, Said
<1>5. /\ state = "ready" <=> Steps(p) \cap {"claim", "withdraw", "ambiguous"} = {}
      /\ state = "in_progress" <=> "claim" \in Steps(p) /\ Steps(p) \cap {"withdraw", "ambiguous"} = {}
      /\ state = "revoked" <=> "withdraw" \in Steps(p)
      /\ state = "recovery_required" <=> "ambiguous" \in Steps(p) /\ "withdraw" \notin Steps(p)
  BY StateSteps
<1> HIDE DEF p, claims, state
<1>6. /\ state \in {"ready", "revoked"} <=> claims = {}
      /\ state = "in_progress" <=> \E o \in claims : o \in InProgress(All)
      /\ state = "recovery_required" <=> \E o \in claims : EndedAs(o, "ambiguous")
      /\ \A o \in claims : ~EndedAs(o, "noEffect")
  BY <1>2, <1>3, <1>4, <1>5
<1> QED
  BY <1>6 DEF p, claims, state

\* A nonce serves one permit and one operation, and the state of a permit is
\* that of the operation that claimed it, in whatever prefix a crash leaves.
THEOREM PermitsOnce == Spec => []PermitsServeOnce
  BY AlwaysIInv, PermitsFollow, PTL

-----------------------------------------------------------------------------
(* Cleanup.                                                                *)

LEMMA OrphansRecover ==
    ASSUME IInv
    PROVE  OrphanRecoverable
<1> USE DEF IInv
<1> SUFFICES ASSUME NEW o \in InProgress(Now), o.permit = None, OtherReasons = {}
             PROVE  /\ WasValid(Now, o.started, o.gen)
                    /\ Appendable(log, "recovery.operation-no-effect", <<NoEffect(o.op)>>, clock + 1, o.gen)
  BY DEF OrphanRecoverable
<1> DEFINE txn == "recovery.operation-no-effect"   events == <<NoEffect(o.op)>>
<1>1. pending = 0 /\ mutex = None /\ Len(log) = head
  <2>1. Len(log) \in Nat /\ head \in Nat /\ head <= Len(log)
    BY DEF TypeOK, DiskInv
  <2>2. pending = 0 /\ mutex = None /\ ~(Len(log) > head)
    BY NoOtherReasons
  <2> QED
    BY <2>1, <2>2
<1>2. Now = All
  BY <1>1, NowIsAll
<1>3. o \in Operations(All) /\ ~Ended(All, o)
  BY <1>2 DEF InProgress
<1>4. WasValid(All, o.started, o.gen) /\ o.started \in Nat /\ o.started <= clock /\ clock \in Nat
  <2> DEFINE f == [at |-> o.started, says |-> Started(o.op, o.nonce, o.gen, o.permit)]
  <2>1. f \in All /\ f.at = o.started
    BY <1>3, OperationType
  <2>2. WasValid(All, o.started, o.gen)
    BY <1>3 DEF StartsInv
  <2>3. clock \in Nat
    BY DEF TypeOK
  <2> HIDE DEF f
  <2> QED
    BY <2>1, <2>2, <2>3, FactTimes
<1>5. LastAt(log) < clock + 1
  BY <1>4, FactTimes
<1>6. Pairs(All) # {}
  BY <1>4 DEF WasValid
<1>7. DOMAIN events = {1} /\ events[1].op = o.op /\ events[1].kind = "noEffect" /\ Len(events) = 1
  BY EventParts
<1>8. AuthorityForAppend(All, txn, events, clock + 1, o.gen)
  <2> HIDE DEF events
  <2> QED
    BY <1>3, <1>4, <1>6, <1>7 DEF AuthorityForAppend, HistoricalTxns, HistoricalAuthority
<1>9. TerminalTransaction(All, txn, events)
  <2> HIDE DEF events
  <2> QED
    BY <1>3, <1>7 DEF TerminalTransaction, NoEffectTxns, InProgress
<1>10. EventsApply(All, events, clock + 1)
  <2>1. EndApplies(All, events[1], clock + 1)
    <3> HIDE DEF events
    <3> QED
      BY <1>3, <1>4, <1>7 DEF EndApplies, InProgress
  <2>2. ApplyEvent(All, events[1], clock + 1)
    <3> HIDE DEF events
    <3> QED
      BY <1>7, <2>1 DEF ApplyEvent
  <2> DEFINE sofar(j) == { [at |-> clock + 1, says |-> events[i]] : i \in 1..(j - 1) }
  <2>3. All \cup sofar(1) = All
    OBVIOUS
  <2>4. \A j \in DOMAIN events : ApplyEvent(All \cup sofar(j), events[j], clock + 1)
    <3> HIDE DEF events, sofar
    <3> QED
      BY <1>7, <2>2, <2>3
  <2> QED
    BY <2>4 DEF EventsApply
<1> HIDE DEF events
<1>11. Appendable(log, txn, events, clock + 1, o.gen)
  BY <1>5, <1>8, <1>9, <1>10 DEF Appendable, All
<1> QED
  BY <1>2, <1>4, <1>11 DEF events

\* No prefix but the empty one is without a pair.
LEMMA PrefixHasPair ==
    ASSUME TypeOK, GenesisInv, NEW n \in DOMAIN log, n # 1
    PROVE  Pairs(Facts(SubSeq(log, 1, n - 1))) # {}
<1>1. n - 1 \in 0..Len(log) /\ 1 \in 1..(n - 1) /\ log # <<>> /\ log[1] \in Commits
  BY DEF TypeOK
<1> DEFINE F == Facts(SubSeq(log, 1, n - 1))   f == [at |-> log[1].at, says |-> log[1].events[1]]
<1>2. f \in Says(log[1])
  BY <1>1 DEF Says, GenesisInv, Commits
<1>3. f \in F
  BY <1>1, <1>2, FactsPrefix DEF TypeOK
<1>4. f.says.kind = "activated"
  BY <1>1 DEF GenesisInv
<1> HIDE DEF F, f
<1>5. [gen |-> f.says.gen, activated |-> f.at, expires |-> f.says.expires] \in Pairs(F)
  BY <1>3, <1>4, PairsMember
<1> QED
  BY <1>5 DEF F

LEMMA PublishesRecover ==
    ASSUME IInv
    PROVE  OrdinaryPublishRecoverable
<1> USE DEF IInv
<1> SUFFICES ASSUME mutex # None /\ mutex.whole => mutex.txn \notin HistoricalTxns,
                    Len(log) > head => log[head + 1].txn \notin HistoricalTxns,
                    log # <<>>
             PROVE  \E g \in 1..LastGen(All) : PublishAuthority(g)
  BY DEF OrdinaryPublishRecoverable
<1>1. Len(log) \in Nat \ {0} /\ head \in Nat /\ head <= Len(log) /\ Len(log) <= head + 1
  BY DEF TypeOK, DiskInv
<1>2. RecoveredSeq \in Nat /\ (RecoveredSeq # 0 => RecoveredSeq = Len(log))
  BY <1>1 DEF RecoveredSeq
<1>3. RecoveredSeq = 0 => Len(log) = head /\ (mutex # None /\ mutex.whole => mutex.seq # head)
  BY <1>1 DEF RecoveredSeq
<1>4. CASE RecoveredSeq = 1
  <2>1. 1 \in 1..LastGen(All)
    BY GenesisFact DEF PairsInv
  <2> QED
    BY <1>4, <2>1 DEF PublishAuthority
<1>5. CASE RecoveredSeq # 0 /\ RecoveredSeq # 1
  <2> DEFINE n == RecoveredSeq   g == log[n].gen   F == Facts(SubSeq(log, 1, n - 1))
  <2>1. n \in DOMAIN log /\ n # 1
    BY <1>1, <1>2, <1>5 DEF TypeOK
  <2>2. log[n].txn \notin HistoricalTxns \cup {"recovery.publish"}
    <3>1. CASE Len(log) > head
      <4>1. n = head + 1 /\ n = Len(log)
        BY <1>1, <1>2, <1>5, <3>1 DEF RecoveredSeq
      <4> QED
        BY <3>1, <4>1 DEF DiskInv
    <3>2. CASE ~(Len(log) > head)
      <4>1. mutex # None /\ mutex.whole /\ mutex.seq = head /\ n = head /\ n = Len(log)
        BY <1>2, <1>5, <3>2 DEF RecoveredSeq
      <4>2. log[Len(log)].txn = mutex.txn /\ mutex.txn # "recovery.publish"
        BY <1>1, <4>1 DEF DiskInv
      <4> QED
        BY <4>1, <4>2
    <3> QED
      BY <3>1, <3>2
  <2>3. AuthorityForCommit(SubSeq(log, 1, n - 1), log[n])
    BY <2>1 DEF Reopens, Replays
  <2>4. Pairs(F) # {}
    BY <2>1, PrefixHasPair
  <2>5. Selects(F, log[n].at, g)
    BY <2>2, <2>3, <2>4 DEF AuthorityForCommit, Genesis
  <2>6. g \in 1..LastGen(All)
    BY <2>1, <2>5, SelectedOnRecord DEF PairsInv
  <2> QED
    BY <1>5, <2>5, <2>6 DEF PublishAuthority
<1>6. CASE RecoveredSeq = 0 /\ mutex # None /\ mutex.whole
  <2>1. Attempted
    BY <1>3, <1>6 DEF DiskInv
  <2>2. PICK g \in 1..LastGen(All) : Selects(All, mutex.at, g)
    BY <1>6, <2>1 DEF Attempted
  <2> QED
    BY <1>3, <1>6, <2>2, NowIsAll DEF PublishAuthority
<1>7. CASE RecoveredSeq = 0 /\ ~(mutex # None /\ mutex.whole)
  <2>1. PICK p \in Pairs(All) : p.gen = LastGen(All)
    BY DEF PairsInv
  <2>2. p.gen \in 1..LastGen(All) /\ p.activated < p.expires
    BY <2>1 DEF PairsInv
  <2>3. p.activated \in Nat
    BY FactTimes, PairsMember
  <2>4. ~PairRevokedBy(All, p.gen, p.activated - 1)
    <3> SUFFICES ASSUME NEW f \in Said(All, "pairRevoked"), f.says.gen = p.gen, f.at <= p.activated - 1
                 PROVE  FALSE
      BY DEF PairRevokedBy
    <3>1. p.activated <= f.at /\ f.at \in Nat
      BY FactTimes DEF RevokedInv, Said
    <3> QED
      BY <2>3, <3>1
  <2>5. WasValid(All, p.activated, p.gen)
    BY <2>2, <2>3, <2>4 DEF WasValid
  <2> QED
    BY <1>3, <1>7, <2>1, <2>2, <2>5, NowIsAll DEF PublishAuthority
<1> QED
  BY <1>2, <1>4, <1>5, <1>6, <1>7

\* What a crash leaves can be cleaned up, by the authority of its own time: an
\* unpermitted operation whose owner died can be ended without effect, and an
\* interrupted publish of an ordinary commit can be recovered.
THEOREM AlwaysCleanable == Spec => []CleanupPossible
<1>1. IInv => CleanupPossible
  BY OrphansRecover, PublishesRecover DEF CleanupPossible
<1> QED
  BY <1>1, AlwaysIInv, PTL

-----------------------------------------------------------------------------
(* The broker and the launcher.  Sessions: who has called, and who waits.  *)

Outcomes == {"persisted", "rejected", "absent", "closed", "ambiguous"}
Answers == [call : Calls, txn : Txns, events : Seq(Event), at : Nat, says : Outcomes]

BeforeBegin == {"idle", "authenticating", "rostering", "locking", "refused"}
BeforeEnd == BeforeBegin \cup {"beginning", "failed", "probing", "delivering", "releasing", "verifying", "unlocking"}
Failing == {"unlocking", "marking", "recoveryRequired", "ambiguous"}
PastBegin == {"probing", "delivering", "releasing", "verifying", "finishing", "closing", "noEffect"} \cup Failing
RunPlaces == BeforeEnd \cup PastBegin
SidePlaces == {"idle", "authenticating", "appending", "done"}

RunStates ==
  [at : RunPlaces, op : Ops \cup {None}, nonce : Nonces \cup {None}, permit : Permits \cup {None}, given : Nat]
SideStates == [at : SidePlaces, does : Seq(Event), time : Nat]

\* What a side call appends.
SideForm(txn, events) ==
  \/ /\ txn \in {"generation-pair.revocation", "registry.bundle_seal", "registry.revocation"}
     /\ \E e \in Event : e.kind \in Plain /\ events = <<e>>
  \/ txn = "permit.issuance" /\ \E e \in Event : e.kind = "issued" /\ events = <<e>>
  \/ txn = "permit.transition" /\ \E p \in Permits : events = <<Transition(p, "withdraw", None)>>

SessionTypes ==
  /\ broker \in [open : BOOLEAN, alive : BOOLEAN, gen : Nat]
  /\ queue \in Seq(Requests) /\ flight \in Flights \cup {None} /\ answers \subseteq Answers
  /\ run \in [Runs -> RunStates] /\ side \in [Sides -> SideStates] /\ hold \in BOOLEAN
  /\ \A r \in Runs :
       /\ run[r].at \notin {"idle", "authenticating", "refused"} => run[r].op \in Ops /\ run[r].nonce \in Nonces
       /\ run[r].given > 0 \/ run[r].at = "delivering" => run[r].permit \in Permits
  /\ \A c \in Sides : side[c].at = "authenticating" => SideForm(TxnOf(side[c].does), side[c].does)

Outstanding == { queue[i] : i \in DOMAIN queue } \cup (IF flight = None THEN {} ELSE {flight.req})

\* What a request asks for, by its call.
Asks(q) ==
  \/ \E r \in Runs :
       \/ /\ q.call = BeginCall(r) /\ q.txn = "operation.begin"
          /\ q.events = BeginEvents(run[r].op, run[r].nonce, broker.gen, run[r].permit)
       \/ q.call = EndCall(r) /\ q.txn = "operation.no-effect" /\ q.events = <<NoEffect(run[r].op)>>
       \/ q.call \in {EndCall(r), MarkCall(r)} /\ q.txn = "operation.recovery-required" /\ q.events = MarkEvents(r)
  \/ \E c \in Sides : q.call = <<c, "side">> /\ SideForm(q.txn, q.events)

\* Where its caller waits.
Awaits(q) ==
  /\ \A r \in Runs :
       /\ q.call = BeginCall(r) => run[r].at = "beginning"
       /\ q.call = EndCall(r) => run[r].at = IF q.txn = "operation.no-effect" THEN "finishing" ELSE "closing"
       /\ q.call = MarkCall(r) => run[r].at = "marking"
  /\ \A c \in Sides : q.call = <<c, "side">> => side[c].at = "appending"

Unsent(call) == (\A q \in Outstanding : q.call # call) /\ ~Answered(call)

\* Every call is sent once, and answered once.
CallsApart ==
  /\ \A i, j \in DOMAIN queue : queue[i].call = queue[j].call => i = j
  /\ flight # None => \A i \in DOMAIN queue : queue[i].call # flight.req.call
  /\ \A a \in answers : \A q \in Outstanding : q.call # a.call
  /\ \A a, b \in answers : a.call = b.call => a = b

CallsAsk ==
  /\ \A q \in Outstanding : Asks(q) /\ Awaits(q)
  /\ \A a \in answers :
       /\ Asks(a)
       /\ \A r \in Runs : a.call = EndCall(r) /\ run[r].at \in {"finishing", "closing"} =>
            a.txn = IF run[r].at = "finishing" THEN "operation.no-effect" ELSE "operation.recovery-required"

CallsUnsent ==
  /\ \A r \in Runs :
       /\ run[r].at \in BeforeBegin => Unsent(BeginCall(r))
       /\ run[r].at \in BeforeEnd => Unsent(EndCall(r))
       /\ run[r].at \notin {"marking", "recoveryRequired", "ambiguous"} => Unsent(MarkCall(r))
  /\ \A c \in Sides : side[c].at \in {"idle", "authenticating"} => Unsent(<<c, "side">>)

\* What a run has been told.
RunInv ==
  \A r \in Runs :
    /\ run[r].at \in PastBegin => Told(BeginCall(r), "persisted")
    /\ run[r].at = "noEffect" =>
         \E a \in answers : a.call = EndCall(r) /\ a.says = "persisted" /\ a.txn = "operation.no-effect"
    /\ run[r].at = "recoveryRequired" =>
         \E a \in answers : a.call \in {EndCall(r), MarkCall(r)} /\ a.says = "persisted" /\ a.txn = "operation.recovery-required"
    /\ run[r].given > 0 => run[r].at \in PastBegin
    /\ run[r].at \in Failing => hold

HoldInv == hold => \E r \in Runs : run[r].at \in Failing

\* What the requests have written since the session began at commit k.
WrittenBy(a, n) == a.says \notin {"absent", "closed"} /\ Wrote(a, n)
Settled(k, L) == \A n \in DOMAIN log : k < n /\ n <= L => \E a \in answers : WrittenBy(a, n)
Untouched == head = flight.prior.seq /\ ("unanchored_commit" \in flight.prior.reasons <=> Len(log) > head)
Touched ==
  /\ Len(log) = flight.prior.seq + 1 /\ Wrote(flight.req, Len(log))
  /\ "unanchored_commit" \notin flight.prior.reasons

SinceInv(k) ==
  /\ k < clock /\ k <= Len(log) /\ \A n \in DOMAIN log : n <= k => log[n].at <= k
  /\ \A q \in Outstanding : k < q.at /\ q.at <= clock
  /\ \A a \in answers : k < a.at
  /\ \A c \in Sides : side[c].at = "authenticating" /\ side[c].does[1].kind = "transition" =>
       k < side[c].time /\ side[c].time <= clock

WritesInv(k) ==
  /\ flight = None => Settled(k, Len(log))
  /\ flight # None => (Untouched /\ Settled(k, Len(log))) \/ (Touched /\ Settled(k, Len(log) - 1))
  /\ flight # None /\ flight.reply = None /\ broker.alive => Untouched
  /\ flight # None /\ flight.reply = "persisted" => Touched /\ head = Len(log)

AnswersInv ==
  /\ \A a \in answers : a.says = "persisted" => \E n \in 1..head : Wrote(a, n)
  /\ (\E a \in answers : a.says \in {"absent", "closed"}) => ~broker.open /\ flight = None

\* A begun operation has the store to itself, until it is ended without effect.
Done(call) == Told(call, "persisted") \/ (flight # None /\ flight.req.call = call /\ flight.reply = "persisted")
EndedClean(r) == Done(EndCall(r)) /\ run[r].at \in {"finishing", "noEffect"}
Guarded(r) == ~broker.alive \/ Reasons # {} \/ (lock # None /\ lock.alive /\ lock.op = run[r].op)

GuardInv ==
  /\ lock # None => lock.whole
  /\ \A r \in Runs : Done(BeginCall(r)) =>
       /\ \E o \in Operations(All) : o.op = run[r].op
       /\ Guarded(r) \/ EndedClean(r)
       /\ EndedClean(r) => (lock # None => lock.op # run[r].op)
  /\ \A r, s \in Runs : Done(BeginCall(r)) /\ Done(BeginCall(s)) /\ run[r].op = run[s].op => r = s

SessionInv ==
  /\ IInv /\ SessionTypes /\ CallsApart /\ CallsAsk /\ CallsUnsent /\ RunInv /\ HoldInv
  /\ \E k \in Nat : SinceInv(k) /\ WritesInv(k)
  /\ AnswersInv /\ GuardInv

-----------------------------------------------------------------------------
(* The kinds of step a run and a side call make.                           *)

Posts(call, txn, events, t) ==
  queue' = Append(queue, Request(call, txn, events, t)) /\ UNCHANGED <<flight, answers, broker>>

Same(r) ==
  /\ run'[r].op = run[r].op /\ run'[r].nonce = run[r].nonce
  /\ run'[r].permit = run[r].permit /\ run'[r].given = run[r].given

Moves(r, from, to) ==
  /\ run[r].at \in from /\ run'[r].at \in to
  /\ run' \in [Runs -> RunStates] /\ \A s \in Runs : s # r => run'[s] = run[s]

Prepares(r) ==
  /\ Moves(r, BeforeBegin, BeforeBegin) /\ Quiet
  /\ run'[r].at \in {"rostering", "locking"} => run'[r].op \in Ops /\ run'[r].nonce \in Nonces
  /\ run'[r].given \in {0, run[r].given}
  /\ run'[r].permit = run[r].permit \/ run'[r].given = 0

SendsBegin(r) ==
  /\ Moves(r, {"locking"}, {"beginning"}) /\ Same(r)
  /\ Posts(BeginCall(r), "operation.begin", BeginEvents(run[r].op, run[r].nonce, broker.gen, run[r].permit), clock)

HearsBegin(r) ==
  /\ Moves(r, {"beginning"}, {"probing", "delivering", "unlocking", "failed"}) /\ Same(r) /\ Quiet
  /\ Answered(BeginCall(r))
  /\ run'[r].at # "failed" => Told(BeginCall(r), "persisted")
  /\ run'[r].at = "delivering" => run[r].permit \in Permits

Works(r) ==
  /\ Moves(r, {"probing", "delivering", "releasing"}, {"delivering", "releasing", "verifying", "unlocking"}) /\ Quiet
  /\ run'[r].op = run[r].op /\ run'[r].nonce = run[r].nonce /\ run'[r].permit = run[r].permit
  /\ run'[r].given # run[r].given \/ run'[r].at = "delivering" => run[r].at = "delivering"

SendsEnd(r) ==
  /\ Moves(r, {"releasing", "verifying"}, {"finishing", "closing"}) /\ Same(r)
  /\ \/ run'[r].at = "finishing" /\ Posts(EndCall(r), "operation.no-effect", <<NoEffect(run[r].op)>>, clock)
     \/ run'[r].at = "closing" /\ Posts(EndCall(r), "operation.recovery-required", MarkEvents(r), clock)

SendsMarkNow(r) ==
  /\ Moves(r, {"probing", "releasing", "verifying", "finishing", "unlocking", "closing"}, {"marking"}) /\ Same(r)
  /\ Posts(MarkCall(r), "operation.recovery-required", MarkEvents(r), clock)
  /\ run[r].at \in {"finishing", "closing"} => Answered(EndCall(r)) /\ ~Told(EndCall(r), "persisted")

Concludes(r) ==
  /\ Moves(r, {"finishing", "closing", "marking"}, {"noEffect", "recoveryRequired", "ambiguous"}) /\ Same(r) /\ Quiet
  /\ \/ run[r].at = "finishing" /\ run'[r].at = "noEffect" /\ Told(EndCall(r), "persisted")
     \/ run[r].at = "closing" /\ run'[r].at = "recoveryRequired" /\ Told(EndCall(r), "persisted")
     \/ run[r].at = "marking" /\ run'[r].at = "recoveryRequired" /\ Told(MarkCall(r), "persisted")
     \/ run[r].at = "marking" /\ run'[r].at = "ambiguous" /\ Answered(MarkCall(r))

RunKind(r) ==
  \/ Prepares(r) \/ SendsBegin(r) \/ HearsBegin(r) \/ Works(r) \/ SendsEnd(r) \/ SendsMarkNow(r) \/ Concludes(r)

ByRun(r) == UNCHANGED <<vars, side>> /\ hold' = (hold \/ run'[r].at \in Failing) /\ RunKind(r)

LEMMA Going ==
    ASSUME SessionTypes, NEW r \in Runs, NEW pc \in RunPlaces, Goes(r, pc)
    PROVE  Moves(r, {run[r].at}, {pc}) /\ Same(r)
<1>1. run \in [Runs -> RunStates]
  BY DEF SessionTypes
<1>2. run[r] \in RunStates
  BY <1>1
<1>3. run'[r] = [run[r] EXCEPT !.at = pc] /\ \A s \in Runs : s # r => run'[s] = run[s]
  BY <1>1 DEF Goes
<1>4. run'[r] \in RunStates /\ run'[r].at = pc /\ Same(r)
  BY <1>2, <1>3 DEF RunStates, Same
<1>5. run' \in [Runs -> RunStates]
  <2>1. [run[r] EXCEPT !.at = pc] \in RunStates
    BY <1>2 DEF RunStates
  <2> QED
    BY <1>1, <2>1 DEF Goes
<1> QED
  BY <1>3, <1>4, <1>5 DEF Moves

LEMMA NowTypes ==
    ASSUME IInv
    PROVE  /\ Now \subseteq All
           /\ \A f \in Said(Now, "sealed") : f.says.op \in Ops
           /\ \A i \in Issuances(Now) : i.nonce \in Nonces /\ i.permit \in Permits
<1>1. log \in Seq(Commits) /\ head \in 0..Len(log)
  BY DEF IInv, TypeOK, DiskInv
<1>2. Now \subseteq All
  BY <1>1, PrefixFacts DEF Now, Anchored, All
<1>3. \A f \in Now : f.says \in Event
  BY <1>1, <1>2, FactType DEF All
<1>4. \A f \in Said(Now, "sealed") : f.says.op \in Ops
  BY <1>3, EventKinds DEF Said
<1>5. \A f \in Said(Now, "issued") : f.says.nonce \in Nonces /\ f.says.permit \in Permits
  BY <1>3, EventKinds DEF Said
<1> QED
  BY <1>2, <1>4, <1>5 DEF Issuances

LEMMA RunKinds ==
    ASSUME IInv, SessionTypes, RunInv, NEW r \in Runs, RunStep(r) \/ CallDryRun(r) \/ CallAudit(r)
    PROVE  ByRun(r)
<1> USE DEF RunPlaces, BeforeEnd, BeforeBegin, PastBegin, Failing
<1>0. hold \in BOOLEAN /\ run \in [Runs -> RunStates] /\ run[r] \in RunStates
  BY DEF SessionTypes
<1>a. ASSUME NEW pc \in RunPlaces, Goes(r, pc)
      PROVE  run'[r].at = pc /\ Same(r) /\ \A to : pc \in to => \A from : run[r].at \in from => Moves(r, from, to)
  BY <1>a, Going DEF Moves
<1>b. run[r].at \in Failing => hold
  BY DEF RunInv
<1>1. CASE CallDryRun(r)
  <2>1. PICK pc \in {"authenticating", "refused"} : Goes(r, pc)
    BY <1>1 DEF CallDryRun
  <2>2. run'[r].at = pc /\ Same(r) /\ Moves(r, BeforeBegin, BeforeBegin)
    BY <1>1, <2>1, <1>a DEF CallDryRun
  <2> QED
    BY <1>0, <1>1, <2>2 DEF CallDryRun, ByRun, RunKind, Prepares, Same
<1>2. CASE Authenticated(r)
  <2>1. CASE Goes(r, "refused")
    <3>1. run'[r].at = "refused" /\ Same(r) /\ Moves(r, BeforeBegin, BeforeBegin)
      BY <1>2, <2>1, <1>a DEF Authenticated
    <3> QED
      BY <1>0, <1>2, <3>1 DEF Authenticated, ByRun, RunKind, Prepares, Same
  <2>2. ASSUME NEW id \in FreshIds,
               run' = [run EXCEPT ![r].at = "locking", ![r].op = id.op, ![r].nonce = id.nonce]
        PROVE  ByRun(r)
    <3>1. id.op \in Ops /\ id.nonce \in Nonces
      BY LauncherAssumption
    <3>2. run'[r] = [run[r] EXCEPT !.at = "locking", !.op = id.op, !.nonce = id.nonce]
          /\ \A s \in Runs : s # r => run'[s] = run[s]
      BY <1>0, <2>2
    <3>3. [run[r] EXCEPT !.at = "locking", !.op = id.op, !.nonce = id.nonce] \in RunStates
      BY <1>0, <3>1 DEF RunStates
    <3>4. run' \in [Runs -> RunStates]
      BY <1>0, <2>2, <3>3
    <3>5. /\ run'[r].at = "locking" /\ run'[r].op = id.op /\ run'[r].nonce = id.nonce
          /\ run'[r].permit = run[r].permit /\ run'[r].given = run[r].given
      BY <1>0, <3>2 DEF RunStates
    <3>6. Moves(r, BeforeBegin, BeforeBegin)
      BY <1>2, <3>2, <3>4, <3>5 DEF Moves, Authenticated
    <3> QED
      BY <1>0, <1>2, <3>1, <3>5, <3>6 DEF Authenticated, ByRun, RunKind, Prepares
  <2> QED
    BY <1>2, <2>1, <2>2 DEF Authenticated
<1>3. CASE Locked(r)
  <2>1. CASE Goes(r, "refused") /\ Quiet
    <3>1. run'[r].at = "refused" /\ Same(r) /\ Moves(r, BeforeBegin, BeforeBegin)
      BY <1>3, <2>1, <1>a DEF Locked
    <3> QED
      BY <1>0, <1>3, <2>1, <3>1 DEF Locked, ByRun, RunKind, Prepares, Same
  <2>2. CASE Goes(r, "beginning") /\ Begin(r)
    <3>1. run'[r].at = "beginning" /\ Same(r) /\ Moves(r, {"locking"}, {"beginning"})
      BY <1>3, <2>2, <1>a DEF Locked
    <3> QED
      BY <1>0, <1>3, <2>2, <3>1 DEF Locked, ByRun, RunKind, SendsBegin, Begin, Sends, Dispatches, Posts
  <2> QED
    BY <1>3, <2>1, <2>2 DEF Locked
<1>4. CASE Begun(r)
  <2>1. PICK pc \in {"probing", "delivering", "unlocking"} : Goes(r, pc) /\ hold' = (hold \/ pc = "unlocking")
    BY <1>0, <1>4 DEF Begun
  <2>2. run'[r].at = pc /\ Same(r) /\ Moves(r, {"beginning"}, {"probing", "delivering", "unlocking", "failed"})
    BY <1>4, <2>1, <1>a DEF Begun
  <2>3. pc = "delivering" => run[r].permit \in Permits
    <3>1. pc = "delivering" => AssertPermitAuthority(r)
      BY <1>4, <2>2, <1>a DEF Begun
    <3>2. AssertPermitAuthority(r) => \E i \in Issuances(Now) : i.permit = run[r].permit
      BY DEF AssertPermitAuthority
    <3> QED
      BY <3>1, <3>2, NowTypes
  <2> QED
    BY <1>4, <2>1, <2>2, <2>3 DEF Begun, ByRun, RunKind, HearsBegin, Told, Answered
<1>5. CASE BeginFailed(r)
  <2>1. run'[r].at = "failed" /\ Same(r) /\ Moves(r, {"beginning"}, {"probing", "delivering", "unlocking", "failed"})
    BY <1>5, <1>a DEF BeginFailed
  <2> QED
    BY <1>0, <1>5, <2>1 DEF BeginFailed, ByRun, RunKind, HearsBegin, Failed
<1>c. ASSUME FailsDry(r), UNCHANGED <<vars, side>>, run[r].at \in {"probing", "releasing", "verifying", "finishing"},
             run[r].at = "finishing" => Answered(EndCall(r)) /\ ~Told(EndCall(r), "persisted")
      PROVE  ByRun(r)
  <2>1. run'[r].at = "marking" /\ Same(r)
        /\ Moves(r, {"probing", "releasing", "verifying", "finishing", "unlocking", "closing"}, {"marking"})
    BY <1>c, <1>a DEF FailsDry
  <2> QED
    BY <1>c, <2>1 DEF FailsDry, SendsMark, Sends, Dispatches, Posts, ByRun, RunKind, SendsMarkNow
<1>d. ASSUME NEW pc \in {"delivering", "releasing", "verifying", "unlocking"}, Goes(r, pc), Quiet, UNCHANGED <<vars, side>>,
             run[r].at \in {"probing", "delivering", "releasing"}, hold' = (hold \/ pc = "unlocking"),
             pc = "delivering" => run[r].at = "delivering"
      PROVE  ByRun(r)
  <2>1. run'[r].at = pc /\ Same(r)
        /\ Moves(r, {"probing", "delivering", "releasing"}, {"delivering", "releasing", "verifying", "unlocking"})
    BY <1>d, <1>a
  <2> QED
    BY <1>d, <2>1 DEF ByRun, RunKind, Works, Same
<1>6. CASE Probed(r)
  BY <1>0, <1>6, <1>c, <1>d DEF Probed
<1>7. CASE Released(r)
  <2>1. CASE Goes(r, "verifying") /\ Quiet /\ UNCHANGED hold
    BY <1>0, <1>7, <2>1, <1>d DEF Released
  <2>2. CASE FailsDry(r)
    BY <1>7, <2>2, <1>c DEF Released
  <2>3. CASE Goes(r, "closing") /\ SendsMark(EndCall(r), r) /\ UNCHANGED hold
    <3>1. run'[r].at = "closing" /\ Same(r) /\ Moves(r, {"releasing", "verifying"}, {"finishing", "closing"})
      BY <1>7, <2>3, <1>a DEF Released
    <3> QED
      BY <1>0, <1>7, <2>3, <3>1 DEF Released, SendsMark, Sends, Dispatches, Posts, ByRun, RunKind, SendsEnd
  <2>4. CASE Goes(r, "marking") /\ hold' = TRUE /\ SendsMark(MarkCall(r), r)
    BY <1>7, <2>4, <1>c DEF Released, FailsDry
  <2> QED
    BY <1>7, <2>1, <2>2, <2>3, <2>4 DEF Released
<1>8. CASE Verified(r)
  <2>1. CASE Goes(r, "finishing") /\ Sends(EndCall(r), "operation.no-effect", <<NoEffect(run[r].op)>>) /\ UNCHANGED hold
    <3>1. run'[r].at = "finishing" /\ Same(r) /\ Moves(r, {"releasing", "verifying"}, {"finishing", "closing"})
      BY <1>8, <2>1, <1>a DEF Verified
    <3> QED
      BY <1>0, <1>8, <2>1, <3>1 DEF Verified, Sends, Dispatches, Posts, ByRun, RunKind, SendsEnd
  <2>2. CASE FailsDry(r)
    BY <1>8, <2>2, <1>c DEF Verified
  <2> QED
    BY <1>8, <2>1, <2>2 DEF Verified
<1>9. CASE Finished(r)
  <2>1. CASE Told(EndCall(r), "persisted")
    <3>1. run'[r].at = "noEffect" /\ Same(r)
          /\ Moves(r, {"finishing", "closing", "marking"}, {"noEffect", "recoveryRequired", "ambiguous"})
      BY <1>9, <2>1, <1>a DEF Finished
    <3> QED
      BY <1>0, <1>9, <2>1, <3>1 DEF Finished, ByRun, RunKind, Concludes
  <2>2. CASE ~Told(EndCall(r), "persisted")
    BY <1>9, <2>2, <1>c DEF Finished
  <2> QED
    BY <2>1, <2>2
<1>10. CASE Marked(r)
  <2>1. PICK pc \in {"recoveryRequired", "ambiguous"} : Goes(r, pc) /\ (pc = "recoveryRequired" => Told(MarkCall(r), "persisted"))
    BY <1>10 DEF Marked
  <2>2. run'[r].at = pc /\ Same(r)
        /\ Moves(r, {"finishing", "closing", "marking"}, {"noEffect", "recoveryRequired", "ambiguous"})
    BY <1>10, <2>1, <1>a DEF Marked
  <2> QED
    BY <1>0, <1>b, <1>10, <2>1, <2>2 DEF Marked, ByRun, RunKind, Concludes
<1>11. CASE Rostered(r)
  <2>1. PICK pc \in {"locking", "refused"} : Goes(r, pc)
    BY <1>11 DEF Rostered
  <2>2. run'[r].at = pc /\ Same(r) /\ Moves(r, BeforeBegin, BeforeBegin)
    BY <1>11, <2>1, <1>a DEF Rostered
  <2>3. run[r].op \in Ops /\ run[r].nonce \in Nonces
    BY <1>11 DEF Rostered, SessionTypes
  <2> QED
    BY <1>0, <1>11, <2>2, <2>3 DEF Rostered, ByRun, RunKind, Prepares, Same
<1>12. CASE Delivered(r)
  <2>1. CASE FailsAudit(r)
    BY <1>12, <2>1, <1>d DEF Delivered, FailsAudit
  <2>2. ASSUME NEW pc \in {"releasing", "delivering", "unlocking"},
               run' = [run EXCEPT ![r].given = @ + 1, ![r].at = pc], hold' = (hold \/ pc = "unlocking")
        PROVE  ByRun(r)
    <3> DEFINE s == [run[r] EXCEPT !.given = @ + 1, !.at = pc]
    <3>0. run[r].given + 1 \in Nat /\ pc \in RunPlaces
      BY <1>0 DEF RunStates
    <3>a. s \in RunStates
      BY <1>0, <3>0 DEF RunStates
    <3>b. s.at = pc /\ s.op = run[r].op /\ s.nonce = run[r].nonce /\ s.permit = run[r].permit
      BY <1>0 DEF RunStates
    <3>1. s \in RunStates /\ s.at = pc /\ s.op = run[r].op /\ s.nonce = run[r].nonce /\ s.permit = run[r].permit
      BY <3>a, <3>b
    <3>2. run' = [run EXCEPT ![r] = s]
      BY <1>0, <2>2
    <3> HIDE DEF s
    <3>3. run'[r] = s /\ run' \in [Runs -> RunStates] /\ \A q \in Runs : q # r => run'[q] = run[q]
      BY <1>0, <3>1, <3>2
    <3>4. Moves(r, {"probing", "delivering", "releasing"}, {"delivering", "releasing", "verifying", "unlocking"})
      BY <1>12, <3>1, <3>3 DEF Moves, Delivered
    <3> QED
      BY <1>12, <2>2, <3>1, <3>3, <3>4 DEF Delivered, ByRun, RunKind, Works
  <2> QED
    BY <1>12, <2>1, <2>2 DEF Delivered
<1>13. CASE Unlocked(r)
  <2>1. run'[r].at = "marking" /\ Same(r)
        /\ Moves(r, {"probing", "releasing", "verifying", "finishing", "unlocking", "closing"}, {"marking"})
    BY <1>13, <1>a DEF Unlocked
  <2> QED
    BY <1>0, <1>b, <1>13, <2>1 DEF Unlocked, SendsMark, Sends, Dispatches, Posts, ByRun, RunKind, SendsMarkNow
<1>14. CASE Closed(r)
  <2>1. CASE Told(EndCall(r), "persisted")
    <3>1. run'[r].at = "recoveryRequired" /\ Same(r)
          /\ Moves(r, {"finishing", "closing", "marking"}, {"noEffect", "recoveryRequired", "ambiguous"})
      BY <1>14, <2>1, <1>a DEF Closed
    <3> QED
      BY <1>0, <1>14, <2>1, <3>1 DEF Closed, ByRun, RunKind, Concludes
  <2>2. CASE ~Told(EndCall(r), "persisted")
    <3>1. run'[r].at = "marking" /\ Same(r)
          /\ Moves(r, {"probing", "releasing", "verifying", "finishing", "unlocking", "closing"}, {"marking"})
      BY <1>14, <2>2, <1>a DEF Closed
    <3> QED
      BY <1>0, <1>14, <2>2, <3>1 DEF Closed, SendsMark, Sends, Dispatches, Posts, ByRun, RunKind, SendsMarkNow
  <2> QED
    BY <2>1, <2>2
<1>15. CASE CallAudit(r)
  <2>1. CASE Goes(r, "refused")
    <3>1. run'[r].at = "refused" /\ Same(r) /\ Moves(r, BeforeBegin, BeforeBegin)
      BY <1>15, <2>1, <1>a DEF CallAudit
    <3> QED
      BY <1>0, <1>15, <3>1 DEF CallAudit, ByRun, RunKind, Prepares, Same
  <2>2. ASSUME NEW p, NEW i \in Issuances(Now), NEW f \in Said(Now, "sealed"), i.permit = p,
               run' = [run EXCEPT ![r] = [at |-> "rostering", op |-> f.says.op, nonce |-> i.nonce, permit |-> p, given |-> 0]]
        PROVE  ByRun(r)
    <3> DEFINE s == [at |-> "rostering", op |-> f.says.op, nonce |-> i.nonce, permit |-> p, given |-> 0]
    <3>1. s \in RunStates /\ s.at = "rostering" /\ s.given = 0 /\ s.op \in Ops /\ s.nonce \in Nonces
      BY <2>2, NowTypes DEF RunStates
    <3>2. run' = [run EXCEPT ![r] = s]
      BY <2>2
    <3> HIDE DEF s
    <3>3. run'[r] = s /\ run' \in [Runs -> RunStates] /\ \A q \in Runs : q # r => run'[q] = run[q]
      BY <1>0, <3>1, <3>2
    <3>4. Moves(r, BeforeBegin, BeforeBegin)
      BY <1>15, <3>1, <3>3 DEF Moves, CallAudit
    <3> QED
      BY <1>0, <1>15, <3>1, <3>3, <3>4 DEF CallAudit, ByRun, RunKind, Prepares
  <2> QED
    BY <1>15, <2>1, <2>2 DEF CallAudit
<1> QED
  BY <1>1, <1>2, <1>3, <1>4, <1>5, <1>6, <1>7, <1>8, <1>9, <1>10, <1>11, <1>12, <1>13, <1>14, <1>15 DEF RunStep

\* What a side call does: it waits, or ends, or sends its append.
SideQuiet(c) ==
  /\ Quiet /\ side'[c].at \in {"authenticating", "done"}
  /\ \/ side[c].at = "idle"
     \/ side[c].at = "authenticating" /\ side'[c].at = "done"
     \/ side[c].at = "appending" /\ side'[c].at = "done" /\ Answered(<<c, "side">>)
  /\ side'[c].at = "authenticating" =>
       /\ SideForm(TxnOf(side'[c].does), side'[c].does)
       /\ side'[c].does[1].kind = "transition" => side'[c].time = clock

SideSends(c) ==
  /\ side[c].at \in {"idle", "authenticating"} /\ side'[c].at = "appending"
  /\ \E txn \in Txns, events \in Seq(Event), t \in Nat :
       /\ Posts(<<c, "side">>, txn, events, t) /\ SideForm(txn, events)
       /\ \/ t = clock
          \/ side[c].at = "authenticating" /\ side[c].does[1].kind = "transition" /\ t = side[c].time

BySide(c) ==
  /\ UNCHANGED <<vars, run, hold>>
  /\ side' \in [Sides -> SideStates] /\ \A d \in Sides : d # c => side'[d] = side[d]
  /\ SideQuiet(c) \/ SideSends(c)

LEMMA SideForms ==
    /\ \A e \in Event : e.kind \in {"sealed", "sealRevoked", "pairRevoked", "issued"} =>
         TxnOf(<<e>>) \in Txns /\ SideForm(TxnOf(<<e>>), <<e>>)
    /\ \A p \in Permits : LET es == <<Transition(p, "withdraw", None)>> IN
         TxnOf(es) \in Txns /\ SideForm(TxnOf(es), es) /\ es \in Seq(Event) /\ es[1].kind = "transition"
<1>1. ASSUME NEW e \in Event, e.kind \in {"sealed", "sealRevoked", "pairRevoked", "issued"}
      PROVE  TxnOf(<<e>>) \in Txns /\ SideForm(TxnOf(<<e>>), <<e>>)
  <2>1. TxnOf(<<e>>) = CASE e.kind = "sealed"      -> "registry.bundle_seal"
                         [] e.kind = "sealRevoked" -> "registry.revocation"
                         [] e.kind = "issued"      -> "permit.issuance"
                         [] e.kind = "transition"  -> "permit.transition"
                         [] e.kind = "pairRevoked" -> "generation-pair.revocation"
    BY DEF TxnOf
  <2>2. CASE e.kind = "sealed"
    BY <2>1, <2>2 DEF SideForm, Txns, Plain
  <2>3. CASE e.kind = "sealRevoked"
    BY <2>1, <2>3 DEF SideForm, Txns, Plain
  <2>4. CASE e.kind = "pairRevoked"
    BY <2>1, <2>4 DEF SideForm, Txns, Plain
  <2>5. CASE e.kind = "issued"
    BY <2>1, <2>5 DEF SideForm, Txns
  <2> QED
    BY <1>1, <2>2, <2>3, <2>4, <2>5
<1>2. ASSUME NEW p \in Permits
      PROVE  LET es == <<Transition(p, "withdraw", None)>> IN
             TxnOf(es) \in Txns /\ SideForm(TxnOf(es), es) /\ es \in Seq(Event) /\ es[1].kind = "transition"
  <2> DEFINE e == Transition(p, "withdraw", None)
  <2>1. e \in Event /\ e.kind = "transition"
    BY EventTypes, EventParts DEF StepNames
  <2>2. TxnOf(<<e>>) = "permit.transition"
    <3>1. <<e>>[1] = e
      OBVIOUS
    <3> QED
      BY <2>1, <3>1 DEF TxnOf
  <2> QED
    BY <2>1, <2>2 DEF SideForm, Txns
<1> QED
  BY <1>1, <1>2

LEMMA SideKinds ==
    ASSUME IInv, SessionTypes, NEW c \in Sides, SideStep(c) \/ SideCall(c)
    PROVE  BySide(c)
<1> USE DEF SidePlaces
<1>0. /\ side \in [Sides -> SideStates] /\ side[c] \in SideStates /\ clock \in Nat /\ broker.gen \in Nat
      /\ \A e \in Event : <<e>> \in Seq(Event) /\ <<e>>[1] = e
  BY DEF SessionTypes, IInv, TypeOK
<1>a. Nothing \in Seq(Event)
  BY DEF Nothing
<1>b. ASSUME NEW pc \in SidePlaces, NEW does \in Seq(Event), NEW t \in Nat, Waits(c, pc, does, t)
      PROVE  /\ side' \in [Sides -> SideStates] /\ \A d \in Sides : d # c => side'[d] = side[d]
             /\ side'[c].at = pc /\ side'[c].does = does /\ side'[c].time = t
  <2>1. [at |-> pc, does |-> does, time |-> t] \in SideStates
    BY DEF SideStates
  <2> QED
    BY <1>0, <1>b, <2>1 DEF Waits
<1>c. ASSUME side' = [side EXCEPT ![c].at = "done"]
      PROVE  /\ side' \in [Sides -> SideStates] /\ \A d \in Sides : d # c => side'[d] = side[d]
             /\ side'[c].at = "done"
  <2>1. [side[c] EXCEPT !.at = "done"] \in SideStates
    BY <1>0 DEF SideStates
  <2>2. side'[c] = [side[c] EXCEPT !.at = "done"]
    BY <1>0, <1>c
  <2>3. side'[c].at = "done"
    BY <1>0, <2>2 DEF SideStates
  <2> QED
    BY <1>0, <1>c, <2>1, <2>3
<1>1. ASSUME NEW does \in Seq(Event), SideForm(TxnOf(does), does), CallAwaiting(c, does)
      PROVE  BySide(c)
  <2>1. CASE Waits(c, "done", Nothing, 0)
    BY <1>0, <1>1, <1>a, <1>b, <2>1 DEF CallAwaiting, BySide, SideQuiet
  <2>2. CASE Waits(c, "authenticating", does, IF does[1].kind = "transition" THEN clock ELSE 0)
    BY <1>0, <1>1, <1>b, <2>2 DEF CallAwaiting, BySide, SideQuiet
  <2> QED
    BY <1>1, <2>1, <2>2 DEF CallAwaiting
<1>2. ASSUME NEW e \in Event, e.kind \in {"sealRevoked", "pairRevoked"}, CallDirect(c, <<e>>)
      PROVE  BySide(c)
  <2>1. CASE Waits(c, "done", Nothing, 0) /\ Quiet
    BY <1>0, <1>2, <1>a, <1>b, <2>1 DEF CallDirect, BySide, SideQuiet
  <2>2. CASE Waits(c, "appending", <<e>>, 0) /\ SendsSide(c, <<e>>)
    <3>1. TimeOf(c, <<e>>) = clock
      BY <1>0, <1>2 DEF TimeOf
    <3>2. Posts(<<c, "side">>, TxnOf(<<e>>), <<e>>, clock)
      BY <2>2, <3>1 DEF SendsSide, Posts
    <3>3. TxnOf(<<e>>) \in Txns /\ SideForm(TxnOf(<<e>>), <<e>>) /\ <<e>> \in Seq(Event)
      BY <1>0, <1>2, SideForms
    <3>4. SideSends(c)
      BY <1>0, <1>2, <1>b, <2>2, <3>2, <3>3 DEF SideSends, CallDirect
    <3> QED
      BY <1>0, <1>2, <1>b, <2>2, <3>4 DEF CallDirect, BySide
  <2> QED
    BY <1>2, <2>1, <2>2 DEF CallDirect
<1>3. CASE AuthenticatedSide(c)
  <2>1. CASE side' = [side EXCEPT ![c].at = "done"] /\ Quiet
    BY <1>3, <1>c, <2>1 DEF AuthenticatedSide, BySide, SideQuiet
  <2>2. CASE Waits(c, "appending", side[c].does, 0) /\ SendsSide(c, side[c].does)
    <3> DEFINE es == side[c].does   t == TimeOf(c, es)
    <3>1. es \in Seq(Event) /\ t \in Nat
      BY <1>0 DEF SideStates, TimeOf
    <3>2. t = clock \/ (es[1].kind = "transition" /\ t = side[c].time)
      BY DEF TimeOf
    <3>3. Posts(<<c, "side">>, TxnOf(es), es, t)
      BY <2>2 DEF SendsSide, Posts
    <3>4. SideForm(TxnOf(es), es)
      BY <1>3 DEF AuthenticatedSide, SessionTypes
    <3>5. TxnOf(es) \in Txns
      BY <3>4 DEF SideForm, Txns
    <3> HIDE DEF t
    <3>6. SideSends(c)
      BY <1>3, <1>0, <1>b, <2>2, <3>1, <3>2, <3>3, <3>4, <3>5 DEF SideSends, AuthenticatedSide
    <3> QED
      BY <1>0, <1>3, <1>b, <2>2, <3>1, <3>6 DEF AuthenticatedSide, BySide
  <2> QED
    BY <1>3, <2>1, <2>2 DEF AuthenticatedSide
<1>4. CASE SideDone(c)
  BY <1>4, <1>c DEF SideDone, BySide, SideQuiet
<1>5. ASSUME NEW s \in Seals, NEW id \in RecordIds, NEW d \in Lifetimes,
             CallAwaiting(c, <<Sealed(s, broker.gen, id.nonce, id.op, clock + d)>>)
      PROVE  BySide(c)
  <2> DEFINE e == Sealed(s, broker.gen, id.nonce, id.op, clock + d)
  <2>1. id.nonce \in Nonces /\ id.op \in Ops /\ clock + d \in Nat
    BY <1>0, LauncherAssumption, LedgerAssumption
  <2>2. e \in Event /\ e.kind = "sealed"
    BY <1>0, <2>1, EventTypes DEF Sealed
  <2> HIDE DEF e
  <2>3. <<e>> \in Seq(Event) /\ SideForm(TxnOf(<<e>>), <<e>>)
    BY <1>0, <2>2, SideForms
  <2> QED
    BY <1>1, <1>5, <2>3 DEF e
<1>6. ASSUME NEW p \in Permits, NEW id \in RecordIds, NEW s \in Seals, NEW w \in Windows,
             CallAwaiting(c, <<Issued(p, broker.gen, id.nonce, s, clock, clock + w.wait, clock + w.lasts)>>)
      PROVE  BySide(c)
  <2> DEFINE e == Issued(p, broker.gen, id.nonce, s, clock, clock + w.wait, clock + w.lasts)
  <2>1. id.nonce \in Nonces /\ clock + w.wait \in Nat /\ clock + w.lasts \in Nat
    BY <1>0, LauncherAssumption, LedgerAssumption
  <2>2. e \in Event /\ e.kind = "issued"
    BY <1>0, <2>1, EventTypes DEF Issued
  <2> HIDE DEF e
  <2>3. <<e>> \in Seq(Event) /\ SideForm(TxnOf(<<e>>), <<e>>)
    BY <1>0, <2>2, SideForms
  <2> QED
    BY <1>1, <1>6, <2>3 DEF e
<1>7. ASSUME NEW p \in Permits, CallAwaiting(c, <<Transition(p, "withdraw", None)>>)
      PROVE  BySide(c)
  BY <1>1, <1>7, SideForms
<1>8. ASSUME NEW s \in Seals, CallDirect(c, <<SealRevoked(s)>>)
      PROVE  BySide(c)
  <2>1. SealRevoked(s) \in Event /\ SealRevoked(s).kind = "sealRevoked"
    BY EventTypes DEF SealRevoked
  <2> QED
    BY <1>2, <1>8, <2>1
<1>9. CASE CallDirect(c, <<PairRevoked(broker.gen)>>)
  <2>1. PairRevoked(broker.gen) \in Event /\ PairRevoked(broker.gen).kind = "pairRevoked"
    BY <1>0, EventTypes DEF PairRevoked
  <2> QED
    BY <1>2, <1>9, <2>1
<1> QED
  BY <1>3, <1>4, <1>5, <1>6, <1>7, <1>8, <1>9 DEF SideStep, SideCall

-----------------------------------------------------------------------------
(* The store under a session.                                              *)

LEMMA RequestTypes ==
    ASSUME SessionTypes, CallsAsk
    PROVE  /\ \A q \in Outstanding : q \in Requests
           /\ \A r \in Runs : run[r] \in RunStates
           /\ \A q \in Outstanding, r \in Runs :
                q.call \in {BeginCall(r), EndCall(r), MarkCall(r)} => run[r].op \in Ops /\ run[r].nonce \in Nonces
           /\ flight # None => flight.req \in Outstanding /\ flight.prior \in Inspections
<1>1. \A q \in Outstanding : q \in Requests
  BY DEF SessionTypes, Outstanding, Flights
<1>2. \A r \in Runs : run[r] \in RunStates
  BY DEF SessionTypes
<1>3. ASSUME NEW q \in Outstanding, NEW r \in Runs, q.call \in {BeginCall(r), EndCall(r), MarkCall(r)}
      PROVE  run[r].op \in Ops /\ run[r].nonce \in Nonces
  <2>1. Awaits(q)
    BY DEF CallsAsk
  <2>2. run[r].at \in {"beginning", "finishing", "closing", "marking"}
    BY <1>3, <2>1 DEF Awaits
  <2> QED
    BY <2>2 DEF SessionTypes
<1>4. flight # None => flight.req \in Outstanding /\ flight.prior \in Inspections
  BY DEF Outstanding, SessionTypes, Flights
<1> QED
  BY <1>1, <1>2, <1>3, <1>4

\* What the store accepts of a session's request is one of the store's transactions.
LEMMA RequestShape ==
    ASSUME SessionTypes, CallsAsk, NEW q \in Outstanding, NEW t, NEW g, Appendable(log, q.txn, q.events, t, g)
    PROVE  Shape(All, q.txn, q.events)
<1>1. Asks(q) /\ broker.gen \in Nat
  BY DEF CallsAsk, SessionTypes
<1>2. TerminalTransaction(All, q.txn, q.events)
  BY DEF Appendable, All
<1>3. \A o \in InProgress(All) : o \in Operations(All)
  BY DEF InProgress
<1>4. ASSUME NEW r \in Runs, q.call = BeginCall(r), q.txn = "operation.begin",
             q.events = BeginEvents(run[r].op, run[r].nonce, broker.gen, run[r].permit)
      PROVE  Shape(All, q.txn, q.events)
  <2>1. run[r].op \in Ops /\ run[r].nonce \in Nonces /\ run[r].permit \in Permits \cup {None}
    BY <1>4, RequestTypes DEF RunStates
  <2> QED
    BY <1>1, <1>4, <2>1 DEF Shape
<1>5. ASSUME NEW r \in Runs, q.txn = "operation.no-effect", q.events = <<NoEffect(run[r].op)>>
      PROVE  Shape(All, q.txn, q.events)
  <2> DEFINE e == NoEffect(run[r].op)
  <2>1. e.op = run[r].op
    BY EventParts
  <2>2. Len(q.events) = 1 /\ q.events[1] = e /\ q.txn \in NoEffectTxns
    BY <1>5 DEF NoEffectTxns
  <2>3. PICK o \in InProgress(All) : o.op = e.op /\ o.permit = None
    BY <1>2, <2>2 DEF TerminalTransaction
  <2>4. EndEvents(o, "noEffect", NoEffect(o.op)) = q.events
    BY <1>5, <2>1, <2>3 DEF EndEvents
  <2> QED
    BY <1>3, <2>2, <2>3, <2>4 DEF Shape
<1>6. ASSUME NEW r \in Runs, q.txn = "operation.recovery-required", q.events = MarkEvents(r)
      PROVE  Shape(All, q.txn, q.events)
  <2> DEFINE e == Ambiguous(run[r].op)
  <2>1. e.op = run[r].op
    BY EventParts
  <2>2. q.txn \notin NoEffectTxns
    BY <1>6 DEF NoEffectTxns
  <2>3. /\ q.events[Len(q.events)] = e
        /\ Len(q.events) = 1 => q.events = <<e>>
        /\ Len(q.events) = 2 => q.events = <<q.events[1], e>>
    BY <1>6 DEF MarkEvents
  <2>4. PICK o \in InProgress(All) :
          /\ o.op = e.op
          /\ IF o.permit = None THEN Len(q.events) = 1
             ELSE Len(q.events) = 2 /\ q.events[1] = Transition(o.permit, "ambiguous", o.op)
    BY <1>2, <1>6, <2>2, <2>3 DEF TerminalTransaction
  <2>5. EndEvents(o, "ambiguous", Ambiguous(o.op)) = q.events
    BY <2>1, <2>3, <2>4 DEF EndEvents
  <2> QED
    BY <1>3, <1>6, <2>4, <2>5 DEF Shape
<1>7. ASSUME SideForm(q.txn, q.events)
      PROVE  Shape(All, q.txn, q.events)
  BY <1>7 DEF SideForm, Shape
<1> QED
  BY <1>1, <1>4, <1>5, <1>6, <1>7 DEF Asks

\* What a served request does to the store.
Refused(req) ==
  UNCHANGED <<log, head, pending, mutex, lock, broker>> /\ flight' = [flight EXCEPT !.reply = "rejected"]

Terminated(req) ==
  /\ UNCHANGED <<log, head, pending, mutex>> /\ lock' = Orphaned(lock)
  /\ broker' = [broker EXCEPT !.alive = FALSE] /\ flight' = [flight EXCEPT !.reply = "terminal"]

Attempts(req, c) ==
  /\ Tries(c) /\ c.txn = req.txn /\ c.events = req.events /\ c.at = req.at
  /\ Reasons = {} /\ Callable(req)
  /\ \/ /\ Completes(c) /\ lock' = LockAfter(req)
        /\ flight' = [flight EXCEPT !.reply = "persisted"] /\ UNCHANGED broker
     \/ /\ \E stage \in ErrorStages : Cut(c, stage, FALSE)
        /\ lock' \in {HeldLock(req), LockIfCaught(req)}
        /\ flight' = [flight EXCEPT !.reply = "rejected"] /\ UNCHANGED broker
     \/ /\ \E stage \in CutStages : Cut(c, stage, TRUE)
        /\ lock' = Orphaned(HeldLock(req))
        /\ broker' = [broker EXCEPT !.alive = FALSE] /\ UNCHANGED flight

LEMMA ServeKinds ==
    ASSUME IInv, SessionTypes, CallsAsk, NEW k \in Nat, SinceInv(k), Serve
    PROVE  /\ clock' = clock /\ flight # None /\ flight.reply = None /\ broker.alive
           /\ Refused(flight.req) \/ Terminated(flight.req) \/ \E c : Attempts(flight.req, c)
<1> DEFINE req == flight.req
<1>0. clock' = clock /\ flight # None /\ flight.reply = None /\ broker.alive
  BY DEF Serve
<1>1. req \in Outstanding /\ req \in Requests /\ req.at <= clock
  BY <1>0, RequestTypes DEF SinceInv
<1>2. req.txn \in Txns /\ req.events \in Seq(Event) /\ req.at \in Nat
  BY <1>1 DEF Requests
<1> HIDE DEF req
<1>3. CASE Reasons # {}
  BY <1>3 DEF Serve, Replies, storeVars, Refused
<1>4. CASE Reasons = {} /\ ~Pinned(req)
  BY <1>4 DEF Serve, Replies, Terminated, req
<1>5. CASE Refuses(req)
  BY <1>0, <1>5 DEF Refuses, Replies, storeVars, Refused, req
<1>6. CASE Reasons = {} /\ Appends(req)
  <2>1. PICK g \in 1..(LastGen(Now) + 1) :
          /\ Accepts(req.at, req.txn, g, req.events)
          /\ LET c == Commit(req.at, req.txn, g, req.events) IN
             \/ /\ Completes(c) /\ lock' = LockAfter(req)
                /\ flight' = [flight EXCEPT !.reply = "persisted"] /\ UNCHANGED broker
             \/ /\ \E stage \in ErrorStages : Cut(c, stage, FALSE)
                /\ lock' \in {HeldLock(req), LockIfCaught(req)}
                /\ flight' = [flight EXCEPT !.reply = "rejected"] /\ UNCHANGED broker
             \/ /\ \E stage \in CutStages : Cut(c, stage, TRUE)
                /\ lock' = Orphaned(HeldLock(req))
                /\ broker' = [broker EXCEPT !.alive = FALSE] /\ UNCHANGED flight
    <3>1. CASE Published(req.at, req.txn, req.events, LockAfter(req)) /\ Replies("persisted") /\ UNCHANGED broker
      BY <3>1 DEF Published, Replies
    <3>2. CASE CutShort(req.at, req.txn, req.events, HeldLock(req), LockIfCaught(req), FALSE) /\ Replies("rejected") /\ UNCHANGED broker
      <4>1. PICK g \in 1..(LastGen(Now) + 1), stage \in CutStages :
              /\ Accepts(req.at, req.txn, g, req.events)
              /\ Cut(Commit(req.at, req.txn, g, req.events), stage, FALSE)
              /\ lock' = IF stage = "anchored" THEN LockIfCaught(req) ELSE HeldLock(req)
        BY <3>2 DEF CutShort
      <4>2. stage \in ErrorStages
        BY <4>1 DEF Cut
      <4> QED
        BY <3>2, <4>1, <4>2 DEF Replies
    <3>3. CASE CutShort(req.at, req.txn, req.events, HeldLock(req), LockIfCaught(req), TRUE) /\ broker' = [broker EXCEPT !.alive = FALSE] /\ UNCHANGED flight
      BY <3>3 DEF CutShort
    <3> QED
      BY <1>6, <3>1, <3>2, <3>3 DEF Appends
  <2> DEFINE c == Commit(req.at, req.txn, g, req.events)
  <2>2. Shape(All, req.txn, req.events)
    BY <1>1, <2>1, RequestShape DEF Accepts
  <2>3. Reasons \subseteq TolerableReasons(req.txn) /\ Callable(req)
    BY <1>6 DEF Appends, Publishable
  <2>4. Completes(c) \/ \E stage \in CutStages, killed \in BOOLEAN : Cut(c, stage, killed)
    BY <2>1 DEF ErrorStages, CutStages
  <2>5. Tries(c)
    BY <1>0, <1>1, <1>2, <2>1, <2>2, <2>3, <2>4, TriedAt
  <2>6. c.txn = req.txn /\ c.events = req.events /\ c.at = req.at
    BY DEF Commit
  <2> HIDE DEF c
  <2>7. Attempts(req, c)
    BY <1>6, <2>1, <2>3, <2>5, <2>6 DEF Attempts, c
  <2> QED
    BY <1>0, <2>7 DEF req
<1> QED
  BY <1>0, <1>3, <1>4, <1>5, <1>6 DEF Serve, req

\* The operation lock after a served request.
LEMMA ServeLock ==
    ASSUME IInv, SessionTypes, CallsAsk, NEW q \in Outstanding
    PROVE  LockOK(HeldLock(q)) /\ LockOK(LockAfter(q)) /\ LockOK(LockIfCaught(q))
<1>1. LockOK(lock) /\ LockOK(None)
  BY LockKinds DEF IInv, TypeOK, LockOK
<1>2. LockOK(HeldLock(q))
  <2>1. CASE q.txn = "operation.begin"
    <3>1. Asks(q)
      BY DEF CallsAsk
    <3>2. PICK r \in Runs : q.call = BeginCall(r) /\ q.events = BeginEvents(run[r].op, run[r].nonce, broker.gen, run[r].permit)
      BY <2>1, <3>1 DEF Asks, SideForm
    <3> DEFINE e == Started(run[r].op, run[r].nonce, broker.gen, run[r].permit)
    <3>3. q.events[Len(q.events)] = e
      BY <3>2 DEF BeginEvents
    <3>4. e.op = run[r].op /\ e.nonce = run[r].nonce /\ run[r].op \in Ops /\ run[r].nonce \in Nonces /\ q.at \in Nat
      BY <3>2, EventParts, RequestTypes DEF Requests
    <3>5. HeldLock(q) = Lease(e.op, e.nonce, q.at)
      BY <2>1, <3>3 DEF HeldLock
    <3> QED
      BY <3>4, <3>5, LockKinds
  <2>2. CASE q.txn # "operation.begin"
    BY <1>1, <2>2 DEF HeldLock
  <2> QED
    BY <2>1, <2>2
<1> QED
  BY <1>1, <1>2 DEF LockAfter, LockIfCaught

Quiescent ==
  /\ UNCHANGED <<log, head, pending, mutex, lock, broker, queue, flight, answers, run, side, hold>>
  /\ clock' \in Nat /\ clock <= clock'

ByBroker == BrokerStep /\ UNCHANGED <<run, side, hold>>

LEMMA SessionKinds ==
    ASSUME IInv, SessionTypes, RunInv, [SessionNext]_allVars
    PROVE  Quiescent \/ ByBroker \/ (\E r \in Runs : ByRun(r)) \/ (\E c \in Sides : BySide(c))
<1>0. clock \in Nat /\ MaxTime \in Nat
  BY LedgerAssumption DEF IInv, TypeOK
<1>1. CASE SessionTick
  BY <1>0, <1>1 DEF SessionTick, storeVars, brokerVars, launcherVars, Quiescent
<1>2. CASE UNCHANGED allVars
  BY <1>0, <1>2 DEF allVars, vars, brokerVars, launcherVars, Quiescent
<1>3. CASE BrokerStep /\ UNCHANGED launcherVars
  BY <1>3 DEF ByBroker, launcherVars
<1>4. CASE Start
  BY <1>0, <1>4 DEF Start, Quiet, vars, brokerVars, Quiescent
<1>5. CASE (\E r \in DryRuns : CallDryRun(r)) \/ (\E r \in Audits : CallAudit(r)) \/ (\E r \in Runs : RunStep(r))
  BY <1>5, RunKinds DEF Runs
<1>6. CASE \E c \in Sides : SideCall(c) \/ SideStep(c)
  BY <1>6, SideKinds
<1> QED
  BY <1>1, <1>2, <1>3, <1>4, <1>5, <1>6 DEF SessionNext, LauncherStep

\* Nothing of a session but a served request writes to the store.
Idles ==
  /\ UNCHANGED <<log, head, pending, mutex>> /\ clock' \in Nat /\ clock <= clock'
  /\ lock' \in {lock, Orphaned(lock)}

LEMMA IdleStep ==
    ASSUME IInv, Idles
    PROVE  IInv'
<1> USE DEF Idles
<1>1. LockOK(lock')
  BY LockKinds DEF IInv, TypeOK, LockOK
<1>2. TypeOK'
  BY <1>1 DEF IInv, TypeOK, LockOK
<1>3. DiskInv'
  BY DEF IInv, DiskInv, Attempted, All
<1> QED
  BY <1>2, <1>3, LogStep

LEMMA TriedStep ==
    ASSUME IInv, NEW c, Tries(c), LockOK(lock')
    PROVE  IInv' /\ (log' = log \/ Extends(c))
<1>1. clock' = clock /\ clock \in Nat /\ TypeOK
  BY DEF Tries, IInv, TypeOK
<1>2. log' = log \/ Extends(c)
  BY <1>1, TriedExtends
<1>3. log' \in Seq(Commits)
  BY <1>2, Extended DEF IInv, TypeOK
<1>4. TypeOK'
  BY <1>1, <1>3, TypeTryStep DEF TypeOK, LockOK
<1>5. DiskInv'
  BY DiskTryStep
<1> QED
  BY <1>1, <1>2, <1>4, <1>5, LogStep

LEMMA StoreStep ==
    ASSUME IInv, SessionTypes, CallsAsk, RunInv, NEW k \in Nat, SinceInv(k), [SessionNext]_allVars
    PROVE  IInv'
<1>0. clock \in Nat
  BY DEF IInv, TypeOK
<1>1. CASE Quiescent
  BY <1>1, IdleStep DEF Quiescent, Idles
<1>2. CASE \E r \in Runs : ByRun(r)
  BY <1>0, <1>2, IdleStep DEF ByRun, Idles, vars
<1>3. CASE \E c \in Sides : BySide(c)
  BY <1>0, <1>3, IdleStep DEF BySide, Idles, vars
<1>4. CASE ByBroker
  <2>1. CASE Serve
    <3>1. flight.req \in Outstanding /\ clock' = clock
      BY <2>1, ServeKinds, RequestTypes
    <3>2. CASE Refused(flight.req) \/ Terminated(flight.req)
      BY <1>0, <3>1, <3>2, IdleStep DEF Refused, Terminated, Idles
    <3>3. ASSUME NEW c, Attempts(flight.req, c)
          PROVE  IInv'
      <4>1. LockOK(lock')
        BY <3>1, <3>3, ServeLock, LockKinds DEF Attempts
      <4> QED
        BY <3>3, <4>1, TriedStep DEF Attempts
    <3> QED
      BY <2>1, <3>2, <3>3, ServeKinds
  <2>2. CASE Send \/ Receive
    BY <1>0, <2>2, IdleStep DEF Send, Receive, Idles, vars
  <2>3. CASE LoseResponse \/ WorkerDies
    BY <1>0, <2>3, IdleStep DEF LoseResponse, WorkerDies, Idles
  <2> QED
    BY <1>4, <2>1, <2>2, <2>3 DEF ByBroker, BrokerStep
<1> QED
  BY <1>1, <1>2, <1>3, <1>4, SessionKinds

-----------------------------------------------------------------------------
(* Requests and answers.                                                   *)

\* What a broker step does to the calls: it takes the next request, perhaps only
\* to refuse it, or answers the one in flight, or leaves them as they are.
Takes ==
  /\ queue # <<>> /\ flight = None /\ queue' = Tail(queue)
  /\ flight' = [req |-> Head(queue), prior |-> Inspection, reply |-> None] /\ UNCHANGED answers

Drops == queue # <<>> /\ flight = None /\ queue' = Tail(queue) /\ Tell(Head(queue), "closed") /\ UNCHANGED flight

AnswersFlight ==
  /\ flight # None /\ flight' = None /\ UNCHANGED queue
  /\ \E verdict \in Outcomes : Tell(flight.req, verdict)

Carries ==
  /\ UNCHANGED <<queue, answers>>
  /\ flight' = flight \/ (flight # None /\ \E reply \in {"persisted", "rejected", "terminal"} : flight' = [flight EXCEPT !.reply = reply])

LEMMA BrokerKinds ==
    ASSUME IInv, SessionTypes, CallsAsk, NEW k \in Nat, SinceInv(k), BrokerStep
    PROVE  Takes \/ Drops \/ AnswersFlight \/ Carries
<1>1. CASE Send
  BY <1>1 DEF Send, Takes, Drops
<1>2. CASE Receive
  BY <1>2 DEF Receive, AnswersFlight, Outcomes
<1>3. CASE LoseResponse
  <2>1. Reconciled(flight.req, flight.prior) \in Outcomes
    BY DEF Reconciled, Outcomes
  <2> QED
    BY <1>3, <2>1 DEF LoseResponse, AnswersFlight, Carries, Outcomes
<1>4. CASE Serve
  <2>1. UNCHANGED <<queue, answers>>
    BY <1>4 DEF Serve
  <2> QED
    BY <1>4, <2>1, ServeKinds DEF Refused, Terminated, Attempts, Carries
<1>5. CASE WorkerDies
  BY <1>5 DEF WorkerDies, Carries
<1> QED
  BY <1>1, <1>2, <1>3, <1>4, <1>5 DEF BrokerStep

LEMMA SeenIsText ==
    ASSUME IInv
    PROVE  Inspection \in Inspections
<1>1. lock \in Leases \cup {None} /\ head \in Nat
  BY DEF IInv, TypeOK
<1>2. Seen \subseteq ReasonNames
  BY DEF Seen, ReasonsSeen, ReasonNames
<1>3. (IF lock # None /\ lock.whole THEN lock.op ELSE None) \in Ops \cup {None}
  BY <1>1 DEF Leases
<1> QED
  BY <1>1, <1>2, <1>3 DEF Inspection, Inspections

LEMMA RunRequests ==
    ASSUME IInv, SessionTypes, NEW r \in Runs, run[r].op \in Ops, run[r].nonce \in Nonces
    PROVE  /\ Request(BeginCall(r), "operation.begin",
                 BeginEvents(run[r].op, run[r].nonce, broker.gen, run[r].permit), clock) \in Requests
           /\ Request(EndCall(r), "operation.no-effect", <<NoEffect(run[r].op)>>, clock) \in Requests
           /\ Request(EndCall(r), "operation.recovery-required", MarkEvents(r), clock) \in Requests
           /\ Request(MarkCall(r), "operation.recovery-required", MarkEvents(r), clock) \in Requests
<1>1. BeginCall(r) \in Calls /\ EndCall(r) \in Calls /\ MarkCall(r) \in Calls
  BY DEF BeginCall, EndCall, MarkCall, Calls
<1>2. broker.gen \in Nat /\ run[r].permit \in Permits \cup {None} /\ clock \in Nat
  BY DEF SessionTypes, RunStates, IInv, TypeOK
<1>3. BeginEvents(run[r].op, run[r].nonce, broker.gen, run[r].permit) \in Seq(Event)
  BY <1>2, BeginEventsType
<1>4. NoEffect(run[r].op) \in Event /\ Ambiguous(run[r].op) \in Event
  BY EventTypes
<1>5. run[r].permit # None => Transition(run[r].permit, "ambiguous", run[r].op) \in Event
  BY <1>2, EventTypes DEF StepNames
<1>6. MarkEvents(r) \in Seq(Event) /\ <<NoEffect(run[r].op)>> \in Seq(Event)
  BY <1>4, <1>5 DEF MarkEvents
<1> QED
  BY <1>1, <1>2, <1>3, <1>6 DEF Request, Requests, Txns

LEMMA RunTypes ==
    ASSUME IInv, SessionTypes, RunInv, NEW r \in Runs, ByRun(r)
    PROVE  SessionTypes'
<1>1. run' \in [Runs -> RunStates] /\ side' = side /\ hold' \in BOOLEAN /\ \A s \in Runs : s # r => run'[s] = run[s]
  BY DEF ByRun, RunKind, Prepares, SendsBegin, HearsBegin, Works, SendsEnd, SendsMarkNow, Concludes, Moves, SessionTypes
<1>2. queue' \in Seq(Requests) /\ UNCHANGED <<flight, answers, broker>>
  <2>1. CASE Quiet
    BY <2>1 DEF Quiet, brokerVars, SessionTypes
  <2>2. CASE SendsBegin(r) \/ SendsEnd(r) \/ SendsMarkNow(r)
    <3>1. run[r].op \in Ops /\ run[r].nonce \in Nonces
      BY <2>2 DEF SessionTypes, SendsBegin, SendsEnd, SendsMarkNow, Moves
    <3>2. PICK q \in Requests : queue' = Append(queue, q) /\ UNCHANGED <<flight, answers, broker>>
      <4>1. CASE SendsBegin(r)
        BY <4>1, <3>1, RunRequests DEF SendsBegin, Posts
      <4>2. CASE SendsEnd(r)
        BY <4>2, <3>1, RunRequests DEF SendsEnd, Posts
      <4>3. CASE SendsMarkNow(r)
        BY <4>3, <3>1, RunRequests DEF SendsMarkNow, Posts
      <4> QED
        BY <2>2, <4>1, <4>2, <4>3
    <3> QED
      BY <3>2 DEF SessionTypes
  <2> QED
    BY <2>1, <2>2 DEF ByRun, RunKind, Prepares, HearsBegin, Works, Concludes
<1>3. /\ run'[r].at \notin {"idle", "authenticating", "refused"} => run'[r].op \in Ops /\ run'[r].nonce \in Nonces
      /\ run'[r].given > 0 \/ run'[r].at = "delivering" => run'[r].permit \in Permits
  <2>0. /\ run[r].at \notin {"idle", "authenticating", "refused"} => run[r].op \in Ops /\ run[r].nonce \in Nonces
        /\ run[r].given > 0 \/ run[r].at = "delivering" => run[r].permit \in Permits
        /\ run[r].given > 0 => run[r].at \in PastBegin
        /\ run[r].given \in Nat
    BY DEF SessionTypes, RunInv, RunStates
  <2>1. CASE Prepares(r)
    BY <2>0, <2>1 DEF Prepares, Moves, BeforeBegin, PastBegin, Failing
  <2>2. CASE SendsBegin(r) \/ HearsBegin(r) \/ SendsEnd(r) \/ SendsMarkNow(r) \/ Concludes(r)
    BY <2>0, <2>2 DEF SendsBegin, HearsBegin, SendsEnd, SendsMarkNow, Concludes, Moves, Same
  <2>3. CASE Works(r)
    BY <2>0, <2>3 DEF Works, Moves
  <2> QED
    BY <2>1, <2>2, <2>3 DEF ByRun, RunKind
<1>4. \A s \in Runs :
        /\ run'[s].at \notin {"idle", "authenticating", "refused"} => run'[s].op \in Ops /\ run'[s].nonce \in Nonces
        /\ run'[s].given > 0 \/ run'[s].at = "delivering" => run'[s].permit \in Permits
  BY <1>1, <1>3 DEF SessionTypes
<1> QED
  BY <1>1, <1>2, <1>4 DEF SessionTypes

LEMMA SideTypes ==
    ASSUME IInv, SessionTypes, NEW c \in Sides, BySide(c)
    PROVE  SessionTypes'
<1>1. UNCHANGED <<run, hold>> /\ side' \in [Sides -> SideStates] /\ \A d \in Sides : d # c => side'[d] = side[d]
  BY DEF BySide
<1>2. queue' \in Seq(Requests) /\ UNCHANGED <<flight, answers, broker>>
  <2>1. CASE SideQuiet(c)
    BY <2>1 DEF SideQuiet, Quiet, brokerVars, SessionTypes
  <2>2. CASE SideSends(c)
    <3>1. <<c, "side">> \in Calls
      BY DEF Calls
    <3> QED
      BY <2>2, <3>1 DEF SideSends, Posts, Request, Requests, SessionTypes
  <2> QED
    BY <2>1, <2>2 DEF BySide
<1>3. side'[c].at = "authenticating" => SideForm(TxnOf(side'[c].does), side'[c].does)
  BY DEF BySide, SideQuiet, SideSends
<1>4. \A d \in Sides : side'[d].at = "authenticating" => SideForm(TxnOf(side'[d].does), side'[d].does)
  BY <1>1, <1>3 DEF SessionTypes
<1> QED
  BY <1>1, <1>2, <1>4 DEF SessionTypes

LEMMA BrokerTypes ==
    ASSUME IInv, SessionTypes, CallsAsk, NEW k \in Nat, SinceInv(k), ByBroker
    PROVE  SessionTypes'
<1>1. UNCHANGED <<run, side, hold>> /\ BrokerStep
  BY DEF ByBroker
<1>2. broker' \in [open : BOOLEAN, alive : BOOLEAN, gen : Nat]
  <2>1. broker \in [open : BOOLEAN, alive : BOOLEAN, gen : Nat]
    BY DEF SessionTypes
  <2>2. broker' = broker \/ \E b \in BOOLEAN : broker' \in
          {[broker EXCEPT !.open = b], [broker EXCEPT !.alive = FALSE], [broker EXCEPT !.open = FALSE, !.alive = FALSE]}
    <3>1. CASE Serve
      BY <3>1, ServeKinds DEF Refused, Terminated, Attempts
    <3>2. CASE Receive
      <4>1. (flight.reply # "terminal" /\ ~(flight.reply = "persisted" /\ flight.req.txn = "generation-pair.revocation")) \in BOOLEAN
        OBVIOUS
      <4> QED
        BY <3>2, <4>1 DEF Receive
    <3>3. CASE Send \/ LoseResponse \/ WorkerDies
      BY <3>3 DEF Send, LoseResponse, WorkerDies
    <3> QED
      BY <1>1, <3>1, <3>2, <3>3 DEF BrokerStep
  <2> QED
    BY <2>1, <2>2
<1>3. queue \in Seq(Requests) /\ flight \in Flights \cup {None} /\ answers \subseteq Answers
  BY DEF SessionTypes
<1>4. ASSUME NEW q \in Requests, NEW verdict \in Outcomes, Tell(q, verdict)
      PROVE  answers' \subseteq Answers
  <2>1. [call |-> q.call, txn |-> q.txn, events |-> q.events, at |-> q.at, says |-> verdict] \in Answers
    BY DEF Requests, Answers
  <2> QED
    BY <1>3, <1>4, <2>1 DEF Tell
<1>5. CASE Takes
  <2>1. Head(queue) \in Requests /\ Tail(queue) \in Seq(Requests)
    BY <1>3, <1>5 DEF Takes
  <2>2. flight' \in Flights
    BY <1>5, <2>1, SeenIsText DEF Takes, Flights
  <2> QED
    BY <1>1, <1>2, <1>3, <1>5, <2>1, <2>2 DEF Takes, SessionTypes
<1>6. CASE Drops
  <2>1. Head(queue) \in Requests /\ Tail(queue) \in Seq(Requests)
    BY <1>3, <1>6 DEF Drops
  <2>2. answers' \subseteq Answers
    BY <1>4, <1>6, <2>1 DEF Drops, Outcomes
  <2> QED
    BY <1>1, <1>2, <1>3, <1>6, <2>1, <2>2 DEF Drops, SessionTypes
<1>7. CASE AnswersFlight
  <2>1. flight.req \in Requests
    BY <1>3, <1>7 DEF AnswersFlight, Flights
  <2>2. answers' \subseteq Answers
    BY <1>4, <1>7, <2>1 DEF AnswersFlight
  <2> QED
    BY <1>1, <1>2, <1>3, <1>7, <2>2 DEF AnswersFlight, SessionTypes
<1>8. CASE Carries
  <2>1. flight' \in Flights \cup {None}
    BY <1>3, <1>8 DEF Carries, Flights
  <2> QED
    BY <1>1, <1>2, <1>3, <1>8, <2>1 DEF Carries, SessionTypes
<1> QED
  BY <1>1, <1>5, <1>6, <1>7, <1>8, BrokerKinds

LEMMA SessionTypesStep ==
    ASSUME IInv, SessionTypes, CallsAsk, RunInv, NEW k \in Nat, SinceInv(k), [SessionNext]_allVars
    PROVE  SessionTypes'
<1>1. CASE Quiescent
  BY <1>1 DEF Quiescent, SessionTypes
<1> QED
  BY <1>1, SessionKinds, RunTypes, SideTypes, BrokerTypes

LEMMA CallNames ==
    /\ \A r, s : (BeginCall(r) = BeginCall(s) <=> r = s) /\ (EndCall(r) = EndCall(s) <=> r = s) /\ (MarkCall(r) = MarkCall(s) <=> r = s)
    /\ \A r, s : BeginCall(r) # EndCall(s) /\ BeginCall(r) # MarkCall(s) /\ EndCall(r) # MarkCall(s)
    /\ \A r, c : BeginCall(r) # <<c, "side">> /\ EndCall(r) # <<c, "side">> /\ MarkCall(r) # <<c, "side">>
    /\ \A c, d : <<c, "side">> = <<d, "side">> <=> c = d
  BY DEF BeginCall, EndCall, MarkCall

Answer(q, verdict) == [call |-> q.call, txn |-> q.txn, events |-> q.events, at |-> q.at, says |-> verdict]

LEMMA AnswerParts ==
    ASSUME NEW q, NEW v
    PROVE  /\ Answer(q, v).call = q.call /\ Answer(q, v).txn = q.txn /\ Answer(q, v).events = q.events
           /\ Answer(q, v).at = q.at /\ Answer(q, v).says = v
  BY DEF Answer

LEMMA QueueTail ==
    ASSUME NEW S, NEW s \in Seq(S), s # <<>>
    PROVE  /\ Head(s) \in S /\ Tail(s) \in Seq(S) /\ DOMAIN Tail(s) \subseteq Nat /\ 1 \in DOMAIN s /\ s[1] = Head(s)
           /\ \A i \in DOMAIN Tail(s) : i + 1 \in DOMAIN s /\ Tail(s)[i] = s[i + 1] /\ i + 1 # 1
  OBVIOUS

LEMMA Posted ==
    ASSUME SessionTypes, NEW q \in Requests, queue' = Append(queue, q), UNCHANGED <<flight, answers>>
    PROVE  /\ Outstanding' = Outstanding \cup {q}
           /\ DOMAIN queue \subseteq Nat /\ DOMAIN queue' = DOMAIN queue \cup {Len(queue) + 1} /\ Len(queue) + 1 \notin DOMAIN queue
           /\ queue'[Len(queue) + 1] = q /\ \A i \in DOMAIN queue : queue'[i] = queue[i]
           /\ \A call : Unsent(call)' <=> Unsent(call) /\ q.call # call
           /\ \A call : Answered(call)' <=> Answered(call)
<1>1. queue \in Seq(Requests)
  BY DEF SessionTypes
<1>2. /\ DOMAIN queue \subseteq Nat /\ DOMAIN queue' = DOMAIN queue \cup {Len(queue) + 1} /\ Len(queue) + 1 \notin DOMAIN queue
      /\ queue'[Len(queue) + 1] = q /\ \A i \in DOMAIN queue : queue'[i] = queue[i]
  BY <1>1
<1>3. \A p : p \in Outstanding' <=> p \in Outstanding \/ p = q
  BY <1>2 DEF Outstanding
<1>4. \A call : Answered(call)' <=> Answered(call)
  BY DEF Answered
<1>5. \A call : Unsent(call)' <=> Unsent(call) /\ q.call # call
  BY <1>3, <1>4 DEF Unsent
<1> QED
  BY <1>2, <1>3, <1>4, <1>5

LEMMA PostApart ==
    ASSUME SessionTypes, CallsApart, NEW q \in Requests, Unsent(q.call), queue' = Append(queue, q), UNCHANGED <<flight, answers>>
    PROVE  CallsApart'
<1>2. \A p \in Outstanding : p.call # q.call
  BY DEF Unsent
<1>3. \A i \in DOMAIN queue : queue[i] \in Outstanding
  BY DEF Outstanding
<1>4. flight # None => flight.req \in Outstanding
  BY DEF Outstanding
<1>5. \A i, j \in DOMAIN queue' : queue'[i].call = queue'[j].call => i = j
  BY <1>2, <1>3, Posted DEF CallsApart
<1>6. flight # None => \A i \in DOMAIN queue' : queue'[i].call # flight.req.call
  BY <1>2, <1>3, <1>4, Posted DEF CallsApart
<1>7. \A a \in answers : \A p \in Outstanding' : p.call # a.call
  BY Posted DEF CallsApart, Unsent, Answered
<1> QED
  BY <1>5, <1>6, <1>7 DEF CallsApart

\* What a broker step may do to the calls.
Delivers ==
  /\ Outstanding' \subseteq Outstanding
  /\ \/ answers' = answers
     \/ \E q \in Outstanding, verdict \in Outcomes :
          answers' = answers \cup {Answer(q, verdict)} /\ \A p \in Outstanding' : p.call # q.call

LEMMA BrokerCalls ==
    ASSUME SessionTypes, CallsApart, Takes \/ Drops \/ AnswersFlight \/ Carries
    PROVE  CallsApart' /\ Delivers
<1>0. queue \in Seq(Requests) /\ flight \in Flights \cup {None} /\ None \notin Flights
  BY NoneIsNothing DEF SessionTypes
<1>a. /\ \A i \in DOMAIN queue : queue[i] \in Outstanding
      /\ flight # None => flight.req \in Outstanding
  BY DEF Outstanding
<1>1. CASE Takes
  <2>1. /\ DOMAIN queue' \subseteq Nat /\ 1 \in DOMAIN queue /\ queue[1] = Head(queue)
        /\ \A i \in DOMAIN queue' : i + 1 \in DOMAIN queue /\ queue'[i] = queue[i + 1] /\ i + 1 # 1
    BY <1>0, <1>1, QueueTail DEF Takes
  <2>2. flight'.req = queue[1] /\ flight = None
    BY <1>1, <2>1 DEF Takes
  <2>3. Outstanding' \subseteq Outstanding
    BY <1>a, <2>1, <2>2 DEF Outstanding
  <2>4. \A i, j \in DOMAIN queue' : queue'[i].call = queue'[j].call => i = j
    BY <2>1 DEF CallsApart
  <2>5. \A i \in DOMAIN queue' : queue'[i].call # flight'.req.call
    BY <2>1, <2>2 DEF CallsApart
  <2> QED
    BY <1>1, <2>3, <2>4, <2>5 DEF Takes, CallsApart, Delivers
<1>2. CASE Drops
  <2>1. /\ DOMAIN queue' \subseteq Nat /\ 1 \in DOMAIN queue /\ queue[1] = Head(queue)
        /\ \A i \in DOMAIN queue' : i + 1 \in DOMAIN queue /\ queue'[i] = queue[i + 1] /\ i + 1 # 1
    BY <1>0, <1>2, QueueTail DEF Drops
  <2>2. answers' = answers \cup {Answer(queue[1], "closed")} /\ flight' = None /\ flight = None
    BY <1>2, <2>1 DEF Drops, Tell, Answer
  <2>3. Outstanding' \subseteq Outstanding /\ \A p \in Outstanding' : \E i \in DOMAIN queue' : p = queue'[i]
    BY <1>a, <2>1, <2>2 DEF Outstanding
  <2>4. \A i, j \in DOMAIN queue' : queue'[i].call = queue'[j].call => i = j
    BY <2>1 DEF CallsApart
  <2>5. \A i \in DOMAIN queue' : queue'[i].call # queue[1].call
    BY <2>1 DEF CallsApart
  <2>6. Delivers
    BY <1>a, <2>1, <2>2, <2>3, <2>5 DEF Delivers, Outcomes
  <2>7. \A a \in answers' : \A p \in Outstanding' : p.call # a.call
    BY <2>2, <2>3, <2>5, AnswerParts DEF CallsApart
  <2>8. \A a, b \in answers' : a.call = b.call => a = b
    BY <1>a, <2>1, <2>2, AnswerParts DEF CallsApart
  <2> QED
    BY <2>2, <2>4, <2>6, <2>7, <2>8 DEF CallsApart
<1>3. CASE AnswersFlight
  <2>1. PICK v \in Outcomes : answers' = answers \cup {Answer(flight.req, v)}
    BY <1>3 DEF AnswersFlight, Tell, Answer
  <2>2. flight # None /\ flight' = None /\ queue' = queue
    BY <1>3 DEF AnswersFlight
  <2>3. Outstanding' \subseteq Outstanding /\ \A p \in Outstanding' : p.call # flight.req.call
    BY <1>a, <2>2 DEF Outstanding, CallsApart
  <2>4. Delivers
    BY <1>a, <2>1, <2>2, <2>3 DEF Delivers
  <2>5. \A a \in answers' : \A p \in Outstanding' : p.call # a.call
    BY <2>1, <2>3, AnswerParts DEF CallsApart
  <2>6. \A a, b \in answers' : a.call = b.call => a = b
    BY <1>a, <2>1, <2>2, AnswerParts DEF CallsApart
  <2> QED
    BY <2>2, <2>4, <2>5, <2>6 DEF CallsApart
<1>4. CASE Carries
  <2>1. (flight' = None <=> flight = None) /\ (flight # None => flight'.req = flight.req)
    <3>1. CASE flight' = flight
      BY <3>1
    <3>2. CASE flight # None /\ \E reply \in {"persisted", "rejected", "terminal"} : flight' = [flight EXCEPT !.reply = reply]
      BY <1>0, <3>2 DEF Flights
    <3> QED
      BY <1>4, <3>1, <3>2 DEF Carries
  <2>2. Outstanding' = Outstanding
    BY <1>4, <2>1 DEF Carries, Outstanding
  <2> QED
    BY <1>4, <2>1, <2>2 DEF Carries, Delivers, CallsApart
<1> QED
  BY <1>1, <1>2, <1>3, <1>4

\* A broker step makes no new call, and none unsaid.
LEMMA DeliversCalls ==
    ASSUME SessionTypes, CallsApart, Delivers
    PROVE  /\ \A call : Unsent(call) => Unsent(call)'
           /\ \A call : Answered(call) => Answered(call)'
           /\ \A call, says : Told(call, says) => Told(call, says)'
           /\ answers \subseteq answers'
           /\ \A a \in answers' : a \in answers \/ \E q \in Outstanding, v \in Outcomes : a = Answer(q, v) /\ answers' = answers \cup {a}
<1>1. answers \subseteq answers'
  BY DEF Delivers
<1>2. \A a \in answers' : a \in answers \/ \E q \in Outstanding, v \in Outcomes : a = Answer(q, v) /\ answers' = answers \cup {a}
  BY DEF Delivers
<1>3. \A call : Unsent(call) => Unsent(call)'
  BY <1>2, AnswerParts DEF Unsent, Answered, Delivers
<1> QED
  BY <1>1, <1>2, <1>3 DEF Answered, Told

RunCalls(r) == {BeginCall(r), EndCall(r), MarkCall(r)}
SameId(r) == run'[r].op = run[r].op /\ run'[r].nonce = run[r].nonce /\ run'[r].permit = run[r].permit

LEMMA AsksStable ==
    ASSUME NEW q, Asks(q), broker'.gen = broker.gen,
           \A r \in Runs : q.call \in RunCalls(r) => SameId(r)
    PROVE  Asks(q)'
<1>1. ASSUME NEW r \in Runs, q.call \in RunCalls(r)
      PROVE  /\ BeginEvents(run'[r].op, run'[r].nonce, broker'.gen, run'[r].permit) =
                  BeginEvents(run[r].op, run[r].nonce, broker.gen, run[r].permit)
             /\ NoEffect(run'[r].op) = NoEffect(run[r].op) /\ MarkEvents(r)' = MarkEvents(r)
  BY <1>1 DEF SameId, MarkEvents
<1>2. CASE \E c \in Sides : q.call = <<c, "side">> /\ SideForm(q.txn, q.events)
  BY <1>2 DEF Asks
<1>3. ASSUME NEW r \in Runs, q.call = BeginCall(r), q.txn = "operation.begin",
             q.events = BeginEvents(run[r].op, run[r].nonce, broker.gen, run[r].permit)
      PROVE  Asks(q)'
  BY <1>1, <1>3 DEF Asks, RunCalls
<1>4. ASSUME NEW r \in Runs, q.call = EndCall(r), q.txn = "operation.no-effect", q.events = <<NoEffect(run[r].op)>>
      PROVE  Asks(q)'
  BY <1>1, <1>4 DEF Asks, RunCalls
<1>5. ASSUME NEW r \in Runs, q.call \in {EndCall(r), MarkCall(r)}, q.txn = "operation.recovery-required", q.events = MarkEvents(r)
      PROVE  Asks(q)'
  BY <1>1, <1>5 DEF Asks, RunCalls
<1> QED
  BY <1>2, <1>3, <1>4, <1>5 DEF Asks

\* A step of a run sends nothing, or one request of its own.
RunSends(r, q) ==
  /\ q \in Requests /\ q.call \in RunCalls(r) /\ q.at = clock
  /\ queue' = Append(queue, q) /\ UNCHANGED <<flight, answers, broker>>
  /\ Unsent(q.call) /\ Asks(q)' /\ Awaits(q)' /\ SameId(r)
  /\ q.call = BeginCall(r) => SendsBegin(r)
  /\ q.call = EndCall(r) => SendsEnd(r)
  /\ q.call = MarkCall(r) => SendsMarkNow(r)

LEMMA RunSending ==
    ASSUME IInv, SessionTypes, CallsUnsent, NEW r \in Runs, ByRun(r)
    PROVE  Quiet \/ \E q : RunSends(r, q)
<1>0. CASE Quiet
  BY <1>0
<1>1. CASE SendsBegin(r)
  <2>0. PICK q : q = Request(BeginCall(r), "operation.begin", BeginEvents(run[r].op, run[r].nonce, broker.gen, run[r].permit), clock)
    OBVIOUS
  <2>1. run[r].op \in Ops /\ run[r].nonce \in Nonces /\ run[r].at = "locking" /\ run'[r].at = "beginning" /\ SameId(r)
    BY <1>1 DEF SendsBegin, Moves, Same, SessionTypes, SameId
  <2>2. q \in Requests /\ q.call = BeginCall(r) /\ q.at = clock
    BY <2>0, <2>1, RunRequests DEF Request
  <2>3. queue' = Append(queue, q) /\ UNCHANGED <<flight, answers, broker>>
    BY <1>1, <2>0 DEF SendsBegin, Posts
  <2>4. Asks(q)'
    <3>1. q.txn = "operation.begin" /\ q.events = BeginEvents(run'[r].op, run'[r].nonce, broker'.gen, run'[r].permit)
      BY <2>0, <2>1, <2>3 DEF Request, SameId
    <3> QED
      BY <2>2, <3>1 DEF Asks
  <2>5. Awaits(q)'
    BY <2>1, <2>2, CallNames DEF Awaits
  <2>6. Unsent(q.call)
    BY <2>1, <2>2 DEF CallsUnsent, BeforeBegin
  <2>7. RunSends(r, q)
    BY <1>1, <2>1, <2>2, <2>3, <2>4, <2>5, <2>6, CallNames DEF RunSends, RunCalls
  <2> QED
    BY <2>7
<1>2. CASE SendsEnd(r) /\ run'[r].at = "finishing"
  <2>0. PICK q : q = Request(EndCall(r), "operation.no-effect", <<NoEffect(run[r].op)>>, clock)
    OBVIOUS
  <2>1. run[r].op \in Ops /\ run[r].nonce \in Nonces /\ run[r].at \in {"releasing", "verifying"} /\ SameId(r)
    BY <1>2 DEF SendsEnd, Moves, Same, SessionTypes, SameId
  <2>2. q \in Requests /\ q.call = EndCall(r) /\ q.at = clock /\ q.txn = "operation.no-effect"
    BY <2>0, <2>1, RunRequests DEF Request
  <2>3. queue' = Append(queue, q) /\ UNCHANGED <<flight, answers, broker>>
    BY <1>2, <2>0 DEF SendsEnd, Posts
  <2>4. Asks(q)'
    <3>1. q.events = <<NoEffect(run'[r].op)>>
      BY <2>0, <2>1 DEF Request, SameId
    <3> QED
      BY <2>2, <3>1 DEF Asks
  <2>5. Awaits(q)'
    BY <1>2, <2>2, CallNames DEF Awaits
  <2>6. Unsent(q.call)
    BY <2>1, <2>2 DEF CallsUnsent, BeforeEnd
  <2>7. RunSends(r, q)
    BY <1>2, <2>1, <2>2, <2>3, <2>4, <2>5, <2>6, CallNames DEF RunSends, RunCalls
  <2> QED
    BY <2>7
<1>3. CASE SendsEnd(r) /\ run'[r].at = "closing"
  <2>0. PICK q : q = Request(EndCall(r), "operation.recovery-required", MarkEvents(r), clock)
    OBVIOUS
  <2>1. run[r].op \in Ops /\ run[r].nonce \in Nonces /\ run[r].at \in {"releasing", "verifying"} /\ SameId(r)
    BY <1>3 DEF SendsEnd, Moves, Same, SessionTypes, SameId
  <2>2. q \in Requests /\ q.call = EndCall(r) /\ q.at = clock /\ q.txn = "operation.recovery-required"
    BY <2>0, <2>1, RunRequests DEF Request
  <2>3. queue' = Append(queue, q) /\ UNCHANGED <<flight, answers, broker>>
    BY <1>3, <2>0 DEF SendsEnd, Posts
  <2>4. Asks(q)'
    <3>1. q.events = MarkEvents(r)'
      BY <2>0, <2>1 DEF Request, SameId, MarkEvents
    <3> QED
      BY <2>2, <3>1 DEF Asks
  <2>5. Awaits(q)'
    BY <1>3, <2>2, CallNames DEF Awaits
  <2>6. Unsent(q.call)
    BY <2>1, <2>2 DEF CallsUnsent, BeforeEnd
  <2>7. RunSends(r, q)
    BY <1>3, <2>1, <2>2, <2>3, <2>4, <2>5, <2>6, CallNames DEF RunSends, RunCalls
  <2> QED
    BY <2>7
<1>4. CASE SendsMarkNow(r)
  <2>0. PICK q : q = Request(MarkCall(r), "operation.recovery-required", MarkEvents(r), clock)
    OBVIOUS
  <2>1. /\ run[r].op \in Ops /\ run[r].nonce \in Nonces /\ SameId(r) /\ run'[r].at = "marking"
        /\ run[r].at \notin {"marking", "recoveryRequired", "ambiguous"}
    BY <1>4 DEF SendsMarkNow, Moves, Same, SessionTypes, SameId
  <2>2. q \in Requests /\ q.call = MarkCall(r) /\ q.at = clock /\ q.txn = "operation.recovery-required"
    BY <2>0, <2>1, RunRequests DEF Request
  <2>3. queue' = Append(queue, q) /\ UNCHANGED <<flight, answers, broker>>
    BY <1>4, <2>0 DEF SendsMarkNow, Posts
  <2>4. Asks(q)'
    <3>1. q.events = MarkEvents(r)'
      BY <2>0, <2>1 DEF Request, SameId, MarkEvents
    <3> QED
      BY <2>2, <3>1 DEF Asks
  <2>5. Awaits(q)'
    BY <2>1, <2>2, CallNames DEF Awaits
  <2>6. Unsent(q.call)
    BY <2>1, <2>2 DEF CallsUnsent
  <2>7. RunSends(r, q)
    BY <1>4, <2>1, <2>2, <2>3, <2>4, <2>5, <2>6, CallNames DEF RunSends, RunCalls
  <2> QED
    BY <2>7
<1> QED
  BY <1>0, <1>1, <1>2, <1>3, <1>4 DEF ByRun, RunKind, Prepares, HearsBegin, Works, Concludes, SendsEnd, Moves

\* A run that moves has no request outstanding.
LEMMA MovesAnswered ==
    ASSUME CallsApart, CallsAsk, NEW r \in Runs, ByRun(r), NEW q \in Outstanding
    PROVE  q.call \notin RunCalls(r)
<1>1. \A a \in answers : a.call # q.call
  BY DEF CallsApart
<1>2. ~Answered(q.call) /\ ~Told(q.call, "persisted")
  BY <1>1 DEF Answered, Told
<1>3. Awaits(q)
  BY DEF CallsAsk
<1>4. q.call = BeginCall(r) => run[r].at = "beginning" /\ ~Answered(BeginCall(r))
  BY <1>2, <1>3 DEF Awaits
<1>5. q.call = EndCall(r) => run[r].at \in {"finishing", "closing"} /\ ~Answered(EndCall(r)) /\ ~Told(EndCall(r), "persisted")
  BY <1>2, <1>3 DEF Awaits
<1>6. q.call = MarkCall(r) => run[r].at = "marking" /\ ~Answered(MarkCall(r)) /\ ~Told(MarkCall(r), "persisted")
  BY <1>2, <1>3 DEF Awaits
<1> QED
  BY <1>4, <1>5, <1>6 DEF RunCalls, ByRun, RunKind, Prepares, SendsBegin, HearsBegin, Works, SendsEnd, SendsMarkNow, Concludes, Moves, BeforeBegin

LEMMA RunCallsStep ==
    ASSUME IInv, SessionTypes, CallsApart, CallsAsk, CallsUnsent, NEW r \in Runs, ByRun(r)
    PROVE  CallsApart' /\ CallsAsk' /\ CallsUnsent'
<1>1. /\ broker'.gen = broker.gen /\ answers' = answers /\ flight' = flight /\ side' = side
      /\ \A s \in Runs : s # r => run'[s] = run[s]
      /\ SameId(r) \/ run[r].at \in BeforeBegin
  BY DEF ByRun, RunKind, Prepares, SendsBegin, HearsBegin, Works, SendsEnd, SendsMarkNow, Concludes, Moves, Same, SameId, Quiet, brokerVars, Posts
<1>2. \A q \in Outstanding : q.call \notin RunCalls(r)
  BY MovesAnswered
<1>3. \A a \in answers : a.call \in RunCalls(r) => SameId(r)
  BY <1>1 DEF CallsUnsent, Unsent, Answered, RunCalls, BeforeEnd, BeforeBegin
<1>4. ASSUME NEW q \in Outstanding \cup answers
      PROVE  Asks(q)'
  <2>1. Asks(q)
    BY DEF CallsAsk
  <2>2. \A s \in Runs : q.call \in RunCalls(s) => SameId(s)
    BY <1>1, <1>2, <1>3 DEF SameId
  <2> QED
    BY <1>1, <2>1, <2>2, AsksStable
<1>5. ASSUME NEW q \in Outstanding
      PROVE  Awaits(q)'
  <2>1. Awaits(q)
    BY DEF CallsAsk
  <2> QED
    BY <1>1, <1>2, <2>1 DEF Awaits, RunCalls
<1>6. ASSUME NEW a \in answers, NEW s \in Runs, a.call = EndCall(s), run'[s].at \in {"finishing", "closing"}
      PROVE  a.txn = IF run'[s].at = "finishing" THEN "operation.no-effect" ELSE "operation.recovery-required"
  <2>1. CASE s # r
    BY <1>1, <1>6, <2>1 DEF CallsAsk
  <2>2. CASE s = r
    <3>1. SendsEnd(r)
      BY <1>6, <2>2 DEF ByRun, RunKind, Prepares, SendsBegin, HearsBegin, Works, SendsMarkNow, Concludes, Moves, BeforeBegin
    <3>2. Unsent(EndCall(r))
      BY <3>1 DEF SendsEnd, Moves, CallsUnsent, BeforeEnd
    <3> QED
      BY <1>6, <2>2, <3>2 DEF Unsent, Answered
  <2> QED
    BY <2>1, <2>2
<1>7. CASE Quiet
  <2>1. queue' = queue /\ Outstanding' = Outstanding
    BY <1>7 DEF Quiet, brokerVars, Outstanding
  <2>2. \A call : Unsent(call)' <=> Unsent(call)
    BY <1>1, <2>1 DEF Unsent, Answered
  <2>3. CallsApart'
    BY <1>1, <2>1 DEF CallsApart
  <2>4. CallsAsk'
    BY <1>1, <1>4, <1>5, <1>6, <2>1 DEF CallsAsk
  <2>5. /\ run'[r].at \in BeforeBegin => run[r].at \in BeforeBegin
        /\ run'[r].at \in BeforeEnd => run[r].at \in BeforeEnd
        /\ run'[r].at \notin {"marking", "recoveryRequired", "ambiguous"} => run[r].at \notin {"marking", "recoveryRequired", "ambiguous"}
    BY DEF ByRun, RunKind, Prepares, SendsBegin, HearsBegin, Works, SendsEnd, SendsMarkNow, Concludes, Moves, BeforeBegin, BeforeEnd
  <2>6. CallsUnsent'
    BY <1>1, <2>2, <2>5 DEF CallsUnsent
  <2> QED
    BY <2>3, <2>4, <2>6
<1>8. ASSUME NEW q, RunSends(r, q)
      PROVE  CallsApart' /\ CallsAsk' /\ CallsUnsent'
  <2>1. q \in Requests /\ queue' = Append(queue, q) /\ UNCHANGED <<flight, answers>> /\ Unsent(q.call)
    BY <1>8 DEF RunSends
  <2>2. /\ Outstanding' = Outstanding \cup {q}
        /\ \A call : Unsent(call)' <=> Unsent(call) /\ q.call # call
    BY <2>1, Posted
  <2>3. CallsApart'
    BY <2>1, PostApart
  <2>4. CallsAsk'
    BY <1>1, <1>4, <1>5, <1>6, <1>8, <2>2 DEF CallsAsk, RunSends
  <2>5. /\ run'[r].at \in BeforeBegin => run[r].at \in BeforeBegin /\ q.call # BeginCall(r)
        /\ run'[r].at \in BeforeEnd => run[r].at \in BeforeEnd /\ q.call # EndCall(r)
        /\ run'[r].at \notin {"marking", "recoveryRequired", "ambiguous"} =>
             run[r].at \notin {"marking", "recoveryRequired", "ambiguous"} /\ q.call # MarkCall(r)
    BY <1>8 DEF RunSends, RunCalls, ByRun, RunKind, Prepares, SendsBegin, HearsBegin, Works, SendsEnd, SendsMarkNow, Concludes, Moves, BeforeBegin, BeforeEnd
  <2>6. q.call \in RunCalls(r)
    BY <1>8 DEF RunSends
  <2>7. \A s \in Runs : s # r => q.call \notin RunCalls(s)
    BY <2>6, CallNames DEF RunCalls
  <2>8. \A c \in Sides : q.call # <<c, "side">>
    BY <2>6, CallNames DEF RunCalls
  <2>9. CallsUnsent'
    BY <1>1, <2>2, <2>5, <2>7, <2>8 DEF CallsUnsent, RunCalls
  <2> QED
    BY <2>3, <2>4, <2>9
<1> QED
  BY <1>7, <1>8, RunSending

SideSending(c, q) ==
  /\ q \in Requests /\ q.call = <<c, "side">> /\ queue' = Append(queue, q) /\ UNCHANGED <<flight, answers, broker>>
  /\ SideForm(q.txn, q.events) /\ side[c].at \in {"idle", "authenticating"} /\ side'[c].at = "appending"
  /\ q.at = clock \/ (side[c].at = "authenticating" /\ side[c].does[1].kind = "transition" /\ q.at = side[c].time)

LEMMA SideSendsOne ==
    ASSUME NEW c \in Sides, BySide(c)
    PROVE  SideQuiet(c) \/ \E q : SideSending(c, q)
<1>1. CASE SideSends(c)
  <2>1. PICK txn \in Txns, events \in Seq(Event), t \in Nat :
          /\ Posts(<<c, "side">>, txn, events, t) /\ SideForm(txn, events)
          /\ \/ t = clock
             \/ side[c].at = "authenticating" /\ side[c].does[1].kind = "transition" /\ t = side[c].time
    BY <1>1 DEF SideSends
  <2>2. PICK q : q = Request(<<c, "side">>, txn, events, t)
    OBVIOUS
  <2>3. <<c, "side">> \in Calls
    BY DEF Calls
  <2>4. q \in Requests /\ q.call = <<c, "side">> /\ q.txn = txn /\ q.events = events /\ q.at = t
    BY <2>2, <2>3 DEF Request, Requests
  <2>5. queue' = Append(queue, q) /\ UNCHANGED <<flight, answers, broker>>
    BY <2>1, <2>2 DEF Posts
  <2>6. side[c].at \in {"idle", "authenticating"} /\ side'[c].at = "appending"
    BY <1>1 DEF SideSends
  <2>7. SideForm(q.txn, q.events)
    BY <2>1, <2>4
  <2>8. q.at = clock \/ (side[c].at = "authenticating" /\ side[c].does[1].kind = "transition" /\ q.at = side[c].time)
    BY <2>1, <2>4
  <2>9. SideSending(c, q)
    BY <2>4, <2>5, <2>6, <2>7, <2>8 DEF SideSending
  <2> QED
    BY <2>9
<1> QED
  BY <1>1 DEF BySide

LEMMA SideCallsStep ==
    ASSUME IInv, SessionTypes, CallsApart, CallsAsk, CallsUnsent, NEW c \in Sides, BySide(c)
    PROVE  CallsApart' /\ CallsAsk' /\ CallsUnsent'
<1>1. /\ broker' = broker /\ answers' = answers /\ flight' = flight /\ run' = run
      /\ \A d \in Sides : d # c => side'[d] = side[d]
  BY DEF BySide, SideQuiet, SideSends, Quiet, brokerVars, Posts
<1>2. ASSUME NEW q \in Outstanding
      PROVE  q.call # <<c, "side">>
  <2>1. Awaits(q) /\ ~Answered(q.call)
    BY DEF CallsAsk, CallsApart, Answered
  <2> QED
    BY <2>1 DEF Awaits, BySide, SideQuiet, SideSends
<1>3. \A q \in Outstanding \cup answers : Asks(q)'
  <2>1. \A q \in Outstanding \cup answers : Asks(q)
    BY DEF CallsAsk
  <2> QED
    BY <1>1, <2>1 DEF Asks, MarkEvents
<1>4. \A q \in Outstanding : Awaits(q)'
  <2>1. \A q \in Outstanding : Awaits(q)
    BY DEF CallsAsk
  <2> QED
    BY <1>1, <1>2, <2>1 DEF Awaits
<1>5. CASE SideQuiet(c)
  <2>1. queue' = queue /\ Outstanding' = Outstanding
    BY <1>5 DEF SideQuiet, Quiet, brokerVars, Outstanding
  <2>2. \A call : Unsent(call)' <=> Unsent(call)
    BY <1>1, <2>1 DEF Unsent, Answered
  <2>3. CallsApart'
    BY <1>1, <2>1 DEF CallsApart
  <2>4. CallsAsk'
    BY <1>1, <1>3, <1>4, <2>1 DEF CallsAsk
  <2>5. CallsUnsent'
    BY <1>1, <1>5, <2>2 DEF CallsUnsent, SideQuiet
  <2> QED
    BY <2>3, <2>4, <2>5
<1>6. ASSUME NEW q, SideSending(c, q)
      PROVE  CallsApart' /\ CallsAsk' /\ CallsUnsent'
  <2>1. Unsent(q.call)
    BY <1>6 DEF CallsUnsent, SideSending
  <2>2. /\ Outstanding' = Outstanding \cup {q}
        /\ \A call : Unsent(call)' <=> Unsent(call) /\ q.call # call
    BY <1>6, Posted DEF SideSending
  <2>3. CallsApart'
    BY <1>6, <2>1, PostApart DEF SideSending
  <2>4. Asks(q)' /\ Awaits(q)'
    BY <1>6, CallNames DEF SideSending, Asks, Awaits
  <2>5. CallsAsk'
    BY <1>1, <1>3, <1>4, <2>2, <2>4 DEF CallsAsk
  <2>6. \A r \in Runs : q.call \notin RunCalls(r)
    BY <1>6, CallNames DEF SideSending, RunCalls
  <2>7. CallsUnsent'
    BY <1>1, <1>6, <2>2, <2>6, CallNames DEF CallsUnsent, SideSending, RunCalls
  <2> QED
    BY <2>3, <2>5, <2>7
<1> QED
  BY <1>5, <1>6, SideSendsOne

LEMMA BrokerSame ==
    ASSUME IInv, SessionTypes, CallsAsk, NEW k \in Nat, SinceInv(k), ByBroker
    PROVE  UNCHANGED <<run, side, hold>> /\ broker'.gen = broker.gen /\ (broker'.alive => broker.alive) /\ (broker'.open => broker.open)
<1>1. broker \in [open : BOOLEAN, alive : BOOLEAN, gen : Nat]
  BY DEF SessionTypes
<1>2. UNCHANGED <<run, side, hold>> /\ BrokerStep
  BY DEF ByBroker
<1>3. CASE broker' = broker
  BY <1>2, <1>3
<1>4. CASE broker' = [broker EXCEPT !.alive = FALSE] \/ broker' = [broker EXCEPT !.open = FALSE]
           \/ broker' = [broker EXCEPT !.open = FALSE, !.alive = FALSE]
  BY <1>1, <1>2, <1>4
<1>5. CASE \E b \in BOOLEAN : broker.open /\ broker' = [broker EXCEPT !.open = b]
  BY <1>1, <1>2, <1>5
<1>6. CASE Serve
  BY <1>3, <1>4, <1>6, ServeKinds DEF Refused, Terminated, Attempts
<1>7. CASE Receive
  <2>1. (flight.reply # "terminal" /\ ~(flight.reply = "persisted" /\ flight.req.txn = "generation-pair.revocation")) \in BOOLEAN
    OBVIOUS
  <2> QED
    BY <1>5, <1>7, <2>1 DEF Receive
<1>8. CASE Send \/ LoseResponse \/ WorkerDies
  BY <1>3, <1>4, <1>8 DEF Send, LoseResponse, WorkerDies
<1> QED
  BY <1>2, <1>6, <1>7, <1>8 DEF BrokerStep

LEMMA BrokerCallsStep ==
    ASSUME IInv, SessionTypes, CallsApart, CallsAsk, CallsUnsent, NEW k \in Nat, SinceInv(k), ByBroker
    PROVE  CallsApart' /\ CallsAsk' /\ CallsUnsent'
<1>1. CallsApart' /\ Delivers
  BY BrokerKinds, BrokerCalls DEF ByBroker
<1>2. UNCHANGED <<run, side, hold>> /\ broker'.gen = broker.gen
  BY BrokerSame
<1>3. \A q : (Asks(q)' <=> Asks(q)) /\ (Awaits(q)' <=> Awaits(q))
  BY <1>2 DEF Asks, Awaits, MarkEvents
<1>4. Outstanding' \subseteq Outstanding
  BY <1>1 DEF Delivers
<1>5. ASSUME NEW a \in answers'
      PROVE  /\ Asks(a)
             /\ \A r \in Runs : a.call = EndCall(r) /\ run[r].at \in {"finishing", "closing"} =>
                  a.txn = IF run[r].at = "finishing" THEN "operation.no-effect" ELSE "operation.recovery-required"
  <2>1. CASE a \in answers
    BY <2>1 DEF CallsAsk
  <2>2. ASSUME NEW q \in Outstanding, NEW v \in Outcomes, a = Answer(q, v)
        PROVE  /\ Asks(a)
               /\ \A r \in Runs : a.call = EndCall(r) /\ run[r].at \in {"finishing", "closing"} =>
                    a.txn = IF run[r].at = "finishing" THEN "operation.no-effect" ELSE "operation.recovery-required"
    <3>1. Asks(q) /\ Awaits(q) /\ a.call = q.call /\ a.txn = q.txn /\ a.events = q.events
      BY <2>2, AnswerParts DEF CallsAsk
    <3>2. Asks(a)
      BY <3>1 DEF Asks
    <3>3. ASSUME NEW r \in Runs, a.call = EndCall(r)
          PROVE  a.txn = "operation.no-effect" \/ a.txn = "operation.recovery-required"
      BY <3>1, <3>3, CallNames DEF Asks
    <3>4. \A r \in Runs : a.call = EndCall(r) => run[r].at = IF a.txn = "operation.no-effect" THEN "finishing" ELSE "closing"
      BY <3>1 DEF Awaits
    <3> QED
      BY <3>2, <3>3, <3>4
  <2> QED
    BY <1>1, <2>1, <2>2, DeliversCalls
<1>6. CallsAsk'
  BY <1>2, <1>3, <1>4, <1>5 DEF CallsAsk
<1>7. CallsUnsent'
  BY <1>1, <1>2, DeliversCalls DEF CallsUnsent
<1> QED
  BY <1>1, <1>6, <1>7

LEMMA CallsStep ==
    ASSUME IInv, SessionTypes, CallsApart, CallsAsk, CallsUnsent, RunInv, NEW k \in Nat, SinceInv(k), [SessionNext]_allVars
    PROVE  CallsApart' /\ CallsAsk' /\ CallsUnsent'
<1>1. CASE Quiescent
  <2>1. UNCHANGED <<broker, queue, flight, answers, run, side>>
    BY <1>1 DEF Quiescent
  <2>2. Outstanding' = Outstanding
    BY <2>1 DEF Outstanding
  <2>3. \A q : (Asks(q)' <=> Asks(q)) /\ (Awaits(q)' <=> Awaits(q)) /\ (Unsent(q)' <=> Unsent(q))
    BY <2>1, <2>2 DEF Asks, Awaits, MarkEvents, Unsent, Answered
  <2>4. CallsApart'
    BY <2>1, <2>2 DEF CallsApart
  <2>5. CallsAsk'
    BY <2>1, <2>2, <2>3 DEF CallsAsk
  <2>6. CallsUnsent'
    BY <2>1, <2>3 DEF CallsUnsent
  <2> QED
    BY <2>4, <2>5, <2>6
<1> QED
  BY <1>1, SessionKinds, RunCallsStep, SideCallsStep, BrokerCallsStep

-----------------------------------------------------------------------------
(* The runs and the hold.                                                  *)

LEMMA RunInvStep ==
    ASSUME IInv, SessionTypes, CallsApart, CallsAsk, CallsUnsent, RunInv, HoldInv, NEW k \in Nat, SinceInv(k), [SessionNext]_allVars
    PROVE  RunInv' /\ HoldInv'
<1>1. CASE Quiescent
  BY <1>1 DEF Quiescent, RunInv, HoldInv, Told
<1>2. CASE ByBroker
  <2>1. Delivers /\ UNCHANGED <<run, side, hold>>
    BY <1>2, BrokerKinds, BrokerCalls DEF ByBroker
  <2> QED
    BY <2>1, DeliversCalls DEF RunInv, HoldInv
<1>3. ASSUME NEW c \in Sides, BySide(c)
      PROVE  RunInv' /\ HoldInv'
  BY <1>3 DEF BySide, SideQuiet, SideSends, Quiet, brokerVars, Posts, RunInv, HoldInv, Told
<1>4. ASSUME NEW r \in Runs, ByRun(r)
      PROVE  RunInv' /\ HoldInv'
  <2>1. answers' = answers /\ (\A s \in Runs : s # r => run'[s] = run[s]) /\ hold' = (hold \/ run'[r].at \in Failing)
    BY <1>4 DEF ByRun, RunKind, Prepares, SendsBegin, HearsBegin, Works, SendsEnd, SendsMarkNow, Concludes, Moves, Quiet, brokerVars, Posts
  <2>2. \A call, says : Told(call, says)' <=> Told(call, says)
    BY <2>1 DEF Told
  <2>3. run[r].at \in Failing => run'[r].at \in Failing
    BY <1>4 DEF ByRun, RunKind, Prepares, SendsBegin, HearsBegin, Works, SendsEnd, SendsMarkNow, Concludes, Moves, BeforeBegin, Failing
  <2>4. run'[r].at \in PastBegin => Told(BeginCall(r), "persisted")
    BY <1>4 DEF RunInv, ByRun, RunKind, Prepares, SendsBegin, HearsBegin, Works, SendsEnd, SendsMarkNow, Concludes, Moves, BeforeBegin, PastBegin, Failing
  <2>5. run'[r].at = "noEffect" => Concludes(r) /\ run[r].at = "finishing" /\ Told(EndCall(r), "persisted")
    BY <1>4 DEF ByRun, RunKind, Prepares, SendsBegin, HearsBegin, Works, SendsEnd, SendsMarkNow, Concludes, Moves, BeforeBegin
  <2>6. run'[r].at = "noEffect" => \E a \in answers : a.call = EndCall(r) /\ a.says = "persisted" /\ a.txn = "operation.no-effect"
    BY <2>5 DEF Told, CallsAsk
  <2>7. run'[r].at = "recoveryRequired" =>
          \/ run[r].at = "closing" /\ Told(EndCall(r), "persisted")
          \/ run[r].at = "marking" /\ Told(MarkCall(r), "persisted")
    BY <1>4 DEF ByRun, RunKind, Prepares, SendsBegin, HearsBegin, Works, SendsEnd, SendsMarkNow, Concludes, Moves, BeforeBegin
  <2>8. ASSUME NEW a \in answers, a.call = MarkCall(r)
        PROVE  a.txn = "operation.recovery-required"
    <3>1. Asks(a)
      BY DEF CallsAsk
    <3> QED
      BY <2>8, <3>1, CallNames DEF Asks
  <2>9. run'[r].at = "recoveryRequired" =>
          \E a \in answers : a.call \in {EndCall(r), MarkCall(r)} /\ a.says = "persisted" /\ a.txn = "operation.recovery-required"
    BY <2>7, <2>8 DEF Told, CallsAsk
  <2>10. run'[r].given > 0 => run'[r].at \in PastBegin
    <3>1. run[r].given \in Nat /\ (run[r].given > 0 => run[r].at \in PastBegin)
      BY DEF RunInv, SessionTypes, RunStates
    <3> QED
      BY <1>4, <3>1 DEF ByRun, RunKind, Prepares, SendsBegin, HearsBegin, Works, SendsEnd, SendsMarkNow, Concludes, Moves, Same, BeforeBegin, PastBegin, Failing
  <2>11. RunInv'
    BY <2>1, <2>2, <2>4, <2>6, <2>9, <2>10 DEF RunInv
  <2>12. HoldInv'
    BY <2>1, <2>3 DEF HoldInv
  <2> QED
    BY <2>11, <2>12
<1> QED
  BY <1>1, <1>2, <1>3, <1>4, SessionKinds

-----------------------------------------------------------------------------
(* What belongs to the session.                                            *)

LEMMA LogKinds ==
    ASSUME IInv, SessionTypes, CallsAsk, RunInv, NEW k \in Nat, SinceInv(k), [SessionNext]_allVars
    PROVE  /\ clock' \in Nat /\ clock <= clock'
           /\ \/ log' = log /\ head' = head
              \/ Serve /\ \E c : Attempts(flight.req, c) /\ (log' = log \/ Extends(c))
<1>0. clock \in Nat /\ TypeOK
  BY DEF IInv, TypeOK
<1>1. CASE Quiescent
  BY <1>1 DEF Quiescent
<1>2. CASE (\E r \in Runs : ByRun(r)) \/ (\E c \in Sides : BySide(c))
  BY <1>0, <1>2 DEF ByRun, BySide, vars
<1>3. CASE ByBroker
  <2>1. CASE Serve
    <3>1. clock' = clock
      BY <2>1, ServeKinds
    <3>2. CASE Refused(flight.req) \/ Terminated(flight.req)
      BY <1>0, <3>1, <3>2 DEF Refused, Terminated
    <3>3. ASSUME NEW c, Attempts(flight.req, c)
          PROVE  log' = log \/ Extends(c)
      BY <1>0, <3>3, TriedExtends DEF Attempts
    <3> QED
      BY <1>0, <2>1, <3>1, <3>2, <3>3, ServeKinds
  <2>2. CASE Send \/ Receive \/ LoseResponse \/ WorkerDies
    BY <1>0, <2>2 DEF Send, Receive, LoseResponse, WorkerDies, vars
  <2> QED
    BY <1>3, <2>1, <2>2 DEF ByBroker, BrokerStep
<1> QED
  BY <1>1, <1>2, <1>3, SessionKinds

LEMMA SinceStep ==
    ASSUME IInv, SessionTypes, CallsApart, CallsAsk, CallsUnsent, RunInv, NEW k \in Nat, SinceInv(k), [SessionNext]_allVars
    PROVE  SinceInv(k)'
<1>0. clock \in Nat /\ clock' \in Nat /\ clock <= clock' /\ TypeOK /\ \A q \in Outstanding : q \in Requests
  BY LogKinds, RequestTypes DEF IInv, TypeOK
<1>1. k <= Len(log') /\ \A n \in DOMAIN log' : n <= k => log'[n].at <= k
  <2>1. CASE log' = log
    BY <2>1 DEF SinceInv
  <2>2. ASSUME NEW c, Extends(c)
        PROVE  k <= Len(log') /\ \A n \in DOMAIN log' : n <= k => log'[n].at <= k
    BY <1>0, <2>2, Extended DEF SinceInv
  <2> QED
    BY <2>1, <2>2, LogKinds
<1>2. /\ \A q \in Outstanding : k < q.at /\ q.at <= clock'
      /\ \A c \in Sides : side[c].at = "authenticating" /\ side[c].does[1].kind = "transition" =>
           k < side[c].time /\ side[c].time <= clock'
  <2>1. \A c \in Sides : side[c].time \in Nat
    BY DEF SessionTypes, SideStates
  <2> QED
    BY <1>0, <2>1 DEF SinceInv, Requests
<1>3. CASE Quiescent
  <2>1. Outstanding' = Outstanding
    BY <1>3 DEF Quiescent, Outstanding
  <2> QED
    BY <1>0, <1>1, <1>2, <1>3, <2>1 DEF Quiescent, SinceInv
<1>4. CASE ByBroker
  <2>1. Delivers /\ side' = side
    BY <1>4, BrokerKinds, BrokerCalls DEF ByBroker
  <2>2. \A q \in Outstanding' : k < q.at /\ q.at <= clock'
    BY <1>2, <2>1 DEF Delivers
  <2>3. \A a \in answers' : k < a.at
    BY <1>2, <2>1, DeliversCalls, AnswerParts DEF SinceInv
  <2> QED
    BY <1>0, <1>1, <1>2, <2>1, <2>2, <2>3 DEF SinceInv
<1>5. ASSUME NEW r \in Runs, ByRun(r)
      PROVE  SinceInv(k)'
  <2>1. side' = side /\ answers' = answers
    BY <1>5 DEF ByRun, RunKind, Prepares, SendsBegin, HearsBegin, Works, SendsEnd, SendsMarkNow, Concludes, Quiet, brokerVars, Posts
  <2>2. CASE Quiet
    <3>1. Outstanding' = Outstanding
      BY <2>2 DEF Quiet, brokerVars, Outstanding
    <3> QED
      BY <1>0, <1>1, <1>2, <2>1, <3>1 DEF SinceInv
  <2>3. ASSUME NEW q, RunSends(r, q)
        PROVE  SinceInv(k)'
    <3>1. Outstanding' = Outstanding \cup {q} /\ q.at = clock
      BY <2>3, Posted DEF RunSends
    <3> QED
      BY <1>0, <1>1, <1>2, <2>1, <3>1 DEF SinceInv
  <2> QED
    BY <1>5, <2>2, <2>3, RunSending
<1>6. ASSUME NEW c \in Sides, BySide(c)
      PROVE  SinceInv(k)'
  <2>1. answers' = answers /\ \A d \in Sides : d # c => side'[d] = side[d]
    BY <1>6 DEF BySide, SideQuiet, SideSends, Quiet, brokerVars, Posts
  <2>2. CASE SideQuiet(c)
    <3>1. Outstanding' = Outstanding
      BY <2>2 DEF SideQuiet, Quiet, brokerVars, Outstanding
    <3>2. side'[c].at = "authenticating" /\ side'[c].does[1].kind = "transition" => side'[c].time = clock
      BY <2>2 DEF SideQuiet
    <3> QED
      BY <1>0, <1>1, <1>2, <2>1, <3>1, <3>2 DEF SinceInv
  <2>3. ASSUME NEW q, SideSending(c, q)
        PROVE  SinceInv(k)'
    <3>1. Outstanding' = Outstanding \cup {q}
      BY <2>3, Posted DEF SideSending
    <3>2. k < q.at /\ q.at <= clock'
      BY <1>0, <1>2, <2>3 DEF SideSending, SinceInv
    <3>3. side'[c].at # "authenticating"
      BY <2>3 DEF SideSending
    <3> QED
      BY <1>0, <1>1, <1>2, <2>1, <3>1, <3>2, <3>3 DEF SinceInv
  <2> QED
    BY <1>6, <2>2, <2>3, SideSendsOne
<1> QED
  BY <1>3, <1>4, <1>5, <1>6, SessionKinds

-----------------------------------------------------------------------------
(* What the answers say of the store.                                      *)

LEMMA FlightTypes ==
    ASSUME IInv, SessionTypes
    PROVE  /\ flight # None => flight \in Flights /\ flight.req \in Requests /\ flight.prior.seq \in Nat
           /\ \A v \in {"persisted", "rejected", "terminal"} : flight # None => LET f == [flight EXCEPT !.reply = v] IN
                f.req = flight.req /\ f.prior = flight.prior /\ f.reply = v /\ f # None
           /\ head \in Nat /\ Len(log) \in Nat /\ DOMAIN log = 1..Len(log) /\ head <= Len(log)
           /\ broker \in [open : BOOLEAN, alive : BOOLEAN, gen : Nat]
           /\ "unanchored_commit" \in Seen <=> Len(log) > head
<1>1. flight # None => flight \in Flights /\ flight.req \in Requests /\ flight.prior.seq \in Nat
  BY DEF SessionTypes, Flights, Inspections
<1>2. ASSUME NEW v \in {"persisted", "rejected", "terminal"}, flight # None
      PROVE  LET f == [flight EXCEPT !.reply = v] IN
             f.req = flight.req /\ f.prior = flight.prior /\ f.reply = v /\ f # None
  <2> DEFINE f == [flight EXCEPT !.reply = v]
  <2>1. f \in Flights /\ f.req = flight.req /\ f.prior = flight.prior /\ f.reply = v
    BY <1>1, <1>2 DEF Flights
  <2>2. f # None
    BY <2>1, NoneIsNothing
  <2> QED
    BY <2>1, <2>2
<1>3. "unanchored_commit" \in Seen <=> Len(log) > head
  BY DEF Seen, ReasonsSeen
<1> QED
  BY <1>1, <1>2, <1>3 DEF IInv, TypeOK, DiskInv, SessionTypes

\* When the request in flight is answered, every commit has its answer.
LEMMA Answering ==
    ASSUME IInv, SessionTypes, NEW k \in Nat, WritesInv(k), flight # None, UNCHANGED <<log, head>>,
           NEW v, answers' = answers \cup {Answer(flight.req, v)},
           v \in {"absent", "closed"} => Settled(k, Len(log)),
           flight' = None
    PROVE  WritesInv(k)'
<1>1. Len(log) \in Nat /\ DOMAIN log = 1..Len(log)
  BY FlightTypes
<1>2. ASSUME NEW n \in DOMAIN log, k < n
      PROVE  \E a \in answers' : WrittenBy(a, n)
  <2>1. CASE Settled(k, Len(log))
    BY <1>1, <1>2, <2>1 DEF Settled
  <2>2. CASE ~Settled(k, Len(log))
    <3>1. Touched /\ Settled(k, Len(log) - 1)
      BY <2>2 DEF WritesInv
    <3>2. CASE n = Len(log)
      <4>1. Wrote(flight.req, n) /\ v \notin {"absent", "closed"}
        BY <2>2, <3>1, <3>2 DEF Touched
      <4>2. WrittenBy(Answer(flight.req, v), n)
        BY <4>1, AnswerParts DEF WrittenBy, Wrote
      <4> QED
        BY <4>2
    <3>3. CASE n # Len(log)
      BY <1>1, <1>2, <3>1, <3>3 DEF Settled
    <3> QED
      BY <3>2, <3>3
  <2> QED
    BY <2>1, <2>2
<1>3. Settled(k, Len(log))'
  BY <1>2 DEF Settled, WrittenBy, Wrote
<1> QED
  BY <1>3 DEF WritesInv

LEMMA ServeWrites ==
    ASSUME IInv, SessionTypes, CallsAsk, RunInv, NEW k \in Nat, SinceInv(k), WritesInv(k), AnswersInv, Serve
    PROVE  WritesInv(k)' /\ AnswersInv'
<1>1. flight # None /\ flight.reply = None /\ broker.alive /\ answers' = answers
  BY ServeKinds DEF Serve
<1>2. Untouched
  BY <1>1 DEF WritesInv
<1>a. Settled(k, Len(log))
  <2>1. ~Touched \/ Len(log) - 1 >= head
    BY <1>2, FlightTypes DEF Untouched, Touched
  <2>2. ~Touched
    BY <1>2, <2>1, FlightTypes DEF Untouched, Touched
  <2> QED
    BY <1>1, <2>2 DEF WritesInv
<1>3. flight' # None /\ flight'.req = flight.req /\ flight'.prior = flight.prior
  <2>1. flight' = flight \/ \E v \in {"persisted", "rejected", "terminal"} : flight' = [flight EXCEPT !.reply = v]
    BY ServeKinds DEF Refused, Terminated, Attempts
  <2> QED
    BY <1>1, <2>1, FlightTypes
<1>4. ASSUME UNCHANGED <<log, head>>, flight'.reply # "persisted"
      PROVE  WritesInv(k)' /\ AnswersInv'
  <2>1. Untouched' /\ Settled(k, Len(log))'
    BY <1>1, <1>2, <1>a, <1>3, <1>4 DEF Untouched, Settled, WrittenBy, Wrote
  <2>2. AnswersInv'
    BY <1>1, <1>4 DEF AnswersInv, Wrote
  <2> QED
    BY <1>3, <1>4, <2>1, <2>2 DEF WritesInv
<1>5. ASSUME NEW c, Extends(c), c.txn = flight.req.txn, c.events = flight.req.events, c.at = flight.req.at,
             Clean, head' \in Nat, head <= head', flight'.reply = None => ~broker'.alive,
             flight'.reply = "persisted" => head' = head + 1
      PROVE  WritesInv(k)' /\ AnswersInv'
  <2>1. /\ Len(log') = Len(log) + 1 /\ log'[Len(log) + 1] = c /\ \A n \in DOMAIN log : log'[n] = log[n]
        /\ DOMAIN log' = 1..(Len(log) + 1)
    BY <1>5, Extended DEF IInv
  <2>2. Len(log) = head /\ head = flight.prior.seq /\ "unanchored_commit" \notin flight.prior.reasons
    BY <1>2, <1>5, FlightTypes DEF Clean, Untouched
  <2>3. Touched'
    BY <1>3, <1>5, <2>1, <2>2, FlightTypes DEF Touched, Wrote
  <2>4. Settled(k, Len(log) - 1)'
    BY <1>a, <1>1, <2>1, FlightTypes DEF Settled, WrittenBy, Wrote
  <2>6. AnswersInv'
    BY <1>1, <1>5, <2>1, FlightTypes DEF AnswersInv, Wrote
  <2> QED
    BY <1>3, <1>5, <2>1, <2>2, <2>3, <2>4, <2>6 DEF WritesInv
<1>6. CASE Refused(flight.req) \/ Terminated(flight.req)
  <2>1. flight'.reply # "persisted"
    BY <1>1, <1>6, FlightTypes DEF Refused, Terminated
  <2> QED
    BY <1>4, <1>6, <2>1 DEF Refused, Terminated
<1>7. ASSUME NEW c, Attempts(flight.req, c)
      PROVE  WritesInv(k)' /\ AnswersInv'
  <2>1. Tries(c) /\ Clean /\ c.txn = flight.req.txn /\ c.events = flight.req.events /\ c.at = flight.req.at
    BY <1>7 DEF Attempts, Tries
  <2>2. log' = log \/ Extends(c)
    BY <2>1, TriedExtends DEF IInv
  <2>3. log' = Append(log, c) => log' # log
    BY FlightTypes DEF IInv, TypeOK
  <2>4. CASE Completes(c) /\ flight' = [flight EXCEPT !.reply = "persisted"]
    <3>1. Extends(c) /\ head' = head + 1
      BY <2>2, <2>3, <2>4 DEF Completes
    <3>2. flight'.reply = "persisted"
      BY <1>1, <2>4, FlightTypes
    <3> QED
      BY <1>5, <2>1, <3>1, <3>2, FlightTypes, NoneIsNothing
  <2>5. CASE (\E stage \in CutStages, killed \in BOOLEAN : Cut(c, stage, killed))
             /\ (flight' = [flight EXCEPT !.reply = "rejected"] \/ (flight' = flight /\ broker' = [broker EXCEPT !.alive = FALSE]))
    <3>1. flight'.reply # "persisted"
      BY <1>1, <2>5, FlightTypes, NoneIsNothing
    <3>2. flight'.reply = None => ~broker'.alive
      BY <1>1, <2>5, FlightTypes, NoneIsNothing
    <3>3. (log' = log /\ head' = head) \/ (log' = Append(log, c) /\ head' \in {head, head + 1})
      BY <2>5 DEF Cut
    <3> QED
      BY <1>4, <1>5, <2>1, <2>2, <2>3, <3>1, <3>2, <3>3, FlightTypes
  <2> QED
    BY <1>7, <2>4, <2>5 DEF Attempts, ErrorStages, CutStages
<1> QED
  BY <1>6, <1>7, ServeKinds

LEMMA WritesStep ==
    ASSUME IInv, SessionTypes, CallsAsk, RunInv, NEW k \in Nat, SinceInv(k), WritesInv(k), AnswersInv, [SessionNext]_allVars
    PROVE  WritesInv(k)' /\ AnswersInv'
<1>1. ASSUME UNCHANGED <<log, head, flight, answers>>, broker' = broker \/ broker' = [broker EXCEPT !.alive = FALSE]
             \/ (flight # None /\ broker' = [broker EXCEPT !.open = FALSE, !.alive = FALSE])
      PROVE  WritesInv(k)' /\ AnswersInv'
  <2>1. (broker'.alive => broker.alive) /\ (flight = None => broker'.open = broker.open)
    BY <1>1, FlightTypes
  <2>2. WritesInv(k)'
    BY <1>1, <2>1 DEF WritesInv, Settled, WrittenBy, Wrote, Untouched, Touched
  <2>3. AnswersInv'
    BY <1>1, <2>1 DEF AnswersInv, Wrote
  <2> QED
    BY <2>2, <2>3
<1>2. CASE Quiescent
  BY <1>1, <1>2 DEF Quiescent
<1>3. CASE (\E r \in Runs : ByRun(r)) \/ (\E c \in Sides : BySide(c))
  <2>1. UNCHANGED <<log, head, flight, answers, broker>>
    BY <1>3 DEF ByRun, RunKind, Prepares, SendsBegin, HearsBegin, Works, SendsEnd, SendsMarkNow, Concludes, Quiet, brokerVars, Posts,
       vars, BySide, SideQuiet, SideSends
  <2> QED
    BY <1>1, <2>1
<1>4. CASE WorkerDies
  BY <1>1, <1>4 DEF WorkerDies
<1>5. CASE Send /\ broker.open
  <2>1. flight = None /\ flight' = [req |-> Head(queue), prior |-> Inspection, reply |-> None] /\ UNCHANGED <<vars, broker, answers>>
    BY <1>5 DEF Send
  <2>2. flight' # None
    <3>1. Head(queue) \in Requests
      BY <1>5, QueueTail DEF Send, SessionTypes
    <3>2. flight' \in Flights
      BY <2>1, <3>1, SeenIsText DEF Flights
    <3> QED
      BY <3>2, NoneIsNothing
  <2>3. Untouched'
    BY <2>1, FlightTypes DEF Untouched, Inspection, vars
  <2>4. Settled(k, Len(log))'
    BY <2>1 DEF WritesInv, Settled, WrittenBy, Wrote, vars
  <2>5. WritesInv(k)'
    BY <2>1, <2>3, <2>4, NoneIsNothing DEF WritesInv
  <2>6. AnswersInv'
    BY <1>5, <2>1 DEF AnswersInv, Wrote, vars
  <2> QED
    BY <2>5, <2>6
<1>6. CASE Send /\ ~broker.open
  <2>1. flight = None /\ flight' = None /\ answers' = answers \cup {Answer(Head(queue), "closed")} /\ UNCHANGED <<vars, broker>>
    BY <1>6 DEF Send, Tell, Answer
  <2>2. Settled(k, Len(log))'
    BY <2>1 DEF WritesInv, Settled, WrittenBy, Wrote, vars
  <2>3. AnswersInv'
    BY <1>6, <2>1, AnswerParts DEF AnswersInv, Wrote, vars
  <2> QED
    BY <2>1, <2>2, <2>3 DEF WritesInv
<1>7. CASE Receive
  <2> DEFINE v == IF flight.reply = "persisted" THEN "persisted" ELSE "rejected"
  <2>1. /\ flight # None /\ flight' = None /\ answers' = answers \cup {Answer(flight.req, v)} /\ UNCHANGED vars /\ broker.open
    BY <1>7 DEF Receive, Tell, Answer
  <2>2. v \notin {"absent", "closed"} /\ (v = "persisted" => flight.reply = "persisted")
    OBVIOUS
  <2> HIDE DEF v
  <2>3. WritesInv(k)'
    BY <2>1, <2>2, Answering DEF vars
  <2>4. v = "persisted" => head \in 1..head /\ Wrote(Answer(flight.req, v), head)
    <3>1. v = "persisted" => Touched /\ head = Len(log)
      BY <2>1, <2>2 DEF WritesInv
    <3> QED
      BY <2>1, <3>1, FlightTypes, AnswerParts DEF Touched, Wrote
  <2>5. AnswersInv'
    BY <2>1, <2>2, <2>4, AnswerParts DEF AnswersInv, Wrote, vars
  <2> QED
    BY <2>3, <2>5
<1>8. CASE LoseResponse /\ broker.alive
  BY <1>1, <1>8 DEF LoseResponse
<1>9. CASE LoseResponse /\ ~broker.alive
  <2>1. PICK v \in {Reconciled(flight.req, flight.prior), "ambiguous"} :
          /\ flight # None /\ flight' = None /\ answers' = answers \cup {Answer(flight.req, v)} /\ UNCHANGED <<log, head>>
          /\ broker' = [broker EXCEPT !.open = FALSE]
    BY <1>9 DEF LoseResponse, Tell, Answer
  <2>2. /\ v = "absent" => Inspection = flight.prior
        /\ v = "persisted" => head = flight.prior.seq + 1
        /\ v # "closed"
    BY <2>1 DEF Reconciled
  <2>3. v = "absent" => Settled(k, Len(log))
    <3>1. v = "absent" => flight.prior.seq = head /\ flight.prior.reasons = Seen
      BY <2>2 DEF Inspection
    <3>2. v = "absent" => ~Touched
      BY <3>1, FlightTypes DEF Touched
    <3> QED
      BY <2>1, <3>2 DEF WritesInv
  <2>4. v = "persisted" => head \in 1..head /\ Wrote(Answer(flight.req, v), head)
    <3>1. v = "persisted" => Touched
      BY <2>1, <2>2, FlightTypes DEF WritesInv, Untouched
    <3> QED
      BY <2>1, <2>2, <3>1, FlightTypes, AnswerParts DEF Touched, Wrote
  <2>5. WritesInv(k)'
    BY <2>1, <2>2, <2>3, Answering
  <2>6. ~broker'.open
    BY <2>1, FlightTypes
  <2>7. AnswersInv'
    BY <2>1, <2>4, <2>6, AnswerParts DEF AnswersInv, Wrote
  <2> QED
    BY <2>5, <2>7
<1> QED
  BY <1>2, <1>3, <1>4, <1>5, <1>6, <1>7, <1>8, <1>9, ServeWrites, SessionKinds DEF ByBroker, BrokerStep

-----------------------------------------------------------------------------
(* Who may begin an operation.                                             *)

LEMMA GuardQuiet ==
    ASSUME SessionTypes, GuardInv, UNCHANGED <<log, head, pending, mutex, lock, run>>, broker'.alive => broker.alive,
           \A call : Done(call)' <=> Done(call)
    PROVE  GuardInv'
<1>1. UNCHANGED <<All, Reasons>>
  BY DEF All, Reasons, ReasonsSeen, Holder, Now, Anchored
<1>2. \A r \in Runs : (EndedClean(r)' <=> EndedClean(r)) /\ (Guarded(r) => Guarded(r)')
  BY <1>1 DEF EndedClean, Guarded
<1> QED
  BY <1>1, <1>2 DEF GuardInv

\* A worker that dies begins nothing more.
LEMMA GuardDead ==
    ASSUME IInv, GuardInv, UNCHANGED <<log, run>>, lock' \in {lock, Orphaned(lock)}, ~broker'.alive,
           \A call : Done(call)' => Done(call) \/ (lock = None /\ \A r \in Runs : call # BeginCall(r))
    PROVE  GuardInv'
<1>1. All' = All /\ \A r \in Runs : Guarded(r)'
  BY DEF All, Guarded
<1>2. lock' # None => lock # None /\ lock'.whole = lock.whole /\ lock'.op = lock.op
  BY DEF Orphaned, IInv, TypeOK, Leases
<1>3. \A r \in Runs : Done(BeginCall(r))' => Done(BeginCall(r))
  OBVIOUS
<1>4. \A r \in Runs : EndedClean(r)' => EndedClean(r) \/ lock = None
  BY DEF EndedClean
<1> QED
  BY <1>1, <1>2, <1>3, <1>4 DEF GuardInv

LEMMA GuardRunStep ==
    ASSUME IInv, SessionTypes, CallsApart, CallsAsk, CallsUnsent, RunInv, GuardInv, NEW r \in Runs, ByRun(r)
    PROVE  GuardInv'
<1>1. UNCHANGED <<vars, broker, answers, flight>> /\ \A s \in Runs : s # r => run'[s] = run[s]
  BY DEF ByRun, RunKind, Prepares, SendsBegin, HearsBegin, Works, SendsEnd, SendsMarkNow, Concludes, Moves, Quiet, brokerVars, Posts
<1>2. UNCHANGED <<All, Reasons, lock>> /\ \A call : Done(call)' <=> Done(call)
  BY <1>1 DEF vars, All, Reasons, ReasonsSeen, Holder, Now, Anchored, Done, Told
<1>3. \A call : Unsent(call) => ~Done(call)
  BY RequestTypes DEF Unsent, Done, Told, Answered
<1>4. \A call : Answered(call) /\ ~Told(call, "persisted") => ~Done(call)
  BY RequestTypes DEF Done, Answered, CallsApart
<1>5. Done(BeginCall(r)) => run'[r].op = run[r].op
  BY <1>3 DEF ByRun, RunKind, Prepares, SendsBegin, HearsBegin, Works, SendsEnd, SendsMarkNow, Concludes, Moves, Same, CallsUnsent
<1>6. EndedClean(r)' <=> EndedClean(r)
  <2>1. CASE Done(EndCall(r))
    <3>1. run[r].at \notin BeforeEnd
      BY <1>3, <2>1 DEF CallsUnsent
    <3>2. run[r].at = "finishing" => run'[r].at = "noEffect"
      BY <1>4, <2>1, <3>1 DEF ByRun, RunKind, Prepares, SendsBegin, HearsBegin, Works, SendsEnd, SendsMarkNow, Concludes, Moves, BeforeBegin, BeforeEnd
    <3>3. run[r].at # "noEffect" /\ (run[r].at # "finishing" => run'[r].at \notin {"finishing", "noEffect"})
      BY <3>1 DEF ByRun, RunKind, Prepares, SendsBegin, HearsBegin, Works, SendsEnd, SendsMarkNow, Concludes, Moves, BeforeBegin, BeforeEnd
    <3> QED
      BY <1>2, <3>2, <3>3 DEF EndedClean
  <2> QED
    BY <1>2, <2>1 DEF EndedClean
<1>7. \A s \in Runs : Done(BeginCall(s)) => run'[s].op = run[s].op /\ (EndedClean(s)' <=> EndedClean(s))
  BY <1>1, <1>2, <1>5, <1>6 DEF EndedClean
<1>8. \A s \in Runs : Done(BeginCall(s)) => (Guarded(s)' <=> Guarded(s))
  BY <1>1, <1>2, <1>7 DEF Guarded
<1> QED
  BY <1>2, <1>7, <1>8 DEF GuardInv

\* A begin is accepted for an operation that was never begun.
LEMMA BeginIsNew ==
    ASSUME IInv, SessionTypes, CallsAsk, NEW q \in Outstanding, q.txn = "operation.begin",
           NEW c, Tries(c), c.txn = q.txn, c.events = q.events, c.at = q.at
    PROVE  \E s \in Runs :
             /\ q.call = BeginCall(s) /\ run[s].at = "beginning" /\ HeldLock(q) = Lease(run[s].op, run[s].nonce, q.at)
             /\ \A o \in Operations(All) : o.op # run[s].op
             /\ log' = Append(log, c) => \E o \in Operations(All)' : o.op = run[s].op
<1>1. Asks(q) /\ Awaits(q)
  BY DEF CallsAsk
<1>2. PICK s \in Runs :
        q.call = BeginCall(s) /\ q.events = BeginEvents(run[s].op, run[s].nonce, broker.gen, run[s].permit)
  BY <1>1 DEF Asks, SideForm
<1> DEFINE e == Started(run[s].op, run[s].nonce, broker.gen, run[s].permit)   j == Len(q.events)
<1>3. q.events[j] = e /\ j \in DOMAIN q.events
  BY <1>2 DEF BeginEvents
<1>4. e.op = run[s].op /\ e.nonce = run[s].nonce /\ e.kind = "started"
  BY EventParts
<1> HIDE DEF e, j
<1>5. HeldLock(q) = Lease(run[s].op, run[s].nonce, q.at)
  BY <1>3, <1>4 DEF HeldLock, j
<1>6. run[s].at = "beginning"
  BY <1>1, <1>2 DEF Awaits
<1>7. \A o \in Operations(All) : o.op # run[s].op
  <2>1. EventsApply(All, q.events, q.at)
    BY DEF Tries, Appendable, All
  <2> DEFINE F == All \cup { [at |-> q.at, says |-> q.events[i]] : i \in 1..(j - 1) }
  <2>2. ApplyEvent(F, e, q.at)
    BY <1>3, <2>1 DEF EventsApply
  <2>3. StartApplies(F, e, q.at)
    BY <1>4, <2>2 DEF ApplyEvent
  <2>4. Operations(All) \subseteq Operations(F)
    BY DEF Operations, Said
  <2> HIDE DEF F
  <2> QED
    BY <1>4, <2>3, <2>4 DEF StartApplies
<1>8. ASSUME log' = Append(log, c)
      PROVE  \E o \in Operations(All)' : o.op = run[s].op
  <2>1. All' = All \cup Says(c)
    BY <1>8, FactsAppend DEF Tries, IInv, TypeOK, All
  <2>2. [at |-> c.at, says |-> e] \in All'
    BY <1>3, <2>1 DEF Says
  <2>3. [at |-> c.at, says |-> e] \in Said(All, "started")'
    BY <1>4, <2>2 DEF Said
  <2> QED
    <3>1. PICK f : f \in Said(All, "started")' /\ f.says.op = run[s].op
      BY <1>4, <2>3
    <3> DEFINE o == [op |-> f.says.op, nonce |-> f.says.nonce, gen |-> f.says.gen, permit |-> f.says.permit, started |-> f.at]
    <3>2. o \in Operations(All)' /\ o.op = run[s].op
      BY <3>1 DEF Operations
    <3> QED
      BY <3>2
<1> QED
  BY <1>2, <1>5, <1>6, <1>7, <1>8

\* An end names the operation of its caller, which was told that it had begun.
LEMMA EndIsOwn ==
    ASSUME IInv, SessionTypes, CallsAsk, RunInv, NEW q \in Outstanding, q.txn \in EndTxns
    PROVE  \E s \in Runs :
             /\ q.call \in {EndCall(s), MarkCall(s)} /\ q.events[Len(q.events)].op = run[s].op
             /\ Told(BeginCall(s), "persisted") /\ Len(q.events) \in DOMAIN q.events
             /\ q.txn = "operation.no-effect" => q.call = EndCall(s) /\ run[s].at = "finishing"
             /\ q.txn = "operation.recovery-required" => q.events[Len(q.events)] = Ambiguous(run[s].op)
<1>1. Asks(q) /\ Awaits(q)
  BY DEF CallsAsk
<1>2. ASSUME NEW s \in Runs, q.call = EndCall(s), q.txn = "operation.no-effect", q.events = <<NoEffect(run[s].op)>>
      PROVE  /\ q.events[Len(q.events)].op = run[s].op /\ Len(q.events) \in DOMAIN q.events
             /\ run[s].at = "finishing" /\ Told(BeginCall(s), "persisted")
  <2>1. run[s].at = "finishing"
    BY <1>1, <1>2 DEF Awaits
  <2>2. q.events[Len(q.events)] = NoEffect(run[s].op) /\ Len(q.events) \in DOMAIN q.events
    BY <1>2
  <2> QED
    BY <2>1, <2>2, EventParts DEF RunInv, PastBegin
<1>3. ASSUME NEW s \in Runs, q.call \in {EndCall(s), MarkCall(s)}, q.txn = "operation.recovery-required", q.events = MarkEvents(s)
      PROVE  /\ q.events[Len(q.events)] = Ambiguous(run[s].op) /\ q.events[Len(q.events)].op = run[s].op
             /\ Len(q.events) \in DOMAIN q.events /\ Told(BeginCall(s), "persisted")
  <2>1. run[s].at \in {"closing", "marking"}
    BY <1>1, <1>3 DEF Awaits
  <2>2. q.events[Len(q.events)] = Ambiguous(run[s].op) /\ Len(q.events) \in DOMAIN q.events
    BY <1>3 DEF MarkEvents
  <2> QED
    BY <2>1, <2>2, EventParts DEF RunInv, PastBegin, Failing
<1>4. (\E s \in Runs : q.call = EndCall(s) /\ q.txn = "operation.no-effect" /\ q.events = <<NoEffect(run[s].op)>>)
      \/ (\E s \in Runs : q.call \in {EndCall(s), MarkCall(s)} /\ q.txn = "operation.recovery-required" /\ q.events = MarkEvents(s))
  BY <1>1 DEF Asks, EndTxns, SideForm
<1> QED
  BY <1>2, <1>3, <1>4

LEMMA NothingDue ==
    ASSUME IInv, Reasons = {}
    PROVE  Len(log) = head /\ Now = All /\ Said(Now, "ambiguous") = {} /\ (lock # None => lock.whole /\ lock.alive)
<1>1. Len(log) = head
  BY CleanPublish DEF IInv
<1>2. Said(Now, "ambiguous") = {}
  BY DEF Reasons, ReasonsSeen, Hold
<1>3. lock # None => lock.whole /\ lock.alive
  BY DEF Reasons, ReasonsSeen
<1> QED
  BY <1>1, <1>2, <1>3, NowIsAll DEF IInv

LEMMA ServeGuard ==
    ASSUME IInv, SessionTypes, CallsAsk, RunInv, NEW k \in Nat, SinceInv(k), GuardInv, Serve, UNCHANGED run
    PROVE  GuardInv'
<1> DEFINE q == flight.req
<1>1. flight # None /\ flight.reply = None /\ broker.alive /\ answers' = answers /\ q \in Outstanding
  BY ServeKinds, RequestTypes DEF Serve
<1>2. \A call : Done(call) <=> Told(call, "persisted")
  BY <1>1, NoneIsNothing DEF Done
<1>3. \A call : Told(call, "persisted")' <=> Told(call, "persisted")
  BY <1>1 DEF Told
<1>a. \A v \in {"persisted", "rejected", "terminal"} : flight' = [flight EXCEPT !.reply = v] =>
        flight' # None /\ flight'.req = q /\ flight'.reply = v
  BY <1>1, FlightTypes
<1>4. (flight' = flight \/ flight' = [flight EXCEPT !.reply = "rejected"] \/ flight' = [flight EXCEPT !.reply = "terminal"])
        => \A call : Done(call)' <=> Done(call)
  BY <1>1, <1>2, <1>3, <1>a, NoneIsNothing DEF Done
<1>5. flight' = [flight EXCEPT !.reply = "persisted"] => \A call : Done(call)' <=> (Done(call) \/ q.call = call)
  BY <1>2, <1>3, <1>a DEF Done
<1> HIDE DEF q
<1>6. CASE Refused(q)
  BY <1>4, <1>6, GuardQuiet DEF Refused
<1>7. CASE Terminated(q)
  <2>1. ~broker'.alive
    BY <1>7, FlightTypes DEF Terminated
  <2> QED
    BY <1>4, <1>7, <2>1, GuardDead DEF Terminated
<1>8. ASSUME NEW c, Attempts(q, c)
      PROVE  GuardInv'
  <2>1. Tries(c) /\ c.txn = q.txn /\ c.events = q.events /\ c.at = q.at /\ Reasons = {} /\ Callable(q) /\ Clean
    BY <1>8 DEF Attempts, Tries
  <2>2. Len(log) = head /\ Now = All /\ Said(Now, "ambiguous") = {} /\ (lock # None => lock.whole /\ lock.alive)
    BY <2>1, NothingDue
  <2>3. log' = log \/ (log' = Append(log, c) /\ Extends(c))
    <3>1. log' = log \/ Extends(c)
      BY <2>1, TriedExtends DEF IInv
    <3> QED
      BY <3>1 DEF Extends
  <2>4. Operations(All) \subseteq Operations(All)'
    <3>1. All \subseteq All'
      BY <2>3, AllGrows DEF All, IInv
    <3> QED
      BY <3>1 DEF Operations, Said
  <2>5. lock' \in {None, HeldLock(q), Orphaned(HeldLock(q))}
    BY <1>8 DEF Attempts, LockAfter, LockIfCaught
  <2>6. ASSUME NEW s \in Runs, q.txn = "operation.begin",
               HeldLock(q) = Lease(run[s].op, run[s].nonce, q.at), \A o \in Operations(All) : o.op # run[s].op
        PROVE  /\ lock' # None => lock'.whole
               /\ \A r \in Runs : Done(BeginCall(r)) => (lock' # None => lock'.op # run[r].op)
    <3>1. lock' # None => lock'.whole /\ lock'.op = run[s].op
      BY <2>5, <2>6 DEF Lease, Orphaned
    <3> QED
      BY <2>6, <3>1 DEF GuardInv
  <2>7. q.txn # "operation.begin" /\ lock' # None => lock # None /\ lock'.whole /\ lock'.op = lock.op
    BY <2>2, <2>5 DEF HeldLock, Orphaned, IInv, TypeOK, Leases
  <2>8. (lock' # None => lock'.whole) /\ \A r \in Runs : Done(BeginCall(r)) /\ EndedClean(r) => (lock' # None => lock'.op # run[r].op)
    <3>1. CASE q.txn = "operation.begin"
      BY <1>1, <2>1, <2>6, <3>1, BeginIsNew
    <3>2. CASE q.txn # "operation.begin"
      BY <2>7, <3>2 DEF GuardInv
    <3> QED
      BY <3>1, <3>2
  <2>9. ASSUME \A call : Done(call)' <=> Done(call), ~broker'.alive \/ Reasons' # {}
        PROVE  GuardInv'
    <3>1. \A r \in Runs : (EndedClean(r)' <=> EndedClean(r)) /\ Guarded(r)'
      BY <2>9 DEF EndedClean, Guarded
    <3> QED
      BY <2>4, <2>8, <2>9, <3>1 DEF GuardInv
  <2>10. CASE \E stage \in ErrorStages : Cut(c, stage, FALSE) /\ flight' = [flight EXCEPT !.reply = "rejected"]
    <3>1. pending' = c.at /\ c.at # 0
      <4>1. c.at \in Nat /\ LastAt(log) < c.at /\ LastAt(log) \in Nat
        BY <2>1, FactTimes DEF Tries, Appendable, Commits, IInv
      <4>2. pending' = c.at
        BY <2>10 DEF Cut
      <4> QED
        BY <4>1, <4>2
    <3>2. Reasons' # {}
      BY <3>1 DEF Reasons, ReasonsSeen
    <3> QED
      BY <1>4, <2>9, <2>10, <3>2
  <2>11. CASE flight' = flight /\ broker' = [broker EXCEPT !.alive = FALSE]
    <3>1. ~broker'.alive
      BY <2>11, FlightTypes
    <3> QED
      BY <1>4, <2>9, <2>11, <3>1
  <2>12. CASE Completes(c) /\ lock' = LockAfter(q) /\ flight' = [flight EXCEPT !.reply = "persisted"] /\ UNCHANGED broker
    <3>0. log' = Append(log, c) /\ head' = Len(log')
      BY <2>1, <2>2, <2>12 DEF Completes, IInv, TypeOK, Tries
    <3>1. \A call : Done(call)' <=> (Done(call) \/ q.call = call)
      BY <1>5, <2>12
    <3>2. \A r \in Runs : EndedClean(r) => EndedClean(r)'
      BY <3>1 DEF EndedClean
    <3>3. CASE q.txn = "operation.begin"
      <4>1. PICK s \in Runs :
              /\ q.call = BeginCall(s) /\ run[s].at = "beginning" /\ HeldLock(q) = Lease(run[s].op, run[s].nonce, q.at)
              /\ \A o \in Operations(All) : o.op # run[s].op
              /\ \E o \in Operations(All)' : o.op = run[s].op
        BY <1>1, <2>1, <3>0, <3>3, BeginIsNew
      <4>2. lock = None
        BY <2>1, <3>3 DEF Callable, EndTxns
      <4>3. lock' # None /\ lock'.alive /\ lock'.op = run[s].op
        <5>1. lock' = Lease(run[s].op, run[s].nonce, q.at)
          BY <2>12, <3>3, <4>1 DEF LockAfter, EndTxns
        <5>2. lock' # None
          <6>1. run[s].op \in Ops /\ run[s].nonce \in Nonces /\ q.at \in Nat
            BY <1>1, <4>1, RequestTypes DEF Requests
          <6>2. lock' \in Leases
            BY <5>1, <6>1 DEF Lease, Leases
          <6> QED
            BY <6>2, NoneIsNothing
        <5> QED
          BY <5>1, <5>2 DEF Lease
      <4>4. \A r \in Runs : r # s => (Done(BeginCall(r))' <=> Done(BeginCall(r)))
        BY <3>1, <4>1, CallNames
      <4>5. \A r \in Runs : Done(BeginCall(r)) => EndedClean(r) /\ run[r].op # run[s].op
        BY <1>1, <2>1, <4>1, <4>2 DEF GuardInv, Guarded
      <4>6. Guarded(s)' /\ ~EndedClean(s)'
        BY <4>1, <4>3 DEF Guarded, EndedClean
      <4> QED
        BY <2>4, <2>8, <3>2, <4>1, <4>3, <4>4, <4>5, <4>6 DEF GuardInv
    <3>4. CASE q.txn \in EndTxns
      <4>1. PICK s \in Runs :
              /\ q.call \in {EndCall(s), MarkCall(s)} /\ q.events[Len(q.events)].op = run[s].op
              /\ Told(BeginCall(s), "persisted") /\ Len(q.events) \in DOMAIN q.events
              /\ q.txn = "operation.no-effect" => q.call = EndCall(s) /\ run[s].at = "finishing"
              /\ q.txn = "operation.recovery-required" => q.events[Len(q.events)] = Ambiguous(run[s].op)
        BY <1>1, <3>4, EndIsOwn
      <4>2. lock # None /\ lock.op = run[s].op /\ lock' = None
        BY <2>1, <2>12, <3>4, <4>1 DEF Callable, LockAfter, EndTxns
      <4>3. \A r \in Runs : Done(BeginCall(r))' <=> Done(BeginCall(r))
        BY <3>1, <4>1, CallNames
      <4>4. \A r \in Runs : r # s /\ Done(BeginCall(r)) => EndedClean(r)
        BY <1>1, <1>2, <2>1, <4>1, <4>2 DEF GuardInv, Guarded
      <4>5. CASE q.txn = "operation.no-effect"
        <5>1. EndedClean(s)'
          BY <3>1, <4>1, <4>5 DEF EndedClean
        <5> QED
          BY <2>4, <3>2, <4>2, <4>3, <4>4, <5>1 DEF GuardInv
      <4>6. CASE q.txn = "operation.recovery-required"
        <5>1. Fact(c.at, Ambiguous(run[s].op)) \in Says(c)
          BY <2>1, <4>1, <4>6 DEF Says, Fact
        <5>2. Facts(log') = All \cup Says(c)
          BY <2>1, <3>0, FactsAppend DEF Tries, IInv, TypeOK, All
        <5>3. Now' = Facts(log')
          <6>1. log' \in Seq(Commits)
            BY <2>1, <3>0 DEF Tries, IInv, TypeOK
          <6> QED
            BY <3>0, <6>1, PrefixFacts DEF Now, Anchored
        <5>4. Fact(c.at, Ambiguous(run[s].op)) \in Said(Now, "ambiguous")'
          <6>1. Fact(c.at, Ambiguous(run[s].op)).says.kind = "ambiguous"
            BY DEF Fact, Ambiguous
          <6> QED
            BY <5>1, <5>2, <5>3, <6>1 DEF Said
        <5>5. Reasons' # {}
          BY <5>4 DEF Reasons, ReasonsSeen, Hold
        <5>6. \A r \in Runs : Guarded(r)'
          BY <5>5 DEF Guarded
        <5> QED
          BY <2>4, <4>2, <4>3, <5>6 DEF GuardInv
      <4> QED
        BY <3>4, <4>5, <4>6 DEF EndTxns
    <3>5. CASE q.txn \notin EndTxns \cup {"operation.begin"}
      <4>1. lock' = lock
        BY <2>12, <3>5 DEF LockAfter, HeldLock
      <4>2. \A r \in Runs : q.call # BeginCall(r) /\ q.call # EndCall(r)
        <5>1. Asks(q)
          BY <1>1 DEF CallsAsk
        <5> QED
          BY <3>5, <5>1, CallNames DEF Asks, EndTxns
      <4>3. \A r \in Runs : (Done(BeginCall(r))' <=> Done(BeginCall(r))) /\ (EndedClean(r)' <=> EndedClean(r))
        BY <3>1, <4>2 DEF EndedClean
      <4>4. \A r \in Runs : Guarded(r) => Guarded(r)'
        BY <1>1, <2>1, <4>1 DEF Guarded
      <4> QED
        BY <2>4, <2>8, <4>1, <4>3, <4>4 DEF GuardInv
    <3> QED
      BY <3>3, <3>4, <3>5
  <2> QED
    BY <1>8, <2>10, <2>11, <2>12 DEF Attempts
<1> QED
  BY <1>6, <1>7, <1>8, ServeKinds DEF q

LEMMA GuardStep ==
    ASSUME IInv, SessionTypes, CallsApart, CallsAsk, CallsUnsent, RunInv, NEW k \in Nat, SinceInv(k), GuardInv, [SessionNext]_allVars
    PROVE  GuardInv'
<1>1. CASE Quiescent
  <2>1. \A call : Done(call)' <=> Done(call)
    BY <1>1 DEF Quiescent, Done, Told
  <2> QED
    BY <1>1, <2>1, GuardQuiet DEF Quiescent
<1>2. ASSUME NEW c \in Sides, BySide(c)
      PROVE  GuardInv'
  <2>1. UNCHANGED <<vars, run, answers, flight, broker>>
    BY <1>2 DEF BySide, SideQuiet, SideSends, Quiet, brokerVars, Posts
  <2>2. \A call : Done(call)' <=> Done(call)
    BY <2>1 DEF Done, Told
  <2> QED
    BY <2>1, <2>2, GuardQuiet DEF vars
<1>3. CASE ByBroker
  <2>0. UNCHANGED run
    BY <1>3 DEF ByBroker
  <2>1. CASE Send
    <3>1. \A call : Done(call)' <=> Done(call)
      BY <2>1, NoneIsNothing DEF Send, Done, Told, Tell
    <3> QED
      BY <2>0, <2>1, <3>1, GuardQuiet DEF Send, vars
  <2>2. CASE Receive
    <3>1. \A call : Done(call)' <=> Done(call)
      <4>1. PICK v \in {"persisted", "rejected"} :
              /\ flight # None /\ flight' = None /\ answers' = answers \cup {Answer(flight.req, v)}
              /\ v = "persisted" <=> flight.reply = "persisted"
        BY <2>2 DEF Receive, Tell, Answer
      <4> QED
        BY <4>1, AnswerParts DEF Done, Told
    <3>2. broker'.alive = broker.alive
      BY <2>2, FlightTypes DEF Receive
    <3> QED
      BY <2>0, <2>2, <3>1, <3>2, GuardQuiet DEF Receive, vars
  <2>3. CASE WorkerDies \/ (LoseResponse /\ broker.alive)
    <3>1. \A call : Done(call)' <=> Done(call)
      BY <2>3 DEF WorkerDies, LoseResponse, Done, Told
    <3>2. ~broker'.alive
      BY <2>3, FlightTypes DEF WorkerDies, LoseResponse
    <3> QED
      BY <2>0, <2>3, <3>1, <3>2, GuardDead DEF WorkerDies, LoseResponse
  <2>4. CASE LoseResponse /\ ~broker.alive
    <3>1. PICK v \in {Reconciled(flight.req, flight.prior), "ambiguous"} :
            /\ flight # None /\ flight' = None /\ answers' = answers \cup {Answer(flight.req, v)} /\ UNCHANGED <<log, lock>>
            /\ broker' = [broker EXCEPT !.open = FALSE]
      BY <2>4 DEF LoseResponse, Tell, Answer
    <3>2. ~broker'.alive
      BY <2>4, <3>1, FlightTypes
    <3>3. v = "persisted" => Shows(flight.req)
      BY <3>1 DEF Reconciled
    <3>4. v = "persisted" => flight.req.txn # "operation.begin" /\ (flight.req.txn \in EndTxns => Inspection.op = None)
      BY <3>3 DEF Shows
    <3>5. v = "persisted" /\ flight.req.txn \in EndTxns => lock = None
      <4>1. Inspection.op = None => ~(lock # None /\ lock.whole /\ lock.op # None)
        BY DEF Inspection
      <4>2. lock # None => lock.whole /\ lock.op # None
        BY LedgerAssumption DEF GuardInv, IInv, TypeOK
      <4> QED
        BY <3>4, <4>1, <4>2
    <3>6. v = "persisted" => \A r \in Runs : flight.req.call # BeginCall(r) /\ (flight.req.call = EndCall(r) => lock = None)
      <4>1. Asks(flight.req)
        BY <3>1, RequestTypes DEF CallsAsk
      <4>2. \A r \in Runs : flight.req.call = BeginCall(r) => flight.req.txn = "operation.begin"
        BY <4>1, CallNames DEF Asks
      <4>3. \A r \in Runs : flight.req.call = EndCall(r) => flight.req.txn \in EndTxns
        BY <4>1, CallNames DEF Asks, EndTxns
      <4> QED
        BY <3>4, <3>5, <4>2, <4>3
    <3>7. ASSUME NEW call, Done(call)', ~Done(call)
          PROVE  v = "persisted" /\ call = flight.req.call
      BY <3>1, <3>7, AnswerParts DEF Done, Told
    <3>8. \A r \in Runs : Done(BeginCall(r))' => Done(BeginCall(r))
      BY <3>6, <3>7
    <3>9. \A r \in Runs : (EndedClean(r)' => EndedClean(r) \/ lock = None) /\ Guarded(r)'
      BY <2>0, <3>2, <3>6, <3>7 DEF EndedClean, Guarded
    <3> QED
      BY <2>0, <3>1, <3>8, <3>9 DEF GuardInv, All
  <2> QED
    BY <1>3, <2>0, <2>1, <2>2, <2>3, <2>4, ServeGuard DEF ByBroker, BrokerStep
<1> QED
  BY <1>1, <1>2, <1>3, GuardRunStep, SessionKinds

LEMMA SessionStep ==
    ASSUME SessionInv, [SessionNext]_allVars
    PROVE  SessionInv'
<1> USE DEF SessionInv
<1>1. PICK k \in Nat : SinceInv(k) /\ WritesInv(k)
  OBVIOUS
<1>2. IInv' /\ SessionTypes'
  BY <1>1, StoreStep, SessionTypesStep
<1>3. CallsApart' /\ CallsAsk' /\ CallsUnsent'
  BY <1>1, CallsStep
<1>4. RunInv' /\ HoldInv'
  BY <1>1, RunInvStep
<1>5. SinceInv(k)'
  BY <1>1, SinceStep
<1>6. WritesInv(k)' /\ AnswersInv'
  BY <1>1, WritesStep
<1>7. GuardInv'
  BY <1>1, GuardStep
<1> QED
  BY <1>2, <1>3, <1>4, <1>5, <1>6, <1>7

-----------------------------------------------------------------------------
(* A session begins with the store as a ceremony left it.                  *)

\* What a ceremony wrote: a pair, then perhaps a bundle seal, then perhaps a permit.
Ceremony ==
  /\ log \in Seq(Commits) /\ Len(log) \in 1..3
  /\ \A i \in DOMAIN log : log[i].at = i /\ log[i].gen = 1 /\ Len(log[i].events) = 1
  /\ log[1].events[1].kind = "activated" /\ log[1].events[1].gen = 1 /\ 1 < log[1].events[1].expires
  /\ 2 \in DOMAIN log => log[2].events[1].kind = "sealed" /\ log[2].txn # "recovery.publish"
  /\ 3 \in DOMAIN log => log[3].events[1].kind = "issued" /\ log[3].txn # "recovery.publish"
  /\ log[1].txn # "recovery.publish"

LEMMA CeremonyLeaves ==
    ASSUME CeremonyInit
    PROVE  Ceremony /\ Reopens /\ head = Len(log) /\ clock = Len(log) + 1 /\ pending = 0 /\ mutex = None /\ lock = None
<1>1. PICK d \in Lifetimes, s \in Seals, id \in RecordIds, p \in Permits, w \in Windows :
        LET activation == Commit(1, "generation-pair.activation", 1, <<Activated(1, 1 + d)>>)
            sealing == Commit(2, "registry.bundle_seal", 1, <<Sealed(s, 1, id.nonce, id.op, 1 + d)>>)
            issuing == Commit(3, "permit.issuance", 1, <<Issued(p, 1, id.nonce, s, 3, 3 + w.wait, 3 + w.lasts)>>) IN
        \/ log = <<activation>> /\ issued = {}
        \/ log = <<activation, sealing>> /\ issued = {}
        \/ log = <<activation, sealing, issuing>> /\ issued = {p}
  BY Zenon DEF CeremonyInit
<1> DEFINE e1 == Activated(1, 1 + d)
           e2 == Sealed(s, 1, id.nonce, id.op, 1 + d)
           e3 == Issued(p, 1, id.nonce, s, 3, 3 + w.wait, 3 + w.lasts)
           c1 == Commit(1, "generation-pair.activation", 1, <<e1>>)
           c2 == Commit(2, "registry.bundle_seal", 1, <<e2>>)
           c3 == Commit(3, "permit.issuance", 1, <<e3>>)
<1>2. 1 + d \in Nat /\ 1 < 1 + d /\ 3 + w.wait \in Nat /\ 3 + w.lasts \in Nat /\ id.nonce \in Nonces /\ id.op \in Ops
  BY LedgerAssumption, LauncherAssumption
<1>3. e1 \in Event /\ e2 \in Event /\ e3 \in Event
  BY <1>2, EventTypes
<1>4. e1.kind = "activated" /\ e1.gen = 1 /\ 1 < e1.expires /\ e2.kind = "sealed" /\ e3.kind = "issued"
  BY <1>2 DEF Activated, Sealed, Issued
<1> HIDE DEF e1, e2, e3
<1>5. c1 \in Commits /\ c2 \in Commits /\ c3 \in Commits
  BY <1>3 DEF Commit, Commits, Txns
<1>6. /\ c1.at = 1 /\ c1.gen = 1 /\ c1.events = <<e1>> /\ c1.txn # "recovery.publish"
      /\ c2.at = 2 /\ c2.gen = 1 /\ c2.events = <<e2>> /\ c2.txn # "recovery.publish"
      /\ c3.at = 3 /\ c3.gen = 1 /\ c3.events = <<e3>> /\ c3.txn # "recovery.publish"
  BY DEF Commit
<1>7. log = <<c1>> \/ log = <<c1, c2>> \/ log = <<c1, c2, c3>>
  BY <1>1 DEF e1, e2, e3
<1> HIDE DEF c1, c2, c3
<1>a. Len(<<e1>>) = 1 /\ <<e1>>[1] = e1 /\ Len(<<e2>>) = 1 /\ <<e2>>[1] = e2 /\ Len(<<e3>>) = 1 /\ <<e3>>[1] = e3
  OBVIOUS
<1>b. Reopens /\ head = Len(log) /\ clock = Len(log) + 1 /\ pending = 0 /\ mutex = None /\ lock = None
  BY DEF CeremonyInit, Reopens
<1>8. CASE log = <<c1>>
  <2>1. log \in Seq(Commits) /\ Len(log) = 1 /\ DOMAIN log = {1} /\ log[1] = c1
    BY <1>5, <1>8
  <2>2. \A i \in {1} : log[i].at = i /\ log[i].gen = 1 /\ log[i].txn # "recovery.publish"
    BY <1>6, <2>1
  <2>3. log[1].events[1] = e1 /\ Len(log[1].events) = 1
    BY <1>6, <1>a, <2>1
  <2> QED
    BY <1>b, <1>4, <2>1, <2>2, <2>3 DEF Ceremony
<1>9. CASE log = <<c1, c2>>
  <2>1. log \in Seq(Commits) /\ Len(log) = 2 /\ DOMAIN log = {1, 2} /\ log[1] = c1 /\ log[2] = c2
    BY <1>5, <1>9
  <2>2. \A i \in {1, 2} : log[i].at = i /\ log[i].gen = 1 /\ log[i].txn # "recovery.publish"
    BY <1>6, <2>1
  <2>3. log[1].events[1] = e1 /\ Len(log[1].events) = 1 /\ log[2].events[1] = e2 /\ Len(log[2].events) = 1
    BY <1>6, <1>a, <2>1
  <2> QED
    BY <1>b, <1>4, <2>1, <2>2, <2>3 DEF Ceremony
<1>10. CASE log = <<c1, c2, c3>>
  <2>1. log \in Seq(Commits) /\ Len(log) = 3 /\ DOMAIN log = {1, 2, 3} /\ log[1] = c1 /\ log[2] = c2 /\ log[3] = c3
    BY <1>5, <1>10
  <2>2. \A i \in {1, 2, 3} : log[i].at = i /\ log[i].gen = 1 /\ log[i].txn # "recovery.publish"
    BY <1>6, <2>1
  <2>3. log[1].events[1] = e1 /\ Len(log[1].events) = 1 /\ log[2].events[1] = e2 /\ Len(log[2].events) = 1 /\ log[3].events[1] = e3 /\ Len(log[3].events) = 1
    BY <1>6, <1>a, <2>1
  <2> QED
    BY <1>b, <1>4, <2>1, <2>2, <2>3 DEF Ceremony
<1> QED
  BY <1>7, <1>8, <1>9, <1>10

LEMMA CeremonyFacts ==
    ASSUME Ceremony
    PROVE  /\ \A f : f \in All <=> \E i \in DOMAIN log : f = Fact(i, log[i].events[1])
           /\ IsFiniteSet(All)
           /\ Said(All, "activated") = {Fact(1, log[1].events[1])}
           /\ \A k \in {"pairRevoked", "transition", "started", "noEffect", "ambiguous"} : Said(All, k) = {}
           /\ \A f, h \in Said(All, "issued") : f = h
<1>1. DOMAIN log = 1..Len(log) /\ Len(log) \in 1..3 /\ \A i \in DOMAIN log : log[i] \in Commits
  BY DEF Ceremony
<1>2. ASSUME NEW f
      PROVE  f \in All <=> \E i \in DOMAIN log : f = Fact(i, log[i].events[1])
  <2>1. \A i \in DOMAIN log : DOMAIN log[i].events = {1}
    BY <1>1 DEF Ceremony, Commits
  <2>2. \A i \in DOMAIN log : Says(log[i]) = {Fact(i, log[i].events[1])}
    BY <2>1 DEF Says, Fact, Ceremony
  <2> QED
    BY <2>2, FactsMember DEF All
<1>3. IsFiniteSet(All)
  <2> DEFINE image == [i \in DOMAIN log |-> Fact(i, log[i].events[1])]
  <2>1. image \in Surjection(DOMAIN log, All)
    BY <1>2 DEF Surjection
  <2> QED
    BY <1>1, <2>1, FS_Interval, FS_Surjection
<1>4. \A i \in DOMAIN log : i = 1 \/ i = 2 \/ i = 3
  BY <1>1
<1>5. \A i \in DOMAIN log : Fact(i, log[i].events[1]).says = log[i].events[1]
  BY DEF Fact
<1>6. /\ 1 \in DOMAIN log /\ log[1].events[1].kind = "activated"
      /\ 2 \in DOMAIN log => log[2].events[1].kind = "sealed"
      /\ 3 \in DOMAIN log => log[3].events[1].kind = "issued"
  BY <1>1 DEF Ceremony
<1>7. Said(All, "activated") = {Fact(1, log[1].events[1])}
  BY <1>2, <1>4, <1>5, <1>6 DEF Said
<1>8. \A k \in {"pairRevoked", "transition", "started", "noEffect", "ambiguous"} : Said(All, k) = {}
  BY <1>2, <1>4, <1>5, <1>6 DEF Said
<1>9. \A f, h \in Said(All, "issued") : f = h
  BY <1>2, <1>4, <1>5, <1>6 DEF Said
<1> QED
  BY <1>2, <1>3, <1>7, <1>8, <1>9

LEMMA CeremonyInvariant ==
    ASSUME CeremonyInit
    PROVE  IInv
<1>1. Ceremony /\ Reopens /\ head = Len(log) /\ clock = Len(log) + 1 /\ pending = 0 /\ mutex = None /\ lock = None
  BY CeremonyLeaves
<1>2. DOMAIN log = 1..Len(log) /\ Len(log) \in 1..3 /\ \A i \in DOMAIN log : log[i].at = i /\ log[i].gen = 1
  BY <1>1 DEF Ceremony
<1> DEFINE a == Fact(1, log[1].events[1])
<1>3. a.at = 1 /\ a.says.gen = 1 /\ 1 < a.says.expires /\ Said(All, "activated") = {a}
  BY <1>1, CeremonyFacts DEF Fact, Ceremony
<1>4. Operations(All) = {} /\ \A p : Transitions(All, p) = {}
  BY <1>1, CeremonyFacts DEF Operations, Transitions
<1>5. TypeOK
  BY <1>1, <1>2 DEF TypeOK, Ceremony
<1>6. TimesInv
  BY <1>1, <1>2 DEF TimesInv
<1>7. GenesisInv
  BY <1>1, <1>2 DEF GenesisInv, Ceremony
<1>8. LastGen(All) = 1
  BY <1>3, FS_Singleton DEF LastGen
<1>9. PairsInv
  <2>1. Pairs(All) = {[gen |-> 1, activated |-> 1, expires |-> a.says.expires]}
    BY <1>3 DEF Pairs
  <2> QED
    BY <1>1, <1>3, <1>8, <2>1, CeremonyFacts DEF PairsInv
<1>10. RevokedInv /\ EndsInv
  BY <1>1, CeremonyFacts DEF RevokedInv, EndsInv
<1>11. DiskInv
  BY <1>1, <1>2 DEF DiskInv
<1>12. StartsInv
  BY <1>4 DEF StartsInv
<1>13. NonceOnce
  <2>1. \A r, q \in Issuances(All) : r = q
    BY <1>1, CeremonyFacts DEF Issuances
  <2> QED
    BY <1>4, <2>1 DEF NonceOnce
<1>14. PermitInv
  BY <1>4 DEF PermitInv, Steps
<1>15. RevokedIsSilent
  <2>1. \A n \in DOMAIN log : DOMAIN log[n].events = {1}
    BY <1>1, <1>2 DEF Ceremony, Commits
  <2>2. \A n \in DOMAIN log : log[n].events[1].kind # "pairRevoked" /\ (log[n].events[1].kind = "activated" => log[n].events[1].gen = 1)
    BY <1>1, <1>2 DEF Ceremony
  <2>3. \A m, n \in DOMAIN log : ~Superseded(m, log[n].gen)
    BY <1>2, <2>1, <2>2 DEF Superseded
  <2> QED
    BY <2>3 DEF RevokedIsSilent
<1> QED
  BY <1>1, <1>5, <1>6, <1>7, <1>9, <1>10, <1>11, <1>12, <1>13, <1>14, <1>15 DEF IInv

LEMMA SessionBegins ==
    ASSUME SessionInit
    PROVE  SessionInv
<1>1. IInv /\ head = Len(log) /\ clock = Len(log) + 1 /\ lock = None /\ Ceremony
  BY CeremonyInvariant, CeremonyLeaves DEF SessionInit
<1>2. broker = [open |-> TRUE, alive |-> TRUE, gen |-> 1] /\ queue = <<>> /\ flight = None /\ answers = {}
  BY DEF SessionInit, BrokerInit
<1>3. /\ hold = FALSE /\ run = [r \in Runs |-> Idle]
      /\ side = [c \in Sides |-> [at |-> "idle", does |-> Nothing, time |-> 0]]
  BY DEF SessionInit, LauncherInit
<1>4. Outstanding = {} /\ \A call : Unsent(call) /\ ~Done(call)
  BY <1>2 DEF Outstanding, Unsent, Answered, Done, Told
<1>5. SessionTypes
  <2>1. Idle \in RunStates
    BY DEF Idle, RunStates, RunPlaces, BeforeEnd, BeforeBegin
  <2>2. [at |-> "idle", does |-> Nothing, time |-> 0] \in SideStates
    BY DEF SideStates, SidePlaces, Nothing
  <2>3. \A r \in Runs : run[r].at = "idle" /\ run[r].given = 0
    BY <1>3 DEF Idle
  <2>4. \A c \in Sides : side[c].at = "idle"
    BY <1>3
  <2>5. run \in [Runs -> RunStates] /\ side \in [Sides -> SideStates]
    BY <1>3, <2>1, <2>2
  <2>6. broker \in [open : BOOLEAN, alive : BOOLEAN, gen : Nat]
    BY <1>2
  <2>7. queue \in Seq(Requests) /\ flight \in Flights \cup {None} /\ answers \subseteq Answers /\ hold \in BOOLEAN
    <3>1. <<>> \in Seq(Requests)
      OBVIOUS
    <3>2. {} \subseteq Answers
      OBVIOUS
    <3> QED
      BY <1>2, <1>3, <3>1, <3>2
  <2>8. \A r \in Runs :
          /\ run[r].at \notin {"idle", "authenticating", "refused"} => run[r].op \in Ops /\ run[r].nonce \in Nonces
          /\ run[r].given > 0 \/ run[r].at = "delivering" => run[r].permit \in Permits
    BY <2>3
  <2>9. \A c \in Sides : side[c].at = "authenticating" => SideForm(TxnOf(side[c].does), side[c].does)
    BY <2>4
  <2> QED
    BY <2>5, <2>6, <2>7, <2>8, <2>9 DEF SessionTypes
<1>6. \A r \in Runs : run[r].at = "idle" /\ run[r].given = 0
  BY <1>3 DEF Idle
<1>7. CallsApart /\ CallsAsk /\ CallsUnsent
  BY <1>2, <1>4 DEF CallsApart, CallsAsk, CallsUnsent
<1>8. RunInv /\ HoldInv
  BY <1>3, <1>6 DEF RunInv, HoldInv, PastBegin, Failing
<1>9. SinceInv(Len(log)) /\ Len(log) \in Nat
  <2>1. \A c \in Sides : side[c].at = "idle"
    BY <1>3
  <2> QED
    BY <1>1, <1>2, <1>4, <2>1 DEF SinceInv, Ceremony
<1>10. WritesInv(Len(log))
  BY <1>2, <1>9 DEF WritesInv, Settled, Ceremony
<1>11. AnswersInv /\ GuardInv
  BY <1>1, <1>2, <1>4 DEF AnswersInv, GuardInv
<1> QED
  BY <1>1, <1>5, <1>7, <1>8, <1>9, <1>10, <1>11 DEF SessionInv

LEMMA AlwaysSession == SessionSpec => []SessionInv
  BY SessionBegins, SessionStep, PTL DEF SessionSpec

\* What holds of the store whoever writes to it holds of the store the launcher
\* writes to through its broker: it can be read again, permits serve once, ended
\* generations are silent and cleanup stays possible.
THEOREM SessionsKeepTheStore ==
    SessionSpec => [](Reopens /\ PermitsServeOnce /\ RevokedIsSilent /\ CleanupPossible)
<1>1. SessionInv => Reopens /\ PermitsServeOnce /\ RevokedIsSilent /\ CleanupPossible
  BY PermitsFollow, OrphansRecover, PublishesRecover DEF SessionInv, IInv, CleanupPossible
<1> QED
  BY <1>1, AlwaysSession, PTL

-----------------------------------------------------------------------------
(* What a caller may rely on.                                              *)

LEMMA Truthful ==
    ASSUME SessionInv
    PROVE  AnswersTruthful
<1> USE DEF SessionInv
<1>1. PICK k \in Nat : SinceInv(k) /\ WritesInv(k)
  OBVIOUS
<1>2. ASSUME NEW a \in answers, a.says = "persisted"
      PROVE  \E n \in 1..head : Wrote(a, n)
  BY <1>2 DEF AnswersInv
<1>3. ASSUME NEW a \in answers, a.says \in {"absent", "closed"}, NEW n \in DOMAIN log, Wrote(a, n)
      PROVE  \E b \in answers : b.call # a.call /\ Wrote(b, n)
  <2>1. flight = None
    BY <1>3 DEF AnswersInv
  <2>2. Settled(k, Len(log)) /\ DOMAIN log = 1..Len(log) /\ Len(log) \in Nat
    BY <1>1, <2>1, FlightTypes DEF WritesInv
  <2>3. a.at \in Nat /\ k < a.at /\ log[n].at = a.at
    BY <1>1, <1>3 DEF SinceInv, SessionTypes, Answers, Wrote
  <2>4. ~(n <= k)
    BY <1>1, <2>3 DEF SinceInv
  <2>5. PICK b \in answers : WrittenBy(b, n)
    BY <2>2, <2>4 DEF Settled
  <2>6. b.call # a.call
    BY <1>3, <2>5 DEF CallsApart, WrittenBy
  <2> QED
    BY <2>5, <2>6 DEF WrittenBy
<1> QED
  BY <1>2, <1>3 DEF AnswersTruthful

\* A definite answer of the append broker stays true: what was told to be
\* persisted is an anchored commit, and what was told to be absent or never sent
\* was written by no one but another call (state-append-broker.mjs:374).
THEOREM AnswersAreTruthful == SessionSpec => []AnswersTruthful
  BY AlwaysSession, Truthful, PTL

LEMMA ToldIsAnchored ==
    ASSUME SessionInv, NEW a \in answers, a.says = "persisted"
    PROVE  \A j \in DOMAIN a.events : Fact(a.at, a.events[j]) \in Now
<1>1. PICK n \in 1..head : Wrote(a, n)
  BY DEF SessionInv, AnswersInv
<1>2. log \in Seq(Commits) /\ head \in 0..Len(log)
  BY DEF SessionInv, IInv, TypeOK, DiskInv
<1>3. Says(log[n]) \subseteq Now
  BY <1>1, <1>2, FactsPrefix DEF Now, Anchored
<1> QED
  BY <1>1, <1>3 DEF Wrote, Says, Fact

LEMMA AnchorsFact ==
    ASSUME NEW t, NEW e, Fact(t, e) \in Now
    PROVE  Anchors(e)
  BY DEF Anchors, Fact

\* What the facts on record say of a permit, and of an operation it served.
LEMMA PermitOnRecord ==
    ASSUME IInv, NEW p \in Permits, NEW o, NEW t
    PROVE  /\ Fact(t, Transition(p, "claim", o)) \in Now => PermitState(Now, p) \in {"in_progress", "recovery_required"}
           /\ Fact(t, Transition(p, "ambiguous", o)) \in Now => PermitState(Now, p) = "recovery_required"
<1>1. Now \subseteq All
  BY NowTypes
<1>2. Transitions(Now, p) \subseteq Steps(p)
  BY <1>1 DEF Steps, Transitions, Said
<1>3. \A step : Fact(t, Transition(p, step, o)) \in Now => step \in Transitions(Now, p)
  <2>1. ASSUME NEW step, Fact(t, Transition(p, step, o)) \in Now
        PROVE  step \in Transitions(Now, p)
    <3>1. Fact(t, Transition(p, step, o)) \in Said(Now, "transition")
      BY <2>1, EventParts DEF Said
    <3> QED
      BY <3>1, EventParts, StepOf
  <2> QED
    BY <2>1
<1>4. "claim" \in Transitions(Now, p) \/ "ambiguous" \in Transitions(Now, p) => "withdraw" \notin Transitions(Now, p)
  BY <1>2 DEF IInv, PermitInv
<1>5. PermitState(Now, p) = IF "withdraw" \in Transitions(Now, p) THEN "revoked"
                            ELSE IF "ambiguous" \in Transitions(Now, p) THEN "recovery_required"
                            ELSE IF "claim" \in Transitions(Now, p) THEN "in_progress" ELSE "ready"
  BY DEF PermitState
<1> QED
  BY <1>3, <1>4, <1>5

LEMMA PermittedNotClean ==
    ASSUME IInv, NEW o, NEW n, NEW g, NEW p, p # None, NEW t, Fact(t, Started(o, n, g, p)) \in Now
    PROVE  ~Anchors(NoEffect(o))
<1>1. Now \subseteq All
  BY NowTypes
<1>2. Fact(t, Started(o, n, g, p)) \in Said(All, "started")
  BY <1>1, EventParts DEF Said
<1>3. PICK u \in Operations(All) : u.op = o /\ u.permit = p
  <2> DEFINE f == Fact(t, Started(o, n, g, p))
             u == [op |-> f.says.op, nonce |-> f.says.nonce, gen |-> f.says.gen, permit |-> f.says.permit,
                   started |-> f.at]
  <2>1. u \in Operations(All)
    BY <1>2 DEF Operations
  <2>2. f.says.op = o /\ f.says.permit = p
    BY EventParts
  <2> QED
    BY <2>1, <2>2
<1>4. ~EndedAs(u, "noEffect")
  BY <1>3 DEF IInv, PermitInv
<1>5. ASSUME NEW f \in Now, f.says = NoEffect(o)
      PROVE  FALSE
  <2>1. f \in Said(All, "noEffect") /\ f.says.op = u.op
    BY <1>1, <1>3, <1>5, EventParts DEF Said
  <2> QED
    BY <1>4, <2>1 DEF EndedAs
<1> QED
  BY <1>5 DEF Anchors

LEMMA TrueOutcomes ==
    ASSUME SessionInv
    PROVE  OutcomesTrue
<1> USE DEF SessionInv
<1>0. \A r \in Runs : run[r].permit \in Permits \cup {None}
  BY DEF SessionTypes, RunStates
<1>1. ASSUME NEW r \in Runs, run[r].given > 0
      PROVE  /\ Anchors(Transition(run[r].permit, "claim", run[r].op))
             /\ Anchors(Started(run[r].op, run[r].nonce, broker.gen, run[r].permit))
             /\ ~Anchors(NoEffect(run[r].op))
             /\ PermitState(Now, run[r].permit) \in {"in_progress", "recovery_required"}
  <2>1. Told(BeginCall(r), "persisted") /\ run[r].permit \in Permits /\ run[r].permit # None
    BY <1>1, LedgerAssumption DEF RunInv, SessionTypes
  <2>2. PICK a \in answers : a.call = BeginCall(r) /\ a.says = "persisted"
    BY <2>1 DEF Told
  <2>3. Asks(a)
    BY DEF CallsAsk
  <2>4. a.events = BeginEvents(run[r].op, run[r].nonce, broker.gen, run[r].permit)
    BY <2>2, <2>3, CallNames DEF Asks
  <2> DEFINE d == Transition(run[r].permit, "claim", run[r].op)   e == Started(run[r].op, run[r].nonce, broker.gen, run[r].permit)
  <2>5. a.events = <<d, e>>
    BY <2>1, <2>4 DEF BeginEvents
  <2> HIDE DEF d, e
  <2>6. Fact(a.at, d) \in Now /\ Fact(a.at, e) \in Now
    BY <2>2, <2>5, ToldIsAnchored
  <2> USE DEF d, e
  <2> QED
    BY <2>1, <2>6, AnchorsFact, PermitOnRecord, PermittedNotClean
<1>2. ASSUME NEW r \in Runs, run[r].at = "noEffect"
      PROVE  Anchors(NoEffect(run[r].op)) /\ (lock # None => lock.op # run[r].op)
  <2>1. PICK a \in answers : a.call = EndCall(r) /\ a.says = "persisted" /\ a.txn = "operation.no-effect"
    BY <1>2 DEF RunInv
  <2>2. Asks(a)
    BY DEF CallsAsk
  <2>3. a.events = <<NoEffect(run[r].op)>>
    BY <2>1, <2>2, CallNames DEF Asks
  <2>4. Fact(a.at, NoEffect(run[r].op)) \in Now
    BY <2>1, <2>3, ToldIsAnchored
  <2>5. Done(BeginCall(r)) /\ EndedClean(r)
    BY <1>2, <2>1 DEF RunInv, PastBegin, Done, Told, EndedClean
  <2> QED
    BY <2>4, <2>5, AnchorsFact DEF GuardInv
<1>3. ASSUME NEW r \in Runs, run[r].at = "recoveryRequired"
      PROVE  /\ Anchors(Ambiguous(run[r].op)) /\ hold
             /\ run[r].permit # None => PermitState(Now, run[r].permit) = "recovery_required"
  <2>1. PICK a \in answers :
          a.call \in {EndCall(r), MarkCall(r)} /\ a.says = "persisted" /\ a.txn = "operation.recovery-required"
    BY <1>3 DEF RunInv
  <2>2. Asks(a)
    BY DEF CallsAsk
  <2>3. a.events = MarkEvents(r)
    <3>1. PICK s \in Runs : a.call \in {EndCall(s), MarkCall(s)} /\ a.events = MarkEvents(s)
      <4>1. \A c \in Sides : a.call # <<c, "side">>
        BY <2>1, CallNames
      <4> QED
        BY <2>1, <2>2, <4>1 DEF Asks
    <3>2. s = r
      BY <2>1, <3>1, CallNames
    <3> QED
      BY <3>1, <3>2
  <2>4. hold
    BY <1>3 DEF RunInv, Failing
  <2> DEFINE d == Transition(run[r].permit, "ambiguous", run[r].op)   e == Ambiguous(run[r].op)
  <2>5. Fact(a.at, e) \in Now
    <3>1. Len(a.events) \in DOMAIN a.events /\ a.events[Len(a.events)] = e
      BY <2>3 DEF MarkEvents
    <3> QED
      BY <2>1, <3>1, ToldIsAnchored
  <2>6. run[r].permit # None => Fact(a.at, d) \in Now
    <3>1. run[r].permit # None => 1 \in DOMAIN a.events /\ a.events[1] = d
      BY <2>3 DEF MarkEvents
    <3> QED
      BY <2>1, <3>1, ToldIsAnchored
  <2> QED
    BY <1>0, <2>4, <2>5, <2>6, AnchorsFact, PermitOnRecord
<1> QED
  BY <1>1, <1>2, <1>3 DEF OutcomesTrue, HandlesUnderClaim, Runs

\* The outcome a run reports is the one on record, and handles are given only
\* under the claim of a permit, which never serves again and is never reported as
\* without effect (launcher.mjs, runSyntheticPermitScopedBootstrapAudit).
THEOREM OutcomesAreTrue == SessionSpec => []OutcomesTrue
  BY AlwaysSession, TrueOutcomes, PTL

\* Only a begin says that something started.
LEMMA NothingStarts ==
    ASSUME IInv, NEW c, Extends(c), c.txn # "operation.begin"
    PROVE  Said(All, "started")' = Said(All, "started")
<1>1. CASE Activation(c) \/ Withdrawal(c) \/ PlainEnd(c) \/ Issuing(c) \/ Neutral(c)
  <2>1. PICK e : AddsOne(c, e) /\ e.kind # "started"
    BY <1>1, EventParts DEF Activation, Withdrawal, PlainEnd, Issuing, Neutral, Unrelated
  <2> QED
    BY <2>1, SaidOne
<1>2. CASE PermitEnd(c)
  BY <1>2, SaidTwo, EventParts DEF PermitEnd
<1> QED
  BY <1>1, <1>2, Forms DEF IInv

LEMMA HoldStops ==
    ASSUME SessionInv, [SessionNext]_allVars, hold
    PROVE  Said(All, "started")' = Said(All, "started")
<1> USE DEF SessionInv
<1>1. PICK k \in Nat : SinceInv(k) /\ WritesInv(k)
  OBVIOUS
<1>2. PICK r \in Runs : run[r].at \in Failing
  BY DEF HoldInv
<1>3. Done(BeginCall(r)) /\ ~EndedClean(r)
  BY <1>2 DEF RunInv, PastBegin, Done, EndedClean, Failing
<1>4. Guarded(r)
  BY <1>3 DEF GuardInv
<1>5. CASE log' = log
  BY <1>5 DEF All
<1>6. ASSUME NEW c, Serve, Attempts(flight.req, c), Extends(c)
      PROVE  Said(All, "started")' = Said(All, "started")
  <2>1. Reasons = {} /\ Callable(flight.req) /\ broker.alive /\ c.txn = flight.req.txn
    BY <1>6 DEF Attempts, Serve
  <2>2. lock # None
    BY <1>4, <2>1 DEF Guarded
  <2>3. c.txn # "operation.begin"
    BY <2>1, <2>2 DEF Callable, EndTxns
  <2> QED
    BY <1>6, <2>3, NothingStarts
<1> QED
  BY <1>1, <1>5, <1>6, LogKinds

\* Once a run has failed no operation is begun any more, by whoever called before
\* (launcher.mjs, #recoveryHold; state-store.mjs, recoveryReasons).
THEOREM NoWorkIsBegunAfterHold == SessionSpec => NoWorkAfterHold
<1>1. SessionInv /\ [SessionNext]_allVars => [hold => Said(Facts(log)', "started") = Said(Facts(log), "started")]_allVars
  BY HoldStops DEF All, Said
<1> QED
  BY <1>1, AlwaysSession, PTL DEF SessionSpec, NoWorkAfterHold
=============================================================================
